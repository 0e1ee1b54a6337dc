----------------------------- MODULE RelayRooms -----------------------------
(***************************************************************************)
(* Rooms: which peers of the relay hear each other's in-game broadcasts    *)
(* (kRelay, recompute_rooms and merge_rooms in                             *)
(* src/mc_engine/online/relay_server/relay_server.cpp).                    *)
(*                                                                         *)
(* A room is the set of peers that exchanged game data lately.  The relay  *)
(* merges two rooms when a datagram first joins them and splits them in a  *)
(* pass it makes a few times a second, so between two passes rooms, links  *)
(* and peers may be out of step: peers leave without their links, and come *)
(* back with the vip they had (RelayPeers), before the next pass.          *)
(*                                                                         *)
(* Time is left out but for what it does: a link, or the permission a LAN  *)
(* search gives, may at any moment turn out to be too old.                 *)
(***************************************************************************)
EXTENDS RoomGraphs

CONSTANTS DataPairs, LanPairs   \* bounds: who may send whom game data, answers

ASSUME PairsAreLinks == DataPairs \subseteq AllLinks /\ LanPairs \subseteq AllLinks

VARIABLES
  peers,    \* the vips of the peers
  room,     \* [Vips -> Vips or 0]: Peer::room
  links,    \* game data passed between these two, and not yet swept
  old,      \* the links whose last packet is more than kLinkTtlMs ago
  reach,    \* lan_reach: the pairs a LAN search answer let hear each other
  talked    \* history: pairs that exchanged data, both here since, not old

vars == <<peers, room, links, old, reach, talked>>

NoRoom == 0

TypeOK ==
  /\ peers \subseteq Vips
  /\ room \in [Vips -> Vips \cup {NoRoom}]
  /\ \A v \in Vips : room[v] # NoRoom <=> v \in peers
  /\ links \subseteq AllLinks
  /\ old \subseteq links
  /\ reach \subseteq AllLinks
  /\ talked \subseteq {l \in links \ old : l \subseteq peers}

Init ==
  /\ peers = {}
  /\ room = [v \in Vips |-> NoRoom]
  /\ links = {} /\ old = {} /\ reach = {} /\ talked = {}

-----------------------------------------------------------------------------
\* Fault: a new peer is not put in a room of its own.
Join_NoRoom(v) ==
  /\ v \in Vips \ peers
  /\ peers' = peers \cup {v}
  /\ UNCHANGED <<room, links, old, reach, talked>>

\* identify makes a new peer; until it plays it is a room of its own.
Join(v) ==
  /\ v \in Vips \ peers
  /\ peers' = peers \cup {v}
  /\ room' = [room EXCEPT ![v] = v]
  /\ UNCHANGED <<links, old, reach, talked>>

\* remove_peer, for whatever reason: links, lan_reach and the rooms of the
\* others stay as they are.
Leave(gone) ==
  /\ gone # {} /\ gone \subseteq peers
  /\ peers' = peers \ gone
  /\ room' = [v \in Vips |-> IF v \in gone THEN NoRoom ELSE room[v]]
  /\ talked' = {l \in talked : l \cap gone = {}}
  /\ UNCHANGED <<links, old, reach>>

\* The relay dies and comes back with nothing.
Restart ==
  /\ peers' = {}
  /\ room' = [v \in Vips |-> NoRoom]
  /\ links' = {} /\ old' = {} /\ reach' = {} /\ talked' = {}

\* Fault: only the sender moves, not the others of its room.
MergeRooms_SenderOnly(a, b, s) ==
  [room EXCEPT ![s] = Lowest({a, b})]

\* merge_rooms: every peer of room a and of room b is now in the lower one.
MergeRooms(a, b, s) ==
  [v \in Vips |-> IF v \in peers /\ room[v] \in {a, b} THEN Lowest({a, b}) ELSE room[v]]

\* kRelay to a vip, off the discovery port; d may be the sender itself.
Unicast(s, d) ==
  /\ s \in peers /\ d \in peers /\ LinkKey(s, d) \in DataPairs
  /\ links' = links \cup {LinkKey(s, d)}
  /\ old' = old \ {LinkKey(s, d)}
  /\ talked' = talked \cup {LinkKey(s, d)}
  /\ room' = MergeRooms(room[s], room[d], s)
  /\ UNCHANGED <<peers, reach>>

\* Fault: the answer to a LAN search groups host and finder, as it once did.
LanReply_Merges(s, d) ==
  /\ s \in peers /\ d \in peers /\ LinkKey(s, d) \in LanPairs
  /\ room' = MergeRooms(room[s], room[d], s)
  /\ UNCHANGED <<peers, links, old, reach, talked>>

\* kRelay to a vip on the discovery port: a host answers a LAN search.
LanReply(s, d) ==
  /\ s \in peers /\ d \in peers /\ LinkKey(s, d) \in LanPairs
  /\ reach' = reach \cup {LinkKey(s, d)}
  /\ UNCHANGED <<peers, room, links, old, talked>>

\* The pair's last packet is now more than kLinkTtlMs ago.
AgeLink(l) ==
  /\ l \in links \ old
  /\ old' = old \cup {l}
  /\ talked' = talked \ {l}
  /\ UNCHANGED <<peers, room, links, reach>>

\* kLanReachMs after the last answer.  When the relay erases the entry does
\* not matter: it is compared with the clock at every use.
AgeReach(l) ==
  /\ l \in reach
  /\ reach' = reach \ {l}
  /\ UNCHANGED <<peers, room, links, old, talked>>

\* Fault: a link is never too old.
Kept_Old == {l \in links : l \subseteq peers}

\* The links a pass keeps: recent, and between peers that are here.
Kept == {l \in links \ old : l \subseteq peers}

\* Fault: only peers with links are given a room.
Recompute_OnlyGroups ==
  /\ links' = Kept
  /\ old' = old \cap Kept
  /\ room' = [v \in Vips |-> IF v \in UNION Kept THEN Lowest(Component(Kept, v)) ELSE room[v]]
  /\ UNCHANGED <<peers, reach, talked>>

\* recompute_rooms (its union-find is in RoomUnionFind).
Recompute ==
  /\ links' = Kept
  /\ old' = old \cap Kept
  /\ room' = [v \in Vips |-> IF v \in peers THEN Lowest(Component(Kept, v)) ELSE NoRoom]
  /\ UNCHANGED <<peers, reach, talked>>

Next ==
  \/ \E v \in Vips : Join(v)
  \/ \E gone \in SUBSET peers : Leave(gone)
  \/ Restart
  \/ \E s, d \in peers : Unicast(s, d)
  \/ \E s, d \in peers : LanReply(s, d)
  \/ \E l \in links : AgeLink(l)
  \/ \E l \in reach : AgeReach(l)
  \/ Recompute

Spec == Init /\ [][Next]_vars

\* The clock runs, and the main loop makes its pass every 250 ms or so.
FairSpec ==
  Spec /\ WF_vars(Recompute) /\ \A l \in AllLinks : WF_vars(AgeLink(l))

-----------------------------------------------------------------------------
\* kRelay broadcast off the discovery port: who gets it.
Receivers(s) ==
  {r \in peers \ {s} : room[r] = room[s] \/ LinkKey(s, r) \in reach}

\* Two peers that exchanged game data hear each other's broadcasts at once
\* and for as long as both stay and their traffic goes on, whoever else
\* joins, leaves or falls silent ("a broadcast sent right after the first
\* unicast already reaches the new member", merge_rooms).
GamesTogether ==
  \A s, r \in peers :
    s # r /\ LinkKey(s, r) \in talked => r \in Receivers(s)

\* "Simultaneous games don't leak into each other": a broadcast only reaches
\* peers the sender is linked to by game data, directly or through others,
\* or that one of the two answered in a LAN search.  In particular a room
\* still called after a peer that left is not entered by who joins next.
GamesApart ==
  \A s \in peers : \A r \in Receivers(s) :
    Connected(links, s, r) \/ LinkKey(s, r) \in reach

\* A room is called after one of those its members are linked to, so two
\* rooms never have the same name (strengthens GamesApart).
RoomsNamed ==
  \A v \in peers : Connected(links, v, room[v])

\* A room splits by itself when the traffic stops: if peers send no more game
\* data, in the end each is alone.
RoomsSplit ==
  \/ []<><<\E s, d \in peers : Unicast(s, d)>>_vars
  \/ <>[](\A v \in peers : room[v] = v)
=============================================================================
