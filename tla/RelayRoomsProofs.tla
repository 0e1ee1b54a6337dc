-------------------------- MODULE RelayRoomsProofs --------------------------
(***************************************************************************)
(* Rooms keep games together and apart for any set of vips and any pattern *)
(* of traffic.  Connection is an equivalence that grows with the links;    *)
(* the invariant behind GamesApart is RoomsNamed: every peer is linked to  *)
(* the vip its room is called after, be that vip here or gone.             *)
(***************************************************************************)
EXTENDS RelayRooms, TLAPS

LEMMA ConnectedRefl ==
  ASSUME NEW E, NEW a \in Vips
  PROVE  Connected(E, a, a)
BY DEF Connected

LEMMA ConnectedSym ==
  ASSUME NEW E, NEW a \in Vips, NEW b \in Vips, Connected(E, a, b)
  PROVE  Connected(E, b, a)
<1> SUFFICES ASSUME NEW S \in SUBSET Vips, Closed(E, S), b \in S, a \notin S
             PROVE  FALSE
  BY DEF Connected
<1>1. Vips \ S \in SUBSET Vips /\ Closed(E, Vips \ S) /\ a \in Vips \ S
  BY DEF Closed
<1>2. b \in Vips \ S
  BY <1>1 DEF Connected
<1> QED
  BY <1>2

LEMMA ConnectedTrans ==
  ASSUME NEW E, NEW a \in Vips, NEW b \in Vips, NEW c \in Vips,
         Connected(E, a, b), Connected(E, b, c)
  PROVE  Connected(E, a, c)
BY DEF Connected

\* More links connect at least as much.
LEMMA ConnectedMono ==
  ASSUME NEW E, NEW F, E \subseteq F, NEW a \in Vips, NEW b \in Vips, Connected(E, a, b)
  PROVE  Connected(F, a, b)
BY DEF Connected, Closed

LEMMA ConnectedByLink ==
  ASSUME NEW E, NEW a \in Vips, NEW b \in Vips, LinkKey(a, b) \in E
  PROVE  Connected(E, a, b)
BY DEF Connected, Closed

LEMMA LowestIn ==
  ASSUME NEW S \in SUBSET Vips, S # {}
  PROVE  Lowest(S) \in S
BY VipsOrdered DEF Lowest

\* A component is called after one of its own, and linked peers agree on it.
LEMMA ComponentName ==
  ASSUME NEW E, NEW a \in Vips
  PROVE  /\ Lowest(Component(E, a)) \in Vips
         /\ Connected(E, a, Lowest(Component(E, a)))
         /\ \A b \in Vips : Connected(E, a, b) => Component(E, a) = Component(E, b)
<1>1. Component(E, a) \in SUBSET Vips /\ a \in Component(E, a)
  BY ConnectedRefl DEF Component
<1>2. Lowest(Component(E, a)) \in Component(E, a)
  BY <1>1, LowestIn
<1>3. ASSUME NEW b \in Vips, Connected(E, a, b)
      PROVE  Component(E, a) = Component(E, b)
  <2>1. Connected(E, b, a)
    BY <1>3, ConnectedSym
  <2> QED
    BY <1>3, <2>1, ConnectedTrans DEF Component
<1> QED
  BY <1>2, <1>3 DEF Component

LEMMA LinkInVips ==
  ASSUME NEW a \in Vips, NEW b \in Vips
  PROVE  LinkKey(a, b) \in AllLinks
BY DEF AllLinks

-----------------------------------------------------------------------------
\* The relay's rooms, links and permissions keep their types, and only peers
\* are in a room.
THEOREM RoomsTypeCorrect == Spec => []TypeOK
<1>1. Init => TypeOK
  BY DEF Init, TypeOK, NoRoom
<1>2. TypeOK /\ [Next]_vars => TypeOK'
  <2> SUFFICES ASSUME TypeOK, [Next]_vars PROVE TypeOK'
    OBVIOUS
  <2> USE DEF TypeOK
  <2> NoRoom \notin Vips
    BY VipsOrdered DEF NoRoom
  <2>1. ASSUME NEW v \in Vips, Join(v)
        PROVE  TypeOK'
    BY <2>1 DEF Join
  <2>2. ASSUME NEW gone \in SUBSET peers, Leave(gone)
        PROVE  TypeOK'
    BY <2>2 DEF Leave
  <2>3. CASE Restart
    BY <2>3 DEF Restart
  <2>4. ASSUME NEW s \in peers, NEW d \in peers, Unicast(s, d)
        PROVE  TypeOK'
    <3>1. Lowest({room[s], room[d]}) \in Vips
      BY LowestIn
    <3>2. LinkKey(s, d) \in AllLinks
      BY LinkInVips
    <3>3. LinkKey(s, d) \subseteq peers
      BY DEF LinkKey
    <3>4. /\ room' \in [Vips -> Vips \cup {NoRoom}]
          /\ \A v \in Vips : room'[v] # NoRoom <=> v \in peers'
      BY <2>4, <3>1 DEF Unicast, MergeRooms
    <3>5. /\ links' \subseteq AllLinks /\ old' \subseteq links'
          /\ talked' \subseteq {l \in links' \ old' : l \subseteq peers'}
      BY <2>4, <3>2, <3>3 DEF Unicast
    <3> QED
      BY <2>4, <3>4, <3>5 DEF Unicast
  <2>5. ASSUME NEW s \in peers, NEW d \in peers, LanReply(s, d)
        PROVE  TypeOK'
    BY <2>5, LinkInVips DEF LanReply
  <2>6. ASSUME NEW l, AgeLink(l) \/ AgeReach(l)
        PROVE  TypeOK'
    BY <2>6 DEF AgeLink, AgeReach
  <2>7. CASE Recompute
    <3>1. talked \subseteq Kept /\ Kept \subseteq links /\ old \cap Kept = {}
      BY DEF Kept
    <3>2. room' \in [Vips -> Vips \cup {NoRoom}]
      BY <2>7, ComponentName DEF Recompute
    <3>3. \A v \in Vips : room'[v] # NoRoom <=> v \in peers'
      BY <2>7, ComponentName DEF Recompute
    <3> QED
      BY <2>7, <3>1, <3>2, <3>3 DEF Recompute
  <2>8. CASE UNCHANGED vars
    BY <2>8 DEF vars
  <2> QED
    BY <2>1, <2>2, <2>3, <2>4, <2>5, <2>6, <2>7, <2>8 DEF Next
<1> QED
  BY <1>1, <1>2, PTL DEF Spec

\* Merging two rooms over a new link leaves everyone linked to his room's name.
LEMMA MergeKeepsNames ==
  ASSUME TypeOK, RoomsNamed, NEW s \in peers, NEW d \in peers, Unicast(s, d)
  PROVE  RoomsNamed'
<1> DEFINE keep == Lowest({room[s], room[d]})
<1>1. /\ s \in Vips /\ d \in Vips /\ room[s] \in Vips /\ room[d] \in Vips
      /\ keep \in {room[s], room[d]}
  BY LowestIn DEF TypeOK
<1>2. links \subseteq links' /\ Connected(links', s, d)
  BY <1>1, ConnectedByLink DEF Unicast
<1>3. Connected(links', s, room[s]) /\ Connected(links', d, room[d])
  BY <1>1, <1>2, ConnectedMono DEF RoomsNamed
<1>4. \A a, b \in {s, d, room[s], room[d]} : Connected(links', a, b)
  BY <1>1, <1>2, <1>3, ConnectedSym, ConnectedTrans, ConnectedRefl
<1> HIDE DEF keep
<1>5. ASSUME NEW v \in peers
      PROVE  Connected(links', v, room'[v])
  <2>1. v \in Vips /\ room[v] \in Vips /\ Connected(links', v, room[v])
    BY <1>2, ConnectedMono DEF RoomsNamed, TypeOK
  <2>2. CASE room[v] \in {room[s], room[d]}
    <3>1. room'[v] = keep
      BY <2>1, <2>2 DEF Unicast, MergeRooms, keep
    <3>2. Connected(links', room[v], keep)
      BY <1>1, <1>4, <2>2
    <3> QED
      BY <1>1, <2>1, <3>1, <3>2, ConnectedTrans
  <2>3. CASE room[v] \notin {room[s], room[d]}
    BY <2>1, <2>3 DEF Unicast, MergeRooms
  <2> QED
    BY <2>2, <2>3
<1> QED
  BY <1>5 DEF Unicast, RoomsNamed

\* Every peer stays linked to the vip its room is called after, though that
\* peer leave and come back.
THEOREM RoomsKeepTheirNames == Spec => []RoomsNamed
<1>1. Init => RoomsNamed
  BY DEF Init, RoomsNamed
<1>2. TypeOK /\ RoomsNamed /\ [Next]_vars => RoomsNamed'
  <2> SUFFICES ASSUME TypeOK, RoomsNamed, [Next]_vars PROVE RoomsNamed'
    OBVIOUS
  <2>1. ASSUME NEW v \in Vips, Join(v)
        PROVE  RoomsNamed'
    BY <2>1, ConnectedRefl DEF Join, RoomsNamed, TypeOK
  <2>2. ASSUME NEW gone \in SUBSET peers, Leave(gone)
        PROVE  RoomsNamed'
    BY <2>2 DEF Leave, RoomsNamed, TypeOK
  <2>3. CASE Restart
    BY <2>3 DEF Restart, RoomsNamed
  <2>4. ASSUME NEW s \in peers, NEW d \in peers, Unicast(s, d)
        PROVE  RoomsNamed'
    BY <2>4, MergeKeepsNames
  <2>5. CASE UNCHANGED <<peers, room, links>>
    BY <2>5 DEF RoomsNamed
  <2>6. CASE Recompute
    BY <2>6, ComponentName DEF Recompute, RoomsNamed, TypeOK
  <2> QED
    BY <2>1, <2>2, <2>3, <2>4, <2>5, <2>6 DEF Next, LanReply, AgeLink, AgeReach, vars
<1> QED
  BY <1>1, <1>2, RoomsTypeCorrect, PTL DEF Spec

\* In-game broadcasts do not leak: they reach only peers linked to the sender
\* by game data, or paired with it by a LAN search.
THEOREM BroadcastsDoNotLeak == Spec => []GamesApart
<1>1. TypeOK /\ RoomsNamed => GamesApart
  <2> SUFFICES ASSUME TypeOK, RoomsNamed, NEW s \in peers, NEW r \in Receivers(s),
                      room[r] = room[s]
               PROVE  Connected(links, s, r)
    BY DEF GamesApart, Receivers
  <2>1. s \in Vips /\ r \in peers /\ r \in Vips /\ room[s] \in Vips
    BY DEF TypeOK, Receivers
  <2>2. Connected(links, s, room[s]) /\ Connected(links, r, room[s])
    BY <2>1 DEF RoomsNamed
  <2> QED
    BY <2>1, <2>2, ConnectedSym, ConnectedTrans
<1> QED
  BY <1>1, RoomsTypeCorrect, RoomsKeepTheirNames, PTL

\* Two peers that play hear each other from the first datagram on, while both
\* stay and their traffic goes on.
THEOREM GamesStayTogether == Spec => []GamesTogether
<1> DEFINE SameRoom == \A s, r \in peers : LinkKey(s, r) \in talked => room[s] = room[r]
<1>1. Init => SameRoom
  BY DEF Init
<1>2. TypeOK /\ SameRoom /\ [Next]_vars => SameRoom'
  <2> SUFFICES ASSUME TypeOK, SameRoom, [Next]_vars PROVE SameRoom'
    OBVIOUS
  <2>1. ASSUME NEW v \in Vips, Join(v)
        PROVE  SameRoom'
    BY <2>1 DEF Join, TypeOK, LinkKey
  <2>2. ASSUME NEW gone \in SUBSET peers, Leave(gone)
        PROVE  SameRoom'
    BY <2>2 DEF Leave, TypeOK
  <2>3. CASE Restart
    BY <2>3 DEF Restart
  <2>4. ASSUME NEW s \in peers, NEW d \in peers, Unicast(s, d)
        PROVE  SameRoom'
    <3> SUFFICES ASSUME NEW x \in peers, NEW y \in peers, LinkKey(x, y) \in talked'
                 PROVE  room'[x] = room'[y]
      BY <2>4 DEF Unicast
    <3>1. CASE LinkKey(x, y) \in talked
      BY <2>4, <3>1 DEF Unicast, MergeRooms, TypeOK
    <3>2. CASE LinkKey(x, y) = LinkKey(s, d)
      <4>1. {x, y} = {s, d}
        BY <3>2 DEF LinkKey
      <4>2. x \in {s, d} /\ y \in {s, d}
        BY <4>1
      <4> QED
        BY <2>4, <4>2 DEF Unicast, MergeRooms, TypeOK
    <3> QED
      BY <2>4, <3>1, <3>2 DEF Unicast
  <2>5. CASE UNCHANGED <<peers, room>> /\ talked' \subseteq talked
    BY <2>5
  <2>6. CASE Recompute
    <3> SUFFICES ASSUME NEW x \in peers, NEW y \in peers, LinkKey(x, y) \in talked
                 PROVE  room'[x] = room'[y]
      BY <2>6 DEF Recompute
    <3>1. LinkKey(x, y) \in Kept /\ x \in Vips /\ y \in Vips
      BY DEF Kept, TypeOK
    <3>2. Component(Kept, x) = Component(Kept, y)
      BY <3>1, ConnectedByLink, ComponentName
    <3> QED
      BY <2>6, <3>1, <3>2 DEF Recompute
  <2> QED
    BY <2>1, <2>2, <2>3, <2>4, <2>5, <2>6 DEF Next, LanReply, AgeLink, AgeReach, vars
<1>3. TypeOK /\ SameRoom => GamesTogether
  BY DEF GamesTogether, Receivers
<1> QED
  BY <1>1, <1>2, <1>3, RoomsTypeCorrect, PTL DEF Spec
=============================================================================
