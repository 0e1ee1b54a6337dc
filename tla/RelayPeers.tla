----------------------------- MODULE RelayPeers -----------------------------
(***************************************************************************)
(* The peer table and the virtual-ip allocator of the relay                *)
(* (src/mc_engine/online/relay_server/relay_server.cpp), with the games    *)
(* that talk to it over UDP.                                               *)
(*                                                                         *)
(* A game is one launch of the client: it has one session id, an ip:port   *)
(* that a NAT or a VPN may change, and, once the relay acked it, a vip it  *)
(* keeps in its XNADDR until it exits.  The relay keys its peers by        *)
(* session id, finds them by address and by vip in two side tables, and    *)
(* draws fresh vips from a counter it saves to relay_state.txt.            *)
(*                                                                         *)
(* The network loses, reorders and duplicates datagrams.  The one timing   *)
(* fact kept from the code is that what takes the relay 15 s or more (a    *)
(* peer timeout, a restart, a new process on an old address) takes longer  *)
(* than a datagram stays in flight: see Quiet.                             *)
(***************************************************************************)
EXTENDS Naturals, FiniteSets

CONSTANTS
  Games,       \* launches of the client, one session id each
  Anonymous,   \* the games that send no session id
  Addrs,       \* ip:port pairs
  None,        \* no peer, no address
  VipTop,      \* 10.255.255.255; the vip 10.0.0.k is the number k
  Mangled,     \* vips the client mishandles, never handed out fresh
  Foreign,     \* vips a game may carry from another relay when it starts
  Enforce,     \* identity_master_key is set: a register may be refused
  SaveFaults,  \* what may happen to SaveState: a subset of {"lost", "torn"}
  MayWrap,     \* bound: the allocator's counter may pass the last vip
  MaxInFlight, MaxRestarts, MaxMoves   \* bounds

NoVip    == 0
VipRange == 1 .. VipTop
VipFirst == 2
VipLast  == VipTop - 1
Torn     == 0            \* relay_state.txt truncated: nothing to read back

ASSUME RelayConstants ==
  /\ Anonymous \subseteq Games
  /\ Games \cap Addrs = {}
  /\ None \notin Games \cup Addrs /\ None \notin VipRange
  /\ VipTop \in Nat /\ VipTop > 3
  /\ Mangled \subseteq VipRange
  /\ Foreign \subseteq VipRange
  /\ Enforce \in BOOLEAN
  /\ SaveFaults \subseteq {"lost", "torn"}
  /\ MayWrap \in BOOLEAN
  /\ {MaxInFlight, MaxRestarts, MaxMoves} \subseteq Nat

\* What a peer is keyed by: its session id, or its address if it sends none.
Keys == Games \cup Addrs
KeyOf(g, a) == IF g \in Anonymous THEN a ELSE g

VARIABLES
  up,            \* the relay process runs
  addr_of,       \* [Keys -> Addrs or None]: Peer::addr, None when not a peer
  vip_of,        \* [Keys -> VipRange or NoVip]: Peer::virtual_ip
  addr_to_sid,   \* [Addrs -> Keys or None]
  vip_to_sid,    \* [VipRange -> Keys or None]
  next_vip,      \* the allocator's counter
  disk,          \* relay_state.txt: the saved counter, or Torn
  phase,         \* [Games -> {"off", "on", "done"}]
  at,            \* [Games -> Addrs or None]: the ip:port a game's packets come from
  xnaddr,        \* [Games -> VipRange or NoVip]: the vip a game carries
  net,           \* datagrams in flight
  restarts, moves,   \* bounded counters
  wrapped,       \* history: the allocator's counter has passed the last vip
  owner          \* history: [VipRange -> Keys or None], who first held a vip

tables  == <<addr_of, vip_of, addr_to_sid, vip_to_sid>>
counter == <<next_vip, disk, wrapped>>
clients == <<phase, at, xnaddr>>
vars == <<up, tables, counter, clients, net, restarts, moves, owner>>

Request == [type : {"register", "heartbeat", "unregister"}, game : Games,
            src : Addrs, claim : VipRange \cup {NoVip}]
Ack     == [type : {"ack"}, game : Games, src : Addrs,
            claim : VipRange \cup {NoVip}]

TypeOK ==
  /\ up \in BOOLEAN
  /\ addr_of \in [Keys -> Addrs \cup {None}]
  /\ vip_of \in [Keys -> VipRange \cup {NoVip}]
  /\ addr_to_sid \in [Addrs -> Keys \cup {None}]
  /\ vip_to_sid \in [VipRange -> Keys \cup {None}]
  /\ next_vip \in VipFirst .. VipLast
  /\ disk \in (VipFirst .. VipLast) \cup {Torn}
  /\ phase \in [Games -> {"off", "on", "done"}]
  /\ at \in [Games -> Addrs \cup {None}]
  /\ \A g \in Games : phase[g] = "on" => at[g] \in Addrs
  /\ xnaddr \in [Games -> VipRange \cup {NoVip}]
  /\ net \subseteq Request \cup Ack
  /\ restarts \in Nat /\ moves \in Nat
  /\ wrapped \in BOOLEAN
  /\ owner \in [VipRange -> Keys \cup {None}]

IsPeer(k) == addr_of[k] # None

NoTables ==
  /\ addr_of'     = [k \in Keys |-> None]
  /\ vip_of'      = [k \in Keys |-> NoVip]
  /\ addr_to_sid' = [a \in Addrs |-> None]
  /\ vip_to_sid'  = [v \in VipRange |-> None]

\* Fault: the file is believed whatever it holds.
LoadState_Unchecked == disk

\* LoadState: a missing or unreadable file starts over at kVipFirst.
LoadState == IF disk = Torn THEN VipFirst ELSE disk

Init ==
  /\ up = TRUE
  /\ addr_of     = [k \in Keys |-> None]
  /\ vip_of      = [k \in Keys |-> NoVip]
  /\ addr_to_sid = [a \in Addrs |-> None]
  /\ vip_to_sid  = [v \in VipRange |-> None]
  /\ disk = Torn
  /\ next_vip = LoadState
  /\ phase  = [g \in Games |-> "off"]
  /\ at     = [g \in Games |-> None]
  /\ xnaddr = [g \in Games |-> NoVip]
  /\ net = {}
  /\ restarts = 0 /\ moves = 0 /\ wrapped = FALSE
  /\ owner = [v \in VipRange |-> None]

-----------------------------------------------------------------------------
(* remove_peer, for a set of peers: the tables without them.  A side table *)
(* only forgets an entry that still points at the peer that leaves.        *)

AddrOfWithout(gone) == [k \in Keys |-> IF k \in gone THEN None ELSE addr_of[k]]
VipOfWithout(gone)  == [k \in Keys |-> IF k \in gone THEN NoVip ELSE vip_of[k]]

AddrToSidWithout(gone) ==
  [a \in Addrs |-> IF \E k \in gone : addr_of[k] = a /\ addr_to_sid[a] = k
                     THEN None ELSE addr_to_sid[a]]

VipToSidWithout(gone) ==
  [v \in VipRange |-> IF \E k \in gone : vip_of[k] = v /\ vip_to_sid[v] = k
                        THEN None ELSE vip_to_sid[v]]

RemovePeers(gone) ==
  /\ addr_of'     = AddrOfWithout(gone)
  /\ vip_of'      = VipOfWithout(gone)
  /\ addr_to_sid' = AddrToSidWithout(gone)
  /\ vip_to_sid'  = VipToSidWithout(gone)

-----------------------------------------------------------------------------
(* The vip allocator.                                                      *)

VipAllocatable(v) == v \in 1 .. VipLast /\ v \notin Mangled

\* The counter after it stood at v.
Succ(v) == IF v >= VipLast THEN VipFirst ELSE v + 1

\* The values the counter passes over on its way to v.
Passed(v) == IF next_vip <= v
               THEN next_vip .. (v - 1)
               ELSE (next_vip .. VipLast) \cup (VipFirst .. (v - 1))

\* v is the next fresh vip while byVip says who holds what.
IsNextFresh(v, byVip) ==
  /\ v \in VipFirst .. VipLast
  /\ VipAllocatable(v) /\ byVip[v] = None
  /\ \A w \in Passed(v) : ~(VipAllocatable(w) /\ byVip[w] = None)

\* SaveState: the write may fail unnoticed.
SaveState(n) ==
  \/ disk' = n
  \/ "lost" \in SaveFaults /\ UNCHANGED disk

\* Fault: the counter moves on but the file does not.
AllocVip_NoSave(v, byVip) ==
  /\ IsNextFresh(v, byVip)
  /\ next_vip' = Succ(v)
  /\ wrapped' = (wrapped \/ v < next_vip \/ v = VipLast)
  /\ wrapped' => MayWrap
  /\ UNCHANGED disk

AllocVip(v, byVip) ==
  /\ IsNextFresh(v, byVip)
  /\ next_vip' = Succ(v)
  /\ wrapped' = (wrapped \/ v < next_vip \/ v = VipLast)
  /\ wrapped' => MayWrap
  /\ SaveState(Succ(v))

\* Fault: a claimed vip is taken though another peer holds it.
Adoptable_Held(claim, byVip) == claim \in VipRange

\* A vip the game already carries is taken as it is when nobody holds it.
Adoptable(claim, byVip) == claim \in VipRange /\ byVip[claim] = None

\* Fault: an adopted vip does not push the counter past it.
AdoptVip_NoBump(claim) == UNCHANGED counter

AdoptVip(claim) ==
  /\ wrapped' = wrapped
  /\ IF claim >= next_vip /\ claim < VipLast
       THEN next_vip' = claim + 1 /\ SaveState(claim + 1)
       ELSE UNCHANGED <<next_vip, disk>>

-----------------------------------------------------------------------------
(* identify: the peer of a register or heartbeat from src.                 *)

\* The peer src spoke for, when that is another one: its game is gone.
Replaced(k, src) == {addr_to_sid[src]} \ {None, k}

\* Fault: the old address keeps pointing at a peer that moved.
IdentifyKnown_KeepsOldAddr(k, src) ==
  LET gone == Replaced(k, src) IN
    /\ IsPeer(k)
    /\ addr_of' = [AddrOfWithout(gone) EXCEPT ![k] = src]
    /\ addr_to_sid' = [AddrToSidWithout(gone) EXCEPT ![src] = k]
    /\ vip_of' = VipOfWithout(gone)
    /\ vip_to_sid' = VipToSidWithout(gone)
    /\ UNCHANGED <<counter, owner>>

\* A known session: follow it to its new address; the vip stays.
IdentifyKnown(k, src) ==
  LET gone == Replaced(k, src) IN
    /\ IsPeer(k)
    /\ addr_of' = [AddrOfWithout(gone) EXCEPT ![k] = src]
    /\ addr_to_sid' =
         IF addr_of[k] = src
           THEN AddrToSidWithout(gone)
           ELSE [a \in Addrs |->
                   IF a = src THEN k
                   ELSE IF a = addr_of[k] /\ addr_to_sid[a] = k THEN None
                   ELSE AddrToSidWithout(gone)[a]]
    /\ vip_of' = VipOfWithout(gone)
    /\ vip_to_sid' = VipToSidWithout(gone)
    /\ UNCHANGED <<counter, owner>>

\* Fault: a game that comes back is given a fresh vip instead of its own.
IdentifyNew_AlwaysFresh(k, src, claim, v) ==
  LET gone  == Replaced(k, src)
      byVip == VipToSidWithout(gone)
  IN
    /\ ~IsPeer(k)
    /\ AllocVip(v, byVip)
    /\ addr_of'     = [AddrOfWithout(gone) EXCEPT ![k] = src]
    /\ vip_of'      = [VipOfWithout(gone) EXCEPT ![k] = v]
    /\ addr_to_sid' = [AddrToSidWithout(gone) EXCEPT ![src] = k]
    /\ vip_to_sid'  = [byVip EXCEPT ![v] = k]
    /\ owner' = IF owner[v] = None THEN [owner EXCEPT ![v] = k] ELSE owner

\* A new peer: it brings its vip, or gets a fresh one.
IdentifyNew(k, src, claim, v) ==
  LET gone  == Replaced(k, src)
      byVip == VipToSidWithout(gone)
  IN
    /\ ~IsPeer(k)
    /\ IF Adoptable(claim, byVip) THEN v = claim /\ AdoptVip(v)
                                  ELSE AllocVip(v, byVip)
    /\ addr_of'     = [AddrOfWithout(gone) EXCEPT ![k] = src]
    /\ vip_of'      = [VipOfWithout(gone) EXCEPT ![k] = v]
    /\ addr_to_sid' = [AddrToSidWithout(gone) EXCEPT ![src] = k]
    /\ vip_to_sid'  = [byVip EXCEPT ![v] = k]
    /\ owner' = IF owner[v] = None THEN [owner EXCEPT ![v] = k] ELSE owner

-----------------------------------------------------------------------------
(* The relay's handlers.  A datagram that is handled may still be          *)
(* delivered again (keep).                                                 *)

Rest(m, keep) == IF keep THEN net ELSE net \ {m}

\* Fault: only a register is acked, so a game whose ack was lost stays deaf.
HandleHello_RegisterAckOnly(m, keep) ==
  LET k == KeyOf(m.game, m.src) IN
    /\ up /\ m \in net /\ m.type \in {"register", "heartbeat"}
    /\ \/ IdentifyKnown(k, m.src)
       \/ \E v \in VipRange : IdentifyNew(k, m.src, m.claim, v)
    /\ net' = IF m.type = "register"
                THEN Rest(m, keep) \cup {[type |-> "ack", game |-> m.game,
                                          src |-> m.src, claim |-> vip_of'[k]]}
                ELSE Rest(m, keep)
    /\ UNCHANGED <<up, clients, restarts, moves>>

\* kRegister / kHeartbeat of a game that is let in.  A heartbeat is acked
\* only when the game does not carry the vip the relay holds for it.
HandleHello(m, keep) ==
  LET k == KeyOf(m.game, m.src) IN
    /\ up /\ m \in net /\ m.type \in {"register", "heartbeat"}
    /\ \/ IdentifyKnown(k, m.src)
       \/ \E v \in VipRange : IdentifyNew(k, m.src, m.claim, v)
    /\ net' = IF m.type = "register" \/ m.claim # vip_of'[k]
                THEN Rest(m, keep) \cup {[type |-> "ack", game |-> m.game,
                                          src |-> m.src, claim |-> vip_of'[k]]}
                ELSE Rest(m, keep)
    /\ UNCHANGED <<up, clients, restarts, moves>>

\* The nick check said no (modelled in NickGate): no ack, and a peer that
\* was in is dropped.  Only a session id finds it, not an address.
HandleRefused(m, keep) ==
  /\ Enforce
  /\ up /\ m \in net /\ m.type \in {"register", "heartbeat"}
  /\ RemovePeers({m.game} \ Anonymous)
  /\ net' = Rest(m, keep)
  /\ UNCHANGED <<up, counter, clients, restarts, moves, owner>>

\* kUnregister names no session: whoever the address speaks for leaves.
HandleUnregister(m, keep) ==
  /\ up /\ m \in net /\ m.type = "unregister"
  /\ RemovePeers({addr_to_sid[m.src]} \ {None})
  /\ net' = Rest(m, keep)
  /\ UNCHANGED <<up, counter, clients, restarts, moves, owner>>

\* No datagram of, or for, peer k is in flight.
Quiet(k) == \A m \in net : KeyOf(m.game, m.src) # k

\* The sweep drops peers not heard of for kSessionTimeoutSec.  A game that
\* runs may be dropped too: its packets can be lost for that long.
Sweep(gone) ==
  /\ up /\ gone # {}
  /\ \A k \in gone : IsPeer(k) /\ Quiet(k)
  /\ RemovePeers(gone)
  /\ UNCHANGED <<up, counter, clients, net, restarts, moves, owner>>

\* The relay dies; what was on its way is lost with its socket.
Crash ==
  /\ up /\ restarts < MaxRestarts
  /\ up' = FALSE
  /\ NoTables
  /\ net' = {}
  /\ UNCHANGED <<counter, clients, restarts, moves, owner>>

\* The handler of m gets as far as SaveState.
SavesState(m) ==
  LET k == KeyOf(m.game, m.src) IN
    /\ m.type \in {"register", "heartbeat"}
    /\ ~IsPeer(k)
    /\ Adoptable(m.claim, VipToSidWithout(Replaced(k, m.src)))
         => m.claim >= next_vip /\ m.claim < VipLast

\* The relay dies inside SaveState, after fopen("w") emptied the file.
CrashInSave(m) ==
  /\ "torn" \in SaveFaults
  /\ up /\ restarts < MaxRestarts
  /\ m \in net /\ SavesState(m)
  /\ up' = FALSE
  /\ disk' = Torn
  /\ NoTables
  /\ net' = {}
  /\ UNCHANGED <<next_vip, wrapped, clients, restarts, moves, owner>>

Restart ==
  /\ ~up
  /\ up' = TRUE
  /\ restarts' = restarts + 1
  /\ next_vip' = LoadState
  /\ UNCHANGED <<tables, disk, wrapped, clients, net, moves, owner>>

-----------------------------------------------------------------------------
(* The games and the network (the client side lives in the SDK: modelled   *)
(* from what the relay and the protocol header say of it).                 *)

\* An address is taken into use long after its last use: no game uses it, and
\* nothing from it, or from the game the relay still has there, is in flight.
Free(a) ==
  /\ \A g \in Games : phase[g] = "on" => at[g] # a
  /\ \A m \in net : m.src # a
  /\ Quiet(addr_to_sid[a])

\* A launch: no vip yet, or one brought from another relay.
Launch(g, a, v) ==
  /\ phase[g] = "off" /\ Free(a)
  /\ phase'  = [phase EXCEPT ![g] = "on"]
  /\ at'     = [at EXCEPT ![g] = a]
  /\ xnaddr' = [xnaddr EXCEPT ![g] = v]
  /\ UNCHANGED <<up, tables, counter, net, restarts, moves, owner>>

\* A network that is full loses datagrams to make room.
Send(m) ==
  \E kept \in SUBSET net :
    /\ kept # net => Cardinality(net \cup {m}) > MaxInFlight
    /\ Cardinality(kept \cup {m}) <= MaxInFlight
    /\ net' = kept \cup {m}

SendHello(g, t) ==
  /\ phase[g] = "on" /\ t \in {"register", "heartbeat"}
  /\ Send([type |-> t, game |-> g, src |-> at[g], claim |-> xnaddr[g]])
  /\ UNCHANGED <<up, tables, counter, clients, restarts, moves, owner>>

\* The NAT or the VPN gives the running game another ip:port.
Move(g, a) ==
  /\ phase[g] = "on" /\ Free(a) /\ moves < MaxMoves
  /\ at' = [at EXCEPT ![g] = a]
  /\ moves' = moves + 1
  /\ UNCHANGED <<up, tables, counter, phase, xnaddr, net, restarts, owner>>

\* The game exits, with or without its unregister on the wire.
Exit(g) ==
  /\ phase[g] = "on"
  /\ phase' = [phase EXCEPT ![g] = "done"]
  /\ \/ Send([type |-> "unregister", game |-> g, src |-> at[g], claim |-> NoVip])
     \/ UNCHANGED net
  /\ UNCHANGED <<up, tables, counter, at, xnaddr, restarts, moves, owner>>

\* The game caches the first vip it is told, for the whole run.
ReceiveAck(m, keep) ==
  /\ m \in net /\ m.type = "ack"
  /\ phase[m.game] = "on" /\ at[m.game] = m.src
  /\ xnaddr' = IF xnaddr[m.game] = NoVip THEN [xnaddr EXCEPT ![m.game] = m.claim]
                                         ELSE xnaddr
  /\ net' = Rest(m, keep)
  /\ UNCHANGED <<up, tables, counter, phase, at, restarts, moves, owner>>

Lose(m) ==
  /\ m \in net
  /\ net' = net \ {m}
  /\ UNCHANGED <<up, tables, counter, clients, restarts, moves, owner>>

Handle(m, keep) ==
  \/ HandleHello(m, keep)
  \/ HandleRefused(m, keep)
  \/ HandleUnregister(m, keep)

Next ==
  \/ \E m \in net, keep \in BOOLEAN : Handle(m, keep)
  \/ \E gone \in SUBSET Keys : Sweep(gone)
  \/ Crash
  \/ \E m \in net : CrashInSave(m)
  \/ Restart
  \/ \E g \in Games, a \in Addrs, v \in Foreign \cup {NoVip} : Launch(g, a, v)
  \/ \E g \in Games, t \in {"register", "heartbeat"} : SendHello(g, t)
  \/ \E g \in Games, a \in Addrs : Move(g, a)
  \/ \E g \in Games : Exit(g)
  \/ \E m \in net, keep \in BOOLEAN : ReceiveAck(m, keep)
  \/ \E m \in net : Lose(m)

Spec == Init /\ [][Next]_vars

\* A game sends a heartbeat every few seconds, a supervisor restarts the
\* relay, and of datagrams sent again and again one gets through.
Fairness ==
  /\ WF_vars(Restart)
  /\ \A g \in Games :
       /\ WF_vars(SendHello(g, "heartbeat"))
       /\ SF_vars(\E m \in net : m.game = g /\ m.type = "heartbeat"
                                /\ m.src = at[g] /\ HandleHello(m, FALSE))
       /\ SF_vars(\E m \in net : m.game = g /\ ReceiveAck(m, FALSE))

FairSpec == Spec /\ Fairness

-----------------------------------------------------------------------------
(* Properties.                                                             *)

\* The three tables of the relay agree: a peer is found by its own address
\* and by its own vip, every entry of a side table leads to the peer it is
\* for, and so no two peers share a vip or an address (remove_peer and
\* identify, each of which edits all three).
TablesAgree ==
  /\ \A k \in Keys :
       IF IsPeer(k)
         THEN /\ addr_to_sid[addr_of[k]] = k
              /\ vip_of[k] \in VipRange /\ vip_to_sid[vip_of[k]] = k
         ELSE vip_of[k] = NoVip
  /\ \A a \in Addrs : addr_to_sid[a] # None => addr_of[addr_to_sid[a]] = a
  /\ \A v \in VipRange : vip_to_sid[v] # None => vip_of[vip_to_sid[v]] = v

\* Until the counter wraps, every vip a session ever held is behind both the
\* counter and the saved counter, so neither a timeout nor a restart can make
\* the allocator offer it again (kVipLast and above are never bumped past).
CounterAhead ==
  ~wrapped =>
    /\ next_vip = LoadState
    /\ \A v \in 1 .. (VipLast - 1) : owner[v] # None => v < next_vip

\* A new peer whose game did not claim the vip it gets is given one no
\* session ever held: "a vip handed out before a restart is never given to
\* anyone else after it" (header of relay_server.cpp).
FreshIsNew ==
  [][~wrapped' =>
       \A k \in Keys :
         vip_of[k] = NoVip /\ vip_of'[k] # NoVip =>
           \/ owner[vip_of'[k]] = None
           \/ \E m \in net : KeyOf(m.game, m.src) = k /\ m.claim = vip_of'[k]]_vars

\* While a game runs the vip in its XNADDR is the one the relay holds for it,
\* whatever timed out, moved, restarted or was lost in between, and nobody
\* else is reachable under it; unless a game that came from another relay may
\* have brought the same vip.
StableVip ==
  \A g \in Games :
    phase[g] = "on" /\ xnaddr[g] \notin Foreign \cup {NoVip} =>
      /\ IsPeer(g) => vip_of[g] = xnaddr[g]
      /\ vip_to_sid[xnaddr[g]] \in {None, g}

\* The allocator and the tables implement the ownership of vips.
Ownership == INSTANCE VipOwnership WITH
  Sessions <- Keys, Vips <- VipRange,
  held <- [k \in Keys |-> IF vip_of[k] = NoVip THEN None ELSE vip_of[k]]

ImplementsOwnership == Ownership!Spec

\* A game that keeps running gets (back) in and learns a vip, however often
\* its datagrams are lost, it moves, or the relay restarts.
GetsIn ==
  \A g \in Games :
    phase[g] = "on" ~> \/ phase[g] # "on"
                       \/ IsPeer(KeyOf(g, at[g])) /\ xnaddr[g] # NoVip
=============================================================================
