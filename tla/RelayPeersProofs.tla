-------------------------- MODULE RelayPeersProofs --------------------------
(***************************************************************************)
(* What RelayPeers guarantees for every number of games, addresses, vips   *)
(* and datagrams in flight.                                                *)
(***************************************************************************)
EXTENDS RelayPeers, TLAPS

-----------------------------------------------------------------------------
(* Removing peers keeps the tables' types.                                 *)

LEMMA WithoutTypes ==
  ASSUME TypeOK, NEW gone
  PROVE  /\ AddrOfWithout(gone) \in [Keys -> Addrs \cup {None}]
         /\ VipOfWithout(gone) \in [Keys -> VipRange \cup {NoVip}]
         /\ AddrToSidWithout(gone) \in [Addrs -> Keys \cup {None}]
         /\ VipToSidWithout(gone) \in [VipRange -> Keys \cup {None}]
BY DEF TypeOK, AddrOfWithout, VipOfWithout, AddrToSidWithout, VipToSidWithout

LEMMA RemoveTypes ==
  ASSUME TypeOK, NEW gone, RemovePeers(gone)
  PROVE  /\ addr_of' \in [Keys -> Addrs \cup {None}]
         /\ vip_of' \in [Keys -> VipRange \cup {NoVip}]
         /\ addr_to_sid' \in [Addrs -> Keys \cup {None}]
         /\ vip_to_sid' \in [VipRange -> Keys \cup {None}]
BY WithoutTypes DEF RemovePeers

\* The key of a game and an address, and the claim it makes, are of their type.
LEMMA KeyType ==
  ASSUME NEW g \in Games, NEW a \in Addrs
  PROVE  KeyOf(g, a) \in Keys
BY DEF KeyOf, Keys

LEMMA VipBounds ==
  /\ VipTop \in Nat /\ VipTop > 3
  /\ VipLast \in Nat /\ VipLast = VipTop - 1
  /\ VipFirst \in VipFirst .. VipLast
  /\ VipFirst .. VipLast \subseteq VipRange
BY RelayConstants DEF VipFirst, VipLast, VipRange

LEMMA IdentifyTypes ==
  ASSUME TypeOK,
         NEW k \in Keys, NEW src \in Addrs, NEW claim \in VipRange \cup {NoVip},
         IdentifyKnown(k, src) \/ \E v \in VipRange : IdentifyNew(k, src, claim, v)
  PROVE  /\ addr_of' \in [Keys -> Addrs \cup {None}]
         /\ vip_of' \in [Keys -> VipRange \cup {NoVip}]
         /\ addr_to_sid' \in [Addrs -> Keys \cup {None}]
         /\ vip_to_sid' \in [VipRange -> Keys \cup {None}]
         /\ next_vip' \in VipFirst .. VipLast
         /\ disk' \in (VipFirst .. VipLast) \cup {Torn}
         /\ wrapped' \in BOOLEAN
         /\ owner' \in [VipRange -> Keys \cup {None}]
<1>1. CASE IdentifyKnown(k, src)
  BY <1>1, WithoutTypes DEF IdentifyKnown, TypeOK, counter
<1>2. CASE \E v \in VipRange : IdentifyNew(k, src, claim, v)
  <2>1. PICK v \in VipRange : IdentifyNew(k, src, claim, v)
    BY <1>2
  <2>2. /\ next_vip' \in VipFirst .. VipLast
        /\ disk' \in (VipFirst .. VipLast) \cup {Torn}
        /\ wrapped' \in BOOLEAN
    <3>1. CASE AdoptVip(v)
      BY <3>1, VipBounds DEF AdoptVip, SaveState, TypeOK, VipFirst, VipRange
    <3>2. CASE \E byVip : AllocVip(v, byVip)
      BY <3>2, VipBounds DEF AllocVip, SaveState, Succ, IsNextFresh, TypeOK, VipFirst, VipRange
    <3> QED
      BY <2>1, <3>1, <3>2 DEF IdentifyNew
  <2>3. /\ addr_of' \in [Keys -> Addrs \cup {None}]
        /\ vip_of' \in [Keys -> VipRange \cup {NoVip}]
        /\ addr_to_sid' \in [Addrs -> Keys \cup {None}]
        /\ vip_to_sid' \in [VipRange -> Keys \cup {None}]
    BY <2>1, WithoutTypes DEF IdentifyNew
  <2>4. owner' \in [VipRange -> Keys \cup {None}]
    BY <2>1 DEF IdentifyNew, TypeOK
  <2> QED
    BY <2>2, <2>3, <2>4
<1> QED
  BY <1>1, <1>2

\* Every handler keeps the tables, the counter, the file and the datagrams in
\* flight within their types: the counter never leaves the vips there are.
THEOREM TypeCorrect == Spec => []TypeOK
<1>1. Init => TypeOK
  <2> SUFFICES ASSUME Init PROVE TypeOK
    OBVIOUS
  <2>1. next_vip \in VipFirst .. VipLast
    BY VipBounds DEF Init, LoadState
  <2> QED
    BY <2>1 DEF Init, TypeOK
<1>2. TypeOK /\ [Next]_vars => TypeOK'
  <2> SUFFICES ASSUME TypeOK, [Next]_vars PROVE TypeOK'
    OBVIOUS
  <2> USE DEF tables, counter, clients
  <2>1. ASSUME NEW m \in net, NEW keep \in BOOLEAN, HandleHello(m, keep)
        PROVE  TypeOK'
    <3> DEFINE k == KeyOf(m.game, m.src)
    <3>1. m \in Request
      BY <2>1 DEF HandleHello, TypeOK, Request, Ack
    <3>2. k \in Keys
      BY <3>1, KeyType DEF Request
    <3>3. /\ addr_of' \in [Keys -> Addrs \cup {None}]
          /\ vip_of' \in [Keys -> VipRange \cup {NoVip}]
          /\ addr_to_sid' \in [Addrs -> Keys \cup {None}]
          /\ vip_to_sid' \in [VipRange -> Keys \cup {None}]
          /\ next_vip' \in VipFirst .. VipLast
          /\ disk' \in (VipFirst .. VipLast) \cup {Torn}
          /\ wrapped' \in BOOLEAN
          /\ owner' \in [VipRange -> Keys \cup {None}]
      <4>1. IdentifyKnown(k, m.src) \/ \E v \in VipRange : IdentifyNew(k, m.src, m.claim, v)
        BY <2>1 DEF HandleHello
      <4>2. m.src \in Addrs /\ m.claim \in VipRange \cup {NoVip}
        BY <3>1 DEF Request
      <4> HIDE DEF k
      <4> QED
        BY <3>2, <4>1, <4>2, IdentifyTypes
    <3>4. [type |-> "ack", game |-> m.game, src |-> m.src, claim |-> vip_of'[k]] \in Ack
      BY <3>1, <3>2, <3>3 DEF Request, Ack
    <3>5. net' \subseteq Request \cup Ack
      BY <2>1, <3>4 DEF HandleHello, Rest, TypeOK
    <3> QED
      BY <2>1, <3>3, <3>5 DEF HandleHello, TypeOK
  <2>2. ASSUME NEW m \in net, NEW keep \in BOOLEAN,
               HandleRefused(m, keep) \/ HandleUnregister(m, keep)
        PROVE  TypeOK'
    <3>1. PICK gone : RemovePeers(gone)
      BY <2>2 DEF HandleRefused, HandleUnregister
    <3>2. net' \subseteq Request \cup Ack
      BY <2>2 DEF HandleRefused, HandleUnregister, Rest, TypeOK
    <3> QED
      BY <2>2, <3>1, <3>2, RemoveTypes DEF HandleRefused, HandleUnregister, TypeOK
  <2>3. ASSUME NEW gone, Sweep(gone)
        PROVE  TypeOK'
    BY <2>3, RemoveTypes DEF Sweep, TypeOK
  <2>4. CASE Crash \/ \E m \in net : CrashInSave(m)
    BY <2>4 DEF Crash, CrashInSave, NoTables, TypeOK, Torn
  <2>5. CASE Restart
    BY <2>5, VipBounds DEF Restart, LoadState, TypeOK, Torn
  <2>6. ASSUME NEW g \in Games, NEW a \in Addrs, NEW v \in Foreign \cup {NoVip},
               Launch(g, a, v)
        PROVE  TypeOK'
    BY <2>6, RelayConstants DEF Launch, TypeOK
  <2>7. ASSUME NEW g \in Games, NEW t \in {"register", "heartbeat"}, SendHello(g, t)
        PROVE  TypeOK'
    <3>1. [type |-> t, game |-> g, src |-> at[g], claim |-> xnaddr[g]] \in Request
      BY <2>7 DEF SendHello, TypeOK, Request
    <3> QED
      BY <2>7, <3>1 DEF SendHello, Send, TypeOK
  <2>8. ASSUME NEW g \in Games, NEW a \in Addrs, Move(g, a)
        PROVE  TypeOK'
    BY <2>8 DEF Move, TypeOK
  <2>9. ASSUME NEW g \in Games, Exit(g)
        PROVE  TypeOK'
    <3>1. [type |-> "unregister", game |-> g, src |-> at[g], claim |-> NoVip] \in Request
      BY <2>9 DEF Exit, TypeOK, Request
    <3> QED
      BY <2>9, <3>1 DEF Exit, Send, TypeOK
  <2>10. ASSUME NEW m \in net, NEW keep \in BOOLEAN, ReceiveAck(m, keep)
         PROVE  TypeOK'
    <3>1. m \in Ack
      BY <2>10 DEF ReceiveAck, TypeOK, Request, Ack
    <3> QED
      BY <2>10, <3>1 DEF ReceiveAck, Rest, TypeOK, Ack
  <2>11. ASSUME NEW m \in net, Lose(m)
         PROVE  TypeOK'
    BY <2>11 DEF Lose, TypeOK
  <2>12. CASE UNCHANGED vars
    BY <2>12 DEF vars, TypeOK
  <2> QED
    BY <2>1, <2>2, <2>3, <2>4, <2>5, <2>6, <2>7, <2>8, <2>9, <2>10, <2>11, <2>12
       DEF Next, Handle
<1> QED
  BY <1>1, <1>2, PTL DEF Spec

-----------------------------------------------------------------------------
(* The three tables agree: peers are found by their own address and vip,   *)
(* and share neither.                                                      *)

LEMMA NoneIsNobody ==
  /\ None \notin Keys /\ None \notin Addrs
  /\ NoVip \notin VipRange
BY RelayConstants DEF Keys, NoVip, VipRange

\* Under TablesAgree, removing peers leaves exactly the entries of the others.
LEMMA WithoutAgree ==
  ASSUME TypeOK, TablesAgree, NEW gone
  PROVE  /\ \A a \in Addrs :
              AddrToSidWithout(gone)[a] =
                IF addr_to_sid[a] \in gone THEN None ELSE addr_to_sid[a]
         /\ \A v \in VipRange :
              VipToSidWithout(gone)[v] =
                IF vip_to_sid[v] \in gone THEN None ELSE vip_to_sid[v]
<1>1. ASSUME NEW a \in Addrs
      PROVE  AddrToSidWithout(gone)[a] =
               IF addr_to_sid[a] \in gone THEN None ELSE addr_to_sid[a]
  BY NoneIsNobody DEF AddrToSidWithout, TablesAgree, TypeOK
<1>2. ASSUME NEW v \in VipRange
      PROVE  VipToSidWithout(gone)[v] =
               IF vip_to_sid[v] \in gone THEN None ELSE vip_to_sid[v]
  BY NoneIsNobody DEF VipToSidWithout, TablesAgree, TypeOK
<1> QED
  BY <1>1, <1>2

LEMMA RemoveAgree ==
  ASSUME TypeOK, TablesAgree, NEW gone, RemovePeers(gone)
  PROVE  TablesAgree'
<1> USE NoneIsNobody
<1>1. ASSUME NEW k \in Keys, IsPeer(k)'
      PROVE  /\ addr_to_sid'[addr_of'[k]] = k
             /\ vip_of'[k] \in VipRange /\ vip_to_sid'[vip_of'[k]] = k
  <2>1. k \notin gone /\ IsPeer(k) /\ addr_of'[k] = addr_of[k] /\ vip_of'[k] = vip_of[k]
    BY <1>1 DEF RemovePeers, AddrOfWithout, VipOfWithout, IsPeer
  <2>2. /\ addr_of[k] \in Addrs /\ addr_to_sid[addr_of[k]] = k
        /\ vip_of[k] \in VipRange /\ vip_to_sid[vip_of[k]] = k
    BY <2>1 DEF TablesAgree, TypeOK, IsPeer
  <2> QED
    BY <2>1, <2>2, WithoutAgree DEF RemovePeers
<1>2. ASSUME NEW k \in Keys, ~IsPeer(k)'
      PROVE  vip_of'[k] = NoVip
  BY <1>2 DEF RemovePeers, AddrOfWithout, VipOfWithout, IsPeer, TablesAgree
<1>3. ASSUME NEW a \in Addrs, addr_to_sid'[a] # None
      PROVE  addr_of'[addr_to_sid'[a]] = a
  <2>1. addr_to_sid'[a] = addr_to_sid[a] /\ addr_to_sid[a] \notin gone
    BY <1>3, WithoutAgree DEF RemovePeers
  <2>2. addr_to_sid[a] \in Keys /\ addr_of[addr_to_sid[a]] = a
    BY <2>1, <1>3 DEF TablesAgree, TypeOK
  <2> QED
    BY <2>1, <2>2 DEF RemovePeers, AddrOfWithout
<1>4. ASSUME NEW v \in VipRange, vip_to_sid'[v] # None
      PROVE  vip_of'[vip_to_sid'[v]] = v
  <2>1. vip_to_sid'[v] = vip_to_sid[v] /\ vip_to_sid[v] \notin gone
    BY <1>4, WithoutAgree DEF RemovePeers
  <2>2. vip_to_sid[v] \in Keys /\ vip_of[vip_to_sid[v]] = v
    BY <2>1, <1>4 DEF TablesAgree, TypeOK
  <2> QED
    BY <2>1, <2>2 DEF RemovePeers, VipOfWithout
<1> QED
  BY <1>1, <1>2, <1>3, <1>4 DEF TablesAgree

LEMMA IdentifyKnownAgree ==
  ASSUME TypeOK, TablesAgree,
         NEW k \in Keys, NEW src \in Addrs, IdentifyKnown(k, src)
  PROVE  TablesAgree'
<1> DEFINE gone == Replaced(k, src)
<1> USE NoneIsNobody
<1>1. /\ k \notin gone /\ None \notin gone
      /\ addr_to_sid[src] \in gone \cup {None, k}
      /\ IsPeer(k) /\ addr_of[k] \in Addrs /\ addr_to_sid[addr_of[k]] = k
  BY DEF Replaced, IdentifyKnown, IsPeer, TablesAgree, TypeOK
<1>2. /\ \A j \in Keys : addr_of'[j] = IF j = k THEN src ELSE IF j \in gone THEN None ELSE addr_of[j]
      /\ \A j \in Keys : vip_of'[j] = IF j \in gone THEN NoVip ELSE vip_of[j]
      /\ \A v \in VipRange : vip_to_sid'[v] = IF vip_to_sid[v] \in gone THEN None ELSE vip_to_sid[v]
  BY WithoutAgree DEF IdentifyKnown, AddrOfWithout, VipOfWithout
<1>3. \A a \in Addrs : addr_to_sid'[a] =
          IF a = src THEN k
          ELSE IF addr_to_sid[a] \in gone \cup {k} THEN None ELSE addr_to_sid[a]
  <2>1. CASE addr_of[k] = src
    <3>1. addr_to_sid' = AddrToSidWithout(gone)
      BY <2>1 DEF IdentifyKnown
    <3>2. \A a \in Addrs : addr_to_sid[a] = k => a = src
      BY <2>1 DEF TablesAgree
    <3> QED
      BY <1>1, <2>1, <3>1, <3>2, WithoutAgree
  <2>2. CASE addr_of[k] # src
    <3>1. addr_to_sid' = [a \in Addrs |->
                   IF a = src THEN k
                   ELSE IF a = addr_of[k] /\ addr_to_sid[a] = k THEN None
                   ELSE AddrToSidWithout(gone)[a]]
      BY <2>2 DEF IdentifyKnown
    <3>2. \A a \in Addrs : addr_to_sid[a] = k => a = addr_of[k]
      BY DEF TablesAgree
    <3> HIDE DEF gone
    <3> QED
      BY <1>1, <3>1, <3>2, WithoutAgree
  <2> QED
    BY <2>1, <2>2
<1> HIDE DEF gone
<1>4. ASSUME NEW j \in Keys
      PROVE  IF IsPeer(j)'
               THEN /\ addr_to_sid'[addr_of'[j]] = j
                    /\ vip_of'[j] \in VipRange /\ vip_to_sid'[vip_of'[j]] = j
               ELSE vip_of'[j] = NoVip
  <2>1. CASE j = k
    <3>1. vip_of[k] \in VipRange /\ vip_to_sid[vip_of[k]] = k
      BY <1>1 DEF TablesAgree
    <3> QED
      BY <2>1, <3>1, <1>1, <1>2, <1>3 DEF IsPeer
  <2>2. CASE j # k /\ (j \in gone \/ ~IsPeer(j))
    BY <2>2, <1>2 DEF IsPeer, TablesAgree
  <2>3. CASE j # k /\ j \notin gone /\ IsPeer(j)
    <3>1. /\ addr_of[j] \in Addrs /\ addr_to_sid[addr_of[j]] = j
          /\ vip_of[j] \in VipRange /\ vip_to_sid[vip_of[j]] = j
      BY <2>3 DEF TablesAgree, IsPeer, TypeOK
    <3>2. addr_of[j] # src
      BY <2>3, <3>1, <1>1
    <3> QED
      BY <2>3, <3>1, <3>2, <1>2, <1>3 DEF IsPeer
  <2> QED
    BY <2>1, <2>2, <2>3
<1>5. ASSUME NEW a \in Addrs, addr_to_sid'[a] # None
      PROVE  addr_of'[addr_to_sid'[a]] = a
  BY <1>1, <1>2, <1>3, <1>5 DEF TablesAgree, TypeOK
<1>6. ASSUME NEW v \in VipRange, vip_to_sid'[v] # None
      PROVE  vip_of'[vip_to_sid'[v]] = v
  BY <1>1, <1>2, <1>6 DEF TablesAgree, TypeOK
<1> QED
  BY <1>4, <1>5, <1>6 DEF TablesAgree

LEMMA IdentifyNewAgree ==
  ASSUME TypeOK, TablesAgree,
         NEW k \in Keys, NEW src \in Addrs, NEW claim \in VipRange \cup {NoVip},
         NEW v \in VipRange, IdentifyNew(k, src, claim, v)
  PROVE  TablesAgree'
<1> DEFINE gone == Replaced(k, src)
<1> USE NoneIsNobody
<1>1. /\ k \notin gone /\ None \notin gone
      /\ addr_to_sid[src] \in gone \cup {None}
      /\ ~IsPeer(k)
  BY DEF Replaced, IdentifyNew, IsPeer, TablesAgree, TypeOK
<1>2. VipToSidWithout(gone)[v] = None
  BY DEF IdentifyNew, Adoptable, AllocVip, IsNextFresh
<1>3. /\ \A j \in Keys : addr_of'[j] = IF j = k THEN src ELSE IF j \in gone THEN None ELSE addr_of[j]
      /\ \A j \in Keys : vip_of'[j] = IF j = k THEN v ELSE IF j \in gone THEN NoVip ELSE vip_of[j]
      /\ \A a \in Addrs : addr_to_sid'[a] =
           IF a = src THEN k ELSE IF addr_to_sid[a] \in gone THEN None ELSE addr_to_sid[a]
      /\ \A w \in VipRange : vip_to_sid'[w] =
           IF w = v THEN k ELSE IF vip_to_sid[w] \in gone THEN None ELSE vip_to_sid[w]
  <2>1. /\ addr_of'     = [AddrOfWithout(gone) EXCEPT ![k] = src]
        /\ vip_of'      = [VipOfWithout(gone) EXCEPT ![k] = v]
        /\ addr_to_sid' = [AddrToSidWithout(gone) EXCEPT ![src] = k]
        /\ vip_to_sid'  = [VipToSidWithout(gone) EXCEPT ![v] = k]
    BY DEF IdentifyNew
  <2>2. /\ AddrOfWithout(gone) = [j \in Keys |-> IF j \in gone THEN None ELSE addr_of[j]]
        /\ VipOfWithout(gone) = [j \in Keys |-> IF j \in gone THEN NoVip ELSE vip_of[j]]
    BY DEF AddrOfWithout, VipOfWithout
  <2> HIDE DEF gone
  <2> QED
    BY <2>1, <2>2, WithoutAgree, WithoutTypes
<1>4. vip_to_sid[v] \in gone \cup {None}
  BY <1>2, WithoutAgree
<1>5. \A a \in Addrs : addr_to_sid[a] # k
  BY <1>1 DEF TablesAgree, IsPeer
<1>6. \A w \in VipRange : vip_to_sid[w] # k
  BY <1>1 DEF TablesAgree, IsPeer
<1> HIDE DEF gone
<1>7. ASSUME NEW j \in Keys
      PROVE  IF IsPeer(j)'
               THEN /\ addr_to_sid'[addr_of'[j]] = j
                    /\ vip_of'[j] \in VipRange /\ vip_to_sid'[vip_of'[j]] = j
               ELSE vip_of'[j] = NoVip
  <2>1. CASE j = k
    BY <2>1, <1>1, <1>3 DEF IsPeer
  <2>2. CASE j # k /\ (j \in gone \/ ~IsPeer(j))
    BY <2>2, <1>3 DEF IsPeer, TablesAgree
  <2>3. CASE j # k /\ j \notin gone /\ IsPeer(j)
    <3>1. /\ addr_of[j] \in Addrs /\ addr_to_sid[addr_of[j]] = j
          /\ vip_of[j] \in VipRange /\ vip_to_sid[vip_of[j]] = j
      BY <2>3 DEF TablesAgree, IsPeer, TypeOK
    <3>2. addr_of[j] # src /\ vip_of[j] # v
      BY <2>3, <3>1, <1>1, <1>4
    <3> QED
      BY <2>3, <3>1, <3>2, <1>3 DEF IsPeer
  <2> QED
    BY <2>1, <2>2, <2>3
<1>8. ASSUME NEW a \in Addrs, addr_to_sid'[a] # None
      PROVE  addr_of'[addr_to_sid'[a]] = a
  BY <1>1, <1>3, <1>5, <1>8 DEF TablesAgree, TypeOK
<1>9. ASSUME NEW w \in VipRange, vip_to_sid'[w] # None
      PROVE  vip_of'[vip_to_sid'[w]] = w
  BY <1>1, <1>3, <1>6, <1>9 DEF TablesAgree, TypeOK
<1> QED
  BY <1>7, <1>8, <1>9 DEF TablesAgree

\* The peer table and its two indexes agree in every state of the relay.
THEOREM TablesAlwaysAgree == Spec => []TablesAgree
<1>1. Init => TablesAgree
  BY NoneIsNobody DEF Init, TablesAgree, IsPeer
<1>2. TypeOK /\ TablesAgree /\ [Next]_vars => TablesAgree'
  <2> SUFFICES ASSUME TypeOK, TablesAgree, [Next]_vars PROVE TablesAgree'
    OBVIOUS
  <2>1. ASSUME NEW m \in net, NEW keep \in BOOLEAN, HandleHello(m, keep)
        PROVE  TablesAgree'
    <3> DEFINE k == KeyOf(m.game, m.src)
    <3>1. m \in Request
      BY <2>1 DEF HandleHello, TypeOK, Request, Ack
    <3>2. k \in Keys /\ m.src \in Addrs /\ m.claim \in VipRange \cup {NoVip}
      BY <3>1, KeyType DEF Request
    <3>3. IdentifyKnown(k, m.src) \/ \E v \in VipRange : IdentifyNew(k, m.src, m.claim, v)
      BY <2>1 DEF HandleHello
    <3> HIDE DEF k
    <3> QED
      BY <3>2, <3>3, IdentifyKnownAgree, IdentifyNewAgree
  <2>2. ASSUME NEW gone, RemovePeers(gone)
        PROVE  TablesAgree'
    BY <2>2, RemoveAgree
  <2>3. CASE NoTables
    BY <2>3, NoneIsNobody DEF NoTables, TablesAgree, IsPeer
  <2>4. CASE UNCHANGED tables
    BY <2>4 DEF tables, TablesAgree, IsPeer
  <2> QED
    BY <2>1, <2>2, <2>3, <2>4
       DEF Next, Handle, HandleRefused, HandleUnregister, Sweep, Crash, CrashInSave,
           Restart, Launch, SendHello, Move, Exit, ReceiveAck, Lose, vars
<1> QED
  BY <1>1, <1>2, TypeCorrect, PTL DEF Spec

\* Hence no two peers ever share a vip or an address.
THEOREM PeersShareNothing ==
  Spec => [](\A j, k \in Keys :
               IsPeer(j) /\ IsPeer(k) /\ j # k
                 => vip_of[j] # vip_of[k] /\ addr_of[j] # addr_of[k])
<1>1. TablesAgree =>
        \A j, k \in Keys :
          IsPeer(j) /\ IsPeer(k) /\ j # k
            => vip_of[j] # vip_of[k] /\ addr_of[j] # addr_of[k]
  BY DEF TablesAgree
<1> QED
  BY <1>1, TablesAlwaysAgree, PTL

-----------------------------------------------------------------------------
(* Ownership: the allocator never gives a vip to two sessions, as the      *)
(* counter stays ahead of every vip ever held, across restarts.  All of it *)
(* under the assumption that relay_state.txt is always written             *)
(* (SaveFaults = {}).                                                      *)


\* What a hello does to the allocator and to the history of owners.
LEMMA HelloSteps ==
  ASSUME TypeOK, NEW m \in net, NEW keep \in BOOLEAN, HandleHello(m, keep)
  PROVE  /\ m \in Request /\ m.src \in Addrs /\ KeyOf(m.game, m.src) \in Keys
         /\ m.claim \in VipRange \cup {NoVip}
         /\ \/ IdentifyKnown(KeyOf(m.game, m.src), m.src)
            \/ \E v \in VipRange : IdentifyNew(KeyOf(m.game, m.src), m.src, m.claim, v)
<1>1. m \in Request
  BY DEF HandleHello, TypeOK, Request, Ack
<1> QED
  BY <1>1, KeyType DEF Request, HandleHello

LEMMA AllocAhead ==
  ASSUME SaveFaults = {}, TypeOK, CounterAhead, NEW v \in VipRange, NEW byVip,
         AllocVip(v, byVip), ~wrapped'
  PROVE  /\ ~wrapped /\ next_vip <= v /\ v < VipLast
         /\ next_vip' = v + 1 /\ disk' = v + 1
         /\ owner[v] = None
<1>1. ~wrapped /\ next_vip <= v /\ v < VipLast
  <2>1. ~(wrapped \/ v < next_vip \/ v = VipLast)
    BY ZenonT(20) DEF AllocVip
  <2>2. v \in VipFirst .. VipLast /\ next_vip \in VipFirst .. VipLast
    BY DEF AllocVip, IsNextFresh, TypeOK
  <2> QED
    BY <2>1, <2>2, VipBounds DEF VipFirst
<1>2. next_vip' = v + 1 /\ disk' = v + 1
  BY <1>1, VipBounds DEF AllocVip, SaveState, Succ, VipRange
<1>3. owner[v] = None
  BY <1>1, VipBounds DEF CounterAhead, TypeOK, VipRange, VipFirst
<1> QED
  BY <1>1, <1>2, <1>3

LEMMA HelloKeepsCounterAhead ==
  ASSUME SaveFaults = {}, TypeOK, CounterAhead,
         NEW k \in Keys, NEW src \in Addrs, NEW claim \in VipRange \cup {NoVip},
         NEW v \in VipRange, IdentifyNew(k, src, claim, v)
  PROVE  CounterAhead'
<1> SUFFICES ASSUME ~wrapped'
             PROVE  /\ next_vip' = LoadState'
                    /\ \A w \in 1 .. (VipLast - 1) : owner'[w] # None => w < next_vip'
  BY DEF CounterAhead
<1>1. \A w \in VipRange : owner'[w] # None => w = v \/ owner[w] # None
  BY DEF IdentifyNew, TypeOK
<1>2. 1 .. (VipLast - 1) \subseteq VipRange
  BY VipBounds DEF VipRange
<1>3. CASE AdoptVip(v)
  <2>1. ~wrapped
    BY <1>3 DEF AdoptVip
  <2>2. next_vip' = LoadState' /\ next_vip <= next_vip' /\ (v < VipLast => v < next_vip')
    BY <1>3, <2>1, VipBounds
       DEF AdoptVip, SaveState, CounterAhead, LoadState, TypeOK, Torn, VipRange, VipFirst
  <2>3. ASSUME NEW w \in 1 .. (VipLast - 1), owner'[w] # None
        PROVE  w < next_vip'
    <3>1. CASE w = v
      BY <3>1, <2>2, VipBounds
    <3>2. CASE owner[w] # None
      <4>1. w < next_vip
        BY <3>2, <2>1 DEF CounterAhead
      <4>2. next_vip \in Nat /\ next_vip' \in Nat
        BY <1>3, VipBounds DEF AdoptVip, SaveState, TypeOK, VipFirst, VipRange
      <4> QED
        BY <4>1, <4>2, <2>2
    <3> QED
      BY <2>3, <1>1, <1>2, <3>1, <3>2
  <2> QED
    BY <2>2, <2>3
<1>4. CASE AllocVip(v, VipToSidWithout(Replaced(k, src)))
  <2>1. /\ ~wrapped /\ next_vip <= v /\ next_vip' = v + 1 /\ disk' = v + 1
    BY <1>4, AllocAhead
  <2>2. next_vip' = LoadState'
    BY <2>1 DEF LoadState, Torn, VipRange
  <2>3. ASSUME NEW w \in 1 .. (VipLast - 1), owner'[w] # None
        PROVE  w < next_vip'
    BY <2>1, <2>3, <1>1, <1>2, VipBounds DEF CounterAhead, VipRange, TypeOK, VipFirst
  <2> QED
    BY <2>2, <2>3
<1> QED
  BY <1>3, <1>4 DEF IdentifyNew

\* While the counter has not passed the last vip, it and its saved copy are
\* ahead of every vip a session ever held.
THEOREM CounterStaysAhead ==
  ASSUME SaveFaults = {}
  PROVE  Spec => []CounterAhead
<1>1. Init => CounterAhead
  <2>1. 1 .. (VipLast - 1) \subseteq VipRange
    BY VipBounds DEF VipRange
  <2> QED
    BY <2>1 DEF Init, CounterAhead
<1>2. TypeOK /\ CounterAhead /\ [Next]_vars => CounterAhead'
  <2> SUFFICES ASSUME TypeOK, CounterAhead, [Next]_vars PROVE CounterAhead'
    OBVIOUS
  <2>1. ASSUME NEW m \in net, NEW keep \in BOOLEAN, HandleHello(m, keep)
        PROVE  CounterAhead'
    <3>1. CASE IdentifyKnown(KeyOf(m.game, m.src), m.src)
      BY <3>1 DEF IdentifyKnown, counter, CounterAhead, LoadState
    <3>2. CASE \E v \in VipRange : IdentifyNew(KeyOf(m.game, m.src), m.src, m.claim, v)
      BY <3>2, <2>1, HelloSteps, HelloKeepsCounterAhead
    <3> QED
      BY <2>1, <3>1, <3>2, HelloSteps
  <2>2. CASE Restart
    BY <2>2, VipBounds DEF Restart, CounterAhead, LoadState
  <2>3. CASE UNCHANGED <<counter, owner>>
    BY <2>3 DEF counter, CounterAhead, LoadState
  <2>4. ASSUME NEW m \in net, CrashInSave(m)
        PROVE  FALSE
    BY <2>4, SaveFaults = {} DEF CrashInSave
  <2> QED
    BY <2>1, <2>2, <2>3, <2>4
       DEF Next, Handle, HandleRefused, HandleUnregister, Sweep, Crash,
           Launch, SendHello, Move, Exit, ReceiveAck, Lose, vars
<1> QED
  BY <1>1, <1>2, TypeCorrect, PTL DEF Spec

\* A fresh vip is one nobody ever held: while the file is written and the
\* counter has not wrapped, no vip handed out before, not even before a
\* restart, is handed out again to a game that does not bring it.
THEOREM FreshNeverReissued ==
  ASSUME SaveFaults = {}
  PROVE  Spec => FreshIsNew
<1> DEFINE Fresh == ~wrapped' =>
       \A k \in Keys :
         vip_of[k] = NoVip /\ vip_of'[k] # NoVip =>
           \/ owner[vip_of'[k]] = None
           \/ \E m \in net : KeyOf(m.game, m.src) = k /\ m.claim = vip_of'[k]
<1>1. TypeOK /\ CounterAhead /\ [Next]_vars => [Fresh]_vars
  <2> SUFFICES ASSUME TypeOK, CounterAhead, Next, ~wrapped',
                      NEW k \in Keys, vip_of[k] = NoVip, vip_of'[k] # NoVip
               PROVE  \/ owner[vip_of'[k]] = None
                      \/ \E m \in net : KeyOf(m.game, m.src) = k /\ m.claim = vip_of'[k]
    BY DEF vars, tables
  <2>1. ASSUME NEW gone, RemovePeers(gone)
        PROVE  FALSE
    BY <2>1 DEF RemovePeers, VipOfWithout
  <2>2. CASE NoTables
    BY <2>2 DEF NoTables
  <2>3. ASSUME NEW m \in net, NEW keep \in BOOLEAN, HandleHello(m, keep)
        PROVE  \/ owner[vip_of'[k]] = None
               \/ KeyOf(m.game, m.src) = k /\ m.claim = vip_of'[k]
    <3>1. CASE IdentifyKnown(KeyOf(m.game, m.src), m.src)
      BY <3>1 DEF IdentifyKnown, VipOfWithout
    <3>2. CASE \E v \in VipRange : IdentifyNew(KeyOf(m.game, m.src), m.src, m.claim, v)
      <4> DEFINE s == KeyOf(m.game, m.src)
                 byVip == VipToSidWithout(Replaced(s, m.src))
      <4>1. PICK v \in VipRange : IdentifyNew(s, m.src, m.claim, v)
        BY <3>2
      <4>2. s = k /\ vip_of'[k] = v
        BY <2>3, <4>1, HelloSteps DEF IdentifyNew, VipOfWithout
      <4>3. CASE v = m.claim
        BY <4>2, <4>3
      <4>4. CASE AllocVip(v, byVip)
        BY <4>2, <4>4, AllocAhead
      <4> QED
        BY <4>1, <4>3, <4>4 DEF IdentifyNew
    <3> QED
      BY <2>3, <3>1, <3>2, HelloSteps
  <2> QED
    BY <2>1, <2>2, <2>3
       DEF Next, Handle, HandleRefused, HandleUnregister, Sweep, Crash, CrashInSave,
           Restart, Launch, SendHello, Move, Exit, ReceiveAck, Lose, tables
<1>2. Spec => [][Fresh]_vars
  BY <1>1, TypeCorrect, CounterStaysAhead, PTL DEF Spec
<1> QED
  BY <1>2 DEF FreshIsNew

-----------------------------------------------------------------------------
(* The relay implements VipOwnership, when every game sends a session id.  *)

\* g may name v as its own: v is of no consequence, foreign, or first g's.
Owns(g, v) == v = NoVip \/ v \in Foreign \/ (v \in VipRange /\ owner[v] = g)

\* Nobody carries, claims, is told or is reached under another's vip.
ClaimsOwned ==
  /\ \A k \in Keys : Owns(k, vip_of[k])
  /\ \A g \in Games : Owns(g, xnaddr[g])
  /\ \A m \in net : Owns(m.game, m.claim)

Held == [k \in Keys |-> IF vip_of[k] = NoVip THEN None ELSE vip_of[k]]

LEMMA OwnsStable ==
  ASSUME NEW g \in Keys, NEW v, Owns(g, v),
         \A w \in VipRange : owner[w] # None => owner'[w] = owner[w]
  PROVE  v = NoVip \/ v \in Foreign \/ (v \in VipRange /\ owner'[v] = g)
BY NoneIsNobody DEF Owns

\* The vip a new peer gets is its own, or is from elsewhere.
LEMMA NewVip ==
  ASSUME SaveFaults = {}, MayWrap = FALSE, TypeOK, CounterAhead,
         NEW k \in Keys, NEW src \in Addrs, NEW claim \in VipRange \cup {NoVip},
         Owns(k, claim), NEW v \in VipRange, IdentifyNew(k, src, claim, v)
  PROVE  /\ owner[v] \in {None, k} \/ v \in Foreign
         /\ v \in Foreign \/ owner'[v] = k
         /\ \A w \in VipRange : owner[w] # None => owner'[w] = owner[w]
         /\ owner' = [owner EXCEPT ![v] = IF @ = None THEN k ELSE @]
<1>1. owner' = [owner EXCEPT ![v] = IF @ = None THEN k ELSE @]
  BY DEF IdentifyNew, TypeOK
<1>2. owner[v] \in {None, k} \/ v \in Foreign
  <2>1. CASE v = claim
    BY <2>1 DEF Owns, NoVip, VipRange
  <2>2. CASE AllocVip(v, VipToSidWithout(Replaced(k, src)))
    <3>1. ~wrapped'
      BY <2>2, ZenonT(20) DEF AllocVip
    <3> QED
      BY <2>2, <3>1, AllocAhead
  <2> QED
    BY <2>1, <2>2 DEF IdentifyNew
<1> QED
  BY <1>1, <1>2, NoneIsNobody DEF TypeOK

\* A step that moves no vip and touches no owner keeps ClaimsOwned.
LEMMA QuietStep ==
  ASSUME ClaimsOwned, UNCHANGED owner,
         \A k \in Keys : vip_of'[k] \in {vip_of[k], NoVip},
         \A g \in Games : Owns(g, xnaddr'[g]),
         \A m \in net' : m \in net \/ Owns(m.game, m.claim)
  PROVE  ClaimsOwned'
BY DEF ClaimsOwned, Owns

LEMMA HelloKeepsClaims ==
  ASSUME SaveFaults = {}, MayWrap = FALSE, Anonymous = {},
         TypeOK, TablesAgree, CounterAhead, ClaimsOwned,
         NEW m \in net, NEW keep \in BOOLEAN, HandleHello(m, keep)
  PROVE  ClaimsOwned'
<1> DEFINE k == m.game
<1>1. /\ k \in Games /\ k \in Keys /\ KeyOf(m.game, m.src) = k
      /\ m.src \in Addrs /\ m.claim \in VipRange \cup {NoVip}
  BY HelloSteps DEF Request, Keys, KeyOf
<1>2. Owns(k, m.claim)
  BY DEF ClaimsOwned
<1>3. \A n \in net' : n \in net \/ (n.game = k /\ n.claim = vip_of'[k])
  BY <1>1 DEF HandleHello, Rest
<1>4. UNCHANGED xnaddr
  BY DEF HandleHello, clients
<1> HIDE DEF k
<1>5. CASE IdentifyKnown(k, m.src)
  <2>1. UNCHANGED owner /\ \A j \in Keys : vip_of'[j] \in {vip_of[j], NoVip}
    BY <1>5 DEF IdentifyKnown, VipOfWithout
  <2>2. \A n \in net' : n \in net \/ Owns(n.game, n.claim)
    BY <1>1, <1>3, <2>1 DEF ClaimsOwned, Owns
  <2>3. \A g \in Games : Owns(g, xnaddr'[g])
    BY <1>4 DEF ClaimsOwned
  <2> QED
    BY <2>1, <2>2, <2>3, QuietStep
<1>6. CASE \E v \in VipRange : IdentifyNew(k, m.src, m.claim, v)
  <2>1. PICK v \in VipRange : IdentifyNew(k, m.src, m.claim, v)
    BY <1>6
  <2>2. /\ v \in Foreign \/ owner'[v] = k
        /\ \A w \in VipRange : owner[w] # None => owner'[w] = owner[w]
    BY <1>1, <1>2, <2>1, NewVip
  <2>3. \A g \in Keys : \A w : Owns(g, w) =>
          w = NoVip \/ w \in Foreign \/ (w \in VipRange /\ owner'[w] = g)
    BY <2>2, OwnsStable
  <2>4. \A j \in Keys : vip_of'[j] \in {vip_of[j], NoVip} \/ (j = k /\ vip_of'[j] = v)
    BY <2>1 DEF IdentifyNew, VipOfWithout
  <2>5. vip_of'[k] = v
    BY <1>1, <2>1 DEF IdentifyNew, VipOfWithout
  <2>6. Games \subseteq Keys /\ \A n \in net : n.game \in Keys
    BY DEF TypeOK, Request, Ack, Keys
  <2>7. ASSUME NEW j \in Keys PROVE Owns(j, vip_of[j])'
    BY <2>2, <2>3, <2>4 DEF ClaimsOwned, Owns
  <2>8. ASSUME NEW g \in Games PROVE Owns(g, xnaddr[g])'
    BY <1>4, <2>3, <2>6 DEF ClaimsOwned, Owns
  <2>9. ASSUME NEW n \in net' PROVE Owns(n.game, n.claim)'
    BY <1>3, <2>2, <2>3, <2>5, <2>6 DEF ClaimsOwned, Owns
  <2> QED
    BY <2>7, <2>8, <2>9 DEF ClaimsOwned
<1> QED
  BY <1>1, <1>5, <1>6, HelloSteps

\* ClaimsOwned is an invariant: a vip spreads only from its owner.
LEMMA ClaimsStayOwned ==
  ASSUME SaveFaults = {}, MayWrap = FALSE, Anonymous = {}
  PROVE  Spec => []ClaimsOwned
<1>1. Init => ClaimsOwned
  BY DEF Init, ClaimsOwned, Owns
<1>2. TypeOK /\ TablesAgree /\ CounterAhead /\ ClaimsOwned /\ [Next]_vars => ClaimsOwned'
  <2> SUFFICES ASSUME TypeOK, TablesAgree, CounterAhead, ClaimsOwned, [Next]_vars
               PROVE  ClaimsOwned'
    OBVIOUS
  <2> USE DEF tables, counter, clients
  <2>1. ASSUME NEW m \in net, NEW keep \in BOOLEAN, HandleHello(m, keep)
        PROVE  ClaimsOwned'
    BY <2>1, HelloKeepsClaims
  <2>2. \A gone : RemovePeers(gone) => \A k \in Keys : vip_of'[k] \in {vip_of[k], NoVip}
    BY DEF RemovePeers, VipOfWithout
  <2>3. ASSUME NEW m \in net, NEW keep \in BOOLEAN,
               HandleRefused(m, keep) \/ HandleUnregister(m, keep)
        PROVE  ClaimsOwned'
    BY <2>2, <2>3, QuietStep DEF HandleRefused, HandleUnregister, Rest, ClaimsOwned
  <2>4. ASSUME NEW gone, Sweep(gone)
        PROVE  ClaimsOwned'
    BY <2>2, <2>4, QuietStep DEF Sweep, ClaimsOwned
  <2>5. CASE Crash \/ \E m \in net : CrashInSave(m)
    BY <2>5, QuietStep DEF Crash, CrashInSave, NoTables, ClaimsOwned
  <2>6. ASSUME NEW g \in Games, NEW a \in Addrs, NEW v \in Foreign \cup {NoVip},
               Launch(g, a, v)
        PROVE  ClaimsOwned'
    BY <2>6, QuietStep DEF Launch, ClaimsOwned, Owns, TypeOK
  <2>7. ASSUME NEW g \in Games, NEW m, m.game = g /\ Send(m), Owns(g, m.claim),
               UNCHANGED <<tables, owner, xnaddr>>
        PROVE  ClaimsOwned'
    BY <2>7, QuietStep DEF Send, ClaimsOwned
  <2>8. ASSUME NEW g \in Games, NEW t \in {"register", "heartbeat"}, SendHello(g, t)
        PROVE  ClaimsOwned'
    BY <2>8, <2>7 DEF SendHello, ClaimsOwned
  <2>9. ASSUME NEW g \in Games, Exit(g)
        PROVE  ClaimsOwned'
    <3>1. CASE Send([type |-> "unregister", game |-> g, src |-> at[g], claim |-> NoVip])
      BY <2>9, <3>1, <2>7 DEF Exit, Owns
    <3>2. CASE UNCHANGED net
      BY <2>9, <3>2, QuietStep DEF Exit, ClaimsOwned
    <3> QED
      BY <2>9, <3>1, <3>2 DEF Exit
  <2>10. ASSUME NEW m \in net, NEW keep \in BOOLEAN, ReceiveAck(m, keep)
         PROVE  ClaimsOwned'
    BY <2>10, QuietStep DEF ReceiveAck, Rest, ClaimsOwned, TypeOK
  <2>11. CASE UNCHANGED <<tables, owner, xnaddr>> /\ net' \subseteq net
    BY <2>11, QuietStep DEF ClaimsOwned
  <2> QED
    BY <2>1, <2>3, <2>4, <2>5, <2>6, <2>8, <2>9, <2>10, <2>11
       DEF Next, Handle, Restart, Move, Lose, vars
<1> QED
  BY <1>1, <1>2, TypeCorrect, TablesAlwaysAgree, CounterStaysAhead, PTL DEF Spec

\* A step that takes vips from the peers of gone, and only that, is a Release.
LEMMA ReleaseStep ==
  ASSUME TypeOK, NEW gone \in SUBSET Keys, UNCHANGED owner,
         \A k \in Keys : vip_of'[k] = IF k \in gone THEN NoVip ELSE vip_of[k]
  PROVE  Ownership!Next
<1>1. Held' = [k \in Keys |-> IF k \in gone THEN None ELSE Held[k]]
  BY DEF Held
<1>2. Ownership!Release(gone)
  BY <1>1 DEF Ownership!Release, Ownership!Forget, Held
<1> QED
  BY <1>2 DEF Ownership!Next

LEMMA GrantStep ==
  ASSUME SaveFaults = {}, MayWrap = FALSE, TypeOK, TablesAgree, CounterAhead,
         NEW k \in Keys, NEW src \in Addrs, NEW claim \in VipRange \cup {NoVip},
         Owns(k, claim), NEW v \in VipRange, IdentifyNew(k, src, claim, v)
  PROVE  Ownership!Next
<1> DEFINE gone == Replaced(k, src)
           left == [j \in Keys |-> IF j \in gone THEN None ELSE Held[j]]
<1>1. gone \subseteq Keys /\ k \notin gone /\ vip_of[k] = NoVip
  BY DEF Replaced, IdentifyNew, TablesAgree, TypeOK
<1>2. vip_of' = [VipOfWithout(gone) EXCEPT ![k] = v]
  BY DEF IdentifyNew
<1>3. VipToSidWithout(gone)[v] = None
  BY DEF IdentifyNew, Adoptable, AllocVip, IsNextFresh
<1> HIDE DEF gone
<1>4. left[k] = None
  BY <1>1 DEF Held
<1>5. ASSUME NEW j \in Keys PROVE left[j] # v
  <2>1. CASE j \in gone \/ vip_of[j] = NoVip
    BY <2>1, NoneIsNobody, RelayConstants DEF Held
  <2>2. CASE j \notin gone /\ vip_of[j] # NoVip
    <3>1. vip_of[j] \in VipRange /\ vip_to_sid[vip_of[j]] = j
      BY <2>2 DEF TablesAgree
    <3> QED
      BY <1>3, <2>2, <3>1, WithoutAgree, NoneIsNobody DEF Held
  <2> QED
    BY <2>1, <2>2
<1>6. Held' = [left EXCEPT ![k] = v]
  BY <1>1, <1>2, NoneIsNobody DEF Held, VipOfWithout
<1>7. /\ owner[v] \in {None, k} \/ v \in Foreign
      /\ owner' = [owner EXCEPT ![v] = IF @ = None THEN k ELSE @]
  BY NewVip
<1>8. Ownership!Grant(gone, k, v)
  BY <1>4, <1>5, <1>6, <1>7 DEF Ownership!Grant, Ownership!Forget, Held
<1> QED
  BY <1>1, <1>8 DEF Ownership!Next

\* With relay_state.txt always written, a counter that has not wrapped and a
\* session id from every game, each vip belongs for good to the first session
\* that held it, and one session at a time holds it (foreign vips apart):
\* through timeouts, refusals, moves, crashes and restarts.
THEOREM RelayImplementsOwnership ==
  ASSUME SaveFaults = {}, MayWrap = FALSE, Anonymous = {}
  PROVE  Spec => ImplementsOwnership
<1>1. Init => Ownership!Init
  BY DEF Init, Ownership!Init
<1>2. TypeOK /\ TablesAgree /\ CounterAhead /\ ClaimsOwned /\ [Next]_vars
        => [Ownership!Next]_(Ownership!ovars)
  <2> SUFFICES ASSUME TypeOK, TablesAgree, CounterAhead, ClaimsOwned, [Next]_vars
               PROVE  Ownership!Next \/ UNCHANGED <<owner, vip_of>>
    BY DEF Ownership!ovars
  <2> USE DEF tables, counter
  <2>1. ASSUME NEW gone \in SUBSET Keys, RemovePeers(gone), UNCHANGED owner
        PROVE  Ownership!Next
    BY <2>1, ReleaseStep DEF RemovePeers, VipOfWithout
  <2>2. ASSUME NEW m \in net, NEW keep \in BOOLEAN, HandleHello(m, keep)
        PROVE  Ownership!Next
    <3> DEFINE k == m.game
    <3>1. /\ k \in Keys /\ KeyOf(m.game, m.src) = k /\ Owns(k, m.claim)
          /\ m.src \in Addrs /\ m.claim \in VipRange \cup {NoVip}
      BY <2>2, HelloSteps DEF Request, Keys, KeyOf, ClaimsOwned
    <3> HIDE DEF k
    <3>2. CASE IdentifyKnown(k, m.src)
      <4>1. Replaced(k, m.src) \in SUBSET Keys
        BY <3>1 DEF Replaced, TypeOK
      <4> QED
        BY <3>2, <4>1, ReleaseStep DEF IdentifyKnown, VipOfWithout
    <3>3. CASE \E v \in VipRange : IdentifyNew(k, m.src, m.claim, v)
      BY <3>1, <3>3, GrantStep
    <3> QED
      BY <2>2, <3>1, <3>2, <3>3, HelloSteps
  <2>3. ASSUME NEW m \in net, NEW keep \in BOOLEAN,
               HandleRefused(m, keep) \/ HandleUnregister(m, keep)
        PROVE  Ownership!Next
    <3>1. m.game \in Games /\ (m.type = "unregister" => addr_to_sid[m.src] \in Keys \cup {None})
      BY DEF TypeOK, Request, Ack
    <3> QED
      BY <2>1, <2>3, <3>1 DEF HandleRefused, HandleUnregister, Keys
  <2>4. ASSUME NEW gone \in SUBSET Keys, Sweep(gone)
        PROVE  Ownership!Next
    BY <2>1, <2>4 DEF Sweep
  <2>5. CASE Crash
    BY <2>5, ReleaseStep DEF Crash, NoTables
  <2>6. ASSUME NEW m \in net, CrashInSave(m)
        PROVE  FALSE
    BY <2>6, SaveFaults = {} DEF CrashInSave
  <2> QED
    BY <2>2, <2>3, <2>4, <2>5, <2>6
       DEF Next, Handle, Restart, Launch, SendHello, Move, Exit, ReceiveAck, Lose, vars
<1> QED
  BY <1>1, <1>2, TypeCorrect, TablesAlwaysAgree, CounterStaysAhead, ClaimsStayOwned, PTL
     DEF Spec, ImplementsOwnership, Ownership!Spec
-----------------------------------------------------------------------------
(* A game keeps its vip while it runs.  The danger is a datagram of a game *)
(* that has no peer any more, but brings another vip than the one the game *)
(* was told: a hello from before the ack, or an ack of a peer that is gone.*)
(* It cannot be on its way, because a peer only goes when nothing of its   *)
(* game is in flight, or when another game speaks from its address; and an *)
(* address is taken over only once it is Free.                             *)

\* g uses address a, or something between a and g is in flight.
SpeaksFrom(g, a) ==
  \/ phase[g] = "on" /\ at[g] = a
  \/ \E m \in net : m.game = g /\ m.src = a

OneSpeaker ==
  \A a \in Addrs, g, h \in Games : SpeaksFrom(g, a) /\ SpeaksFrom(h, a) => g = h

\* Another game speaks from the address the relay has for g.
Displaced(g) == \E h \in Games \ {g} : SpeaksFrom(h, addr_of[g])

Reached(g) == IsPeer(g) /\ ~Displaced(g)

\* A datagram of a running game fits what the relay and the game hold: what
\* brings no vip, or was acked, is of a peer that nobody can remove.
Current(m) ==
  /\ m.type # "unregister"
  /\ Reached(m.game) \/ (m.type # "ack" /\ m.claim = xnaddr[m.game])
  /\ m.type = "ack" => m.claim = vip_of[m.game]

VipKept ==
  \A g \in Games :
    phase[g] = "on" /\ IsPeer(g) /\ xnaddr[g] \notin Foreign \cup {NoVip}
      => vip_of[g] = xnaddr[g]

SessionInv ==
  /\ OneSpeaker
  /\ \A g \in Games : phase[g] = "off" => ~IsPeer(g)
  /\ \A m \in net : phase[m.game] # "off" /\ (phase[m.game] = "on" => Current(m))
  /\ VipKept

\* A step that gives nobody a vip: some peers go, of games that run only those
\* that are displaced or of which nothing is in flight; some games exit; and
\* what is new in flight says goodbye, or names the vip its game carries.
LEMMA SessionStep ==
  ASSUME TypeOK, SessionInv, UNCHANGED xnaddr,
         \A g \in Games, a \in Addrs : SpeaksFrom(g, a)' => SpeaksFrom(g, a),
         \A g \in Games : phase'[g] \in {phase[g], "done"},
         \A g \in Games :
           \/ addr_of'[g] = addr_of[g] /\ vip_of'[g] = vip_of[g]
           \/ /\ addr_of'[g] = None
              /\ phase[g] = "on" => Displaced(g) \/ \A m \in net' : m.game # g,
         \A m \in net' :
           \/ m \in net
           \/ m.game \in Games /\ phase'[m.game] = "done"
           \/ /\ m.game \in Games /\ phase[m.game] = "on"
              /\ m.type \notin {"unregister", "ack"} /\ m.claim = xnaddr[m.game]
  PROVE  SessionInv'
<1>1. OneSpeaker'
  BY DEF SessionInv, OneSpeaker
<1>2. ASSUME NEW g \in Games, phase'[g] = "off"
      PROVE  ~IsPeer(g)'
  BY <1>2 DEF SessionInv, IsPeer
<1>3. ASSUME NEW g \in Games, addr_of'[g] = addr_of[g], Reached(g)
      PROVE  Reached(g)'
  <2>1. addr_of[g] \in Addrs
    BY <1>3 DEF Reached, IsPeer, TypeOK, Keys
  <2>2. ASSUME NEW h \in Games, SpeaksFrom(h, addr_of[g])'
        PROVE  SpeaksFrom(h, addr_of[g])
    BY <1>3, <2>1, <2>2 DEF SpeaksFrom
  <2> QED
    BY <1>3, <2>2 DEF Reached, Displaced, IsPeer
<1>4. ASSUME NEW g \in Games, NEW m \in net', m \in net, m.game = g, phase'[g] = "on"
      PROVE  Current(m)'
  <2>1. Current(m) /\ phase[g] = "on"
    BY <1>4 DEF SessionInv
  <2>2. CASE addr_of'[g] = addr_of[g] /\ vip_of'[g] = vip_of[g]
    BY <1>3, <1>4, <2>1, <2>2 DEF Current
  <2>3. CASE Displaced(g)
    BY <1>4, <2>1, <2>3 DEF Current, Reached
  <2> QED
    BY <1>4, <2>1, <2>2, <2>3
<1>5. ASSUME NEW m \in net'
      PROVE  phase'[m.game] # "off" /\ (phase'[m.game] = "on" => Current(m)')
  <2>1. m.game \in Games
    BY DEF TypeOK, Request, Ack
  <2>2. CASE m \in net
    BY <1>4, <2>1, <2>2 DEF SessionInv
  <2>3. CASE m \notin net
    BY <2>1, <2>3 DEF Current
  <2> QED
    BY <2>2, <2>3
<1>6. VipKept'
  BY DEF SessionInv, VipKept, IsPeer
<1> QED
  BY <1>1, <1>2, <1>5, <1>6 DEF SessionInv

\* A game that starts, or moves, speaks from an address nobody spoke from, and
\* whoever the relay still has there has nothing in flight.
LEMMA TakesAddress ==
  ASSUME Anonymous = {}, TypeOK, TablesAgree, SessionInv,
         NEW g \in Games, NEW a \in Addrs, Free(a),
         phase' = [phase EXCEPT ![g] = "on"], at' = [at EXCEPT ![g] = a],
         UNCHANGED <<tables, net>>,
         phase[g] = "off" \/ (phase[g] = "on" /\ UNCHANGED xnaddr),
         \A h \in Games \ {g} : xnaddr'[h] = xnaddr[h]
  PROVE  SessionInv'
<1> USE DEF tables
<1>1. \A h \in Games, b \in Addrs : SpeaksFrom(h, b)' => SpeaksFrom(h, b) \/ (h = g /\ b = a)
  BY DEF SpeaksFrom, TypeOK
<1>2. \A h \in Games : ~SpeaksFrom(h, a)
  BY DEF SpeaksFrom, Free
<1>3. OneSpeaker'
  <2> SUFFICES ASSUME NEW b \in Addrs, NEW h \in Games, NEW i \in Games,
                      SpeaksFrom(h, b)', SpeaksFrom(i, b)'
               PROVE  h = i
    BY DEF OneSpeaker
  <2> QED
    BY <1>1, <1>2 DEF SessionInv, OneSpeaker
<1>4. ASSUME NEW h \in Games, phase'[h] = "off"
      PROVE  ~IsPeer(h)'
  BY <1>4 DEF SessionInv, IsPeer, TypeOK
<1>5. ASSUME NEW m \in net'
      PROVE  phase'[m.game] # "off" /\ (phase'[m.game] = "on" => Current(m)')
  <2> DEFINE h == m.game
  <2>1. m \in net /\ h \in Games /\ phase[h] # "off"
    BY DEF SessionInv, TypeOK, Request, Ack
  <2> SUFFICES ASSUME phase'[h] = "on" PROVE Current(m)'
    BY <2>1 DEF TypeOK
  <2>2. phase[h] = "on" /\ Current(m) /\ xnaddr'[h] = xnaddr[h]
    BY <2>1 DEF SessionInv, TypeOK
  <2>3. ASSUME Reached(h) PROVE Reached(h)'
    <3>1. addr_of[h] \in Addrs /\ addr_to_sid[addr_of[h]] = h
      BY <2>1, <2>3 DEF Reached, IsPeer, TablesAgree, TypeOK, Keys
    <3>2. addr_of[h] # a
      BY <2>1, <3>1 DEF Free, Quiet, KeyOf
    <3>3. ASSUME NEW i \in Games \ {h}, SpeaksFrom(i, addr_of[h])'
          PROVE  FALSE
      <4>1. SpeaksFrom(i, addr_of[h])
        BY <3>1, <3>2, <3>3 DEF SpeaksFrom, TypeOK
      <4> QED
        BY <2>3, <4>1 DEF Reached, Displaced
    <3> QED
      BY <2>3, <3>3 DEF Reached, Displaced, IsPeer
  <2> QED
    BY <2>2, <2>3 DEF Current
<1>6. VipKept'
  BY DEF SessionInv, VipKept, IsPeer, TypeOK
<1> QED
  BY <1>3, <1>4, <1>5, <1>6 DEF SessionInv

LEMMA AckStep ==
  ASSUME TypeOK, SessionInv, NEW m \in net, NEW keep \in BOOLEAN, ReceiveAck(m, keep)
  PROVE  SessionInv'
<1> DEFINE g == m.game
<1>1. /\ g \in Games /\ phase[g] = "on" /\ Current(m)
      /\ Reached(g) /\ m.claim = vip_of[g]
  BY DEF ReceiveAck, SessionInv, Current, TypeOK, Request, Ack
<1>2. /\ net' \subseteq net /\ UNCHANGED <<addr_of, vip_of, phase, at>>
      /\ \A h \in Games : xnaddr'[h] = xnaddr[h] \/ (h = g /\ xnaddr'[h] = vip_of[h])
  BY <1>1 DEF ReceiveAck, Rest, tables, TypeOK
<1> HIDE DEF g
<1>3. \A h \in Games, a \in Addrs : SpeaksFrom(h, a)' => SpeaksFrom(h, a)
  BY <1>2 DEF SpeaksFrom
<1>4. OneSpeaker'
  BY <1>3 DEF SessionInv, OneSpeaker
<1>5. ASSUME NEW h \in Games, Reached(h)
      PROVE  Reached(h)'
  <2>1. addr_of[h] \in Addrs
    BY <1>5 DEF Reached, IsPeer, TypeOK, Keys
  <2>2. ASSUME NEW i \in Games, SpeaksFrom(i, addr_of[h])'
        PROVE  SpeaksFrom(i, addr_of[h])
    BY <1>2, <2>2 DEF SpeaksFrom
  <2> QED
    BY <1>2, <1>5, <2>2 DEF Reached, Displaced, IsPeer
<1>6. ASSUME NEW n \in net'
      PROVE  phase'[n.game] # "off" /\ (phase'[n.game] = "on" => Current(n)')
  <2>1. n \in net /\ n.game \in Games
    BY <1>2 DEF TypeOK, Request, Ack
  <2> QED
    BY <1>1, <1>2, <1>5, <2>1 DEF SessionInv, Current
<1>7. VipKept'
  BY <1>2 DEF SessionInv, VipKept, IsPeer
<1> QED
  BY <1>2, <1>4, <1>6, <1>7 DEF SessionInv, IsPeer

\* A game that comes back with the vip it was told gets it: nobody else can
\* hold what is its own.
LEMMA OwnVipIsFree ==
  ASSUME TypeOK, TablesAgree, ClaimsOwned,
         NEW g \in Games, ~IsPeer(g), xnaddr[g] \notin Foreign \cup {NoVip}, NEW gone
  PROVE  Adoptable(xnaddr[g], VipToSidWithout(gone))
<1> DEFINE v == xnaddr[g]
<1>1. v \in VipRange /\ owner[v] = g /\ g \in Keys /\ vip_of[g] # v
  BY NoneIsNobody DEF ClaimsOwned, Owns, TablesAgree, Keys
<1>2. vip_to_sid[v] = None
  <2> SUFFICES ASSUME vip_to_sid[v] # None PROVE FALSE
    OBVIOUS
  <2>1. vip_to_sid[v] \in Keys /\ vip_of[vip_to_sid[v]] = v
    BY <1>1 DEF TablesAgree, TypeOK
  <2>2. Owns(vip_to_sid[v], v)
    BY <2>1 DEF ClaimsOwned
  <2> QED
    BY <1>1, <2>1, <2>2 DEF Owns
<1> QED
  BY <1>1, <1>2, WithoutAgree DEF Adoptable

\* What a hello of g from src does to the peers: g is at src, whoever else the
\* relay had there is gone, and the others stay as they are.
LEMMA HelloPeers ==
  ASSUME TypeOK, TablesAgree, NEW g \in Games, NEW src \in Addrs,
         NEW claim \in VipRange \cup {NoVip},
         IdentifyKnown(g, src) \/ \E v \in VipRange : IdentifyNew(g, src, claim, v)
  PROVE  /\ addr_of'[g] = src
         /\ \A h \in Games \ {g} :
              \/ addr_of'[h] = addr_of[h] /\ vip_of'[h] = vip_of[h]
              \/ addr_of[h] = src /\ addr_of'[h] = None
         /\ IsPeer(g) => vip_of'[g] = vip_of[g]
<1> DEFINE gone == Replaced(g, src)
<1>1. g \in Keys /\ g \notin gone
  BY DEF Keys, Replaced
<1>2. \A h \in Games \ {g} : h \in gone => addr_of[h] = src
  BY NoneIsNobody DEF Replaced, TablesAgree, Keys
<1>3. /\ addr_of' = [AddrOfWithout(gone) EXCEPT ![g] = src]
      /\ \/ vip_of' = VipOfWithout(gone)
         \/ ~IsPeer(g) /\ \E v : vip_of' = [VipOfWithout(gone) EXCEPT ![g] = v]
  BY DEF IdentifyKnown, IdentifyNew
<1> HIDE DEF gone
<1> QED
  BY <1>1, <1>2, <1>3 DEF AddrOfWithout, VipOfWithout, Keys

\* A running game without a peer is given the vip it carries, if it carries one.
LEMMA HelloGivesOwnVip ==
  ASSUME TypeOK, TablesAgree, ClaimsOwned, NEW g \in Games, NEW src \in Addrs,
         xnaddr[g] \notin Foreign \cup {NoVip},
         NEW v \in VipRange, IdentifyNew(g, src, xnaddr[g], v)
  PROVE  vip_of'[g] = xnaddr[g]
<1>1. ~IsPeer(g) /\ vip_of' = [VipOfWithout(Replaced(g, src)) EXCEPT ![g] = v]
  BY DEF IdentifyNew
<1>2. v = xnaddr[g]
  BY <1>1, OwnVipIsFree DEF IdentifyNew
<1> QED
  BY <1>1, <1>2 DEF VipOfWithout, Keys

LEMMA HelloStep ==
  ASSUME Anonymous = {}, TypeOK, TablesAgree, ClaimsOwned, SessionInv,
         NEW m \in net, NEW keep \in BOOLEAN, HandleHello(m, keep)
  PROVE  SessionInv'
<1> DEFINE g == m.game
           src == m.src
<1>1. /\ g \in Games /\ src \in Addrs /\ m.claim \in VipRange \cup {NoVip}
      /\ IdentifyKnown(g, src) \/ \E v \in VipRange : IdentifyNew(g, src, m.claim, v)
      /\ phase[g] # "off" /\ (phase[g] = "on" => Current(m))
      /\ m.type # "ack" /\ SpeaksFrom(g, src)
  BY HelloSteps DEF Request, KeyOf, SessionInv, SpeaksFrom
<1>2. /\ addr_of'[g] = src
      /\ \A h \in Games \ {g} :
           \/ addr_of'[h] = addr_of[h] /\ vip_of'[h] = vip_of[h]
           \/ addr_of[h] = src /\ addr_of'[h] = None
      /\ IsPeer(g) => vip_of'[g] = vip_of[g]
  BY <1>1, HelloPeers
<1>3. /\ UNCHANGED <<phase, at, xnaddr>>
      /\ \A n \in net' : \/ n \in net
                         \/ n.game = g /\ n.src = src /\ n.type = "ack" /\ n.claim = vip_of'[g]
  BY <1>1 DEF HandleHello, Rest, clients, KeyOf
<1>4. (phase[g] = "on" /\ ~IsPeer(g)) => m.claim = xnaddr[g]
  BY <1>1 DEF Current, Reached
<1>5. m.claim = xnaddr[g] =>
        IdentifyKnown(g, src) \/ \E v \in VipRange : IdentifyNew(g, src, xnaddr[g], v)
  BY <1>1
<1> HIDE DEF g, src
<1>6. \A h \in Games, a \in Addrs : SpeaksFrom(h, a)' => SpeaksFrom(h, a)
  BY <1>1, <1>3 DEF SpeaksFrom
<1>7. OneSpeaker'
  BY <1>6 DEF SessionInv, OneSpeaker
<1>8. ASSUME NEW h \in Games, phase'[h] = "off"
      PROVE  ~IsPeer(h)'
  BY <1>1, <1>2, <1>3, <1>8 DEF SessionInv, IsPeer
<1>9. Reached(g)'
  <2>1. IsPeer(g)'
    BY <1>1, <1>2, NoneIsNobody DEF IsPeer
  <2>2. ASSUME NEW h \in Games \ {g}, SpeaksFrom(h, addr_of[g])'
        PROVE  FALSE
    <3>1. SpeaksFrom(h, src)
      BY <1>1, <1>2, <1>3, <2>2 DEF SpeaksFrom
    <3> QED
      BY <1>1, <3>1 DEF SessionInv, OneSpeaker
  <2> QED
    BY <2>1, <2>2 DEF Reached, Displaced
<1>10. ASSUME NEW n \in net', n.game # g, phase[n.game] = "on"
       PROVE  Current(n)'
  <2> DEFINE h == n.game
  <2>1. n \in net /\ h \in Games /\ Current(n)
    BY <1>3, <1>10 DEF SessionInv, TypeOK, Request, Ack
  <2>2. ASSUME Reached(h)
        PROVE  Reached(h)' /\ vip_of'[h] = vip_of[h]
    <3>1. addr_of[h] \in Addrs
      BY <2>1, <2>2 DEF Reached, IsPeer, TypeOK, Keys
    <3>2. addr_of[h] # src
      BY <1>1, <1>10, <2>2 DEF Reached, Displaced
    <3>3. addr_of'[h] = addr_of[h] /\ vip_of'[h] = vip_of[h]
      BY <1>2, <1>10, <2>1, <3>2
    <3>4. ASSUME NEW i \in Games, SpeaksFrom(i, addr_of[h])'
          PROVE  SpeaksFrom(i, addr_of[h])
      BY <1>3, <1>1, <3>1, <3>3, <3>4 DEF SpeaksFrom
    <3> QED
      BY <2>2, <3>3, <3>4 DEF Reached, Displaced, IsPeer
  <2> QED
    BY <1>3, <2>1, <2>2 DEF Current
<1>11. ASSUME NEW n \in net', n.game = g, phase[g] = "on"
       PROVE  Current(n)'
  <2>1. CASE n \in net
    <3>1. Current(n)
      BY <1>11, <2>1 DEF SessionInv
    <3> QED
      BY <1>2, <1>9, <1>11, <3>1 DEF Current, Reached
  <2>2. CASE n \notin net
    BY <1>3, <1>9, <1>11, <2>2 DEF Current
  <2> QED
    BY <2>1, <2>2
<1>12. ASSUME NEW n \in net'
       PROVE  phase'[n.game] # "off" /\ (phase'[n.game] = "on" => Current(n)')
  BY <1>1, <1>3, <1>10, <1>11 DEF SessionInv
<1>13. VipKept'
  <2> SUFFICES ASSUME NEW h \in Games, phase[h] = "on", IsPeer(h)',
                      xnaddr[h] \notin Foreign \cup {NoVip}
               PROVE  vip_of'[h] = xnaddr[h]
    BY <1>3 DEF VipKept
  <2>1. CASE h # g
    BY <1>2, <2>1 DEF SessionInv, VipKept, IsPeer
  <2>2. CASE h = g /\ IsPeer(g)
    BY <1>2, <2>2 DEF SessionInv, VipKept
  <2>3. CASE h = g /\ ~IsPeer(g)
    BY <1>1, <1>4, <1>5, <2>3, HelloGivesOwnVip DEF IdentifyKnown
  <2> QED
    BY <2>1, <2>2, <2>3
<1> QED
  BY <1>7, <1>8, <1>12, <1>13 DEF SessionInv

\* A running game without the nick check keeps the vip it was told: through
\* timeouts, moves, addresses that change hands, duplicated and late
\* datagrams, crashes and restarts the relay holds the same vip for it or
\* none, and nobody else is reached under it.
THEOREM VipsAreStable ==
  ASSUME SaveFaults = {}, MayWrap = FALSE, Anonymous = {}, Enforce = FALSE
  PROVE  Spec => []StableVip
<1>1. Init => SessionInv
  BY DEF Init, SessionInv, OneSpeaker, SpeaksFrom, VipKept, IsPeer, Keys
<1>2. TypeOK /\ TablesAgree /\ ClaimsOwned /\ SessionInv /\ [Next]_vars => SessionInv'
  <2> SUFFICES ASSUME TypeOK, TablesAgree, ClaimsOwned, SessionInv, [Next]_vars
               PROVE  SessionInv'
    OBVIOUS
  <2> USE DEF tables, counter, clients
  <2>1. ASSUME NEW m \in net, NEW keep \in BOOLEAN, HandleHello(m, keep)
        PROVE  SessionInv'
    BY <2>1, HelloStep
  <2>2. ASSUME NEW m \in net, NEW keep \in BOOLEAN, HandleUnregister(m, keep)
        PROVE  SessionInv'
    <3> DEFINE gone == {addr_to_sid[m.src]} \ {None}
    <3>1. /\ m.game \in Games /\ m.src \in Addrs /\ phase[m.game] # "on"
          /\ SpeaksFrom(m.game, m.src)
      BY <2>2 DEF HandleUnregister, SessionInv, Current, SpeaksFrom, TypeOK, Request, Ack
    <3>2. ASSUME NEW g \in Games, g \in gone, phase[g] = "on"
          PROVE  Displaced(g)
      BY <3>1, <3>2 DEF TablesAgree, Displaced
    <3>3. \A g \in Games :
            \/ addr_of'[g] = addr_of[g] /\ vip_of'[g] = vip_of[g]
            \/ addr_of'[g] = None /\ g \in gone
      BY <2>2 DEF HandleUnregister, RemovePeers, AddrOfWithout, VipOfWithout, Keys
    <3>4. net' \subseteq net /\ UNCHANGED <<phase, at, xnaddr>>
      BY <2>2 DEF HandleUnregister, Rest
    <3>5. \A g \in Games, a \in Addrs : SpeaksFrom(g, a)' => SpeaksFrom(g, a)
      BY <3>4 DEF SpeaksFrom
    <3> HIDE DEF gone
    <3> QED
      BY <3>2, <3>3, <3>4, <3>5, SessionStep
  <2>3. ASSUME NEW gone \in SUBSET Keys, Sweep(gone)
        PROVE  SessionInv'
    <3>1. \A g \in Games :
            \/ addr_of'[g] = addr_of[g] /\ vip_of'[g] = vip_of[g]
            \/ addr_of'[g] = None /\ \A m \in net' : m.game # g
      BY <2>3 DEF Sweep, RemovePeers, AddrOfWithout, VipOfWithout, Keys, Quiet, KeyOf
    <3>2. UNCHANGED <<net, phase, at, xnaddr>>
      BY <2>3 DEF Sweep
    <3>3. \A g \in Games, a \in Addrs : SpeaksFrom(g, a)' => SpeaksFrom(g, a)
      BY <3>2 DEF SpeaksFrom
    <3> QED
      BY <3>1, <3>2, <3>3, SessionStep
  <2>4. CASE Crash
    <3>1. /\ \A g \in Games : addr_of'[g] = None
          /\ net' = {} /\ UNCHANGED <<phase, at, xnaddr>>
      BY <2>4 DEF Crash, NoTables, Keys
    <3>2. \A g \in Games, a \in Addrs : SpeaksFrom(g, a)' => SpeaksFrom(g, a)
      BY <3>1 DEF SpeaksFrom
    <3> QED
      BY <3>1, <3>2, SessionStep
  <2>5. ASSUME UNCHANGED <<tables, xnaddr>>, net' \subseteq net,
               \A g \in Games, a \in Addrs : SpeaksFrom(g, a)' => SpeaksFrom(g, a),
               \A g \in Games : phase'[g] \in {phase[g], "done"}
        PROVE  SessionInv'
    BY <2>5, SessionStep
  <2>6. CASE UNCHANGED <<tables, clients>> /\ net' \subseteq net
    <3>1. \A g \in Games, a \in Addrs : SpeaksFrom(g, a)' => SpeaksFrom(g, a)
      BY <2>6 DEF SpeaksFrom
    <3> QED
      BY <2>5, <2>6, <3>1
  <2>7. ASSUME NEW g \in Games, NEW a \in Addrs,
               (\E v \in Foreign \cup {NoVip} : Launch(g, a, v)) \/ Move(g, a)
        PROVE  SessionInv'
    <3>1. CASE \E v \in Foreign \cup {NoVip} : Launch(g, a, v)
      BY <3>1, TakesAddress DEF Launch, TypeOK
    <3>2. CASE Move(g, a)
      <4>1. phase' = [phase EXCEPT ![g] = "on"]
        BY <3>2 DEF Move, TypeOK
      <4> QED
        BY <3>2, <4>1, TakesAddress DEF Move
    <3> QED
      BY <2>7, <3>1, <3>2
  <2>8. ASSUME NEW g \in Games, phase[g] = "on", NEW m, Send(m),
               m.game = g, m.src = at[g],
               UNCHANGED <<tables, at, xnaddr>>, \A h \in Games : phase'[h] \in {phase[h], "done"},
               \/ m.type \notin {"unregister", "ack"} /\ m.claim = xnaddr[g]
               \/ phase'[g] = "done"
        PROVE  SessionInv'
    <3>1. \A n \in net' : n \in net \/ n = m
      BY <2>8 DEF Send
    <3>2. \A h \in Games, a \in Addrs : SpeaksFrom(h, a)' => SpeaksFrom(h, a)
      BY <2>8, <3>1 DEF SpeaksFrom
    <3> QED
      BY <2>8, <3>1, <3>2, SessionStep
  <2>9. ASSUME NEW g \in Games, NEW t \in {"register", "heartbeat"}, SendHello(g, t)
        PROVE  SessionInv'
    BY <2>8, <2>9 DEF SendHello
  <2>10. ASSUME NEW g \in Games, Exit(g)
         PROVE  SessionInv'
    <3>1. /\ phase[g] = "on" /\ phase'[g] = "done"
          /\ \A h \in Games : phase'[h] \in {phase[h], "done"}
      BY <2>10 DEF Exit, TypeOK
    <3>2. CASE Send([type |-> "unregister", game |-> g, src |-> at[g], claim |-> NoVip])
      BY <2>8, <2>10, <3>1, <3>2 DEF Exit
    <3>3. CASE UNCHANGED net
      <4>1. \A h \in Games, a \in Addrs : SpeaksFrom(h, a)' => SpeaksFrom(h, a)
        BY <2>10, <3>1, <3>3 DEF Exit, SpeaksFrom
      <4> QED
        BY <2>5, <2>10, <3>1, <3>3, <4>1 DEF Exit
    <3> QED
      BY <2>10, <3>2, <3>3 DEF Exit
  <2>11. ASSUME NEW m \in net, NEW keep \in BOOLEAN, ReceiveAck(m, keep)
         PROVE  SessionInv'
    BY <2>11, AckStep
  <2>12. ASSUME NEW m \in net, NEW keep \in BOOLEAN, CrashInSave(m) \/ HandleRefused(m, keep)
         PROVE  FALSE
    BY <2>12, SaveFaults = {}, Enforce = FALSE DEF CrashInSave, HandleRefused
  <2> QED
    BY <2>1, <2>2, <2>3, <2>4, <2>6, <2>7, <2>9, <2>10, <2>11, <2>12
       DEF Next, Handle, Restart, Lose, vars
<1>3. TypeOK /\ TablesAgree /\ ClaimsOwned /\ SessionInv => StableVip
  <2> SUFFICES ASSUME TypeOK, TablesAgree, ClaimsOwned, SessionInv,
                      NEW g \in Games, phase[g] = "on", xnaddr[g] \notin Foreign \cup {NoVip}
               PROVE  /\ IsPeer(g) => vip_of[g] = xnaddr[g]
                      /\ vip_to_sid[xnaddr[g]] \in {None, g}
    BY DEF StableVip
  <2>1. IsPeer(g) => vip_of[g] = xnaddr[g]
    BY DEF SessionInv, VipKept
  <2>2. vip_to_sid[xnaddr[g]] \in {None, g}
    <3>1. xnaddr[g] \in VipRange /\ owner[xnaddr[g]] = g
      BY DEF ClaimsOwned, Owns
    <3> DEFINE h == vip_to_sid[xnaddr[g]]
    <3>2. h # None => h \in Keys /\ Owns(h, xnaddr[g])
      BY <3>1 DEF TablesAgree, TypeOK, ClaimsOwned
    <3> QED
      BY <3>1, <3>2 DEF Owns
  <2> QED
    BY <2>1, <2>2
<1> QED
  BY <1>1, <1>2, <1>3, TypeCorrect, TablesAlwaysAgree, ClaimsStayOwned, PTL DEF Spec
=============================================================================
