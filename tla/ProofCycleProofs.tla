-------------------------- MODULE ProofCycleProofs --------------------------
(***************************************************************************)
(* What the relay's nick check keeps, for any games, addresses, nicks and  *)
(* times; that it keeps it with clients too, as their passes are an        *)
(* environment of the check like any other; and that a player who proved   *)
(* his nick stays admitted, by the waits between passes.                   *)
(***************************************************************************)
EXTENDS ProofCycle, TLAPS

-----------------------------------------------------------------------------
(* The nick check by itself.                                               *)


\* The epoch of a time is a number, and the next one begins after that time.
LEMMA EpochFacts ==
  ASSUME NEW a \in Nat, NEW d \in Nat \ {0}
  PROVE  a \div d \in Nat /\ a < (a \div d + 1) * d
OBVIOUS

\* The values that the relay starts with.
LEMMA StartTyped ==
  /\ Nobody \in [Sessions -> Peer \cup {None}]
  /\ \A S : Zero(S) \in [S -> Nat]
  /\ NoGraceAsked \in [Ips -> [minute : Nat, count : Nat]]
BY DEF Nobody, Zero, NoGraceAsked

LEMMA AskedTyped ==
  ASSUME TypeOK, NEW ip \in Ips
  PROVE  Asked(ip) \in [minute : Nat, count : Nat]
<1>1. now \div Minute \in Nat
  BY EpochFacts, GateConstants DEF TypeOK
<1>2. grace_rate[ip].count \in Nat
  BY DEF TypeOK
<1> QED
  BY <1>1, <1>2, GateConstants DEF Asked

\* A datagram of an ip forgets a kick that is over, and no other.
LEMMA ReceivedTyped ==
  ASSUME TypeOK, NEW ip \in Ips, Received(ip)
  PROVE  kick_until' \in [Ips -> Nat]
BY DEF TypeOK, Received

LEMMA RegisterTyped ==
  ASSUME TypeOK, NEW s \in Sessions, NEW ip \in Ips, NEW n \in Nicks, NEW t,
         Register(s, ip, n, t)
  PROVE  TypeOK'
<1>1. kick_until' \in [Ips -> Nat]
  BY ReceivedTyped DEF Register
<1>2. grace_rate' \in [Ips -> [minute : Nat, count : Nat]]
  BY AskedTyped DEF Register, TypeOK
<1>3. grace_start' \in [Sessions -> Nat]
  BY DEF Register, TypeOK
<1>4. peers' \in [Sessions -> Peer \cup {None}]
  BY DEF Register, TypeOK, Peer
<1> QED
  BY <1>1, <1>2, <1>3, <1>4 DEF Register, TypeOK

\* No step of the relay's spoils the types.
LEMMA GateTypeStep ==
  ASSUME TypeOK, [GateNext]_gate
  PROVE  TypeOK'
<1> USE GateConstants
<1>1. ASSUME NEW ip \in Ips, Challenge(ip) PROVE TypeOK'
  <2>1. CurrentEpoch \in Nat
    BY EpochFacts DEF TypeOK, CurrentEpoch
  <2> QED
    BY <1>1, <2>1, ReceivedTyped DEF Challenge, TypeOK
<1>2. ASSUME NEW ip \in Ips, NEW n \in Nicks, NEW e, Prove(ip, n, e) PROVE TypeOK'
  <2>1. now + Admit \in Nat
    BY DEF TypeOK
  <2> QED
    BY <1>2, <2>1, ReceivedTyped DEF Prove, TypeOK
<1>3. ASSUME NEW ip \in Ips, Kick(ip) PROVE TypeOK'
  BY <1>3 DEF Kick, Without, TypeOK
<1>4. ASSUME NEW ip \in Ips, Ban(ip) PROVE TypeOK'
  BY <1>4 DEF Ban, Without, TypeOK
<1>5. ASSUME NEW ip \in Ips, Unban(ip) PROVE TypeOK'
  BY <1>5 DEF Unban, TypeOK
<1>6. ASSUME NEW s \in Sessions, NEW ip \in Ips, NEW n \in Nicks, NEW t \in Sessions,
             Register(s, ip, n, t)
      PROVE  TypeOK'
  BY <1>6, RegisterTyped
<1>7. ASSUME NEW s \in Sessions, Leave(s) PROVE TypeOK'
  BY <1>7 DEF Leave, TypeOK
<1>8. CASE Sweep
  BY <1>8 DEF Sweep, TypeOK
<1>9. CASE LoadIdentity
  BY <1>9 DEF LoadIdentity, TypeOK
<1>10. CASE Restart
  <2>1. swept' \in BOOLEAN /\ enforce' \in BOOLEAN
    BY <1>10, Zenon DEF Restart, TypeOK
  <2> QED
    BY <1>10, <2>1, StartTyped DEF Restart, TypeOK
<1>11. CASE Tick
  <2>1. free' \in [Sessions -> Nat]
    BY <1>11 DEF Tick, TypeOK
  <2>2. now' \in Nat \ {0}
    BY <1>11 DEF Tick, TypeOK
  <2>3. swept' \in BOOLEAN
    BY <1>11, Zenon DEF Tick
  <2> QED
    BY <1>11, <2>1, <2>2, <2>3 DEF Tick, TypeOK
<1>12. CASE UNCHANGED gate
  BY <1>12 DEF gate, TypeOK
<1>13. \A x \in nonces : x.ip \in Ips
  BY DEF TypeOK
<1> QED
  BY <1>1, <1>2, <1>3, <1>4, <1>5, <1>6, <1>7, <1>8, <1>9, <1>10, <1>11, <1>12, <1>13
  DEF GateNext

LEMMA GateStartsTyped == GateInit => TypeOK
<1> SUFFICES ASSUME GateInit PROVE TypeOK
  OBVIOUS
<1>1. swept \in BOOLEAN /\ enforce \in BOOLEAN
  BY Zenon DEF GateInit
<1>2. now \in Nat \ {0}
  BY DEF GateInit
<1> QED
  BY <1>1, <1>2, StartTyped DEF GateInit, TypeOK

\* The relay's tables, clocks and challenges keep their types.
THEOREM GateTypeCorrect == GateSpec => []TypeOK
<1>1. GateInit => TypeOK
  BY GateStartsTyped
<1>2. TypeOK /\ [GateNext]_gate => TypeOK'
  BY GateTypeStep
<1> QED
  BY <1>1, <1>2, PTL DEF GateSpec

-----------------------------------------------------------------------------
\* Kicks and bans hold, whatever arrives, whoever moves, whatever is undone.
THEOREM KicksHold == GateSpec => []KickHolds
<1>1. GateInit => KickHolds
  BY DEF GateInit, KickHolds, Nobody
<1>2. TypeOK /\ KickHolds /\ [GateNext]_gate => KickHolds'
  <2> SUFFICES ASSUME TypeOK, KickHolds, [GateNext]_gate, NEW s \in Sessions, peers'[s] # None
               PROVE  ~Dropped(peers[s].ip)'
    BY DEF KickHolds
  <2> USE DEF Dropped
  \* A datagram from an ip that is not dropped changes nothing for the others.
  <2>1. ASSUME NEW ip \in Ips, Received(ip), UNCHANGED <<now, banned>>
        PROVE  /\ ~Dropped(ip)'
               /\ \A i \in Ips : ~Dropped(i) => ~Dropped(i)'
    BY <2>1 DEF Received, TypeOK
  <2>2. peers[s] # None => peers[s].ip \in Ips
    BY DEF TypeOK, Peer
  <2>3. peers[s] # None => ~Dropped(peers[s].ip)
    BY DEF KickHolds
  <2>4. ASSUME NEW ip \in Ips, Challenge(ip) PROVE ~Dropped(peers[s].ip)'
    BY <2>1, <2>2, <2>3, <2>4 DEF Challenge
  <2>5. ASSUME NEW ip \in Ips, NEW n \in Nicks, NEW e, Prove(ip, n, e)
        PROVE  ~Dropped(peers[s].ip)'
    BY <2>1, <2>2, <2>3, <2>5 DEF Prove
  <2>6. ASSUME NEW ip \in Ips, Kick(ip) PROVE ~Dropped(peers[s].ip)'
    <3>1. peers[s] # None /\ peers[s].ip # ip /\ peers'[s] = peers[s]
      BY <2>6 DEF Kick, Without, TypeOK
    <3> QED
      BY <2>2, <2>3, <2>6, <3>1 DEF Kick, TypeOK
  <2>7. ASSUME NEW ip \in Ips, Ban(ip) PROVE ~Dropped(peers[s].ip)'
    <3>1. peers[s] # None /\ peers[s].ip # ip /\ peers'[s] = peers[s]
      BY <2>7 DEF Ban, Without, TypeOK
    <3> QED
      BY <2>2, <2>3, <2>7, <3>1 DEF Ban, TypeOK
  <2>8. ASSUME NEW ip \in Ips, Unban(ip) PROVE ~Dropped(peers[s].ip)'
    BY <2>2, <2>3, <2>8 DEF Unban, TypeOK
  <2>9. ASSUME NEW r \in Sessions, NEW ip \in Ips, NEW n \in Nicks, NEW t \in Sessions,
               Register(r, ip, n, t)
        PROVE  ~Dropped(peers[s].ip)'
    <3>1. \/ peers'[s] = peers[s]
          \/ peers'[s] = [ip |-> ip, nick |-> n]
      BY <2>9 DEF Register, TypeOK
    <3>2. Received(ip) /\ UNCHANGED <<now, banned>>
      BY <2>9 DEF Register
    <3> QED
      BY <2>1, <2>2, <2>3, <3>1, <3>2
  <2>10. ASSUME NEW r \in Sessions, Leave(r) PROVE ~Dropped(peers[s].ip)'
    BY <2>3, <2>10 DEF Leave, TypeOK
  <2>11. CASE Sweep
    BY <2>3, <2>11 DEF Sweep, TypeOK
  <2>12. CASE LoadIdentity
    BY <2>3, <2>12 DEF LoadIdentity
  <2>13. CASE Restart
    BY <2>13 DEF Restart, Nobody
  <2>14. CASE Tick
    BY <2>2, <2>3, <2>14 DEF Tick, TypeOK
  <2>15. CASE UNCHANGED gate
    BY <2>3, <2>15 DEF gate
  <2>16. \A x \in nonces : x.ip \in Ips
    BY DEF TypeOK
  <2> QED
    BY <2>4, <2>5, <2>6, <2>7, <2>8, <2>9, <2>10, <2>11, <2>12, <2>13, <2>14, <2>15, <2>16
    DEF GateNext
<1> QED
  BY <1>1, <1>2, GateTypeCorrect, PTL DEF GateSpec

-----------------------------------------------------------------------------
\* What a registration does to a session's place and grace.
LEMMA RegisterEffect ==
  ASSUME TypeOK, NEW r \in Sessions, NEW ip \in Ips, NEW n \in Nicks, NEW t,
         Register(r, ip, n, t), NEW s \in Sessions
  PROVE  /\ \/ peers'[s] = None
            \/ s # r /\ peers'[s] = peers[s]
            \/ /\ s = r /\ peers'[s] = [ip |-> ip, nick |-> n]
               /\ ~enforce \/ Admitted(ip, n) \/ Running(grace_start'[s])
         /\ \/ grace_start'[s] = grace_start[s]
            \/ s = r /\ grace_start[s] = 0 /\ grace_start'[s] = now
BY DEF Register, TypeOK

\* Admissions other than those that are over outlast a step without a tick.
LEMMA AdmittedStays ==
  ASSUME TypeOK, now' = now, NEW ip \in Ips, NEW n \in Nicks, Admitted(ip, n),
         admitted'[<<ip, n>>] = admitted[<<ip, n>>] \/ admitted'[<<ip, n>>] >= now
  PROVE  Admitted(ip, n)'
BY DEF Admitted, TypeOK

LEMMA PeerAt ==
  ASSUME TypeOK, NEW s \in Sessions, peers[s] # None
  PROVE  peers[s].ip \in Ips /\ peers[s].nick \in Nicks
BY DEF TypeOK, Peer

\* A step that takes nothing from a session but its place keeps SweptClean.
LEMMA CleanStays ==
  ASSUME TypeOK, SweptClean, swept' = swept, enforce' = enforce, now' = now,
         grace_start' = grace_start,
         \A s \in Sessions : peers'[s] \in {None, peers[s]},
         \A ip \in Ips, n \in Nicks :
           admitted'[<<ip, n>>] = admitted[<<ip, n>>] \/ admitted'[<<ip, n>>] >= now
  PROVE  SweptClean'
<1> SUFFICES ASSUME swept, enforce, NEW s \in Sessions, Unproved(s)'
             PROVE  Running(grace_start[s])'
  BY DEF SweptClean
<1>1. peers[s] # None /\ peers'[s] = peers[s]
  BY DEF Unproved
<1>2. Unproved(s)
  BY <1>1, PeerAt, AdmittedStays DEF Unproved
<1> QED
  BY <1>2 DEF SweptClean, Running

THEOREM SweepsClean == GateSpec => []SweptClean
<1>1. GateInit => SweptClean
  BY DEF GateInit, SweptClean
<1>2. TypeOK /\ SweptClean /\ [GateNext]_gate => SweptClean'
  <2> SUFFICES ASSUME TypeOK, SweptClean, [GateNext]_gate PROVE SweptClean'
    OBVIOUS
  <2>1. ASSUME NEW ip \in Ips, Challenge(ip) PROVE SweptClean'
    BY <2>1, CleanStays DEF Challenge
  <2>2. ASSUME NEW ip \in Ips, NEW n \in Nicks, NEW e, Prove(ip, n, e) PROVE SweptClean'
    <3>1. \A i \in Ips, m \in Nicks :
            admitted'[<<i, m>>] = admitted[<<i, m>>] \/ admitted'[<<i, m>>] >= now
      BY <2>2, GateConstants DEF Prove, TypeOK
    <3> QED
      BY <2>2, <3>1, CleanStays DEF Prove
  <2>3. ASSUME NEW ip \in Ips, Kick(ip) \/ Ban(ip) PROVE SweptClean'
    <3>1. \A s \in Sessions : peers'[s] \in {None, peers[s]}
      BY <2>3 DEF Kick, Ban, Without
    <3> QED
      BY <2>3, <3>1, CleanStays DEF Kick, Ban
  <2>4. ASSUME NEW ip \in Ips, Unban(ip) PROVE SweptClean'
    BY <2>4, CleanStays DEF Unban
  <2>5. ASSUME NEW r \in Sessions, NEW ip \in Ips, NEW n \in Nicks, NEW t \in Sessions,
               Register(r, ip, n, t)
        PROVE  SweptClean'
    <3> SUFFICES ASSUME swept, enforce, NEW s \in Sessions, Unproved(s)'
                 PROVE  Running(grace_start[s])'
      BY <2>5 DEF SweptClean, Register
    <3>1. now' = now /\ admitted' = admitted
      BY <2>5 DEF Register
    <3>2. \/ s # r /\ peers'[s] = peers[s]
          \/ /\ s = r /\ peers'[s] = [ip |-> ip, nick |-> n]
             /\ ~enforce \/ Admitted(ip, n) \/ Running(grace_start'[s])
      BY <2>5, RegisterEffect DEF Unproved
    <3>3. CASE s = r
      <4>1. peers'[s].ip = ip /\ peers'[s].nick = n
        BY <3>2, <3>3
      <4>2. ~Admitted(ip, n)
        BY <3>1, <4>1 DEF Unproved, Admitted
      <4>3. Running(grace_start'[s])
        BY <3>2, <3>3, <4>2
      <4> QED
        BY <3>1, <4>3 DEF Running
    <3>4. CASE s # r
      <4>1. Unproved(s)
        BY <3>1, <3>2, <3>4 DEF Unproved, Admitted
      <4>2. grace_start'[s] = grace_start[s]
        BY <2>5, <3>4, RegisterEffect
      <4> QED
        BY <3>1, <4>1, <4>2 DEF SweptClean, Running
    <3> QED
      BY <3>3, <3>4
  <2>6. ASSUME NEW r \in Sessions, Leave(r) PROVE SweptClean'
    <3>1. \A s \in Sessions : peers'[s] \in {None, peers[s]}
      BY <2>6 DEF Leave, TypeOK
    <3> QED
      BY <2>6, <3>1, CleanStays DEF Leave
  <2>7. CASE Sweep
    <3> SUFFICES ASSUME enforce, NEW s \in Sessions, Unproved(s)'
                 PROVE  Running(grace_start[s])'
      BY <2>7 DEF SweptClean, Sweep
    <3>1. peers[s] # None /\ peers'[s] = peers[s] /\ Stays(s) /\ now' = now
      BY <2>7 DEF Sweep, Unproved
    <3>2. CASE Admitted(peers[s].ip, peers[s].nick)
      <4> DEFINE w == <<peers[s].ip, peers[s].nick>>
      <4>0. w \in Ips \X Nicks
        BY <3>1, PeerAt
      <4>1. admitted'[w] = IF admitted[w] < now THEN 0 ELSE admitted[w]
        BY <2>7, <4>0 DEF Sweep
      <4>3. admitted[w] >= now /\ admitted[w] \in Nat
        BY <3>2, <4>0 DEF Admitted, TypeOK
      <4>4. admitted'[w] = admitted[w]
        BY <4>1, <4>3 DEF TypeOK
      <4>2. Admitted(peers[s].ip, peers[s].nick)'
        BY <3>1, <4>3, <4>4 DEF Admitted
      <4> QED
        BY <3>1, <4>2 DEF Unproved
    <3>3. CASE ~Forgotten(s) /\ Running(grace_start[s])
      BY <2>7, <3>1, <3>3 DEF Sweep, Running
    <3> QED
      BY <3>1, <3>2, <3>3 DEF Stays
  <2>8. CASE LoadIdentity \/ Restart \/ Tick
    BY <2>8, Zenon DEF LoadIdentity, Restart, Tick, SweptClean
  <2>9. CASE UNCHANGED gate
    BY <2>9, CleanStays DEF gate
  <2>10. \A x \in nonces : x.ip \in Ips
    BY DEF TypeOK
  <2> QED
    BY <2>1, <2>2, <2>3, <2>4, <2>5, <2>6, <2>7, <2>8, <2>9, <2>10 DEF GateNext
<1> QED
  BY <1>1, <1>2, GateTypeCorrect, PTL DEF GateSpec

\* A session that does not prove its nick plays for one grace, not more, as
\* long as that grace is remembered.  Its unproved ticks lie within the grace
\* because a sweep, which comes before every tick, leaves nobody who is
\* neither proved nor in his grace.
THEOREM OneGraceEach == GateSpec => []OneGrace
<1>1. GateInit => FreeInGrace
  BY GateConstants DEF GateInit, FreeInGrace, Zero
<1>2. TypeOK /\ SweptClean /\ FreeInGrace /\ [GateNext]_gate => FreeInGrace'
  <2> SUFFICES ASSUME TypeOK, SweptClean, FreeInGrace, [GateNext]_gate,
                      NEW s \in Sessions
               PROVE  /\ grace_start'[s] <= now'
                      /\ grace_start'[s] = 0 => free'[s] = 0
                      /\ free'[s] <= now' - grace_start'[s]
                      /\ free'[s] <= Grace
    BY DEF FreeInGrace
  <2> USE GateConstants
  <2>1. /\ now \in Nat \ {0} /\ grace_start[s] \in Nat /\ free[s] \in Nat
        /\ grace_start[s] <= now
        /\ grace_start[s] = 0 => free[s] = 0
        /\ free[s] <= now - grace_start[s]
        /\ free[s] <= Grace
    BY DEF TypeOK, FreeInGrace
  <2>2. CASE UNCHANGED <<now, grace_start, free>>
    BY <2>1, <2>2
  <2>3. ASSUME NEW r \in Sessions, NEW ip \in Ips, NEW n \in Nicks, NEW t \in Sessions,
               Register(r, ip, n, t)
        PROVE  /\ grace_start'[s] <= now'
               /\ grace_start'[s] = 0 => free'[s] = 0
               /\ free'[s] <= now' - grace_start'[s]
               /\ free'[s] <= Grace
    <3>1. UNCHANGED <<now, free>>
      BY <2>3 DEF Register
    <3>2. \/ grace_start'[s] = grace_start[s]
          \/ grace_start[s] = 0 /\ grace_start'[s] = now
      BY <2>3, RegisterEffect
    <3> QED
      BY <2>1, <3>1, <3>2
  <2>4. CASE Sweep
    <3>1. /\ now' = now
          /\ \/ grace_start'[s] = 0 /\ free'[s] = 0
             \/ grace_start'[s] = grace_start[s] /\ free'[s] \in {0, free[s]}
      BY <2>4 DEF Sweep
    <3> QED
      BY <2>1, <3>1
  <2>5. CASE Restart
    <3>1. now' = now /\ grace_start'[s] = 0 /\ free'[s] = 0
      BY <2>5 DEF Restart, Zero
    <3> QED
      BY <2>1, <3>1
  <2>6. CASE Tick
    <3>1. now' = now + 1 /\ grace_start'[s] = grace_start[s]
      BY <2>6 DEF Tick
    <3>2. CASE enforce /\ Unproved(s)
      <4>1. Running(grace_start[s])
        BY <2>6, <3>2 DEF Tick, SweptClean
      <4>2. free'[s] = free[s] + 1
        BY <2>6, <3>2 DEF Tick
      <4> QED
        BY <2>1, <3>1, <4>1, <4>2 DEF Running
    <3>3. CASE ~(enforce /\ Unproved(s))
      <4>1. free'[s] = free[s]
        BY <2>6, <3>3 DEF Tick
      <4> QED
        BY <2>1, <3>1, <4>1
    <3> QED
      BY <3>2, <3>3
  <2>7. CASE \E ip \in Ips : Challenge(ip) \/ Kick(ip) \/ Ban(ip) \/ Unban(ip)
    BY <2>2, <2>7 DEF Challenge, Kick, Ban, Unban
  <2>8. CASE \E x \in nonces, n \in Nicks : Prove(x.ip, n, x.epoch)
    BY <2>2, <2>8 DEF Prove
  <2>9. CASE (\E r \in Sessions : Leave(r)) \/ LoadIdentity \/ UNCHANGED gate
    BY <2>2, <2>9 DEF Leave, LoadIdentity, gate
  <2> QED
    BY <2>3, <2>4, <2>5, <2>6, <2>7, <2>8, <2>9 DEF GateNext
<1>3. FreeInGrace => OneGrace
  BY DEF FreeInGrace, OneGrace
<1> QED
  BY <1>1, <1>2, <1>3, GateTypeCorrect, SweepsClean, PTL DEF GateSpec

-----------------------------------------------------------------------------
\* A proof admits only under a challenge given to that very ip in this epoch
\* or the last, by the relay that now runs.
THEOREM AdmissionsAreFresh == GateSpec => []AdmissionsFresh
<1>1. GateInit => AdmissionsFresh
  BY DEF GateInit, AdmissionsFresh, Zero
<1>2. TypeOK /\ AdmissionsFresh /\ [GateNext]_gate => AdmissionsFresh'
  <2> SUFFICES ASSUME TypeOK, AdmissionsFresh, [GateNext]_gate,
                      NEW ip \in Ips, NEW n \in Nicks, admitted'[<<ip, n>>] # 0
               PROVE  \E x \in nonces' :
                        x.ip = ip /\ (x.epoch + 2) * Epoch > admitted'[<<ip, n>>] - Admit
    BY DEF AdmissionsFresh
  <2>1. ASSUME admitted'[<<ip, n>>] = admitted[<<ip, n>>], nonces \subseteq nonces'
        PROVE  \E x \in nonces' :
                 x.ip = ip /\ (x.epoch + 2) * Epoch > admitted'[<<ip, n>>] - Admit
    BY <2>1 DEF AdmissionsFresh
  <2>2. ASSUME NEW i \in Ips, NEW m \in Nicks, NEW e, Prove(i, m, e)
        PROVE  \E x \in nonces' :
                 x.ip = ip /\ (x.epoch + 2) * Epoch > admitted'[<<ip, n>>] - Admit
    <3>1. nonces' = nonces
      BY <2>2 DEF Prove
    <3>2. CASE <<i, m>> # <<ip, n>>
      BY <2>1, <2>2, <3>1, <3>2 DEF Prove, TypeOK
    <3>3. CASE i = ip /\ m = n
      <4>1. admitted'[<<ip, n>>] = now + Admit
        BY <2>2, <3>3 DEF Prove, TypeOK
      <4>2. [ip |-> ip, epoch |-> e] \in nonces /\ e \in {CurrentEpoch, CurrentEpoch - 1}
        BY <2>2, <3>3 DEF Prove, Fresh
      <4>3. CurrentEpoch \in Nat /\ now < (CurrentEpoch + 1) * Epoch
        BY EpochFacts, GateConstants DEF CurrentEpoch, TypeOK
      <4>4. e + 2 \in {CurrentEpoch + 1, CurrentEpoch + 2}
        BY <4>2, <4>3
      <4>5. (CurrentEpoch + 2) * Epoch = (CurrentEpoch + 1) * Epoch + Epoch
        BY <4>3, GateConstants
      <4>6. (e + 2) * Epoch > now
        BY <4>3, <4>4, <4>5, GateConstants DEF TypeOK
      <4> QED
        BY <3>1, <4>1, <4>2, <4>6, GateConstants DEF TypeOK
    <3> QED
      BY <3>2, <3>3
  <2>3. ASSUME NEW i \in Ips, Challenge(i) \/ Kick(i) \/ Ban(i) \/ Unban(i)
        PROVE  admitted' = admitted /\ nonces \subseteq nonces'
    BY <2>3 DEF Challenge, Kick, Ban, Unban
  <2>4. CASE \E s \in Sessions, i \in Ips, m \in Nicks, t \in Sessions : Register(s, i, m, t)
    BY <2>1, <2>4 DEF Register
  <2>5. CASE Sweep
    <3>1. admitted'[<<ip, n>>] = admitted[<<ip, n>>] /\ nonces' = nonces
      BY <2>5 DEF Sweep
    <3> QED
      BY <2>1, <3>1
  <2>6. CASE Restart
    BY <2>6 DEF Restart, Zero
  <2>7. CASE (\E s \in Sessions : Leave(s)) \/ LoadIdentity \/ Tick \/ UNCHANGED gate
    BY <2>1, <2>7 DEF Leave, LoadIdentity, Tick, gate
  <2>8. \A x \in nonces : x.ip \in Ips
    BY DEF TypeOK
  <2> QED
    BY <2>1, <2>2, <2>3, <2>4, <2>5, <2>6, <2>7, <2>8 DEF GateNext
<1> QED
  BY <1>1, <1>2, GateTypeCorrect, PTL DEF GateSpec

-----------------------------------------------------------------------------
(* The nick check with the clients.                                        *)


\* Every step of the whole is a step of the relay's, or leaves it alone.
LEMMA StepOfGate ==
  ASSUME CycleTypeOK, [Next]_vars
  PROVE  [GateNext]_gate
<1> USE CycleConstants DEF CycleTypeOK, ClientTypeOK
<1>1. ASSUME NEW p \in Players, Shows(p) PROVE GateNext
  <2>1. Prove(at[p], NickOf[p], held[p].epoch)
    BY <1>1 DEF Shows
  <2>2. [ip |-> at[p], epoch |-> held[p].epoch] \in nonces
    BY <2>1 DEF Prove, Fresh
  <2>3. NickOf[p] \in Nicks
    OBVIOUS
  <2> QED
    BY <2>1, <2>2, <2>3 DEF GateNext
<1>2. ASSUME NEW p \in Players, Pass(p) PROVE GateNext \/ UNCHANGED gate
  <2>1. at[p] \in Ips
    OBVIOUS
  <2>2. CASE HelloAnswered(p)
    BY <2>1, <2>2 DEF HelloAnswered, GateNext
  <2>3. CASE ProofAccepted(p) \/ ProofUnanswered(p)
    BY <1>1, <2>3 DEF ProofAccepted, ProofUnanswered
  <2>4. CASE HelloUnanswered(p) \/ NoTicket(p) \/ CheckNow(p)
    BY <2>4 DEF HelloUnanswered, NoTicket, CheckNow
  <2> QED
    BY <1>2, <2>2, <2>3, <2>4 DEF Pass
<1>3. ASSUME NEW p \in Players, NEW x \in nonces, LateProof(p, x) PROVE GateNext
  <2>1. NickOf[p] \in Nicks
    OBVIOUS
  <2> QED
    BY <1>3, <2>1 DEF LateProof, GateNext
<1>4. ASSUME NEW s \in Sessions, NEW t \in Sessions, Heartbeat(s, t) PROVE GateNext
  <2>1. NickOf[s] \in Nicks /\ at[s] \in Ips
    OBVIOUS
  <2> QED
    BY <1>4, <2>1 DEF Heartbeat, GateNext
<1>5. ASSUME NEW s \in Sessions, Exit(s) PROVE GateNext
  BY <1>5 DEF Exit, GateNext
<1>6. ASSUME NEW ip \in Ips, Command(ip) PROVE GateNext
  BY <1>6 DEF Command, GateNext
<1>7. CASE Sweeps \/ Restarts \/ Changes \/ Time
  BY <1>7 DEF Sweeps, Restarts, Changes, Time, GateNext
<1>8. ASSUME NEW s \in Sessions, NEW ip \in Ips, Moves(s, ip) PROVE UNCHANGED gate
  BY <1>8 DEF Moves
<1>9. CASE UNCHANGED vars
  BY <1>9 DEF vars
<1> QED
  BY <1>2, <1>3, <1>4, <1>5, <1>6, <1>7, <1>8, <1>9 DEF Next

-----------------------------------------------------------------------------
\* How a pass ends, for whoever's it was.
LEMMA EndTyped ==
  ASSUME CycleTypeOK, NEW p \in Players, NEW s \in Nat, NEW c \in Checks,
         NEW d \in Nat, PassEnds(p, s, c, d)
  PROVE  /\ held' \in [Players -> Challenges \cup {None}]
         /\ began' \in [Players -> Nat] /\ next' \in [Players -> Nat]
         /\ check' \in [Players -> Checks]
<1>1. \A read \in {s, now} : read + d \in Nat
  BY DEF CycleTypeOK, TypeOK
<1> QED
  BY <1>1 DEF CycleTypeOK, ClientTypeOK, PassEnds

LEMMA FailTyped ==
  ASSUME CycleTypeOK, NEW p \in Players, NEW s \in Nat, NEW d \in Nat, Fails(p, s, d),
         UNCHANGED <<at, events>>
  PROVE  ClientTypeOK'
<1>1. "failed" \in Checks
  BY DEF Checks
<1>2. fails' \in [Players -> Nat] /\ settled' \subseteq Players
  BY DEF Fails, CycleTypeOK, ClientTypeOK
<1> QED
  BY <1>1, <1>2, EndTyped DEF Fails, CycleTypeOK, ClientTypeOK

LEMMA NextProofTyped == NextProof \in Nat
BY GateConstants, EpochFacts DEF NextProof

\* The clients' places, passes, waits and outcomes keep their types.
THEOREM CycleTypeCorrect == Spec => []CycleTypeOK
<1>1. Init => CycleTypeOK
  <2> SUFFICES ASSUME Init PROVE CycleTypeOK
    OBVIOUS
  <2>1. TypeOK
    BY GateStartsTyped DEF Init
  <2>2. ClientTypeOK
    BY <2>1, CycleConstants DEF Init, ClientTypeOK, TypeOK, Checks
  <2> QED
    BY <2>1, <2>2 DEF CycleTypeOK
<1>2. CycleTypeOK /\ [Next]_vars => CycleTypeOK'
  <2> SUFFICES ASSUME CycleTypeOK, [Next]_vars PROVE ClientTypeOK'
    BY StepOfGate, GateTypeStep DEF CycleTypeOK
  <2> USE CycleConstants DEF CycleTypeOK, ClientTypeOK
  <2>1. ASSUME NEW p \in Players, HelloUnanswered(p) \/ NoTicket(p) \/ ProofUnanswered(p)
        PROVE  ClientTypeOK'
    <3>1. now \in Nat /\ began[p] \in Nat
      BY DEF TypeOK
    <3> QED
      BY <2>1, <3>1, FailTyped DEF HelloUnanswered, NoTicket, ProofUnanswered
  <2>2. ASSUME NEW p \in Players, HelloAnswered(p) PROVE ClientTypeOK'
    <3>1. now \in Nat /\ CurrentEpoch \in Nat /\ at[p] \in Ips
      BY EpochFacts, GateConstants DEF TypeOK, CurrentEpoch
    <3>2. CASE enforce
      BY <2>2, <3>1, <3>2 DEF HelloAnswered, Challenges, Checks
    <3>3. CASE ~enforce
      <4>1. PassEnds(p, now, "unchecked", NextProof) /\ UNCHANGED <<fails, settled, at, events>>
        BY <2>2, <3>3 DEF HelloAnswered
      <4> QED
        BY <3>1, <4>1, EndTyped, NextProofTyped DEF Checks
    <3> QED
      BY <3>2, <3>3
  <2>3. ASSUME NEW p \in Players, ProofAccepted(p) PROVE ClientTypeOK'
    <3>1. began[p] \in Nat /\ "verified" \in Checks
      BY DEF Checks
    <3> QED
      BY <2>3, <3>1, EndTyped, NextProofTyped DEF ProofAccepted
  <2>4. ASSUME NEW p \in Players, CheckNow(p) PROVE ClientTypeOK'
    BY <2>4 DEF CheckNow, TypeOK
  <2>5. ASSUME NEW s \in Sessions, NEW ip \in Ips, Moves(s, ip) PROVE ClientTypeOK'
    BY <2>5 DEF Moves, Event, client
  <2>6. ASSUME NEW ip \in Ips, Command(ip) PROVE ClientTypeOK'
    BY <2>6 DEF Command, Event, client
  <2>7. CASE Restarts \/ Changes
    BY <2>7 DEF Restarts, Changes, Event, client
  <2>8. CASE UNCHANGED <<at, client, settled, events>>
    BY <2>8 DEF client
  <2>9. CASE \/ \E p \in Players, x \in nonces : LateProof(p, x)
             \/ \E s, t \in Sessions : Heartbeat(s, t)
             \/ \E s \in Sessions : Exit(s)
             \/ Sweeps \/ Time \/ UNCHANGED vars
    BY <2>8, <2>9 DEF LateProof, Heartbeat, Exit, Sweeps, Time, vars
  <2> QED
    BY <2>1, <2>2, <2>3, <2>4, <2>5, <2>6, <2>7, <2>9 DEF Next, Pass
<1> QED
  BY <1>1, <1>2, PTL DEF Spec

\* The whole does to the relay only what NickGate describes: kicks hold,
\* graces are given once and admissions are fresh with these clients too.
THEOREM CycleImplementsGate == Spec => GateSpec
<1>1. Init => GateInit
  BY DEF Init
<1>2. CycleTypeOK /\ [Next]_vars => [GateNext]_gate
  BY StepOfGate
<1> QED
  BY <1>1, <1>2, CycleTypeCorrect, PTL DEF Spec, GateSpec

-----------------------------------------------------------------------------
\* SettledInv, part by part.  What happens to the admissions:
LEMMA AdmissionsLater ==
  ASSUME CycleTypeOK, NotAhead, NEW ip \in Ips, NEW n \in Nicks, NEW e,
         Prove(ip, n, e)
  PROVE  \A i \in Ips, m \in Nicks : admitted'[<<i, m>>] >= admitted[<<i, m>>]
<1> SUFFICES ASSUME NEW i \in Ips, NEW m \in Nicks
             PROVE  admitted'[<<i, m>>] >= admitted[<<i, m>>]
  OBVIOUS
<1>1. admitted[<<i, m>>] \in Nat /\ admitted[<<i, m>>] <= now + Admit
  BY DEF CycleTypeOK, TypeOK, NotAhead
<1>2. admitted'[<<i, m>>] \in {admitted[<<i, m>>], now + Admit}
  BY DEF Prove, CycleTypeOK, TypeOK
<1> QED
  BY <1>1, <1>2

LEMMA NotAheadStep ==
  ASSUME CycleTypeOK, NotAhead, [Next]_vars
  PROVE  NotAhead'
<1> SUFFICES ASSUME NEW i \in Ips, NEW m \in Nicks
             PROVE  admitted'[<<i, m>>] <= now' + Admit
  BY DEF NotAhead
<1> USE GateConstants
<1>1. /\ now \in Nat /\ admitted[<<i, m>>] \in Nat
      /\ admitted[<<i, m>>] <= now + Admit
  BY DEF CycleTypeOK, TypeOK, NotAhead
<1>2. CASE UNCHANGED <<now, admitted>>
  BY <1>1, <1>2
<1>3. ASSUME NEW ip, NEW n, NEW e, Prove(ip, n, e)
      PROVE  admitted'[<<i, m>>] <= now' + Admit
  <2>1. now' = now /\ admitted'[<<i, m>>] \in {admitted[<<i, m>>], now + Admit}
    BY <1>3 DEF Prove, CycleTypeOK, TypeOK
  <2> QED
    BY <1>1, <2>1
<1>4. CASE Sweep \/ Restart
  <2>1. now' = now /\ admitted'[<<i, m>>] \in {0, admitted[<<i, m>>]}
    BY <1>4 DEF Sweep, Restart, Zero
  <2> QED
    BY <1>1, <2>1
<1>5. CASE Tick
  BY <1>1, <1>5 DEF Tick
<1>6. CASE GateNext
  <2>1. CASE \E ip \in Ips : Challenge(ip) \/ Kick(ip) \/ Ban(ip) \/ Unban(ip)
    BY <1>2, <2>1 DEF Challenge, Kick, Ban, Unban
  <2>2. CASE \E s \in Sessions, ip \in Ips, n \in Nicks, t \in Sessions : Register(s, ip, n, t)
    BY <1>2, <2>2 DEF Register
  <2>3. CASE (\E s \in Sessions : Leave(s)) \/ LoadIdentity
    BY <1>2, <2>3 DEF Leave, LoadIdentity
  <2> QED
    BY <1>3, <1>4, <1>5, <1>6, <2>1, <2>2, <2>3 DEF GateNext
<1> QED
  BY <1>2, <1>6, StepOfGate DEF gate

\* The passes of a player: where the clock is, seen from the last or the next.
LEMMA EndOnSchedule ==
  ASSUME CycleTypeOK, OnSchedule, NEW p \in Players, NEW c, NEW d \in Nat, NEW s \in Nat,
         PassEnds(p, s, c, d), now' = now, PassTime <= d,
         s <= now, now <= s + PassTime
  PROVE  OnSchedule'
<1> SUFFICES ASSUME NEW q \in Players
             PROVE  /\ began'[q] <= now'
                    /\ now' <= IF Idle(q)' THEN next'[q] ELSE began'[q] + PassTime
  BY DEF OnSchedule
<1> USE CycleConstants DEF CycleTypeOK, ClientTypeOK, TypeOK
<1>1. /\ began[q] <= now
      /\ now <= IF Idle(q) THEN next[q] ELSE began[q] + PassTime
  BY DEF OnSchedule
<1>2. CASE q # p
  BY <1>1, <1>2 DEF PassEnds, Idle
<1>3. CASE q = p
  <2>1. held'[p] = None /\ began'[p] = 0 /\ next'[p] \in {s + d, now + d}
    BY DEF PassEnds
  <2> QED
    BY <1>3, <2>1 DEF Idle
<1> QED
  BY <1>2, <1>3

LEMMA OnScheduleStep ==
  ASSUME CycleTypeOK, OnSchedule, [Next]_vars
  PROVE  OnSchedule'
<1> USE CycleConstants DEF CycleTypeOK, ClientTypeOK
<1>0. /\ now \in Nat
      /\ \A q \in Players : /\ began[q] \in Nat /\ next[q] \in Nat
                            /\ began[q] <= now
                            /\ now <= IF Idle(q) THEN next[q] ELSE began[q] + PassTime
  BY DEF TypeOK, OnSchedule
<1>1. CASE UNCHANGED <<now, held, began, next>>
  BY <1>1 DEF OnSchedule, Idle
<1>2. ASSUME NEW p \in Players, HelloUnanswered(p) PROVE OnSchedule'
  BY <1>0, <1>2, EndOnSchedule DEF HelloUnanswered, Fails, gate
<1>3. ASSUME NEW p \in Players, HelloAnswered(p) PROVE OnSchedule'
  <2>1. now' = now
    BY <1>3 DEF HelloAnswered, Challenge
  <2>2. CASE ~enforce
    BY <1>0, <1>3, <2>1, <2>2, EndOnSchedule, NextProofTyped DEF HelloAnswered
  <2>3. CASE enforce
    <3> SUFFICES ASSUME NEW q \in Players
                 PROVE  /\ began'[q] <= now'
                        /\ now' <= IF Idle(q)' THEN next'[q] ELSE began'[q] + PassTime
      BY DEF OnSchedule
    <3>1. CASE q # p
      BY <1>0, <1>3, <2>1, <2>3, <3>1 DEF HelloAnswered, Idle
    <3>2. CASE q = p
      <4>1. began'[p] = now /\ next'[p] = next[p]
        BY <1>3, <2>3 DEF HelloAnswered
      <4>2. held'[p] = [ip |-> at[p], epoch |-> CurrentEpoch]
        BY <1>3, <2>3 DEF HelloAnswered
      <4>3. held'[p] # None
        <5>1. at[p] \in Ips /\ CurrentEpoch \in Nat
          BY EpochFacts, GateConstants DEF TypeOK, CurrentEpoch
        <5> QED
          BY <4>2, <5>1 DEF Challenges
      <4> QED
        BY <1>0, <2>1, <3>2, <4>1, <4>3 DEF Idle
    <3> QED
      BY <3>1, <3>2
  <2> QED
    BY <2>2, <2>3
<1>4. ASSUME NEW p \in Players, NoTicket(p) PROVE OnSchedule'
  BY <1>0, <1>4, EndOnSchedule DEF NoTicket, Fails, gate
<1>5. ASSUME NEW p \in Players, ProofAccepted(p) PROVE OnSchedule'
  <2>1. now' = now
    BY <1>5 DEF ProofAccepted, Shows, Prove
  <2> QED
    BY <1>0, <1>5, <2>1, EndOnSchedule, NextProofTyped DEF ProofAccepted
<1>6. ASSUME NEW p \in Players, ProofUnanswered(p) PROVE OnSchedule'
  <2>1. now' = now
    BY <1>6 DEF ProofUnanswered, Shows, Prove, gate
  <2>2. PICK d \in {Retry, LongWait} : Fails(p, began[p], d)
    BY <1>6 DEF ProofUnanswered
  <2>3. ~Idle(p) /\ d \in Nat /\ PassTime <= d
    BY <1>6 DEF ProofUnanswered
  <2> QED
    BY <1>0, <2>1, <2>2, <2>3, EndOnSchedule DEF Fails
<1>7. ASSUME NEW p \in Players, CheckNow(p) PROVE OnSchedule'
  <2> SUFFICES ASSUME NEW q \in Players
               PROVE  /\ began'[q] <= now'
                      /\ now' <= IF Idle(q)' THEN next'[q] ELSE began'[q] + PassTime
    BY DEF OnSchedule
  <2>1. now' = now /\ held' = held /\ began' = began /\ next'[q] \in {next[q], now}
    BY <1>7 DEF CheckNow, gate
  <2> QED
    BY <1>0, <2>1 DEF Idle
<1>8. CASE Time
  <2> SUFFICES ASSUME NEW q \in Players
               PROVE  /\ began'[q] <= now'
                      /\ now' <= IF Idle(q)' THEN next'[q] ELSE began'[q] + PassTime
    BY DEF OnSchedule
  <2>1. OnTime(q) /\ now' = now + 1 /\ UNCHANGED <<held, began, next>>
    BY <1>8 DEF Time, Tick, client
  <2> QED
    BY <1>0, <2>1 DEF OnTime, Idle
<1>9. CASE \/ \E p \in Players, x \in nonces : LateProof(p, x)
           \/ \E s, t \in Sessions : Heartbeat(s, t)
           \/ \E s \in Sessions : Exit(s)
           \/ Sweeps
  BY <1>1, <1>9 DEF LateProof, Prove, Heartbeat, Register, Exit, Leave, Sweeps, Sweep, client
<1>10. CASE \/ \E s \in Sessions, ip \in Ips : Moves(s, ip)
            \/ \E ip \in Ips : Command(ip)
            \/ Restarts \/ Changes \/ UNCHANGED vars
  BY <1>1, <1>10 DEF Moves, Command, Kick, Ban, Unban, Restarts, Restart, Changes,
                     LoadIdentity, vars, gate, client
<1> QED
  BY <1>2, <1>3, <1>4, <1>5, <1>6, <1>7, <1>8, <1>9, <1>10 DEF Next, Pass

-----------------------------------------------------------------------------
\* What a settled player has: Home(p) is where his admission is kept.
Home(p) == <<at[p], NickOf[p]>>

CoveredOne(p) ==
  /\ enforce
  /\ fails[p] <= MaxFails
  /\ Start(p) + Reserve(p) <= admitted[Home(p)]

LEMMA CoveredEach == Covered <=> \A p \in settled : CoveredOne(p)
BY DEF Covered, CoveredOne, Home

LEMMA HomeTyped ==
  ASSUME CycleTypeOK, NEW p \in Players
  PROVE  /\ Home(p) \in Ips \X Nicks /\ at[p] \in Ips /\ NickOf[p] \in Nicks
         /\ admitted[Home(p)] \in Nat
BY CycleConstants DEF CycleTypeOK, ClientTypeOK, TypeOK, Home

\* One more failed pass uses up what the reserve has for it.
LEMMA ReserveFacts ==
  ASSUME NEW f \in Nat
  PROVE  /\ (MaxFails - f) * (Retry + PassTime) \in Int
         /\ f <= MaxFails => (MaxFails - f) * (Retry + PassTime) >= 0
         /\ (MaxFails - (f + 1)) * (Retry + PassTime) + Retry + PassTime
              = (MaxFails - f) * (Retry + PassTime)
<1> DEFINE c == Retry + PassTime
<1>1. c \in Nat /\ MaxFails \in Nat
  BY CycleConstants
<1>2. \A m \in Int : m * c \in Int /\ (m >= 0 => m * c >= 0) /\ (m - 1) * c + c = m * c
  BY <1>1
<1> HIDE DEF c
<1>3. MaxFails - f \in Int /\ MaxFails - (f + 1) = (MaxFails - f) - 1
  BY <1>1
<1>4. /\ (MaxFails - f) * c \in Int
      /\ MaxFails - f >= 0 => (MaxFails - f) * c >= 0
      /\ ((MaxFails - f) - 1) * c + c = (MaxFails - f) * c
  BY <1>2, <1>3
<1>5. (MaxFails - (f + 1)) * c \in Int
  BY <1>2, <1>3
<1> QED
  BY <1>1, <1>3, <1>4, <1>5, CycleConstants DEF c

LEMMA SettledAdmitted ==
  ASSUME CycleTypeOK, OnSchedule, NEW p \in Players, CoveredOne(p)
  PROVE  admitted[Home(p)] >= now
<1> USE CycleConstants DEF CycleTypeOK, ClientTypeOK
<1>1. /\ now \in Nat /\ began[p] \in Nat /\ next[p] \in Nat /\ fails[p] \in Nat
      /\ now <= IF Idle(p) THEN next[p] ELSE began[p] + PassTime
  BY DEF TypeOK, OnSchedule
<1>2. (MaxFails - fails[p]) * (Retry + PassTime) >= 0 /\ (MaxFails - fails[p]) * (Retry + PassTime) \in Int
  BY <1>1, ReserveFacts DEF CoveredOne
<1> QED
  BY <1>1, <1>2, HomeTyped DEF CoveredOne, Start, Reserve

\* A step that leaves a player's passes and place alone, and takes nothing
\* from his admission.
LEMMA CoveredKept ==
  ASSUME CycleTypeOK, NEW p \in Players, CoveredOne(p), CycleTypeOK',
         enforce' = enforce, at'[p] = at[p], held'[p] = held[p], fails'[p] = fails[p],
         began'[p] = began[p], next'[p] = next[p],
         admitted'[Home(p)] >= admitted[Home(p)]
  PROVE  CoveredOne(p)'
<1>1. Home(p)' = Home(p) /\ Start(p)' = Start(p) /\ Reserve(p)' = Reserve(p)
  BY DEF Home, Start, Reserve, Idle
<1>2. Start(p) \in Nat /\ Reserve(p) \in Int
  BY CycleConstants, ReserveFacts DEF Start, Reserve, CycleTypeOK, ClientTypeOK
<1>3. admitted[Home(p)] \in Nat /\ admitted'[Home(p)] \in Nat
  <2>1. Home(p) \in Ips \X Nicks
    BY HomeTyped
  <2> QED
    BY <2>1 DEF CycleTypeOK, TypeOK
<1> QED
  BY <1>1, <1>2, <1>3 DEF CoveredOne

\* A failed pass, of a player who stays settled.
LEMMA CoveredFail ==
  ASSUME CycleTypeOK, OnSchedule, NEW p \in Players, CoveredOne(p), CycleTypeOK',
         NEW s \in Nat, NEW d \in Nat, Fails(p, s, d), p \in settled',
         s = Start(p), s <= now, now <= s + PassTime,
         enforce' = enforce, at' = at, now' = now,
         admitted'[Home(p)] >= admitted[Home(p)]
  PROVE  CoveredOne(p)'
<1> USE CycleConstants
<1>1. now \in Nat /\ fails[p] \in Nat
  BY DEF CycleTypeOK, ClientTypeOK, TypeOK
<1>2. d <= Retry /\ fails[p] < MaxFails
  BY DEF Fails
<1>3. fails'[p] = fails[p] + 1
  BY <1>1, <1>2 DEF Fails, CycleTypeOK, ClientTypeOK
<1>4. held'[p] = None /\ next'[p] \in {s + d, now + d}
  BY DEF Fails, PassEnds, CycleTypeOK, ClientTypeOK
<1>5. Start(p)' = next'[p] /\ next'[p] <= s + PassTime + Retry /\ next'[p] \in Nat
  BY <1>1, <1>2, <1>4 DEF Start, Idle
<1>6. /\ Reserve(p) \in Int /\ Reserve(p)' \in Int
      /\ Reserve(p)' + Retry + PassTime = Reserve(p)
  <2>1. fails[p] + 1 \in Nat
    BY <1>1
  <2>2. /\ (MaxFails - fails[p]) * (Retry + PassTime) \in Int
        /\ (MaxFails - (fails[p] + 1)) * (Retry + PassTime) \in Int
        /\ (MaxFails - (fails[p] + 1)) * (Retry + PassTime) + Retry + PassTime
             = (MaxFails - fails[p]) * (Retry + PassTime)
    BY <1>1, <2>1, ReserveFacts
  <2> QED
    BY <1>3, <2>2 DEF Reserve
<1>7. Home(p)' = Home(p) /\ admitted[Home(p)] \in Nat /\ admitted'[Home(p)] \in Nat
  <2>1. Home(p)' = Home(p) /\ Home(p) \in Ips \X Nicks
    BY HomeTyped DEF Home
  <2> QED
    BY <2>1 DEF CycleTypeOK, TypeOK
<1> QED
  BY <1>1, <1>2, <1>3, <1>5, <1>6, <1>7 DEF CoveredOne

\* An accepted proof pays for half an admission and the passes that may fail.
LEMMA CoveredProof ==
  ASSUME CycleTypeOK, OnSchedule, NEW p \in Players, CycleTypeOK', ProofAccepted(p)
  PROVE  CoveredOne(p)'
<1> USE CycleConstants, GateConstants
<1>1. /\ now \in Nat /\ began[p] \in Nat /\ began[p] <= now /\ NextProof \in Nat
  BY NextProofTyped DEF CycleTypeOK, ClientTypeOK, TypeOK, OnSchedule
<1>2. enforce /\ enforce' = enforce /\ now' = now /\ at' = at
  BY DEF ProofAccepted, Shows, Prove
<1>3. fails'[p] = 0 /\ held'[p] = None
      /\ next'[p] \in {began[p] + NextProof, now + NextProof}
  BY DEF ProofAccepted, PassEnds, CycleTypeOK, ClientTypeOK
<1>4. admitted'[Home(p)'] = now + Admit
  <2>1. Home(p)' = Home(p) /\ Home(p) \in Ips \X Nicks
    BY <1>2, HomeTyped DEF Home
  <2>2. admitted' = [admitted EXCEPT ![Home(p)] = now + Admit]
    BY DEF ProofAccepted, Shows, Prove, Home
  <2> QED
    BY <2>1, <2>2 DEF CycleTypeOK, TypeOK
<1>5. Start(p)' = next'[p] /\ next'[p] <= now + NextProof /\ next'[p] \in Nat
  BY <1>1, <1>3 DEF Start, Idle
<1>6. MaxFails * (Retry + PassTime) \in Nat
      /\ Reserve(p)' = PassTime + MaxFails * (Retry + PassTime)
  <2>1. MaxFails - 0 = MaxFails /\ MaxFails - 0 \in Int
    OBVIOUS
  <2>2. Reserve(p)' = PassTime + (MaxFails - 0) * (Retry + PassTime)
    BY <1>3 DEF Reserve
  <2> QED
    BY <2>1, <2>2
<1>7. NextProof + PassTime + MaxFails * (Retry + PassTime) <= Admit
  OBVIOUS
<1>8. Start(p)' + Reserve(p)' <= admitted'[Home(p)']
  BY <1>1, <1>4, <1>5, <1>6, <1>7
<1> QED
  BY <1>2, <1>3, <1>8 DEF CoveredOne

\* A pass that begins, or is brought forward, asks for no more.
LEMMA CoveredSooner ==
  ASSUME CycleTypeOK, NEW p \in Players, CoveredOne(p), CycleTypeOK',
         enforce' = enforce, at' = at, admitted' = admitted, fails' = fails,
         Start(p)' <= Start(p)
  PROVE  CoveredOne(p)'
<1>1. Home(p)' = Home(p) /\ Reserve(p)' = Reserve(p)
  BY DEF Home, Reserve
<1>2. Start(p) \in Nat /\ Start(p)' \in Nat /\ Reserve(p) \in Int
  BY CycleConstants, ReserveFacts DEF Start, Reserve, CycleTypeOK, ClientTypeOK
<1>3. admitted[Home(p)] \in Nat
  BY HomeTyped
<1> QED
  BY <1>1, <1>2, <1>3 DEF CoveredOne

\* A pass of p's leaves the other players as they are.
LEMMA PassOfOne ==
  ASSUME CycleTypeOK, NotAhead, NEW p \in Players, Pass(p), NEW q \in Players, q # p
  PROVE  /\ q \in settled' => q \in settled
         /\ enforce' = enforce /\ at' = at /\ now' = now
         /\ held'[q] = held[q] /\ fails'[q] = fails[q]
         /\ began'[q] = began[q] /\ next'[q] = next[q]
         /\ admitted'[Home(q)] >= admitted[Home(q)]
<1> USE CycleConstants
<1>0. admitted[Home(q)] \in Nat /\ Home(q) = <<at[q], NickOf[q]>>
      /\ at[q] \in Ips /\ NickOf[q] \in Nicks /\ at[p] \in Ips /\ NickOf[p] \in Nicks
  BY HomeTyped DEF Home
<1>1. ASSUME Shows(p)
      PROVE  enforce' = enforce /\ now' = now /\ admitted'[Home(q)] >= admitted[Home(q)]
  <2>1. Prove(at[p], NickOf[p], held[p].epoch)
    BY <1>1 DEF Shows
  <2> QED
    BY <1>0, <2>1, AdmissionsLater DEF Prove
<1> USE DEF CycleTypeOK, ClientTypeOK
<1>2. ASSUME UNCHANGED gate
      PROVE  enforce' = enforce /\ now' = now /\ admitted'[Home(q)] >= admitted[Home(q)]
  BY <1>0, <1>2 DEF gate
<1>3. CASE HelloUnanswered(p) \/ NoTicket(p)
  BY <1>2, <1>3 DEF HelloUnanswered, NoTicket, Fails, PassEnds
<1>4. CASE HelloAnswered(p)
  <2>1. enforce' = enforce /\ now' = now /\ admitted' = admitted
    BY <1>4 DEF HelloAnswered, Challenge
  <2> QED
    BY <1>0, <1>4, <2>1 DEF HelloAnswered, PassEnds
<1>5. CASE ProofAccepted(p)
  BY <1>1, <1>5 DEF ProofAccepted, PassEnds
<1>6. CASE ProofUnanswered(p)
  BY <1>1, <1>2, <1>6 DEF ProofUnanswered, Fails, PassEnds
<1>7. CASE CheckNow(p)
  BY <1>2, <1>7 DEF CheckNow
<1> QED
  BY <1>3, <1>4, <1>5, <1>6, <1>7 DEF Pass

\* A player's own passes.
LEMMA CoveredPass ==
  ASSUME CycleTypeOK, CycleTypeOK', OnSchedule, NotAhead, Covered,
         NEW p \in Players, Pass(p), p \in settled'
  PROVE  CoveredOne(p)'
<1> USE CycleConstants
<1>0. /\ now \in Nat /\ began[p] \in Nat /\ next[p] \in Nat
      /\ began[p] <= now
      /\ now <= IF Idle(p) THEN next[p] ELSE began[p] + PassTime
      /\ admitted[Home(p)] \in Nat
      /\ Home(p) = <<at[p], NickOf[p]>> /\ at[p] \in Ips /\ NickOf[p] \in Nicks
  BY HomeTyped DEF CycleTypeOK, ClientTypeOK, TypeOK, OnSchedule, Home
<1>1. p \in settled => CoveredOne(p)
  BY CoveredEach
<1>2. CASE HelloUnanswered(p)
  <2>1. Fails(p, now, Retry) /\ Due(p) /\ UNCHANGED <<gate, at, events>>
    BY <1>2 DEF HelloUnanswered
  <2>2. p \in settled /\ Start(p) = now
    BY <1>0, <2>1 DEF Fails, Due, Start
  <2> QED
    BY <1>0, <1>1, <2>1, <2>2, CoveredFail DEF gate
<1>3. CASE HelloAnswered(p)
  <2>1. settled' = settled /\ fails' = fails /\ at' = at /\ Due(p)
        /\ enforce' = enforce /\ admitted' = admitted /\ now' = now
    BY <1>3 DEF HelloAnswered, Challenge
  <2>2. CoveredOne(p) /\ enforce
    BY <1>1, <2>1 DEF CoveredOne
  <2>3. began'[p] = now /\ next'[p] = next[p]
    BY <1>3, <2>2 DEF HelloAnswered, CycleTypeOK, ClientTypeOK
  <2>4. Start(p) = now /\ Start(p)' \in {now, next[p]}
    BY <1>0, <2>1, <2>3 DEF Due, Start
  <2>5. next[p] = now
    <3>1. Idle(p) /\ next[p] <= now
      BY <2>1 DEF Due
    <3>2. now <= next[p]
      BY <1>0, <3>1
    <3> QED
      BY <1>0, <3>1, <3>2
  <2>6. Start(p)' <= Start(p)
    BY <1>0, <2>4, <2>5
  <2> QED
    BY <2>1, <2>2, <2>6, CoveredSooner
<1>4. CASE NoTicket(p)
  <2>1. PICK d \in {Retry, LongWait} : Fails(p, began[p], d)
    BY <1>4 DEF NoTicket
  <2>2. ~Idle(p) /\ UNCHANGED <<gate, at, events>>
    BY <1>4 DEF NoTicket
  <2>3. p \in settled /\ Start(p) = began[p] /\ d \in Nat
    BY <2>1, <2>2 DEF Fails, Start
  <2> QED
    BY <1>0, <1>1, <2>1, <2>2, <2>3, CoveredFail DEF gate
<1>5. CASE ProofAccepted(p)
  BY <1>5, CoveredProof
<1>6. CASE ProofUnanswered(p)
  <2>0. PICK d \in {Retry, LongWait} : Fails(p, began[p], d)
    BY <1>6 DEF ProofUnanswered
  <2>1. ~Idle(p) /\ at' = at
    BY <1>6 DEF ProofUnanswered
  <2>2. p \in settled /\ Start(p) = began[p] /\ d \in Nat
    BY <2>0, <2>1 DEF Fails, Start
  <2>3. enforce' = enforce /\ now' = now /\ admitted'[Home(p)] >= admitted[Home(p)]
    <3>1. CASE UNCHANGED gate
      BY <1>0, <3>1 DEF gate
    <3>2. CASE Prove(at[p], NickOf[p], held[p].epoch)
      BY <1>0, <3>2, AdmissionsLater DEF Prove
    <3> QED
      BY <1>6, <3>1, <3>2 DEF ProofUnanswered, Shows
  <2> QED
    BY <1>0, <1>1, <2>0, <2>1, <2>2, <2>3, CoveredFail
<1>7. CASE CheckNow(p)
  <2>1. settled' = settled /\ UNCHANGED <<gate, at, held, fails>>
        /\ Idle(p) /\ now < next[p] /\ next'[p] = now
    BY <1>7 DEF CheckNow, CycleTypeOK, ClientTypeOK
  <2>2. Start(p) = next[p] /\ Start(p)' = now
    BY <2>1 DEF Start, Idle
  <2> QED
    BY <1>0, <1>1, <2>1, <2>2, CoveredSooner DEF gate
<1> QED
  BY <1>2, <1>3, <1>4, <1>5, <1>6, <1>7 DEF Pass

LEMMA CoveredStep ==
  ASSUME CycleTypeOK, CycleTypeOK', SettledInv, [Next]_vars
  PROVE  Covered'
<1> SUFFICES ASSUME NEW q \in settled' PROVE CoveredOne(q)'
  BY CoveredEach DEF Covered, CoveredOne, Home
<1> USE CycleConstants DEF SettledInv
<1>0. /\ q \in Players
      /\ admitted[Home(q)] \in Nat
      /\ Home(q) = <<at[q], NickOf[q]>> /\ at[q] \in Ips /\ NickOf[q] \in Nicks
  <2>1. q \in Players
    BY DEF CycleTypeOK, ClientTypeOK
  <2> QED
    BY <2>1, HomeTyped DEF Home
<1>1. q \in settled => CoveredOne(q)
  BY CoveredEach
<1>2. ASSUME settled' = settled, client' = client, at'[q] = at[q], enforce' = enforce,
             admitted'[Home(q)] >= admitted[Home(q)]
      PROVE  CoveredOne(q)'
  BY <1>0, <1>1, <1>2, CoveredKept DEF client
<1>3. ASSUME NEW p \in Players, Pass(p) PROVE CoveredOne(q)'
  <2>1. CASE q = p
    BY <1>3, <2>1, CoveredPass
  <2>2. CASE q # p
    BY <1>0, <1>1, <1>3, <2>2, PassOfOne, CoveredKept
  <2> QED
    BY <2>1, <2>2
<1>4. ASSUME NEW p \in Players, NEW x \in nonces, LateProof(p, x) PROVE CoveredOne(q)'
  <2>1. Prove(x.ip, NickOf[p], x.epoch) /\ UNCHANGED <<at, client, settled, events>>
    BY <1>4 DEF LateProof
  <2>2. x.ip \in Ips /\ NickOf[p] \in Nicks
    BY DEF CycleTypeOK, TypeOK
  <2>3. enforce' = enforce /\ admitted'[Home(q)] >= admitted[Home(q)]
    BY <1>0, <2>1, <2>2, AdmissionsLater DEF Prove
  <2> QED
    BY <1>2, <2>1, <2>3
<1>5. CASE Sweeps
  <2>1. settled' = settled /\ client' = client /\ at' = at /\ enforce' = enforce
    BY <1>5 DEF Sweeps, Sweep
  <2>2. admitted[Home(q)] >= now /\ now \in Nat
    BY <1>0, <1>1, <2>1, SettledAdmitted DEF CycleTypeOK, TypeOK
  <2>3. Home(q) \in Ips \X Nicks
    BY <1>0
  <2>4. admitted'[Home(q)] = IF admitted[Home(q)] < now THEN 0 ELSE admitted[Home(q)]
    BY <1>5, <2>3 DEF Sweeps, Sweep
  <2> QED
    BY <1>0, <1>2, <2>1, <2>2, <2>4
<1>6. ASSUME NEW s \in Sessions, NEW ip \in Ips, Moves(s, ip) PROVE CoveredOne(q)'
  <2>1. q # s /\ q \in settled /\ UNCHANGED <<gate, client>> /\ at'[q] = at[q]
    BY <1>0, <1>6 DEF Moves, CycleTypeOK, ClientTypeOK
  <2> QED
    BY <1>0, <1>1, <2>1, CoveredKept DEF gate, client
<1>7. ASSUME UNCHANGED <<at, client, settled, enforce, admitted>> PROVE CoveredOne(q)'
  BY <1>0, <1>2, <1>7
<1>8. CASE \/ \E s, t \in Sessions : Heartbeat(s, t)
           \/ \E s \in Sessions : Exit(s)
           \/ \E ip \in Ips : Command(ip)
           \/ Time \/ UNCHANGED vars
  BY <1>7, <1>8 DEF Heartbeat, Register, Exit, Leave, Command, Kick, Ban, Unban, Time, Tick,
                    vars, gate
<1>9. CASE Restarts \/ Changes
  BY <1>9 DEF Restarts, Changes
<1> QED
  BY <1>3, <1>4, <1>5, <1>6, <1>8, <1>9 DEF Next

\* A player who proved his nick stays admitted: his admission outlasts the
\* passes that he may still need, each of which begins and ends on time.
THEOREM ProvedStay == Spec => []ProvedStaysIn
<1>1. Init => SettledInv
  <2> SUFFICES ASSUME Init PROVE SettledInv
    OBVIOUS
  <2>1. now = 1 /\ settled = {} /\ \A ip \in Ips, n \in Nicks : admitted[<<ip, n>>] = 0
    BY DEF Init, GateInit, Zero
  <2>2. \A p \in Players : Idle(p) /\ began[p] = 0 /\ next[p] = now
    BY DEF Init, Idle
  <2> QED
    BY <2>1, <2>2, GateConstants DEF SettledInv, OnSchedule, NotAhead, Covered
<1>2. CycleTypeOK /\ CycleTypeOK' /\ SettledInv /\ [Next]_vars => SettledInv'
  BY OnScheduleStep, NotAheadStep, CoveredStep DEF SettledInv
<1>3. CycleTypeOK /\ SettledInv => ProvedStaysIn
  <2> SUFFICES ASSUME CycleTypeOK, SettledInv, NEW p \in settled PROVE In(p)
    BY DEF ProvedStaysIn
  <2>1. p \in Players /\ CoveredOne(p)
    BY CoveredEach DEF SettledInv, CycleTypeOK, ClientTypeOK
  <2> QED
    BY <2>1, SettledAdmitted DEF SettledInv, In, Admitted, Home
<1> QED
  BY <1>1, <1>2, <1>3, CycleTypeCorrect, PTL DEF Spec
=============================================================================
