------------------------ MODULE MasterListingProofs ------------------------
(***************************************************************************)
(* That a relay is listed only where it was found.  A proof that fits the  *)
(* announced secret was made by that very run; and as the run announced    *)
(* before the probe went out and answers after, it was up when the name    *)
(* was looked up.                                                          *)
(***************************************************************************)
EXTENDS MasterListing, TLAPS

Announced == [key : Keys, ip : Ips, secret : Relays \X Nat]
Probes == [key : Keys, ip : Ips, secret : Relays \X Nat, resolved : Relays]
Packets ==
  [type : {"announce"}, key : Keys, ip : Ips, secret : Relays \X Nat, late : BOOLEAN]
  \cup [type : {"query"}, to : Relays, token : Tokens, late : BOOLEAN]
  \cup [type : {"details"}, from : Relays, token : Tokens, proof : Relays \X Nat, late : BOOLEAN]

Types ==
  /\ up \in [Relays -> BOOLEAN] /\ run \in [Relays -> Nat] /\ dns \in [Keys -> Relays]
  /\ net \subseteq Packets /\ queue \in Seq(Announced) /\ looking \subseteq Announced
  /\ \A t \in DOMAIN pending : pending[t] \in Probes
  /\ \A k \in DOMAIN listed : listed[k].age \in Nat

\* Runs are told apart by their numbers, which only grow: no secret under way
\* is of a run to come.
Begun(s) == s[2] <= run[s[1]]

Known ==
  /\ \A p \in net : p.type = "announce" => Begun(p.secret)
  /\ \A i \in DOMAIN queue : Begun(queue[i].secret)
  /\ \A p \in looking : Begun(p.secret)
  /\ \A t \in DOMAIN pending : Begun(pending[t].secret)

Runs(s) == up[s[1]] /\ run[s[1]] = s[2]

\* A probe to a run that still runs went out when it was to be found.
Probed ==
  \A t \in DOMAIN pending :
    pending[t].resolved = pending[t].secret[1] /\ Runs(pending[t].secret)
    => <<pending[t].key, pending[t].secret>> \in found

\* An answer that fits was given by the run that was found.
Answered ==
  \A p \in net : p.type = "details" /\ p.token \in DOMAIN pending
    /\ p.proof = pending[p.token].secret /\ p.from = pending[p.token].resolved
    => <<pending[p.token].key, pending[p.token].secret>> \in found

Inv == Types /\ Known /\ Reachable \subseteq found /\ Probed /\ Answered /\ ListedIsThere

-----------------------------------------------------------------------------
(* Steps of a relay, of a name and of time.                                *)

\* A run that begins has a number that no secret has yet.
LEMMA StartStep ==
  ASSUME Inv, NEW r \in Relays, Start(r)
  PROVE  Inv'
<1> USE DEF Inv
<1>1. Types'
  BY DEF Types, Start, master
<1>2. Known'
  <2>1. \A s \in Relays \X Nat : Begun(s) => Begun(s)'
    BY DEF Begun, Types, Start
  <2>2. \A p \in net : p.type = "announce" => p.secret \in Relays \X Nat
    BY DEF Types, Packets
  <2>3. \A i \in DOMAIN queue : queue[i].secret \in Relays \X Nat
    <3>1. \A i \in DOMAIN queue : queue[i] \in Announced
      BY DEF Types
    <3> QED
      BY <3>1 DEF Announced
  <2>4. \A p \in looking : p.secret \in Relays \X Nat
    BY DEF Types, Announced
  <2>5. \A t \in DOMAIN pending : pending[t].secret \in Relays \X Nat
    BY DEF Types, Probes
  <2>6. UNCHANGED <<net, queue, looking, pending>>
    BY DEF Start, master
  <2> QED
    BY <2>1, <2>2, <2>3, <2>4, <2>5, <2>6 DEF Known
<1>3. (Reachable \subseteq found)'
  BY DEF Start
<1>4. Probed'
  <2>1. \A s \in Relays \X Nat : Begun(s) /\ Runs(s)' => Runs(s)
    BY DEF Begun, Runs, Start, Types
  <2>2. \A t \in DOMAIN pending :
          pending[t].secret \in Relays \X Nat /\ Begun(pending[t].secret)
    BY DEF Types, Probes, Known
  <2>3. UNCHANGED pending /\ found \subseteq found'
    BY DEF Start, master
  <2> QED
    BY <2>1, <2>2, <2>3 DEF Probed
<1>5. Answered' /\ ListedIsThere'
  BY DEF Answered, ListedIsThere, Start, master
<1> QED
  BY <1>1, <1>2, <1>3, <1>4, <1>5

LEMMA StopStep ==
  ASSUME Inv, NEW r \in Relays, Stop(r)
  PROVE  Inv'
<1> USE DEF Inv
<1>1. Types' /\ Known'
  BY DEF Types, Known, Begun, Stop, master
<1>2. (Reachable \subseteq found)'
  BY DEF Reachable, Secret, Types, Stop
<1>3. Probed'
  BY DEF Probed, Runs, Types, Probes, Stop, master
<1>4. Answered' /\ ListedIsThere'
  BY DEF Answered, ListedIsThere, Stop, master
<1> QED
  BY <1>1, <1>2, <1>3, <1>4

LEMMA AnnounceStep ==
  ASSUME Inv, NEW r \in Relays, Announce(r)
  PROVE  Inv'
<1> USE DEF Inv
<1> DEFINE a == [type |-> "announce", key |-> KeyOf[r], ip |-> IpOf[r],
                 secret |-> Secret(r), late |-> FALSE]
<1>1. net' \subseteq net \cup {a} /\ UNCHANGED <<up, run, dns, master, found>>
  BY DEF Announce
<1>2. a \in Packets /\ a.type = "announce" /\ Begun(a.secret)
  BY ListingConstants DEF Packets, Secret, Types, Begun
<1>3. Types' /\ Known'
  BY <1>1, <1>2 DEF Types, Known, Begun, master
<1>4. (Reachable \subseteq found)' /\ Probed' /\ ListedIsThere'
  BY <1>1 DEF Reachable, Secret, Probed, Runs, ListedIsThere, master
<1>5. Answered'
  BY <1>1, <1>2 DEF Answered, master
<1> QED
  BY <1>3, <1>4, <1>5

\* The name moves; what it led to stays found for this tick.
LEMMA MoveStep ==
  ASSUME Inv, NEW k \in Keys, Move(k)
  PROVE  Inv'
<1> USE DEF Inv
<1>1. Types' /\ Known'
  BY DEF Types, Known, Begun, Move, master
<1>2. (Reachable \subseteq found)'
  BY DEF Move
<1>3. Probed' /\ Answered' /\ ListedIsThere'
  BY DEF Probed, Runs, Answered, ListedIsThere, Move, master
<1> QED
  BY <1>1, <1>2, <1>3

\* No probe outlives a tick, and no listing is fresh after it.
LEMMA TickStep ==
  ASSUME Inv, Tick
  PROVE  Inv'
<1> USE DEF Inv
<1>1. pending' = <<>> /\ UNCHANGED <<up, run, dns, queue, looking>> /\ found' = Reachable
  BY DEF Tick, Expire
<1>2. \A p \in net' : p \in Packets /\ \E q \in net : p = [q EXCEPT !.late = TRUE]
  <2>1. ASSUME NEW q \in net
        PROVE  [q EXCEPT !.late = TRUE] \in Packets
    <3>1. CASE q \in [type : {"announce"}, key : Keys, ip : Ips, secret : Relays \X Nat,
                      late : BOOLEAN]
      BY <3>1 DEF Packets
    <3>2. CASE q \in [type : {"query"}, to : Relays, token : Tokens, late : BOOLEAN]
      BY <3>2 DEF Packets
    <3>3. CASE q \in [type : {"details"}, from : Relays, token : Tokens, proof : Relays \X Nat,
                      late : BOOLEAN]
      BY <3>3 DEF Packets
    <3> QED
      BY <3>1, <3>2, <3>3 DEF Types, Packets
  <2>2. \A p \in net' : \E q \in net : p = [q EXCEPT !.late = TRUE]
    BY DEF Tick
  <2> QED
    BY <2>1, <2>2
<1>3. \A p \in net' : p.type = "announce" => Begun(p.secret)'
  <2> TAKE p \in net'
  <2> HAVE p.type = "announce"
  <2>1. PICK q \in net : p = [q EXCEPT !.late = TRUE]
    BY <1>2
  <2>2. q.type = "announce" /\ p.secret = q.secret
    BY <2>1 DEF Types, Packets
  <2> QED
    BY <1>1, <2>2 DEF Known, Begun
<1>4. \A k \in DOMAIN listed' : listed'[k].age \in Nat /\ listed'[k].age # 0
  BY DEF Tick, Expire, Types
<1>5. Types' /\ Known'
  BY <1>1, <1>2, <1>3, <1>4 DEF Types, Known, Begun
<1>6. (Reachable \subseteq found)'
  BY <1>1 DEF Reachable, Secret
<1>7. Probed' /\ Answered' /\ ListedIsThere'
  BY <1>1, <1>4 DEF Probed, Answered, ListedIsThere
<1> QED
  BY <1>5, <1>6, <1>7
-----------------------------------------------------------------------------
(* Steps of packets, the resolver and the master.                          *)

LEMMA DetailsStep ==
  ASSUME Inv, NEW p \in net, Details(p)
  PROVE  Inv'
<1> USE DEF Inv
<1> DEFINE a == [type |-> "details", from |-> p.to, token |-> p.token,
                 proof |-> Secret(p.to), late |-> FALSE]
<1>1. net' = (net \ {p}) \cup {a} /\ UNCHANGED <<up, run, dns, master, found>>
  BY DEF Details, ReceivedAndSent, relays, history
<1>2. p.to \in Relays /\ p.token \in Tokens /\ up[p.to]
  BY DEF Details, Types, Packets
<1>3. a \in Packets /\ a.type = "details"
  BY <1>2 DEF Packets, Secret, Types
<1>4. Types' /\ Known'
  BY <1>1, <1>3 DEF Types, Known, Begun, master
<1>5. (Reachable \subseteq found)' /\ Probed' /\ ListedIsThere'
  BY <1>1 DEF Reachable, Secret, Probed, Runs, ListedIsThere, master
<1>6. Answered'
  <2>1. ASSUME p.token \in DOMAIN pending, Secret(p.to) = pending[p.token].secret,
               p.to = pending[p.token].resolved
        PROVE  <<pending[p.token].key, pending[p.token].secret>> \in found
    BY <1>2, <2>1 DEF Probed, Runs, Secret
  <2> QED
    BY <1>1, <1>3, <2>1 DEF Answered, master
<1> QED
  BY <1>4, <1>5, <1>6

\* What Append adds.
LEMMA Appended ==
  ASSUME NEW S, NEW q \in Seq(S), NEW e \in S
  PROVE  /\ Append(q, e) \in Seq(S)
         /\ \A i \in DOMAIN Append(q, e) :
              (i \in DOMAIN q /\ Append(q, e)[i] = q[i]) \/ Append(q, e)[i] = e
  OBVIOUS

LEMMA HearStep ==
  ASSUME Inv, NEW p \in net, Hear(p)
  PROVE  Inv'
<1> USE DEF Inv
<1> DEFINE a == [key |-> p.key, ip |-> p.ip, secret |-> p.secret]
<1>1. /\ net' = net \ {p} /\ queue' \in {queue, Append(queue, a)}
      /\ UNCHANGED <<up, run, dns, looking, pending, listed, found>>
  BY DEF Hear, Received, relays
<1>2. a \in Announced /\ Begun(a.secret)
  BY DEF Hear, Types, Packets, Announced, Known
<1>3. Types' /\ \A i \in DOMAIN queue' : Begun(queue'[i].secret)
  <2> HIDE DEF a
  <2>1. CASE queue' = queue
    BY <1>1, <2>1 DEF Types, Known
  <2>2. CASE queue' = Append(queue, a)
    <3>1. /\ Append(queue, a) \in Seq(Announced)
          /\ \A i \in DOMAIN Append(queue, a) :
               (i \in DOMAIN queue /\ Append(queue, a)[i] = queue[i]) \/ Append(queue, a)[i] = a
      BY <1>2, Appended DEF Types
    <3> QED
      BY <1>1, <1>2, <2>2, <3>1 DEF Types, Known
  <2> QED
    BY <1>1, <2>1, <2>2
<1>4. Known'
  BY <1>1, <1>3 DEF Known, Begun
<1>5. (Reachable \subseteq found)' /\ Probed' /\ Answered' /\ ListedIsThere'
  BY <1>1 DEF Reachable, Secret, Probed, Runs, Answered, ListedIsThere
<1> QED
  BY <1>3, <1>4, <1>5

\* The answer settles its probe; what it lists was found.
LEMMA VerifyStep ==
  ASSUME Inv, NEW p \in net, Verify(p)
  PROVE  Inv'
<1> USE DEF Inv
<1>1. /\ net' = net \ {p} /\ UNCHANGED <<up, run, dns, queue, looking, found>>
      /\ DOMAIN pending' \subseteq DOMAIN pending
      /\ \A t \in DOMAIN pending' : pending'[t] = pending[t]
  BY DEF Verify, Received, relays
<1>2. \A k \in DOMAIN listed' :
        \/ k \in DOMAIN listed /\ listed'[k] = listed[k]
        \/ /\ listed'[k].age = 0
           /\ <<k, listed'[k].secret>> \in found
  <2>1. CASE p.token \in DOMAIN pending /\ p.from = pending[p.token].resolved
             /\ p.proof = pending[p.token].secret
    <3>1. <<pending[p.token].key, pending[p.token].secret>> \in found
      BY <2>1 DEF Answered, Verify
    <3> QED
      BY <2>1, <3>1 DEF Verify
  <2>2. CASE p.token \in DOMAIN pending /\ p.from = pending[p.token].resolved
             /\ p.proof # pending[p.token].secret
    <3>1. listed' = listed
      BY <2>2, Zenon DEF Verify
    <3> QED
      BY <3>1
  <2>3. CASE ~(p.token \in DOMAIN pending /\ p.from = pending[p.token].resolved)
    <3>1. listed' = listed
      BY <2>3, Zenon DEF Verify
    <3> QED
      BY <3>1
  <2> QED
    BY <2>1, <2>2, <2>3, Zenon
<1>3. Types' /\ Known'
  <2>1. \A k \in DOMAIN listed' : listed'[k].age \in Nat
    <3> TAKE k \in DOMAIN listed'
    <3>1. CASE k \in DOMAIN listed /\ listed'[k] = listed[k]
      BY <3>1 DEF Types
    <3>2. CASE listed'[k].age = 0
      BY <3>2
    <3> QED
      BY <1>2, <3>1, <3>2
  <2>2. \A t \in DOMAIN pending' : pending'[t] \in Probes /\ Begun(pending'[t].secret)
    BY <1>1 DEF Types, Known
  <2>3. Types'
    BY <1>1, <2>1, <2>2 DEF Types
  <2>4. Known'
    BY <1>1, <2>2 DEF Known, Begun
  <2> QED
    BY <2>3, <2>4
<1>4. (Reachable \subseteq found)' /\ Probed' /\ Answered'
  BY <1>1 DEF Reachable, Secret, Probed, Runs, Answered
<1>5. ListedIsThere'
  BY <1>1, <1>2 DEF ListedIsThere
<1> QED
  BY <1>3, <1>4, <1>5

LEMMA TakeStep ==
  ASSUME Inv, Take
  PROVE  Inv'
<1> USE DEF Inv
<1>1. /\ UNCHANGED <<up, run, dns, net, pending, listed, found>>
      /\ looking' = {Head(queue)} /\ queue' = Tail(queue) /\ queue # <<>>
  BY DEF Take, relays, history
<1>2. Head(queue) \in Announced /\ Begun(Head(queue).secret) /\ queue' \in Seq(Announced)
  <2>1. 1 \in DOMAIN queue /\ Head(queue) = queue[1]
    BY <1>1 DEF Types
  <2> QED
    BY <1>1, <2>1 DEF Types, Known
<1>3. \A i \in DOMAIN queue' : Begun(queue'[i].secret)
  <2>1. \A i \in DOMAIN queue' : i + 1 \in DOMAIN queue /\ queue'[i] = queue[i + 1]
    BY <1>1 DEF Types
  <2> QED
    BY <2>1 DEF Known
<1>4. Types' /\ Known'
  BY <1>1, <1>2, <1>3 DEF Types, Known, Begun
<1>5. (Reachable \subseteq found)' /\ Probed' /\ Answered' /\ ListedIsThere'
  BY <1>1 DEF Reachable, Secret, Probed, Runs, Answered, ListedIsThere
<1> QED
  BY <1>4, <1>5

\* A new probe's token is nobody else's, and the run it asks for, if it is
\* there, is to be found now.
LEMMA ProbeStep ==
  ASSUME Inv, Probe
  PROVE  Inv'
<1> USE DEF Inv
<1>1. /\ UNCHANGED <<up, run, dns, queue, listed, found>> /\ looking' = {}
  BY DEF Probe, relays
<1>2. CASE UNCHANGED <<pending, net>>
  <2>1. Types' /\ Known'
    BY <1>1, <1>2 DEF Types, Known, Begun
  <2> QED
    BY <1>1, <1>2, <2>1 DEF Reachable, Secret, Probed, Runs, Answered, ListedIsThere
<1>3. CASE ~UNCHANGED <<pending, net>>
  <2>1. PICK p \in looking, token \in FreeTokens :
          /\ pending' = [t \in DOMAIN pending \cup {token} |->
               IF t = token
               THEN [key |-> p.key, ip |-> p.ip, secret |-> p.secret, resolved |-> dns[p.key]]
               ELSE pending[t]]
          /\ net' = net \cup {[type |-> "query", to |-> dns[p.key],
                               token |-> token, late |-> FALSE]}
    BY <1>3 DEF Probe
  <2> DEFINE q == [type |-> "query", to |-> dns[p.key], token |-> token, late |-> FALSE]
             b == [key |-> p.key, ip |-> p.ip, secret |-> p.secret, resolved |-> dns[p.key]]
  <2>2. p \in Announced /\ Begun(p.secret) /\ token \in Tokens
    BY DEF Types, Known, FreeTokens
  <2>3. q \in Packets /\ q.type = "query" /\ b \in Probes /\ b.secret = p.secret
    BY <2>2 DEF Announced, Packets, Probes, Types
  <2>4. Types'
    BY <1>1, <2>1, <2>3 DEF Types
  <2>5. Known'
    BY <1>1, <2>1, <2>2, <2>3 DEF Known, Begun
  <2>6. dns[p.key] = p.secret[1] /\ Runs(p.secret) => <<p.key, p.secret>> \in found
    BY <2>2 DEF Runs, Reachable, Secret, Announced, Types
  <2>7. Probed'
    BY <1>1, <2>1, <2>6 DEF Probed, Runs
  <2>8. Answered'
    <3>1. \A a \in net : a.type = "details" => a.token # token
      BY DEF FreeTokens
    <3> QED
      BY <1>1, <2>1, <2>3, <3>1 DEF Answered
  <2>9. (Reachable \subseteq found)' /\ ListedIsThere'
    BY <1>1 DEF Reachable, Secret, ListedIsThere
  <2> QED
    BY <2>4, <2>5, <2>7, <2>8, <2>9
<1> QED
  BY <1>2, <1>3

\* Packets that are lost, names nobody knows, the master's restart.
LEMMA LessStep ==
  ASSUME Inv, NoSuchHost \/ Restart \/ \E p \in net : Lose(p)
  PROVE  Inv'
<1> USE DEF Inv
<1>1. UNCHANGED <<up, run, dns, found>> /\ net' \subseteq net
  BY DEF NoSuchHost, Restart, Lose, relays
<1>2. /\ queue' \in {queue, <<>>} /\ looking' \in {looking, {}}
      /\ pending' \in {pending, <<>>} /\ listed' \in {listed, <<>>}
  BY DEF NoSuchHost, Restart, Lose, master
<1>3. Types'
  <2>1. queue' \in Seq(Announced) /\ looking' \subseteq Announced
    <3>1. <<>> \in Seq(Announced)
      OBVIOUS
    <3>2. queue \in Seq(Announced) /\ looking \subseteq Announced
      BY DEF Types
    <3> QED
      BY <1>2, <3>1, <3>2
  <2>2. \A t \in DOMAIN pending' : pending'[t] \in Probes
    BY <1>2 DEF Types
  <2>3. \A k \in DOMAIN listed' : listed'[k].age \in Nat
    BY <1>2 DEF Types
  <2> QED
    BY <1>1, <2>1, <2>2, <2>3 DEF Types
<1>4. Known'
  BY <1>1, <1>2 DEF Known, Begun
<1>5. (Reachable \subseteq found)' /\ Probed' /\ Answered' /\ ListedIsThere'
  BY <1>1, <1>2 DEF Reachable, Secret, Probed, Runs, Answered, ListedIsThere
<1> QED
  BY <1>3, <1>4, <1>5

-----------------------------------------------------------------------------
(* Theorems.                                                               *)

LEMMA InvInit == Init => Inv
<1> SUFFICES ASSUME Init PROVE Inv
  OBVIOUS
<1>1. Types
  BY DEF Init, Types
<1> QED
  BY <1>1 DEF Init, Inv, Known, Reachable, Probed, Answered, ListedIsThere

LEMMA InvStep == Inv /\ [Next]_vars => Inv'
<1> SUFFICES ASSUME Inv, [Next]_vars PROVE Inv'
  OBVIOUS
<1>1. CASE \E r \in Relays : Start(r) \/ Stop(r) \/ Announce(r)
  BY <1>1, StartStep, StopStep, AnnounceStep
<1>2. CASE Packet
  BY <1>2, DetailsStep, HearStep, VerifyStep, LessStep DEF Packet
<1>3. CASE Resolver
  BY <1>3, TakeStep, ProbeStep, LessStep DEF Resolver
<1>4. CASE Restart
  BY <1>4, LessStep
<1>5. CASE Tick
  BY <1>5, TickStep
<1>6. CASE \E r \in Unsteady : Move(KeyOf[r])
  <2>1. \A r \in Unsteady : KeyOf[r] \in Keys
    BY ListingConstants
  <2> QED
    BY <1>6, <2>1, MoveStep
<1>7. CASE UNCHANGED vars
  BY <1>7 DEF vars, Inv, Types, Known, Begun, Reachable, Secret, Probed, Runs, Answered,
              ListedIsThere
<1> QED
  BY <1>1, <1>2, <1>3, <1>4, <1>5, <1>6, <1>7 DEF Next

\* "It sends a details query there and lists the relay only if the answer's
\* proof matches this secret" (browser_protocol.h): whatever the number of
\* relays, names, packets and restarts, a run is listed only under an address
\* that led to it within the same tick.
THEOREM ListedWasThere == Spec => []ListedIsThere
<1>1. Inv => ListedIsThere
  BY DEF Inv
<1> QED
  BY InvInit, InvStep, <1>1, PTL DEF Spec

-----------------------------------------------------------------------------
(* A place on the list is kept.  Between two answers that list a relay its *)
(* announces are counted by lost and round; an announce that is neither    *)
(* lost nor answered yet is somewhere between the relay and the probes, so *)
(* that a tick that passes finds it; and the listing is no older than the  *)
(* announces counted since its last answer allow.                          *)

Queued == {queue[i] : i \in DOMAIN queue}
Heard == {p \in net : p.type = "announce"}
Waiting == Heard \cup Queued \cup looking

CountTypes ==
  /\ since \in [Relays -> 0 .. Every] /\ round \in [Relays -> {"clean", "hurt", "done"}]
  /\ lost \in [Relays -> Nat] /\ faults \in Nat
  /\ \A p, q \in looking : p = q

\* A relay announces its own key, which no other has.
OwnKeys ==
  /\ \A r, q \in Relays : KeyOf[r] = KeyOf[q] => r = q
  /\ \A p \in Waiting : p.key = KeyOf[p.secret[1]]
  /\ \A t \in DOMAIN pending : pending[t].key = KeyOf[pending[t].secret[1]]
  /\ \A k \in DOMAIN listed :
       /\ listed[k] \in [secret : Relays \X Nat, ip : Ips, age : Nat]
       /\ k = KeyOf[listed[k].secret[1]] /\ Begun(listed[k].secret)

\* An announce of r's run waits for its lookup, or is probed where r is, and
\* what r answered, if it did, fits.
OnItsWay(r) ==
  \/ \E p \in Waiting : p.secret = Secret(r)
  \/ \E t \in DOMAIN pending :
       /\ pending[t].secret = Secret(r) /\ pending[t].resolved = r
       /\ \A p \in net :
            p.type = "details" /\ p.token = t /\ p.from = r => p.proof = Secret(r)

CleanIsOnItsWay ==
  \A r \in Relays : round[r] = "clean" =>
    /\ up[r] /\ since[r] = 0 /\ dns[KeyOf[r]] = r
    /\ KeyOf[r] \in DOMAIN listed /\ OnItsWay(r)

\* The announces since r was last listed, the last of which may yet be answered.
Tries(r) == lost[r] + (IF round[r] = "done" THEN 0 ELSE 1)

Timely ==
  \A r \in Relays : up[r] /\ OnList(r) =>
    \/ Tries(r) >= 3
    \/ Tries(r) = 0 /\ listed[KeyOf[r]].age <= since[r]
    \/ Tries(r) = 1 /\ listed[KeyOf[r]].age <= Every + since[r]
    \/ Tries(r) = 2 /\ listed[KeyOf[r]].age <= 2 * Every + since[r]

PlaceInv == CountTypes /\ OwnKeys /\ CleanIsOnItsWay /\ Timely

LEMMA SecretTypes ==
  ASSUME Inv
  PROVE  /\ \A p \in Waiting : p.secret \in Relays \X Nat /\ Begun(p.secret)
         /\ \A t \in DOMAIN pending :
              pending[t].secret \in Relays \X Nat /\ Begun(pending[t].secret)
         /\ run \in [Relays -> Nat] /\ Every \in Nat \ {0}
         /\ \A k \in DOMAIN listed : listed[k].age \in Nat
<1>1. \A p \in Heard : p.secret \in Relays \X Nat /\ Begun(p.secret)
  BY DEF Inv, Types, Known, Heard, Packets
<1>2. \A i \in DOMAIN queue : queue[i] \in Announced /\ Begun(queue[i].secret)
  BY DEF Inv, Types, Known
<1>3. \A p \in looking : p \in Announced /\ Begun(p.secret)
  BY DEF Inv, Types, Known
<1>4. \A t \in DOMAIN pending : pending[t] \in Probes /\ Begun(pending[t].secret)
  BY DEF Inv, Types, Known
<1> QED
  BY <1>1, <1>2, <1>3, <1>4, ListingConstants DEF Waiting, Queued, Announced, Probes, Inv, Types

\* Steps that touch neither the list nor the relays: rounds may only be hurt.
LEMMA HurtStep ==
  ASSUME CountTypes, Timely, UNCHANGED <<up, run, since, listed, lost>>, faults' \in Nat,
         \A p, q \in looking' : p = q,
         (\E S : Hurt(S)) \/ UNCHANGED round
  PROVE  /\ CountTypes' /\ Timely'
         /\ \A r \in Relays : round'[r] = "clean" => round[r] = "clean"
<1>1. /\ round' \in [Relays -> {"clean", "hurt", "done"}]
      /\ \A r \in Relays : round'[r] = "done" <=> round[r] = "done"
      /\ \A r \in Relays : round'[r] = "clean" => round[r] = "clean"
  BY DEF Hurt, CountTypes
<1>2. CountTypes'
  BY <1>1 DEF CountTypes
<1>3. \A r \in Relays : Tries(r)' = Tries(r)
  BY <1>1 DEF Tries
<1>4. \A r \in Relays : OnList(r)' = OnList(r)
  BY DEF OnList, Secret
<1> QED
  BY <1>1, <1>2, <1>3, <1>4 DEF Timely

LEMMA StartPlace ==
  ASSUME Inv, PlaceInv, NEW r \in Relays, Start(r)
  PROVE  PlaceInv'
<1> USE DEF PlaceInv
<1>1. /\ ~up[r] /\ up' = [up EXCEPT ![r] = TRUE] /\ run' = [run EXCEPT ![r] = @ + 1]
      /\ since' = [since EXCEPT ![r] = Every]
      /\ UNCHANGED <<dns, net, queue, looking, pending, listed, round, lost>>
      /\ faults' \in {faults, faults + 1}
  BY DEF Start, master
<1>2. \A q \in Relays \ {r} : Secret(q)' = Secret(q)
  BY <1>1, SecretTypes DEF Secret
<1>3. CountTypes'
  BY <1>1, SecretTypes DEF CountTypes
<1>4. OwnKeys'
  <2>1. \A s \in Relays \X Nat : Begun(s) => Begun(s)'
    BY <1>1, SecretTypes DEF Begun
  <2> QED
    BY <1>1, <2>1 DEF OwnKeys, Waiting, Heard, Queued
<1>5. CleanIsOnItsWay'
  <2> SUFFICES ASSUME NEW q \in Relays, round[q] = "clean"
               PROVE  /\ up'[q] /\ since'[q] = 0 /\ dns[KeyOf[q]] = q
                      /\ KeyOf[q] \in DOMAIN listed /\ OnItsWay(q)'
    BY <1>1 DEF CleanIsOnItsWay
  <2>1. q # r /\ up'[q] = up[q] /\ since'[q] = since[q]
    BY <1>1 DEF CleanIsOnItsWay, Inv, Types, CountTypes
  <2> QED
    BY <1>1, <1>2, <2>1 DEF CleanIsOnItsWay, OnItsWay, Waiting, Heard, Queued
<1>6. Timely'
  <2> SUFFICES ASSUME NEW q \in Relays, up'[q], OnList(q)'
               PROVE  \/ Tries(q)' >= 3
                      \/ Tries(q)' = 0 /\ listed'[KeyOf[q]].age <= since'[q]
                      \/ Tries(q)' = 1 /\ listed'[KeyOf[q]].age <= Every + since'[q]
                      \/ Tries(q)' = 2 /\ listed'[KeyOf[q]].age <= 2 * Every + since'[q]
    BY DEF Timely
  <2>1. q # r
    <3> SUFFICES ASSUME q = r PROVE FALSE
      OBVIOUS
    <3>1. listed[KeyOf[r]].secret = <<r, run[r] + 1>> /\ KeyOf[r] \in DOMAIN listed
      BY <1>1, SecretTypes DEF OnList, Secret
    <3> QED
      BY <3>1, SecretTypes DEF OwnKeys, Begun
  <2>2. OnList(q) /\ up[q] /\ since'[q] = since[q] /\ Tries(q)' = Tries(q)
    BY <1>1, <1>2, <2>1 DEF OnList, Tries, Inv, Types, CountTypes
  <2> QED
    BY <1>1, <2>2 DEF Timely
<1> QED
  BY <1>3, <1>4, <1>5, <1>6

LEMMA StopPlace ==
  ASSUME Inv, PlaceInv, NEW r \in Relays, Stop(r)
  PROVE  PlaceInv'
<1> USE DEF PlaceInv
<1>1. /\ up' = [up EXCEPT ![r] = FALSE] /\ since' = [since EXCEPT ![r] = 0]
      /\ round' = [round EXCEPT ![r] = "done"] /\ lost' = [lost EXCEPT ![r] = 0]
      /\ UNCHANGED <<run, dns, net, queue, looking, pending, listed, faults>>
  BY DEF Stop, Forget, master, CountTypes
<1>2. CountTypes'
  BY <1>1, SecretTypes DEF CountTypes
<1>3. OwnKeys'
  BY <1>1 DEF OwnKeys, Waiting, Heard, Queued, Begun
<1>4. CleanIsOnItsWay'
  <2> SUFFICES ASSUME NEW q \in Relays, round'[q] = "clean"
               PROVE  /\ up'[q] /\ since'[q] = 0 /\ dns[KeyOf[q]] = q
                      /\ KeyOf[q] \in DOMAIN listed /\ OnItsWay(q)'
    BY <1>1 DEF CleanIsOnItsWay
  <2>1. q # r /\ round[q] = "clean" /\ up'[q] = up[q] /\ since'[q] = since[q]
    BY <1>1 DEF Inv, Types, CountTypes
  <2>2. OnItsWay(q)' = OnItsWay(q)
    BY <1>1 DEF OnItsWay, Waiting, Heard, Queued, Secret
  <2> QED
    BY <2>1, <2>2 DEF CleanIsOnItsWay
<1>5. ASSUME NEW q \in Relays, up'[q], OnList(q)'
      PROVE  OnList(q) /\ up[q] /\ since'[q] = since[q] /\ Tries(q)' = Tries(q)
  <2>1. q # r
    BY <1>1, <1>5 DEF Inv, Types
  <2> QED
    BY <1>1, <1>5, <2>1 DEF OnList, Secret, Tries, Inv, Types, CountTypes
<1>6. Timely'
  BY <1>1, <1>5 DEF Timely
<1> QED
  BY <1>2, <1>3, <1>4, <1>6

\* An announce counts: what was not answered since the one before is lost.
LEMMA AnnouncePlace ==
  ASSUME Inv, PlaceInv, NEW r \in Relays, Announce(r)
  PROVE  PlaceInv'
<1> USE DEF PlaceInv
<1> DEFINE a == [type |-> "announce", key |-> KeyOf[r], ip |-> IpOf[r],
                 secret |-> Secret(r), late |-> FALSE]
<1>1. /\ up[r] /\ since[r] = Every /\ since' = [since EXCEPT ![r] = 0]
      /\ net \subseteq net' /\ net' \subseteq net \cup {a}
      /\ UNCHANGED <<up, run, dns, queue, looking, pending, listed, faults>>
  BY DEF Announce, master
<1>2. /\ round' = [round EXCEPT ![r] = IF ~OnList(r) THEN "done"
                                     ELSE IF Fits /\ dns[KeyOf[r]] = r THEN "clean" ELSE "hurt"]
      /\ lost' = [lost EXCEPT ![r] = IF round[r] = "hurt" /\ @ < 3 THEN @ + 1 ELSE @]
  BY DEF Announce
<1>3. a.type = "announce" /\ a.key = KeyOf[a.secret[1]] /\ a.secret = Secret(r)
  BY DEF Secret
<1>4. round'[r] = "clean" => OnList(r) /\ dns[KeyOf[r]] = r /\ a \in net'
  BY <1>2 DEF Announce, CountTypes
<1> HIDE DEF a
<1>5. CountTypes'
  BY <1>1, <1>2, SecretTypes DEF CountTypes
<1>6. OwnKeys'
  BY <1>1, <1>3 DEF OwnKeys, Waiting, Heard, Queued, Begun
<1>7. CleanIsOnItsWay'
  <2> SUFFICES ASSUME NEW q \in Relays, round'[q] = "clean"
               PROVE  /\ up[q] /\ since'[q] = 0 /\ dns[KeyOf[q]] = q
                      /\ KeyOf[q] \in DOMAIN listed /\ OnItsWay(q)'
    BY <1>1 DEF CleanIsOnItsWay
  <2>1. CASE q = r
    <3>1. a \in Heard' /\ a.secret = Secret(r)'
      BY <1>1, <1>3, <1>4, <2>1 DEF Heard, Secret
    <3> QED
      BY <1>1, <1>4, <2>1, <3>1 DEF OnList, OnItsWay, Waiting, CountTypes
  <2>2. CASE q # r
    <3>1. round[q] = "clean" /\ since'[q] = since[q]
      BY <1>1, <1>2, <2>2 DEF CountTypes
    <3>2. OnItsWay(q) => OnItsWay(q)'
      BY <1>1, <1>3 DEF OnItsWay, Waiting, Heard, Queued, Secret
    <3> QED
      BY <3>1, <3>2 DEF CleanIsOnItsWay
  <2> QED
    BY <2>1, <2>2
<1>8. Timely'
  <2> SUFFICES ASSUME NEW q \in Relays, up[q], OnList(q)
               PROVE  \/ Tries(q)' >= 3
                      \/ Tries(q)' = 0 /\ listed[KeyOf[q]].age <= since'[q]
                      \/ Tries(q)' = 1 /\ listed[KeyOf[q]].age <= Every + since'[q]
                      \/ Tries(q)' = 2 /\ listed[KeyOf[q]].age <= 2 * Every + since'[q]
    BY <1>1 DEF Timely, OnList, Secret
  <2>1. listed[KeyOf[q]].age \in Nat /\ Every \in Nat \ {0}
    BY SecretTypes DEF OnList
  <2>2. CASE q = r
    <3>1. round[r] # "clean"
      BY <1>1, <2>1 DEF CleanIsOnItsWay
    <3>2. Tries(r)' = Tries(r) + 1 \/ Tries(r)' >= 3
      BY <1>2, <2>2, <3>1 DEF Tries, CountTypes
    <3> QED
      BY <1>1, <2>1, <2>2, <3>2 DEF Timely, Tries, CountTypes
  <2>3. CASE q # r
    BY <1>1, <1>2, <2>3 DEF Timely, Tries, CountTypes
  <2> QED
    BY <2>2, <2>3
<1> QED
  BY <1>5, <1>6, <1>7, <1>8

\* A name that moves hurts the announces of the relay it is of.
LEMMA MovePlace ==
  ASSUME Inv, PlaceInv, NEW k \in Keys, Move(k)
  PROVE  PlaceInv'
<1> USE DEF PlaceInv
<1>1. /\ UNCHANGED <<up, run, since, net, queue, looking, pending, listed, lost>>
      /\ \A j \in Keys \ {k} : dns'[j] = dns[j]
      /\ Hurt({r \in Relays : KeyOf[r] = k}) /\ faults' = faults + 1
  BY DEF Move, master, Inv, Types
<1>2. /\ CountTypes' /\ Timely'
      /\ \A r \in Relays : round'[r] = "clean" => round[r] = "clean"
  BY <1>1, HurtStep DEF CountTypes
<1>3. \A r \in Relays : round'[r] = "clean" => KeyOf[r] # k
  BY <1>1 DEF Hurt, CountTypes
<1>4. OwnKeys'
  BY <1>1 DEF OwnKeys, Waiting, Heard, Queued, Begun
<1>5. \A r \in Relays : OnItsWay(r)' = OnItsWay(r)
  BY <1>1 DEF OnItsWay, Waiting, Heard, Queued, Secret
<1>6. CleanIsOnItsWay'
  BY <1>1, <1>2, <1>3, <1>5, ListingConstants DEF CleanIsOnItsWay
<1> QED
  BY <1>2, <1>4, <1>6

\* A tick finds every clean announce on its way, and hurts it.
LEMMA TickPlace ==
  ASSUME Inv, PlaceInv, Tick
  PROVE  /\ PlaceInv'
         /\ \A k \in DOMAIN listed \ DOMAIN listed' :
              LET r == listed[k].secret[1]
              IN  up[r] /\ listed[k].secret = Secret(r)
                  => lost[r] + (IF round[r] = "done" THEN 0 ELSE 1) >= 3
<1> USE DEF PlaceInv
<1> DEFINE slow == {p.secret[1] : p \in {q \in net : q.type = "announce"} \cup looking
                     \cup {queue[i] : i \in DOMAIN queue} \cup {pending[t] : t \in DOMAIN pending}}
           off == {r \in Relays : KeyOf[r] \in DOMAIN listed \ DOMAIN listed'}
<1>1. /\ \A r \in Relays : up[r] => since[r] < Every
      /\ since' = [r \in Relays |-> IF up[r] THEN since[r] + 1 ELSE 0]
      /\ net' = {[p EXCEPT !.late = TRUE] : p \in {q \in net : ~q.late}}
      /\ pending' = <<>> /\ UNCHANGED <<up, run, dns, queue, looking, faults>>
  BY DEF Tick, Expire
<1>2. /\ DOMAIN listed' = {k \in DOMAIN listed : listed[k].age + 1 <= Ttl}
      /\ \A k \in DOMAIN listed' :
           /\ listed'[k].secret = listed[k].secret /\ listed'[k].age = listed[k].age + 1
           /\ listed'[k] \in [secret : Relays \X Nat, ip : Ips, age : Nat]
  <2> DEFINE now == [k \in DOMAIN listed |-> [listed[k] EXCEPT !.age = @ + 1]]
  <2>1. \A k \in DOMAIN listed : 
          /\ now[k].age = listed[k].age + 1 /\ now[k].secret = listed[k].secret
          /\ now[k] \in [secret : Relays \X Nat, ip : Ips, age : Nat]
    BY DEF OwnKeys
  <2>2. listed' = [k \in {j \in DOMAIN now : now[j].age <= Ttl} |-> now[k]]
    BY DEF Tick, Expire
  <2>3. DOMAIN now = DOMAIN listed
    OBVIOUS
  <2> HIDE DEF now
  <2> QED
    BY <2>1, <2>2, <2>3
<1>3. /\ round' = [r \in Relays |-> IF r \in off THEN "done"
                     ELSE IF r \in slow /\ round[r] = "clean" THEN "hurt" ELSE round[r]]
      /\ lost' = [r \in Relays |-> IF r \in off THEN 0 ELSE lost[r]]
  BY DEF Tick
<1>4. \A r \in Relays : round[r] = "clean" => r \in slow
  <2> SUFFICES ASSUME NEW r \in Relays, OnItsWay(r) PROVE r \in slow
    BY DEF CleanIsOnItsWay
  <2>1. \A p \in Waiting : p.secret[1] \in slow
    BY DEF Waiting, Heard, Queued
  <2>2. \A t \in DOMAIN pending : pending[t].secret[1] \in slow
    OBVIOUS
  <2> HIDE DEF slow
  <2> QED
    BY <2>1, <2>2 DEF OnItsWay, Secret
<1>5. /\ \A r \in Relays : round'[r] # "clean"
      /\ \A r \in Relays : r \notin off => lost'[r] = lost[r]
                                          /\ (round'[r] = "done" <=> round[r] = "done")
      /\ lost' \in [Relays -> Nat] /\ round' \in [Relays -> {"clean", "hurt", "done"}]
  <2> HIDE DEF slow, off
  <2> QED
    BY <1>3, <1>4 DEF CountTypes
<1> HIDE DEF slow
<1>6. CountTypes'
  BY <1>1, <1>5, SecretTypes DEF CountTypes
<1>7. OwnKeys'
  <2>1. \A p \in Heard' : \E q \in Heard : p.key = q.key /\ p.secret = q.secret
    <3> TAKE p \in Heard'
    <3>1. PICK q \in net : p = [q EXCEPT !.late = TRUE]
      BY <1>1 DEF Heard
    <3>2. q \in Heard /\ p.key = q.key /\ p.secret = q.secret
      BY <3>1 DEF Heard, Inv, Types, Packets
    <3> QED
      BY <3>2
  <2>2. \A p \in Waiting' : p.key = KeyOf[p.secret[1]]
    BY <1>1, <2>1 DEF OwnKeys, Waiting, Queued
  <2> QED
    BY <1>1, <1>2, <2>2 DEF OwnKeys, Begun
<1>8. CleanIsOnItsWay'
  BY <1>5 DEF CleanIsOnItsWay
<1>9. Timely'
  <2> SUFFICES ASSUME NEW r \in Relays, up[r], OnList(r)'
               PROVE  \/ Tries(r)' >= 3
                      \/ Tries(r)' = 0 /\ listed'[KeyOf[r]].age <= since'[r]
                      \/ Tries(r)' = 1 /\ listed'[KeyOf[r]].age <= Every + since'[r]
                      \/ Tries(r)' = 2 /\ listed'[KeyOf[r]].age <= 2 * Every + since'[r]
    BY <1>1 DEF Timely
  <2>1. OnList(r) /\ r \notin off /\ listed'[KeyOf[r]].age = listed[KeyOf[r]].age + 1
    BY <1>1, <1>2 DEF OnList, Secret
  <2>2. Tries(r)' = Tries(r) /\ since'[r] = since[r] + 1
    BY <1>1, <1>5, <2>1 DEF Tries
  <2>3. since[r] \in Nat /\ Every \in Nat /\ listed[KeyOf[r]].age \in Nat
    BY <2>1, SecretTypes DEF CountTypes, OnList
  <2> QED
    BY <2>1, <2>2, <2>3 DEF Timely
<1>10. ASSUME NEW k \in DOMAIN listed \ DOMAIN listed', NEW r \in Relays,
              r = listed[k].secret[1], up[r], listed[k].secret = Secret(r)
       PROVE  Tries(r) >= 3
  <2>1. k = KeyOf[r] /\ OnList(r)
    BY <1>10 DEF OwnKeys, OnList
  <2>2. listed[k].age + 1 > Ttl /\ since[r] < Every
    BY <1>1, <1>2, <1>10, SecretTypes, ListingConstants
  <2>3. /\ since[r] \in Nat /\ Every \in Nat /\ Ttl \in Nat /\ 3 * Every <= Ttl
        /\ listed[k].age \in Nat
    BY SecretTypes, ListingConstants DEF CountTypes
  <2>4. \/ Tries(r) >= 3
        \/ listed[k].age <= since[r]
        \/ listed[k].age <= Every + since[r]
        \/ listed[k].age <= 2 * Every + since[r]
    <3>1. Timely
      OBVIOUS
    <3>2. up[r]
      BY <1>10
    <3>3. OnList(r) /\ KeyOf[r] = k
      BY <2>1
    <3> QED
      BY ONLY <3>1, <3>2, <3>3, r \in Relays DEF Timely
  <2> QED
    BY <2>2, <2>3, <2>4
<1>11. \A k \in DOMAIN listed : listed[k].secret[1] \in Relays
  BY DEF OwnKeys
<1> QED
  BY <1>6, <1>7, <1>8, <1>9, <1>10, <1>11 DEF Tries

LEMMA DetailsPlace ==
  ASSUME Inv, PlaceInv, NEW p \in net, Details(p)
  PROVE  PlaceInv'
<1> USE DEF PlaceInv
<1> DEFINE a == [type |-> "details", from |-> p.to, token |-> p.token,
                 proof |-> Secret(p.to), late |-> FALSE]
<1>1. /\ net' = (net \ {p}) \cup {a}
      /\ UNCHANGED <<up, run, since, dns, queue, looking, pending, listed, faults, round, lost>>
  BY DEF Details, ReceivedAndSent, relays, master, history
<1>2. p.type = "query" /\ a.type = "details" /\ a.proof = Secret(a.from)
  BY DEF Details
<1> HIDE DEF a
<1>3. CountTypes' /\ Timely'
  BY <1>1, HurtStep DEF CountTypes
<1>4. Heard' = Heard
  BY <1>1, <1>2 DEF Heard
<1>5. OwnKeys'
  BY <1>1, <1>4 DEF OwnKeys, Waiting, Queued, Begun
<1>6. \A r \in Relays : OnItsWay(r) => OnItsWay(r)'
  BY <1>1, <1>2, <1>4 DEF OnItsWay, Waiting, Queued, Secret
<1>7. CleanIsOnItsWay'
  BY <1>1, <1>6 DEF CleanIsOnItsWay
<1> QED
  BY <1>3, <1>5, <1>7

\* An announce is passed on, or its relay is told hurt: there is room for
\* what is listed already.
LEMMA HearPlace ==
  ASSUME Inv, PlaceInv, NEW p \in net, Hear(p)
  PROVE  PlaceInv'
<1> USE DEF PlaceInv
<1> DEFINE a == [key |-> p.key, ip |-> p.ip, secret |-> p.secret]
           passed == queue' = Append(queue, a)
<1>1. /\ net' = net \ {p} /\ p \in Heard
      /\ queue' \in {queue, Append(queue, a)}
      /\ UNCHANGED <<up, run, since, dns, looking, pending, listed, faults, lost>>
  BY DEF Hear, Received, relays, Heard
<1>2. \E S : Hurt(S)
  BY DEF Hear
<1>3. p.key \in DOMAIN listed => passed \/ Hurt({p.secret[1]})
  BY DEF Hear, Whose
<1>4. a.key = p.key /\ a.secret = p.secret /\ p.key = KeyOf[p.secret[1]]
      /\ p.secret \in Relays \X Nat /\ Begun(p.secret) /\ a \in Announced
  BY <1>1, SecretTypes DEF OwnKeys, Waiting, Heard, Inv, Types, Packets, Announced
<1> HIDE DEF a
<1>5. /\ CountTypes' /\ Timely'
      /\ \A r \in Relays : round'[r] = "clean" => round[r] = "clean"
  BY <1>1, <1>2, HurtStep DEF CountTypes
<1>6. /\ Queued \subseteq Queued' /\ Queued' \subseteq Queued \cup {a}
      /\ passed => a \in Queued'
  <2>1. CASE queue' = queue /\ ~passed
    BY <2>1 DEF Queued
  <2>2. CASE passed
    <3>1. queue \in Seq(Announced)
      BY DEF Inv, Types
    <3>2. /\ DOMAIN Append(queue, a) = DOMAIN queue \cup {Len(queue) + 1}
          /\ \A i \in DOMAIN queue : Append(queue, a)[i] = queue[i]
          /\ Append(queue, a)[Len(queue) + 1] = a
      BY <1>4, <3>1
    <3> QED
      BY <2>2, <3>2 DEF Queued
  <2> QED
    BY <1>1, <2>1, <2>2
<1> HIDE DEF passed
<1>7. OwnKeys'
  BY <1>1, <1>4, <1>6 DEF OwnKeys, Waiting, Heard, Begun
<1>8. ASSUME NEW r \in Relays, round'[r] = "clean"
      PROVE  OnItsWay(r)'
  <2>1. round[r] = "clean" /\ KeyOf[r] \in DOMAIN listed /\ OnItsWay(r)
    BY <1>5, <1>8 DEF CleanIsOnItsWay
  <2>2. CASE p.secret = Secret(r)
    <3>1. p.secret[1] = r /\ p.key = KeyOf[r]
      BY <1>4, <2>2 DEF Secret
    <3>2. ~Hurt({p.secret[1]})
      BY <1>8, <3>1 DEF Hurt
    <3>3. a \in Queued' /\ a.secret = Secret(r)'
      BY <1>1, <1>3, <1>4, <1>6, <2>1, <2>2, <3>1, <3>2 DEF Secret
    <3> QED
      BY <3>3 DEF OnItsWay, Waiting
  <2>3. CASE p.secret # Secret(r)
    BY <1>1, <1>6, <2>1, <2>3 DEF OnItsWay, Waiting, Heard, Secret
  <2> QED
    BY <2>2, <2>3
<1>9. CleanIsOnItsWay'
  BY <1>1, <1>5, <1>8 DEF CleanIsOnItsWay
<1> QED
  BY <1>5, <1>7, <1>9

LEMMA TakePlace ==
  ASSUME Inv, PlaceInv, Take
  PROVE  PlaceInv'
<1> USE DEF PlaceInv
<1>1. /\ looking = {} /\ looking' = {Head(queue)} /\ queue' = Tail(queue) /\ queue # <<>>
      /\ UNCHANGED <<up, run, since, dns, net, pending, listed, faults, round, lost>>
  BY DEF Take, relays, history
<1>2. CountTypes' /\ Timely'
  BY <1>1, HurtStep DEF CountTypes
<1>3. Queued = Queued' \cup {Head(queue)}
  <2>1. queue \in Seq(Announced) /\ queue # <<>>
    BY <1>1 DEF Inv, Types
  <2>2. /\ Head(queue) = queue[1] /\ 1 \in DOMAIN queue
        /\ \A i \in DOMAIN Tail(queue) : i + 1 \in DOMAIN queue /\ Tail(queue)[i] = queue[i + 1]
        /\ \A i \in DOMAIN queue : i = 1 \/ (i - 1 \in DOMAIN Tail(queue)
                                             /\ Tail(queue)[i - 1] = queue[i])
    BY <2>1
  <2>3. \A i \in DOMAIN queue : queue[i] \in Queued' \cup {Head(queue)}
    BY <1>1, <2>2 DEF Queued
  <2>4. \A i \in DOMAIN Tail(queue) : Tail(queue)[i] \in Queued
    BY <2>2 DEF Queued
  <2>5. Head(queue) \in Queued
    BY <2>2 DEF Queued
  <2>6. Queued' = {Tail(queue)[i] : i \in DOMAIN Tail(queue)}
    BY <1>1 DEF Queued
  <2> QED
    BY <2>3, <2>4, <2>5, <2>6 DEF Queued
<1>4. Waiting' = Waiting
  BY <1>1, <1>3 DEF Waiting, Heard
<1>5. OwnKeys'
  BY <1>1, <1>4 DEF OwnKeys, Begun
<1>6. \A r \in Relays : OnItsWay(r)' = OnItsWay(r)
  BY <1>1, <1>4 DEF OnItsWay, Secret
<1>7. CleanIsOnItsWay'
  BY <1>1, <1>6 DEF CleanIsOnItsWay
<1> QED
  BY <1>2, <1>5, <1>7

\* A clean announce is probed where its relay is, under a token that no answer
\* under way has; if it is not probed, it is hurt.
LEMMA ProbePlace ==
  ASSUME Inv, PlaceInv, Probe \/ NoSuchHost
  PROVE  PlaceInv'
<1> USE DEF PlaceInv
<1>1. PICK p \in looking :
        /\ looking' = {}
        /\ \/ UNCHANGED <<pending, net>> /\ Hurt({p.secret[1]})
           \/ /\ Hurt({})
              /\ \E token \in FreeTokens :
                   /\ pending' = [t \in DOMAIN pending \cup {token} |->
                        IF t = token
                        THEN [key |-> p.key, ip |-> p.ip, secret |-> p.secret,
                              resolved |-> dns[p.key]]
                        ELSE pending[t]]
                   /\ net' = net \cup {[type |-> "query", to |-> dns[p.key],
                                        token |-> token, late |-> FALSE]}
  BY DEF Probe, NoSuchHost
<1>2. UNCHANGED <<up, run, since, dns, queue, listed, faults, lost>>
  BY DEF Probe, NoSuchHost, relays
<1>3. /\ CountTypes' /\ Timely'
      /\ \A r \in Relays : round'[r] = "clean" => round[r] = "clean"
  BY <1>1, <1>2, HurtStep DEF CountTypes
<1>4. /\ p \in Waiting /\ \A q \in looking : q = p
      /\ p.secret \in Relays \X Nat /\ p.key = KeyOf[p.secret[1]]
  BY SecretTypes DEF Waiting, CountTypes, OwnKeys
<1>5. CASE UNCHANGED <<pending, net>> /\ Hurt({p.secret[1]})
  <2>1. OwnKeys'
    BY <1>1, <1>2, <1>5 DEF OwnKeys, Waiting, Heard, Queued, Begun
  <2>2. ASSUME NEW r \in Relays, round'[r] = "clean"
        PROVE  OnItsWay(r)'
    <3>1. OnItsWay(r) /\ p.secret # Secret(r)
      BY <1>3, <1>5, <2>2 DEF CleanIsOnItsWay, Hurt, Secret
    <3> QED
      BY <1>1, <1>2, <1>4, <1>5, <3>1 DEF OnItsWay, Waiting, Heard, Queued, Secret
  <2> QED
    BY <1>2, <1>3, <2>1, <2>2 DEF CleanIsOnItsWay
<1>6. CASE \E token \in FreeTokens :
             /\ pending' = [t \in DOMAIN pending \cup {token} |->
                  IF t = token
                  THEN [key |-> p.key, ip |-> p.ip, secret |-> p.secret,
                        resolved |-> dns[p.key]]
                  ELSE pending[t]]
             /\ net' = net \cup {[type |-> "query", to |-> dns[p.key],
                                  token |-> token, late |-> FALSE]}
  <2>1. PICK token \in FreeTokens :
          /\ pending' = [t \in DOMAIN pending \cup {token} |->
               IF t = token
               THEN [key |-> p.key, ip |-> p.ip, secret |-> p.secret, resolved |-> dns[p.key]]
               ELSE pending[t]]
          /\ net' = net \cup {[type |-> "query", to |-> dns[p.key],
                               token |-> token, late |-> FALSE]}
    BY <1>6
  <2>2. /\ DOMAIN pending' = DOMAIN pending \cup {token} /\ token \notin DOMAIN pending
        /\ pending'[token].key = p.key /\ pending'[token].secret = p.secret
        /\ pending'[token].resolved = dns[p.key]
        /\ \A t \in DOMAIN pending : pending'[t] = pending[t]
        /\ \A q \in net : q.type = "details" => q.token # token
        /\ \A q \in net' : q.type \in {"announce", "details"} => q \in net
        /\ Heard' = Heard
    BY <2>1 DEF FreeTokens, Heard
  <2>3. OwnKeys'
    BY <1>1, <1>2, <1>4, <2>2 DEF OwnKeys, Waiting, Queued, Begun
  <2>4. ASSUME NEW r \in Relays, round'[r] = "clean"
        PROVE  OnItsWay(r)'
    <3>1. OnItsWay(r) /\ dns[KeyOf[r]] = r
      BY <1>3, <2>4 DEF CleanIsOnItsWay
    <3>2. CASE p.secret = Secret(r)
      <4>1. p.key = KeyOf[r]
        BY <1>4, <3>2 DEF Secret
      <4>2. /\ token \in DOMAIN pending' /\ pending'[token].secret = Secret(r)'
            /\ pending'[token].resolved = r
            /\ \A q \in net' : q.type = "details" => q.token # token
        BY <1>2, <2>2, <3>1, <3>2, <4>1 DEF Secret
      <4> QED
        BY <4>2 DEF OnItsWay
    <3>3. CASE p.secret # Secret(r)
      BY <1>1, <1>2, <1>4, <2>2, <3>1, <3>3 DEF OnItsWay, Waiting, Queued, Secret
    <3> QED
      BY <3>2, <3>3
  <2> QED
    BY <1>2, <1>3, <2>3, <2>4 DEF CleanIsOnItsWay
<1> QED
  BY <1>1, <1>5, <1>6

\* An answer to a clean announce's probe lists its relay.
LEMMA VerifyPlace ==
  ASSUME Inv, PlaceInv, NEW p \in net, Verify(p)
  PROVE  PlaceInv' /\ DOMAIN listed \subseteq DOMAIN listed'
<1> USE DEF PlaceInv
<1> DEFINE b == pending[p.token]
           settled == p.token \in DOMAIN pending /\ p.from = b.resolved
           r == b.secret[1]
<1>1. /\ net' = net \ {p} /\ p.type = "details"
      /\ UNCHANGED <<up, run, since, dns, queue, looking, faults>>
  BY DEF Verify, Received, relays
<1>2. /\ DOMAIN pending' = IF settled THEN DOMAIN pending \ {p.token} ELSE DOMAIN pending
      /\ \A t \in DOMAIN pending' : pending'[t] = pending[t]
  BY DEF Verify
<1>3. Waiting' = Waiting
  BY <1>1 DEF Waiting, Heard, Queued
<1>4. CASE ~settled \/ p.proof # b.secret
  <2>1. UNCHANGED <<listed, round, lost>>
    BY <1>4 DEF Verify
  <2>2. CountTypes' /\ Timely'
    BY <1>1, <2>1, HurtStep DEF CountTypes
  <2>3. OwnKeys'
    BY <1>1, <1>2, <1>3, <2>1 DEF OwnKeys, Begun
  <2>4. \A q \in Relays : OnItsWay(q) => OnItsWay(q)'
    BY <1>1, <1>2, <1>3, <1>4 DEF OnItsWay, Secret
  <2>5. CleanIsOnItsWay'
    BY <1>1, <2>1, <2>4 DEF CleanIsOnItsWay
  <2> QED
    BY <2>1, <2>2, <2>3, <2>5
<1>5. CASE settled /\ p.proof = b.secret
  <2>1. /\ DOMAIN listed' = DOMAIN listed \cup {b.key}
        /\ listed'[b.key] = [secret |-> b.secret, ip |-> b.ip, age |-> 0]
        /\ \A k \in DOMAIN listed \ {b.key} : listed'[k] = listed[k]
        /\ round' = [round EXCEPT ![r] = IF b.secret = Secret(r) THEN "done" ELSE @]
        /\ lost' = [lost EXCEPT ![r] = IF b.secret = Secret(r) THEN 0 ELSE @]
    BY <1>5 DEF Verify
  <2>2. /\ b \in Probes /\ b.secret \in Relays \X Nat /\ Begun(b.secret)
        /\ b.key = KeyOf[r] /\ r \in Relays
    BY <1>5, SecretTypes DEF OwnKeys, Inv, Types
  <2>3. listed'[b.key] \in [secret : Relays \X Nat, ip : Ips, age : Nat]
        /\ listed'[b.key].secret = b.secret /\ listed'[b.key].age = 0
    BY <2>1, <2>2 DEF Probes
  <2>4. p.proof = b.secret /\ p.token \in DOMAIN pending
    BY <1>5
  <2>5. \A q \in Relays : b.secret = Secret(q) => q = r
    BY DEF Secret
  <2>6. \A q \in Relays : KeyOf[q] = b.key => q = r
    BY <2>2 DEF OwnKeys
  <2> HIDE DEF b, r, settled
  <2>7. CountTypes'
    BY <1>1, <2>1 DEF CountTypes
  <2>8. OwnKeys'
    BY <1>1, <1>2, <1>3, <2>1, <2>2, <2>3 DEF OwnKeys, Begun, r
  <2>9. ASSUME NEW q \in Relays, round'[q] = "clean"
        PROVE  OnItsWay(q)' /\ round[q] = "clean"
    <3>1. round[q] = "clean" /\ b.secret # Secret(q)
      BY <2>1, <2>2, <2>5, <2>9 DEF CountTypes
    <3>2. OnItsWay(q)
      BY <3>1 DEF CleanIsOnItsWay
    <3>3. \A t \in DOMAIN pending : pending[t].secret = Secret(q) => t # p.token
      BY <3>1 DEF b
    <3> QED
      BY <1>1, <1>2, <1>3, <3>1, <3>2, <3>3 DEF OnItsWay, Secret
  <2>10. CleanIsOnItsWay'
    BY <1>1, <2>1, <2>9 DEF CleanIsOnItsWay
  <2>11. ASSUME NEW q \in Relays, up[q], OnList(q)'
         PROVE  \/ Tries(q)' >= 3
                \/ Tries(q)' = 0 /\ listed'[KeyOf[q]].age <= since'[q]
                \/ Tries(q)' = 1 /\ listed'[KeyOf[q]].age <= Every + since'[q]
                \/ Tries(q)' = 2 /\ listed'[KeyOf[q]].age <= 2 * Every + since'[q]
    <3>1. CASE q = r
      <4>1. b.secret = Secret(r)
        BY <1>1, <2>2, <2>3, <2>11, <3>1 DEF OnList, Secret
      <4>2. round'[r] = "done" /\ lost'[r] = 0
        BY <2>1, <2>2, <4>1 DEF CountTypes
      <4>3. Tries(q)' = 0
        BY <3>1, <4>2 DEF Tries
      <4>4. since'[q] \in Nat /\ listed'[KeyOf[q]].age = 0
        BY <1>1, <2>2, <2>3, <3>1 DEF CountTypes
      <4> QED
        BY <4>3, <4>4
    <3>2. CASE q # r
      <4>1. KeyOf[q] # b.key
        BY <2>6, <3>2
      <4>2. OnList(q) /\ listed'[KeyOf[q]] = listed[KeyOf[q]]
        BY <1>1, <2>1, <2>11, <4>1 DEF OnList, Secret
      <4>3. Tries(q)' = Tries(q)
        BY <2>1, <3>2 DEF Tries, CountTypes
      <4> QED
        BY <1>1, <2>11, <4>2, <4>3 DEF Timely
    <3> QED
      BY <3>1, <3>2
  <2>12. Timely'
    BY <1>1, <2>11 DEF Timely
  <2> QED
    BY <2>1, <2>7, <2>8, <2>10, <2>12
<1> QED
  BY <1>4, <1>5

LEMMA LosePlace ==
  ASSUME Inv, PlaceInv, NEW p \in net, Lose(p)
  PROVE  PlaceInv'
<1> USE DEF PlaceInv
<1>1. /\ net' = net \ {p} /\ Hurt(Whose(p))
      /\ UNCHANGED <<up, run, since, dns, queue, looking, pending, listed, faults, lost>>
  BY DEF Lose, relays, master
<1>2. /\ CountTypes' /\ Timely'
      /\ \A r \in Relays : round'[r] = "clean" => round[r] = "clean"
  BY <1>1, HurtStep DEF CountTypes
<1>3. OwnKeys'
  BY <1>1 DEF OwnKeys, Waiting, Heard, Queued, Begun
<1>4. ASSUME NEW r \in Relays, round'[r] = "clean"
      PROVE  OnItsWay(r)'
  <2>1. OnItsWay(r)
    BY <1>2, <1>4 DEF CleanIsOnItsWay
  <2>2. p.type = "announce" => p.secret # Secret(r)
    BY <1>1, <1>4 DEF Hurt, Whose, Secret
  <2> QED
    BY <1>1, <2>1, <2>2 DEF OnItsWay, Waiting, Heard, Queued, Secret
<1>5. CleanIsOnItsWay'
  BY <1>1, <1>2, <1>4 DEF CleanIsOnItsWay
<1> QED
  BY <1>2, <1>3, <1>5

LEMMA RestartPlace ==
  ASSUME Inv, PlaceInv, Restart
  PROVE  PlaceInv' /\ faults' # faults
<1> USE DEF PlaceInv
<1>1. /\ queue' = <<>> /\ looking' = {} /\ pending' = <<>> /\ listed' = <<>>
      /\ \A r \in Relays : round'[r] = "done"
      /\ lost' \in [Relays -> Nat] /\ round' \in [Relays -> {"clean", "hurt", "done"}]
      /\ faults' = faults + 1 /\ UNCHANGED <<up, run, since, dns, net>>
  BY DEF Restart, Forget, relays, CountTypes
<1>2. CountTypes' /\ faults' # faults
  BY <1>1 DEF CountTypes
<1>3. OwnKeys'
  BY <1>1 DEF OwnKeys, Waiting, Heard, Queued
<1>4. CleanIsOnItsWay' /\ Timely'
  BY <1>1 DEF CleanIsOnItsWay, Timely, OnList
<1> QED
  BY <1>2, <1>3, <1>4

LEMMA PlaceInit == Init => PlaceInv
<1> SUFFICES ASSUME Init PROVE PlaceInv
  OBVIOUS
<1>1. Every \in Nat \ {0}
  BY ListingConstants
<1>2. CountTypes
  BY <1>1 DEF Init, CountTypes
<1>3. OwnKeys
  BY DEF Init, OwnKeys, Waiting, Heard, Queued
<1>4. CleanIsOnItsWay /\ Timely
  BY DEF Init, CleanIsOnItsWay, Timely, OnList
<1> QED
  BY <1>2, <1>3, <1>4 DEF PlaceInv

Kept ==
  \A k \in DOMAIN listed \ DOMAIN listed' :
    LET r == listed[k].secret[1]
    IN  up[r] /\ listed[k].secret = Secret(r) /\ faults' = faults
        => lost[r] + (IF round[r] = "done" THEN 0 ELSE 1) >= 3

LEMMA PlaceStep == Inv /\ PlaceInv /\ [Next]_vars => PlaceInv' /\ [Kept]_vars
<1> SUFFICES ASSUME Inv, PlaceInv, [Next]_vars PROVE PlaceInv' /\ (Kept \/ UNCHANGED vars)
  OBVIOUS
<1>1. ASSUME UNCHANGED listed PROVE Kept
  BY <1>1 DEF Kept
<1>2. CASE \E r \in Relays : Start(r) \/ Stop(r) \/ Announce(r)
  <2>1. UNCHANGED listed
    BY <1>2 DEF Start, Stop, Announce, master
  <2> QED
    BY <1>1, <1>2, <2>1, StartPlace, StopPlace, AnnouncePlace
<1>3. CASE \E p \in net : Details(p) \/ Hear(p) \/ Lose(p)
  <2>1. UNCHANGED listed
    BY <1>3 DEF Details, Hear, Lose, master
  <2> QED
    BY <1>1, <1>3, <2>1, DetailsPlace, HearPlace, LosePlace
<1>4. CASE \E p \in net : Verify(p)
  BY <1>4, VerifyPlace DEF Kept
<1>5. CASE Resolver
  <2>1. UNCHANGED listed
    BY <1>5 DEF Resolver, Take, Probe, NoSuchHost
  <2> QED
    BY <1>1, <1>5, <2>1, TakePlace, ProbePlace DEF Resolver
<1>6. CASE Restart
  BY <1>6, RestartPlace DEF Kept
<1>7. CASE Tick
  BY <1>7, TickPlace DEF Kept
<1>8. CASE \E r \in Unsteady : Move(KeyOf[r])
  <2>1. \A r \in Unsteady : KeyOf[r] \in Keys
    BY ListingConstants
  <2>2. UNCHANGED listed
    BY <1>8 DEF Move, master
  <2> QED
    BY <1>1, <1>8, <2>1, <2>2, MovePlace
<1>9. CASE UNCHANGED vars
  <2> USE <1>9 DEF vars
  <2>1. CountTypes' /\ Timely'
    BY HurtStep DEF PlaceInv, CountTypes
  <2>2. OwnKeys'
    BY DEF PlaceInv, OwnKeys, Waiting, Heard, Queued, Begun
  <2>3. \A r \in Relays : OnItsWay(r)' = OnItsWay(r)
    BY DEF OnItsWay, Waiting, Heard, Queued, Secret
  <2> QED
    BY <2>1, <2>2, <2>3 DEF PlaceInv, CleanIsOnItsWay
<1> QED
  BY <1>2, <1>3, <1>4, <1>5, <1>6, <1>7, <1>8, <1>9 DEF Next, Packet

\* A relay that goes on running loses its place only after three announces in
\* a row came to nothing, whatever the number of relays, how full the list is,
\* how announces, lookups, probes and answers cross, and what restarts or moves
\* in between.
THEOREM PlacesAreKept == Spec => StaysListed
<1>1. Spec => [][Kept]_vars
  BY InvInit, InvStep, PlaceInit, PlaceStep, PTL DEF Spec
<1> QED
  BY <1>1 DEF StaysListed, Kept
=============================================================================
