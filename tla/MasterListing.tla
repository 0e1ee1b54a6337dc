---------------------------- MODULE MasterListing ----------------------------
(***************************************************************************)
(* How relays get onto the master's list                                   *)
(* (src/mc_engine/online/master_server/master_server_main.cpp) and stay    *)
(* there: a relay announces itself every half minute with a secret of this *)
(* run, a resolver thread looks up the host it named and sends a probe     *)
(* there, and only an answer whose proof is made with that secret lists    *)
(* it.  Both ends are modelled, with the network between them.             *)
(*                                                                         *)
(* A relay stands for the ip:port it is bound to.  Its secret is the pair  *)
(* of the relay and the number of its run.  A proof is the secret it is    *)
(* made with, as it fits that and the token only.  Time goes by in ticks   *)
(* of which Ttl make the time a listing lasts.  Within one of them all     *)
(* probes of the last run out (theirs are three seconds), and a packet is  *)
(* under way for two at most.                                              *)
(***************************************************************************)
EXTENDS Naturals, Sequences, FiniteSets

CONSTANTS
  Relays,       \* relays, each at an ip:port of its own
  Ips, IpOf,    \* the machines, and whose a relay is
  Keys, KeyOf,  \* "host:port" as players connect, and which a relay announces
  MaxListed,    \* kMaxListed
  PerIp,        \* kMaxListedPerSourceIp
  MaxProbes,    \* kMaxPendingProbes
  Every,        \* kAnnounceEverySec, in ticks
  Ttl,          \* kListingTtlSec, in ticks
  Tokens,       \* tokens of probes
  MaxNet,       \* bound: packets under way; an announce more is lost
  Unsteady,     \* bound: relays that may start again or change their address
  MaxFaults     \* bound: changes of addresses, restarts of the master and of relays

ASSUME ListingConstants ==
  /\ IpOf \in [Relays -> Ips] /\ KeyOf \in [Relays -> Keys]
  /\ {MaxListed, PerIp, MaxProbes, Every, Ttl} \subseteq Nat \ {0}
  /\ {MaxNet, MaxFaults} \subseteq Nat /\ Unsteady \subseteq Relays
  /\ 3 * Every <= Ttl

VARIABLES
  up, run,    \* a relay runs; the number of its latest run
  since,      \* ticks since its last announce
  dns,        \* the relay whose address a key's host resolves to
  net,        \* packets under way
  queue,      \* g_to_resolve
  looking,    \* what the resolver looks up: no probe or one
  pending,    \* g_pending
  listed,     \* g_listed
  faults,     \* bound: changes of addresses and restarts so far
  round,      \* history: what became of the latest announce of a relay on
              \* the list: "clean" so far, "hurt" or "done"
  lost,       \* history: its announces in a row that were lost
  found       \* history: the runs found under a key in this tick

relays == <<up, run, since>>
master == <<queue, looking, pending, listed>>
history == <<round, lost, found>>
vars == <<up, run, since, dns, net, queue, looking, pending, listed,
          faults, round, lost, found>>

Secrets == Relays \X (1 .. MaxFaults + 1)
Secret(r) == <<r, run[r]>>

Init ==
  /\ up = [r \in Relays |-> FALSE] /\ run = [r \in Relays |-> 0]
  /\ since = [r \in Relays |-> 0]
  /\ dns \in [Keys -> Relays]
  /\ \A r \in Relays : dns[KeyOf[r]] = r
  /\ net = {} /\ queue = <<>> /\ looking = {} /\ pending = <<>> /\ listed = <<>>
  /\ faults = 0
  /\ round = [r \in Relays |-> "done"] /\ lost = [r \in Relays |-> 0]
  /\ found = {}

-----------------------------------------------------------------------------
(* History and helpers.                                                    *)

OnList(r) == KeyOf[r] \in DOMAIN listed /\ listed[KeyOf[r]].secret = Secret(r)

\* The latest announces of the relays in S come to nothing, if they have not
\* listed them already.
Hurt(S) ==
  round' = [r \in Relays |-> IF r \in S /\ round[r] = "clean" THEN "hurt" ELSE round[r]]

\* They are not on the list any more.
Forget(S) ==
  /\ round' = [r \in Relays |-> IF r \in S THEN "done" ELSE round[r]]
  /\ lost' = [r \in Relays |-> IF r \in S THEN 0 ELSE lost[r]]

\* Whose announce a packet belongs to.
Whose(p) ==
  IF p.type = "announce" THEN {p.secret[1]}
  ELSE IF p.token \in DOMAIN pending THEN {pending[p.token].secret[1]} ELSE {}

Fits == Cardinality(net) < MaxNet

Received(p) == net' = net \ {p}

ReceivedAndSent(p, q) ==
  net' = (net \ {p}) \cup {q}

\* What a client finds under the keys; Secret(dns[k]) runs at k's address.
Reachable == {<<k, Secret(dns[k])>> : k \in {j \in Keys : up[dns[j]]}}

\* mt19937: a token does not meet those still in use.
FreeTokens ==
  Tokens \ (DOMAIN pending \cup {p.token : p \in {q \in net : q.type # "announce"}})

-----------------------------------------------------------------------------
(* The relay (relay_server.cpp).                                           *)

\* main: a run has a secret of its own, and its first announce goes out.
Start(r) ==
  /\ ~up[r]
  /\ run[r] > 0 => r \in Unsteady /\ faults < MaxFaults
  /\ faults' = IF run[r] > 0 THEN faults + 1 ELSE faults
  /\ up' = [up EXCEPT ![r] = TRUE]
  /\ run' = [run EXCEPT ![r] = @ + 1]
  /\ since' = [since EXCEPT ![r] = Every]
  /\ UNCHANGED dns
  /\ found' = found \cup Reachable'
  /\ UNCHANGED <<net, master, round, lost>>

Stop(r) ==
  /\ up[r]
  /\ up' = [up EXCEPT ![r] = FALSE]
  /\ since' = [since EXCEPT ![r] = 0]
  /\ Forget({r})
  /\ UNCHANGED <<run, dns, net, master, faults, found>>

\* AnnounceLoop: an announce as the master gets it, with the sender's ip.
Announce(r) ==
  /\ up[r] /\ since[r] = Every
  /\ since' = [since EXCEPT ![r] = 0]
  /\ net' = IF Fits THEN net \cup {[type |-> "announce", key |-> KeyOf[r], ip |-> IpOf[r],
                                   secret |-> Secret(r), late |-> FALSE]}
            ELSE net
  /\ round' = [round EXCEPT ![r] = IF ~OnList(r) THEN "done"
                                  ELSE IF Fits /\ dns[KeyOf[r]] = r THEN "clean" ELSE "hurt"]
  /\ lost' = [lost EXCEPT ![r] = IF round[r] = "hurt" /\ @ < 3 THEN @ + 1 ELSE @]
  /\ UNCHANGED <<up, run, dns, master, faults, found>>

\* main: kDetailsQuery is answered with a proof of this run's secret.
Details(p) ==
  /\ p.type = "query" /\ up[p.to]
  /\ ReceivedAndSent(p, [type |-> "details", from |-> p.to, token |-> p.token,
                         proof |-> Secret(p.to), late |-> FALSE])
  /\ UNCHANGED <<relays, dns, master, faults, history>>

-----------------------------------------------------------------------------
(* The master.                                                             *)

ListedFrom(ip) == {k \in DOMAIN listed : listed[k].ip = ip}

\* Fault: what is listed already is counted like a newcomer.
Hear_CountsAll(p) ==
  /\ p.type = "announce"
  /\ Received(p)
  /\ LET room == Cardinality(DOMAIN listed) < MaxListed
                 /\ Cardinality(ListedFrom(p.ip)) < PerIp
         full == Len(queue) >= MaxProbes
     IN  /\ queue' = IF room /\ ~full
                     THEN Append(queue, [key |-> p.key, ip |-> p.ip, secret |-> p.secret])
                     ELSE queue
         /\ Hurt(IF room /\ full THEN Whose(p) ELSE {})
  /\ UNCHANGED <<relays, dns, looking, pending, listed, faults, lost, found>>

\* UdpLoop, kAnnounce: a key that is not listed needs room, on the list and
\* among those of its ip.  (An announce beyond an ip's forty a minute is one
\* that is lost.)
Hear(p) ==
  /\ p.type = "announce"
  /\ Received(p)
  /\ LET room == \/ p.key \in DOMAIN listed
                 \/ /\ Cardinality(DOMAIN listed) < MaxListed
                    /\ Cardinality(ListedFrom(p.ip)) < PerIp
         full == Len(queue) >= MaxProbes
     IN  /\ queue' = IF room /\ ~full
                     THEN Append(queue, [key |-> p.key, ip |-> p.ip, secret |-> p.secret])
                     ELSE queue
         /\ Hurt(IF room /\ full THEN Whose(p) ELSE {})
  /\ UNCHANGED <<relays, dns, looking, pending, listed, faults, lost, found>>

\* ResolveLoop takes the next announce and lets go of the lock.
Take ==
  /\ looking = {} /\ queue # <<>>
  /\ looking' = {Head(queue)}
  /\ queue' = Tail(queue)
  /\ UNCHANGED <<relays, dns, net, pending, listed, faults, history>>

\* ResolveLoop: the name is found, sooner or later, and a probe sent to its
\* address, unless too many are out.
Probe ==
  /\ Fits
  /\ \E p \in looking :
       /\ looking' = {}
       /\ IF Cardinality(DOMAIN pending) < MaxProbes
          THEN /\ \E token \in FreeTokens :
                    /\ pending' = [t \in DOMAIN pending \cup {token} |->
                         IF t = token
                         THEN [key |-> p.key, ip |-> p.ip, secret |-> p.secret,
                               resolved |-> dns[p.key]]
                         ELSE pending[t]]
                    /\ net' = net \cup {[type |-> "query", to |-> dns[p.key],
                                         token |-> token, late |-> FALSE]}
               /\ Hurt({})
          ELSE UNCHANGED <<pending, net>> /\ Hurt({p.secret[1]})
  /\ UNCHANGED <<relays, dns, queue, listed, faults, lost, found>>

\* ResolveLoop: there is no such name, or nobody to tell.
NoSuchHost ==
  /\ Fits
  /\ \E p \in looking : looking' = {} /\ Hurt({p.secret[1]})
  /\ UNCHANGED <<relays, dns, net, queue, pending, listed, faults, lost, found>>

\* Fault: any answer will do that comes from where the probe went.
Verify_AnyProof(p) ==
  /\ p.type = "details"
  /\ Received(p)
  /\ p.token \in DOMAIN pending => p.from = pending[p.token].resolved
  /\ IF p.token \in DOMAIN pending
     THEN LET b == pending[p.token]
              r == b.secret[1]
          IN  /\ pending' = [t \in DOMAIN pending \ {p.token} |-> pending[t]]
              /\ listed' = [k \in DOMAIN listed \cup {b.key} |->
                   IF k = b.key THEN [secret |-> b.secret, ip |-> b.ip, age |-> 0]
                   ELSE listed[k]]
              /\ round' = [round EXCEPT ![r] = IF b.secret = Secret(r) THEN "done" ELSE @]
              /\ lost' = [lost EXCEPT ![r] = IF b.secret = Secret(r) THEN 0 ELSE @]
     ELSE UNCHANGED <<pending, listed, round, lost>>
  /\ UNCHANGED <<relays, dns, queue, looking, faults, found>>

\* UdpLoop, kDetails: an answer to a probe, from where that went, settles it;
\* one with the announced secret's proof lists the key, or keeps it listed.
Verify(p) ==
  /\ p.type = "details"
  /\ Received(p)
  /\ IF p.token \in DOMAIN pending /\ p.from = pending[p.token].resolved
     THEN LET b == pending[p.token]
              r == b.secret[1]
          IN  /\ pending' = [t \in DOMAIN pending \ {p.token} |-> pending[t]]
              /\ IF p.proof = b.secret
                 THEN /\ listed' = [k \in DOMAIN listed \cup {b.key} |->
                           IF k = b.key THEN [secret |-> b.secret, ip |-> b.ip, age |-> 0]
                           ELSE listed[k]]
                      /\ round' = [round EXCEPT ![r] = IF b.secret = Secret(r) THEN "done" ELSE @]
                      /\ lost' = [lost EXCEPT ![r] = IF b.secret = Secret(r) THEN 0 ELSE @]
                 ELSE UNCHANGED <<listed, round, lost>>
     ELSE UNCHANGED <<pending, listed, round, lost>>
  /\ UNCHANGED <<relays, dns, queue, looking, faults, found>>

\* Fault: only probes expire (and a listing's age is not told apart further).
Expire_ProbesOnly(now) ==
  /\ listed' = [k \in DOMAIN now |->
       [now[k] EXCEPT !.age = IF @ > Ttl THEN Ttl ELSE @]]
  /\ pending' = <<>>

\* Expire, which UdpLoop calls every second: of the listings, as old as they
\* are now, and the probes.
Expire(now) ==
  /\ listed' = [k \in {j \in DOMAIN now : now[j].age <= Ttl} |-> now[k]]
  /\ pending' = <<>>

\* The master is restarted: it keeps nothing of all this.
Restart ==
  /\ faults < MaxFaults /\ faults' = faults + 1
  /\ queue' = <<>> /\ looking' = {} /\ pending' = <<>> /\ listed' = <<>>
  /\ Forget(Relays)
  /\ UNCHANGED <<relays, dns, net, found>>

-----------------------------------------------------------------------------
(* Network, names and time.                                                *)

Lose(p) ==
  /\ net' = net \ {p}
  /\ Hurt(Whose(p))
  /\ UNCHANGED <<relays, dns, master, faults, lost, found>>

\* A dynamic address: a name now leads to another relay.
Move(k) ==
  /\ faults < MaxFaults /\ faults' = faults + 1
  /\ \E r \in Relays \ {dns[k]} : dns' = [dns EXCEPT ![k] = r]
  /\ Hurt({r \in Relays : KeyOf[r] = k})
  /\ UNCHANGED <<up, run>>
  /\ found' = found \cup Reachable'
  /\ UNCHANGED <<since, net, master, lost>>

\* A tick.  What is under way counts as lost, though it may arrive yet.
Tick ==
  /\ \A r \in Relays : up[r] => since[r] < Every
  /\ since' = [r \in Relays |-> IF up[r] THEN since[r] + 1 ELSE 0]
  /\ net' = {[p EXCEPT !.late = TRUE] : p \in {q \in net : ~q.late}}
  /\ Expire([k \in DOMAIN listed |-> [listed[k] EXCEPT !.age = @ + 1]])
  /\ LET slow == {p.secret[1] : p \in {q \in net : q.type = "announce"} \cup looking
                    \cup {queue[i] : i \in DOMAIN queue} \cup {pending[t] : t \in DOMAIN pending}}
         off == {r \in Relays : KeyOf[r] \in DOMAIN listed \ DOMAIN listed'}
     IN  /\ round' = [r \in Relays |-> IF r \in off THEN "done"
                        ELSE IF r \in slow /\ round[r] = "clean" THEN "hurt" ELSE round[r]]
         /\ lost' = [r \in Relays |-> IF r \in off THEN 0 ELSE lost[r]]
  /\ found' = Reachable
  /\ UNCHANGED <<up, run, dns, queue, looking, faults>>

Packet == \E p \in net : Details(p) \/ Hear(p) \/ Verify(p) \/ Lose(p)

Resolver == Take \/ Probe \/ NoSuchHost

Next ==
  \/ \E r \in Relays : Start(r) \/ Stop(r) \/ Announce(r)
  \/ Packet
  \/ Resolver
  \/ Restart \/ Tick
  \/ \E r \in Unsteady : Move(KeyOf[r])

Spec == Init /\ [][Next]_vars

\* Clocks, threads and loops go on.  Of announces, lookups, probes and
\* answers that are tried again and again some come through, in time.
FairSpec ==
  /\ Spec
  /\ WF_vars(Tick \/ \E r \in Relays : Announce(r)) /\ WF_vars(Resolver)
  /\ SF_vars(Fits /\ \E r \in Relays : Announce(r))
  /\ SF_vars(\E p \in net : Hear(p))
  /\ SF_vars(Probe)
  /\ SF_vars(\E p \in net : Details(p) /\ p.token \in DOMAIN pending)
  /\ SF_vars(\E p \in net : Verify(p) /\ p.token \in DOMAIN pending)

-----------------------------------------------------------------------------
(* Properties.                                                             *)

TypeOK ==
  /\ up \in [Relays -> BOOLEAN] /\ run \in [Relays -> 0 .. MaxFaults + 1]
  /\ since \in [Relays -> 0 .. Every]
  /\ dns \in [Keys -> Relays]
  /\ \A k \in DOMAIN listed : listed[k] \in [secret : Secrets, ip : Ips, age : 0 .. Ttl]
  /\ DOMAIN listed \subseteq Keys
  /\ \A t \in DOMAIN pending :
       pending[t] \in [key : Keys, ip : Ips, secret : Secrets, resolved : Relays]
  /\ Cardinality(DOMAIN pending) <= MaxProbes /\ Len(queue) <= MaxProbes
  /\ \A p \in looking \cup {queue[i] : i \in DOMAIN queue} :
       p \in [key : Keys, ip : Ips, secret : Secrets]
  /\ Cardinality(looking) <= 1 /\ Cardinality(net) <= MaxNet

\* "It sends a details query there and lists the relay only if the answer's
\* proof matches this secret" (browser_protocol.h): a run is listed only under
\* an address that led to it within the same tick, however packets, restarts
\* and changes of the address cross, and however long the lookup took.
ListedIsThere ==
  \A k \in DOMAIN listed : listed[k].age = 0 => <<k, listed[k].secret>> \in found

\* A relay that goes on running is dropped from the list only after three of
\* its announces in a row were lost on their way, in the lookup, as probes or
\* as answers: a full list does not cost it its place.  (An announce that finds
\* the queue full of others', or that the resolver does not come to in time
\* because of them, is one that was lost.)
StaysListed ==
  [][\A k \in DOMAIN listed \ DOMAIN listed' :
       LET r == listed[k].secret[1]
       IN  up[r] /\ listed[k].secret = Secret(r) /\ faults' = faults
           => lost[r] + (IF round[r] = "done" THEN 0 ELSE 1) >= 3]_vars

Alone(r) ==
  /\ up[r] /\ dns[KeyOf[r]] = r
  /\ \A q \in Relays \ {r} : ~up[q]

\* A relay that goes on running gets onto the list, time and again, however
\* full it was of relays that do not run any more.
GetsListed ==
  []<>(\A r \in Relays : Alone(r) => OnList(r))
=============================================================================
