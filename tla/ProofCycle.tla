----------------------------- MODULE ProofCycle -----------------------------
(***************************************************************************)
(* The nick check as it is used: the relay of NickGate, and games with the *)
(* identity client (identity_client.cpp) that keeps proving the player's   *)
(* nick, a pass at a time, so that the relay goes on admitting it.  The    *)
(* game's heartbeats go out from another socket whenever they like; the    *)
(* relay pairs the two by ip and nick.                                     *)
(*                                                                         *)
(* A pass is a challenge asked for, a ticket from the cache or the master, *)
(* and a proof; each part may fail, which ends the pass, and the outcome   *)
(* says how long until the next.  The client's thread is taken to be on    *)
(* time: a pass begins in the tick in which it is due, and ends within     *)
(* PassTime ticks.                                                         *)
(***************************************************************************)
EXTENDS NickGate

CONSTANTS
  Players,      \* the sessions whose game proves its nick
  NickOf,       \* [Sessions -> Nicks]
  HomeOf,       \* [Sessions -> Ips]: where a game is at first
  Retry,        \* the wait after a pass that got no answer: 20 s to 120 s
  LongWait,     \* the wait after a refusal that a player must see to: 600 s
  PassTime,     \* how long a pass takes at most
  MaxFails,     \* passes that may fail in a row for the admission to hold
  Events,       \* what may happen besides: a subset of {"move", "command",
                \* "restart", "identity"}
  MaxEvents     \* bound: how often

\* The wait after a proof that was accepted, half of what it is good for;
\* also the wait when the relay says that it does not check.
NextProof == Admit \div 2

Challenges == [ip : Ips, epoch : Nat]

ASSUME CycleConstants ==
  /\ Players \subseteq Sessions
  /\ NickOf \in [Sessions -> Nicks] /\ HomeOf \in [Sessions -> Ips]
  /\ None \notin Challenges
  /\ PassTime \in Nat /\ Retry \in Nat /\ LongWait \in Nat
  /\ PassTime <= Retry /\ Retry <= LongWait /\ PassTime <= NextProof
  /\ MaxFails \in Nat /\ MaxEvents \in Nat
  /\ Events \subseteq {"move", "command", "restart", "identity"}
  \* What half of an admission leaves for passes that fail.
  /\ NextProof + PassTime + MaxFails * (Retry + PassTime) <= Admit

VARIABLES
  at,        \* [Sessions -> Ips]: where a game's packets come from
  held,      \* [Players -> the challenge of the pass under way, or None]
  began,     \* [Players -> Nat]: when that pass began; 0 for none
  next,      \* [Players -> Nat]: when the next is due
  check,     \* [Players -> Status::check]: what the player is shown
  fails,     \* history: [Players -> Nat], passes failed since the last proof
  settled,   \* history: the players that proved their nick and whom nothing
             \* but a few failed passes has befallen since
  events     \* the bounded events so far

client == <<held, began, next, check, fails>>
vars == <<gate, at, client, settled, events>>

Checks == {"working", "verified", "unchecked", "failed"}

ClientTypeOK ==
  /\ at \in [Sessions -> Ips]
  /\ held \in [Players -> Challenges \cup {None}]
  /\ began \in [Players -> Nat] /\ next \in [Players -> Nat]
  /\ check \in [Players -> Checks]
  /\ fails \in [Players -> Nat]
  /\ settled \subseteq Players
  /\ events \in Nat

CycleTypeOK == TypeOK /\ ClientTypeOK

Init ==
  /\ GateInit
  /\ at = HomeOf
  /\ held = [p \in Players |-> None]
  /\ began = [p \in Players |-> 0] /\ next = [p \in Players |-> now]
  /\ check = [p \in Players |-> "working"]
  /\ fails = [p \in Players |-> 0]
  /\ settled = {}
  /\ events = 0

-----------------------------------------------------------------------------
Idle(p) == held[p] = None
Due(p) == Idle(p) /\ next[p] <= now

\* Fault: the wait is taken off the time of the pass.
PassEnds_Back(p, start, c, d) ==
  /\ held' = [held EXCEPT ![p] = None]
  /\ check' = [check EXCEPT ![p] = c]
  /\ next' = [next EXCEPT ![p] = start - d]
  /\ began' = [began EXCEPT ![p] = 0]

\* The pass p began at start is over with the outcome c, and the next is due
\* after the wait d.  Worker adds the wait to a clock it may read before the
\* pass or after it: C++ leaves the order open.
PassEnds(p, start, c, d) ==
  /\ held' = [held EXCEPT ![p] = None]
  /\ check' = [check EXCEPT ![p] = c]
  /\ \E read \in {start, now} : next' = [next EXCEPT ![p] = read + d]
  /\ began' = [began EXCEPT ![p] = 0]

Fails(p, start, d) ==
  /\ PassEnds(p, start, "failed", d)
  /\ fails' = [fails EXCEPT ![p] = IF @ > MaxFails THEN @ ELSE @ + 1]
  /\ settled' = IF d <= Retry /\ fails[p] < MaxFails THEN settled
                                                     ELSE settled \ {p}

\* No answer to the kHello, or the relay's name cannot be resolved.
HelloUnanswered(p) ==
  /\ Due(p)
  /\ Fails(p, now, Retry)
  /\ UNCHANGED <<gate, at, events>>

\* The answer is a challenge; or that this relay does not check nicks.
HelloAnswered(p) ==
  /\ Due(p)
  /\ Challenge(at[p])
  /\ IF enforce
     THEN /\ held' = [held EXCEPT ![p] = [ip |-> at[p], epoch |-> CurrentEpoch]]
          /\ began' = [began EXCEPT ![p] = now]
          /\ check' = [check EXCEPT ![p] = "working"]
          /\ UNCHANGED <<next, fails, settled>>
     ELSE /\ PassEnds(p, now, "unchecked", NextProof)
          /\ UNCHANGED <<fails, settled>>
  /\ UNCHANGED <<at, events>>

\* No ticket: the master is down, or says that the nick is another's.
NoTicket(p) ==
  /\ ~Idle(p)
  /\ \E d \in {Retry, LongWait} : Fails(p, began[p], d)
  /\ UNCHANGED <<gate, at, events>>

\* The relay takes a proof only under the ip its challenge was for.
Shows(p) == held[p].ip = at[p] /\ Prove(at[p], NickOf[p], held[p].epoch)

\* Fault: the next pass is due when the admission ends, not half-way.
ProofAccepted_Late(p) ==
  /\ ~Idle(p)
  /\ Shows(p)
  /\ PassEnds(p, began[p], "verified", Admit)
  /\ fails' = [fails EXCEPT ![p] = 0]
  /\ settled' = settled \cup {p}
  /\ UNCHANGED <<at, events>>

ProofAccepted(p) ==
  /\ ~Idle(p)
  /\ Shows(p)
  /\ PassEnds(p, began[p], "verified", NextProof)
  /\ fails' = [fails EXCEPT ![p] = 0]
  /\ settled' = settled \cup {p}
  /\ UNCHANGED <<at, events>>

\* The proof is lost or refused (for longer when the relay goes by another
\* name), or only its answer is lost.
ProofUnanswered(p) ==
  /\ ~Idle(p)
  /\ Shows(p) \/ UNCHANGED gate
  /\ \E d \in {Retry, LongWait} : Fails(p, began[p], d)
  /\ UNCHANGED <<at, events>>

\* The player presses the button, types a code or is back online; or the wait
\* was one of those shorter than Retry or LongWait.
CheckNow(p) ==
  /\ Idle(p) /\ now < next[p]
  /\ next' = [next EXCEPT ![p] = now]
  /\ UNCHANGED <<gate, at, held, began, check, fails, settled, events>>

\* A proof of p's that was held up, or sent again, arrives.
LateProof(p, x) ==
  /\ Prove(x.ip, NickOf[p], x.epoch)
  /\ UNCHANGED <<at, client, settled, events>>

\* The game's heartbeat, from where it is.
Heartbeat(s, replaced) ==
  /\ Register(s, at[s], NickOf[s], replaced)
  /\ UNCHANGED <<at, client, settled, events>>

Exit(s) == Leave(s) /\ UNCHANGED <<at, client, settled, events>>

Sweeps == Sweep /\ UNCHANGED <<at, client, settled, events>>

Event(e) == e \in Events /\ events < MaxEvents /\ events' = events + 1

\* The game's packets come from another address: a NAT, a VPN, a new lease.
Moves(s, ip) ==
  /\ Event("move")
  /\ at[s] # ip
  /\ at' = [at EXCEPT ![s] = ip]
  /\ settled' = settled \ {s}
  /\ UNCHANGED <<gate, client>>

Command(ip) ==
  /\ Event("command")
  /\ Kick(ip) \/ Ban(ip) \/ Unban(ip)
  /\ UNCHANGED <<at, client, settled>>

\* Neither a restart of the relay nor a change of its server.toml is
\* announced to the clients.
Restarts ==
  /\ Event("restart")
  /\ Restart
  /\ settled' = {}
  /\ UNCHANGED <<at, client>>

Changes ==
  /\ Event("identity")
  /\ LoadIdentity
  /\ settled' = {}
  /\ UNCHANGED <<at, client>>

\* Time passes, though not past what a client does on time.
OnTime(p) == IF Idle(p) THEN now < next[p] ELSE now < began[p] + PassTime

Time ==
  /\ \A p \in Players : OnTime(p)
  /\ Tick
  /\ UNCHANGED <<at, client, settled, events>>

Pass(p) ==
  \/ HelloUnanswered(p) \/ HelloAnswered(p) \/ NoTicket(p)
  \/ ProofAccepted(p) \/ ProofUnanswered(p) \/ CheckNow(p)

Next ==
  \/ \E p \in Players : Pass(p)
  \/ \E p \in Players, x \in nonces : LateProof(p, x)
  \/ \E s, t \in Sessions : Heartbeat(s, t)
  \/ \E s \in Sessions : Exit(s)
  \/ Sweeps
  \/ \E s \in Sessions, ip \in Ips : Moves(s, ip)
  \/ \E ip \in Ips : Command(ip)
  \/ Restarts \/ Changes
  \/ Time

Spec == Init /\ [][Next]_vars

-----------------------------------------------------------------------------
In(p) == Admitted(at[p], NickOf[p])

\* A player who proved his nick stays admitted, though passes fail, answers
\* and proofs are lost, challenges grow old under way and his address is
\* kicked, as long as no more than MaxFails passes fail in a row and he
\* stays where he is on a relay that stays up: the waits of Cycle add up to
\* less than what a proof is good for.
ProvedStaysIn == \A p \in settled : In(p)

\* The game of a player who is shown as verified is not refused: "Relay
\* restart or a long outage: the client keeps heartbeating with the vip it
\* already has, and the relay adopts it back" (relay_server.cpp).
VerifiedIsTaken ==
  enforce => \A p \in Players : check[p] = "verified" =>
    In(p) \/ grace_start[p] = 0 \/ Running(grace_start[p])

\* Behind ProvedStaysIn.  Passes begin and end on time; an admission is for
\* no longer than Admit from now; and that of a settled player lasts until
\* the end of the last pass that he may need.
OnSchedule ==
  \A p \in Players :
    /\ began[p] <= now
    /\ now <= IF Idle(p) THEN next[p] ELSE began[p] + PassTime

NotAhead ==
  \A ip \in Ips, n \in Nicks : admitted[<<ip, n>>] <= now + Admit

Start(p) == IF Idle(p) THEN next[p] ELSE began[p]

Reserve(p) == PassTime + (MaxFails - fails[p]) * (Retry + PassTime)

Covered ==
  \A p \in settled :
    /\ enforce
    /\ fails[p] <= MaxFails
    /\ Start(p) + Reserve(p) <= admitted[<<at[p], NickOf[p]>>]

SettledInv == OnSchedule /\ NotAhead /\ Covered
=============================================================================
