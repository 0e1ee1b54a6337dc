------------------------------ MODULE NickGate ------------------------------
(***************************************************************************)
(* The relay's nick check (relay_server.cpp, "Nicks." in its header):      *)
(* challenges and proofs, the admissions they earn, the grace a new        *)
(* session has before its nick must be proved, kicks and bans, and the     *)
(* sweep that throws out who stayed without a proof.  A peer is here where *)
(* it registers from and the nick it registers; RelayPeers has the rest.   *)
(*                                                                         *)
(* Time is counted in ticks longer than the second between two sweeps, and *)
(* than the five seconds between two readings of server.toml: the relay    *)
(* sweeps at least once per tick, and again after what it read has         *)
(* changed.                                                                *)
(***************************************************************************)
EXTENDS Integers, FiniteSets

CONSTANTS
  Sessions,     \* the games, by session id
  Ips,          \* source addresses without their port
  Nicks,        \* normalized nicks
  None,         \* not a peer
  Admit,        \* kAdmitSec: how long a proof is good for
  Grace,        \* id_grace_sec
  GraceMemory,  \* kGraceMemoryMs: how long a grace is remembered
  KickTime,     \* how long a kick lasts
  Epoch,        \* kNonceEpochSec
  Minute,       \* the minute of grace_rate
  PerMinute,    \* kGraceSessionsPerIpPerMin
  MaxTime       \* bound: the clock

Peer == [ip : Ips, nick : Nicks]

ASSUME GateConstants ==
  /\ None \notin Peer
  /\ Admit \in Nat /\ Grace \in Nat /\ KickTime \in Nat /\ MaxTime \in Nat
  /\ GraceMemory \in Nat /\ Grace <= GraceMemory
  /\ Epoch \in Nat \ {0} /\ Minute \in Nat \ {0} /\ PerMinute \in Nat

VARIABLES
  now,          \* the clock; 0 stands for "no time" below
  swept,        \* the relay has swept since the last tick and reading
  enforce,      \* id_enforce: server.toml names a master's key
  peers,        \* [Sessions -> Peer or None]
  admitted,     \* [Ips \X Nicks -> Nat]: until when; 0 for no entry
  grace_start,  \* [Sessions -> Nat]: since when; 0 for no entry
  grace_rate,   \* [Ips -> [minute, count]]: graces asked for in a minute
  banned,       \* banned_ips
  kick_until,   \* [Ips -> Nat]: 0 for no entry
  nonces,       \* the challenges given out under this start's g_secret
  free          \* history: [Sessions -> Nat], the ticks a session ended as
                \* an unproved peer while its grace is remembered

gate == <<now, swept, enforce, peers, admitted, grace_start, grace_rate,
          banned, kick_until, nonces, free>>

TypeOK ==
  /\ now \in Nat \ {0} /\ swept \in BOOLEAN /\ enforce \in BOOLEAN
  /\ peers \in [Sessions -> Peer \cup {None}]
  /\ admitted \in [Ips \X Nicks -> Nat]
  /\ grace_start \in [Sessions -> Nat]
  /\ grace_rate \in [Ips -> [minute : Nat, count : Nat]]
  /\ banned \subseteq Ips
  /\ kick_until \in [Ips -> Nat]
  /\ nonces \subseteq [ip : Ips, epoch : Nat]
  /\ free \in [Sessions -> Nat]

Nobody  == [s \in Sessions |-> None]
Zero(S) == [x \in S |-> 0]
NoGraceAsked == [ip \in Ips |-> [minute |-> 0, count |-> 0]]

GateInit ==
  /\ now = 1 /\ swept = FALSE /\ enforce \in BOOLEAN
  /\ peers = Nobody
  /\ admitted = Zero(Ips \X Nicks)
  /\ grace_start = Zero(Sessions) /\ grace_rate = NoGraceAsked
  /\ banned = {} /\ kick_until = Zero(Ips)
  /\ nonces = {}
  /\ free = Zero(Sessions)

-----------------------------------------------------------------------------
\* ad->second >= now_ms
Admitted(ip, n) == admitted[<<ip, n>>] >= now

\* A session whose grace began at start still has some of it.
Running(start) == start # 0 /\ now - start < Grace

\* A datagram from ip gets past the bans and kicks; a kick that is over is
\* forgotten.
Dropped(ip) == ip \in banned \/ now < kick_until[ip]

Received(ip) ==
  /\ ~Dropped(ip)
  /\ kick_until' = [kick_until EXCEPT ![ip] = 0]

\* kHello: the challenge, a keyed hash of the ip and the epoch.  The relay
\* keeps nothing.
CurrentEpoch == now \div Epoch

Challenge(ip) ==
  /\ Received(ip)
  /\ nonces' = nonces \cup {[ip |-> ip, epoch |-> CurrentEpoch]}
  /\ UNCHANGED <<now, swept, enforce, peers, admitted, grace_start,
                 grace_rate, banned, free>>

\* Fault: the epoch of the nonce is not looked at.
Fresh_AnyEpoch(ip, e) == [ip |-> ip, epoch |-> e] \in nonces

\* kProof, with a good ticket for n, signed for this relay: admits n from ip
\* if the nonce is ip's of this epoch or the last.
Fresh(ip, e) ==
  /\ [ip |-> ip, epoch |-> e] \in nonces
  /\ e \in {CurrentEpoch, CurrentEpoch - 1}

Prove(ip, n, e) ==
  /\ Received(ip)
  /\ enforce
  /\ Fresh(ip, e)
  /\ admitted' = [admitted EXCEPT ![<<ip, n>>] = now + Admit]
  /\ UNCHANGED <<now, swept, enforce, peers, grace_start, grace_rate, banned,
                 nonces, free>>

\* The counter that limits how many sessions from ip may start a grace.
Asked(ip) ==
  LET minute == now \div Minute
      before == IF grace_rate[ip].minute = minute
                THEN grace_rate[ip].count ELSE 0
      \* Counted up to the first that is refused: more make no difference.
  IN  [minute |-> minute,
       count |-> IF before > PerMinute THEN before ELSE before + 1]

\* kRegister and kHeartbeat of s from ip under the nick n.  Who is refused
\* is a peer no longer.  identify takes the place of another game that used
\* the same ip and port.
Register(s, ip, n, replaced) ==
  LET asks   == enforce /\ ~Admitted(ip, n) /\ Grace > 0 /\ grace_start[s] = 0
      grants == asks /\ Asked(ip).count <= PerMinute
      start  == IF grants THEN now ELSE grace_start[s]
      in     == ~enforce \/ Admitted(ip, n) \/ Running(start)
      gone   == IF in THEN {t \in {replaced} \cap Sessions :
                              t # s /\ peers[t] # None /\ peers[t].ip = ip}
                ELSE {}
  IN  /\ Received(ip)
      /\ grace_rate' = IF asks THEN [grace_rate EXCEPT ![ip] = Asked(ip)]
                       ELSE grace_rate
      /\ grace_start' = [grace_start EXCEPT ![s] = start]
      /\ peers' = [t \in Sessions |->
                     IF t \in gone THEN None
                     ELSE IF t # s THEN peers[t]
                     ELSE IF in THEN [ip |-> ip, nick |-> n] ELSE None]
      /\ UNCHANGED <<now, swept, enforce, admitted, banned, nonces, free>>

\* Fault: the grace goes with the peer.
Leave_ForgetsGrace(s) ==
  /\ peers[s] # None
  /\ peers' = [peers EXCEPT ![s] = None]
  /\ grace_start' = [grace_start EXCEPT ![s] = 0]
  /\ UNCHANGED <<now, swept, enforce, admitted, grace_rate, banned,
                 kick_until, nonces, free>>

\* A peer leaves for another reason: it says so, or was silent for too long.
Leave(s) ==
  /\ peers[s] # None
  /\ peers' = [peers EXCEPT ![s] = None]
  /\ UNCHANGED <<now, swept, enforce, admitted, grace_start, grace_rate,
                 banned, kick_until, nonces, free>>

\* The panel's commands, taken from its queue by the relay's loop.
Without(ip) ==
  [s \in Sessions |-> IF peers[s] # None /\ peers[s].ip = ip
                      THEN None ELSE peers[s]]

\* Fault: only what comes from now on is dropped.
Kick_KeepsPeers(ip) ==
  /\ kick_until' = [kick_until EXCEPT ![ip] = now + KickTime]
  /\ UNCHANGED <<now, swept, enforce, peers, admitted, grace_start, grace_rate,
                 banned, nonces, free>>

Kick(ip) ==
  /\ kick_until' = [kick_until EXCEPT ![ip] = now + KickTime]
  /\ peers' = Without(ip)
  /\ UNCHANGED <<now, swept, enforce, admitted, grace_start, grace_rate,
                 banned, nonces, free>>

Ban(ip) ==
  /\ banned' = banned \cup {ip}
  /\ peers' = Without(ip)
  /\ UNCHANGED <<now, swept, enforce, admitted, grace_start, grace_rate,
                 kick_until, nonces, free>>

Unban(ip) ==
  /\ banned' = banned \ {ip}
  /\ kick_until' = [kick_until EXCEPT ![ip] = 0]
  /\ UNCHANGED <<now, swept, enforce, peers, admitted, grace_start,
                 grace_rate, nonces, free>>

\* The sweep: admissions that are over and graces of long ago are
\* forgotten; a peer with neither proof nor grace leaves.
Forgotten(s) == now - grace_start[s] > GraceMemory

Stays(s) ==
  \/ ~enforce
  \/ Admitted(peers[s].ip, peers[s].nick)
  \/ ~Forgotten(s) /\ Running(grace_start[s])

Sweep ==
  /\ swept' = TRUE
  /\ admitted' = [w \in Ips \X Nicks |->
                    IF admitted[w] < now THEN 0 ELSE admitted[w]]
  /\ grace_start' = [s \in Sessions |->
                       IF Forgotten(s) THEN 0 ELSE grace_start[s]]
  /\ peers' = [s \in Sessions |->
                 IF peers[s] # None /\ Stays(s) THEN peers[s] ELSE None]
  /\ free' = [s \in Sessions |->
                IF grace_start'[s] = 0 THEN 0 ELSE free[s]]
  /\ UNCHANGED <<now, enforce, grace_rate, banned, kick_until, nonces>>

\* The nick check is switched on or off in server.toml.
LoadIdentity ==
  /\ enforce' = ~enforce
  /\ swept' = FALSE
  /\ UNCHANGED <<now, peers, admitted, grace_start, grace_rate, banned,
                 kick_until, nonces, free>>

\* The relay dies and is started again: all of this was in memory, and the
\* challenges given out were under a secret that is gone.
Restart ==
  /\ swept' = FALSE
  /\ peers' = Nobody
  /\ admitted' = Zero(Ips \X Nicks)
  /\ grace_start' = Zero(Sessions) /\ grace_rate' = NoGraceAsked
  /\ banned' = {} /\ kick_until' = Zero(Ips)
  /\ nonces' = {}
  /\ free' = Zero(Sessions)
  /\ UNCHANGED <<now, enforce>>

Unproved(s) ==
  peers[s] # None /\ ~Admitted(peers[s].ip, peers[s].nick)

Tick ==
  /\ swept /\ now < MaxTime
  /\ now' = now + 1
  /\ swept' = FALSE
  /\ free' = [s \in Sessions |->
                IF enforce /\ Unproved(s) THEN free[s] + 1 ELSE free[s]]
  /\ UNCHANGED <<enforce, peers, admitted, grace_start, grace_rate, banned,
                 kick_until, nonces>>

GateNext ==
  \/ \E ip \in Ips : Challenge(ip) \/ Kick(ip) \/ Ban(ip) \/ Unban(ip)
  \/ \E x \in nonces, n \in Nicks : Prove(x.ip, n, x.epoch)
  \/ \E s \in Sessions, ip \in Ips, n \in Nicks, t \in Sessions :
       Register(s, ip, n, t)
  \/ \E s \in Sessions : Leave(s)
  \/ Sweep \/ LoadIdentity \/ Restart \/ Tick

GateSpec == GateInit /\ [][GateNext]_gate

-----------------------------------------------------------------------------
\* A kick and a ban hold: no packet that was on its way, no heartbeat, and
\* no game that comes from elsewhere makes a peer of an ip that is shut out.
KickHolds == \A s \in Sessions : peers[s] # None => ~Dropped(peers[s].ip)

\* A session that does not prove its nick plays for one grace, not more, as
\* long as that grace is remembered: leaving and coming back, changing its
\* address or its nick, being proved for a while, or the check being
\* switched off and on again gains it nothing.
OneGrace == \A s \in Sessions : free[s] <= Grace

\* An admission goes back to a challenge given to that very ip at most two
\* epochs before it was earned: a proof that arrives late or twice admits
\* nobody beyond that.
AdmissionsFresh ==
  \A ip \in Ips, n \in Nicks : admitted[<<ip, n>>] # 0 =>
    \E x \in nonces :
      /\ x.ip = ip
      /\ (x.epoch + 2) * Epoch > admitted[<<ip, n>>] - Admit

\* What a sweep leaves, and what the rest of the tick keeps: everybody here
\* is proved or in his grace.
SweptClean ==
  swept /\ enforce =>
    \A s \in Sessions : Unproved(s) => Running(grace_start[s])

\* The time a session was here unproved lies within its one grace.
FreeInGrace ==
  \A s \in Sessions :
    /\ grace_start[s] <= now
    /\ grace_start[s] = 0 => free[s] = 0
    /\ free[s] <= now - grace_start[s]
    /\ free[s] <= Grace
=============================================================================
