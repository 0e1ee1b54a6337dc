---------------------------- MODULE NickRegistry ----------------------------
(***************************************************************************)
(* The master server's nick registry                                       *)
(* (src/mc_engine/online/master_server/identity_registry.cpp): who owns a  *)
(* nick, the code that moves it to another key, and the tickets that let a *)
(* key play under it.  Requests are served one at a time under one mutex;  *)
(* what can go wrong is in between: the answer is lost, the database file  *)
(* cannot be written (Save only prints, or does not even notice), the      *)
(* master restarts, time passes.                                           *)
(*                                                                         *)
(* A request that changes nothing (a bad signature or code, a rate limit,  *)
(* "taken", "pending", "not_owner") is no step.                            *)
(***************************************************************************)
EXTENDS Integers, FiniteSets

CONSTANTS
  Nicks,       \* normalized nicks
  Keys,        \* the players' public keys, one per PC
  None,        \* no key, no record
  HoldTime,    \* transfer_hold_sec
  ExpireTime,  \* expire_sec
  TicketLife,  \* kTicketLifetimeSec
  SaveFaults,  \* what may happen to Save: a subset of {"lost", "short"}
  MaxTime, MaxCodes   \* bounds: the clock, the codes made for a nick

Record == [pub : Keys, last_seen : Nat, code : Nat,
           pending : Keys \cup {None}, until : Nat]
Ticket == [nick : Nicks, key : Keys, expires : Nat]

ASSUME RegistryConstants ==
  /\ None \notin Keys \cup Record
  /\ HoldTime \in Nat /\ ExpireTime \in Nat /\ TicketLife \in Nat \ {0}
  /\ TicketLife <= HoldTime /\ TicketLife <= ExpireTime
  /\ SaveFaults \subseteq {"lost", "short"}
  /\ MaxTime \in Nat /\ MaxCodes \in Nat

VARIABLES
  now,        \* the master's wall clock
  db,         \* [Nicks -> Record or None]
  disk,       \* identity_db.txt: what db was when it was last written
  codes,      \* [Nicks -> Nat]: how many recovery codes were made so far
  told,       \* [Nicks -> set of codes]: those that reached a player
  tickets,    \* the tickets out there that are not expired
  since,      \* history: [Nicks -> Nat], when the nick last changed hands
  before,     \* history: [Nicks -> Keys or None], the owner before this one
  cancelled   \* history: requests the owner was told he cancelled

history == <<since, before, cancelled>>
vars == <<now, db, disk, codes, told, tickets, history>>

\* A transfer is pending to somebody until some time, or to nobody and 0.
Database ==
  {d \in [Nicks -> Record \cup {None}] :
     \A n \in Nicks : d[n] # None => (d[n].pending = None <=> d[n].until = 0)}

TypeOK ==
  /\ now \in Nat \ {0}
  /\ db \in Database /\ disk \in Database
  /\ codes \in [Nicks -> Nat]
  /\ told \in [Nicks -> SUBSET Nat]
  /\ tickets \subseteq Ticket
  /\ since \in [Nicks -> Nat]
  /\ before \in [Nicks -> Keys \cup {None}]
  /\ cancelled \subseteq Nicks \X Keys

Init ==
  /\ now = 1
  /\ db = [n \in Nicks |-> None]
  /\ disk = db
  /\ codes = [n \in Nicks |-> 0]
  /\ told = [n \in Nicks |-> {}]
  /\ tickets = {}
  /\ since = [n \in Nicks |-> 0]
  /\ before = [n \in Nicks |-> None]
  /\ cancelled = {}

-----------------------------------------------------------------------------
Owned(n) == db[n] # None
Owns(n, k) == Owned(n) /\ db[n].pub = k

\* Fault: a nick expires a moment early.
Expired_Early(n) == now - db[n].last_seen >= ExpireTime

Expired(n) == now - db[n].last_seen > ExpireTime

\* Save: a failure to write or to rename is printed and forgotten; one to
\* write what is still in the stream's buffer when it is closed, after the
\* check, is not seen, and a file with the end missing becomes the database.
Save ==
  \/ disk' = db'
  \/ "lost" \in SaveFaults /\ UNCHANGED disk
  \/ /\ "short" \in SaveFaults
     /\ \E written \in SUBSET Nicks :
          disk' = [n \in Nicks |-> IF n \in written THEN db'[n] ELSE None]

\* n's record is now r, here and in the file.
Write(n, r) == db' = [db EXCEPT ![n] = r] /\ Save

\* IssueTicket, for an answer that is heard.
IssueTicket(n, k, heard) ==
  tickets' = IF heard
    THEN tickets \cup {[nick |-> n, key |-> k, expires |-> now + TicketLife]}
    ELSE tickets

\* NewRecoveryCode, sent with an answer that is heard; shown this once.
NewCode(n) == codes[n] + 1

MakeCode(n, heard) ==
  /\ codes[n] < MaxCodes
  /\ codes' = [codes EXCEPT ![n] = NewCode(n)]
  /\ told' = IF heard THEN [told EXCEPT ![n] = @ \cup {NewCode(n)}] ELSE told

\* n is now k's: a record as new, with a new code and nothing pending.
ChangesHands(n, k, heard) ==
  /\ MakeCode(n, heard)
  /\ Write(n, [pub |-> k, last_seen |-> now, code |-> NewCode(n),
               pending |-> None, until |-> 0])
  /\ IssueTicket(n, k, heard)
  /\ since' = [since EXCEPT ![n] = now]
  /\ before' = [before EXCEPT ![n] = IF Owned(n) THEN db[n].pub ELSE None]
  /\ cancelled' = cancelled \ {<<n, k>>}
  /\ UNCHANGED now

\* Claim of a nick that is free, or that its owner has not used for long.
ClaimFree(n, k, heard) ==
  /\ Owned(n) => Expired(n) /\ db[n].pub # k
  /\ ChangesHands(n, k, heard)

\* Fault: the owner's visit is not written down.
ClaimOwn_NoSave(n, k, heard) ==
  /\ Owns(n, k)
  /\ db' = [db EXCEPT ![n].last_seen = now]
  /\ IssueTicket(n, k, heard)
  /\ UNCHANGED <<now, disk, codes, told, history>>

\* Claim by the owner: a new ticket, and no other change.
ClaimOwn(n, k, heard) ==
  /\ Owns(n, k)
  /\ Write(n, [db[n] EXCEPT !.last_seen = now])
  /\ IssueTicket(n, k, heard)
  /\ UNCHANGED <<now, codes, told, history>>

\* Fault: the hold is not waited for.
ClaimMoves_AtOnce(n, k, heard) ==
  /\ Owned(n) /\ ~Expired(n)
  /\ db[n].pub # k /\ db[n].pending = k
  /\ ChangesHands(n, k, heard)

\* Claim by the key a transfer is pending to, once the hold is over.
ClaimMoves(n, k, heard) ==
  /\ Owned(n) /\ ~Expired(n)
  /\ db[n].pub # k /\ db[n].pending = k /\ now >= db[n].until
  /\ ChangesHands(n, k, heard)

\* Recover: someone who was told the code types it on a PC with another key.
\* A later request takes the place of an earlier one and starts the hold over.
Recover(n, k) ==
  /\ Owned(n) /\ db[n].pub # k
  /\ db[n].code \in told[n]
  /\ Write(n, [db[n] EXCEPT !.pending = k, !.until = now + HoldTime])
  /\ cancelled' = cancelled \ {<<n, k>>}
  /\ UNCHANGED <<now, codes, told, tickets, since, before>>

\* Fault: the key a transfer was pending to is left in the record.
Cancel_KeepsKey(n, k, heard) ==
  /\ Owns(n, k) /\ db[n].until # 0
  /\ MakeCode(n, heard)
  /\ Write(n, [db[n] EXCEPT !.until = 0, !.last_seen = now, !.code = NewCode(n)])
  /\ cancelled' = IF heard THEN cancelled \cup {<<n, db[n].pending>>} ELSE cancelled
  /\ UNCHANGED <<now, tickets, since, before>>

\* Cancel, by the owner: whoever asked had the code, so there is a new one.
Cancel(n, k, heard) ==
  /\ Owns(n, k) /\ db[n].until # 0
  /\ MakeCode(n, heard)
  /\ Write(n, [db[n] EXCEPT !.pending = None, !.until = 0,
                            !.last_seen = now, !.code = NewCode(n)])
  /\ cancelled' = IF heard THEN cancelled \cup {<<n, db[n].pending>>} ELSE cancelled
  /\ UNCHANGED <<now, tickets, since, before>>

\* The master dies, between two requests or before it answered one, and Open
\* reads the database back.
Restart ==
  /\ db' = disk
  /\ UNCHANGED <<now, disk, codes, told, tickets, history>>

Tick ==
  /\ now < MaxTime
  /\ now' = now + 1
  /\ tickets' = {t \in tickets : t.expires > now'}
  /\ UNCHANGED <<db, disk, codes, told, history>>

Request(n, k, heard) ==
  \/ ClaimFree(n, k, heard)
  \/ ClaimOwn(n, k, heard)
  \/ ClaimMoves(n, k, heard)
  \/ Cancel(n, k, heard)

Next ==
  \/ \E n \in Nicks, k \in Keys, heard \in BOOLEAN : Request(n, k, heard)
  \/ \E n \in Nicks, k \in Keys : Recover(n, k)
  \/ Restart
  \/ Tick

Spec == Init /\ [][Next]_vars

-----------------------------------------------------------------------------
\* What was answered is on disk: a restart, at any moment, loses nothing.
Durable == disk = db

\* Whoever can still prove a nick to a relay is its owner or was until less
\* than a ticket's life ago: never a third key, however nicks move, expire
\* and are claimed (kTicketLifetimeSec against transfer_hold_sec, expire_sec).
TicketHolders ==
  \A t \in tickets :
    \/ Owns(t.nick, t.key)
    \/ t.key = before[t.nick] /\ t.expires <= since[t.nick] + TicketLife

\* A request the owner was told he cancelled does not bring the nick to who
\* made it: he must ask again with the new code ("It moves to you on ...,
\* unless its current owner cancels", identity_ui.cpp).
CancelHolds ==
  [][\A n \in Nicks, k \in Keys :
       Owned(n) /\ ~Expired(n) /\ ~Owns(n, k) /\ Owns(n, k)' =>
         <<n, k>> \notin cancelled]_vars

\* A nick whose player was told that it is his, with the code to recover it by,
\* stays somebody's ("a nick changes hands only by its recovery code ... or by
\* sitting unused past the expiry", identity_registry.h).
NicksStay ==
  [][\A n \in Nicks : Owned(n) /\ db[n].code \in told[n] => Owned(n)']_vars

\* The registry, with its file, its restarts and its lost answers, lets nicks
\* change hands only as NickOwnership does.
Ownership == INSTANCE NickOwnership WITH
  clock <- now,
  owner <- [n \in Nicks |-> IF Owned(n) THEN db[n].pub ELSE None],
  seen  <- [n \in Nicks |-> IF Owned(n) THEN db[n].last_seen ELSE 0],
  asker <- [n \in Nicks |-> IF Owned(n) THEN db[n].pending ELSE None],
  asked <- [n \in Nicks |-> IF Owned(n) /\ db[n].until # 0
                              THEN db[n].until - HoldTime ELSE 0]

ImplementsNickOwnership == Ownership!Spec
=============================================================================
