------------------------ MODULE NickRegistryProofs --------------------------
(***************************************************************************)
(* The nick registry for any nicks, keys and times.  What it promises of   *)
(* owners and tickets rests on how its clocks are ordered: a ticket lives  *)
(* no longer than a transfer is held, nor than a nick takes to expire      *)
(* (RegistryConstants), and on a database that is written whenever it      *)
(* changes (SaveFaults = {}).                                              *)
(***************************************************************************)
EXTENDS NickRegistry, TLAPS

LEMMA RecordOf ==
  ASSUME TypeOK, NEW n \in Nicks, Owned(n)
  PROVE  /\ db[n] \in Record
         /\ db[n].pending = None <=> db[n].until = 0
BY DEF TypeOK, Database, Owned

LEMMA SaveTyped ==
  ASSUME TypeOK, db' \in Database, Save
  PROVE  disk' \in Database
BY DEF TypeOK, Save, Database

\* What a request writes is a database again.
LEMMA WriteTyped ==
  ASSUME TypeOK, NEW n \in Nicks, NEW r \in Record, r.pending = None <=> r.until = 0,
         Write(n, r)
  PROVE  db' \in Database /\ disk' \in Database
<1>1. db' \in Database
  BY DEF Write, TypeOK, Database
<1> QED
  BY <1>1, SaveTyped DEF Write

LEMMA TicketTyped ==
  ASSUME TypeOK, NEW n \in Nicks, NEW k \in Keys, NEW heard \in BOOLEAN, IssueTicket(n, k, heard)
  PROVE  tickets' \subseteq Ticket
<1>1. now + TicketLife \in Nat
  BY RegistryConstants DEF TypeOK
<1> QED
  BY <1>1 DEF TypeOK, IssueTicket, Ticket

LEMMA CodeTyped ==
  ASSUME TypeOK, NEW n \in Nicks, NEW heard \in BOOLEAN, MakeCode(n, heard)
  PROVE  /\ codes' \in [Nicks -> Nat]
         /\ told' \in [Nicks -> SUBSET Nat]
         /\ NewCode(n) \in Nat
BY DEF TypeOK, MakeCode, NewCode

\* What ChangesHands does to the database, and that it is typed.
LEMMA HandsTyped ==
  ASSUME TypeOK, NEW n \in Nicks, NEW k \in Keys, NEW heard \in BOOLEAN,
         ChangesHands(n, k, heard)
  PROVE  TypeOK'
<1> DEFINE r == [pub |-> k, last_seen |-> now, code |-> NewCode(n), pending |-> None, until |-> 0]
<1>1. /\ codes' \in [Nicks -> Nat]
      /\ told' \in [Nicks -> SUBSET Nat]
      /\ NewCode(n) \in Nat
  BY CodeTyped DEF ChangesHands
<1>2. r \in Record /\ r.pending = None /\ r.until = 0
  BY <1>1 DEF Record, TypeOK
<1>3. db' \in Database /\ disk' \in Database
  BY <1>2, WriteTyped DEF ChangesHands
<1>5. tickets' \subseteq Ticket
  BY TicketTyped DEF ChangesHands
<1>6. since' \in [Nicks -> Nat] /\ cancelled' \subseteq Nicks \X Keys /\ now' \in Nat \ {0}
  BY DEF ChangesHands, TypeOK
<1>7. before' \in [Nicks -> Keys \cup {None}]
  <2>1. Owned(n) => db[n].pub \in Keys
    BY RecordOf DEF Record
  <2> QED
    BY <2>1 DEF ChangesHands, TypeOK
<1> QED
  BY <1>1, <1>3, <1>5, <1>6, <1>7 DEF TypeOK

\* The registry's records, file, codes and tickets keep their types, whatever
\* becomes of the writes; a transfer is pending to somebody until some time or
\* to nobody at all.
THEOREM NickTypeCorrect == Spec => []TypeOK
<1>1. Init => TypeOK
  BY DEF Init, TypeOK, Database
<1>2. TypeOK /\ [Next]_vars => TypeOK'
  <2> SUFFICES ASSUME TypeOK, [Next]_vars PROVE TypeOK'
    OBVIOUS
  <2>1. ASSUME NEW n \in Nicks, NEW k \in Keys, NEW heard \in BOOLEAN, ClaimFree(n, k, heard)
        PROVE  TypeOK'
    BY <2>1, HandsTyped DEF ClaimFree
  <2>2. ASSUME NEW n \in Nicks, NEW k \in Keys, NEW heard \in BOOLEAN, ClaimMoves(n, k, heard)
        PROVE  TypeOK'
    BY <2>2, HandsTyped DEF ClaimMoves
  <2>3. ASSUME NEW n \in Nicks, NEW k \in Keys, NEW heard \in BOOLEAN, ClaimOwn(n, k, heard)
        PROVE  TypeOK'
    <3> DEFINE r == [db[n] EXCEPT !.last_seen = now]
    <3>1. r \in Record /\ (r.pending = None <=> r.until = 0)
      BY <2>3, RecordOf DEF ClaimOwn, Owns, Record, TypeOK
    <3>2. db' \in Database /\ disk' \in Database
      BY <2>3, <3>1, WriteTyped DEF ClaimOwn
    <3>4. tickets' \subseteq Ticket
      BY <2>3, TicketTyped DEF ClaimOwn
    <3> QED
      BY <2>3, <3>2, <3>4 DEF ClaimOwn, TypeOK, history
  <2>4. ASSUME NEW n \in Nicks, NEW k \in Keys, NEW heard \in BOOLEAN, Cancel(n, k, heard)
        PROVE  TypeOK'
    <3> DEFINE r == [db[n] EXCEPT !.pending = None, !.until = 0,
                                  !.last_seen = now, !.code = NewCode(n)]
    <3>1. /\ codes' \in [Nicks -> Nat]
          /\ told' \in [Nicks -> SUBSET Nat]
          /\ NewCode(n) \in Nat
      BY <2>4, CodeTyped DEF Cancel
    <3>2. db[n] \in Record /\ db[n].pending \in Keys
      BY <2>4, RecordOf DEF Cancel, Owns, Record
    <3>3. r \in Record /\ r.pending = None /\ r.until = 0
      BY <3>1, <3>2 DEF Record, TypeOK
    <3>4. db' \in Database /\ disk' \in Database
      BY <2>4, <3>3, WriteTyped DEF Cancel
    <3>6. cancelled' \subseteq Nicks \X Keys
      BY <2>4, <3>2 DEF Cancel, TypeOK
    <3> QED
      BY <2>4, <3>1, <3>4, <3>6 DEF Cancel, TypeOK
  <2>5. ASSUME NEW n \in Nicks, NEW k \in Keys, Recover(n, k)
        PROVE  TypeOK'
    <3> DEFINE r == [db[n] EXCEPT !.pending = k, !.until = now + HoldTime]
    <3>1. k # None /\ now + HoldTime \in Nat \ {0}
      BY RegistryConstants DEF TypeOK
    <3>2. r \in Record /\ r.pending # None /\ r.until # 0
      BY <2>5, <3>1, RecordOf DEF Recover, Record
    <3>3. db' \in Database /\ disk' \in Database
      BY <2>5, <3>2, WriteTyped DEF Recover
    <3> QED
      BY <2>5, <3>3 DEF Recover, TypeOK
  <2>6. CASE Restart
    BY <2>6 DEF Restart, TypeOK, history
  <2>7. CASE Tick
    BY <2>7 DEF Tick, TypeOK, history
  <2>8. CASE UNCHANGED vars
    BY <2>8 DEF vars, history, TypeOK
  <2> QED
    BY <2>1, <2>2, <2>3, <2>4, <2>5, <2>6, <2>7, <2>8 DEF Next, Request
<1> QED
  BY <1>1, <1>2, PTL DEF Spec


-----------------------------------------------------------------------------
\* If the file can be written, what a request was answered with is in it: a
\* restart at any moment, between any two requests, loses nothing.
THEOREM NothingIsLost ==
  ASSUME SaveFaults = {}
  PROVE  Spec => []Durable
<1>1. Init => Durable
  BY DEF Init, Durable
<1>2. Durable /\ [Next]_vars => Durable'
  BY DEF Durable, Next, Request, ClaimFree, ClaimOwn, ClaimMoves, Recover, Cancel,
         Restart, Tick, ChangesHands, Write, Save, vars, history
<1> QED
  BY <1>1, <1>2, PTL DEF Spec

-----------------------------------------------------------------------------
\* Nobody was seen, and no nick changed hands, in the future; a transfer is
\* pending for at least the hold, counted from when its victim got the nick.
ClocksOrdered ==
  \A n \in Nicks : Owned(n) =>
    /\ since[n] <= db[n].last_seen
    /\ db[n].last_seen <= now
    /\ db[n].until # 0 => since[n] + HoldTime <= db[n].until

\* A ticket that still lives is of a nick that is registered, and was issued
\* no later than its holder was last seen.
TicketsDated ==
  \A t \in tickets :
    /\ Owned(t.nick)
    /\ now < t.expires
    /\ Owns(t.nick, t.key) => t.expires <= db[t.nick].last_seen + TicketLife

TicketInv == TypeOK /\ Durable /\ ClocksOrdered /\ TicketsDated /\ TicketHolders

\* When a nick is free, expired or due to move, no ticket of an earlier owner
\* is left: that is what the lifetimes are for.
LEMMA OldTicketsGone ==
  ASSUME TicketInv, NEW t \in tickets,
         ~Owned(t.nick) \/ Expired(t.nick) \/ (db[t.nick].until # 0 /\ now >= db[t.nick].until)
  PROVE  /\ Owns(t.nick, t.key)
         /\ ~Expired(t.nick)
<1> DEFINE n == t.nick
<1>1. t \in Ticket /\ n \in Nicks /\ t.expires \in Nat
  BY DEF TicketInv, TypeOK, Ticket
<1>2. Owned(n) /\ now < t.expires
  BY DEF TicketInv, TicketsDated
<1>3. db[n] \in Record
  BY <1>1, <1>2, RecordOf DEF TicketInv
<1>4. /\ now \in Nat /\ since[n] \in Nat /\ db[n].last_seen \in Nat /\ db[n].until \in Nat
      /\ HoldTime \in Nat /\ ExpireTime \in Nat /\ TicketLife \in Nat
      /\ TicketLife <= HoldTime /\ TicketLife <= ExpireTime
  BY <1>1, <1>3, RegistryConstants DEF TicketInv, TypeOK, Record
<1>5. /\ since[n] <= db[n].last_seen
      /\ db[n].until # 0 => since[n] + HoldTime <= db[n].until
  BY <1>1, <1>2 DEF TicketInv, ClocksOrdered
<1>6. Owns(n, t.key)
  <2> SUFFICES ASSUME ~Owns(n, t.key) PROVE FALSE
    OBVIOUS
  <2>1. t.expires <= since[n] + TicketLife
    BY DEF TicketInv, TicketHolders
  <2>2. CASE Expired(n)
    BY <2>1, <2>2, <1>1, <1>2, <1>4, <1>5 DEF Expired
  <2>3. CASE db[n].until # 0 /\ now >= db[n].until
    BY <2>1, <2>3, <1>1, <1>2, <1>4, <1>5
  <2> QED
    BY <2>2, <2>3, <1>2
<1>7. t.expires <= db[n].last_seen + TicketLife
  BY <1>6 DEF TicketInv, TicketsDated
<1>8. ~Expired(n)
  BY <1>1, <1>2, <1>4, <1>7 DEF Expired
<1> QED
  BY <1>6, <1>8

\* What a change of hands leaves, seen field by field.
LEMMA HandsChanged ==
  ASSUME TypeOK, NEW n \in Nicks, NEW k \in Keys, NEW heard \in BOOLEAN,
         ChangesHands(n, k, heard)
  PROVE  /\ Owned(n)' /\ Owns(n, k)' /\ ~(\E j \in Keys \ {k} : Owns(n, j)')
         /\ db'[n].last_seen = now /\ db'[n].until = 0 /\ db'[n].pending = None
         /\ since'[n] = now
         /\ before'[n] = IF Owned(n) THEN db[n].pub ELSE None
         /\ \A m \in Nicks \ {n} :
              db'[m] = db[m] /\ since'[m] = since[m] /\ before'[m] = before[m]
         /\ now' = now
<1> DEFINE r == [pub |-> k, last_seen |-> now, code |-> NewCode(n), pending |-> None, until |-> 0]
<1>1. r \in Record
  BY DEF Record, TypeOK, NewCode
<1>2. r # None
  BY <1>1, RegistryConstants
<1>3. db'[n] = r /\ \A m \in Nicks \ {n} : db'[m] = db[m]
  BY DEF ChangesHands, Write, TypeOK, Database
<1>4. Owned(n)' /\ db'[n].pub = k
  BY <1>2, <1>3 DEF Owned
<1> QED
  BY <1>3, <1>4 DEF ChangesHands, TypeOK, Owns

\* An answered request adds at most one ticket, for who was answered.
LEMMA NewTicket ==
  ASSUME NEW n, NEW k, NEW heard, IssueTicket(n, k, heard), NEW t \in tickets'
  PROVE  t \in tickets \/ (t.nick = n /\ t.key = k /\ t.expires = now + TicketLife)
BY DEF IssueTicket

\* The nick goes to k, in either way.
LEMMA HandsKeepTickets ==
  ASSUME TicketInv, NEW n \in Nicks, NEW k \in Keys, NEW heard \in BOOLEAN,
         ChangesHands(n, k, heard), TypeOK',
         \/ Owned(n) => Expired(n)
         \/ Owned(n) /\ db[n].pub # k /\ db[n].until # 0 /\ now >= db[n].until
  PROVE  ClocksOrdered' /\ TicketsDated' /\ TicketHolders'
<1>1. TypeOK /\ ClocksOrdered /\ TicketsDated /\ TicketHolders
  BY DEF TicketInv
<1>2. /\ Owned(n)' /\ Owns(n, k)' /\ ~(\E j \in Keys \ {k} : Owns(n, j)')
      /\ db'[n].last_seen = now /\ db'[n].until = 0
      /\ since'[n] = now
      /\ before'[n] = IF Owned(n) THEN db[n].pub ELSE None
      /\ \A m \in Nicks \ {n} :
           db'[m] = db[m] /\ since'[m] = since[m] /\ before'[m] = before[m]
      /\ now' = now
  BY <1>1, HandsChanged
<1>3. now \in Nat /\ TicketLife \in Nat \ {0}
  BY <1>1, RegistryConstants DEF TypeOK
<1>4. ClocksOrdered'
  BY <1>1, <1>2, <1>3 DEF ClocksOrdered, Owned
<1>5. ASSUME NEW t \in tickets'
      PROVE  /\ Owned(t.nick)' /\ now' < t.expires
             /\ Owns(t.nick, t.key)' => t.expires <= db'[t.nick].last_seen + TicketLife
             /\ \/ Owns(t.nick, t.key)'
                \/ t.key = before'[t.nick] /\ t.expires <= since'[t.nick] + TicketLife
  <2>1. CASE t.nick = n /\ t.key = k /\ t.expires = now + TicketLife
    BY <2>1, <1>2, <1>3
  <2>2. CASE t \in tickets /\ t.nick # n
    <3>1. t.nick \in Nicks \ {n}
      BY <2>2, <1>1 DEF TypeOK, Ticket
    <3> QED
      BY <3>1, <2>2, <1>1, <1>2 DEF TicketsDated, TicketHolders, Owned, Owns
  <2>3. CASE t \in tickets /\ t.nick = n
    <3>1. Owns(n, t.key) /\ ~Expired(n)
      BY <2>3, OldTicketsGone
    <3>2. db[n].pub = t.key /\ Owned(n) /\ t.key # k
      BY <3>1 DEF Owns
    <3>3. t.key = before'[n] /\ t.key \in Keys \ {k}
      BY <1>1, <1>2, <2>3, <3>2 DEF TypeOK, Ticket
    <3>4. now < t.expires /\ t.expires <= db[n].last_seen + TicketLife
      BY <1>1, <2>3, <3>1 DEF TicketsDated
    <3>5. db[n].last_seen <= now /\ db[n].last_seen \in Nat /\ t.expires \in Nat
      BY <1>1, <2>3, <3>2, RecordOf DEF ClocksOrdered, Record, TypeOK, Ticket
    <3>6. t.expires <= now + TicketLife
      BY <3>4, <3>5, <1>3
    <3> QED
      BY <3>3, <3>4, <3>6, <2>3, <1>2
  <2> QED
    BY <2>1, <2>2, <2>3, NewTicket DEF ChangesHands
<1>6. TicketsDated' /\ TicketHolders'
  BY <1>5 DEF TicketsDated, TicketHolders
<1> QED
  BY <1>4, <1>6

\* A record is written over with one of the same owner, seen now or as before.
LEMMA OwnerKeepsTickets ==
  ASSUME TicketInv, NEW n \in Nicks, NEW r \in Record, Owned(n), Write(n, r),
         r.pub = db[n].pub, db[n].last_seen <= r.last_seen, r.last_seen <= now,
         r.until # 0 => since[n] + HoldTime <= r.until,
         since' = since, before' = before, now' = now,
         \A t \in tickets' :
           \/ t \in tickets
           \/ /\ t.nick = n /\ t.key = r.pub /\ t.expires = now + TicketLife
              /\ r.last_seen = now
  PROVE  ClocksOrdered' /\ TicketsDated' /\ TicketHolders'
<1>1. TypeOK /\ ClocksOrdered /\ TicketsDated /\ TicketHolders
  BY DEF TicketInv
<1>2. db[n] \in Record /\ db'[n] = r /\ \A m \in Nicks \ {n} : db'[m] = db[m]
  BY <1>1, RecordOf DEF Write, TypeOK, Database
<1>3. r # None
  BY RegistryConstants
<1>4. \A m \in Nicks : (Owned(m)' <=> Owned(m)) /\ \A k \in Keys : Owns(m, k)' <=> Owns(m, k)
  BY <1>2, <1>3 DEF Owned, Owns
<1>5. /\ now \in Nat /\ TicketLife \in Nat \ {0} /\ since[n] \in Nat
      /\ r.last_seen \in Nat /\ db[n].last_seen \in Nat
  BY <1>1, <1>2, RegistryConstants DEF TypeOK, Record
<1>6. ClocksOrdered'
  <2>1. since[n] <= r.last_seen
    BY <1>1, <1>5 DEF ClocksOrdered
  <2> QED
    BY <1>1, <1>2, <1>4, <2>1 DEF ClocksOrdered
<1>7. ASSUME NEW t \in tickets'
      PROVE  /\ Owned(t.nick)' /\ now' < t.expires
             /\ Owns(t.nick, t.key)' => t.expires <= db'[t.nick].last_seen + TicketLife
             /\ \/ Owns(t.nick, t.key)'
                \/ t.key = before'[t.nick] /\ t.expires <= since'[t.nick] + TicketLife
  <2>1. CASE t.nick = n /\ t.key = r.pub /\ t.expires = now + TicketLife /\ r.last_seen = now
    BY <2>1, <1>2, <1>3, <1>5 DEF Owned, Owns
  <2>2. CASE t \in tickets
    <3>1. t.nick \in Nicks /\ t.key \in Keys /\ t.expires \in Nat
      BY <2>2, <1>1 DEF TypeOK, Ticket
    <3>2. /\ Owned(t.nick) /\ now < t.expires
          /\ Owns(t.nick, t.key) => t.expires <= db[t.nick].last_seen + TicketLife
      BY <2>2, <1>1 DEF TicketsDated
    <3>3. Owns(t.nick, t.key) => t.expires <= db'[t.nick].last_seen + TicketLife
      BY <3>1, <3>2, <1>2, <1>5
    <3> QED
      BY <2>2, <3>1, <3>2, <3>3, <1>1, <1>4 DEF TicketHolders
  <2> QED
    BY <2>1, <2>2
<1> QED
  BY <1>6, <1>7 DEF TicketsDated, TicketHolders

\* If the file can be written, whoever holds a living ticket owns the nick, or
\* owned it last and got the ticket before it changed hands: relays that trust
\* tickets never let a third key in, whatever the nick went through.
THEOREM TicketsFollowTheNick ==
  ASSUME SaveFaults = {}
  PROVE  Spec => []TicketHolders
<1>1. Init => TicketInv
  BY DEF Init, TicketInv, TypeOK, Database, Durable, ClocksOrdered,
     TicketsDated, TicketHolders, Owned
<1>2. TicketInv /\ TypeOK' /\ Durable' /\ [Next]_vars => TicketInv'
  <2> SUFFICES ASSUME TicketInv, TypeOK', [Next]_vars
               PROVE  ClocksOrdered' /\ TicketsDated' /\ TicketHolders'
    BY DEF TicketInv
  <2>0. TypeOK /\ Durable /\ ClocksOrdered /\ TicketsDated /\ TicketHolders
    BY DEF TicketInv
  <2>1. ASSUME NEW n \in Nicks, NEW k \in Keys, NEW heard \in BOOLEAN, ClaimFree(n, k, heard)
        PROVE  ClocksOrdered' /\ TicketsDated' /\ TicketHolders'
    BY <2>1, HandsKeepTickets DEF ClaimFree
  <2>2. ASSUME NEW n \in Nicks, NEW k \in Keys, NEW heard \in BOOLEAN, ClaimMoves(n, k, heard)
        PROVE  ClocksOrdered' /\ TicketsDated' /\ TicketHolders'
    <3>1. db[n].until # 0
      BY <2>0, <2>2, RecordOf, RegistryConstants DEF ClaimMoves
    <3> QED
      BY <2>2, <3>1, HandsKeepTickets DEF ClaimMoves
  <2>3. ASSUME NEW n \in Nicks, NEW k \in Keys, NEW heard \in BOOLEAN, ClaimOwn(n, k, heard)
        PROVE  ClocksOrdered' /\ TicketsDated' /\ TicketHolders'
    <3> DEFINE r == [db[n] EXCEPT !.last_seen = now]
    <3>1. Owned(n) /\ db[n].pub = k /\ db[n] \in Record
      BY <2>0, <2>3, RecordOf DEF ClaimOwn, Owns
    <3>2. r \in Record /\ r.pub = k /\ r.last_seen = now /\ r.until = db[n].until
      BY <2>0, <3>1 DEF Record, TypeOK
    <3>3. db[n].last_seen <= now /\ (r.until # 0 => since[n] + HoldTime <= r.until)
      BY <2>0, <3>1, <3>2 DEF ClocksOrdered
    <3>4. now <= now
      BY <2>0 DEF TypeOK
    <3>5. \A t \in tickets' : t \in tickets \/ (t.nick = n /\ t.key = k /\ t.expires = now + TicketLife)
      BY <2>3, NewTicket DEF ClaimOwn
    <3>6. /\ Write(n, r)
          /\ since' = since /\ before' = before /\ now' = now
      BY <2>3 DEF ClaimOwn, history
    <3> HIDE DEF r
    <3> QED
      BY <3>1, <3>2, <3>3, <3>4, <3>5, <3>6, OwnerKeepsTickets
  <2>4. ASSUME NEW n \in Nicks, NEW k \in Keys, NEW heard \in BOOLEAN, Cancel(n, k, heard)
        PROVE  ClocksOrdered' /\ TicketsDated' /\ TicketHolders'
    <3> DEFINE r == [db[n] EXCEPT !.pending = None, !.until = 0,
                                  !.last_seen = now, !.code = NewCode(n)]
    <3>1. Owned(n) /\ db[n].pub = k /\ db[n] \in Record
      BY <2>0, <2>4, RecordOf DEF Cancel, Owns
    <3>2. NewCode(n) \in Nat
      BY <2>0 DEF TypeOK, NewCode
    <3>3. r \in Record /\ r.pub = k /\ r.last_seen = now /\ r.until = 0
      BY <2>0, <3>1, <3>2 DEF Record, TypeOK
    <3>4. db[n].last_seen <= now /\ now <= now
      BY <2>0, <3>1 DEF ClocksOrdered, TypeOK
    <3>5. /\ Write(n, r) /\ tickets' = tickets
          /\ since' = since /\ before' = before /\ now' = now
      BY <2>4 DEF Cancel
    <3> HIDE DEF r
    <3> QED
      BY <3>1, <3>3, <3>4, <3>5, OwnerKeepsTickets
  <2>5. ASSUME NEW n \in Nicks, NEW k \in Keys, Recover(n, k)
        PROVE  ClocksOrdered' /\ TicketsDated' /\ TicketHolders'
    <3> DEFINE r == [db[n] EXCEPT !.pending = k, !.until = now + HoldTime]
    <3>1. Owned(n) /\ db[n] \in Record
      BY <2>0, <2>5, RecordOf DEF Recover
    <3>2. now + HoldTime \in Nat
      BY <2>0, RegistryConstants DEF TypeOK
    <3>3. /\ r \in Record /\ r.pub = db[n].pub /\ r.last_seen = db[n].last_seen
          /\ r.until = now + HoldTime
      BY <3>1, <3>2 DEF Record
    <3>4. db[n].last_seen <= now /\ since[n] <= db[n].last_seen
      BY <2>0, <3>1 DEF ClocksOrdered
    <3>5. /\ db[n].last_seen <= r.last_seen
          /\ since[n] + HoldTime <= r.until
      BY <2>0, <3>1, <3>3, <3>4, RegistryConstants DEF TypeOK, Record
    <3>6. /\ Write(n, r) /\ tickets' = tickets
          /\ since' = since /\ before' = before /\ now' = now
      BY <2>5 DEF Recover
    <3> HIDE DEF r
    <3> QED
      BY <3>1, <3>3, <3>4, <3>5, <3>6, OwnerKeepsTickets
  <2>6. CASE Restart
    BY <2>0, <2>6 DEF Restart, Durable, ClocksOrdered, TicketsDated, TicketHolders,
       Owned, Owns, history
  <2>7. CASE Tick
    <3>1. now' \in Nat /\ now \in Nat /\ now <= now'
      BY <2>0, <2>7 DEF Tick, TypeOK
    <3>2. \A n \in Nicks : Owned(n) => db[n].last_seen \in Nat
      BY <2>0, RecordOf DEF Record
    <3>3. ClocksOrdered'
      BY <2>0, <2>7, <3>1, <3>2 DEF Tick, ClocksOrdered, Owned, history
    <3>4. ASSUME NEW t \in tickets' PROVE t \in tickets /\ now' < t.expires
      BY <2>0, <2>7, <3>1 DEF Tick, TypeOK, Ticket
    <3>5. TicketsDated' /\ TicketHolders'
      BY <2>0, <2>7, <3>4 DEF Tick, TicketsDated, TicketHolders, Owned, Owns, history
    <3> QED
      BY <3>3, <3>5
  <2>8. CASE UNCHANGED vars
    BY <2>0, <2>8 DEF vars, history, ClocksOrdered, TicketsDated, TicketHolders, Owned, Owns
  <2> QED
    BY <2>1, <2>2, <2>3, <2>4, <2>5, <2>6, <2>7, <2>8 DEF Next, Request
<1>3. TicketInv => TicketHolders
  BY DEF TicketInv
<1> QED
  BY <1>1, <1>2, <1>3, NickTypeCorrect, NothingIsLost, PTL DEF Spec

-----------------------------------------------------------------------------
\* The four variables of NickOwnership, as NickRegistry's substitution reads
\* them off the database.
BarOwner == [n \in Nicks |-> IF Owned(n) THEN db[n].pub ELSE None]
BarSeen == [n \in Nicks |-> IF Owned(n) THEN db[n].last_seen ELSE 0]
BarAsker == [n \in Nicks |-> IF Owned(n) THEN db[n].pending ELSE None]
BarAsked == [n \in Nicks |-> IF Owned(n) /\ db[n].until # 0 THEN db[n].until - HoldTime ELSE 0]

\* What a written record looks like to NickOwnership.
LEMMA WriteSeen ==
  ASSUME TypeOK, NEW n \in Nicks, NEW r \in Record, Write(n, r)
  PROVE  /\ BarOwner' = [BarOwner EXCEPT ![n] = r.pub]
         /\ BarSeen' = [BarSeen EXCEPT ![n] = r.last_seen]
         /\ BarAsker' = [BarAsker EXCEPT ![n] = r.pending]
         /\ BarAsked' = [BarAsked EXCEPT ![n] = IF r.until # 0 THEN r.until - HoldTime ELSE 0]
<1>1. db'[n] = r /\ \A m \in Nicks \ {n} : db'[m] = db[m]
  BY DEF Write, TypeOK, Database
<1>2. r # None
  BY RegistryConstants
<1>3. Owned(n)' /\ \A m \in Nicks \ {n} : Owned(m)' <=> Owned(m)
  BY <1>1, <1>2 DEF Owned
<1> QED
  BY <1>1, <1>3 DEF BarOwner, BarSeen, BarAsker, BarAsked

\* NickOwnership's actions in these terms.
LEMMA Abstractly ==
  ASSUME NEW n \in Nicks, NEW k \in Keys
  PROVE  /\ Ownership!ShowsUp(n) <=> BarSeen' = [BarSeen EXCEPT ![n] = now]
         /\ Ownership!Settled(n) <=> /\ BarAsker' = [BarAsker EXCEPT ![n] = None]
                                    /\ BarAsked' = [BarAsked EXCEPT ![n] = 0]
         /\ Ownership!Take(n, k) <=>
              /\ BarOwner[n] = None \/ now - BarSeen[n] > ExpireTime
              /\ BarOwner' = [BarOwner EXCEPT ![n] = k]
              /\ Ownership!ShowsUp(n) /\ Ownership!Settled(n) /\ UNCHANGED now
         /\ Ownership!Keep(n) <=>
              /\ BarOwner[n] # None /\ Ownership!ShowsUp(n)
              /\ UNCHANGED <<now, BarOwner, BarAsker, BarAsked>>
         /\ Ownership!Ask(n, k) <=>
              /\ BarOwner[n] \notin {None, k}
              /\ BarAsker' = [BarAsker EXCEPT ![n] = k]
              /\ BarAsked' = [BarAsked EXCEPT ![n] = now]
              /\ UNCHANGED <<now, BarOwner, BarSeen>>
         /\ Ownership!Refuse(n) <=>
              /\ BarAsker[n] # None /\ Ownership!ShowsUp(n) /\ Ownership!Settled(n)
              /\ UNCHANGED <<now, BarOwner>>
         /\ Ownership!Pass(n) <=>
              /\ BarAsker[n] # None /\ now - BarAsked[n] >= HoldTime
              /\ BarOwner' = [BarOwner EXCEPT ![n] = BarAsker[n]]
              /\ Ownership!ShowsUp(n) /\ Ownership!Settled(n) /\ UNCHANGED now
BY DEF Ownership!ShowsUp, Ownership!Settled, Ownership!Take, Ownership!Abandoned,
   Ownership!Keep, Ownership!Ask, Ownership!Refuse, Ownership!Pass,
   BarOwner, BarSeen, BarAsker, BarAsked

\* A function on Nicks that is set to what it was is unchanged.
LEMMA SetToWhatItWas ==
  ASSUME NEW n \in Nicks
  PROVE  /\ BarOwner = [BarOwner EXCEPT ![n] = BarOwner[n]]
         /\ BarSeen = [BarSeen EXCEPT ![n] = BarSeen[n]]
         /\ BarAsker = [BarAsker EXCEPT ![n] = BarAsker[n]]
         /\ BarAsked = [BarAsked EXCEPT ![n] = BarAsked[n]]
BY DEF BarOwner, BarSeen, BarAsker, BarAsked

\* If the file can be written, the registry implements NickOwnership: a nick
\* only changes hands when its owner stayed away for the expiry or when a hold
\* he did not cancel is over, for any number of keys, codes, lost answers and
\* restarts.
THEOREM RegistryImplementsNickOwnership ==
  ASSUME SaveFaults = {}
  PROVE  Spec => ImplementsNickOwnership
<1>1. Init => Ownership!Init
  BY DEF Init, Ownership!Init, Owned
<1>2. TypeOK /\ Durable /\ [Next]_vars => [Ownership!Next]_(Ownership!nvars)
  <2> SUFFICES ASSUME TypeOK, Durable, [Next]_vars
               PROVE  Ownership!Next \/ UNCHANGED <<now, BarOwner, BarSeen, BarAsker, BarAsked>>
    BY DEF Ownership!nvars, BarOwner, BarSeen, BarAsker, BarAsked
  <2>1. ASSUME NEW n \in Nicks, NEW k \in Keys, NEW heard \in BOOLEAN, ChangesHands(n, k, heard)
        PROVE  /\ BarOwner' = [BarOwner EXCEPT ![n] = k] /\ BarSeen' = [BarSeen EXCEPT ![n] = now]
               /\ BarAsker' = [BarAsker EXCEPT ![n] = None] /\ BarAsked' = [BarAsked EXCEPT ![n] = 0]
               /\ now' = now
    <3> DEFINE r == [pub |-> k, last_seen |-> now, code |-> NewCode(n), pending |-> None, until |-> 0]
    <3>1. r \in Record /\ Write(n, r) /\ now' = now
      BY <2>1 DEF ChangesHands, Record, TypeOK, NewCode
    <3> QED
      BY <3>1, WriteSeen
  <2>2. ASSUME NEW n \in Nicks, NEW k \in Keys, NEW heard \in BOOLEAN, ClaimFree(n, k, heard)
        PROVE  Ownership!Take(n, k)
    <3>1. BarOwner[n] = None \/ now - BarSeen[n] > ExpireTime
      BY <2>2 DEF ClaimFree, Expired, BarOwner, BarSeen
    <3> QED
      BY <2>1, <2>2, <3>1, Abstractly DEF ClaimFree
  <2>3. ASSUME NEW n \in Nicks, NEW k \in Keys, NEW heard \in BOOLEAN, ClaimMoves(n, k, heard)
        PROVE  Ownership!Pass(n)
    <3>1. db[n] \in Record /\ db[n].until # 0 /\ db[n].pending = k /\ now >= db[n].until /\ Owned(n)
      BY <2>3, RecordOf, RegistryConstants DEF ClaimMoves
    <3>2. BarAsker[n] = k /\ k # None /\ BarAsked[n] = db[n].until - HoldTime
      BY <3>1, RegistryConstants DEF BarAsker, BarAsked
    <3>3. now - BarAsked[n] >= HoldTime
      BY <3>1, <3>2, RegistryConstants DEF TypeOK, Record
    <3> QED
      BY <2>1, <2>3, <3>2, <3>3, Abstractly DEF ClaimMoves
  <2>4. ASSUME NEW n \in Nicks, NEW k \in Keys, NEW heard \in BOOLEAN, ClaimOwn(n, k, heard)
        PROVE  Ownership!Keep(n)
    <3> DEFINE r == [db[n] EXCEPT !.last_seen = now]
    <3>1. Owned(n) /\ db[n] \in Record /\ db[n].pub # None
      BY <2>4, RecordOf, RegistryConstants DEF ClaimOwn, Owns
    <3>2. /\ r \in Record /\ r.pub = db[n].pub /\ r.pending = db[n].pending
          /\ r.until = db[n].until /\ r.last_seen = now
      BY <3>1 DEF Record, TypeOK
    <3>3. Write(n, r) /\ now' = now
      BY <2>4 DEF ClaimOwn
    <3> HIDE DEF r
    <3>4. /\ BarOwner[n] = r.pub /\ BarAsker[n] = r.pending
          /\ BarAsked[n] = IF r.until # 0 THEN r.until - HoldTime ELSE 0
      BY <3>1, <3>2 DEF BarOwner, BarAsker, BarAsked
    <3>5. /\ BarOwner' = BarOwner /\ BarAsker' = BarAsker /\ BarAsked' = BarAsked
          /\ BarSeen' = [BarSeen EXCEPT ![n] = now]
      BY <3>2, <3>3, <3>4, WriteSeen, SetToWhatItWas
    <3> QED
      BY <3>1, <3>2, <3>3, <3>4, <3>5, Abstractly
  <2>5. ASSUME NEW n \in Nicks, NEW k \in Keys, NEW heard \in BOOLEAN, Cancel(n, k, heard)
        PROVE  Ownership!Refuse(n)
    <3> DEFINE r == [db[n] EXCEPT !.pending = None, !.until = 0,
                                  !.last_seen = now, !.code = NewCode(n)]
    <3>1. Owned(n) /\ db[n] \in Record /\ db[n].pending # None
      BY <2>5, RecordOf DEF Cancel, Owns
    <3>2. /\ r \in Record /\ r.pub = db[n].pub /\ r.pending = None
          /\ r.until = 0 /\ r.last_seen = now
      <4>1. NewCode(n) \in Nat
        BY DEF TypeOK, NewCode
      <4> QED
        BY <3>1, <4>1 DEF Record, TypeOK
    <3>3. Write(n, r) /\ now' = now
      BY <2>5 DEF Cancel
    <3> HIDE DEF r
    <3>4. BarOwner[n] = r.pub /\ BarAsker[n] # None
      BY <3>1, <3>2 DEF BarOwner, BarAsker
    <3>5. /\ BarOwner' = BarOwner /\ BarSeen' = [BarSeen EXCEPT ![n] = now]
          /\ BarAsker' = [BarAsker EXCEPT ![n] = None] /\ BarAsked' = [BarAsked EXCEPT ![n] = 0]
      BY <3>2, <3>3, <3>4, WriteSeen, SetToWhatItWas
    <3> QED
      BY <3>3, <3>4, <3>5, Abstractly
  <2>6. ASSUME NEW n \in Nicks, NEW k \in Keys, Recover(n, k)
        PROVE  Ownership!Ask(n, k)
    <3> DEFINE r == [db[n] EXCEPT !.pending = k, !.until = now + HoldTime]
    <3>1. Owned(n) /\ db[n] \in Record /\ db[n].pub \notin {None, k}
      BY <2>6, RecordOf, RegistryConstants DEF Recover, Record
    <3>2. now + HoldTime \in Nat \ {0} /\ (now + HoldTime) - HoldTime = now
      BY RegistryConstants DEF TypeOK
    <3>3. /\ r \in Record /\ r.pub = db[n].pub /\ r.last_seen = db[n].last_seen
          /\ r.pending = k /\ r.until = now + HoldTime
      BY <3>1, <3>2 DEF Record
    <3>4. Write(n, r) /\ now' = now
      BY <2>6 DEF Recover
    <3> HIDE DEF r
    <3>5. BarOwner[n] = r.pub /\ BarSeen[n] = r.last_seen /\ BarOwner[n] \notin {None, k}
      BY <3>1, <3>3 DEF BarOwner, BarSeen
    <3>6. /\ BarOwner' = BarOwner /\ BarSeen' = BarSeen
          /\ BarAsker' = [BarAsker EXCEPT ![n] = k] /\ BarAsked' = [BarAsked EXCEPT ![n] = now]
      <4>1. (IF r.until # 0 THEN r.until - HoldTime ELSE 0) = now
        BY <3>2, <3>3
      <4>2. /\ BarOwner' = [BarOwner EXCEPT ![n] = r.pub]
            /\ BarSeen' = [BarSeen EXCEPT ![n] = r.last_seen]
            /\ BarAsker' = [BarAsker EXCEPT ![n] = r.pending]
            /\ BarAsked' = [BarAsked EXCEPT ![n] = IF r.until # 0 THEN r.until - HoldTime ELSE 0]
        BY <3>3, <3>4, WriteSeen
      <4> QED
        BY <3>3, <3>5, <4>1, <4>2, SetToWhatItWas
    <3> QED
      BY <3>4, <3>5, <3>6, Abstractly
  <2>7. CASE Restart
    BY <2>7 DEF Restart, Durable, BarOwner, BarSeen, BarAsker, BarAsked, Owned
  <2>8. ASSUME Tick PROVE Ownership!Tick
    BY <2>8 DEF Tick, Ownership!Tick, BarOwner, BarSeen, BarAsker, BarAsked, Owned
  <2>9. CASE UNCHANGED vars
    BY <2>9 DEF vars, BarOwner, BarSeen, BarAsker, BarAsked, Owned
  <2>10. ASSUME NEW n \in Nicks, NEW k \in Keys, NEW heard \in BOOLEAN, Request(n, k, heard)
         PROVE  Ownership!Next
    BY <2>2, <2>3, <2>4, <2>5, <2>10 DEF Request, Ownership!Next
  <2>11. ASSUME NEW n \in Nicks, NEW k \in Keys, Recover(n, k)
         PROVE  Ownership!Next
    BY <2>6, <2>11 DEF Ownership!Next
  <2>12. CASE Tick
    BY <2>8, <2>12 DEF Ownership!Next
  <2> QED
    BY <2>7, <2>9, <2>10, <2>11, <2>12 DEF Next
<1> QED
  BY <1>1, <1>2, NickTypeCorrect, NothingIsLost, PTL DEF Spec, ImplementsNickOwnership, Ownership!Spec

-----------------------------------------------------------------------------
\* A request that was cancelled is no longer pending.
Withdrawn == \A n \in Nicks, k \in Keys :
  <<n, k>> \in cancelled /\ Owned(n) => db[n].pending # k

\* A record is written whose pending request, if any, is not cancelled.
LEMMA WrittenWithdrawn ==
  ASSUME TypeOK, Withdrawn, NEW n \in Nicks, NEW r \in Record, Write(n, r),
         \A m \in Nicks \ {n}, k \in Keys : <<m, k>> \in cancelled' => <<m, k>> \in cancelled,
         \A k \in Keys : <<n, k>> \in cancelled' => r.pending # k
  PROVE  Withdrawn'
<1>1. db'[n] = r /\ \A m \in Nicks \ {n} : db'[m] = db[m]
  BY DEF Write, TypeOK, Database
<1> QED
  BY <1>1 DEF Withdrawn, Owned

\* If the file can be written, a request its victim was told he cancelled
\* never moves the nick, at once or after any restart.
THEOREM CancelsHold ==
  ASSUME SaveFaults = {}
  PROVE  Spec => CancelHolds
<1>1. Init => Withdrawn
  BY DEF Init, Withdrawn
<1>2. TypeOK /\ Durable /\ Withdrawn /\ [Next]_vars => Withdrawn'
  <2> SUFFICES ASSUME TypeOK, Durable, Withdrawn, [Next]_vars PROVE Withdrawn'
    OBVIOUS
  <2>0. None \notin Keys
    BY RegistryConstants
  <2>1. ASSUME NEW n \in Nicks, NEW k \in Keys, NEW heard \in BOOLEAN,
               ChangesHands(n, k, heard)
        PROVE  Withdrawn'
    <3> DEFINE r == [pub |-> k, last_seen |-> now, code |-> NewCode(n), pending |-> None, until |-> 0]
    <3>1. r \in Record /\ r.pending = None
      BY DEF Record, TypeOK, NewCode
    <3>2. Write(n, r) /\ cancelled' \subseteq cancelled
      BY <2>1 DEF ChangesHands
    <3> HIDE DEF r
    <3> QED
      BY <2>0, <3>1, <3>2, WrittenWithdrawn
  <2>2. ASSUME NEW n \in Nicks, NEW k \in Keys, NEW heard \in BOOLEAN, ClaimOwn(n, k, heard)
        PROVE  Withdrawn'
    <3> DEFINE r == [db[n] EXCEPT !.last_seen = now]
    <3>1. Owned(n) /\ db[n] \in Record
      BY <2>2, RecordOf DEF ClaimOwn, Owns
    <3>2. r \in Record /\ r.pending = db[n].pending
      BY <3>1 DEF Record, TypeOK
    <3>3. Write(n, r) /\ cancelled' = cancelled
      BY <2>2 DEF ClaimOwn, history
    <3>4. \A j \in Keys : <<n, j>> \in cancelled' => r.pending # j
      BY <3>1, <3>2, <3>3 DEF Withdrawn
    <3> HIDE DEF r
    <3> QED
      BY <3>2, <3>3, <3>4, WrittenWithdrawn
  <2>3. ASSUME NEW n \in Nicks, NEW k \in Keys, Recover(n, k) PROVE Withdrawn'
    <3> DEFINE r == [db[n] EXCEPT !.pending = k, !.until = now + HoldTime]
    <3>1. Owned(n) /\ db[n] \in Record
      BY <2>3, RecordOf DEF Recover
    <3>2. now + HoldTime \in Nat
      BY RegistryConstants DEF TypeOK
    <3>3. r \in Record /\ r.pending = k
      BY <3>1, <3>2 DEF Record
    <3>4. Write(n, r) /\ cancelled' = cancelled \ {<<n, k>>}
      BY <2>3 DEF Recover
    <3> HIDE DEF r
    <3> QED
      BY <3>3, <3>4, WrittenWithdrawn
  <2>4. ASSUME NEW n \in Nicks, NEW k \in Keys, NEW heard \in BOOLEAN, Cancel(n, k, heard)
        PROVE  Withdrawn'
    <3> DEFINE r == [db[n] EXCEPT !.pending = None, !.until = 0,
                                  !.last_seen = now, !.code = NewCode(n)]
    <3>1. Owned(n) /\ db[n] \in Record
      BY <2>4, RecordOf DEF Cancel, Owns
    <3>2. NewCode(n) \in Nat
      BY DEF TypeOK, NewCode
    <3>3. r \in Record /\ r.pending = None
      BY <3>1, <3>2 DEF Record, TypeOK
    <3>4. Write(n, r) /\ cancelled' \subseteq cancelled \cup {<<n, db[n].pending>>}
      BY <2>4 DEF Cancel
    <3> HIDE DEF r
    <3> QED
      BY <2>0, <3>3, <3>4, WrittenWithdrawn
  <2>5. CASE Restart \/ Tick \/ UNCHANGED vars
    BY <2>5 DEF Restart, Tick, vars, history, Durable, Withdrawn, Owned
  <2> QED
    BY <2>1, <2>2, <2>3, <2>4, <2>5 DEF Next, Request, ClaimFree, ClaimMoves
<1>3. TypeOK /\ Durable /\ Withdrawn /\ [Next]_vars =>
        \A n \in Nicks, k \in Keys :
          Owned(n) /\ ~Expired(n) /\ ~Owns(n, k) /\ Owns(n, k)' => <<n, k>> \notin cancelled
  <2> SUFFICES ASSUME TypeOK, Durable, Withdrawn, [Next]_vars, NEW n \in Nicks, NEW k \in Keys,
                      Owned(n), ~Expired(n), ~Owns(n, k), Owns(n, k)'
               PROVE  <<n, k>> \notin cancelled
    OBVIOUS
  <2>1. ASSUME NEW m \in Nicks, NEW j \in Keys, NEW heard \in BOOLEAN,
               ClaimFree(m, j, heard) \/ ClaimMoves(m, j, heard)
        PROVE  <<n, k>> \notin cancelled
    <3>1. ChangesHands(m, j, heard)
      BY <2>1 DEF ClaimFree, ClaimMoves
    <3>2. m = n /\ k = j
      BY <3>1, HandsChanged DEF Owns, Owned
    <3>3. db[n].pending = k
      BY <2>1, <3>2 DEF ClaimFree, ClaimMoves
    <3> QED
      BY <3>3 DEF Withdrawn
  <2>2. ASSUME NEW m \in Nicks, NEW r \in Record, Write(m, r), Owned(m), r.pub = db[m].pub
        PROVE  FALSE
    <3>1. db'[m] = r /\ \A i \in Nicks \ {m} : db'[i] = db[i]
      BY <2>2 DEF Write, TypeOK, Database
    <3> QED
      BY <2>2, <3>1 DEF Owns, Owned
  <2>3. ASSUME NEW m \in Nicks, NEW j \in Keys, NEW heard \in BOOLEAN,
               ClaimOwn(m, j, heard) \/ Cancel(m, j, heard)
        PROVE  FALSE
    <3>1. Owned(m) /\ db[m] \in Record /\ NewCode(m) \in Nat
      BY <2>3, RecordOf DEF ClaimOwn, Cancel, Owns, TypeOK, NewCode
    <3>2. PICK r \in Record : Write(m, r) /\ r.pub = db[m].pub
      <4>1. CASE ClaimOwn(m, j, heard)
        <5>1. [db[m] EXCEPT !.last_seen = now] \in Record
          BY <3>1 DEF Record, TypeOK
        <5>2. [db[m] EXCEPT !.last_seen = now].pub = db[m].pub
          BY <3>1 DEF Record
        <5> QED
          BY <4>1, <5>1, <5>2 DEF ClaimOwn
      <4>2. CASE Cancel(m, j, heard)
        <5> DEFINE r == [db[m] EXCEPT !.pending = None, !.until = 0,
                                      !.last_seen = now, !.code = NewCode(m)]
        <5>1. r \in Record /\ r.pub = db[m].pub
          BY <3>1 DEF Record, TypeOK
        <5>2. Write(m, r)
          BY <4>2 DEF Cancel
        <5> HIDE DEF r
        <5> QED
          BY <5>1, <5>2
      <4> QED
        BY <2>3, <4>1, <4>2
    <3> QED
      BY <2>2, <3>1, <3>2
  <2>4. ASSUME NEW m \in Nicks, NEW j \in Keys, Recover(m, j) PROVE FALSE
    <3> DEFINE r == [db[m] EXCEPT !.pending = j, !.until = now + HoldTime]
    <3>1. Owned(m) /\ db[m] \in Record /\ now + HoldTime \in Nat
      BY <2>4, RecordOf, RegistryConstants DEF Recover, TypeOK
    <3>2. r \in Record /\ r.pub = db[m].pub
      BY <3>1 DEF Record
    <3>3. Write(m, r)
      BY <2>4 DEF Recover
    <3> HIDE DEF r
    <3> QED
      BY <2>2, <3>1, <3>2, <3>3
  <2>5. CASE Restart \/ Tick \/ UNCHANGED vars
    BY <2>5 DEF Restart, Tick, vars, Durable, Owns, Owned
  <2> QED
    BY <2>1, <2>3, <2>4, <2>5 DEF Next, Request
<1> QED
  BY <1>1, <1>2, <1>3, NickTypeCorrect, NothingIsLost, PTL DEF Spec, CancelHolds
=============================================================================
