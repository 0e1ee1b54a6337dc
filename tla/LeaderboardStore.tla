-------------------------- MODULE LeaderboardStore --------------------------
(***************************************************************************)
(* One leaderboard (src/mc_engine/online/leaderboards): the server's rows  *)
(* (lb_store.cpp) and the players' games, each with a worker that sends    *)
(* one result at a time and tries again when no answer comes               *)
(* (lb_client.cpp).  The server takes connections one by one in the order  *)
(* they came, so an attempt its sender gave up on is still carried out.    *)
(*                                                                         *)
(* A result is a rating, kept if it is higher (kAggMax), and one more race *)
(* in a column that adds up (kAggSum); a row is there once its sum is not  *)
(* 0.  The local store takes the results of a game whose server has no     *)
(* leaderboards; of it only the sum is kept.                               *)
(***************************************************************************)
EXTENDS RmrProcess

CONSTANTS
  WriteAttempts,                      \* kWriteAttempts
  MaxRating, MaxResults, MaxSeconds   \* bounds: a rating, results, the clock

VARIABLES
  rows,        \* [Players -> Row]: the board in memory
  saved,       \* leaderboards.db, or None if it is damaged
  serves,      \* the server knows /lb/v1
  seconds,     \* the server's clock
  backlog,     \* connections the server has not taken yet
  job,         \* [Players -> the result under way, or None]
  no_service,  \* the players whose server answered 404 (g_no_service)
  local,       \* [Players -> Nat]: the sum in the local store
  results,     \* bound, and what tells results apart
  told         \* history: [Players -> Nat], results whose game was told "ok"

worker == <<job, no_service, local, results, told>>
board == <<rows, saved, serves, seconds, backlog, worker>>

Row == [sum : Nat, rating : Nat, reached : Nat]
NoRow == [sum |-> 0, rating |-> 0, reached |-> 0]
Empty == [p \in Players |-> NoRow]

BoardInit ==
  /\ rows = Empty /\ saved = Empty
  /\ serves \in BOOLEAN
  /\ seconds = 1
  /\ backlog = <<>>
  /\ job = [p \in Players |-> None]
  /\ no_service = {}
  /\ local = [p \in Players |-> 0]
  /\ results = 0
  /\ told = [p \in Players |-> 0]

-----------------------------------------------------------------------------
(* The worker of a game.                                                   *)

RunLocal(p) ==
  /\ local' = [local EXCEPT ![p] = @ + 1]
  /\ told' = [told EXCEPT ![p] = @ + 1]
  /\ job' = [job EXCEPT ![p] = None]

\* The race is over: Submit.
Submit(p, rating) ==
  /\ job[p] = None /\ results < MaxResults
  /\ results' = results + 1
  /\ job' = [job EXCEPT ![p] = [number |-> results + 1, rating |-> rating,
                                attempt |-> 1, sent |-> FALSE]]
  /\ UNCHANGED <<rows, saved, serves, seconds, backlog, no_service, local, told>>

\* Known to have no leaderboards: not asked again.
Elsewhere(p) ==
  /\ job[p] # None /\ p \in no_service
  /\ RunLocal(p)
  /\ UNCHANGED <<rows, saved, serves, seconds, backlog, no_service, results>>

Post(p) ==
  /\ job[p] # None /\ p \notin no_service /\ ~job[p].sent
  /\ backlog' = Append(backlog, [player |-> p, number |-> job[p].number,
                                 rating |-> job[p].rating, attempt |-> job[p].attempt])
  /\ job' = [job EXCEPT ![p].sent = TRUE]
  /\ UNCHANGED <<rows, saved, serves, seconds, no_service, local, results, told>>

\* Nobody answers, or not in time, or the connection breaks.
Unanswered(p) ==
  /\ job[p] # None /\ p \notin no_service
  /\ job' = [job EXCEPT ![p] =
       IF job[p].attempt < WriteAttempts
       THEN [job[p] EXCEPT !.attempt = job[p].attempt + 1, !.sent = FALSE] ELSE None]
  /\ UNCHANGED <<rows, saved, serves, seconds, backlog, no_service, local, results, told>>

\* The sender of m still waits for its answer.
Waits(m) ==
  LET j == job[m.player]
  IN  j # None /\ j.sent /\ j.number = m.number /\ j.attempt = m.attempt

-----------------------------------------------------------------------------
(* The server.                                                             *)

\* Fault: every result makes its rating new.
Aggregate_Moves(p, rating) ==
  LET row == rows[p]
      best == IF row.sum = 0 \/ rating > row.rating THEN rating ELSE row.rating
  IN  [sum |-> row.sum + 1, rating |-> best, reached |-> seconds]

\* The row of p after a result, and since when it has its rating.
Aggregate(p, rating) ==
  LET row == rows[p]
      moved == row.sum = 0 \/ rating > row.rating
  IN  [sum |-> row.sum + 1,
       rating |-> IF moved THEN rating ELSE row.rating,
       reached |-> IF moved THEN seconds ELSE row.reached]

\* A server from before the leaderboards says 404.
NotFound ==
  /\ backlog # <<>> /\ ~serves
  /\ LET m == Head(backlog)
     IN  IF Waits(m)
         THEN no_service' = no_service \cup {m.player} /\ RunLocal(m.player)
         ELSE UNCHANGED <<job, no_service, local, told>>
  /\ backlog' = Tail(backlog)
  /\ UNCHANGED <<rows, saved, serves, seconds, results>>

\* Fault: a board that cannot be written counts as written.
AtomicWrite_AlwaysOk(after, ok) ==
  \/ ok /\ saved' = after
  \/ ok /\ "board" \in Faults /\ UNCHANGED saved
  \/ ok /\ "short" \in Faults /\ saved' = None

\* The board is written whole or not at all, or it is short and counts as
\* written: the stream is looked at before its destructor flushes it.
AtomicWrite(after, ok) ==
  \/ ok /\ saved' = after
  \/ ~ok /\ "board" \in Faults /\ UNCHANGED saved
  \/ ok /\ "short" \in Faults /\ saved' = None

\* The next result is entered and the board written, as the answer says if
\* its game still waits for it (it was lost if not).  A game that is told of
\* an error gives the result up.
Write ==
  /\ backlog # <<>> /\ serves
  /\ LET m == Head(backlog)
         after == [rows EXCEPT ![m.player] = Aggregate(m.player, m.rating)]
     IN  /\ rows' = after
         /\ \E ok \in BOOLEAN :
              /\ AtomicWrite(after, ok)
              /\ IF Waits(m)
                 THEN /\ job' = [job EXCEPT ![m.player] = None]
                      /\ told' = IF ok THEN [told EXCEPT ![m.player] = @ + 1] ELSE told
                 ELSE UNCHANGED <<job, told>>
  /\ backlog' = Tail(backlog)
  /\ UNCHANGED <<serves, seconds, no_service, local, results>>

\* (Until there is a result nobody looks at the clock.)
Tick ==
  /\ results > 0 /\ seconds < MaxSeconds
  /\ seconds' = seconds + 1
  /\ UNCHANGED <<rows, saved, serves, backlog, worker>>

\* The process dies; connections it had not taken are gone with it.
BoardCrash ==
  /\ rows' = Empty
  /\ backlog' = <<>>
  /\ UNCHANGED <<saved, serves, seconds, worker>>

\* It starts, or a newer one does; not with a damaged board.
BoardOpen ==
  /\ saved # None
  /\ rows' = saved
  /\ serves' \in {serves, TRUE}
  /\ UNCHANGED <<saved, seconds, backlog, worker>>

\* One step of the games or of the server, while it runs or not.
BoardStep(handles) ==
  \/ \E p \in Players, rating \in 1 .. MaxRating : Submit(p, rating)
  \/ \E p \in Players : Elsewhere(p) \/ Unanswered(p)
  \/ \E p \in Players : up /\ Post(p)
  \/ handles /\ (NotFound \/ Write)
  \/ Tick

-----------------------------------------------------------------------------
(* Properties.                                                             *)

Result == [number : Nat, rating : Nat, attempt : Nat, sent : BOOLEAN]
Attempt == [player : Players, number : Nat, rating : Nat, attempt : Nat]

BoardTypeOK ==
  /\ rows \in [Players -> Row] /\ saved \in [Players -> Row] \cup {None}
  /\ serves \in BOOLEAN /\ seconds \in Nat \ {0}
  /\ backlog \in Seq(Attempt)
  /\ job \in [Players -> Result \cup {None}]
  /\ no_service \subseteq Players
  /\ local \in [Players -> Nat] /\ told \in [Players -> Nat]
  /\ results \in Nat

\* Results whose game was told that they were taken are on disk, here or in
\* the local store ("stats are never thrown away while the server is being
\* updated", lb_client.h), through crashes, lost answers and writes that fail
\* and say so.  A board cut short by a full disk is the exception: it was
\* answered "ok", and is gone unless the next write still makes it whole.
\* Results may be there more often than once: one tried again after its
\* answer got lost adds up twice.
ToldIsKept ==
  saved # None => \A p \in Players : told[p] <= saved[p].sum + local[p]

\* Ranked: higher ratings first, then who reached the rating earlier.
Above(rs, p, q) ==
  /\ rs[p].sum # 0 /\ rs[q].sum # 0
  /\ \/ rs[p].rating > rs[q].rating
     \/ rs[p].rating = rs[q].rating /\ rs[p].reached < rs[q].reached
     \/ rs[p].rating = rs[q].rating /\ rs[p].reached = rs[q].reached /\ p < q

\* "Ties go to whoever reached that rating first" (lb_store.h): while the
\* server runs, nobody gets past another by equalling his rating, though
\* results are tried again and arrive late, unless both reached it in the
\* same second (the clock is not set back).
TieKeepsOrder ==
  [][\A p, q \in Players :
       /\ Above(rows, p, q) /\ Above(rows', q, p)
       /\ rows'[p].rating = rows'[q].rating
       => rows'[q].rating # rows[q].rating /\ rows'[p].reached = seconds]_board
=============================================================================
