----------------------------- MODULE RmrServer -----------------------------
(***************************************************************************)
(* larecomp_rmr_server (rmr_server_main.cpp): the ride database and the    *)
(* leaderboards behind one listening socket, in one process.  A request to *)
(* either is carried out before the next connection is taken; a crash      *)
(* takes both, and both are open before the first connection is.           *)
(***************************************************************************)
EXTENDS RmrStore, LeaderboardStore

CONSTANTS
  MaxBoth,      \* bound: uploads times results
  MaxCrashes,   \* bound: crashes
  MaxWork       \* bound: uploads and crashes, and the rest of the work twice

VARIABLE crashes

vars == <<store, board, crashes>>

Init == StoreInit /\ BoardInit /\ crashes = 0

\* Either part is taken far, or both of them a little; and either uploads and
\* crashes are, or what is done with the rides.
Bounded ==
  /\ uploads' * results' <= MaxBoth
  /\ uploads' + crashes' + 2 * (Cardinality(db'.ratings)
       + Cardinality({r \in db'.records : r.for_sale \/ r.pending > 0})
       + Cardinality({x \in disk' : x.ver = Short})) <= MaxWork

Rides == StoreStep /\ UNCHANGED <<board, crashes>> /\ Bounded

Boards == BoardStep(Handles) /\ UNCHANGED <<store, crashes>> /\ Bounded

Crash ==
  /\ crashes < MaxCrashes
  /\ crashes' = crashes + 1
  /\ StoreCrash /\ BoardCrash /\ Bounded

Open == StoreOpen /\ BoardOpen /\ UNCHANGED crashes

Next == Rides \/ Boards \/ Crash \/ Open

Spec == Init /\ [][Next]_vars

TypeOK == StoreTypeOK /\ BoardTypeOK /\ crashes \in Nat
=============================================================================
