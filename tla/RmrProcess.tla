----------------------------- MODULE RmrProcess -----------------------------
(* What the parts of larecomp_rmr_server (RmrServer) have in common. *)
EXTENDS Naturals, Sequences, FiniteSets

CONSTANTS
  Players,     \* owner keys
  None,        \* no ride, no request
  Faults       \* a subset of {"file", "board", "short"}: what may fail to be
               \* written, an uploaded file or leaderboards.db, and whether
               \* they may end up short without anybody noticing

ASSUME ProcessConstants ==
  Players \subseteq Nat /\ Faults \subseteq {"file", "board", "short"}

VARIABLE up    \* the process runs
=============================================================================
