---------------------------- MODULE VipOwnership ----------------------------
(***************************************************************************)
(* What the relay promises about virtual ips, with none of the machinery   *)
(* that keeps the promise: a vip belongs to the first session that ever    *)
(* held it, for good.  A session holds at most one vip at a time, two      *)
(* sessions never hold the same one, and a session that comes back gets a  *)
(* vip of its own or one nobody has had.  Only for a vip a game brings     *)
(* along from another relay is nothing promised but that one session at a  *)
(* time holds it (relay_server.cpp, "Identity" in the header comment).     *)
(***************************************************************************)
CONSTANTS Sessions,  \* everything that can hold a vip
          Vips,      \* every address that can be handed out
          Foreign,   \* the vips a session may bring from elsewhere
          None       \* no session, or no vip

VARIABLES owner,     \* [Vips -> Sessions or None]: who first held the vip
          held       \* [Sessions -> Vips or None]: the vip a session holds now

ovars == <<owner, held>>

Init ==
  /\ owner = [v \in Vips |-> None]
  /\ held  = [s \in Sessions |-> None]

\* The sessions of gone lose their vips (timeouts, exits, a relay crash).
Forget(gone) == [s \in Sessions |-> IF s \in gone THEN None ELSE held[s]]

Release(gone) ==
  /\ held' = Forget(gone)
  /\ UNCHANGED owner

\* Session s starts to hold v; v was its own already, or nobody's.
Grant(gone, s, v) ==
  /\ Forget(gone)[s] = None
  /\ \A t \in Sessions : Forget(gone)[t] # v
  /\ owner[v] \in {None, s} \/ v \in Foreign
  /\ owner' = [owner EXCEPT ![v] = IF @ = None THEN s ELSE @]
  /\ held'  = [Forget(gone) EXCEPT ![s] = v]

Next ==
  \E gone \in SUBSET Sessions :
    \/ Release(gone)
    \/ \E s \in Sessions, v \in Vips : Grant(gone, s, v)

Spec == Init /\ [][Next]_ovars
=============================================================================
