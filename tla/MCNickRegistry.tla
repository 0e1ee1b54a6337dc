--------------------------- MODULE MCNickRegistry ---------------------------
(* Small instances of NickRegistry for TLC. *)
EXTENDS NickRegistry, TLC

\* Keys differ in nothing.
Symmetry == Permutations(Keys)
=============================================================================
