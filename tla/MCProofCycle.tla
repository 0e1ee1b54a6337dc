---------------------------- MODULE MCProofCycle ----------------------------
(* Small instances of ProofCycle for TLC: the game p, whose player proves   *)
(* his nick, and q, which calls itself the same and proves nothing.         *)
EXTENDS ProofCycle

CONSTANTS p, q, i1, i2, np

MCNickOf == [s \in Sessions |-> np]
MCHomeOf == [s \in Sessions |-> IF s = p THEN i1 ELSE i2]
=============================================================================
