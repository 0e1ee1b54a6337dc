---------------------------- MODULE MCRelayPeers ----------------------------
(* Small instances of RelayPeers for TLC. *)
EXTENDS RelayPeers, TLC

\* Games that differ in nothing, and addresses, may be swapped.
Symmetry == Permutations(Games \ Anonymous) \cup Permutations(Addrs)
=============================================================================
