--------------------------- MODULE MCMasterListing ---------------------------
(* Small instances of MasterListing for TLC: two relays on one machine, which
   have a host name each. *)
EXTENDS MasterListing
TheIpOf == [r \in Relays |-> "ip"]
TheKeyOf == [r \in Relays |-> r]
=============================================================================
