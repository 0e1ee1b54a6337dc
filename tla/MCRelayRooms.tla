---------------------------- MODULE MCRelayRooms ----------------------------
(* Small instances of RelayRooms for TLC. *)
EXTENDS RelayRooms
=============================================================================
