---------------------------- MODULE MCRmrServer ----------------------------
(* Small instances of RmrServer for TLC. *)
EXTENDS RmrServer
=============================================================================
