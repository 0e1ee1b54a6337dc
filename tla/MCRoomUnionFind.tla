--------------------------- MODULE MCRoomUnionFind --------------------------
(* A small instance of RoomUnionFind for TLC. *)
EXTENDS RoomUnionFind
=============================================================================
