--------------------------- MODULE MCBrowserJoin ---------------------------
(* Small instances of BrowserJoin for TLC. *)
EXTENDS BrowserJoin
=============================================================================
