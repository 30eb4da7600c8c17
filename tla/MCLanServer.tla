---------------------------- MODULE MCLanServer ----------------------------
(* Small instances of LanServer for TLC; their constants are model values. *)
EXTENDS LanServer
=============================================================================
