--------------------------- MODULE MCPrivacyMode ---------------------------
(* Small instances of PrivacyMode for TLC; their constants are model values. *)
EXTENDS PrivacyMode
=============================================================================
