----------------------------- MODULE MCFraming -----------------------------
(* Small instances of the message parser for TLC.                          *)
EXTENDS Framing
=============================================================================
