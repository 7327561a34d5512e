------------------------------ MODULE MCTelnet ------------------------------
(* Small instances of Telnet for TLC; the .cfg files choose them.          *)
EXTENDS Telnet
=============================================================================
