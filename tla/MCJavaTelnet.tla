---------------------------- MODULE MCJavaTelnet ----------------------------
(* Small instances of JavaTelnet for TLC; the .cfg files choose them.      *)
EXTENDS JavaTelnet
=============================================================================
