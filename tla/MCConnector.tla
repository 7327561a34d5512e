---------------------------- MODULE MCConnector -----------------------------
(* Small instances of Connector for TLC; the .cfg files choose them.       *)
EXTENDS Connector
=============================================================================
