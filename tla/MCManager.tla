----------------------------- MODULE MCManager ------------------------------
(* Small instances of Manager for TLC; the .cfg files choose them.         *)
EXTENDS Manager
=============================================================================
