--------------------------- MODULE MCSimpleServer ---------------------------
(* Small instances of SimpleServer for TLC; the .cfg files choose them.    *)
EXTENDS SimpleServer, TLC

ClientSymmetry == Permutations(Client)
=============================================================================
