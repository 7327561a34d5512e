---------------------------- MODULE MCLinkedList ----------------------------
(* Small instances of LinkedList for TLC; the .cfg file chooses them.      *)
EXTENDS LinkedList
=============================================================================
