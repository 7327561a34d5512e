----------------------------- MODULE MCUtilities -----------------------------
(* Small instances of the utilities for TLC.  A millisecond is two         *)
(* microseconds and a second is four milliseconds; ids wrap at two.        *)
EXTENDS Utilities
=============================================================================
