---------------------------- MODULE MCIdleTimer ----------------------------
(* Small instances of IdleTimer for TLC: a millisecond of two microseconds *)
(* and a second of four milliseconds.                                      *)
EXTENDS IdleTimer
=============================================================================
