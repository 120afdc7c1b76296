--------------------------- MODULE MCTimerManager ---------------------------
(* Small instances of TimerManager for TLC.                                *)
EXTENDS TimerManager

CONSTANTS a, b, p1

TwoTimers  == {a, b}
OnlyB      == {b}
OnePoller  == {p1}
OneDelay   == {1}
=============================================================================
