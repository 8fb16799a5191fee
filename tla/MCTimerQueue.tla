---------------------------- MODULE MCTimerQueue ----------------------------
(* A small instance of the timer queue for TLC.                            *)
EXTENDS TimerQueue

CONSTANTS c1, c2

TwoClients == {c1, c2}
AllRepeats == {-1, 0, 1, 2}
=============================================================================
