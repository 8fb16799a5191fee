------------------------------ MODULE MCLogger ------------------------------
(* Constants for TLC.                                                      *)
EXTENDS Logger
CONSTANTS t1, t2
TwoThreads == {t1, t2}
TwoLevels == {4, 5}
=============================================================================
