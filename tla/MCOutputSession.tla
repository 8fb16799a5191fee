-------------------------- MODULE MCOutputSession --------------------------
(* The outputer with its smoother for TLC: times are in units of which a   *)
(* jump takes more than one or two.                                        *)
EXTENDS OutputSession

TwoPresets == {[weight |-> 1, maxJump |-> 2, minIncrement |-> 1],
               [weight |-> 2, maxJump |-> 1, minIncrement |-> 2]}
FewPts == {-1, 1, 4}
Sentinel == -1000
=============================================================================
