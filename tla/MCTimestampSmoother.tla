------------------------ MODULE MCTimestampSmoother ------------------------
(* Small instances of the smoother for TLC: times are in units of which a  *)
(* jump takes more than two.                                               *)
EXTENDS TimestampSmoother

SmallPts == -1 .. 8
Sentinel == -1000
=============================================================================
