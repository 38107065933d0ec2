--------------------------- MODULE MCCheckerFrontEnd ---------------------------
(* Instances of CheckerFrontEnd for TLC: two runs that share a cache.           *)
EXTENDS CheckerFrontEnd

CONSTANTS k1, k2, r1, r2

OneCallerEach == [k \in {k1, k2} |-> IF k = k1 THEN r1 ELSE r2]
===============================================================================
