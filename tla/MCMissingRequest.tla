-------------------------- MODULE MCMissingRequest ---------------------------
(* Every set of frame numbers of one and two digits around the change of    *)
(* length, in a buffer that holds a few of them.                            *)
EXTENDS MissingRequest

DecimalLength == [f \in 4 .. 13 |-> IF f < 10 THEN 1 ELSE 2]
MissingSets == (SUBSET (4 .. 13)) \ {{}}
=============================================================================
