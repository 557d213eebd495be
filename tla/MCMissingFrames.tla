--------------------------- MODULE MCMissingFrames ---------------------------
(* Every sorted vector of one to four frame numbers, below, at and above    *)
(* total_frame.                                                             *)
EXTENDS MissingFrames

SortedVectors ==
    {s \in UNION {[1 .. n -> 0 .. 4] : n \in 1 .. 4} : Sorted(s)}
=============================================================================
