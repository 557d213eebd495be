------------------------------ MODULE FrameSets ------------------------------
(***************************************************************************)
(* The set of frame numbers that missing_frame() returns, as a set: every  *)
(* number up to the larger of total_frame and the greatest number received *)
(* that was not received.  total_frame itself is not a frame of the file.  *)
(* MissingFrames shows that the loops of the code compute it.              *)
(***************************************************************************)
EXTENDS Integers

Lacking(total, received) ==
    ((0 .. total) \cup UNION {0 .. g : g \in received}) \ received
=============================================================================
