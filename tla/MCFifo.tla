------------------------------- MODULE MCFifo --------------------------------
(* Values of the constants of FileTransferFifo for TLC. *)
EXTENDS FileTransferFifo

FileOfTwo == [i \in 0 .. 1 |-> IF i = 0 THEN "a" ELSE "b"]
FileOfThree == [i \in 0 .. 2 |-> <<"a", "b", "c">>[i + 1]]
=============================================================================
