--------------------------- MODULE MCFileTransfer ---------------------------
(* Values of the constants of FileTransfer for TLC. *)
EXTENDS FileTransfer, Sequences

FileOfTwo == [i \in 0 .. 1 |-> IF i = 0 THEN "a" ELSE "b"]
FileOfThree == [i \in 0 .. 2 |-> <<"a", "b", "c">>[i + 1]]
HeaderAck == {Signal("SEND_FILE_STATUS_ACK")}
Header == {Signal("SEND_FILE_STATUS")}
=============================================================================
