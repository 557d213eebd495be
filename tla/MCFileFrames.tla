---------------------------- MODULE MCFileFrames ----------------------------
(* Values of the constants of FileFrames for TLC. *)
EXTENDS FileFrames

AnyBuffer == [1 .. Chunk + 1 -> Byte]
SomeStrings == {<<>>, <<7>>}
=============================================================================
