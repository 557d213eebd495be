----------------------------- MODULE FileFrames -----------------------------
(***************************************************************************)
(* The data path of a Lab03 transfer: the sender's readFile() cuts the     *)
(* file in frames that are C strings, total_frame is computed from the     *)
(* file's size by itself, and the receiver's writeFile() writes its map in *)
(* the order of the numbers.  In between, every frame asked for arrives:   *)
(* that is what FileTransfer shows.  Frame number total_frame, which is    *)
(* always asked for, is a read past the end of fileVector (Strays).  An    *)
(* empty file has no frame, and the receiver ends in missing_frame().      *)
(*                                                                         *)
(* A byte is a number, 0 the one that ends a string.                       *)
(***************************************************************************)
EXTENDS Integers, Sequences

CONSTANTS
    Byte,        \* the bytes in files, some numbers and 0
    Chunk,       \* DATABUFFER_SIZE - 1
    MaxSize,     \* files have so many bytes at most
    Fresh,       \* what new char[DATABUFFER_SIZE] can hold
    Strays       \* what the string past the end of fileVector can be

ASSUME FramesAssumption ==
    /\ Byte \subseteq Nat /\ 0 \in Byte
    /\ Chunk \in Nat \ {0}
    /\ MaxSize \in Nat
    /\ Fresh \subseteq [1 .. Chunk + 1 -> Byte]
    /\ Strays \subseteq Seq(Byte)

VARIABLES
    pc,       \* "read", "write", "done" or "crashed"
    file,     \* the bytes of the sender's file
    fileSize, \* bytes not read yet
    buffer,   \* DATABUFFER_SIZE bytes
    v,        \* the frames read, fileVector
    map,      \* receive_file_map: frame number -> string
    next,     \* the entry writeFile() is at
    written   \* the bytes of the receiver's file

vars == <<pc, file, fileSize, buffer, v, map, next, written>>

\* What run() computes for the header.
\* Mutant: the last frame is counted for a size that is a multiple, too.
total_frame_extra(size) == size \div Chunk + 1
total_frame(size) ==
    IF size % Chunk # 0 THEN size \div Chunk + 1 ELSE size \div Chunk

\* string(buffer): the bytes before the first 0.  Without one the string goes
\* on past the buffer; what is there is not modelled, the buffer is taken.
CString(b) ==
    LET ends == {i \in 1 .. Len(b) : b[i] = 0}
    IN  IF ends = {} THEN b
        ELSE SubSeq(b, 1, (CHOOSE i \in ends : \A j \in ends : i <= j) - 1)

Zeros == [i \in 1 .. Chunk + 1 |-> 0]
chunck == IF fileSize <= Chunk THEN fileSize ELSE Chunk
At == Len(file) - fileSize   \* bytes read so far

Init ==
    /\ pc = "read"
    /\ file \in UNION {[1 .. n -> Byte] : n \in 0 .. MaxSize}
    /\ fileSize = Len(file)
    /\ buffer \in Fresh
    /\ v = <<>> /\ map = <<>> /\ next = 0 /\ written = <<>>

\* One round of the loop of readFile(): fread(), string(), bzero().
Filled == [i \in 1 .. Chunk + 1 |-> IF i <= chunck THEN file[At + i] ELSE buffer[i]]
\* Mutant: the buffer is not cleared between two frames.
ReadChunk_noZero ==
    /\ pc = "read" /\ fileSize > 0
    /\ v' = Append(v, CString(Filled))
    /\ buffer' = Filled
    /\ fileSize' = fileSize - chunck
    /\ UNCHANGED <<pc, file, map, next, written>>
ReadChunk ==
    /\ pc = "read" /\ fileSize > 0
    /\ v' = Append(v, CString(Filled))
    /\ buffer' = Zeros
    /\ fileSize' = fileSize - chunck
    /\ UNCHANGED <<pc, file, map, next, written>>

\* The transfer: every frame number up to total_frame has arrived.
Transfer ==
    /\ pc = "read" /\ fileSize = 0 /\ v # <<>>
    /\ pc' = "write"
    /\ \E s \in Strays :
          map' = [i \in 0 .. total_frame(Len(file)) |-> IF i < Len(v) THEN v[i + 1] ELSE s]
    /\ UNCHANGED <<file, fileSize, buffer, v, next, written>>

\* The transfer of an empty file: SEND_FILE_DONE comes after no frame at all,
\* and missing_frame() reads the last element of an empty vector.
NoFrame ==
    /\ pc = "read" /\ fileSize = 0 /\ v = <<>>
    /\ pc' = "crashed"
    /\ UNCHANGED <<file, fileSize, buffer, v, map, next, written>>

\* One round of the loop of writeFile().
\* Mutant: the length written is that of a frame, whatever the string's is.
WriteFrame_whole ==
    /\ pc = "write" /\ next \in DOMAIN map
    /\ written' = written \o [i \in 1 .. Chunk |-> IF i <= Len(map[next]) THEN map[next][i] ELSE 0]
    /\ next' = next + 1
    /\ UNCHANGED <<pc, file, fileSize, buffer, v, map>>
WriteFrame ==
    /\ pc = "write" /\ next \in DOMAIN map
    /\ written' = written \o map[next]
    /\ next' = next + 1
    /\ UNCHANGED <<pc, file, fileSize, buffer, v, map>>

Close ==
    /\ pc = "write" /\ next \notin DOMAIN map
    /\ pc' = "done"
    /\ UNCHANGED <<file, fileSize, buffer, v, map, next, written>>

Next == ReadChunk \/ Transfer \/ NoFrame \/ WriteFrame \/ Close

Spec == Init /\ [][Next]_vars

\* The types; proved in FileFrames_proofs.
TypeOK ==
    /\ pc \in {"read", "write", "done", "crashed"}
    /\ file \in Seq(Byte)
    /\ fileSize \in 0 .. Len(file)
    /\ buffer \in [1 .. Chunk + 1 -> Byte]
    /\ v \in Seq(Seq(Byte))
    /\ next \in Nat
    /\ written \in Seq(Byte)

(***************************************************************************)
(* What the data path guarantees.                                          *)
(***************************************************************************)
\* The count of frames in the header, from the size alone, is the number of
\* frames readFile() makes: for no size does the receiver wait for a frame
\* that is not there, but for the one past the end, nor miss one.
FramesAgree == pc # "read" => Len(v) = total_frame(Len(file))

\* No frame but the first has a byte that is not of the file at its place:
\* what an earlier frame left in the buffer never follows a shorter one.
NothingStale ==
    \A k \in 2 .. Len(v) :
        /\ Len(v[k]) <= Chunk
        /\ \A i \in 1 .. Len(v[k]) :
              (k - 1) * Chunk + i \in DOMAIN file /\ v[k][i] = file[(k - 1) * Chunk + i]

\* A file without a zero byte that is not empty arrives as it was, when the
\* first string ended with its frame and the string past the end was empty.
\* Both are luck: the buffer is not initialised, and fileVector has no frame
\* total_frame.  (Of an empty file nothing is written at all: NoFrame.)
Text == \A i \in DOMAIN file : file[i] # 0
Lucky ==
    /\ Len(v[1]) <= Chunk /\ Len(v[1]) <= Len(file)
    /\ map[total_frame(Len(file))] = <<>>
TextArrives == pc = "done" /\ Text /\ Lucky => written = file
=============================================================================
