-------------------------- MODULE FileFrames_proofs --------------------------
(***************************************************************************)
(* For every size of a file and of a frame: the number of frames that the  *)
(* sender announces is the number it reads (the loop invariant: what the   *)
(* size left would take and the frames there are make up total_frame), no  *)
(* frame holds what an earlier one left in the buffer (FrameInv: the       *)
(* frames up to the k-th have read the file up to Reached(k)), and         *)
(* writeFile() restores a file of text (WriteInv).                         *)
(***************************************************************************)
EXTENDS FileFrames, SequenceTheorems, WellFoundedInduction, TLAPS

\* Quotient and remainder by a frame, for one that still has to be read.
LEMMA Division ==
    ASSUME NEW c \in Nat \ {0}, NEW n \in Nat
    PROVE  /\ n \div c \in Nat /\ n % c \in 0 .. c - 1
           /\ n = c * (n \div c) + (n % c)
BY SMTT(30)

LEMMA DivisionUnique ==
    ASSUME NEW c \in Nat \ {0}, NEW q \in Nat, NEW r \in 0 .. c - 1
    PROVE  (c * q + r) \div c = q /\ (c * q + r) % c = r
<1> DEFINE n == c * q + r
           q2 == n \div c
           r2 == n % c
<1>1. n \in Nat
  BY SMT
<1>2. q2 \in Nat /\ r2 \in 0 .. c - 1 /\ n = c * q2 + r2
  BY <1>1, Division
<1>3. q2 = q
  <2> HIDE DEF q2, r2
  <2>1. CASE q2 < q
    <3>1. q >= q2 + 1 BY <2>1, <1>2
    <3>2. c * q >= c * q2 + c BY <3>1, <1>2, SMTT(30)
    <3> QED BY <3>2, <1>2
  <2>2. CASE q2 > q
    <3>1. q2 >= q + 1 BY <2>2, <1>2
    <3>2. c * q2 >= c * q + c BY <3>1, <1>2, SMTT(30)
    <3> QED BY <3>2, <1>2
  <2> QED BY <2>1, <2>2, <1>2
<1> QED BY <1>2, <1>3

\* A frame more is needed for what has a frame's bytes more.
LEMMA OneFrameMore ==
    ASSUME NEW n \in Nat, n > 0,
           NEW k, k = IF n <= Chunk THEN n ELSE Chunk
    PROVE  total_frame(n) = 1 + total_frame(n - k) /\ total_frame(n - k) \in Nat
<1> USE FramesAssumption
<1>1. CASE n <= Chunk
  <2>1. 0 \div Chunk = 0 /\ 0 % Chunk = 0
    <3>1. 0 \in Nat /\ 0 \in 0 .. Chunk - 1 OBVIOUS
    <3>2. Chunk * 0 + 0 = 0 OBVIOUS
    <3> QED BY ONLY <3>1, <3>2, DivisionUnique, FramesAssumption
  <2>2. total_frame(n - k) = 0 BY <1>1, <2>1 DEF total_frame
  <2>3. CASE n = Chunk
    <3>1. Chunk * 1 + 0 = n /\ 1 \in Nat /\ 0 \in 0 .. Chunk - 1 BY <2>3
    <3>2. n \div Chunk = 1 /\ n % Chunk = 0
      BY ONLY <3>1, DivisionUnique, FramesAssumption
    <3> QED BY <3>2, <2>2 DEF total_frame
  <2>4. CASE n < Chunk
    <3>1. Chunk * 0 + n = n /\ 0 \in Nat /\ n \in 0 .. Chunk - 1 BY <2>4
    <3>2. n \div Chunk = 0 /\ n % Chunk = n
      BY ONLY <3>1, DivisionUnique, FramesAssumption
    <3> QED BY <3>2, <2>2 DEF total_frame
  <2> QED BY <1>1, <2>3, <2>4
<1>2. CASE n > Chunk
  <2> DEFINE m == n - Chunk
             q == m \div Chunk
             r == m % Chunk
  <2>1. m \in Nat /\ k = Chunk BY <1>2
  <2>2. q \in Nat /\ r \in 0 .. Chunk - 1 /\ m = Chunk * q + r
    BY <2>1, Division
  <2>3. n \div Chunk = q + 1 /\ n % Chunk = r
    <3> HIDE DEF q, r
    <3>1. q + 1 \in Nat /\ n = Chunk * (q + 1) + r BY <2>2, SMTT(30)
    <3> QED BY ONLY <3>1, <2>2, DivisionUnique, FramesAssumption
  <2> HIDE DEF q, r
  <2>4. total_frame(m) = IF r # 0 THEN q + 1 ELSE q BY DEF total_frame, q, r
  <2>5. total_frame(n) = IF r # 0 THEN (q + 1) + 1 ELSE q + 1 BY <2>3 DEF total_frame
  <2> QED BY <2>1, <2>2, <2>4, <2>5
<1> QED BY <1>1, <1>2

LEMMA FrameCountNat ==
    ASSUME NEW n \in Nat
    PROVE  total_frame(n) \in Nat
BY Division, FramesAssumption DEF total_frame

LEMMA NoFrameForNothing == total_frame(0) = 0
<1>1. 0 \in Nat /\ 0 \in 0 .. Chunk - 1 /\ Chunk * 0 + 0 = 0 BY FramesAssumption
<1>2. 0 \div Chunk = 0 /\ 0 % Chunk = 0
  BY ONLY <1>1, DivisionUnique, FramesAssumption
<1> QED BY <1>2 DEF total_frame

\* A string ends where the first 0 is: the least element of a set of numbers.
LEMMA LeastOf ==
    ASSUME NEW ends \in SUBSET Nat, ends # {}
    PROVE  \E i \in ends : \A j \in ends : i <= j
<1>1. PICK i \in ends : \A j \in ends : <<j, i>> \notin OpToRel(<, Nat)
  BY WFMin, NatLessThanWellFounded, Zenon
<1>2. \A j \in ends : i <= j
  <2> SUFFICES ASSUME NEW j \in ends, j < i PROVE FALSE
    OBVIOUS
  <2>1. <<j, i>> \in {ss \in Nat \X Nat : ss[1] < ss[2]} OBVIOUS
  <2> QED BY <1>1, <2>1 DEF OpToRel
<1> QED BY <1>2

LEMMA CStringIs ==
    ASSUME NEW b \in [1 .. Chunk + 1 -> Byte]
    PROVE  /\ CString(b) \in Seq(Byte) /\ Len(CString(b)) <= Chunk + 1
           /\ \A i \in 1 .. Len(CString(b)) : CString(b)[i] = b[i] /\ b[i] # 0
           /\ Len(CString(b)) <= Chunk => b[Len(CString(b)) + 1] = 0
<1> DEFINE ends == {i \in 1 .. Len(b) : b[i] = 0}
<1>0. b \in Seq(Byte) /\ Len(b) = Chunk + 1 BY FramesAssumption
<1>1. CASE ends = {}
  <2>1. CString(b) = b BY <1>1 DEF CString
  <2> QED BY <1>0, <1>1, <2>1, FramesAssumption
<1>2. CASE ends # {}
  <2> DEFINE e == CHOOSE i \in ends : \A j \in ends : i <= j
  <2>1. ends \in SUBSET Nat BY <1>0
  <2>2. \E i \in ends : \A j \in ends : i <= j BY <1>2, <2>1, LeastOf
  <2>3. e \in ends /\ \A j \in ends : e <= j BY <2>2
  <2>4. CString(b) = SubSeq(b, 1, e - 1) BY <1>2 DEF CString
  <2> HIDE DEF e
  <2>5. e \in 1 .. Chunk + 1 /\ b[e] = 0 BY <2>3, <1>0
  <2>6. \A i \in 1 .. e - 1 : b[i] # 0 BY <2>3, <2>5, <1>0, FramesAssumption
  <2>7. /\ SubSeq(b, 1, e - 1) \in Seq(Byte) /\ Len(SubSeq(b, 1, e - 1)) = e - 1
        /\ \A i \in 1 .. e - 1 : SubSeq(b, 1, e - 1)[i] = b[i]
    <3>1. e - 1 \in 0 .. Len(b) BY <2>5, <1>0, FramesAssumption
    <3> QED BY <3>1, <1>0, <2>5, SubSeqProperties
  <2>8. e - 1 \in Nat /\ e - 1 <= Chunk + 1 /\ (e - 1) + 1 = e BY <2>5, FramesAssumption
  <2> QED BY <2>4, <2>5, <2>6, <2>7, <2>8
<1> QED BY <1>1, <1>2

(***************************************************************************)
(* Types.                                                                  *)
(***************************************************************************)
MapType == pc = "write" => map \in [0 .. total_frame(Len(file)) -> Seq(Byte)]

LEMMA InitType == Init => TypeOK /\ MapType
<1> SUFFICES ASSUME Init PROVE TypeOK /\ MapType
  OBVIOUS
<1>1. file \in Seq(Byte) /\ Len(file) \in Nat BY DEF Init
<1>2. buffer \in [1 .. Chunk + 1 -> Byte] BY FramesAssumption DEF Init
<1> QED BY <1>1, <1>2 DEF Init, TypeOK, MapType

LEMMA NextType == TypeOK /\ MapType /\ [Next]_vars => TypeOK' /\ MapType'
<1> SUFFICES ASSUME TypeOK, MapType, [Next]_vars PROVE TypeOK' /\ MapType'
  OBVIOUS
<1> USE FramesAssumption DEF TypeOK, MapType
<1>1. CASE ReadChunk
  <2> DEFINE rest == fileSize - chunck
  <2>1. chunck \in 1 .. fileSize /\ chunck <= Chunk BY <1>1 DEF ReadChunk, chunck
  <2>2. Filled \in [1 .. Chunk + 1 -> Byte]
    <3> SUFFICES ASSUME NEW i \in 1 .. Chunk + 1, i <= chunck
                 PROVE  file[At + i] \in Byte
      BY DEF Filled
    <3>1. At + i \in 1 .. Len(file) BY <2>1 DEF At
    <3> QED BY <3>1
  <2>3. CString(Filled) \in Seq(Byte) BY <2>2, CStringIs
  <2>4. v' \in Seq(Seq(Byte)) BY <2>3, <1>1 DEF ReadChunk
  <2>5. buffer' \in [1 .. Chunk + 1 -> Byte] BY <1>1 DEF ReadChunk, Zeros
  <2>6. fileSize' \in 0 .. Len(file)
    BY <2>1, <1>1 DEF ReadChunk
  <2> QED BY <2>4, <2>5, <2>6, <1>1 DEF ReadChunk
<1>2. CASE Transfer
  <2>1. map' \in [0 .. total_frame(Len(file)) -> Seq(Byte)]
    <3>1. PICK s \in Strays :
             map' = [i \in 0 .. total_frame(Len(file)) |-> IF i < Len(v) THEN v[i + 1] ELSE s]
      BY <1>2 DEF Transfer
    <3>2. s \in Seq(Byte) BY <3>1
    <3>3. \A i \in 0 .. total_frame(Len(file)) : i < Len(v) => v[i + 1] \in Seq(Byte)
      OBVIOUS
    <3> QED BY <3>1, <3>2, <3>3
  <2> QED BY <2>1, <1>2 DEF Transfer
<1>6. CASE NoFrame
  BY <1>6 DEF NoFrame
<1>3. CASE WriteFrame
  <2>1. map[next] \in Seq(Byte) BY <1>3 DEF WriteFrame
  <2>2. written' \in Seq(Byte) BY <2>1, <1>3 DEF WriteFrame
  <2> QED BY <2>2, <1>3 DEF WriteFrame
<1>4. CASE Close
  BY <1>4 DEF Close
<1>5. CASE UNCHANGED vars
  BY <1>5 DEF vars
<1> QED BY <1>1, <1>2, <1>3, <1>4, <1>5, <1>6 DEF Next

\* The types are right whatever the memory held (readFile(), writeFile()).
THEOREM TypeCorrect == Spec => []TypeOK
<1>1. Init => TypeOK /\ MapType BY InitType
<1>2. (TypeOK /\ MapType) /\ [Next]_vars => (TypeOK /\ MapType)'
  BY NextType
<1> QED BY <1>1, <1>2, PTL DEF Spec

(***************************************************************************)
(* The announced number of frames is the number of frames.                 *)
(***************************************************************************)
CountInv ==
    /\ pc = "read" => Len(v) + total_frame(fileSize) = total_frame(Len(file))
    /\ FramesAgree

\* total_frame of the header, computed from the size, is the length of
\* fileVector when readFile() is done: for every file and frame size.
THEOREM HeaderCountsFrames == Spec => []FramesAgree
<1>1. Init /\ TypeOK => CountInv
  <2> SUFFICES ASSUME Init, TypeOK PROVE CountInv
    OBVIOUS
  <2>1. total_frame(Len(file)) \in Nat BY FrameCountNat DEF TypeOK
  <2> QED BY <2>1 DEF Init, CountInv, FramesAgree
<1>2. TypeOK /\ CountInv /\ [Next]_vars => CountInv'
  <2> SUFFICES ASSUME TypeOK, CountInv, [Next]_vars PROVE CountInv'
    OBVIOUS
  <2>1. CASE ReadChunk
    <3>1. fileSize \in Nat /\ fileSize > 0 BY <2>1 DEF ReadChunk, TypeOK
    <3>2. total_frame(fileSize) = 1 + total_frame(fileSize - chunck)
          /\ total_frame(fileSize - chunck) \in Nat
      BY <3>1, OneFrameMore DEF chunck
    <3>3. Len(v') = Len(v) + 1 /\ Len(v) \in Nat
      BY <2>1 DEF ReadChunk, TypeOK
    <3>4. pc = "read" /\ pc' = "read" /\ file' = file /\ fileSize' = fileSize - chunck
      BY <2>1 DEF ReadChunk
    <3>5. total_frame(fileSize') = total_frame(fileSize - chunck)
          /\ total_frame(Len(file'))  = total_frame(Len(file))
      BY <3>4
    <3>6. total_frame(Len(file)) = Len(v) + (1 + total_frame(fileSize - chunck))
      BY <3>2, <3>4 DEF CountInv
    <3> QED BY <3>2, <3>3, <3>4, <3>5, <3>6 DEF CountInv, FramesAgree
  <2>2. CASE Transfer \/ NoFrame
    <3>1. Len(v) = total_frame(Len(file))
      BY <2>2, NoFrameForNothing DEF Transfer, NoFrame, CountInv, TypeOK
    <3> QED BY <3>1, <2>2 DEF Transfer, NoFrame, CountInv, FramesAgree
  <2>3. CASE WriteFrame
    BY <2>3 DEF WriteFrame, CountInv, FramesAgree
  <2>4. CASE Close
    BY <2>4 DEF Close, CountInv, FramesAgree
  <2>5. CASE UNCHANGED vars
    BY <2>5 DEF vars, CountInv, FramesAgree
  <2> QED BY <2>1, <2>2, <2>3, <2>4, <2>5 DEF Next
<1>3. CountInv => FramesAgree BY DEF CountInv
<1> QED BY <1>1, <1>2, <1>3, TypeCorrect, PTL DEF Spec

(***************************************************************************)
(* What the frames hold.  Reached(k) is how far into the file its first k  *)
(* frames go; frame k has the bytes from Reached(k - 1) on.  Only the      *)
(* first can have more, as only it is read into memory that is not         *)
(* cleared; in a text none has less.                                       *)
(***************************************************************************)
Reached(k) == IF k * Chunk <= Len(file) THEN k * Chunk ELSE Len(file)

LEMMA ReachedIs ==
    ASSUME NEW k \in Nat, file \in Seq(Byte)
    PROVE  /\ Reached(k) \in 0 .. Len(file) /\ Reached(0) = 0
           /\ Reached(k) < Len(file) => Reached(k) = k * Chunk
           /\ Reached(k + 1) = IF Len(file) - Reached(k) <= Chunk THEN Len(file)
                               ELSE Reached(k) + Chunk
<1> DEFINE a == k * Chunk
<1> USE FramesAssumption
<1>1. a \in Nat BY SMT
<1>2. (k + 1) * Chunk = a + Chunk BY SMT
<1>3. 0 * Chunk = 0 OBVIOUS
<1> HIDE DEF a
<1>4. Reached(k) = IF a <= Len(file) THEN a ELSE Len(file) BY DEF Reached, a
<1>5. Reached(k + 1) = IF a + Chunk <= Len(file) THEN a + Chunk ELSE Len(file)
  BY <1>2 DEF Reached
<1>6. Reached(0) = 0 BY <1>3 DEF Reached
<1>7. Reached(k) < Len(file) => Reached(k) = k * Chunk BY <1>1, <1>4 DEF a
<1> QED BY <1>1, <1>4, <1>5, <1>6, <1>7

Starts(w, k) == \A i \in 1 .. Len(w) : w[i] = file[Reached(k - 1) + i]
Fills(w, k) ==
    /\ Len(w) >= Reached(k) - Reached(k - 1)
    /\ \A i \in 1 .. Reached(k) - Reached(k - 1) : w[i] = file[Reached(k - 1) + i]

FrameInv ==
    /\ \A k \in 1 .. Len(v) : Reached(k - 1) < Len(file)
    /\ \A k \in 2 .. Len(v) : Len(v[k]) <= Reached(k) - Reached(k - 1) /\ Starts(v[k], k)
    /\ Text => \A k \in 1 .. Len(v) : Fills(v[k], k)
    /\ pc = "read" => At = Reached(Len(v)) /\ (v # <<>> => buffer = Zeros)
    /\ pc # "read" => Reached(Len(v)) = Len(file)

\* One round of readFile().
LEMMA FrameRead ==
    ASSUME TypeOK, FrameInv, ReadChunk
    PROVE  LET w == CString(Filled)
               k == Len(v) + 1
           IN  /\ w \in Seq(Byte) /\ Reached(k - 1) < Len(file)
               /\ chunck = Reached(k) - Reached(k - 1) /\ chunck \in 1 .. fileSize
               /\ v # <<>> => Len(w) <= chunck /\ Starts(w, k)
               /\ Text => Fills(w, k)
<1> DEFINE w == CString(Filled)
           n == Reached(Len(v))
<1> USE FramesAssumption
<1>1. /\ pc = "read" /\ fileSize \in 1 .. Len(file) /\ Len(v) \in Nat
      /\ file \in Seq(Byte) /\ buffer \in [1 .. Chunk + 1 -> Byte]
  BY DEF TypeOK, ReadChunk
<1>2. At = n /\ At = Len(file) - fileSize /\ n < Len(file) /\ n \in Nat
  BY <1>1 DEF FrameInv, At
<1>3. chunck \in 1 .. fileSize /\ chunck <= Chunk BY <1>1 DEF chunck
<1>4. Reached(Len(v) + 1) = n + chunck
  <2>1. Reached(Len(v) + 1) = IF Len(file) - n <= Chunk THEN Len(file) ELSE n + Chunk
    BY <1>1, ReachedIs
  <2> HIDE DEF n
  <2> QED BY <1>1, <1>2, <2>1 DEF chunck
<1>5. /\ Filled \in [1 .. Chunk + 1 -> Byte]
      /\ \A i \in 1 .. chunck : Filled[i] = file[n + i]
      /\ \A i \in chunck + 1 .. Chunk + 1 : Filled[i] = buffer[i]
  <2>1. \A i \in 1 .. chunck : n + i \in 1 .. Len(file) BY <1>1, <1>2, <1>3
  <2>2. \A i \in 1 .. chunck : file[n + i] \in Byte BY <1>1, <2>1
  <2> HIDE DEF n
  <2> QED BY <1>1, <1>2, <1>3, <2>2 DEF Filled
<1>6. /\ w \in Seq(Byte) /\ Len(w) <= Chunk + 1
      /\ \A i \in 1 .. Len(w) : w[i] = Filled[i] /\ Filled[i] # 0
      /\ Len(w) <= Chunk => Filled[Len(w) + 1] = 0
  BY <1>5, CStringIs
<1> HIDE DEF w, n
<1>7. Len(w) \in Nat BY <1>6
<1>8. (Len(v) + 1) - 1 = Len(v) BY <1>1
<1>9. ASSUME v # <<>> PROVE Len(w) <= chunck /\ Starts(w, Len(v) + 1)
  <2>1. buffer = Zeros BY <1>1, <1>9 DEF FrameInv
  <2>2. chunck + 1 \in chunck + 1 .. Chunk + 1 /\ chunck + 1 \in 1 .. Chunk + 1
    BY <1>1, <1>3
  <2>3. Zeros[chunck + 1] = 0 BY <2>2 DEF Zeros
  <2>4. Filled[chunck + 1] = 0 BY <1>5, <2>1, <2>2, <2>3
  <2>5. chunck + 1 \notin 1 .. Len(w) BY <1>6, <2>4
  <2>6. Len(w) <= chunck BY <1>1, <1>3, <1>7, <2>5
  <2>7. \A i \in 1 .. Len(w) : w[i] = file[n + i] BY <1>1, <1>3, <1>5, <1>6, <1>7, <2>6
  <2> QED BY <1>8, <2>6, <2>7 DEF Starts, n
<1>10. ASSUME Text PROVE Fills(w, Len(v) + 1)
  <2>1. \A i \in 1 .. chunck : Filled[i] # 0
    <3>1. \A i \in 1 .. chunck : n + i \in 1 .. Len(file) BY <1>1, <1>2, <1>3
    <3>2. \A j \in 1 .. Len(file) : file[j] # 0 BY <1>1, <1>10 DEF Text
    <3> QED BY <1>5, <3>1, <3>2
  <2>2. Len(w) >= chunck
    <3> SUFFICES ASSUME Len(w) < chunck PROVE FALSE
      BY <1>1, <1>3, <1>7
    <3>1. Len(w) <= Chunk /\ Len(w) + 1 \in 1 .. chunck BY <1>1, <1>3, <1>7
    <3> QED BY <1>6, <2>1, <3>1
  <2>3. \A i \in 1 .. chunck : w[i] = file[n + i] BY <1>1, <1>3, <1>5, <1>6, <1>7, <2>2
  <2>4. Reached(Len(v) + 1) - n = chunck BY <1>1, <1>2, <1>3, <1>4
  <2> QED BY <1>8, <2>2, <2>3, <2>4 DEF Fills, n
<1>11. chunck = Reached(Len(v) + 1) - n BY <1>1, <1>2, <1>3, <1>4
<1> QED BY <1>2, <1>3, <1>6, <1>8, <1>9, <1>10, <1>11 DEF n, w

\* Frames already read keep what they are while the file does.
LEMMA FrameSame ==
    ASSUME file' = file
    PROVE  /\ \A k : Reached(k)' = Reached(k)
           /\ \A w, k : (Starts(w, k)' <=> Starts(w, k)) /\ (Fills(w, k)' <=> Fills(w, k))
           /\ Text' <=> Text
BY DEF Reached, Starts, Fills, Text

LEMMA FrameStep ==
    ASSUME TypeOK, FrameInv, [Next]_vars
    PROVE  FrameInv'
<1>1. CASE ReadChunk
  <2> DEFINE w == CString(Filled)
             n == Len(v)
  <2>1. /\ v' = Append(v, w) /\ buffer' = Zeros /\ pc = "read" /\ pc' = "read"
        /\ file' = file /\ fileSize' = fileSize - chunck
    BY <1>1 DEF ReadChunk
  <2>2. /\ w \in Seq(Byte) /\ Reached((n + 1) - 1) < Len(file)
        /\ chunck = Reached(n + 1) - Reached((n + 1) - 1) /\ chunck \in 1 .. fileSize
        /\ v # <<>> => Len(w) <= chunck /\ Starts(w, n + 1)
        /\ Text => Fills(w, n + 1)
    BY <1>1, FrameRead
  <2>3. v \in Seq(Seq(Byte)) /\ n \in Nat /\ fileSize \in 0 .. Len(file) /\ Len(file) \in Nat
    BY DEF TypeOK
  <2> HIDE DEF w
  <2>4. Len(v') = n + 1 /\ v'[n + 1] = w /\ \A k \in 1 .. n : v'[k] = v[k]
    BY <2>1, <2>2, <2>3
  <2>5. v = <<>> <=> n = 0 BY <2>3
  <2> HIDE DEF n
  <2>6. \A k \in 1 .. n + 1 : k \in 1 .. n \/ k = n + 1 BY <2>3
  <2>7. \A k \in 2 .. n + 1 : (k \in 2 .. n \/ k = n + 1) /\ n # 0 BY <2>3
  <2>8. \A k \in 1 .. n + 1 : Reached(k - 1)' < Len(file')
    BY <2>1, <2>2, <2>6, FrameSame DEF FrameInv, n
  <2>9. ASSUME NEW k \in 2 .. n + 1
        PROVE  (Len(v[k]) <= Reached(k) - Reached(k - 1) /\ Starts(v[k], k))'
    <3>1. Len(v'[k]) <= Reached(k) - Reached(k - 1) /\ Starts(v'[k], k)
      <4>1. CASE k \in 2 .. n
        <5>1. Len(v[k]) <= Reached(k) - Reached(k - 1) /\ Starts(v[k], k)
          BY <4>1 DEF FrameInv, n
        <5>2. v'[k] = v[k] BY <2>3, <2>4, <4>1
        <5> QED BY <5>1, <5>2
      <4>2. CASE k = n + 1
        <5>1. Len(w) <= Reached(k) - Reached(k - 1) /\ Starts(w, k)
          BY <2>2, <2>5, <2>7, <4>2
        <5> QED BY <2>4, <4>2, <5>1
      <4> QED BY <2>7, <4>1, <4>2
    <3>2. Reached(k)' = Reached(k) /\ Reached(k - 1)' = Reached(k - 1) BY <2>1, FrameSame
    <3>3. Starts(v[k], k)' BY <2>1, <3>1, <3>2 DEF Starts
    <3> QED BY <3>1, <3>2, <3>3
  <2>10. ASSUME Text', NEW k \in 1 .. n + 1 PROVE Fills(v[k], k)'
    <3>1. Fills(v'[k], k)
      <4>0. Text BY <2>1, <2>10, FrameSame
      <4>1. CASE k \in 1 .. n
        <5>1. Fills(v[k], k) BY <4>0, <4>1 DEF FrameInv, n
        <5> QED BY <2>4, <4>1, <5>1
      <4>2. CASE k = n + 1
        <5>1. Fills(w, k) BY <4>0, <4>2, <2>2
        <5> QED BY <2>4, <4>2, <5>1
      <4> QED BY <2>6, <4>1, <4>2
    <3>2. Reached(k)' = Reached(k) /\ Reached(k - 1)' = Reached(k - 1) BY <2>1, FrameSame
    <3> QED BY <2>1, <3>1, <3>2 DEF Fills
  <2>11. At' = Reached(Len(v))'
    <3>1. At' = At + chunck BY <2>1, <2>2, <2>3 DEF At
    <3>2. At = Reached(n) BY <2>1 DEF FrameInv, n
    <3>3. (n + 1) - 1 = n BY <2>3
    <3>4. Reached(n) \in Int /\ Reached(n + 1) \in Int
      <4>1. file \in Seq(Byte) /\ n + 1 \in Nat BY <2>3 DEF TypeOK
      <4>2. Reached(n) \in 0 .. Len(file) BY <2>3, <4>1, ReachedIs
      <4>3. Reached(n + 1) \in 0 .. Len(file) BY <4>1, ReachedIs
      <4> QED BY <2>3, <4>2, <4>3
    <3>5. At' = Reached(n + 1) BY <2>2, <3>1, <3>2, <3>3, <3>4
    <3> QED BY <2>1, <2>4, <3>5 DEF Reached
  <2> QED BY <2>1, <2>4, <2>8, <2>9, <2>10, <2>11 DEF FrameInv
<1>2. CASE Transfer \/ NoFrame
  <2>1. fileSize = 0 /\ pc = "read" /\ pc' # "read" /\ UNCHANGED <<file, v, buffer, fileSize>>
    BY <1>2 DEF Transfer, NoFrame
  <2>2. Reached(Len(v)) = Len(file) BY <2>1 DEF FrameInv, At, TypeOK
  <2> QED BY <2>1, <2>2 DEF FrameInv, Reached, Starts, Fills, Text
<1>3. CASE WriteFrame \/ Close
  <2>1. pc # "read" /\ pc' # "read" /\ UNCHANGED <<file, v>>
    BY <1>3 DEF WriteFrame, Close
  <2> QED BY <2>1 DEF FrameInv, Reached, Starts, Fills, Text
<1>4. CASE UNCHANGED vars
  BY <1>4 DEF vars, FrameInv, At, Reached, Starts, Fills, Text
<1> QED BY <1>1, <1>2, <1>3, <1>4 DEF Next

LEMMA FrameStart == Init /\ TypeOK => FrameInv
<1> SUFFICES ASSUME Init, TypeOK PROVE FrameInv
  OBVIOUS
<1>1. Reached(0) = 0 BY ReachedIs DEF TypeOK
<1> QED BY <1>1 DEF Init, TypeOK, FrameInv, At, Text

THEOREM FramesInductive == Spec => []FrameInv
<1>1. TypeOK /\ FrameInv /\ [Next]_vars => FrameInv' BY FrameStep
<1> QED BY <1>1, FrameStart, TypeCorrect, PTL DEF Spec

\* What an earlier frame left in the buffer never follows a shorter one
\* (readFile() clears it after each), for every file and size of a frame.
THEOREM NothingStaleHolds == Spec => []NothingStale
<1>1. TypeOK /\ FrameInv => NothingStale
  <2> SUFFICES ASSUME TypeOK, FrameInv, NEW k \in 2 .. Len(v)
               PROVE  /\ Len(v[k]) <= Chunk
                      /\ \A i \in 1 .. Len(v[k]) :
                            /\ (k - 1) * Chunk + i \in DOMAIN file
                            /\ v[k][i] = file[(k - 1) * Chunk + i]
    BY DEF NothingStale
  <2> DEFINE a == Reached(k - 1)
             b == Reached(k)
  <2>1. k \in Nat /\ k - 1 \in Nat /\ (k - 1) + 1 = k /\ k \in 1 .. Len(v) BY DEF TypeOK
  <2>2. file \in Seq(Byte) /\ Len(file) \in Nat /\ v[k] \in Seq(Byte) BY <2>1 DEF TypeOK
  <2>3. a < Len(file) /\ Len(v[k]) <= b - a /\ Starts(v[k], k) BY <2>1 DEF FrameInv
  <2>4. /\ a \in 0 .. Len(file) /\ a = (k - 1) * Chunk
        /\ b = IF Len(file) - a <= Chunk THEN Len(file) ELSE a + Chunk
    BY <2>1, <2>2, <2>3, ReachedIs
  <2>5. \A i \in 1 .. Len(v[k]) : v[k][i] = file[a + i] BY <2>3 DEF Starts
  <2> HIDE DEF a, b
  <2>6. b - a <= Chunk /\ b <= Len(file) /\ b \in Int BY <2>2, <2>4, FramesAssumption
  <2>7. Len(v[k]) \in Nat BY <2>2
  <2>8. Len(v[k]) <= Chunk
    <3> DEFINE len == Len(v[k])
    <3>1. len \in Nat /\ len <= b - a /\ b - a <= Chunk /\ a \in Int /\ b \in Int
      BY <2>3, <2>4, <2>6, <2>7
    <3>2. Chunk \in Int BY FramesAssumption
    <3> HIDE DEF len
    <3>3. len <= Chunk BY ONLY <3>1, <3>2
    <3> QED BY <3>3 DEF len
  <2>9. \A i \in 1 .. Len(v[k]) : a + i \in 1 .. Len(file) BY <2>2, <2>3, <2>4, <2>6, <2>7
  <2>10. DOMAIN file = 1 .. Len(file) BY <2>2
  <2> QED BY <2>4, <2>5, <2>8, <2>9, <2>10
<1> QED BY <1>1, TypeCorrect, FramesInductive, PTL

(***************************************************************************)
(* What is written.                                                        *)
(***************************************************************************)
WriteInv ==
    /\ pc = "read" => next = 0 /\ written = <<>>
    /\ pc \in {"write", "done"} =>
          /\ DOMAIN map = 0 .. Len(v) /\ next \in 0 .. Len(v) + 1
          /\ \A i \in 0 .. Len(v) - 1 : map[i] = v[i + 1]
          /\ Text /\ Lucky => written = SubSeq(file, 1, Reached(next))
    /\ pc = "done" => next = Len(v) + 1

\* Bytes that follow a beginning of a sequence there make it longer.
LEMMA Longer ==
    ASSUME NEW S, NEW f \in Seq(S), NEW a \in 0 .. Len(f), NEW b \in a .. Len(f),
           NEW w \in Seq(S), Len(w) = b - a, \A i \in 1 .. b - a : w[i] = f[a + i]
    PROVE  SubSeq(f, 1, a) \o w = SubSeq(f, 1, b)
<1> DEFINE x == SubSeq(f, 1, a)
           y == SubSeq(f, 1, b)
<1>1. /\ x \in Seq(S) /\ Len(x) = a /\ \A i \in 1 .. a : x[i] = f[i]
  BY SubSeqProperties
<1>2. /\ y \in Seq(S) /\ Len(y) = b /\ \A i \in 1 .. b : y[i] = f[i]
  BY SubSeqProperties
<1> HIDE DEF x, y
<1>3. /\ x \o w \in Seq(S) /\ Len(x \o w) = Len(x) + Len(w)
      /\ \A i \in 1 .. Len(x) + Len(w) :
            (x \o w)[i] = IF i <= Len(x) THEN x[i] ELSE w[i - Len(x)]
  BY <1>1
<1>4. Len(x \o w) = b BY <1>1, <1>3
<1>5. ASSUME NEW i \in 1 .. b PROVE (x \o w)[i] = y[i]
  <2>1. CASE i <= a
    <3>1. i \in 1 .. a BY <2>1
    <3>2. (x \o w)[i] = x[i] BY <1>1, <1>3, <2>1
    <3> QED BY <1>1, <1>2, <3>1, <3>2
  <2>2. CASE i > a
    <3>1. i - a \in 1 .. b - a /\ a + (i - a) = i BY <2>2
    <3>2. (x \o w)[i] = w[i - a] BY <1>1, <1>3, <2>2
    <3>3. w[i - a] = f[a + (i - a)] BY <3>1
    <3> QED BY <1>2, <3>1, <3>2, <3>3
  <2>3. i <= a \/ i > a OBVIOUS
  <2> QED BY <2>1, <2>2, <2>3, Zenon
<1> QED BY <1>2, <1>3, <1>4, <1>5, SeqEqual DEF x, y

\* What the transfer brings.
LEMMA WriteTransfer ==
    ASSUME TypeOK, FramesAgree', WriteInv, Transfer
    PROVE  WriteInv'
<1>1. /\ pc = "read" /\ pc' = "write" /\ next' = next /\ written' = written
      /\ file' = file /\ v' = v
  BY DEF Transfer
<1>2. PICK s \in Strays :
         map' = [i \in 0 .. total_frame(Len(file)) |-> IF i < Len(v) THEN v[i + 1] ELSE s]
  BY DEF Transfer
<1>3. Len(v) = total_frame(Len(file)) BY <1>1 DEF FramesAgree
<1>4. Len(v) \in Nat /\ file \in Seq(Byte) BY DEF TypeOK
<1>5. DOMAIN map' = 0 .. Len(v) BY <1>2, <1>3
<1>6. \A i \in 0 .. Len(v) - 1 : map'[i] = v[i + 1] BY <1>2, <1>3, <1>4
<1>7. next' = 0 /\ written' = <<>> BY <1>1 DEF WriteInv
<1>8. Reached(0)' = 0
  <2>1. Reached(0) = 0 /\ Reached(0)' = Reached(0) BY <1>1, <1>4, ReachedIs, FrameSame
  <2> QED BY <2>1
<1>9. SubSeq(file', 1, 0) = <<>> BY <1>1, <1>4
<1> QED BY <1>1, <1>4, <1>5, <1>6, <1>7, <1>8, <1>9 DEF WriteInv

\* One frame is written.
LEMMA WriteOne ==
    ASSUME TypeOK, MapType, FramesAgree, FrameInv, WriteInv, WriteFrame, Text, Lucky
    PROVE  written' = SubSeq(file, 1, Reached(next + 1))
<1> USE FramesAssumption
<1>1. pc = "write" /\ next \in DOMAIN map /\ written' = written \o map[next]
  BY DEF WriteFrame
<1>2. /\ DOMAIN map = 0 .. Len(v) /\ \A i \in 0 .. Len(v) - 1 : map[i] = v[i + 1]
      /\ written = SubSeq(file, 1, Reached(next))
  BY <1>1 DEF WriteInv
<1>3. Len(v) \in Nat /\ file \in Seq(Byte) /\ v \in Seq(Seq(Byte)) BY DEF TypeOK
<1>4. next \in 0 .. Len(v) BY <1>1, <1>2
<1>5. map[next] \in Seq(Byte) BY <1>1 DEF MapType
<1> DEFINE a == Reached(next)
           b == Reached(next + 1)
<1>6. a \in 0 .. Len(file) /\ b = IF Len(file) - a <= Chunk THEN Len(file) ELSE a + Chunk
  BY <1>3, <1>4, ReachedIs
<1> HIDE DEF a, b
<1>7. Len(file) \in Nat /\ b \in a .. Len(file) /\ b - a <= Chunk BY <1>3, <1>6
<1>8. CASE next < Len(v)
  <2> DEFINE w == v[next + 1]
  <2>1. next + 1 \in 1 .. Len(v) /\ (next + 1) - 1 = next /\ map[next] = w
    BY <1>2, <1>3, <1>4, <1>8
  <2>2. w \in Seq(Byte) BY <1>3, <2>1
  <2>3. Fills(w, next + 1) BY <2>1 DEF FrameInv
  <2>4. Len(w) >= b - a /\ \A i \in 1 .. b - a : w[i] = file[a + i]
    BY <2>1, <2>3 DEF Fills, a, b
  <2>5. Len(w) <= b - a
    <3>1. CASE next = 0
      <4>1. Len(w) <= Chunk /\ Len(w) <= Len(file) BY <3>1 DEF Lucky
      <4>2. a = 0 BY <1>3, <3>1, ReachedIs DEF a
      <4> QED BY <1>6, <1>7, <4>1, <4>2
    <3>2. CASE next # 0
      <4>1. next + 1 \in 2 .. Len(v) BY <1>3, <1>4, <2>1, <3>2
      <4> QED BY <4>1, <2>1 DEF FrameInv, a, b
    <3> QED BY <3>1, <3>2
  <2> HIDE DEF w
  <2>6. Len(w) = b - a
    <3>1. Len(w) \in Nat /\ a \in Int /\ b \in Int BY <1>6, <1>7, <2>2
    <3> QED BY <2>4, <2>5, <3>1
  <2>7. SubSeq(file, 1, a) \o w = SubSeq(file, 1, b)
    BY <1>3, <1>6, <1>7, <2>2, <2>4, <2>6, Longer
  <2> QED BY <1>1, <1>2, <2>1, <2>7 DEF a, b
<1>9. CASE next = Len(v)
  <2>1. map[next] = <<>>
    BY <1>1, <1>9 DEF Lucky, FramesAgree
  <2>2. a = Len(file) BY <1>1, <1>9 DEF FrameInv, a
  <2>3. b = a BY <1>6, <1>7, <2>2
  <2>4. written \o <<>> = written BY DEF TypeOK
  <2> QED BY <1>1, <1>2, <2>1, <2>3, <2>4 DEF a, b
<1> QED BY <1>3, <1>4, <1>8, <1>9

LEMMA WriteStep ==
    ASSUME TypeOK, MapType, FramesAgree, FramesAgree', FrameInv, WriteInv, [Next]_vars
    PROVE  WriteInv'
<1>1. CASE ReadChunk
  BY <1>1 DEF ReadChunk, WriteInv
<1>2. CASE Transfer
  BY <1>2, WriteTransfer
<1>6. CASE NoFrame
  BY <1>6 DEF NoFrame, WriteInv
<1>3. CASE WriteFrame
  <2>1. /\ pc = "write" /\ pc' = "write" /\ next \in DOMAIN map /\ next' = next + 1
        /\ UNCHANGED <<file, v, map>>
    BY <1>3 DEF WriteFrame
  <2>2. /\ DOMAIN map = 0 .. Len(v) /\ \A i \in 0 .. Len(v) - 1 : map[i] = v[i + 1]
        /\ Len(v) \in Nat
    <3>1. Len(v) \in Nat BY DEF TypeOK
    <3> QED BY <2>1, <3>1 DEF WriteInv
  <2>3. next' \in 0 .. Len(v) + 1 BY <2>1, <2>2
  <2>4. Text' /\ Lucky' => Text /\ Lucky BY <2>1 DEF Text, Lucky
  <2>5. Text /\ Lucky => written' = SubSeq(file, 1, Reached(next + 1))
    BY <1>3, WriteOne
  <2>6. Text' /\ Lucky' => written' = SubSeq(file, 1, Reached(next))'
    BY <2>1, <2>4, <2>5 DEF Reached
  <2> QED BY <2>1, <2>2, <2>3, <2>6 DEF WriteInv
<1>4. CASE Close
  <2>1. /\ pc = "write" /\ pc' = "done" /\ next \notin DOMAIN map
        /\ UNCHANGED <<file, v, map, next, written>>
    BY <1>4 DEF Close
  <2>2. next = Len(v) + 1 BY <2>1 DEF WriteInv, TypeOK
  <2> QED BY <2>1, <2>2 DEF WriteInv, Text, Lucky, Reached
<1>5. CASE UNCHANGED vars
  BY <1>5 DEF vars, WriteInv, Text, Lucky, Reached
<1> QED BY <1>1, <1>2, <1>3, <1>4, <1>5, <1>6 DEF Next

\* A file without a zero byte arrives as it was, when the memory of the first
\* frame and the string past the end were lucky: for every such file of one
\* byte or more, writeFile() on what readFile() read restores it.  An empty
\* file never gets there: missing_frame() reads before an empty vector.
THEOREM TextArrivesHolds == Spec => []TextArrives
<1>1. Init => WriteInv BY DEF Init, WriteInv
<1>2. TypeOK /\ MapType /\ FramesAgree /\ FramesAgree' /\ FrameInv /\ WriteInv
        /\ [Next]_vars => WriteInv'
  BY WriteStep
<1>3. TypeOK /\ FrameInv /\ WriteInv => TextArrives
  <2> SUFFICES ASSUME TypeOK, FrameInv, WriteInv, pc = "done", Text, Lucky
               PROVE  written = file
    BY DEF TextArrives
  <2>1. next = Len(v) + 1 /\ written = SubSeq(file, 1, Reached(next))
    BY DEF WriteInv
  <2>2. Len(v) \in Nat /\ file \in Seq(Byte) /\ Len(file) \in Nat BY DEF TypeOK
  <2>3. Reached(Len(v)) = Len(file) BY DEF FrameInv
  <2>4. Reached(Len(v) + 1) = Len(file)
    <3>1. Reached(Len(v) + 1) = IF Len(file) - Reached(Len(v)) <= Chunk THEN Len(file)
                                ELSE Reached(Len(v)) + Chunk
      BY <2>2, ReachedIs
    <3> QED BY <2>2, <2>3, <3>1, FramesAssumption
  <2>5. SubSeq(file, 1, Len(file)) = file
    <3> DEFINE x == SubSeq(file, 1, Len(file))
    <3>1. \A i \in 1 .. Len(file) : file[i] \in Byte BY <2>2
    <3>2. /\ x \in Seq(Byte) /\ Len(x) = Len(file)
          /\ \A i \in 1 .. Len(file) : x[i] = file[i]
      BY <2>2, <3>1, SubSeqProperties
    <3> HIDE DEF x
    <3> QED BY <2>2, <3>2, SeqEqual DEF x
  <2> QED BY <2>1, <2>4, <2>5
<1>4. Spec => [](TypeOK /\ MapType)
  <2>1. Init => TypeOK /\ MapType BY InitType
  <2>2. (TypeOK /\ MapType) /\ [Next]_vars => (TypeOK /\ MapType)' BY NextType
  <2> QED BY <2>1, <2>2, PTL DEF Spec
<1> QED BY <1>1, <1>2, <1>3, <1>4, FramesInductive, HeaderCountsFrames, PTL DEF Spec
=============================================================================
