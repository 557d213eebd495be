------------------------ MODULE MissingRequest_proofs ------------------------
(***************************************************************************)
(* The packing of the missing frame numbers, for every set of them, every  *)
(* buffer size and every length the numbers have.                          *)
(***************************************************************************)
EXTENDS MissingRequest, TLAPS

USE RequestAssumption

\* Before the end, what was sent is below what send_string holds, and that is
\* below what is still to be visited; together they are all missing frames.
Asked == UNION {sent[k].frames : k \in 1 .. Len(sent)}

Partition ==
    /\ held \cup rest \cup Asked = missing
    /\ \A f \in held, g \in rest : f < g
    /\ ~ done => \A f \in Asked, g \in held \cup rest : f < g
    /\ done => rest = {} /\ held \subseteq Asked

\* send_string is empty only before the first number.
Holding ==
    /\ held = {} => len = 0 /\ rest = missing /\ ~ done
    /\ held # {} => len > 1

IInv ==
    /\ TypeOK /\ Partition /\ Holding
    /\ FitsBuffer /\ AllAskedOnce

LEMMA InitInv == Init => IInv
<1> SUFFICES ASSUME Init PROVE IInv
    OBVIOUS
<1>1. TypeOK
  <2>1. done \in BOOLEAN
      BY DEF Init
  <2>2. sent \in Seq(Packets)
      BY DEF Init
  <2> QED
      BY <2>1, <2>2 DEF Init, TypeOK
<1>2. Len(sent) = 0 /\ Asked = {}
    BY DEF Init, Asked
<1>3. Partition
    BY <1>2 DEF Init, Partition
<1>4. Holding
    BY DEF Init, Holding
<1>5. FitsBuffer
    BY <1>2 DEF FitsBuffer
<1>6. AllAskedOnce
    BY <1>2 DEF Init, AllAskedOnce
<1> QED
    BY <1>1, <1>3, <1>4, <1>5, <1>6 DEF IInv

\* What a member of rest is.
LEMMA NextFacts ==
    ASSUME IInv, NEW f \in rest
    PROVE  /\ f \in missing /\ f \in Nat
           /\ Digits[f] \in Nat /\ Digits[f] >= 1 /\ Digits[f] < DATABUFFER_SIZE
           /\ held \subseteq Nat /\ rest \subseteq Nat
           /\ DATABUFFER_SIZE \in Nat /\ len \in Nat /\ len <= DATABUFFER_SIZE
    BY DEF IInv, TypeOK

\* One packet more.
LEMMA SendFacts ==
    ASSUME IInv, ~ done, held # {},
           NEW t \in {"SEND_MISSING", "SEND_MISSING_DONE"}, SendString(t)
    PROVE  /\ sent' \in Seq(Packets)
           /\ Len(sent') = Len(sent) + 1 /\ Len(sent) \in Nat
           /\ \A k \in 1 .. Len(sent) : sent'[k] = sent[k]
           /\ sent'[Len(sent')] = [type |-> t, frames |-> held, size |-> len - 1]
           /\ Asked' = Asked \cup held
           /\ FitsBuffer'
           /\ \A j, k \in 1 .. Len(sent') : j < k =>
                  \A f \in sent'[j].frames, g \in sent'[k].frames : f < g
<1> DEFINE p == [type |-> t, frames |-> held, size |-> len - 1]
<1>1. sent \in Seq(Packets) /\ len \in 0 .. DATABUFFER_SIZE /\ len > 1
    BY DEF IInv, TypeOK, Holding
<1>2. held \subseteq Nat
    BY DEF IInv, TypeOK
<1>3. p \in Packets
    BY <1>1, <1>2 DEF Packets
<1>4. sent' = Append(sent, p)
    BY DEF SendString
<1> HIDE DEF p
<1>5. /\ sent' \in Seq(Packets)
      /\ Len(sent') = Len(sent) + 1 /\ Len(sent) \in Nat
      /\ \A k \in 1 .. Len(sent) : sent'[k] = sent[k]
      /\ sent'[Len(sent) + 1] = p
    BY <1>1, <1>3, <1>4
<1>6. Asked' = Asked \cup held
  <2>1. 1 .. Len(sent') = (1 .. Len(sent)) \cup {Len(sent) + 1}
      BY <1>5
  <2>2. p.frames = held
      BY DEF p
  <2> QED
      BY <1>5, <2>1, <2>2 DEF Asked
<1>7. FitsBuffer'
  <2>1. p.size \in 1 .. DATABUFFER_SIZE - 1 /\ p.frames # {}
      BY <1>1 DEF p
  <2> QED
      BY <1>5, <2>1 DEF IInv, FitsBuffer
<1>8. ASSUME NEW j \in 1 .. Len(sent'), NEW k \in 1 .. Len(sent'), j < k,
             NEW f \in sent'[j].frames, NEW g \in sent'[k].frames
      PROVE  f < g
  <2>1. j \in 1 .. Len(sent) /\ sent'[j] = sent[j]
      BY <1>5, <1>8
  <2>2. CASE k = Len(sent) + 1
    <3>1. g \in held
        BY <1>5, <1>8, <2>2 DEF p
    <3>2. f \in Asked
        BY <1>8, <2>1 DEF Asked
    <3> QED
        BY <3>1, <3>2 DEF IInv, Partition
  <2>3. CASE k # Len(sent) + 1
      BY <1>5, <1>8, <2>1, <2>3 DEF IInv, AllAskedOnce
  <2> QED
      BY <2>2, <2>3
<1> QED
    BY <1>5, <1>6, <1>7, <1>8 DEF p

LEMMA AppendInv ==
    ASSUME IInv, NEW f \in rest, AppendNumber(f)
    PROVE  IInv'
<1> USE NextFacts DEF AppendNumber, IsNext, Fits
<1>1. TypeOK'
    BY DEF IInv, TypeOK
<1>2. Asked' = Asked
    BY DEF Asked
<1>3. Partition'
    BY <1>2 DEF IInv, Partition
<1>4. Holding'
    BY DEF IInv, Holding
<1>5. FitsBuffer' /\ AllAskedOnce'
    BY <1>2 DEF IInv, FitsBuffer, AllAskedOnce
<1> QED
    BY <1>1, <1>3, <1>4, <1>5 DEF IInv

LEMMA FlushInv ==
    ASSUME IInv, NEW f \in rest, Flush(f)
    PROVE  IInv'
<1>1. held # {}
    BY NextFacts DEF Flush, Fits, IInv, Holding
<1>2. /\ ~ done /\ ~ done' /\ SendString("SEND_MISSING") /\ missing' = missing
      /\ held' = {f} /\ len' = Digits[f] + 1 /\ rest' = rest \ {f}
      /\ \A g \in rest : f <= g
    BY DEF Flush, IsNext
<1>3. TypeOK'
  <2>1. done' \in BOOLEAN
      BY DEF Flush, IInv, TypeOK
  <2>2. sent' \in Seq(Packets)
      BY <1>1, <1>2, SendFacts
  <2> QED
      BY <1>2, <2>1, <2>2, NextFacts DEF IInv, TypeOK
<1>4. Asked' = Asked \cup held
    BY <1>1, <1>2, SendFacts
<1>5. Partition'
    BY <1>2, <1>4, NextFacts DEF IInv, Partition
<1>6. Holding'
    BY <1>2, NextFacts DEF Holding
<1>7. FitsBuffer' /\ AllAskedOnce'
    BY <1>1, <1>2, SendFacts DEF AllAskedOnce
<1> QED
    BY <1>3, <1>5, <1>6, <1>7 DEF IInv

LEMMA FinishInv ==
    ASSUME IInv, Finish
    PROVE  IInv'
<1>1. /\ ~ done /\ done' /\ SendString("SEND_MISSING_DONE") /\ rest = {}
      /\ UNCHANGED <<missing, rest, held, len>>
    BY DEF Finish
<1>2. held # {}
    BY <1>1 DEF IInv, Holding, TypeOK
<1>3. TypeOK'
    BY <1>1, <1>2, SendFacts DEF IInv, TypeOK, Finish
<1>4. Asked' = Asked \cup held
    BY <1>1, <1>2, SendFacts
<1>5. Partition'
    BY <1>1, <1>4 DEF IInv, Partition
<1>6. Holding'
    BY <1>1, <1>2 DEF IInv, Holding
<1>7. FitsBuffer'
    BY <1>1, <1>2, SendFacts
<1>8. AllAskedOnce'
  <2>1. Asked' = missing'
      BY <1>1, <1>5 DEF Partition
  <2> QED
      BY <1>1, <1>2, <2>1, SendFacts DEF AllAskedOnce, Asked
<1> QED
    BY <1>3, <1>5, <1>6, <1>7, <1>8 DEF IInv

LEMMA StutterInv ==
    ASSUME IInv, UNCHANGED vars
    PROVE  IInv'
<1> USE DEF vars
<1>1. TypeOK'
    BY DEF IInv, TypeOK
<1>2. Asked' = Asked
    BY DEF Asked
<1>3. Partition'
    BY <1>2 DEF IInv, Partition
<1>4. Holding' /\ FitsBuffer' /\ AllAskedOnce'
    BY DEF IInv, Holding, FitsBuffer, AllAskedOnce
<1> QED
    BY <1>1, <1>3, <1>4 DEF IInv

LEMMA PackingInductive == Spec => []IInv
<1>1. IInv /\ [Next]_vars => IInv'
    BY AppendInv, FlushInv, FinishInv, StutterInv DEF Next
<1> QED
    BY InitInv, <1>1, PTL DEF Spec

\* No request packet overflows dataBuffer, and none is empty: the strcpy() of
\* send_packet() and the stoi() of the interpreter are safe for every set.
THEOREM FitsBufferHolds == Spec => []FitsBuffer
    BY PackingInductive, PTL DEF IInv

\* Every missing frame is in exactly one packet of the request.
THEOREM AllAskedOnceHolds == Spec => []AllAskedOnce
    BY PackingInductive, PTL DEF IInv
=============================================================================
