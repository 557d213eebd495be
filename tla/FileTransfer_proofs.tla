------------------------- MODULE FileTransfer_proofs -------------------------
(***************************************************************************)
(* For every file, every limit and both directions: type correctness and   *)
(* the safety of one transfer, over any network; then, that every          *)
(* behaviour of the transfer over the queues of FileTransferFifo is one of *)
(* FileTransfer: what is proved of the peers against any network holds on  *)
(* the path they were run on.  There a prompt sender that loses fewer      *)
(* datagrams than the file has frames never makes receive_file() read an   *)
(* empty vector.                                                           *)
(***************************************************************************)
EXTENDS FileTransferFifo, FiniteSetTheorems, SequenceTheorems, TLAPS

USE TransferAssumption

(***************************************************************************)
(* Type correctness.                                                       *)
(***************************************************************************)
LEMMA SignalsAreSignals ==
    /\ {Zeroed, FileDone, MissingDoneAck, GetAllAck} \subseteq Signals
    /\ {FileDoneAck, GetAll} \subseteq Signals
    BY DEF Zeroed, FileDone, FileDoneAck, MissingDoneAck, GetAll, GetAllAck,
           Signals, SignalTypes

LEMMA FramesAreFrames ==
    ASSUME NEW i \in Int, NEW d \in Payload
    PROVE  IsFrame(Frame(i, d))
    BY DEF IsFrame, Frame

\* Every packet of a request asks for some of the frames it was made from.
LEMMA RequestsAreRequests ==
    ASSUME NEW S \in SUBSET Int, NEW p \in RequestPackets(S)
    PROVE  IsRequest(p) /\ p.frames \subseteq S
    BY DEF RequestPackets, LastRequest, Chunk, IsRequest, Request

LEMMA LastRequestIsRequest ==
    ASSUME NEW S \in SUBSET Int
    PROVE  /\ IsRequest(LastRequest(S)) /\ LastRequest(S).frames \subseteq S
           /\ LastRequest(S).type = "SEND_MISSING_DONE"
    BY DEF LastRequest, Chunk, IsRequest, Request

\* A signal has none of the types that carry frames or frame numbers.
LEMMA SignalOrFrame ==
    ASSUME NEW p, ToReceiver(p), p.type = "SEND_PACKET"
    PROVE  IsFrame(p)
    BY DEF ToReceiver, Signals, SignalTypes, Signal

LEMMA SignalOrRequest ==
    ASSUME NEW p, ToSender(p), p.type \in {"SEND_MISSING", "SEND_MISSING_DONE"}
    PROVE  IsRequest(p)
    BY DEF ToSender, Signals, SignalTypes, Signal

LEMMA InterpretedType ==
    ASSUME NEW p, ToSender(p)
    PROVE  missing_frame_packet_interpreter(p) \in SUBSET Int
    BY SignalOrRequest DEF missing_frame_packet_interpreter, IsRequest

LEMMA StoredType ==
    ASSUME TypeOK, NEW p, ToReceiver(p)
    PROVE  /\ DOMAIN Stored(p) \in SUBSET Int
           /\ \A i \in DOMAIN Stored(p) : Stored(p)[i] \in Payload
    BY SignalOrFrame DEF Stored, TypeOK, IsFrame

LEMMA MissingType ==
    ASSUME NEW D \in SUBSET Int
    PROVE  missing_frame(D) \in SUBSET Int
    BY DEF missing_frame, Lacking

\* A report, whichever the state it is made from.
LEMMA ReportType ==
    ASSUME TypeOK, NEW S \in SUBSET Int, NEW addr, RReport(S, addr)
    PROVE  /\ rpc' \in ReceiverStates /\ missing' \in SUBSET Int
           /\ tries' \in 0 .. MAX_SEND + 2 /\ ToReceiver(lbuf')
           /\ \A p \in toS' : ToSender(p)
<1>1. \A p \in {FileDoneAck, GetAll} \cup RequestPackets(S) : ToSender(p)
    BY SignalsAreSignals, RequestsAreRequests DEF ToSender
<1>2. ToReceiver(Zeroed) /\ ToReceiver(MissingDoneAck)
    BY SignalsAreSignals DEF ToReceiver
<1> QED
    BY <1>1, <1>2 DEF RReport, ReplyTo, TypeOK, ReceiverStates

LEMMA GatherEndType ==
    ASSUME TypeOK, NEW m, DOMAIN m \in SUBSET Int, NEW addr, RGatherEnd(m, addr)
    PROVE  /\ rpc' \in ReceiverStates /\ missing' \in SUBSET Int
           /\ tries' \in 0 .. MAX_SEND + 2 /\ ToReceiver(lbuf')
           /\ \A p \in toS' : ToSender(p)
<1>1. CASE DOMAIN m # {} /\ RReport(missing_frame(DOMAIN m), addr)
    BY <1>1, MissingType, ReportType
<1>2. CASE addr = "none" /\ RExit
    BY <1>2 DEF RExit, TypeOK, ReceiverStates
<1>3. CASE /\ rpc' = "crashed"
           /\ ReplyTo(addr, {FileDoneAck})
           /\ UNCHANGED <<missing, lbuf, tries>>
    BY <1>3, SignalsAreSignals DEF ReplyTo, TypeOK, ReceiverStates, ToSender
<1> QED
    BY <1>1, <1>2, <1>3 DEF RGatherEnd

\* What a resend puts on the wire.
LEMMA ResentType ==
    ASSUME NEW S \in SUBSET Int, NEW stray \in [S \ InFile -> Stray],
           NEW p \in ResentFrames(S, stray)
    PROVE  IsFrame(p)
<1>1. PICK f \in S : p = Frame(f, IF f \in InFile THEN File[f] ELSE stray[f])
    BY DEF ResentFrames
<1>2. (IF f \in InFile THEN File[f] ELSE stray[f]) \in Payload
    BY DEF InFile
<1> QED
    BY <1>1, <1>2, FramesAreFrames

LEMMA ResentInFileType ==
    ASSUME NEW S, NEW stray, NEW p \in ResentFrames(S \cap InFile, stray)
    PROVE  IsFrame(p)
<1>1. PICK f \in InFile : p = Frame(f, File[f])
    BY DEF ResentFrames
<1>2. f \in Int /\ File[f] \in Payload
    BY DEF InFile
<1> QED
    BY <1>1, <1>2, FramesAreFrames

LEMMA TypeInit == Init => TypeOK
<1> SUFFICES ASSUME Init PROVE TypeOK
    OBVIOUS
<1>1. ToReceiver(Zeroed) /\ ToSender(Zeroed)
    BY SignalsAreSignals DEF ToReceiver, ToSender
<1> QED
    BY <1>1, LeftoverAssumption
    DEF Init, TypeOK, SenderStates, ReceiverStates, Addresses

LEMMA TypeSender ==
    ASSUME TypeOK, Sender
    PROVE  TypeOK'
<1>r. UNCHANGED receiverVars
    BY DEF Sender, SSendFile, SAwaitDoneAck, SAwaitRequest, SAwaitDoneAckAgain
<1>s. \A p \in Signals : ToReceiver(p)
    BY DEF ToReceiver
<1> SUFFICES /\ spc' \in SenderStates /\ ToSender(sbuf') /\ mfs' \in SUBSET Int
             /\ \A p \in toR' : ToReceiver(p)
    BY <1>r DEF TypeOK, receiverVars
<1>1. CASE SSendFile
    <2>1. \A i \in InFile : IsFrame(Frame(i, File[i]))
        BY FramesAreFrames DEF InFile
    <2> QED
        BY <1>1, <2>1, SignalsAreSignals DEF SSendFile, TypeOK, SenderStates, ToReceiver
<1>2. ASSUME NEW p \in SenderInput, SAwaitDoneAck(p) \/ SAwaitRequest(p) \/ SAwaitDoneAckAgain(p)
      PROVE  /\ spc' \in SenderStates /\ ToSender(sbuf') /\ mfs' \in SUBSET Int
             /\ \A q \in toR' : ToReceiver(q)
    <2>1. ToSender(p)
        BY DEF SenderInput, TypeOK
    <2>2. missing_frame_packet_interpreter(p) \in SUBSET Int
        BY <2>1, InterpretedType
    <2>3. sbuf' = p
        BY <1>2 DEF SAwaitDoneAck, SAwaitRequest, SAwaitDoneAckAgain
    <2>4. CASE SAwaitDoneAck(p)
        BY <2>1, <2>4, <1>s, SignalsAreSignals DEF SAwaitDoneAck, TypeOK, SenderStates
    <2>5. CASE SAwaitDoneAckAgain(p)
        BY <2>1, <2>5, <1>s, SignalsAreSignals
        DEF SAwaitDoneAckAgain, SFinish, TypeOK, SenderStates
    <2>6. CASE SAwaitRequest(p)
        <3>1. CASE SResendMissing(mfs \cup missing_frame_packet_interpreter(p))
            <4> DEFINE S == mfs \cup missing_frame_packet_interpreter(p)
            <4>1. S \in SUBSET Int
                BY <2>2 DEF TypeOK
            <4>2. \A q \in ResentFrames(S \cap InFile, <<>>) : IsFrame(q)
                BY ResentInFileType
            <4>3. \A stray \in [S \ InFile -> Stray] : \A q \in ResentFrames(S, stray) : IsFrame(q)
                BY <4>1, ResentType
            <4> QED
                BY <3>1, <2>1, <2>3, <4>1, <4>2, <4>3, SignalsAreSignals
                DEF SResendMissing, TypeOK, SenderStates, ToReceiver
        <3>2. CASE ~ SResendMissing(mfs \cup missing_frame_packet_interpreter(p))
            BY <3>2, <2>6, <2>1, <2>2, <1>s, SignalsAreSignals
            DEF SAwaitRequest, SFinish, TypeOK, SenderStates
        <3> QED
            BY <3>1, <3>2
    <2> QED
        BY <1>2, <2>4, <2>5, <2>6
<1> QED
    BY <1>1, <1>2 DEF Sender

LEMMA TypeReceiver ==
    ASSUME TypeOK, Receiver
    PROVE  TypeOK'
<1>s. UNCHANGED senderVars
    BY DEF Receiver, RFirst, RGather, RRequest, RAnswer, RCollect, RFinal,
           RGatherTimeout, RCollectTimeout
<1>t. ToReceiver(Zeroed)
    BY SignalsAreSignals DEF ToReceiver
<1>g. ToSender(GetAll)
    BY SignalsAreSignals DEF ToSender
<1>l. ToSender(LastRequest(missing))
    BY LastRequestIsRequest DEF ToSender, TypeOK
<1>m. DOMAIN rmap \in SUBSET Int /\ missing \in SUBSET Int
    BY DEF TypeOK
<1>1. ASSUME NEW p \in toR \cup {rbuf, lbuf}, NEW src \in Addresses,
             \/ RFirst(p, src) \/ RGather(p, src) \/ RRequest(p, src)
             \/ RAnswer(p, src) \/ RCollect(p, src) \/ RFinal(p, src)
      PROVE  TypeOK'
    <2>p. ToReceiver(p)
        BY DEF TypeOK
    <2>q. /\ DOMAIN Stored(p) \in SUBSET Int
          /\ \A i \in DOMAIN Stored(p) : Stored(p)[i] \in Payload
        BY <2>p, StoredType
    <2>1. CASE RFirst(p, src) \/ RGather(p, src)
        <3>1. CASE RGatherEnd(Stored(p), src)
            BY <2>1, <3>1, <1>s, <1>t, <2>p, <2>q, GatherEndType
            DEF RFirst, RGather, senderVars, TypeOK
        <3>2. CASE ~ RGatherEnd(Stored(p), src)
            BY <2>1, <3>2, <1>s, <1>t, <2>p, <2>q
            DEF RFirst, RGather, senderVars, TypeOK, ReceiverStates
        <3> QED
            BY <3>1, <3>2
    <2>2. CASE RRequest(p, src)
        BY <2>2, <1>s, <1>l, <2>p
        DEF RRequest, ReplyTo, GivesUp, senderVars, TypeOK, ReceiverStates
    <2>3. CASE RAnswer(p, src) \/ RCollect(p, src)
        <3>1. CASE RReport(missing, src) /\ UNCHANGED rmap
            BY <2>3, <3>1, <1>s, <1>m, <2>p, ReportType
            DEF RAnswer, RCollect, senderVars, TypeOK
        <3>2. CASE RTake(p)
            BY <2>3, <3>2, <1>s, <1>m, <2>p, <2>q
            DEF RAnswer, RCollect, RTake, senderVars, TypeOK, ReceiverStates
        <3> QED
            BY <2>3, <3>1, <3>2 DEF RAnswer, RCollect
    <2>4. CASE RFinal(p, src)
        BY <2>4, <1>s, <1>g, <2>p
        DEF RFinal, ReplyTo, GivesUp, senderVars, TypeOK, ReceiverStates
    <2> QED
        BY <1>1, <2>1, <2>2, <2>3, <2>4
<1>2. CASE RGatherTimeout
    BY <1>2, <1>s, <1>m, GatherEndType DEF RGatherTimeout, senderVars, TypeOK
<1>3. CASE RCollectTimeout
    BY <1>3, <1>s, <1>m, ReportType DEF RCollectTimeout, senderVars, TypeOK
<1> QED
    BY <1>1, <1>2, <1>3 DEF Receiver

\* Type correctness of both peers and of everything on the wire, for every
\* file, every leftover and every limit: send_file() and receive_file().
THEOREM TypeCorrect == Spec => []TypeOK
<1>1. TypeOK /\ UNCHANGED vars => TypeOK'
    BY DEF TypeOK, vars, senderVars, receiverVars
<1>2. TypeOK /\ [Next]_vars => TypeOK'
    BY <1>1, TypeSender, TypeReceiver DEF Next
<1> QED
    BY TypeInit, <1>2, PTL DEF Spec

(***************************************************************************)
(* The inductive invariant.  Completeness alone is not inductive: it needs *)
(* to know that every frame on the wire is the sender's own (WireInv),     *)
(* that what is stored came from there (MapInv), that missing accounts for *)
(* everything not stored (ProgressInv), and that GET_ALL_FILE and its      *)
(* acknowledgement are sent in that order (SignalInv).                     *)
(***************************************************************************)
Total == 0 .. total_frame

GoodFrame(p) ==
    /\ IsFrame(p)
    /\ p.seq \in Total
    /\ p.seq \in InFile => p.data = File[p.seq]

\* Frames carry what the sender read; requests name frames up to the phantom.
WireInv ==
    /\ \A p \in toR \cup {rbuf, lbuf} : p.type = "SEND_PACKET" => GoodFrame(p)
    /\ \A p \in toS \cup {sbuf} :
          p.type \in {"SEND_MISSING", "SEND_MISSING_DONE"} => p.frames \subseteq Total
    /\ mfs \subseteq Total

MapInv ==
    /\ DOMAIN rmap \subseteq Total
    /\ \A i \in DOMAIN rmap : i \in InFile => rmap[i] = File[i]

ProgressInv ==
    /\ MissingExact
    /\ rpc \in {"final", "done"} => Total \subseteq DOMAIN rmap

SignalInv ==
    /\ sbuf \in toS \cup {Zeroed}
    /\ rbuf \in toR \cup {Zeroed}
    /\ \A p \in toS : p.type = "GET_ALL_FILE" => rpc \in {"final", "done"}
    /\ \A p \in toR : p.type = "GET_ALL_FILE_ACK" => spc = "end"
    /\ spc = "end" => rpc \in {"final", "done"}

IInv == TypeOK /\ WireInv /\ MapInv /\ ProgressInv /\ SignalInv

LEMMA SafetyInit ==
    ASSUME Init, HandshakeOnly
    PROVE  IInv
<1>1. TypeOK
    BY TypeInit
<1>2. /\ \A p \in LeftoverR \cup {Zeroed} : p.type \in {"SEND_FILE_STATUS", "MESSAGE_REQUEST"}
      /\ \A p \in LeftoverS \cup {Zeroed} : p.type \in {"SEND_FILE_STATUS_ACK", "MESSAGE_REQUEST"}
    BY DEF HandshakeOnly, Signal, Zeroed
<1>3. WireInv
    BY <1>2 DEF Init, WireInv
<1>4. MapInv /\ ProgressInv
    BY DEF Init, MapInv, ProgressInv, MissingExact
<1>5. SignalInv
    BY <1>2 DEF Init, SignalInv
<1> QED
    BY <1>1, <1>3, <1>4, <1>5 DEF IInv

\* The frames of the file, sent once or again, are the sender's own.
LEMMA FileFramesGood ==
    ASSUME NEW i \in InFile
    PROVE  /\ GoodFrame(Frame(i, File[i]))
           /\ Frame(i, File[i]).type = "SEND_PACKET"
<1>1. i \in Int /\ i \in Total /\ File[i] \in Payload
    BY DEF InFile, Total
<1> QED
    BY <1>1, FramesAreFrames DEF GoodFrame, Frame

LEMMA ResentGood ==
    ASSUME NEW S, S \subseteq Total, NEW stray \in [S \ InFile -> Stray],
           NEW p \in ResentFrames(S, stray)
    PROVE  GoodFrame(p) /\ p.type = "SEND_PACKET"
<1>1. PICK f \in S : p = Frame(f, IF f \in InFile THEN File[f] ELSE stray[f])
    BY DEF ResentFrames
<1>2. CASE f \in InFile
    BY <1>1, <1>2, FileFramesGood
<1>3. CASE f \notin InFile
    <2>1. f \in Int /\ f \in Total /\ stray[f] \in Payload
        BY <1>3 DEF Total
    <2> QED
        BY <1>1, <1>3, <2>1, FramesAreFrames DEF GoodFrame, Frame
<1> QED
    BY <1>2, <1>3

LEMMA ResentInFileGood ==
    ASSUME NEW S, NEW stray, NEW p \in ResentFrames(S \cap InFile, stray)
    PROVE  GoodFrame(p) /\ p.type = "SEND_PACKET"
<1>1. PICK f \in InFile : p = Frame(f, File[f])
    BY DEF ResentFrames
<1> QED
    BY <1>1, FileFramesGood

\* The types of the signals a peer sends.
LEMMA SignalTypesAre ==
    /\ Zeroed.type = "MESSAGE_REQUEST"
    /\ FileDone.type = "SEND_FILE_DONE"
    /\ FileDoneAck.type = "SEND_FILE_DONE_ACK"
    /\ MissingDoneAck.type = "SEND_MISSING_DONE_ACK"
    /\ GetAll.type = "GET_ALL_FILE"
    /\ GetAllAck.type = "GET_ALL_FILE_ACK"
    BY DEF Zeroed, FileDone, FileDoneAck, MissingDoneAck, GetAll, GetAllAck, Signal

LEMMA SafetySender ==
    ASSUME IInv, Sender
    PROVE  WireInv' /\ MapInv' /\ ProgressInv' /\ SignalInv'
<1>r. UNCHANGED receiverVars
    BY DEF Sender, SSendFile, SAwaitDoneAck, SAwaitRequest, SAwaitDoneAckAgain
<1>m. MapInv' /\ ProgressInv'
    BY <1>r DEF IInv, MapInv, ProgressInv, MissingExact, receiverVars
<1>1. CASE SSendFile
    <2>1. \A p \in toR' \ toR : \/ GoodFrame(p) /\ p.type = "SEND_PACKET"
                                \/ p.type = "SEND_FILE_DONE"
        BY <1>1, FileFramesGood, SignalTypesAre DEF SSendFile
    <2>2. toR \subseteq toR' /\ spc # "end"
        BY <1>1 DEF SSendFile
    <2>3. WireInv'
        BY <1>1, <1>r, <2>1, <2>2 DEF IInv, WireInv, SSendFile, receiverVars
    <2>4. SignalInv'
        BY <1>1, <1>r, <2>1, <2>2 DEF IInv, SignalInv, SSendFile, receiverVars
    <2> QED
        BY <2>3, <2>4, <1>m
<1>2. ASSUME NEW p \in SenderInput, SAwaitDoneAck(p) \/ SAwaitRequest(p) \/ SAwaitDoneAckAgain(p)
      PROVE  WireInv' /\ SignalInv'
    <2> DEFINE asked == missing_frame_packet_interpreter(p)
    <2>1. p \in toS \cup {Zeroed} /\ sbuf' = p
        BY <1>2 DEF IInv, SignalInv, SenderInput, SAwaitDoneAck, SAwaitRequest, SAwaitDoneAckAgain
    <2>2. asked \subseteq Total
        BY <2>1, SignalTypesAre DEF IInv, WireInv, missing_frame_packet_interpreter
    <2>3. p.type \in {"SEND_MISSING", "SEND_MISSING_DONE"} => p.frames \subseteq Total
        BY <2>1, SignalTypesAre DEF IInv, WireInv
    <2>4. p.type = "GET_ALL_FILE" => rpc \in {"final", "done"}
        BY <2>1, SignalTypesAre DEF IInv, SignalInv
    <2>5. CASE SFinish /\ p.type = "GET_ALL_FILE"
        <3>1. \A q \in toR' \ toR : q.type = "GET_ALL_FILE_ACK"
            BY <2>5, SignalTypesAre DEF SFinish
        <3>2. toR \subseteq toR' /\ spc' = "end" /\ mfs' = mfs
            BY <2>5 DEF SFinish
        <3> QED
            BY <1>r, <2>1, <2>3, <2>4, <2>5, <3>1, <3>2
            DEF IInv, WireInv, SignalInv, receiverVars
    <2>6. CASE SResendMissing(mfs \cup asked) /\ spc = "awaitRequest"
        <3>1. mfs \cup asked \subseteq Total
            BY <2>2 DEF IInv, WireInv
        <3>2. \A q \in toR' \ toR : \/ GoodFrame(q) /\ q.type = "SEND_PACKET"
                                    \/ q.type \in {"SEND_FILE_DONE", "SEND_MISSING_DONE_ACK"}
            BY <2>6, <3>1, ResentGood, ResentInFileGood, SignalTypesAre DEF SResendMissing
        <3>3. toR \subseteq toR' /\ mfs' = mfs \cup asked /\ spc' # "end"
            BY <2>6 DEF SResendMissing
        <3> QED
            BY <1>r, <2>1, <2>3, <2>6, <3>1, <3>2, <3>3
            DEF IInv, WireInv, SignalInv, receiverVars
    <2>7. CASE /\ spc # "end" /\ spc' # "end"
               /\ toR' \subseteq toR \cup {FileDone} /\ toR \subseteq toR'
               /\ mfs' \in {{}, mfs, mfs \cup asked}
        <3>1. \A q \in toR' \ toR : q.type = "SEND_FILE_DONE"
            BY <2>7, SignalTypesAre
        <3> QED
            BY <1>r, <2>1, <2>2, <2>3, <2>7, <3>1
            DEF IInv, WireInv, SignalInv, receiverVars
    <2> QED
        BY <1>2, <2>5, <2>6, <2>7
        DEF SAwaitDoneAck, SAwaitRequest, SAwaitDoneAckAgain
<1> QED
    BY <1>1, <1>2, <1>m DEF Sender

\* Storing a packet off the wire adds its frame and nothing else.
LEMMA StoredGood ==
    ASSUME MapInv, NEW p, p.type = "SEND_PACKET" => GoodFrame(p)
    PROVE  /\ DOMAIN Stored(p) \subseteq Total
           /\ \A i \in DOMAIN Stored(p) : i \in InFile => Stored(p)[i] = File[i]
           /\ DOMAIN Stored(p) = DOMAIN rmap \cup (IF p.type = "SEND_PACKET" THEN {p.seq} ELSE {})
    BY DEF Stored, MapInv, GoodFrame

LEMMA MissingIsComplement ==
    ASSUME NEW D, D \subseteq Total
    PROVE  missing_frame(D) = Total \ D
<1>1. \A g \in D : 0 .. g \subseteq Total
    BY DEF Total
<1> QED
    BY <1>1 DEF missing_frame, Lacking, Total

\* What reports GET_ALL_FILE has everything; the rest asks for what it lacks.
LEMMA ReportSafe ==
    ASSUME IInv, NEW S \in SUBSET Int, S = Total \ DOMAIN rmap', DOMAIN rmap' \subseteq Total,
           NEW addr, RReport(S, addr), rpc \notin {"final", "done"}, UNCHANGED senderVars
    PROVE  /\ ProgressInv'
           /\ lbuf' \in {lbuf, Zeroed, MissingDoneAck}
           /\ \A p \in toS' : p.type \in {"SEND_MISSING", "SEND_MISSING_DONE"} =>
                                  p.frames \subseteq Total
           /\ \A p \in toS' : p.type = "GET_ALL_FILE" => rpc' \in {"final", "done"}
           /\ toS \subseteq toS' /\ spc # "end"
<1>1. ProgressInv'
    BY DEF RReport, ProgressInv, MissingExact, Total
<1>2. \A p \in RequestPackets(S) : IsRequest(p) /\ p.frames \subseteq S
    BY RequestsAreRequests
<1>3. /\ \A p \in toS : p.type # "GET_ALL_FILE"
      /\ spc # "end"
    BY DEF IInv, SignalInv
<1>4. CASE S = {} /\ rpc' = "final" /\ ReplyTo(addr, {FileDoneAck, GetAll}) /\ UNCHANGED lbuf
    BY <1>1, <1>3, <1>4, SignalTypesAre DEF ReplyTo, IInv, WireInv
<1>5. CASE /\ S # {} /\ ReplyTo(addr, {FileDoneAck} \cup RequestPackets(S))
           /\ lbuf' \in {Zeroed, MissingDoneAck}
    <2>1. \A p \in toS' : p \in toS \/ p = FileDoneAck \/ (IsRequest(p) /\ p.frames \subseteq S)
        BY <1>5, <1>2 DEF ReplyTo
    <2>2. toS \subseteq toS'
        BY <1>5 DEF ReplyTo
    <2>3. \A p : IsRequest(p) => p.type # "GET_ALL_FILE"
        BY DEF IsRequest
    <2> QED
        BY <1>1, <1>3, <1>5, <2>1, <2>2, <2>3, SignalTypesAre DEF IInv, WireInv
<1> QED
    BY <1>4, <1>5 DEF RReport

LEMMA GatherEndSafe ==
    ASSUME IInv, DOMAIN rmap' \subseteq Total,
           NEW addr, RGatherEnd(rmap', addr), rpc \in {"first", "gather"}, UNCHANGED senderVars
    PROVE  /\ ProgressInv'
           /\ lbuf' \in {lbuf, Zeroed, MissingDoneAck}
           /\ \A p \in toS' : p.type \in {"SEND_MISSING", "SEND_MISSING_DONE"} =>
                                  p.frames \subseteq Total
           /\ \A p \in toS' : p.type = "GET_ALL_FILE" => rpc' \in {"final", "done"}
           /\ toS \subseteq toS' /\ spc # "end"
<1>1. \A p \in toS : p.type # "GET_ALL_FILE"
    BY DEF IInv, SignalInv
<1>2. spc # "end"
    BY DEF IInv, SignalInv
<1>3. CASE RReport(missing_frame(DOMAIN rmap'), addr)
    <2>1. missing_frame(DOMAIN rmap') = Total \ DOMAIN rmap'
        BY MissingIsComplement
    <2>2. Total \ DOMAIN rmap' \in SUBSET Int
        BY DEF Total
    <2> QED
        BY <1>3, <2>1, <2>2, ReportSafe
<1>4. CASE addr = "none" /\ RExit
    BY <1>1, <1>2, <1>4 DEF RExit, ProgressInv, MissingExact, IInv, WireInv
<1>5. CASE /\ rpc' = "crashed" /\ ReplyTo(addr, {FileDoneAck})
           /\ UNCHANGED <<missing, lbuf, tries>>
    BY <1>1, <1>2, <1>5, SignalTypesAre
    DEF ReplyTo, ProgressInv, MissingExact, IInv, WireInv
<1> QED
    BY <1>3, <1>4, <1>5 DEF RGatherEnd

LEMMA SafetyReceiver ==
    ASSUME IInv, Receiver
    PROVE  WireInv' /\ MapInv' /\ ProgressInv' /\ SignalInv'
<1>s. UNCHANGED senderVars
    BY DEF Receiver, RFirst, RGather, RRequest, RAnswer, RCollect, RFinal,
           RGatherTimeout, RCollectTimeout
<1>t. DOMAIN rmap \subseteq Total
    BY DEF IInv, MapInv
<1>z. Zeroed.type # "SEND_PACKET" /\ MissingDoneAck.type # "SEND_PACKET"
    BY SignalTypesAre
<1>1. ASSUME NEW p \in toR \cup {rbuf, lbuf}, NEW src \in Addresses,
             \/ RFirst(p, src) \/ RGather(p, src) \/ RRequest(p, src)
             \/ RAnswer(p, src) \/ RCollect(p, src) \/ RFinal(p, src)
      PROVE  WireInv' /\ MapInv' /\ ProgressInv' /\ SignalInv'
    <2>p. p.type = "SEND_PACKET" => GoodFrame(p)
        BY DEF IInv, WireInv
    <2>q. /\ DOMAIN Stored(p) \subseteq Total
          /\ \A i \in DOMAIN Stored(p) : i \in InFile => Stored(p)[i] = File[i]
          /\ DOMAIN Stored(p) = DOMAIN rmap \cup (IF p.type = "SEND_PACKET" THEN {p.seq} ELSE {})
        BY <2>p, StoredGood DEF IInv
    <2>1. CASE RFirst(p, src) \/ RGather(p, src)
        <3>1. rmap' = Stored(p) /\ rpc \in {"first", "gather"}
            BY <2>1 DEF RFirst, RGather
        <3>2. rbuf' \in {rbuf, p, Zeroed} /\ (rpc = "gather" => p \in toR)
                /\ (rpc = "first" => p \in toR \cup {rbuf})
            BY <2>1 DEF RFirst, RGather, Arrived, TimedOut
        <3>3. CASE RGatherEnd(Stored(p), src)
            <4>1. /\ ProgressInv' /\ toS \subseteq toS' /\ spc # "end"
                  /\ lbuf' \in {lbuf, Zeroed, MissingDoneAck}
                  /\ \A q \in toS' : q.type \in {"SEND_MISSING", "SEND_MISSING_DONE"} =>
                                         q.frames \subseteq Total
                  /\ \A q \in toS' : q.type = "GET_ALL_FILE" => rpc' \in {"final", "done"}
                BY <1>s, <2>q, <3>1, <3>3, GatherEndSafe
            <4> QED
                BY <1>s, <1>z, <2>p, <2>q, <3>1, <3>2, <4>1
                DEF IInv, WireInv, MapInv, SignalInv, senderVars
        <3>4. CASE rpc' \in {"gather"} /\ UNCHANGED <<missing, lbuf, tries, toS>>
            BY <1>s, <1>z, <2>p, <2>q, <3>1, <3>2, <3>4
            DEF IInv, WireInv, MapInv, SignalInv, ProgressInv, MissingExact, senderVars
        <3> QED
            BY <2>1, <3>3, <3>4 DEF RFirst, RGather
    <2>2. CASE RRequest(p, src)
        <3>1. /\ rpc = "request" /\ rpc' \in {"request", "answer"}
              /\ lbuf' = p /\ UNCHANGED <<rbuf, rmap, missing, from>>
            BY <2>2 DEF RRequest
        <3>2. missing \subseteq Total
            BY <3>1 DEF IInv, ProgressInv, MissingExact, Total
        <3>3. \A q \in toS' \ toS : q.type = "SEND_MISSING_DONE" /\ q.frames \subseteq Total
            BY <2>2, <3>2, LastRequestIsRequest DEF RRequest, ReplyTo, IInv, TypeOK
        <3>4. toS \subseteq toS'
            BY <2>2 DEF RRequest, ReplyTo
        <3> QED
            BY <1>s, <2>p, <3>1, <3>3, <3>4
            DEF IInv, WireInv, MapInv, SignalInv, ProgressInv, MissingExact, senderVars
    <2>3. CASE RAnswer(p, src) \/ RCollect(p, src)
        <3>1. rbuf' = p /\ rpc \in {"answer", "collect"} /\ p \in toR \cup {rbuf}
            BY <2>3 DEF RAnswer, RCollect, Arrived, TimedOut
        <3>2. missing = Total \ DOMAIN rmap /\ missing \in SUBSET Int
            BY <3>1 DEF IInv, ProgressInv, MissingExact, TypeOK, Total
        <3>3. CASE RReport(missing, src) /\ UNCHANGED rmap
            <4>1. /\ ProgressInv' /\ toS \subseteq toS' /\ spc # "end"
                  /\ lbuf' \in {lbuf, Zeroed, MissingDoneAck}
                  /\ \A q \in toS' : q.type \in {"SEND_MISSING", "SEND_MISSING_DONE"} =>
                                         q.frames \subseteq Total
                  /\ \A q \in toS' : q.type = "GET_ALL_FILE" => rpc' \in {"final", "done"}
                BY <1>s, <1>t, <3>1, <3>2, <3>3, ReportSafe
            <4> QED
                BY <1>s, <1>z, <2>p, <3>1, <3>3, <4>1
                DEF IInv, WireInv, MapInv, SignalInv, senderVars
        <3>4. CASE RTake(p)
            <4>1. missing' = Total \ DOMAIN rmap' /\ rpc' = "collect"
                BY <2>q, <3>2, <3>4 DEF RTake
            <4>2. ProgressInv'
                BY <4>1 DEF ProgressInv, MissingExact, Total
            <4> QED
                BY <1>s, <2>p, <2>q, <3>1, <3>4, <4>2
                DEF IInv, WireInv, MapInv, SignalInv, RTake, senderVars
        <3> QED
            BY <2>3, <3>3, <3>4 DEF RAnswer, RCollect
    <2>4. CASE RFinal(p, src)
        <3>1. /\ rpc = "final" /\ rpc' \in {"final", "done"} /\ rbuf' = p
              /\ p \in toR \cup {rbuf} /\ UNCHANGED <<rmap, missing, lbuf>>
            BY <2>4 DEF RFinal, Arrived, TimedOut
        <3>2. \A q \in toS' \ toS : q.type = "GET_ALL_FILE"
            BY <2>4, SignalTypesAre DEF RFinal, ReplyTo
        <3>3. toS \subseteq toS'
            BY <2>4 DEF RFinal, ReplyTo
        <3> QED
            BY <1>s, <2>p, <3>1, <3>2, <3>3
            DEF IInv, WireInv, MapInv, SignalInv, ProgressInv, MissingExact, senderVars
    <2> QED
        BY <1>1, <2>1, <2>2, <2>3, <2>4
<1>2. CASE RGatherTimeout
    <2>1. RGatherEnd(rmap', from) /\ rpc = "gather" /\ UNCHANGED <<from, rmap, rbuf>>
        BY <1>2 DEF RGatherTimeout
    <2>2. /\ ProgressInv' /\ toS \subseteq toS' /\ spc # "end"
          /\ lbuf' \in {lbuf, Zeroed, MissingDoneAck}
          /\ \A q \in toS' : q.type \in {"SEND_MISSING", "SEND_MISSING_DONE"} =>
                                 q.frames \subseteq Total
          /\ \A q \in toS' : q.type = "GET_ALL_FILE" => rpc' \in {"final", "done"}
        BY <1>s, <1>t, <2>1, GatherEndSafe
    <2> QED
        BY <1>s, <1>z, <2>1, <2>2 DEF IInv, WireInv, MapInv, SignalInv, senderVars
<1>3. CASE RCollectTimeout
    <2>1. /\ RReport(missing, from) /\ rpc = "collect"
          /\ UNCHANGED <<from, rmap, rbuf>>
        BY <1>3 DEF RCollectTimeout
    <2>2. missing = Total \ DOMAIN rmap /\ missing \in SUBSET Int
        BY <2>1 DEF IInv, ProgressInv, MissingExact, TypeOK, Total
    <2>3. /\ ProgressInv' /\ toS \subseteq toS' /\ spc # "end"
          /\ lbuf' \in {lbuf, Zeroed, MissingDoneAck}
          /\ \A q \in toS' : q.type \in {"SEND_MISSING", "SEND_MISSING_DONE"} =>
                                 q.frames \subseteq Total
          /\ \A q \in toS' : q.type = "GET_ALL_FILE" => rpc' \in {"final", "done"}
        BY <1>s, <1>t, <2>1, <2>2, ReportSafe
    <2> QED
        BY <1>s, <1>z, <2>1, <2>3 DEF IInv, WireInv, MapInv, SignalInv, senderVars
<1> QED
    BY <1>1, <1>2, <1>3 DEF Receiver

LEMMA SafetyStep == IInv /\ [Next]_vars => IInv'
<1> SUFFICES ASSUME IInv, [Next]_vars PROVE IInv'
    OBVIOUS
<1>1. CASE Sender
    BY <1>1, SafetySender, TypeSender DEF IInv
<1>2. CASE Receiver
    BY <1>2, SafetyReceiver, TypeReceiver DEF IInv
<1>3. CASE UNCHANGED vars
    BY <1>3 DEF IInv, TypeOK, WireInv, MapInv, ProgressInv, MissingExact, SignalInv,
                vars, senderVars, receiverVars
<1> QED
    BY <1>1, <1>2, <1>3 DEF Next

THEOREM Inductive == HandshakeOnly /\ Spec => []IInv
<1>1. HandshakeOnly /\ Init => IInv
    BY SafetyInit
<1> QED
    BY <1>1, SafetyStep, PTL DEF Spec

\* What holds in a state of the invariant.
LEMMA InvariantGives ==
    ASSUME IInv
    PROVE  Completeness /\ SenderEndsAfterReceiver /\ MissingExact
           /\ AcknowledgedEnd /\ PhantomFrameNeeded
<1>1. rpc \in {"final", "done"} => Total \subseteq DOMAIN rmap
    BY DEF IInv, ProgressInv
<1>2. InFile \subseteq Total /\ total_frame \in Total
    BY DEF InFile, Total
<1>3. rpc \in {"final", "done"} => ReceivedAll
    BY <1>1, <1>2 DEF IInv, MapInv, ReceivedAll
<1>4. rbuf = GetAllAck => spc = "end"
    BY SignalTypesAre DEF IInv, SignalInv
<1> QED
    BY <1>1, <1>2, <1>3, <1>4
    DEF IInv, ProgressInv, SignalInv, Completeness, SenderEndsAfterReceiver,
        AcknowledgedEnd, PhantomFrameNeeded

\* The receiver reports and writes the file only when it holds every frame,
\* for every file and every behaviour of the network.
THEOREM CompletenessHolds == HandshakeOnly /\ Spec => []Completeness
<1>1. IInv => Completeness
    BY InvariantGives
<1> QED
    BY <1>1, Inductive, PTL

\* send_file() returns only when the other peer holds the whole file.
THEOREM SenderEndsAfterReceiverHolds == HandshakeOnly /\ Spec => []SenderEndsAfterReceiver
<1>1. IInv => SenderEndsAfterReceiver
    BY InvariantGives
<1> QED
    BY <1>1, Inductive, PTL

\* missing_frame_sequence and receive_file_map always account for each other.
THEOREM MissingExactHolds == HandshakeOnly /\ Spec => []MissingExact
<1>1. IInv => MissingExact
    BY InvariantGives
<1> QED
    BY <1>1, Inductive, PTL

\* Every transfer that completes has gone through a read past the end of
\* fileVector, whatever the size of the file: the loop bound of
\* missing_frame() asks for a frame that does not exist.
THEOREM PhantomFrameNeededHolds == HandshakeOnly /\ Spec => []PhantomFrameNeeded
<1>1. IInv => PhantomFrameNeeded
    BY InvariantGives
<1> QED
    BY <1>1, Inductive, PTL

\* A receiver that saw GET_ALL_FILE_ACK has a sender that is finished.
THEOREM AcknowledgedEndHolds == HandshakeOnly /\ Spec => []AcknowledgedEnd
<1>1. IInv => AcknowledgedEnd
    BY InvariantGives
<1> QED
    BY <1>1, Inductive, PTL

(***************************************************************************)
(* Actions.                                                                *)
(***************************************************************************)

\* How a step changes what the receiver holds.
LEMMA MapStep ==
    ASSUME [Next]_vars
    PROVE  \/ rmap' = rmap
           \/ /\ rpc \notin {"final", "done"} /\ rpc' \notin {"final", "done"}
              /\ spc' = spc
              /\ \E p \in toR \cup {rbuf} : rmap' = Stored(p)
<1>0. \A p : p.type = "SEND_FILE_DONE" => Stored(p) = rmap
    BY DEF Stored
<1>1. CASE Sender
    BY <1>1 DEF Sender, SSendFile, SAwaitDoneAck, SAwaitRequest, SAwaitDoneAckAgain, receiverVars
<1>2. CASE UNCHANGED vars
    BY <1>2 DEF vars, receiverVars
<1>3. CASE RGatherTimeout \/ RCollectTimeout
    BY <1>3 DEF RGatherTimeout, RCollectTimeout
<1>4. ASSUME NEW p \in toR \cup {rbuf, lbuf}, NEW src \in Addresses,
             \/ RFirst(p, src) \/ RGather(p, src) \/ RRequest(p, src)
             \/ RAnswer(p, src) \/ RCollect(p, src) \/ RFinal(p, src)
      PROVE  \/ rmap' = rmap
             \/ /\ rpc \notin {"final", "done"} /\ rpc' \notin {"final", "done"}
                /\ spc' = spc
                /\ \E q \in toR \cup {rbuf} : rmap' = Stored(q)
    BY <1>0, <1>4 DEF RFirst, RGather, RRequest, RAnswer, RCollect, RFinal, RTake,
                Arrived, TimedOut, senderVars
<1> QED
    BY <1>1, <1>2, <1>3, <1>4 DEF Next, Receiver

\* What is stored stays: no packet off the wire can spoil a frame.
LEMMA KeptStep ==
    ASSUME IInv, [Next]_vars
    PROVE  \A i \in InFile \cap DOMAIN rmap : i \in DOMAIN rmap' /\ rmap'[i] = rmap[i]
<1>1. CASE rmap' = rmap
    BY <1>1
<1>2. ASSUME NEW p \in toR \cup {rbuf}, rmap' = Stored(p)
      PROVE  \A i \in InFile \cap DOMAIN rmap : i \in DOMAIN rmap' /\ rmap'[i] = rmap[i]
    <2>1. p.type = "SEND_PACKET" => GoodFrame(p)
        BY DEF IInv, WireInv
    <2>2. /\ DOMAIN rmap \subseteq DOMAIN rmap'
          /\ \A i \in DOMAIN rmap' : i \in InFile => rmap'[i] = File[i]
        BY <1>2, <2>1, StoredGood DEF IInv
    <2> QED
        BY <2>2 DEF IInv, MapInv
<1> QED
    BY <1>1, <1>2, MapStep

\* A stored frame is never dropped and never replaced by other content.
THEOREM FramesKeptHolds == HandshakeOnly /\ Spec => FramesKept
<1>1. IInv /\ [Next]_vars =>
        [\A i \in InFile \cap DOMAIN rmap : i \in DOMAIN rmap' /\ rmap'[i] = rmap[i]]_vars
    BY KeptStep
<1> QED
    BY <1>1, Inductive, PTL DEF Spec, FramesKept

(***************************************************************************)
(* Refinement: every step is a delivery, the claim, the confirmation, or   *)
(* nothing at all for ReliableDelivery.                                    *)
(***************************************************************************)
\* The control states only move forward.
LEMMA ControlStep ==
    ASSUME [Next]_vars
    PROVE  /\ rpc \in {"final", "done"} => rpc' \in {"final", "done"}
           /\ spc = "end" => spc' = "end"
           /\ spc' # spc => rpc' = rpc
<1>1. CASE Sender
    BY <1>1 DEF Sender, SSendFile, SAwaitDoneAck, SAwaitRequest, SAwaitDoneAckAgain, receiverVars
<1>2. CASE UNCHANGED vars
    BY <1>2 DEF vars, senderVars, receiverVars
<1>3. CASE Receiver
    BY <1>3 DEF Receiver, RFirst, RGather, RRequest, RAnswer, RCollect, RFinal,
                RGatherTimeout, RCollectTimeout, senderVars
<1> QED
    BY <1>1, <1>2, <1>3 DEF Next

LEMMA DeliveryInit ==
    ASSUME Init
    PROVE  Delivery!Init
    BY DEF Init, Delivery!Init, Intact

LEMMA DeliveryStep ==
    ASSUME IInv, IInv', [Next]_vars
    PROVE  [Delivery!Next]_<<Intact, rpc \in {"final", "done"}, spc = "end">>
<1> DEFINE claim == rpc \in {"final", "done"}
<1>1. Intact = InFile \cap DOMAIN rmap /\ Intact' = InFile \cap DOMAIN rmap'
    BY DEF IInv, MapInv, Intact, InFile
<1>2. CASE rmap' # rmap
    <2>1. PICK p \in toR \cup {rbuf} : rmap' = Stored(p)
        BY <1>2, MapStep
    <2>2. rpc \notin {"final", "done"} /\ rpc' \notin {"final", "done"} /\ spc' = spc
        BY <1>2, MapStep
    <2>3. p.type = "SEND_PACKET"
        BY <1>2, <2>1 DEF Stored
    <2>4. DOMAIN rmap' = DOMAIN rmap \cup {p.seq}
        BY <2>1, <2>3 DEF Stored
    <2>5. CASE p.seq \in InFile
        <3>1. Delivery!Deliver(p.seq)
            BY <1>1, <2>2, <2>4, <2>5 DEF Delivery!Deliver
        <3> QED
            BY <3>1, <2>5 DEF Delivery!Next
    <2>6. CASE p.seq \notin InFile
        BY <1>1, <2>2, <2>4, <2>6
    <2> QED
        BY <2>5, <2>6
<1>3. CASE rmap' = rmap /\ ~ claim /\ claim'
    <2>1. InFile \subseteq DOMAIN rmap'
        BY <1>3 DEF IInv, ProgressInv, Total, InFile
    <2>2. (spc = "end") <=> (spc' = "end")
        BY <1>3, ControlStep
    <2>3. Delivery!Claim
        BY <1>1, <1>3, <2>1, <2>2 DEF Delivery!Claim
    <2> QED
        BY <2>3 DEF Delivery!Next
<1>4. CASE rmap' = rmap /\ (claim <=> claim')
    <2>1. CASE spc # "end" /\ spc' = "end"
        <3>1. rpc' \in {"final", "done"}
            BY <2>1 DEF IInv, SignalInv
        <3>2. Delivery!Confirm
            BY <1>1, <1>4, <2>1, <3>1 DEF Delivery!Confirm
        <3> QED
            BY <3>2 DEF Delivery!Next
    <2>2. CASE (spc = "end") <=> (spc' = "end")
        BY <1>1, <1>4, <2>2
    <2> QED
        BY <2>1, <2>2, ControlStep
<1> QED
    BY <1>2, <1>3, <1>4, ControlStep

\* The two functions together implement ReliableDelivery.
THEOREM ImplementsDeliveryHolds == HandshakeOnly /\ Spec => ImplementsDelivery
<1>1. IInv /\ IInv' /\ [Next]_vars =>
        [Delivery!Next]_<<Intact, rpc \in {"final", "done"}, spc = "end">>
    BY DeliveryStep
<1> QED
    BY <1>1, DeliveryInit, Inductive, PTL DEF Spec, ImplementsDelivery, Delivery!Spec

-----------------------------------------------------------------------------
(***************************************************************************)
(* The transfer over the queues.                                           *)
(***************************************************************************)
USE FifoAssumption

(***************************************************************************)
(* Ranks.                                                                  *)
(***************************************************************************)
LEMMA RankIs ==
    ASSUME NEW S \in SUBSET Int, IsFiniteSet(S), NEW f \in S
    PROVE  Rank(S, f) \in 0 .. Cardinality(S) - 1
<1> DEFINE Below == {g \in S : g < f}
<1>1. IsFiniteSet(Below) /\ Cardinality(Below) <= Cardinality(S)
      /\ (Cardinality(S) = Cardinality(Below) => S = Below)
    BY FS_Subset
<1>2. Cardinality(Below) \in Nat /\ Cardinality(S) \in Nat
    BY <1>1, FS_CardinalityType
<1>3. f \notin Below
    OBVIOUS
<1> HIDE DEF Below
<1>4. Cardinality(Below) < Cardinality(S)
    BY <1>1, <1>2, <1>3
<1> QED
    BY <1>2, <1>4 DEF Rank, Below

LEMMA RankGrows ==
    ASSUME NEW S \in SUBSET Int, IsFiniteSet(S), NEW f \in S, NEW h \in S, f < h
    PROVE  Rank(S, f) < Rank(S, h)
<1> DEFINE BelowF == {g \in S : g < f}
           BelowH == {g \in S : g < h}
<1>1. BelowF \subseteq BelowH /\ f \in BelowH /\ f \notin BelowF
  <2>1. ASSUME NEW g \in S, g < f PROVE g < h
    <3>1. g \in Int /\ f \in Int /\ h \in Int
        OBVIOUS
    <3> QED
        BY <2>1, <3>1
  <2>2. ~(f < f)
    <3>1. f \in Int
        OBVIOUS
    <3> QED
        BY <3>1
  <2> QED
      BY <2>1, <2>2
<1>2. IsFiniteSet(BelowH)
    BY FS_Subset
<1> HIDE DEF BelowF, BelowH
<1>3. /\ IsFiniteSet(BelowF) /\ Cardinality(BelowF) <= Cardinality(BelowH)
      /\ (Cardinality(BelowH) = Cardinality(BelowF) => BelowH = BelowF)
    BY <1>1, <1>2, FS_Subset
<1>4. Cardinality(BelowF) \in Nat /\ Cardinality(BelowH) \in Nat
    BY <1>2, <1>3, FS_CardinalityType
<1>5. Cardinality(BelowF) < Cardinality(BelowH)
    BY <1>1, <1>3, <1>4
<1> QED
    BY <1>5 DEF Rank, BelowF, BelowH

\* Each rank is somebody's: an injection between sets of one size.
LEMMA RankOnto ==
    ASSUME NEW S \in SUBSET Int, IsFiniteSet(S), NEW k \in 1 .. Cardinality(S)
    PROVE  \E f \in S : Rank(S, f) = k - 1
<1> DEFINE n == Cardinality(S)
           rank == [f \in S |-> Rank(S, f)]
<1>1. n \in Nat
    BY FS_CardinalityType
<1>2. IsFiniteSet(0 .. n - 1) /\ Cardinality(0 .. n - 1) = n
  <2> HIDE DEF n
  <2>1. n - 1 \in Int
      BY <1>1
  <2>2. IsFiniteSet(0 .. n - 1)
      BY <2>1, FS_Interval
  <2>3. Cardinality(0 .. n - 1) = IF 0 > n - 1 THEN 0 ELSE n - 1 - 0 + 1
      BY <2>1, FS_Interval
  <2>4. Cardinality(0 .. n - 1) = n
      BY <1>1, <2>3
  <2> QED
      BY <2>2, <2>4
<1>3. rank \in [S -> 0 .. n - 1]
    BY RankIs
<1>4. \A f, h \in S : rank[f] = rank[h] => f = h
  <2> SUFFICES ASSUME NEW f \in S, NEW h \in S, f # h PROVE rank[f] # rank[h]
      OBVIOUS
  <2>1. Rank(S, f) \in Int /\ Rank(S, h) \in Int
      BY RankIs
  <2>2. CASE f < h
      BY <2>1, <2>2, RankGrows
  <2>3. CASE h < f
      BY <2>1, <2>3, RankGrows
  <2> QED
      BY <2>2, <2>3
<1>5. rank \in Injection(S, 0 .. n - 1)
    BY <1>3, <1>4 DEF Injection, IsInjective
<1>6. rank \in Surjection(S, 0 .. n - 1)
    BY <1>2, <1>5, FS_Injection
<1>7. k - 1 \in 0 .. n - 1
    BY <1>1
<1> QED
    BY <1>6, <1>7 DEF Surjection

LEMMA InOrderIs ==
    ASSUME NEW S \in SUBSET Int, IsFiniteSet(S)
    PROVE  /\ InOrder(S) \in Seq(S) /\ Len(InOrder(S)) = Cardinality(S)
           /\ \A k \in 1 .. Cardinality(S) : Rank(S, InOrder(S)[k]) = k - 1
<1>1. Cardinality(S) \in Nat
    BY FS_CardinalityType
<1>2. \A k \in 1 .. Cardinality(S) :
          /\ (CHOOSE f \in S : Rank(S, f) = k - 1) \in S
          /\ Rank(S, CHOOSE f \in S : Rank(S, f) = k - 1) = k - 1
    BY RankOnto
<1> QED
    BY <1>1, <1>2 DEF InOrder

(***************************************************************************)
(* What arrives.                                                           *)
(***************************************************************************)
Kept(s, D) == InOrder((1 .. Len(s)) \ D)
Survivors(s, D) == [k \in 1 .. Len(Kept(s, D)) |-> s[Kept(s, D)[k]]]
Buffered(all) == IF Len(all) > Capacity THEN SubSeq(all, 1, Capacity) ELSE all

LEMMA KeptIs ==
    ASSUME NEW P, NEW s \in Seq(P), NEW D \in SUBSET (1 .. Len(s))
    PROVE  /\ Kept(s, D) \in Seq(1 .. Len(s))
           /\ Survivors(s, D) \in Seq(P)
           /\ Len(Survivors(s, D)) = Cardinality((1 .. Len(s)) \ D)
           /\ IsFiniteSet((1 .. Len(s)) \ D)
<1> DEFINE K == (1 .. Len(s)) \ D
<1>1. IsFiniteSet(1 .. Len(s))
    BY FS_Interval
<1>2. IsFiniteSet(K) /\ K \in SUBSET Int /\ K \subseteq 1 .. Len(s)
    BY <1>1, FS_Subset
<1>3. InOrder(K) \in Seq(K) /\ Len(InOrder(K)) = Cardinality(K)
    BY <1>2, InOrderIs
<1>4. Kept(s, D) \in Seq(1 .. Len(s)) /\ Len(Kept(s, D)) = Cardinality(K)
    BY <1>2, <1>3 DEF Kept
<1> DEFINE kept == Kept(s, D)
           heard == [k \in 1 .. Len(kept) |-> s[kept[k]]]
<1> HIDE DEF kept
<1>5. \A k \in 1 .. Len(kept) : s[kept[k]] \in P
    BY <1>4 DEF kept
<1>6. Len(kept) \in Nat
    BY <1>4 DEF kept
<1>7. heard \in Seq(P) /\ Len(heard) = Len(kept)
    BY <1>5, <1>6
<1>8. Survivors(s, D) = heard
    BY DEF Survivors, kept
<1> HIDE DEF heard
<1> QED
    BY <1>2, <1>4, <1>7, <1>8 DEF kept

LEMMA BufferedIs ==
    ASSUME NEW P, NEW all \in Seq(P)
    PROVE  /\ Buffered(all) \in Seq(P) /\ Len(Buffered(all)) <= Capacity
           /\ all # <<>> => /\ Buffered(all) # <<>>
                            /\ Head(Buffered(all)) = Head(all)
<1>1. CASE Len(all) > Capacity
  <2>1. 1 \in 1 .. Len(all) + 1 /\ Capacity \in 1 - 1 .. Len(all)
      BY <1>1
  <2>2. /\ SubSeq(all, 1, Capacity) \in Seq(P)
        /\ Len(SubSeq(all, 1, Capacity)) = Capacity
        /\ SubSeq(all, 1, Capacity)[1] = all[1]
      BY <1>1
  <2> QED
      BY <1>1, <2>2 DEF Buffered
<1>2. CASE ~(Len(all) > Capacity)
    BY <1>2 DEF Buffered
<1> QED
    BY <1>1, <1>2

LEMMA ArriveIs ==
    ASSUME NEW P, NEW q \in Seq(P), NEW s \in Seq(P), NEW q2, Arrive(q, s, q2),
           lost \in 0 .. Losses
    PROVE  /\ q2 \in Seq(P) /\ Len(q2) <= Capacity /\ lost' \in 0 .. Losses
           /\ q # <<>> => q2 # <<>> /\ Head(q2) = Head(q)
<1>1. PICK D \in LostOf(s) :
          /\ lost' = lost + Cardinality(D)
          /\ q2 = Buffered(q \o Survivors(s, D))
    BY DEF Arrive, Buffered, Survivors, Kept
<1>2. D \in SUBSET (1 .. Len(s)) /\ Cardinality(D) <= Losses - lost
    BY DEF LostOf
<1>3. Cardinality(D) \in Nat
  <2>1. IsFiniteSet(1 .. Len(s))
      BY FS_Interval
  <2> QED
      BY <1>2, <2>1, FS_Subset, FS_CardinalityType
<1>4. Survivors(s, D) \in Seq(P)
    BY <1>2, KeptIs
<1>5. /\ q \o Survivors(s, D) \in Seq(P)
      /\ q # <<>> => /\ q \o Survivors(s, D) # <<>>
                     /\ Head(q \o Survivors(s, D)) = Head(q)
    BY <1>4
<1>6. lost' \in 0 .. Losses
    BY <1>1, <1>2, <1>3
<1> QED
    BY <1>1, <1>5, <1>6, BufferedIs

(***************************************************************************)
(* The steps over the queues are steps of FileTransfer.                    *)
(***************************************************************************)
QueueInv ==
    /\ qR \in Seq(toR) /\ Len(qR) <= Capacity
    /\ qS \in Seq(toS) /\ Len(qS) <= Capacity
    /\ lost \in 0 .. Losses

LEMMA SenderStepIs ==
    ASSUME QueueInv, SenderStep
    PROVE  Sender
<1>1. qS # <<>> => Head(qS) \in toS
    BY DEF QueueInv
<1>2. CASE SSendFile
    BY <1>2 DEF Sender
<1>3. CASE qS # <<>> /\ SenderTakes(Head(qS))
    BY <1>1, <1>3 DEF Sender, SenderInput, SenderTakes
<1>4. CASE SenderTimeout /\ SenderTakes(sbuf)
    BY <1>4 DEF Sender, SenderInput, SenderTakes
<1> QED
    BY <1>2, <1>3, <1>4 DEF SenderStep

LEMMA ReceiverStepIs ==
    ASSUME TypeOK, QueueInv, ReceiverStep
    PROVE  Receiver
<1>1. from \in Addresses /\ "sender" \in Addresses
    BY DEF TypeOK, Addresses
<1>2. qR # <<>> => Head(qR) \in toR
    BY DEF QueueInv
<1>3. CASE qR # <<>> /\ ReceiverTakes(Head(qR), "sender")
    BY <1>1, <1>2, <1>3 DEF Receiver, ReceiverTakes
<1>4. CASE ReceiverTimesOut
    BY <1>1, <1>4 DEF Receiver, ReceiverTimesOut
<1> QED
    BY <1>3, <1>4 DEF ReceiverStep

(***************************************************************************)
(* Everything sent is among the datagrams of FileTransfer.                 *)
(***************************************************************************)
LEMMA CopiesIs ==
    ASSUME NEW P, NEW p \in P, NEW n \in Nat
    PROVE  Copies(n, p) \in Seq(P)
    BY DEF Copies

LEMMA ResendsIs ==
    ASSUME NEW S \in SUBSET Int, IsFiniteSet(S), NEW P, MissingDoneAck \in P,
           \A f \in S : FrameAgain(f) \in P
    PROVE  Resends(S) \in Seq(P)
<1>1. InOrder(S) \in Seq(S) /\ Len(InOrder(S)) = Cardinality(S)
      /\ Cardinality(S) \in Nat
    BY InOrderIs, FS_CardinalityType
<1> DEFINE frames == [k \in 1 .. Cardinality(S) |-> FrameAgain(InOrder(S)[k])]
<1>2. frames \in Seq(P)
  <2>1. \A k \in 1 .. Cardinality(S) : InOrder(S)[k] \in S
      BY <1>1
  <2>2. \A k \in 1 .. Cardinality(S) : FrameAgain(InOrder(S)[k]) \in P
      BY <2>1
  <2> QED
      BY <1>1, <2>2
<1>3. Copies(SenderBurst, MissingDoneAck) \in Seq(P)
    BY CopiesIs
<1> HIDE DEF frames
<1>4. Copies(SenderBurst, MissingDoneAck) \o frames \in Seq(P)
    BY <1>2, <1>3
<1> QED
    BY <1>4 DEF Resends, frames

LEMMA RequestsIs ==
    ASSUME NEW S, IsFiniteSet(S), S # {}
    PROVE  Requests(S) \in Seq(RequestPackets(S))
<1>1. Cardinality(S) \in Nat \ {0}
    BY FS_CardinalityType, FS_EmptySet
<1>2. LastChunk(S) \in Nat
  <2>1. Cardinality(S) - 1 \in Nat
      BY <1>1
  <2> QED
      BY <2>1 DEF LastChunk
<1>3. \A k \in 1 .. LastChunk(S) :
          Request("SEND_MISSING", Chunk(S, k - 1)) \in RequestPackets(S)
  <2>1. \A k \in 1 .. LastChunk(S) : k - 1 \in 0 .. LastChunk(S) - 1
      BY <1>2
  <2> QED
      BY <2>1 DEF RequestPackets
<1>4. LastRequest(S) \in RequestPackets(S)
    BY DEF RequestPackets
<1> DEFINE chunks == [k \in 1 .. LastChunk(S) |-> Request("SEND_MISSING", Chunk(S, k - 1))]
<1>5. chunks \in Seq(RequestPackets(S))
    BY <1>2, <1>3
<1> HIDE DEF chunks
<1>6. chunks \o <<LastRequest(S)>> \in Seq(RequestPackets(S))
    BY <1>4, <1>5
<1> QED
    BY <1>6 DEF Requests, chunks

\* Only finitely many frames can be asked for.
LEMMA TotalFinite ==
    ASSUME NEW S, S \subseteq Total
    PROVE  IsFiniteSet(S) /\ S \in SUBSET Int
<1>1. IsFiniteSet(Total)
    BY FS_Interval DEF Total
<1>2. IsFiniteSet(S)
    BY <1>1, FS_Subset
<1> QED
    BY <1>2 DEF Total

LEMMA SendsFileIs ==
    ASSUME NEW P, FileDone \in P, \A i \in InFile : Frame(i, File[i]) \in P
    PROVE  /\ SendsFile \in Seq(P) /\ Len(SendsFile) = total_frame + 1
           /\ \A k \in 1 .. total_frame : SendsFile[k] = Frame(k - 1, File[k - 1])
<1> DEFINE frames == [k \in 1 .. total_frame |-> Frame(k - 1, File[k - 1])]
<1>1. \A k \in 1 .. total_frame : k - 1 \in InFile
    BY DEF InFile
<1>2. frames \in Seq(P) /\ Len(frames) = total_frame
    BY <1>1
<1>3. \A k \in 1 .. total_frame : frames[k] = Frame(k - 1, File[k - 1])
    OBVIOUS
<1> HIDE DEF frames
<1>4. /\ frames \o <<FileDone>> \in Seq(P) /\ Len(frames \o <<FileDone>>) = total_frame + 1
      /\ \A k \in 1 .. total_frame : (frames \o <<FileDone>>)[k] = frames[k]
    BY <1>2
<1> QED
    BY <1>3, <1>4 DEF SendsFile, frames

\* A frame sent again is one of those the request allows: the file's own, or
\* what lies after it.
LEMMA FrameAgainIs ==
    ASSUME NEW S, NEW stray \in [S \ InFile -> Stray], NEW f \in S
    PROVE  FrameAgain(f) \in ResentFrames(S, stray)
<1>1. PICK d \in Payload : Stray = {d}
    BY DEF FifoAssumption
<1>2. (CHOOSE e \in Stray : TRUE) = d
    BY <1>1
<1>3. f \notin InFile => stray[f] = d
    BY <1>1
<1> QED
    BY <1>2, <1>3 DEF FrameAgain, ResentFrames

LEMMA FrameAgainInFile ==
    ASSUME NEW S, NEW f \in S \cap InFile
    PROVE  FrameAgain(f) \in ResentFrames(S \cap InFile, <<>>)
    BY DEF FrameAgain, ResentFrames

\* The answer to a request.
LEMMA ResendMissingSends ==
    ASSUME NEW S, S \subseteq Total, SResendMissing(S), spc = "awaitRequest"
    PROVE  SenderSends \in Seq(toR')
<1>1. CASE spc' = "awaitAck2"
  <2>1. PICK stray \in [S \ InFile -> Stray] :
            toR' = toR \cup {MissingDoneAck, FileDone} \cup ResentFrames(S, stray)
      BY <1>1 DEF SResendMissing
  <2>2. \A f \in S : FrameAgain(f) \in toR'
      BY <2>1, FrameAgainIs
  <2>3. MissingDoneAck \in toR' /\ FileDone \in toR'
      BY <2>1
  <2>4. Resends(S) \in Seq(toR')
      BY <2>2, <2>3, TotalFinite, ResendsIs
  <2>5. SenderSends = Resends(S) \o <<FileDone>>
      BY <1>1 DEF SenderSends, SResendMissing
  <2> QED
      BY <2>3, <2>4, <2>5
<1>2. CASE spc' = "crashed"
  <2>1. toR' = toR \cup {MissingDoneAck} \cup ResentFrames(S \cap InFile, <<>>)
      BY <1>2 DEF SResendMissing
  <2>2. \A f \in S \cap InFile : FrameAgain(f) \in toR'
      BY <2>1, FrameAgainInFile
  <2>3. MissingDoneAck \in toR' /\ S \cap InFile \subseteq Total
      BY <2>1
  <2>4. Resends(S \cap InFile) \in Seq(toR')
      BY <2>2, <2>3, TotalFinite, ResendsIs
  <2>5. SenderSends = Resends(S \cap InFile)
      BY <1>2 DEF SenderSends, SResendMissing
  <2> QED
      BY <2>4, <2>5
<1> QED
    BY <1>1, <1>2 DEF SResendMissing

LEMMA FinishSends ==
    ASSUME SFinish, spc # "start"
    PROVE  SenderSends \in Seq(toR')
<1>1. GetAllAck \in toR' /\ spc' = "end"
    BY DEF SFinish
<1>2. SenderSends = EndsFile
    BY <1>1 DEF SenderSends
<1> QED
    BY <1>1, <1>2, CopiesIs DEF EndsFile

LEMMA SenderTakesSends ==
    ASSUME IInv, NEW p, p \in SenderInput, SenderTakes(p)
    PROVE  SenderSends \in Seq(toR')
<1>1. CASE SFinish /\ spc # "start"
    BY <1>1, FinishSends
<1>2. CASE /\ spc = "awaitRequest"
           /\ SResendMissing(mfs \cup missing_frame_packet_interpreter(p))
  <2>1. Sender
      BY DEF Sender, SenderTakes
  <2>2. mfs' \subseteq Total
      BY <2>1, SafetySender DEF WireInv
  <2>3. mfs' = mfs \cup missing_frame_packet_interpreter(p)
      BY <1>2 DEF SResendMissing
  <2> QED
      BY <1>2, <2>2, <2>3, ResendMissingSends
<1>3. CASE /\ spc \in {"awaitAck", "awaitAck2"} /\ spc' = spc
           /\ FileDone \in toR'
  <2>1. SenderSends = <<FileDone>>
      BY <1>3 DEF SenderSends
  <2> QED
      BY <1>3, <2>1
<1>4. CASE spc \in {"awaitAck", "awaitRequest", "awaitAck2"} /\ spc' = "awaitRequest"
  <2>1. SenderSends = <<>>
      BY <1>4 DEF SenderSends
  <2> QED
      BY <2>1
<1> QED
    BY <1>1, <1>2, <1>3, <1>4
    DEF SenderTakes, SAwaitDoneAck, SAwaitRequest, SAwaitDoneAckAgain

LEMMA SenderSendsIs ==
    ASSUME IInv, QueueInv, SenderStep
    PROVE  SenderSends \in Seq(toR')
<1>1. CASE SSendFile
  <2>1. FileDone \in toR' /\ (\A i \in InFile : Frame(i, File[i]) \in toR')
      BY <1>1 DEF SSendFile
  <2>2. SenderSends = SendsFile
      BY <1>1 DEF SenderSends, SSendFile
  <2> QED
      BY <2>1, <2>2, SendsFileIs
<1>2. ASSUME qS # <<>>, SenderTakes(Head(qS)) PROVE SenderSends \in Seq(toR')
  <2>1. Head(qS) \in SenderInput
      BY <1>2 DEF QueueInv, SenderInput
  <2> QED
      BY <1>2, <2>1, SenderTakesSends
<1>3. ASSUME SenderTimeout, SenderTakes(sbuf) PROVE SenderSends \in Seq(toR')
  <2>1. sbuf \in SenderInput
      BY <1>3 DEF SenderInput
  <2> QED
      BY <1>3, <2>1, SenderTakesSends
<1> QED
    BY <1>1, <1>2, <1>3 DEF SenderStep

LEMMA Monotone ==
    ASSUME NEW P, NEW Q, P \subseteq Q, NEW q \in Seq(P)
    PROVE  q \in Seq(Q)
    OBVIOUS

LEMMA ReportSends ==
    ASSUME NEW S, S \subseteq Total, RReport(S, "sender"),
           rpc \in {"first", "gather", "answer", "collect"}
    PROVE  ReceiverSends \in Seq(toS')
<1>1. CASE S = {} /\ rpc' = "final" /\ toS' = toS \cup {FileDoneAck, GetAll}
  <2>1. FileDoneAck \in toS' /\ GetAll \in toS'
      BY <1>1
  <2>2. Copies(MAX_SEND, FileDoneAck) \in Seq(toS')
      BY <2>1, CopiesIs
  <2>3. ReceiverSends = Copies(MAX_SEND, FileDoneAck) \o <<GetAll>>
      BY <1>1 DEF ReceiverSends
  <2> QED
      BY <2>1, <2>2, <2>3
<1>2. CASE /\ S # {} /\ rpc' = "request"
           /\ toS' = toS \cup ({FileDoneAck} \cup RequestPackets(S))
  <2>1. Copies(MAX_SEND, FileDoneAck) \in Seq(toS')
      BY <1>2, CopiesIs
  <2>2. Requests(S) \in Seq(RequestPackets(S))
      BY <1>2, TotalFinite, RequestsIs
  <2>3. RequestPackets(S) \subseteq toS'
      BY <1>2
  <2> HIDE <1>2
  <2>4. Requests(S) \in Seq(toS')
      BY <2>2, <2>3, Monotone
  <2>5. ReceiverSends = Copies(MAX_SEND, FileDoneAck) \o Requests(S)
      BY <1>2 DEF ReceiverSends, RReport
  <2> QED
      BY <2>1, <2>4, <2>5
<1> QED
    BY <1>1, <1>2 DEF RReport, ReplyTo

LEMMA GatherEndSends ==
    ASSUME NEW m, DOMAIN m \subseteq Total, RGatherEnd(m, "sender"),
           rpc \in {"first", "gather"}
    PROVE  ReceiverSends \in Seq(toS')
<1>1. CASE RReport(missing_frame(DOMAIN m), "sender")
  <2>1. missing_frame(DOMAIN m) \subseteq Total
      BY MissingIsComplement
  <2> QED
      BY <1>1, <2>1, ReportSends
<1>2. CASE rpc' = "crashed" /\ ReplyTo("sender", {FileDoneAck})
  <2>1. Copies(MAX_SEND, FileDoneAck) \in Seq(toS')
      BY <1>2, CopiesIs DEF ReplyTo
  <2>2. ReceiverSends = Copies(MAX_SEND, FileDoneAck)
      BY <1>2 DEF ReceiverSends
  <2> QED
      BY <2>1, <2>2
<1> QED
    BY <1>1, <1>2 DEF RGatherEnd

LEMMA ReceiverTakesSends ==
    ASSUME IInv, NEW p \in toR \cup {rbuf, lbuf}, NEW src \in Addresses,
           ReceiverTakes(p, src), from' = "sender"
    PROVE  ReceiverSends \in Seq(toS')
<1>m. missing \subseteq Total \/ rpc \notin {"request", "answer", "collect"}
    BY DEF IInv, ProgressInv, MissingExact, Total
<1>1. CASE RFirst(p, src) \/ RGather(p, src)
  <2>1. src = "sender"
      BY <1>1 DEF RFirst, RGather
  <2>2. DOMAIN Stored(p) \subseteq Total
    <3>1. p.type = "SEND_PACKET" => GoodFrame(p)
        BY DEF IInv, WireInv
    <3> QED
        BY <3>1, StoredGood DEF IInv
  <2>3. CASE RGatherEnd(Stored(p), src)
    <3>1. rpc \in {"first", "gather"}
        BY <1>1 DEF RFirst, RGather
    <3> QED
        BY <2>1, <2>2, <2>3, <3>1, GatherEndSends
  <2>4. CASE rpc' = "gather" /\ rpc \in {"first", "gather"}
    <3>1. ReceiverSends = <<>>
        BY <2>4 DEF ReceiverSends
    <3> QED
        BY <3>1
  <2> QED
      BY <1>1, <2>3, <2>4 DEF RFirst, RGather
<1>2. CASE RRequest(p, src)
  <2>1. src = "sender"
      BY <1>2 DEF RRequest, Arrived, TimedOut
  <2>2. CASE rpc' = "answer"
    <3>1. ReceiverSends = <<>>
        BY <2>2 DEF ReceiverSends
    <3> QED
        BY <3>1
  <2>3. CASE rpc' = rpc /\ ReplyTo(src, {LastRequest(missing)})
    <3>1. LastRequest(missing) \in toS'
        BY <2>1, <2>3 DEF ReplyTo
    <3>2. rpc = "request"
        BY <1>2 DEF RRequest
    <3>3. ReceiverSends = <<LastRequest(missing)>>
        BY <2>3, <3>2 DEF ReceiverSends
    <3> QED
        BY <3>1, <3>3
  <2> QED
      BY <1>2, <2>2, <2>3 DEF RRequest
<1>3. CASE RAnswer(p, src) \/ RCollect(p, src)
  <2>1. src = "sender" /\ rpc \in {"answer", "collect"}
      BY <1>3 DEF RAnswer, RCollect
  <2>2. CASE RReport(missing, src)
      BY <2>1, <2>2, <1>m, ReportSends
  <2>3. CASE rpc' = "collect"
    <3>1. ReceiverSends = <<>>
        BY <2>3 DEF ReceiverSends
    <3> QED
        BY <3>1
  <2> QED
      BY <1>3, <2>2, <2>3 DEF RAnswer, RCollect, RTake
<1>4. CASE RFinal(p, src)
  <2>1. src = "sender" /\ rpc = "final"
      BY <1>4 DEF RFinal
  <2>2. CASE rpc' = "done"
    <3>1. ReceiverSends = <<>>
        BY <2>2 DEF ReceiverSends
    <3> QED
        BY <3>1
  <2>3. CASE rpc' = rpc /\ ReplyTo(src, {GetAll})
    <3>1. GetAll \in toS'
        BY <2>1, <2>3 DEF ReplyTo
    <3>2. ReceiverSends = <<GetAll>>
        BY <2>1, <2>3 DEF ReceiverSends
    <3> QED
        BY <3>1, <3>2
  <2> QED
      BY <1>4, <2>2, <2>3 DEF RFinal
<1> QED
    BY <1>1, <1>2, <1>3, <1>4 DEF ReceiverTakes

LEMMA ReceiverSendsIs ==
    ASSUME IInv, QueueInv, ReceiverStep, from' = "sender"
    PROVE  ReceiverSends \in Seq(toS')
<1>1. from \in Addresses /\ "sender" \in Addresses
    BY DEF IInv, TypeOK, Addresses
<1>2. ASSUME qR # <<>>, ReceiverTakes(Head(qR), "sender")
      PROVE  ReceiverSends \in Seq(toS')
  <2>1. Head(qR) \in toR
      BY <1>2 DEF QueueInv
  <2> QED
      BY <1>1, <1>2, <2>1, ReceiverTakesSends
<1>3. CASE RGatherTimeout
  <2>1. RGatherEnd(rmap, "sender") /\ rpc = "gather" /\ DOMAIN rmap \subseteq Total
      BY <1>3 DEF RGatherTimeout, IInv, MapInv
  <2> QED
      BY <2>1, GatherEndSends
<1>4. CASE RCollectTimeout
  <2>1. RReport(missing, "sender") /\ rpc = "collect" /\ missing \subseteq Total
      BY <1>4 DEF RCollectTimeout, IInv, ProgressInv, MissingExact, Total
  <2> QED
      BY <2>1, ReportSends
<1>5. CASE ReceiverTimesOut /\ ~ RGatherTimeout /\ ~ RCollectTimeout
    BY <1>1, <1>5, ReceiverTakesSends DEF ReceiverTimesOut, ReceiverTakes
<1> QED
    BY <1>2, <1>3, <1>4, <1>5 DEF ReceiverStep

(***************************************************************************)
(* The refinement, and with it what the queues hold.                       *)
(***************************************************************************)
FifoInv == IInv /\ QueueInv

LEMMA FifoInvInit ==
    ASSUME FifoInit, HandshakeOnly
    PROVE  FifoInv
<1>1. IInv
    BY SafetyInit DEF FifoInit
<1>2. QueueInv
    BY DEF FifoInit, QueueInv
<1> QED
    BY <1>1, <1>2 DEF FifoInv

\* Nothing that was sent is forgotten.
LEMMA WireGrows ==
    ASSUME IInv, [Next]_vars
    PROVE  toR \subseteq toR' /\ toS \subseteq toS'
<1>1. CASE Sender
  <2>1. toR \subseteq toR'
      BY <1>1 DEF Sender, SSendFile, SAwaitDoneAck, SAwaitRequest, SAwaitDoneAckAgain,
                  SFinish, SResendMissing
  <2>2. toS' = toS
      BY <1>1 DEF Sender, SSendFile, SAwaitDoneAck, SAwaitRequest, SAwaitDoneAckAgain,
                  receiverVars
  <2> QED
      BY <2>1, <2>2
<1>2. CASE Receiver
  <2>1. toR' = toR
      BY <1>2 DEF Receiver, RFirst, RGather, RRequest, RAnswer, RCollect, RFinal,
                  RGatherTimeout, RCollectTimeout, senderVars
  <2>2. toS \subseteq toS'
      BY <1>2 DEF Receiver, RFirst, RGather, RRequest, RAnswer, RCollect, RFinal,
                  RGatherTimeout, RCollectTimeout, RTake, RGatherEnd, RReport, RExit,
                  ReplyTo
  <2> QED
      BY <2>1, <2>2
<1>3. CASE UNCHANGED vars
    BY <1>3 DEF vars, senderVars, receiverVars
<1> QED
    BY <1>1, <1>2, <1>3 DEF Next

\* A step of FifoNext is one of FileTransfer's.
LEMMA StepRefines ==
    ASSUME FifoInv, [FifoNext]_fifoVars
    PROVE  [Next]_vars
<1>1. CASE SenderStep
    BY <1>1, SenderStepIs DEF FifoInv, Next
<1>2. CASE ReceiverStep
    BY <1>2, ReceiverStepIs DEF FifoInv, IInv, Next
<1>3. CASE UNCHANGED fifoVars
    BY <1>3 DEF fifoVars
<1> QED
    BY <1>1, <1>2, <1>3 DEF FifoNext

LEMMA TailIs ==
    ASSUME NEW P, NEW q \in Seq(P), q # <<>>, Len(q) <= Capacity
    PROVE  Tail(q) \in Seq(P) /\ Len(Tail(q)) <= Capacity
    OBVIOUS

LEMMA FifoInvStep ==
    ASSUME FifoInv, [FifoNext]_fifoVars
    PROVE  FifoInv'
<1>1. [Next]_vars
    BY StepRefines
<1>2. IInv'
    BY <1>1, SafetyStep DEF FifoInv
<1>3. toR \subseteq toR' /\ toS \subseteq toS'
    BY <1>1, WireGrows DEF FifoInv
<1>4. /\ qR \in Seq(toR) /\ Len(qR) <= Capacity
      /\ qS \in Seq(toS) /\ Len(qS) <= Capacity
      /\ lost \in 0 .. Losses
    BY DEF FifoInv, QueueInv
<1>5. qR \in Seq(toR') /\ qS \in Seq(toS')
    BY <1>3, <1>4, Monotone
<1>6. CASE SenderStep
  <2>1. SenderSends \in Seq(toR')
      BY <1>6, SenderSendsIs DEF FifoInv
  <2>2. Arrive(qR, SenderSends, qR')
      BY <1>6 DEF SenderStep
  <2>3. qR' \in Seq(toR') /\ Len(qR') <= Capacity /\ lost' \in 0 .. Losses
      BY <1>4, <1>5, <2>1, <2>2, ArriveIs
  <2>4. qS' \in {qS, Tail(qS)} /\ (qS' = Tail(qS) => qS # <<>> \/ qS' = qS)
      BY <1>6 DEF SenderStep
  <2>5. qS' \in Seq(toS') /\ Len(qS') <= Capacity
      BY <1>4, <1>5, <2>4, TailIs
  <2> QED
      BY <1>2, <2>3, <2>5 DEF FifoInv, QueueInv
<1>7. CASE ReceiverStep
  <2> DEFINE sent == IF from' = "sender" THEN ReceiverSends ELSE <<>>
  <2>1. sent \in Seq(toS')
      BY <1>7, ReceiverSendsIs DEF FifoInv
  <2>2. Arrive(qS, sent, qS')
      BY <1>7 DEF ReceiverStep
  <2> HIDE DEF sent
  <2>3. qS' \in Seq(toS') /\ Len(qS') <= Capacity /\ lost' \in 0 .. Losses
      BY <1>4, <1>5, <2>1, <2>2, ArriveIs
  <2>4. qR' \in {qR, Tail(qR)} /\ (qR' = Tail(qR) => qR # <<>> \/ qR' = qR)
      BY <1>7 DEF ReceiverStep
  <2>5. qR' \in Seq(toR') /\ Len(qR') <= Capacity
      BY <1>4, <1>5, <2>4, TailIs
  <2> QED
      BY <1>2, <2>3, <2>5 DEF FifoInv, QueueInv
<1>8. CASE UNCHANGED fifoVars
  <2>1. UNCHANGED <<qR, qS, lost, toR, toS>>
      BY <1>8 DEF fifoVars, vars, senderVars, receiverVars
  <2> QED
      BY <1>2, <1>4, <2>1 DEF FifoInv, QueueInv
<1> QED
    BY <1>6, <1>7, <1>8 DEF FifoNext

THEOREM FifoInductive == HandshakeOnly /\ FifoSpec => []FifoInv
<1>1. HandshakeOnly /\ FifoInit => FifoInv
    BY FifoInvInit
<1>2. FifoInv /\ [FifoNext]_fifoVars => FifoInv'
    BY FifoInvStep
<1> QED
    BY <1>1, <1>2, PTL DEF FifoSpec

\* The transfer over the queues implements the one over any network: every
\* datagram taken from a socket buffer had been sent, and every step of
\* send_file() and receive_file() on it is the one FileTransfer allows.
THEOREM Refinement == HandshakeOnly /\ FifoSpec => Spec
<1>1. FifoInit => Init
    BY DEF FifoInit
<1>2. FifoInv /\ [FifoNext]_fifoVars => [Next]_vars
    BY StepRefines
<1> QED
    BY <1>1, <1>2, FifoInductive, PTL DEF FifoSpec, Spec

\* The socket buffers hold packets that were sent, no more than fit, and no
\* more datagrams are lost than the path may lose.
THEOREM FifoTypeCorrect == HandshakeOnly /\ FifoSpec => []FifoTypeOK
<1>1. FifoInv => FifoTypeOK
    BY DEF FifoInv, IInv, QueueInv, FifoTypeOK
<1> QED
    BY <1>1, FifoInductive, PTL

\* The file is whole when receive_file() reports it, on the path too.
THEOREM FifoCompleteness == HandshakeOnly /\ FifoSpec => []Completeness
    BY Refinement, CompletenessHolds, PTL

(***************************************************************************)
(* ReceiverSurvives.  Until the receiver has stored a frame, one is at the *)
(* head of its buffer: the sender puts the whole file there at once, ahead *)
(* of SEND_FILE_DONE, and cannot lose all of it.                           *)
(***************************************************************************)
FrameAhead == qR # <<>> /\ Head(qR).type = "SEND_PACKET"

SurviveInv ==
    /\ rpc = "first" /\ spc = "start" => qR = <<>>
    /\ rpc = "first" /\ spc # "start" => FrameAhead
    /\ rpc # "first" => DOMAIN rmap # {} /\ rpc # "crashed"

LEMMA IntervalIs ==
    ASSUME NEW n \in Nat
    PROVE  IsFiniteSet(1 .. n) /\ Cardinality(1 .. n) = n
<1>1. IsFiniteSet(1 .. n)
    BY FS_Interval
<1>2. Cardinality(1 .. n) = IF 1 > n THEN 0 ELSE n - 1 + 1
    BY FS_Interval
<1> QED
    BY <1>1, <1>2

\* What is left of s when fewer datagrams are lost than it has frames at its
\* beginning starts with a frame.
LEMMA FrameLeft ==
    ASSUME NEW P, NEW s \in Seq(P), NEW D \in SUBSET (1 .. Len(s)), NEW n \in Nat,
           n <= Len(s), Cardinality(D) < n, \A k \in 1 .. n : s[k].type = "SEND_PACKET"
    PROVE  Survivors(s, D) # <<>> /\ Head(Survivors(s, D)).type = "SEND_PACKET"
<1> DEFINE K == (1 .. Len(s)) \ D
           first == Kept(s, D)[1]
<1>1. IsFiniteSet(1 .. n) /\ Cardinality(1 .. n) = n
    BY IntervalIs
<1>2. IsFiniteSet(D) /\ IsFiniteSet(K) /\ K \in SUBSET Int
  <2>1. Len(s) \in Nat
      OBVIOUS
  <2>2. IsFiniteSet(1 .. Len(s))
      BY <2>1, IntervalIs
  <2>3. D \subseteq 1 .. Len(s) /\ K \subseteq 1 .. Len(s)
      OBVIOUS
  <2>4. IsFiniteSet(D) /\ IsFiniteSet(K)
      BY <2>2, <2>3, FS_Subset
  <2> QED
      BY <2>4
<1>3. PICK g \in 1 .. n : g \notin D
  <2>1. SUFFICES ASSUME 1 .. n \subseteq D PROVE FALSE
      OBVIOUS
  <2>2. Cardinality(1 .. n) <= Cardinality(D)
      BY <1>2, <2>1, FS_Subset
  <2>3. Cardinality(D) \in Nat
      BY <1>2, FS_CardinalityType
  <2> QED
      BY <1>1, <2>2, <2>3
<1>4. g \in K
    BY <1>3
<1>5. Cardinality(K) \in Nat \ {0}
    BY <1>2, <1>4, FS_CardinalityType, FS_EmptySet
<1>6. Len(Kept(s, D)) = Cardinality(K) /\ first \in K /\ Rank(K, first) = 0
  <2>1. /\ InOrder(K) \in Seq(K) /\ Len(InOrder(K)) = Cardinality(K)
        /\ \A k \in 1 .. Cardinality(K) : Rank(K, InOrder(K)[k]) = k - 1
      BY <1>2, InOrderIs
  <2>2. 1 \in 1 .. Cardinality(K)
      BY <1>5
  <2>3. Rank(K, InOrder(K)[1]) = 1 - 1
      BY <2>1, <2>2
  <2>4. InOrder(K)[1] \in K
      BY <2>1, <2>2
  <2> QED
      BY <2>1, <2>3, <2>4 DEF Kept
<1>7. {h \in K : h < first} = {}
  <2>1. IsFiniteSet({h \in K : h < first})
      BY <1>2, FS_Subset
  <2> QED
      BY <1>6, <2>1, FS_EmptySet DEF Rank
<1>8. first \in 1 .. n
  <2>1. first \in Nat /\ first >= 1 /\ g \in Int
      BY <1>3, <1>6
  <2>2. ~ (g < first)
      BY <1>4, <1>7
  <2> QED
      BY <1>3, <2>1, <2>2
<1>9. Survivors(s, D) \in Seq(P) /\ Len(Survivors(s, D)) = Cardinality(K)
    BY KeptIs
<1>10. Survivors(s, D)[1] = s[first]
  <2>1. 1 \in 1 .. Len(Kept(s, D))
      BY <1>5, <1>6
  <2> QED
      BY <2>1 DEF Survivors
<1> HIDE DEF K, first
<1> QED
    BY <1>5, <1>8, <1>9, <1>10

LEMMA StartSends ==
    ASSUME IInv, SSendFile, qR = <<>>, lost \in 0 .. Losses, Losses < total_frame,
           Arrive(qR, SenderSends, qR')
    PROVE  FrameAhead'
<1>1. SenderSends = SendsFile
    BY DEF SenderSends, SSendFile
<1>2. FileDone \in toR' /\ (\A i \in InFile : Frame(i, File[i]) \in toR')
    BY DEF SSendFile
<1>3. /\ SendsFile \in Seq(toR') /\ Len(SendsFile) = total_frame + 1
      /\ \A k \in 1 .. total_frame : SendsFile[k] = Frame(k - 1, File[k - 1])
    BY <1>2, SendsFileIs
<1>4. \A k \in 1 .. total_frame : SendsFile[k].type = "SEND_PACKET"
  <2>1. \A i, d : Frame(i, d).type = "SEND_PACKET"
      BY DEF Frame
  <2> QED
      BY <1>3, <2>1
<1>5. PICK D \in LostOf(SendsFile) :
          /\ lost' = lost + Cardinality(D)
          /\ qR' = Buffered(qR \o Survivors(SendsFile, D))
    BY <1>1 DEF Arrive, Buffered, Survivors, Kept
<1>6. D \in SUBSET (1 .. Len(SendsFile)) /\ Cardinality(D) <= Losses - lost
    BY DEF LostOf
<1>7. Cardinality(D) < total_frame
  <2>1. IsFiniteSet(1 .. Len(SendsFile))
      BY <1>3, FS_Interval
  <2>2. Cardinality(D) \in Nat
      BY <1>6, <2>1, FS_Subset, FS_CardinalityType
  <2> QED
      BY <1>6, <2>2
<1> DEFINE left == Survivors(SendsFile, D)
<1>8. left # <<>> /\ Head(left).type = "SEND_PACKET"
    BY <1>3, <1>4, <1>6, <1>7, FrameLeft
<1>9. left \in Seq(toR')
    BY <1>3, <1>6, KeptIs
<1> HIDE DEF left
<1>10. qR \o left = left
    BY <1>9
<1>11. Buffered(left) # <<>> /\ Head(Buffered(left)) = Head(left)
    BY <1>8, <1>9, BufferedIs
<1> QED
    BY <1>5, <1>8, <1>10, <1>11 DEF FrameAhead, left

LEMMA SurviveSender ==
    ASSUME FifoInv, SurviveInv, Losses < total_frame, SenderStep
    PROVE  SurviveInv'
<1>1. rpc' = rpc /\ rmap' = rmap
    BY DEF SenderStep, SenderTakes, SSendFile, SAwaitDoneAck, SAwaitRequest,
           SAwaitDoneAckAgain, receiverVars
<1>2. spc' # "start"
    BY DEF SenderStep, SenderTakes, SSendFile, SAwaitDoneAck, SAwaitRequest,
           SAwaitDoneAckAgain, SFinish, SResendMissing
<1>3. IInv /\ lost \in 0 .. Losses /\ Arrive(qR, SenderSends, qR')
    BY DEF FifoInv, QueueInv, SenderStep
<1>4. CASE rpc = "first" /\ spc = "start"
  <2>1. SSendFile
      BY <1>4 DEF SenderStep, SenderTakes, SAwaitDoneAck, SAwaitRequest, SAwaitDoneAckAgain
  <2>2. FrameAhead'
      BY <1>3, <1>4, <2>1, StartSends DEF SurviveInv
  <2> QED
      BY <1>1, <1>2, <1>4, <2>2 DEF SurviveInv
<1>5. CASE rpc = "first" /\ spc # "start"
  <2>1. FrameAhead
      BY <1>5 DEF SurviveInv
  <2>2. toR \subseteq toR'
    <3>1. [Next]_vars
        BY StepRefines DEF FifoNext
    <3> QED
        BY <1>3, <3>1, WireGrows
  <2>3. qR \in Seq(toR')
      BY <2>2, Monotone DEF FifoInv, QueueInv
  <2>4. SenderSends \in Seq(toR')
      BY SenderSendsIs DEF FifoInv
  <2>5. qR # <<>> => qR' # <<>> /\ Head(qR') = Head(qR)
      BY <1>3, <2>3, <2>4, ArriveIs
  <2>6. FrameAhead'
      BY <2>1, <2>5 DEF FrameAhead
  <2> QED
      BY <1>1, <1>2, <1>5, <2>6 DEF SurviveInv
<1>6. CASE rpc # "first"
    BY <1>1, <1>6 DEF SurviveInv
<1> QED
    BY <1>4, <1>5, <1>6

LEMMA SurviveReceiver ==
    ASSUME FifoInv, SurviveInv, Prompt = TRUE, ReceiverStep
    PROVE  SurviveInv'
<1>1. CASE rpc = "first"
  <2>1. ~ ReceiverTimesOut
    <3> SUFFICES ASSUME ReceiverTimesOut PROVE FALSE
        OBVIOUS
    <3>1. qR = <<>> /\ spc # "start"
        BY DEF ReceiverTimesOut
    <3> QED
        BY <1>1, <3>1 DEF SurviveInv, FrameAhead
  <2> DEFINE p == Head(qR)
  <2>2. qR # <<>> /\ ReceiverTakes(p, "sender")
      BY <2>1 DEF ReceiverStep
  <2>3. p.type = "SEND_PACKET"
      BY <1>1, <2>2 DEF SurviveInv, FrameAhead
  <2> HIDE DEF p
  <2>4. rpc' = "gather" /\ rmap' = Stored(p)
      BY <1>1, <2>2, <2>3
      DEF ReceiverTakes, RFirst, RGather, RRequest, RAnswer, RCollect, RFinal
  <2>5. p.seq \in DOMAIN Stored(p)
      BY <2>3 DEF Stored
  <2> QED
      BY <2>4, <2>5 DEF SurviveInv
<1>2. CASE rpc # "first"
  <2>1. DOMAIN rmap # {} /\ rpc # "crashed"
      BY <1>2 DEF SurviveInv
  <2>2. \A p : DOMAIN Stored(p) # {}
      BY <2>1 DEF Stored
  <2>3. \A m, addr : RGatherEnd(m, addr) /\ DOMAIN m # {} =>
            rpc' \in {"exited", "final", "request"}
      BY DEF RGatherEnd, RReport, RExit
  <2>4. \A addr : RReport(missing, addr) => rpc' \in {"final", "request"}
      BY DEF RReport
  <2>5. ASSUME NEW p, NEW src, ReceiverTakes(p, src)
        PROVE  DOMAIN rmap' # {} /\ rpc' \notin {"first", "crashed"}
    <3>1. CASE RGather(p, src)
        BY <2>1, <2>2, <2>3, <3>1 DEF RGather
    <3>2. CASE RRequest(p, src) \/ RFinal(p, src)
        BY <2>1, <3>2 DEF RRequest, RFinal
    <3>3. CASE RAnswer(p, src) \/ RCollect(p, src)
        BY <2>1, <2>2, <2>4, <3>3 DEF RAnswer, RCollect, RTake
    <3> QED
        BY <1>2, <2>5, <3>1, <3>2, <3>3 DEF ReceiverTakes, RFirst
  <2>6. CASE RGatherTimeout \/ RCollectTimeout
      BY <2>1, <2>3, <2>4, <2>6 DEF RGatherTimeout, RCollectTimeout, SurviveInv
  <2>7. CASE ~ (RGatherTimeout \/ RCollectTimeout)
    <3>1. \E p, src : ReceiverTakes(p, src)
        BY <2>7 DEF ReceiverStep, ReceiverTimesOut, ReceiverTakes
    <3> QED
        BY <2>5, <3>1 DEF SurviveInv
  <2> QED
      BY <2>6, <2>7
<1> QED
    BY <1>1, <1>2

LEMMA SurviveStep ==
    ASSUME FifoInv, SurviveInv, Prompt = TRUE, Losses < total_frame, [FifoNext]_fifoVars
    PROVE  SurviveInv'
<1>1. CASE UNCHANGED fifoVars
  <2>1. UNCHANGED <<spc, rpc, rmap, qR>>
      BY <1>1 DEF fifoVars, vars, senderVars, receiverVars
  <2> QED
      BY <2>1 DEF SurviveInv, FrameAhead
<1> QED
    BY <1>1, SurviveSender, SurviveReceiver DEF FifoNext

\* receive_file() never looks for missing frames with none received, on a
\* path that loses fewer datagrams than the file has frames: for every file,
\* every buffer size and every burst.
THEOREM ReceiverSurvivesHolds ==
    HandshakeOnly /\ Prompt = TRUE /\ Losses < total_frame /\ FifoSpec
        => []ReceiverSurvives
<1> SUFFICES ASSUME Prompt = TRUE, Losses < total_frame
             PROVE  HandshakeOnly /\ FifoSpec => []ReceiverSurvives
    OBVIOUS
<1>1. FifoInit => SurviveInv
    BY DEF FifoInit, Init, SurviveInv
<1>2. FifoInv /\ SurviveInv /\ [FifoNext]_fifoVars => SurviveInv'
    BY SurviveStep
<1>3. SurviveInv => ReceiverSurvives
    BY DEF SurviveInv, ReceiverSurvives
<1> QED
    BY <1>1, <1>2, <1>3, FifoInductive, PTL DEF FifoSpec

=============================================================================
