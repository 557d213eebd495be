-------------------------- MODULE FileTransferFifo ---------------------------
(***************************************************************************)
(* The transfer over the path the programs were run on: datagrams queue up *)
(* in the two socket buffers in the order they were sent, a few of them    *)
(* are lost on the way, and what arrives at a full buffer is dropped.      *)
(* recvfrom() times out only on an empty buffer.  Every step is a step of  *)
(* FileTransfer on the packet at the head of the queue, so the safety      *)
(* properties proved there hold here; this module adds the number of       *)
(* copies of a burst, the order, and with it what must eventually happen.  *)
(* A frame number that two requests repeat before the sender has answered  *)
(* is resent once here, twice by the code.                                 *)
(*                                                                         *)
(* Line numbers are those of src_client/udp_client.cpp.                    *)
(***************************************************************************)
EXTENDS FileTransfer, Sequences

CONSTANTS
    SenderBurst, \* the sender's own MAX_SEND
    Capacity,    \* packets a socket buffer holds
    Prompt,      \* TRUE when a peer reads its buffer within two seconds
    Losses       \* how many datagrams the path loses in all

ASSUME FifoAssumption ==
    /\ SenderBurst \in Nat \ {0}
    /\ Capacity \in Nat \ {0} /\ Losses \in Nat
    /\ \E d \in Payload : Stray = {d}

VARIABLES
    qR,  \* the receiver's socket buffer
    qS,  \* the sender's socket buffer
    lost \* datagrams lost so far

fifoVars == <<vars, qR, qS, lost>>

FifoInit == Init /\ qR = <<>> /\ qS = <<>> /\ lost = 0

Copies(n, p) == [k \in 1 .. n |-> p]

\* The numbers of a finite set in ascending order, as the frames asked for
\* are in missing_frame_seq: each where its rank puts it.
InOrder(S) == [k \in 1 .. Cardinality(S) |-> CHOOSE f \in S : Rank(S, f) = k - 1]

\* Mutant: numbers are taken to start at 1.
FrameAgain_offByOne(f) ==
    Frame(f, IF f - 1 \in InFile THEN File[f - 1] ELSE CHOOSE d \in Stray : TRUE)
FrameAgain(f) == Frame(f, IF f \in InFile THEN File[f] ELSE CHOOSE d \in Stray : TRUE)

\* The file and SEND_FILE_DONE, lines 118-127.
\* Mutant: SEND_FILE_DONE goes first.
SendsFile_doneFirst ==
    <<FileDone>> \o [k \in 1 .. total_frame |-> Frame(k - 1, File[k - 1])]
SendsFile == [k \in 1 .. total_frame |-> Frame(k - 1, File[k - 1])] \o <<FileDone>>

\* The answer to a request, lines 157-164: the acknowledgements go first.
Resends(S) ==
    Copies(SenderBurst, MissingDoneAck)
        \o [k \in 1 .. Cardinality(S) |-> FrameAgain(InOrder(S)[k])]

\* Lines 185-187.
\* Mutant: GET_ALL_FILE_ACK is sent once.
EndsFile_once == <<GetAllAck>>
EndsFile == Copies(SenderBurst, GetAllAck)

\* What send_file() sends in a step, in order.
SenderSends ==
    CASE spc = "start" -> SendsFile
      [] spc' = "end" -> EndsFile
      [] spc = "awaitRequest" /\ spc' = "awaitAck2" -> Resends(mfs') \o <<FileDone>>
      [] spc' = "crashed" -> Resends(mfs' \cap InFile)
      [] spc' = spc /\ spc \in {"awaitAck", "awaitAck2"} -> <<FileDone>>
      [] OTHER -> <<>>

\* Lines 483-502.
Requests(S) ==
    [k \in 1 .. LastChunk(S) |-> Request("SEND_MISSING", Chunk(S, k - 1))]
        \o <<LastRequest(S)>>

\* What receive_file() sends in a step, in order.
ReceiverSends ==
    CASE rpc' \in {"done", "exited"} -> <<>>
      [] rpc' = "request" /\ rpc # "request" ->
            Copies(MAX_SEND, FileDoneAck) \o Requests(missing')
      [] rpc' = "final" /\ rpc # "final" ->
            Copies(MAX_SEND, FileDoneAck) \o <<GetAll>>
      [] rpc' = "crashed" -> Copies(MAX_SEND, FileDoneAck)
      [] rpc' = rpc /\ rpc = "request" -> <<LastRequest(missing)>>
      [] rpc' = rpc /\ rpc = "final" -> <<GetAll>>
      [] OTHER -> <<>>

\* The positions in s of datagrams that may be lost together.
LostOf(s) ==
    {D \in SUBSET (1 .. Len(s)) : Cardinality(D) <= Losses - lost}

\* Some of the datagrams s are lost, the others reach the buffer, which keeps
\* no more than its capacity.
Arrive(q, s, q2) ==
    \E D \in LostOf(s) :
        /\ lost' = lost + Cardinality(D)
        /\ LET kept == InOrder((1 .. Len(s)) \ D)
               all == q \o [k \in 1 .. Len(kept) |-> s[kept[k]]]
           IN  q2 = IF Len(all) > Capacity THEN SubSeq(all, 1, Capacity) ELSE all

SenderTakes(p) == SAwaitDoneAck(p) \/ SAwaitRequest(p) \/ SAwaitDoneAckAgain(p)

SenderStep ==
    /\ \/ SSendFile /\ UNCHANGED qS
       \/ qS # <<>> /\ SenderTakes(Head(qS)) /\ qS' = Tail(qS)
       \/ /\ qS = <<>> /\ SenderTimeout
          /\ Prompt => qR = <<>> \/ rpc \in {"done", "exited", "crashed"}
          /\ SenderTakes(sbuf)
          /\ UNCHANGED qS
    /\ Arrive(qR, SenderSends, qR')

ReceiverTakes(p, src) ==
    \/ RFirst(p, src) \/ RGather(p, src) \/ RRequest(p, src)
    \/ RAnswer(p, src) \/ RCollect(p, src) \/ RFinal(p, src)

\* Two seconds without a packet.  A prompt sender answers what it has within
\* them, its first packet included.
ReceiverTimesOut ==
    /\ qR = <<>>
    /\ Prompt => (qS = <<>> /\ spc # "start") \/ spc \in {"end", "crashed"}
    /\ \/ RFirst(rbuf, from) \/ RAnswer(rbuf, from) \/ RFinal(rbuf, from)
       \/ RRequest(lbuf, from)
       \/ RGatherTimeout \/ RCollectTimeout

ReceiverStep ==
    /\ \/ qR # <<>> /\ ReceiverTakes(Head(qR), "sender") /\ qR' = Tail(qR)
       \/ ReceiverTimesOut /\ UNCHANGED qR
    /\ Arrive(qS, IF from' = "sender" THEN ReceiverSends ELSE <<>>, qS')

FifoNext == SenderStep \/ ReceiverStep

\* Both programs are sequential code that the system keeps scheduling.
FifoSpec ==
    /\ FifoInit /\ [][FifoNext]_fifoVars
    /\ WF_fifoVars(SenderStep) /\ WF_fifoVars(ReceiverStep)

\* The socket buffers hold packets that were sent, no more than fit; lost
\* never exceeds its bound.
FifoTypeOK ==
    /\ TypeOK
    /\ Len(qR) <= Capacity /\ Len(qS) <= Capacity
    /\ \A k \in DOMAIN qR : qR[k] \in toR
    /\ \A k \in DOMAIN qS : qS[k] \in toS
    /\ lost \in 0 .. Losses

\* The receiver never looks for missing frames with none received: a frame
\* is always ahead of the first SEND_FILE_DONE.  It takes fewer losses than
\* the file has frames; losing them all is what receive_file() dies of.
ReceiverSurvives == rpc # "crashed"

\* Fewer losses than copies in a burst of GET_ALL_FILE_ACK: the receiver does
\* not end by giving up, although the sender that would answer it is gone.
AckBurstSuffices == rpc = "done" => rbuf = GetAllAck

\* A transfer ends on both sides, whichever datagrams are lost, unless the
\* sender dies reading the frame that the file does not have.
TransferEnds == <>((rpc = "done" /\ spc = "end") \/ spc = "crashed")

\* MAX_SEND, udp_server.h:21, "The maximum number times can use to send a
\* packet": the sender does not repeat SEND_FILE_DONE for ever ...
DoneRepeatsStop == <>[](spc \notin {"awaitAck", "awaitAck2"})

\* ... and the receiver does not repeat its requests for ever.
ReceiverStops == <>(rpc \in {"done", "exited", "crashed"})

\* A "reliable" transfer (README.md:1) without a single loss ends at the
\* sender too, however slowly the two peers are scheduled.
SenderStops == <>(spc \in {"end", "crashed"})
=============================================================================
