---------------------------- MODULE FileTransfer ----------------------------
(***************************************************************************)
(* One transfer of a file over UDP: send_file() of one peer running        *)
(* against receive_file() of the other (Lab03; the two programs hold the   *)
(* same two functions, so this module is an upload as well as a download). *)
(*                                                                         *)
(* The network is the set of all datagrams ever sent to each peer.  A      *)
(* datagram may be received at any later time, several times, in any       *)
(* order, or never: loss, duplication, delay and reordering are all there. *)
(* A burst of MAX_SEND copies is one element of the set.                   *)
(*                                                                         *)
(* An action is the code from one recvfrom() to the next: it takes the     *)
(* packet the call leaves in receive_packet and runs to the next call.     *)
(* A recvfrom() that returns -1 leaves the previous packet in the buffer,  *)
(* and the code looks at it again as if it had just arrived: that is why   *)
(* the two buffers sbuf and rbuf are variables.                            *)
(*                                                                         *)
(* Line numbers are those of src_server/udp_server.cpp.                    *)
(***************************************************************************)
EXTENDS FrameSets, FiniteSets

CONSTANTS
    total_frame,   \* number of frames of the file, as both peers know it
    Payload,       \* what a frame can hold
    File,          \* fileVector: frame number -> payload
    Stray,         \* what fileVector[i] can yield for an i outside of the vector
    MAX_SEND,      \* the receiver's limit on repeated sends
    PerPacket,     \* frame numbers that fit in one SEND_MISSING packet
    InitialFrom,   \* the receiver's reply address before its first packet
    SenderTimeout, \* TRUE when the sender's socket has a receive timeout
    LeftoverR,     \* datagrams already on their way to the receiver
    LeftoverS      \* datagrams already on their way to the sender

Addresses == {"none", "sender", "other"}

ASSUME TransferAssumption ==
    /\ total_frame \in Nat
    /\ File \in [0 .. total_frame - 1 -> Payload]
    /\ Stray \subseteq Payload
    /\ MAX_SEND \in Nat \ {0}
    /\ PerPacket \in Nat \ {0}
    /\ InitialFrom \in Addresses
    /\ SenderTimeout \in BOOLEAN

(***************************************************************************)
(* Packets.  memset(0) makes a packet of type 0, which is MESSAGE_REQUEST. *)
(***************************************************************************)
Signal(t) == [type |-> t]
Frame(i, d) == [type |-> "SEND_PACKET", seq |-> i, data |-> d]
Request(t, S) == [type |-> t, frames |-> S]

Zeroed == Signal("MESSAGE_REQUEST")
FileDone == Signal("SEND_FILE_DONE")
FileDoneAck == Signal("SEND_FILE_DONE_ACK")
MissingDoneAck == Signal("SEND_MISSING_DONE_ACK")
GetAll == Signal("GET_ALL_FILE")
GetAllAck == Signal("GET_ALL_FILE_ACK")

VARIABLES
    spc,     \* where send_file() waits
    sbuf,    \* its receive_packet
    mfs,     \* its missing_frame_seq, as a set
    toR,     \* every datagram sent to the receiver
    rpc,     \* where receive_file() waits
    rbuf,    \* its receive_packet
    lbuf,    \* the receive_packet of request_to_resend_missing_frame()
    rmap,    \* receive_file_map
    missing, \* missing_frame_sequence
    tries,   \* resend_frame / timeout_counter, whichever loop is running
    from,    \* the address the receiver replies to
    toS      \* every datagram sent to the sender

senderVars == <<spc, sbuf, mfs, toR>>
receiverVars == <<rpc, rbuf, lbuf, rmap, missing, tries, from, toS>>
vars == <<senderVars, receiverVars>>

Init ==
    /\ spc = "start" /\ sbuf = Zeroed /\ mfs = {} /\ toR = LeftoverR
    /\ rpc = "first" /\ rbuf = Zeroed /\ rmap = <<>> /\ missing = {}
    /\ lbuf = Zeroed /\ tries = 0 /\ from = InitialFrom /\ toS = LeftoverS

(***************************************************************************)
(* The sender: send_file().                                                *)
(***************************************************************************)
InFile == 0 .. total_frame - 1

\* What the sender can find in receive_packet after recvfrom().
SenderInput == toS \cup (IF SenderTimeout THEN {sbuf} ELSE {})

missing_frame_packet_interpreter(p) ==
    IF p.type \in {"SEND_MISSING", "SEND_MISSING_DONE"} THEN p.frames ELSE {}

SSendFile ==
    /\ spc = "start"
    /\ spc' = "awaitAck"
    /\ toR' = toR \cup {Frame(i, File[i]) : i \in InFile} \cup {FileDone}
    /\ UNCHANGED <<sbuf, mfs, receiverVars>>

\* Lines 184-191.
\* Mutant: the acknowledgement is sent, the loop is not left.
SFinish_stays ==
    /\ toR' = toR \cup {GetAllAck}
    /\ UNCHANGED <<spc, mfs>>
SFinish ==
    /\ spc' = "end"
    /\ toR' = toR \cup {GetAllAck}
    /\ UNCHANGED mfs

\* Lines 125-133: every packet but the awaited one repeats SEND_FILE_DONE.
SAwaitDoneAck(p) ==
    /\ spc = "awaitAck"
    /\ sbuf' = p
    /\ \/ /\ p.type = "SEND_FILE_DONE_ACK"
          /\ spc' = "awaitRequest"
          /\ UNCHANGED toR
       \/ /\ p.type # "SEND_FILE_DONE_ACK"
          /\ toR' = toR \cup {FileDone}
          /\ UNCHANGED spc
    /\ UNCHANGED <<mfs, receiverVars>>

\* The requested frames, read with no check against the vector's size; stray
\* holds what the reads outside of it find.
\* Mutant: reads fileVector[i] for the i-th requested frame.
ResentFrames_byPosition(S, stray) ==
    {Frame(f, IF f \in InFile THEN File[Cardinality({g \in S : g < f})] ELSE stray[f]) : f \in S}
ResentFrames(S, stray) ==
    {Frame(f, IF f \in InFile THEN File[f] ELSE stray[f]) : f \in S}

\* Lines 153-164: a read outside of the vector yields a stray string or ends
\* the process.
SResendMissing(S) ==
    /\ mfs' = S
    /\ \/ \E stray \in [S \ InFile -> Stray] :
             /\ spc' = "awaitAck2"
             /\ toR' = toR \cup {MissingDoneAck, FileDone}
                           \cup ResentFrames(S, stray)
       \/ /\ ~ S \subseteq InFile
          /\ spc' = "crashed"
          /\ toR' = toR \cup {MissingDoneAck}
                        \cup ResentFrames(S \cap InFile, <<>>)

\* Lines 141-164 and 182: collect the request until its last packet.
SAwaitRequest(p) ==
    /\ spc = "awaitRequest"
    /\ sbuf' = p
    /\ \/ p.type = "GET_ALL_FILE" /\ SFinish
       \/ /\ p.type = "SEND_MISSING_DONE"
          /\ SResendMissing(mfs \cup missing_frame_packet_interpreter(p))
       \/ /\ p.type \notin {"GET_ALL_FILE", "SEND_MISSING_DONE"}
          /\ mfs' = mfs \cup missing_frame_packet_interpreter(p)
          /\ UNCHANGED <<spc, toR>>
    /\ UNCHANGED receiverVars

\* Lines 165-181.
SAwaitDoneAckAgain(p) ==
    /\ spc = "awaitAck2"
    /\ sbuf' = p
    /\ \/ p.type = "GET_ALL_FILE" /\ SFinish
       \/ /\ p.type = "SEND_FILE_DONE_ACK"
          /\ spc' = "awaitRequest"
          /\ mfs' = {}
          /\ UNCHANGED toR
       \/ /\ p.type \notin {"GET_ALL_FILE", "SEND_FILE_DONE_ACK"}
          /\ toR' = toR \cup {FileDone}
          /\ UNCHANGED <<spc, mfs>>
    /\ UNCHANGED receiverVars

Sender ==
    \/ SSendFile
    \/ \E p \in SenderInput :
          SAwaitDoneAck(p) \/ SAwaitRequest(p) \/ SAwaitDoneAckAgain(p)

(***************************************************************************)
(* The receiver: receive_file().                                           *)
(***************************************************************************)

\* recvfrom() leaves p in a buffer that held old, and src as the reply
\* address that was addr: a datagram arrived, or the two seconds passed.
Arrived(p, src) == p \in toR /\ src = "sender"
TimedOut(p, src, old, addr) == p = old /\ src = addr

\* receive_file_map after packet p.
Stored(p) ==
    IF p.type = "SEND_PACKET"
    THEN [i \in DOMAIN rmap \cup {p.seq} |->
            IF i = p.seq THEN p.data ELSE rmap[i]]
    ELSE rmap

\* missing_frame() of a non-empty sequence: the loop ends with
\* k <= total_frame, one past the last frame of the file.
\* Mutant: without the case i == 0, frames before the first are forgotten.
missing_frame_noFirst(received) ==
    {f \in 0 .. total_frame : f \notin received /\ \E g \in received : g < f}
\* Mutant: the last loop ends with k < total_frame.
missing_frame_below(received) == Lacking(total_frame - 1, received)
missing_frame(received) == Lacking(total_frame, received)

\* The packets of request_to_resend_missing_frame(), in ascending order of
\* the frame numbers they carry; only the last has type SEND_MISSING_DONE.
Rank(S, f) == Cardinality({g \in S : g < f})
Chunk(S, k) == {f \in S : Rank(S, f) \div PerPacket = k}
LastChunk(S) == (Cardinality(S) - 1) \div PerPacket
LastRequest(S) == Request("SEND_MISSING_DONE", Chunk(S, LastChunk(S)))
RequestPackets(S) ==
    {Request("SEND_MISSING", Chunk(S, k)) : k \in 0 .. LastChunk(S) - 1}
        \cup {LastRequest(S)}

\* Replies reach the sender only if the address is the sender's.
ReplyTo(addr, packets) ==
    toS' = IF addr = "sender" THEN toS \cup packets ELSE toS

\* An address that was never set makes every sendto() fail, and send_packet()
\* exits the process after 20 of them.
RExit ==
    /\ rpc' = "exited"
    /\ UNCHANGED <<missing, lbuf, tries, toS>>

\* Lines 312-321 and 332-344: acknowledge, then ask for what is missing, or
\* report the file complete.  The code leaves lbuf uninitialised: the stack
\* may hold the packet of an earlier call.
RReport(S, addr) ==
    /\ missing' = S
    /\ tries' = 0
    /\ \/ /\ S = {}
          /\ rpc' = "final"
          /\ ReplyTo(addr, {FileDoneAck, GetAll})
          /\ UNCHANGED lbuf
       \/ /\ S # {}
          /\ rpc' = "request"
          /\ ReplyTo(addr, {FileDoneAck} \cup RequestPackets(S))
          /\ lbuf' \in {Zeroed, MissingDoneAck}

\* Lines 307-318, with the frames of m received so far.  With none of them
\* missing_frame() reads the element before an empty vector, through a null
\* pointer as the vector is a copy that never held anything.
RGatherEnd(m, addr) ==
    \/ addr = "none" /\ RExit
    \/ addr # "none" /\ DOMAIN m # {} /\ RReport(missing_frame(DOMAIN m), addr)
    \/ /\ addr # "none" /\ DOMAIN m = {}
       /\ rpc' = "crashed"
       /\ ReplyTo(addr, {FileDoneAck})
       /\ UNCHANGED <<missing, lbuf, tries>>

\* Lines 290-298: the first recvfrom(); its failure is not looked at.
RFirst(p, src) ==
    /\ rpc = "first"
    /\ Arrived(p, src) \/ TimedOut(p, src, rbuf, from)
    /\ from' = src
    /\ rmap' = Stored(p)
    /\ \/ p.type = "SEND_FILE_DONE" /\ rbuf' = p /\ RGatherEnd(Stored(p), src)
       \/ /\ p.type # "SEND_FILE_DONE"
          /\ rpc' = "gather"
          /\ rbuf' = Zeroed
          /\ UNCHANGED <<missing, lbuf, tries, toS>>
    /\ UNCHANGED senderVars

\* Lines 296-306: until SEND_FILE_DONE ...
RGather(p, src) ==
    /\ rpc = "gather"
    /\ Arrived(p, src)
    /\ from' = src
    /\ rmap' = Stored(p)
    /\ \/ p.type = "SEND_FILE_DONE" /\ rbuf' = p /\ RGatherEnd(Stored(p), src)
       \/ p.type # "SEND_FILE_DONE"
          /\ UNCHANGED <<rpc, rbuf, missing, lbuf, tries, toS>>
    /\ UNCHANGED senderVars

\* ... or two seconds of silence.
RGatherTimeout ==
    /\ rpc = "gather"
    /\ RGatherEnd(rmap, from)
    /\ UNCHANGED <<from, rmap, rbuf, senderVars>>

\* The counter is tested after recvfrom() and before it is incremented.
\* Mutant: the two are swapped, and one more packet is sent.
GivesUp_late == tries > MAX_SEND + 2
GivesUp == tries > MAX_SEND + 1

\* request_to_resend_missing_frame(), lines 503-512.
RRequest(p, src) ==
    /\ rpc = "request"
    /\ Arrived(p, src) \/ TimedOut(p, src, lbuf, from)
    /\ lbuf' = p
    /\ \/ /\ p.type = "SEND_MISSING_DONE_ACK" \/ GivesUp
          /\ rpc' = "answer"
          /\ tries' = 0
          /\ UNCHANGED toS
       \/ /\ p.type # "SEND_MISSING_DONE_ACK" /\ ~ GivesUp
          /\ tries' = tries + 1
          /\ ReplyTo(src, {LastRequest(missing)})
          /\ UNCHANGED rpc
    /\ UNCHANGED <<rbuf, rmap, missing, from, senderVars>>

\* Lines 324-328.
\* Mutant: the frame is stored and stays in missing_frame_sequence.
RTake_noErase(p) ==
    /\ rmap' = Stored(p)
    /\ rpc' = "collect"
    /\ UNCHANGED <<missing, lbuf, tries, toS>>
RTake(p) ==
    /\ rmap' = Stored(p)
    /\ missing' = missing \ (IF p.type = "SEND_PACKET" THEN {p.seq} ELSE {})
    /\ rpc' = "collect"
    /\ UNCHANGED <<lbuf, tries, toS>>

\* Line 322: the first packet after a request; a timeout leaves the last one.
RAnswer(p, src) ==
    /\ rpc = "answer"
    /\ Arrived(p, src) \/ TimedOut(p, src, rbuf, from)
    /\ rbuf' = p
    /\ from' = src
    /\ \/ p.type = "SEND_FILE_DONE" /\ RReport(missing, src) /\ UNCHANGED rmap
       \/ p.type # "SEND_FILE_DONE" /\ RTake(p)
    /\ UNCHANGED senderVars

\* Lines 323-331.
RCollect(p, src) ==
    /\ rpc = "collect"
    /\ Arrived(p, src)
    /\ rbuf' = p
    /\ from' = src
    /\ \/ p.type = "SEND_FILE_DONE" /\ RReport(missing, src) /\ UNCHANGED rmap
       \/ p.type # "SEND_FILE_DONE" /\ RTake(p)
    /\ UNCHANGED senderVars

\* Line 330: two seconds of silence end the round.
\* Mutant: the failed recvfrom() is not looked at, the loop goes on.
RCollectTimeout_ignored == rpc = "collect" /\ UNCHANGED vars
RCollectTimeout ==
    /\ rpc = "collect"
    /\ RReport(missing, from)
    /\ UNCHANGED <<rbuf, from, rmap, senderVars>>

\* Lines 344-355, and the file is written when the function has returned.
RFinal(p, src) ==
    /\ rpc = "final"
    /\ Arrived(p, src) \/ TimedOut(p, src, rbuf, from)
    /\ rbuf' = p
    /\ from' = src
    /\ \/ /\ p.type = "GET_ALL_FILE_ACK" \/ GivesUp
          /\ rpc' = "done"
          /\ UNCHANGED <<tries, toS>>
       \/ /\ p.type # "GET_ALL_FILE_ACK" /\ ~ GivesUp
          /\ tries' = tries + 1
          /\ ReplyTo(src, {GetAll})
          /\ UNCHANGED rpc
    /\ UNCHANGED <<rmap, missing, lbuf, senderVars>>

Receiver ==
    \/ \E p \in toR \cup {rbuf, lbuf}, src \in Addresses :
          \/ RFirst(p, src) \/ RGather(p, src) \/ RRequest(p, src)
          \/ RAnswer(p, src) \/ RCollect(p, src) \/ RFinal(p, src)
    \/ RGatherTimeout
    \/ RCollectTimeout

Next == Sender \/ Receiver

Spec == Init /\ [][Next]_vars

(***************************************************************************)
(* Types.                                                                  *)
(***************************************************************************)
SenderStates == {"start", "awaitAck", "awaitRequest", "awaitAck2", "end", "crashed"}
ReceiverStates == {"first", "gather", "request", "answer", "collect", "final",
                   "done", "exited", "crashed"}
SignalTypes == {"MESSAGE_REQUEST", "SEND_FILE_STATUS", "SEND_FILE_STATUS_ACK",
                "SEND_FILE_DONE", "SEND_FILE_DONE_ACK", "SEND_MISSING_DONE_ACK",
                "GET_ALL_FILE", "GET_ALL_FILE_ACK"}
Signals == {Signal(t) : t \in SignalTypes}
IsFrame(p) ==
    p.type = "SEND_PACKET" /\ p = Frame(p.seq, p.data) /\ p.seq \in Int /\ p.data \in Payload
IsRequest(p) ==
    /\ p.type \in {"SEND_MISSING", "SEND_MISSING_DONE"}
    /\ p = Request(p.type, p.frames) /\ p.frames \in SUBSET Int

\* What travels to the receiver: signals and frames.  What travels to the
\* sender: signals and requests.
ToReceiver(p) == p \in Signals \/ IsFrame(p)
ToSender(p) == p \in Signals \/ IsRequest(p)

ASSUME LeftoverAssumption ==
    /\ \A p \in LeftoverR : ToReceiver(p)
    /\ \A p \in LeftoverS : ToSender(p)

\* What is left over is of this transfer's own handshake.
HandshakeOnly ==
    /\ LeftoverR \subseteq {Signal("SEND_FILE_STATUS")}
    /\ LeftoverS \subseteq {Signal("SEND_FILE_STATUS_ACK")}

\* The state of both peers, of their buffers and of the network.
TypeOK ==
    /\ spc \in SenderStates
    /\ ToSender(sbuf)
    /\ mfs \in SUBSET Int
    /\ \A p \in toR : ToReceiver(p)
    /\ rpc \in ReceiverStates
    /\ ToReceiver(rbuf)
    /\ ToReceiver(lbuf)
    /\ DOMAIN rmap \in SUBSET Int
    /\ \A i \in DOMAIN rmap : rmap[i] \in Payload
    /\ missing \in SUBSET Int
    /\ tries \in 0 .. MAX_SEND + 2
    /\ from \in Addresses
    /\ \A p \in toS : ToSender(p)

(***************************************************************************)
(* What the transfer guarantees.                                           *)
(***************************************************************************)
ReceivedAll == \A i \in InFile : i \in DOMAIN rmap /\ rmap[i] = File[i]

\* The receiver reports GET_ALL_FILE, and writes the file, only when it holds
\* every frame with the content the sender read from the file: however the
\* network lost, repeated or delayed the frames and the requests for them.
Completeness == rpc \in {"final", "done"} => ReceivedAll

\* The sender leaves send_file() only when the receiver holds the whole file:
\* its GET_ALL_FILE can only come from this receiver having it all.
SenderEndsAfterReceiver == spc = "end" => ReceivedAll

\* Between two requests missing_frame_sequence is exactly what
\* receive_file_map lacks of the frames 0..total_frame: the two containers
\* that receive_file() updates separately never disagree.
MissingExact ==
    rpc \in {"request", "answer", "collect"} =>
        missing = (0 .. total_frame) \ DOMAIN rmap

\* A receiver that stopped on GET_ALL_FILE_ACK was talking to a sender that
\* has left send_file(): an acknowledged transfer is over on both sides.
AcknowledgedEnd == rpc = "done" /\ rbuf = GetAllAck => spc = "end"

\* No transfer completes without frame number total_frame, which the file
\* does not have: missing_frame() always asks for it, and the sender must
\* have read past the end of fileVector and survived.
PhantomFrameNeeded == rpc \in {"final", "done"} => total_frame \in DOMAIN rmap

\* A frame of the file that the receiver holds is never dropped or replaced
\* by other content, whatever late or repeated packet is stored over it.
FramesKept ==
    [][\A i \in InFile \cap DOMAIN rmap :
          i \in DOMAIN rmap' /\ rmap'[i] = rmap[i]]_vars

(***************************************************************************)
(* The transfer implements ReliableDelivery.                               *)
(***************************************************************************)
Intact == {i \in InFile \cap DOMAIN rmap : rmap[i] = File[i]}
Delivery == INSTANCE ReliableDelivery WITH
    Frames <- InFile, have <- Intact,
    claimed <- rpc \in {"final", "done"}, confirmed <- spc = "end"

\* Every step of the two peers is a step of ReliableDelivery or changes
\* nothing there: delivery, claim and confirmation happen in that order.
ImplementsDelivery == Delivery!Spec

(***************************************************************************)
(* What the comments of packet.h say, and the code does not do.            *)
(***************************************************************************)

\* packet.h:28, SEND_MISSING: "Receiver finds the missing frames and requires
\* sender to resend these frames": only frames of the file are asked for.
OnlyMissingFramesRequested ==
    \A p \in toS : p.type \in {"SEND_MISSING", "SEND_MISSING_DONE"} =>
                      p.frames \subseteq InFile

\* packet.h:27, SEND_FILE_DONE_ACK: "Receiver confirms that it gets
\* SEND_FILE_DONE signal from Sender": there is one to confirm.
DoneAckAfterDone == FileDoneAck \in toS => FileDone \in toR
=============================================================================
