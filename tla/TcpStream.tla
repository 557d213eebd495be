------------------------------- MODULE TcpStream -------------------------------
(***************************************************************************)
(* One direction of a TCP connection: the sender of TcpSend, the reader of *)
(* TcpReceive, and between them the segments under way, in order, and the  *)
(* latest acknowledgement.  Both ends and the timers run side by side.     *)
(*                                                                         *)
(* app is a history: the bytes that the calls of the reader have consumed, *)
(* one call after the other.  No step depends on it.                       *)
(***************************************************************************)
EXTENDS TcpSend, TcpReceive

VARIABLE app

vars == <<tx, rx, app>>

ASSUME StreamAssumption == MaxWindow = RcvBuf

(* The urgent byte of the sender, or this for none.                        *)
NoUrgent == MaxBytes

Init ==
    /\ tx = InitTx
    /\ \E val \in Lowats : rx = InitRx(tcp_set_rcvlowat(val))
    /\ app = <<>>

(* A call that holds its lock, or has just returned, is not interrupted:   *)
(* what happens at the other end meanwhile commutes with it.               *)
SenderFree == tx.pc # "sending"
ReaderFree == rx.pc \notin {"reading", "returned"}

Sender == \/ SendPass
          \/ ReaderFree /\ (\/ SendStart \/ SendResumes \/ SendShutdown
                            \/ SetSendOption \/ tcp_tsq_handler)

Reader == \/ ReadPass \/ ReadReturns
          \/ SenderFree /\ (ReadStart \/ ReadResumes)

(* A call that returns has handed over its bytes; a peek took none.        *)
HandsOver ==
    app' = IF rx.pc = "returned" /\ Consumes(rx.call) THEN app \o rx.call.got
           ELSE app

DelackTimer == SenderFree /\ ReaderFree /\ tcp_delack_timer

SegmentArrives ==
    /\ SenderFree /\ ReaderFree
    /\ tx.wire # <<>>
    /\ rx' = SegmentReceived(rx, Head(tx.wire), NoUrgent)
    /\ tx' = [tx EXCEPT !.wire = Tail(@)]

AckArrives ==
    /\ SenderFree /\ ReaderFree
    /\ rx.ack # NoAck
    /\ tx' = AckReceived(tx, rx.ack)
    /\ rx' = [rx EXCEPT !.ack = NoAck]

(* tcp_probe_timer() and tcp_send_probe0(): what fits of the first segment, *)
(* whatever holds it back, or a probe that is answered with the window.    *)
ProbeDue ==
    /\ SenderFree
    /\ ~InFlight(tx)
    /\ tx.snd_nxt < tx.write_seq \/ tx.fin = "queued"

ProbeTimer ==
    /\ ProbeDue /\ ReaderFree
    /\ LET room == tx.wnd_end - tx.snd_nxt
       IN IF room = 0 THEN rx' = tcp_send_ack(rx) /\ UNCHANGED tx
          ELSE /\ tx' = IF tx.queue = <<>> THEN SendFin(tx)
                        ELSE SendSegment(tx,
                                 Minimum(Segment(tx), tx.wnd_end))
               /\ UNCHANGED rx

Next == \/ Sender /\ UNCHANGED <<rx, app>>
        \/ Reader /\ HandsOver /\ UNCHANGED tx
        \/ DelackTimer /\ UNCHANGED <<tx, app>>
        \/ SegmentArrives /\ UNCHANGED app
        \/ AckArrives /\ UNCHANGED app
        \/ ProbeTimer /\ UNCHANGED app

Spec == Init /\ [][Next]_vars

-----------------------------------------------------------------------------
(* The places of the ordinary bytes from start on, up to the byte end.     *)
Ordinary(start, end) ==
    IF tx.urg \in start .. end - 1
    THEN Bytes(start, tx.urg) \o Bytes(tx.urg + 1, end)
    ELSE Bytes(start, end)

(* The calls of the reader together hand over the ordinary bytes of the    *)
(* stream in order, none twice and none left out: what a call that returns *)
(* hands over goes on where the calls before it stopped, whether they read, *)
(* splice or map, wait or not, with peeks and an urgent byte in between; a *)
(* peek hands over the bytes that come next; only MSG_OOB hands over the   *)
(* urgent byte; and tcp_recvmsg() reports the end of the stream when the   *)
(* application has all of it.                                              *)
ReadsInOrder ==
    rx.pc = "returned" =>
      LET c == rx.call
          stream == Ordinary(0, tx.write_seq)
      IN IF c.kind = "oob" THEN c.got \in {<<>>, <<tx.urg>>}
         ELSE /\ IsPrefix(app \o c.got, stream)
              /\ (c.kind = "recv" /\ c.eof) => tx.fin = "sent" /\ app = stream

(* A blocking tcp_recvmsg() hands over SO_RCVLOWAT bytes, with MSG_WAITALL *)
(* all that it asks for, but for an urgent byte or the FIN behind them:    *)
(* also a peek that waited, with the urgent byte skipped in its range.     *)
ReadsEnough ==
    LET c == rx.call
    IN rx.pc = "returned" /\ c.kind = "recv" /\ c.block /\ Len(c.got) < c.target =>
         \/ rx.done
         \/ c.got # <<>> /\ tx.urg = c.start + Len(c.got)

(* No sender is left to its probe timer while the reader has taken all:    *)
(* with nothing under way in either direction, bytes that no cork and no   *)
(* MSG_MORE holds back find the window open.                               *)
Quiet ==
    /\ ~InFlight(tx) /\ tx.wire = <<>>
    /\ rx.ack = NoAck /\ ~rx.sched

DrainedMeansFlow ==
    Quiet /\ ReaderFree /\ ProbeDue /\ Drained(rx) => tx.held \/ NAGLE_CORK \in tx.nonagle

(* No lost wake-up: a sender that sleeps, or was told EAGAIN and waits for *)
(* EPOLLOUT, has been woken, or will be: by its own timed wait, by the     *)
(* acknowledgement of what is in flight, or by the probe timer.            *)
SenderWoken ==
    tx.pc \in {"asleep", "eagain"} =>
        \/ tx.event
        \/ tx.nospace /\ (InFlight(tx) \/ ProbeDue)
        \/ tx.vm_wait

(* The stream implements the sliding window: the place of the FIN counts   *)
(* once it was sent.  No read, peek, splice, map or FIN moves the reader   *)
(* beyond what was sent, no acknowledgement offers more than the buffer    *)
(* has room for behind what was read or takes an offer back, and no push,  *)
(* probe or FIN goes beyond the offer.                                     *)
Window == INSTANCE SlidingWindow WITH
    Buffer <- RcvBuf,
    written <- tx.write_seq + IF tx.fin = "sent" THEN 1 ELSE 0,
    closed <- tx.fin = "sent",
    sent <- tx.snd_nxt,
    taken <- rx.copied_seq,
    offered <- rx.rcv_wup + rx.rcv_wnd

ImplementsWindow == Window!Spec
=============================================================================
