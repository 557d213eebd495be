------------------------------ MODULE TcpReceive ------------------------------
(***************************************************************************)
(* The receiving half of a TCP connection (Lab04/tcp.c): tcp_recvmsg()     *)
(* with MSG_PEEK, MSG_WAITALL and MSG_OOB, tcp_splice_read(),              *)
(* tcp_zerocopy_receive(), and tcp_cleanup_rbuf(), which decides whether a *)
(* read must be followed by an acknowledgement that opens the window.      *)
(*                                                                         *)
(* The receive queue is the run of bytes from copied_seq to rcv_nxt; the   *)
(* FIN takes the place after the last byte and is a buffer of its own.     *)
(* One reader calls; it holds the lock until it returns or waits.  One     *)
(* pass of the loop of tcp_recvmsg() is one action.                        *)
(*                                                                         *)
(* Left out: faults of the user's buffer, signals, errors and timeouts of  *)
(* the wait, SO_OOBINLINE, repair (tcp_peek_sndq()), time stamps, an      *)
(* acknowledgement timer that meets a locked socket (icsk_ack.blocked),    *)
(* and pingpong mode: this end never writes.                               *)
(***************************************************************************)
EXTENDS Integers, Sequences

CONSTANTS
    RcvBuf,   \* tcp_full_space() and window_clamp
    RcvMss,   \* icsk_ack.rcv_mss
    Page,     \* PAGE_SIZE
    Lowats,   \* values of SO_RCVLOWAT
    Reads     \* the calls: [kind, len, peek, waitall, block]

ASSUME ReceiveAssumption ==
    /\ {RcvBuf, RcvMss, Page} \subseteq Nat \ {0}
    /\ Lowats \subseteq Nat
    /\ Reads \subseteq [kind : {"recv", "splice", "oob", "map"},
                        len : Nat \ {0}, peek : BOOLEAN, waitall : BOOLEAN,
                        block : BOOLEAN]

VARIABLE rx

(* got is what the call has handed over so far, from the byte start on;    *)
(* seq is peek_seq, or copied_seq; hole is urg_hole; eof that it returned 0. *)
NoRead == [kind |-> "none", len |-> 0, peek |-> FALSE, block |-> TRUE,
           target |-> 0, start |-> 0, seq |-> 0, hole |-> 0, got |-> <<>>,
           eof |-> FALSE]

NoAck == [una |-> 0, edge |-> 0]

(* With SO_RCVBUF set: at most half the buffer, and at least one byte.     *)
tcp_set_rcvlowat(val) ==
    LET capped == IF val < RcvBuf \div 2 THEN val ELSE RcvBuf \div 2
    IN IF capped = 0 THEN 1 ELSE capped

(* sched is ICSK_ACK_SCHED with its timer, pushed ICSK_ACK_PUSHED, done     *)
(* SOCK_DONE with RCV_SHUTDOWN, ack the latest acknowledgement under way.  *)
InitRx(lowat) ==
    [pc |-> "idle", call |-> NoRead, rcv_nxt |-> 0, copied_seq |-> 0,
     rcv_wup |-> 0, rcv_wnd |-> RcvBuf, sched |-> FALSE, pushed |-> FALSE,
     urg |-> "none", urg_seq |-> 0, done |-> FALSE,
     lowat |-> lowat, ack |-> NoAck]

-----------------------------------------------------------------------------
(* The window and the acknowledgements.                                    *)

tcp_receive_window(r) ==
    LET win == r.rcv_wup + r.rcv_wnd - r.rcv_nxt IN IF win < 0 THEN 0 ELSE win

tcp_space_all(r) == RcvBuf

tcp_space(r) == RcvBuf - (r.rcv_nxt - r.copied_seq)

(* __tcp_select_window() of tcp_output.c, without window scaling.          *)
__tcp_select_window(r) ==
    LET free == IF tcp_space(r) < 0 THEN 0 ELSE tcp_space(r)
        mss == IF RcvMss > RcvBuf THEN RcvBuf ELSE RcvMss
        low == free < RcvBuf \div 2
    IN IF low /\ (free < RcvBuf \div 16 \/ free < mss) THEN 0
       ELSE IF r.rcv_wnd <= free - mss \/ r.rcv_wnd > free
       THEN (free \div mss) * mss
       ELSE IF mss = RcvBuf /\ free > r.rcv_wnd + RcvBuf \div 2 THEN free
       ELSE r.rcv_wnd

(* A window that was offered is never taken back (tcp_select_window()).    *)
tcp_send_ack(r) ==
    LET now == tcp_receive_window(r)
        chosen == __tcp_select_window(r)
        wnd == IF chosen < now THEN now ELSE chosen
    IN [r EXCEPT !.rcv_wup = r.rcv_nxt, !.rcv_wnd = wnd, !.sched = FALSE,
                 !.pushed = FALSE,
                 !.ack = [una |-> r.rcv_nxt, edge |-> r.rcv_nxt + wnd]]

(* sk_rmem_alloc is 0 *)
Drained(r) == r.copied_seq = r.rcv_nxt

ScheduledAckIsDue(r, copied) ==
    /\ r.sched
    /\ \/ r.rcv_nxt - r.rcv_wup > RcvMss
       \/ /\ copied > 0
          /\ r.pushed
          /\ Drained(r)

WindowHasOpened_never(r) == FALSE

WindowHasOpened(r) ==
    LET now == tcp_receive_window(r)
        new == __tcp_select_window(r)
    IN 2 * now <= RcvBuf /\ new > 0 /\ new >= 2 * now

tcp_cleanup_rbuf(r, copied) ==
    IF \/ ScheduledAckIsDue(r, copied)
       \/ copied > 0 /\ ~r.done /\ WindowHasOpened(r)
    THEN tcp_send_ack(r) ELSE r

(* tcp_delack_timer_handler() *)
tcp_delack_timer ==
    /\ rx.sched
    /\ rx' = tcp_send_ack(rx)

-----------------------------------------------------------------------------
(* A segment, as tcp_input.c takes it.                                     *)

(* The urgent pointer may come before the byte it points to.               *)
tcp_urg(r, segment, none) ==
    LET news == /\ segment.urg # none /\ segment.urg >= segment.seq
                /\ r.urg = "none"
        known == IF news THEN [r EXCEPT !.urg = "notyet", !.urg_seq = segment.urg]
                 ELSE r
    IN IF known.urg = "notyet" /\ known.urg_seq < segment.end
       THEN [known EXCEPT !.urg = "valid"] ELSE known

(* __tcp_ack_snd_check(): more than a segment waits and the window can     *)
(* move, or the reader has too little to be woken.                         *)
AckAtOnce(r) ==
    /\ r.rcv_nxt - r.rcv_wup > RcvMss
    /\ \/ r.rcv_nxt - r.copied_seq < r.lowat
       \/ __tcp_select_window(r) >= r.rcv_wnd

SegmentReceived(r, segment, none) ==
    LET taken == [r EXCEPT !.rcv_nxt = segment.end + IF segment.fin THEN 1 ELSE 0,
                           !.done = segment.fin]
        urgent == tcp_urg(taken, segment, none)
        short == segment.end - segment.seq < RcvMss
    IN IF segment.fin \/ AckAtOnce(urgent) THEN tcp_send_ack(urgent)
       ELSE [urgent EXCEPT !.sched = TRUE, !.pushed = @ \/ short]

-----------------------------------------------------------------------------
(* The readers.                                                            *)

DataEnd(r) == IF r.done THEN r.rcv_nxt - 1 ELSE r.rcv_nxt

UrgentAt(r, seq) == r.urg # "none" /\ r.urg_seq = seq

Bytes(from, to) == [i \in 1 .. to - from |-> from + i - 1]

Returns(r, c) == [r EXCEPT !.pc = "returned", !.call = c]
Waits(r, c) == [r EXCEPT !.pc = "waiting", !.call = c]
Reading(r, c) == [r EXCEPT !.pc = "reading", !.call = c]

(* sk_eat_skb() and *seq: what a peek does not change.                     *)
Consume(r, c) ==
    IF c.peek THEN r
    ELSE LET past == r.urg # "none" /\ c.seq > r.urg_seq
         IN [r EXCEPT !.copied_seq = c.seq,
                      !.urg = IF past THEN "none" ELSE @,
                      !.urg_seq = IF past THEN 0 ELSE @]

(* A copy from seq on stops before the urgent byte.                        *)
UpToUrgent(r, seq, to) ==
    IF r.urg # "none" /\ seq < r.urg_seq /\ r.urg_seq < to THEN r.urg_seq ELSE to

(* found_ok_skb: up to the urgent byte, or over it when it comes first.    *)
found_ok_skb(r, c) ==
    LET avail == DataEnd(r) - c.seq
        wanted == IF c.len < avail THEN c.len ELSE avail
        first == UrgentAt(r, c.seq)
        upto == UpToUrgent(r, c.seq, c.seq + wanted)
        from == IF first THEN c.seq + 1 ELSE c.seq
    IN [c EXCEPT !.seq = upto, !.got = @ \o Bytes(from, upto),
                 !.len = @ - (upto - from),
                 !.hole = IF first THEN @ + 1 ELSE @]

(* found_fin_ok: *)
found_fin_ok(c) == [c EXCEPT !.seq = @ + 1, !.eof = (c.got = <<>>)]

tcp_recvmsg_done(r, c) == Returns(tcp_cleanup_rbuf(r, Len(c.got)), c)

(* A pass of the loop of tcp_recvmsg(), under the lock; backlog is whether *)
(* segments wait for the lock when the call has what it wants.             *)
tcp_recvmsg_pass(r, c, backlog) ==
    LET copied == Len(c.got)
        next == found_ok_skb(r, c)
    IN IF c.len = 0 \/ (UrgentAt(r, c.seq) /\ copied > 0)
       THEN tcp_recvmsg_done(r, c)
       ELSE IF c.seq < DataEnd(r)
       THEN [Consume(r, next) EXCEPT !.call = next]
       ELSE IF r.done /\ c.seq = DataEnd(r)
       THEN tcp_recvmsg_done(Consume(r, found_fin_ok(c)), found_fin_ok(c))
       ELSE IF \/ copied >= c.target /\ ~backlog
               \/ copied > 0 /\ (r.done \/ ~c.block)
       THEN tcp_recvmsg_done(r, c)
       ELSE IF copied = 0 /\ r.done
       THEN tcp_recvmsg_done(r, [c EXCEPT !.eof = TRUE])
       ELSE IF copied = 0 /\ ~c.block
       THEN tcp_recvmsg_done(r, c)
       ELSE Waits(tcp_cleanup_rbuf(r, copied), c)

ReadPass ==
    /\ rx.pc = "reading"
    /\ \E backlog \in BOOLEAN : rx' = tcp_recvmsg_pass(rx, rx.call, backlog)

PeekRace_without_hole(r, c) ==
    IF c.peek /\ c.seq - Len(c.got) # r.copied_seq
    THEN [c EXCEPT !.seq = r.copied_seq] ELSE c

(* After a wait a peek looks whether somebody read what it had peeked at.  *)
PeekRace(r, c) ==
    IF c.peek /\ c.seq - Len(c.got) - c.hole # r.copied_seq
    THEN [c EXCEPT !.seq = r.copied_seq] ELSE c

(* tp->copied_seq = seq: where tcp_read_sock() and the map leave the queue. *)
Stored_not(r, read) == r

Stored(r, read) == [r EXCEPT !.copied_seq = read.seq]

(* tcp_read_sock(): as far as the actor takes it, and the FIN; it stops at *)
(* an urgent byte, read or not.                                            *)
tcp_read_sock(r, c) ==
    LET avail == DataEnd(r) - c.seq
        wanted == IF c.len < avail THEN c.len ELSE avail
        upto == IF UrgentAt(r, c.seq) THEN c.seq
                ELSE UpToUrgent(r, c.seq, c.seq + wanted)
        read == [c EXCEPT !.seq = upto, !.got = @ \o Bytes(c.seq, upto),
                          !.len = @ - (upto - c.seq)]
        fin == r.done /\ upto = DataEnd(r) /\ read.len > 0
    IN IF r.done /\ c.seq > DataEnd(r) THEN c
       ELSE IF fin THEN [read EXCEPT !.seq = @ + 1] ELSE read

(* One round of tcp_splice_read(): it drops the lock after what it moved.  *)
tcp_splice_read(r, c) ==
    LET read == tcp_read_sock(r, c)
        moved == Len(read.got) - Len(c.got)
        after == Stored(r, read)
        cleaned == IF moved > 0 THEN tcp_cleanup_rbuf(after, moved) ELSE after
    IN IF moved > 0
       THEN IF read.len = 0 \/ ~c.block THEN Returns(cleaned, read)
            ELSE Waits(cleaned, read)
       ELSE IF \/ read.got # <<>> \/ r.done \/ ~c.block
               \/ ~Drained(after)
       THEN Returns(after, [read EXCEPT
                !.eof = (read.got = <<>> /\ (r.done \/ c.block))])
       ELSE Waits(after, read)

tcp_inq(r) ==
    IF r.urg = "none" \/ r.urg_seq < r.copied_seq \/ r.urg_seq >= r.rcv_nxt
    THEN IF r.done /\ r.rcv_nxt > r.copied_seq
         THEN r.rcv_nxt - r.copied_seq - 1 ELSE r.rcv_nxt - r.copied_seq
    ELSE r.urg_seq - r.copied_seq

(* tcp_zerocopy_receive(): as many whole pages as lie aligned in the queue. *)
tcp_zerocopy_receive(r, c, pages) ==
    LET read == [c EXCEPT !.seq = @ + pages * Page,
                          !.got = Bytes(c.seq, c.seq + pages * Page)]
    IN IF pages = 0 THEN Returns(r, c)
       ELSE Returns(tcp_cleanup_rbuf(Stored(r, read), pages * Page), read)

(* tcp_recv_urg(): never waits.                                            *)
tcp_recv_urg(r, c) ==
    IF r.urg = "valid"
    THEN Returns([r EXCEPT !.urg = IF c.peek THEN @ ELSE "read"],
                 [c EXCEPT !.got = <<r.urg_seq>>])
    ELSE Returns(r, c)

sock_rcvlowat(r, call) ==
    IF call.waitall THEN call.len
    ELSE IF r.lowat < call.len THEN r.lowat ELSE call.len

StartRead(call) ==
    LET c == [NoRead EXCEPT !.kind = call.kind, !.len = call.len,
                            !.peek = call.peek, !.block = call.block,
                            !.target = sock_rcvlowat(rx, call),
                            !.start = rx.copied_seq, !.seq = rx.copied_seq]
    IN CASE call.kind = "recv" -> rx' = Reading(rx, c)
         [] call.kind = "splice" -> rx' = tcp_splice_read(rx, c)
         [] call.kind = "oob" -> rx' = tcp_recv_urg(rx, c)
         [] call.kind = "map" ->
                LET most == IF call.len < tcp_inq(rx) THEN call.len ELSE tcp_inq(rx)
                IN \E pages \in 0 .. most \div Page :
                     rx' = tcp_zerocopy_receive(rx, c, pages)

ReadStart ==
    /\ rx.pc = "idle"
    /\ \E call \in Reads : StartRead(call)

(* sk_wait_data() ends when the queue has grown or the FIN has come; with  *)
(* the target reached the call only let the backlog in.                    *)
ReadResumes ==
    /\ rx.pc = "waiting"
    /\ LET c == rx.call
           raced == PeekRace(rx, c)
       IN IF c.kind = "splice"
          THEN IF c.got # <<>> /\ rx.done
               THEN rx' = Returns(rx, c)
               ELSE /\ c.got # <<>> \/ c.seq < rx.rcv_nxt \/ rx.done
                    /\ rx' = tcp_splice_read(rx, c)
          ELSE /\ c.seq < rx.rcv_nxt \/ rx.done \/ Len(c.got) >= c.target
               /\ rx' = Reading(rx, raced)

(* What the call hands over leaves the stream: not a peek, nor MSG_OOB.     *)
Consumes(c) == c.kind # "oob" /\ ~(c.kind = "recv" /\ c.peek)

(* The application has its bytes.                                          *)
ReadReturns ==
    /\ rx.pc = "returned"
    /\ rx' = [rx EXCEPT !.pc = "idle", !.call = NoRead]
=============================================================================
