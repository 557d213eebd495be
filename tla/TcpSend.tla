------------------------------- MODULE TcpSend -------------------------------
(***************************************************************************)
(* The sending half of a TCP connection (Lab04/tcp.c): tcp_sendmsg() and   *)
(* do_tcp_sendpages() over the write queue, the push that follows, and the *)
(* wait for room.  Bytes are numbered from 0, so that a byte is its place  *)
(* in the stream; the queue holds buffers [seq, end].                      *)
(*                                                                         *)
(* A call holds the socket's lock from its start to its return or its wait *)
(* for memory: one pass of its loop is one action, and segments of the     *)
(* peer are handled between calls and during waits.                        *)
(*                                                                         *)
(* Left out: Fast Open, repair, MSG_ZEROCOPY, control messages, faults of  *)
(* the user's buffer, sk_flush_backlog() (every 16 buffers), congestion    *)
(* control and the retransmissions of TcpTimers: no segment is lost here.  *)
(* Also MSG_SENDPAGE_NOTLAST, with which do_tcp_sendpages() returns        *)
(* without tcp_push() (tcp.c:1077), and a copy cut short at the end of a   *)
(* page fragment or by the memory accounting, which the loop goes on with: *)
(* here a copy is whole or fails.                                          *)
(***************************************************************************)
EXTENDS Integers, Sequences, SequencesExt

CONSTANTS
    MaxBytes,     \* bytes the application writes
    Mss,          \* tcp_current_mss()
    GsoMax,       \* buffers of at most this many segments
    SndBuf,       \* sk_sndbuf
    MaxWindow,    \* max_window: the largest window the peer offered
    MaxChances,   \* bound on failed allocations and changed options
    Sends         \* the calls: [kind, len, more, oob, block]

ASSUME SendAssumption ==
    /\ {MaxBytes, Mss, GsoMax, SndBuf, MaxWindow} \subseteq Nat \ {0}
    /\ MaxChances \in Nat
    /\ Sends \subseteq [kind : {"msg", "pages"}, len : 1 .. MaxBytes,
                        more : BOOLEAN, oob : BOOLEAN, block : BOOLEAN]
    /\ \A call \in Sends : call.oob => call.kind = "msg" /\ call.len = 1

VARIABLE tx

NAGLE_OFF == "OFF"
NAGLE_CORK == "CORK"
NAGLE_PUSH == "PUSH"

NoCall == [kind |-> "none", left |-> 0, copied |-> 0, more |-> FALSE,
           oob |-> FALSE, block |-> TRUE]

(* wnd_end is the right edge of the peer's window, sml the end of the last *)
(* small segment (Minshall), urg the urgent byte, or MaxBytes for none,    *)
(* wire what is under way.  event is an EPOLLOUT or a wake-up, vm_wait the *)
(* timed wait for memory that is not the socket's.  held notes that the    *)
(* last push was to hold a partial segment back.                           *)
InitTx ==
    [pc |-> "idle", call |-> NoCall, queue |-> <<>>, write_seq |-> 0,
     snd_nxt |-> 0, snd_una |-> 0, wnd_end |-> MaxWindow, pushed_seq |-> 0,
     urg |-> MaxBytes, nonagle |-> {}, sml |-> 0, nospace |-> FALSE,
     event |-> FALSE, vm_wait |-> FALSE, throttled |-> FALSE,
     held |-> FALSE, fin |-> "none", chances |-> 0,
     wire |-> <<>>]

-----------------------------------------------------------------------------
(* The write queue.                                                        *)

SkbLen(skb) == skb.end - skb.seq
HasTail(s) == s.queue # <<>>
tcp_write_queue_tail(s) == Last(s.queue)

InFlight(s) == s.snd_nxt > s.snd_una

(* All that is queued and not acknowledged is charged to the socket.       *)
wmem_queued(s) == s.write_seq - s.snd_una
sk_stream_memory_free(s) == wmem_queued(s) < SndBuf

(* The bytes of the model are units of some hundred: every window counts as *)
(* larger than TCP_MSS_DEFAULT.                                            *)
tcp_bound_to_half_wnd(size) ==
    IF size > MaxWindow \div 2 THEN MaxWindow \div 2 ELSE size

tcp_xmit_size_goal(large_allowed) ==
    LET segs == tcp_bound_to_half_wnd(GsoMax * Mss) \div Mss
    IN IF large_allowed /\ segs > 1 THEN segs * Mss ELSE Mss

size_goal(s) == tcp_xmit_size_goal(~s.call.oob)

(* A new, empty buffer ends the effect of an explicit push.                *)
skb_entail(s) ==
    [s EXCEPT !.queue = Append(@, [seq |-> s.write_seq, end |-> s.write_seq]),
              !.nonagle = @ \ {NAGLE_PUSH}]

Extend(s, copy) ==
    [s EXCEPT !.queue[Len(s.queue)].end = @ + copy,
              !.write_seq = @ + copy,
              !.call.left = @ - copy, !.call.copied = @ + copy]

tcp_remove_empty_skb(s) ==
    IF HasTail(s) /\ SkbLen(tcp_write_queue_tail(s)) = 0
    THEN [s EXCEPT !.queue = Front(@)] ELSE s

-----------------------------------------------------------------------------
(* Transmission: what tcp_output.c sends when it is told to push.          *)

tcp_urg_mode(s) == s.urg # MaxBytes /\ s.snd_una <= s.urg

(* Does Nagle's algorithm, with Minshall's change, hold a short segment?   *)
tcp_nagle_check(s, nonagle) ==
    \/ NAGLE_CORK \in nonagle
    \/ nonagle = {} /\ InFlight(s) /\ s.sml > s.snd_una

tcp_nagle_test(s, end, nonagle) ==
    \/ NAGLE_PUSH \in nonagle
    \/ tcp_urg_mode(s)
    \/ s.fin = "queued"
    \/ end - s.snd_nxt >= Mss
    \/ Len(s.queue) > 1
    \/ ~tcp_nagle_check(s, nonagle)

Minimum(a, b) == IF a < b THEN a ELSE b

(* The first segment of the queue; the rest of its buffer stays behind.    *)
Segment(s) == LET skb == Head(s.queue) IN Minimum(skb.end, skb.seq + Mss)

SendSegment(s, end) ==
    [s EXCEPT !.wire = Append(@, [seq |-> s.snd_nxt, end |-> end, urg |-> s.urg,
                                  fin |-> FALSE]),
              !.sml = IF end - s.snd_nxt < Mss THEN end ELSE @,
              !.snd_nxt = end,
              !.queue = IF end = Head(@).end THEN Tail(@)
                        ELSE [@ EXCEPT ![1].seq = end]]

SendFin(s) ==
    [s EXCEPT !.wire = Append(@, [seq |-> s.snd_nxt, end |-> s.snd_nxt,
                                  urg |-> s.urg, fin |-> TRUE]),
              !.snd_nxt = @ + 1, !.fin = "sent"]

(* An empty buffer, which a call that waits may leave, is not sent.        *)
CanSend(s, nonagle) ==
    /\ HasTail(s)
    /\ SkbLen(Head(s.queue)) > 0
    /\ Segment(s) <= s.wnd_end
    /\ tcp_nagle_test(s, Segment(s), nonagle)

XmitPass(s, nonagle) ==
    IF CanSend(s, nonagle) THEN SendSegment(s, Segment(s))
    ELSE IF s.queue = <<>> /\ s.fin = "queued" /\ s.snd_nxt < s.wnd_end
    THEN SendFin(s)
    ELSE s

(* A pass of its loop sends a byte at least, or the FIN, or is the last.   *)
tcp_write_xmit(s, nonagle) ==
    LET sent[n \in 0 .. MaxBytes + 1] ==
          IF n = 0 THEN s ELSE XmitPass(sent[n - 1], nonagle)
    IN sent[MaxBytes + 1]

__tcp_push_pending_frames(s, nonagle) == tcp_write_xmit(s, nonagle)

tcp_push_one(s) ==
    IF CanSend(s, {NAGLE_PUSH}) THEN SendSegment(s, Segment(s)) ELSE s

-----------------------------------------------------------------------------
(* The push of tcp.c.                                                      *)

tcp_push_pending_frames(s) == __tcp_push_pending_frames(s, s.nonagle)

tcp_mark_push(s) == [s EXCEPT !.pushed_seq = s.write_seq]

forced_push(s) == s.write_seq > s.pushed_seq + MaxWindow \div 2

tcp_mark_urg(s) == IF s.call.oob THEN [s EXCEPT !.urg = s.write_seq - 1] ELSE s

(* busy: segments of the socket are in the queues of the device.           *)
tcp_should_autocork(s, busy) ==
    /\ SkbLen(tcp_write_queue_tail(s)) < size_goal(s)
    /\ InFlight(s)
    /\ busy

tcp_push(s, more, nonagle, busy) ==
    LET marked == IF ~more \/ forced_push(s) THEN tcp_mark_push(s) ELSE s
        urgent == [tcp_mark_urg(marked) EXCEPT !.held = more]
    IN IF ~HasTail(s) THEN s
       ELSE IF tcp_should_autocork(urgent, busy)
       THEN [urgent EXCEPT !.throttled = TRUE]
       ELSE __tcp_push_pending_frames(urgent,
                IF more THEN {NAGLE_CORK} ELSE nonagle)

(* TX completion sends what an autocorked push left behind.                *)
tcp_tsq_handler ==
    /\ tx.throttled
    /\ tx.pc # "sending"
    /\ tx' = tcp_push_pending_frames([tx EXCEPT !.throttled = FALSE])

-----------------------------------------------------------------------------
(* Room for more.                                                          *)

(* sk_stream_write_space() wakes when a third of the buffer is free.       *)
sk_write_space(s) ==
    LET free == SndBuf - wmem_queued(s)
    IN IF 2 * free >= wmem_queued(s) /\ free > 0
       THEN [s EXCEPT !.nospace = FALSE, !.event = s.pc \in {"asleep", "eagain"}]
       ELSE s

(* sk_stream_wait_memory() of stream.c, on its way to sleep; without        *)
(* waiting the call ends here instead, with SOCK_NOSPACE set as well.      *)
sk_stream_wait_memory(s) ==
    [s EXCEPT !.nospace = TRUE, !.event = FALSE, !.pc = "asleep",
              !.vm_wait = sk_stream_memory_free(s)]

SendReturns(s) == [s EXCEPT !.pc = "idle", !.call = NoCall]

(* out: of both calls; a call that copied nothing has nothing to push.     *)
SendOut(s, busy) ==
    SendReturns(IF s.call.copied = 0 THEN s
                ELSE tcp_push(s, s.call.more, s.nonagle, busy))

SendFails_silent(s, busy) ==
    LET removed == tcp_remove_empty_skb(s)
        failed == [removed EXCEPT !.pc = "eagain", !.call = NoCall]
    IN IF s.call.copied > 0 THEN SendOut(removed, busy) ELSE failed

(* do_error: and out_err:.  The application waits for EPOLLOUT, as an edge *)
(* triggered epoll() reports it.                                           *)
SendFails(s, busy) ==
    LET removed == tcp_remove_empty_skb(s)
        failed == [removed EXCEPT !.pc = "eagain", !.call = NoCall]
    IN IF s.call.copied > 0 THEN SendOut(removed, busy)
       ELSE IF removed.queue = <<>> THEN sk_write_space(failed) ELSE failed

WaitOrFail(s, busy) ==
    LET waits == sk_stream_wait_memory(s)
    IN IF s.call.block THEN waits
       ELSE SendFails([waits EXCEPT !.vm_wait = FALSE], busy)

PushBeforeWait(s, busy) == tcp_push(s, FALSE, {NAGLE_PUSH}, busy)

wait_for_memory_msg_unpushed(s, busy) == WaitOrFail(s, busy)

(* wait_for_memory: tcp_sendmsg_locked() pushes what this call copied,     *)
(* do_tcp_sendpages() whatever there is.                                   *)
wait_for_memory_msg(s, busy) ==
    WaitOrFail(IF s.call.copied > 0 THEN PushBeforeWait(s, busy) ELSE s, busy)

wait_for_memory_pages(s, busy) == WaitOrFail(PushBeforeWait(s, busy), busy)

wait_for_memory(s, busy) ==
    IF s.call.kind = "msg" THEN wait_for_memory_msg(s, busy)
    ELSE wait_for_memory_pages(s, busy)

-----------------------------------------------------------------------------
(* The loop of both calls.                                                 *)

(* After a copy: done, or go on, pushing when the buffer is full.          *)
AfterCopy(s, busy) ==
    LET full == SkbLen(tcp_write_queue_tail(s)) >= size_goal(s)
    IN IF s.call.left = 0 THEN SendOut(s, busy)
       ELSE IF ~full \/ s.call.oob THEN s
       ELSE IF forced_push(s)
       THEN __tcp_push_pending_frames(tcp_mark_push(s), {NAGLE_PUSH})
       ELSE IF Len(s.queue) = 1 THEN tcp_push_one(s)
       ELSE s

Copy(s, busy) ==
    LET room == size_goal(s) - SkbLen(tcp_write_queue_tail(s))
    IN AfterCopy(Extend(s, Minimum(room, s.call.left)), busy)

HasRoom(s) == HasTail(s) /\ SkbLen(tcp_write_queue_tail(s)) < size_goal(s)

(* A failed allocation, of a buffer or of what it is to hold.              *)
NoMemory(s) == [s EXCEPT !.chances = @ + 1]

(* new_segment: *)
NewSegment(s) ==
    /\ sk_stream_memory_free(s)
    /\ \E busy \in BOOLEAN : tx' = Copy(skb_entail(s), busy)

NewSegmentFails(s) ==
    /\ sk_stream_memory_free(s)
    /\ s.chances < MaxChances
    /\ \E failed \in {s, skb_entail(s)}, busy \in BOOLEAN :
         tx' = wait_for_memory(NoMemory(failed), busy)

NoRoom(s) ==
    /\ ~sk_stream_memory_free(s)
    /\ \E busy \in BOOLEAN :
         tx' = wait_for_memory([s EXCEPT !.nospace = TRUE], busy)

(* The tail takes no more: full, at its end of record, or out of fragments, *)
(* which marks it for pushing.                                             *)
TailRefuses ==
    \/ ~HasRoom(tx) /\ (NewSegment(tx) \/ NewSegmentFails(tx) \/ NoRoom(tx))
    \/ /\ HasRoom(tx) /\ SkbLen(tcp_write_queue_tail(tx)) > 0
       /\ \E refused \in {tx, tcp_mark_push(tx)} :
            NewSegment(refused) \/ NewSegmentFails(refused) \/ NoRoom(refused)

TailTakes ==
    /\ HasRoom(tx)
    /\ \/ \E busy \in BOOLEAN : tx' = Copy(tx, busy)
       \/ /\ tx.chances < MaxChances
          /\ \E busy \in BOOLEAN : tx' = wait_for_memory(NoMemory(tx), busy)

SendPass == tx.pc = "sending" /\ (TailRefuses \/ TailTakes)

(* At most one urgent byte, which a send() of its own sends (Sends).  SOCK_NOSPACE of *)
(* an earlier wait does no more: the next one sets it again.               *)
SendStart ==
    /\ tx.pc = "idle" \/ (tx.pc = "eagain" /\ tx.event)
    /\ tx.fin = "none"
    /\ \E call \in Sends :
         /\ call.len <= MaxBytes - tx.write_seq
         /\ call.oob => tx.urg = MaxBytes
         /\ tx' = [tx EXCEPT !.pc = "sending", !.event = FALSE, !.nospace = FALSE,
                     !.call = [kind |-> call.kind, left |-> call.len,
                               copied |-> 0, more |-> call.more,
                               oob |-> call.oob, block |-> call.block]]

(* Woken, or the time of vm_wait is over.                                  *)
SendResumes ==
    /\ tx.pc = "asleep"
    /\ tx.event \/ tx.vm_wait
    /\ sk_stream_memory_free(tx)
    /\ tx' = [tx EXCEPT !.pc = "sending", !.event = FALSE, !.vm_wait = FALSE,
                        !.nospace = FALSE]

(* tcp_shutdown() after the last byte; tcp_send_fin() pushes past Nagle.   *)
SendShutdown ==
    /\ tx.pc \in {"idle", "eagain"}
    /\ tx.write_seq = MaxBytes
    /\ tx.fin = "none"
    /\ tx' = __tcp_push_pending_frames(
                 [tx EXCEPT !.fin = "queued", !.held = FALSE, !.pc = "idle"],
                 {NAGLE_OFF})

setsockopt_NODELAY(s, val) ==
    IF val THEN tcp_push_pending_frames(
                    [s EXCEPT !.nonagle = @ \cup {NAGLE_OFF, NAGLE_PUSH}])
    ELSE [s EXCEPT !.nonagle = @ \ {NAGLE_OFF}]

setsockopt_CORK(s, val) ==
    IF val THEN [s EXCEPT !.nonagle = @ \cup {NAGLE_CORK}]
    ELSE tcp_push_pending_frames(
            [s EXCEPT !.nonagle = (@ \ {NAGLE_CORK})
                          \cup IF NAGLE_OFF \in @ THEN {NAGLE_PUSH} ELSE {}])

SetSendOption ==
    /\ tx.pc = "idle"
    /\ tx.chances < MaxChances
    /\ \E val \in BOOLEAN, s \in {[tx EXCEPT !.chances = @ + 1]} :
         tx' \in {setsockopt_NODELAY(s, val), setsockopt_CORK(s, val)}

(* tcp_ack(), tcp_data_snd_check() and tcp_check_space() of tcp_input.c.   *)
AckReceived(s, ack) ==
    LET acked == [s EXCEPT !.snd_una = ack.una, !.wnd_end = ack.edge,
                           !.sml = IF @ <= ack.una THEN 0 ELSE @]
        pushed == tcp_push_pending_frames(acked)
    IN IF ack.una > s.snd_una /\ s.nospace THEN sk_write_space(pushed)
       ELSE pushed
=============================================================================
