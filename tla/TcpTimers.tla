------------------------------ MODULE TcpTimers ------------------------------
(***************************************************************************)
(* The timers of one TCP socket (Lab04): the write timer, which retransmits *)
(* or probes a closed window, and the keepalive timer, against a user       *)
(* process that may hold the socket's lock, a peer that may stop answering  *)
(* and a local queue that may refuse a segment.                             *)
(*                                                                         *)
(* Time is relative: a timer is the number of ticks it still has, a stamp  *)
(* is its age, so that no clock grows.  A timer fires in its own tick.     *)
(* The handlers take the socket and return it, as the C functions change   *)
(* *sk.  Line numbers are those of Lab04/tcp_timer.c; what tcp_input.c and *)
(* tcp_output.c do, which the repository does not hold, is marked external.*)
(*                                                                         *)
(* Left out: route caching, MTU probing, statistics and BPF calls, which   *)
(* change nothing that the timers read.                                    *)
(***************************************************************************)
EXTENDS Integers

CONSTANTS
    TCP_RTO_MIN, TCP_RTO_MAX, TCP_TIMEOUT_INIT, TCP_RESOURCE_PROBE_INTERVAL,
    TCP_TIMEWAIT_LEN, FinTimeout,
    Retries2,         \* sysctl_tcp_retries2
    SynRetries, SynAckRetries, OrphanRetries,
    KeepaliveTime, KeepaliveIntvl, KeepaliveProbes,
    RetryLocked,      \* HZ/20, the keepalive timer's wait for the lock
    ThinLinear,       \* thin_lto or sysctl_tcp_thin_linear_timeouts
    TCP_THIN_LINEAR_RETRIES,
    ThinPackets,      \* the 4 of tcp_stream_is_thin()
    AliveRetries,     \* the 8 of tcp_orphan_retries()
    UserTimeouts,     \* values of TCP_USER_TIMEOUT, 0 for none
    Rtos,             \* what __tcp_set_rto() can compute
    MaxPackets,       \* bound on the segments in flight
    MaxAge,           \* retrans_stamp's age stops growing here, and silence
    MaxSilence,       \* there: both above all they are compared with
    MaxBackoff        \* icsk_backoff stops growing here, likewise

Positive == Nat \ {0}

ASSUME TimersAssumption ==
    /\ {TCP_RTO_MIN, TCP_RTO_MAX, TCP_TIMEOUT_INIT, TCP_RESOURCE_PROBE_INTERVAL,
        RetryLocked, KeepaliveTime, KeepaliveIntvl, MaxPackets} \subseteq Positive
    /\ {TCP_TIMEWAIT_LEN, FinTimeout, Retries2, SynRetries, SynAckRetries,
        OrphanRetries, KeepaliveProbes, MaxAge, MaxSilence, MaxBackoff} \subseteq Nat
    /\ Rtos \subseteq Positive
    /\ UserTimeouts \subseteq Nat
    /\ ThinLinear \in BOOLEAN

(* Silence stops growing only above all it is compared with. *)
ASSUME SilenceAssumption ==
    /\ KeepaliveTime + KeepaliveProbes * KeepaliveIntvl <= MaxSilence
    /\ TCP_RTO_MAX < MaxSilence
    /\ \A t \in UserTimeouts : t <= MaxSilence

None == -1

VARIABLES
    sk,      \* the socket
    peer,    \* whether the peer still answers: "there" or "gone"
    answers  \* whether the peer has a segment it has not answered

vars == <<sk, peer, answers>>

States == {"SYN_SENT", "SYN_RECV", "ESTABLISHED", "FIN_WAIT1", "FIN_WAIT2",
           "CLOSE"}
Timer == Nat \cup {None}

(* retrans_stamp and silence are ages; silence is the smaller of those of  *)
(* rcv_tstamp and lrcvtime, the last segment and the last data of the peer.*)
Sock == [state : States, dead : BOOLEAN, err : BOOLEAN, keepopen : BOOLEAN,
         fastopen : BOOLEAN, owned : BOOLEAN, deferred : BOOLEAN,
         pending : {"none", "retrans", "probe0", "lossprobe"},
         timeout : Nat, wtimer : Timer, ktimer : Timer,
         packets_out : Nat, send_head : BOOLEAN, snd_wnd : {0, 1},
         retransmits : Nat, backoff : Nat, rto : Positive,
         retrans_stamp : Timer, probes_out : Nat, silence : Nat,
         num_timeout : Nat, user_timeout : Nat]

-----------------------------------------------------------------------------
(* Arming and clearing.                                                    *)

Lesser(a, b) == IF a <= b THEN a ELSE b
Greater(a, b) == IF a >= b THEN a ELSE b

(* inet_csk_reset_xmit_timer(sk, what, when, TCP_RTO_MAX) *)
Arm(s, what, when) ==
    [s EXCEPT !.pending = what, !.timeout = Lesser(when, TCP_RTO_MAX),
              !.wtimer = Lesser(when, TCP_RTO_MAX)]

(* inet_csk_clear_xmit_timer(): the kernel timer keeps running; nobody     *)
(* reads icsk_timeout while nothing is pending.                            *)
Disarm(s) == [s EXCEPT !.pending = "none", !.timeout = 0]

tcp_clear_xmit_timers(s) ==
    [Disarm(s) EXCEPT !.wtimer = None, !.ktimer = None]

tcp_probe0_base(s) == Greater(s.rto, TCP_RTO_MIN)

tcp_probe0_when(s) ==
    Lesser(tcp_probe0_base(s) * 2 ^ s.backoff, TCP_RTO_MAX)

tcp_check_probe_timer(s) ==
    IF s.packets_out = 0 /\ s.pending = "none"
    THEN Arm(s, "probe0", tcp_probe0_base(s))
    ELSE s

(* tcp_rearm_rto() of tcp_input.c: the SYN-ACK timer is left alone.        *)
tcp_rearm_rto(s) ==
    IF s.fastopen THEN s
    ELSE IF s.packets_out = 0 THEN Disarm(s) ELSE Arm(s, "retrans", s.rto)

tcp_fin_time(s) == Greater(FinTimeout, 4 * s.rto - s.rto \div 2)

(* tcp_write_queue_purge() and tcp_done() of tcp.c. *)
tcp_write_queue_purge(s) ==
    [s EXCEPT !.packets_out = 0, !.send_head = FALSE, !.backoff = 0]

tcp_done(s) ==
    [tcp_clear_xmit_timers(s) EXCEPT !.state = "CLOSE", !.fastopen = FALSE]

tcp_write_err(s) == tcp_done(tcp_write_queue_purge([s EXCEPT !.err = TRUE]))

-----------------------------------------------------------------------------
(* How long is long enough.                                                *)

ilog2(x) == CHOOSE k \in 0 .. x : 2 ^ k <= x /\ x < 2 ^ (k + 1)

(* As the changed function means it: the linear part, line 175, is made a  *)
(* comment, and with it the semicolon of line 174.                         *)
tcp_model_timeout(boundary, rto_base) ==
    LET linear_backoff_thresh == ilog2(TCP_RTO_MAX \div rto_base)
    IN (2 * 2 ^ Lesser(boundary, linear_backoff_thresh) - 1) * rto_base

retransmits_timed_out(s, boundary, timeout) ==
    /\ s.retransmits > 0
    /\ s.retrans_stamp >= IF timeout = 0
                          THEN tcp_model_timeout(boundary, TCP_RTO_MIN)
                          ELSE timeout

tcp_clamp_rto_no_floor(s) ==
    IF s.user_timeout = 0 THEN s.rto
    ELSE Lesser(s.rto, s.user_timeout - s.retrans_stamp)

tcp_clamp_rto_to_user_timeout(s) ==
    LET remaining == s.user_timeout - s.retrans_stamp
    IN IF s.user_timeout = 0 THEN s.rto
       ELSE IF remaining <= 0 THEN 1 ELSE Lesser(s.rto, remaining)

(* sk_err_soft, which only an ICMP message sets, is 0 here.                *)
tcp_orphan_retries(alive) ==
    IF OrphanRetries = 0 /\ alive THEN AliveRetries ELSE OrphanRetries

(* tcp_out_of_resources(): oom is tcp_check_oom(), which other sockets     *)
(* decide, or a net namespace that exits; only the reset differs.          *)
tcp_out_of_resources(s, oom) == s.dead /\ oom

RetryUntil(s) ==
    IF s.state \in {"SYN_SENT", "SYN_RECV"} THEN SynRetries
    ELSE IF s.dead THEN tcp_orphan_retries(s.rto < TCP_RTO_MAX)
    ELSE Retries2

tcp_write_timeout_expired(s) ==
    \/ s.state \in {"SYN_SENT", "SYN_RECV"} /\ s.retransmits >= SynRetries
    \/ retransmits_timed_out(s, RetryUntil(s), s.user_timeout)

-----------------------------------------------------------------------------
(* The write timer.  sent tells whether the local queue took the segment.  *)

(* tcp_retransmit_skb() of tcp_output.c stamps the first attempt with the  *)
(* time the head was last sent: now, or one timeout ago.                   *)
tcp_retransmit_skb(s, sent) ==
    IF s.retrans_stamp # None THEN s
    ELSE [s EXCEPT !.retrans_stamp = IF sent THEN 0 ELSE Lesser(s.rto, MaxAge)]

tcp_stream_is_thin(s) ==
    /\ s.state = "ESTABLISHED"
    /\ ThinLinear
    /\ s.packets_out < ThinPackets
    /\ s.retransmits <= TCP_THIN_LINEAR_RETRIES

(* out_reset_timer: of tcp_retransmit_timer().  set_rto is __tcp_set_rto().*)
OutResetTimer(s, set_rto) ==
    LET next == IF tcp_stream_is_thin(s)
                THEN [s EXCEPT !.backoff = 0,
                               !.rto = Lesser(set_rto, TCP_RTO_MAX)]
                ELSE [s EXCEPT !.rto = Lesser(2 * s.rto, TCP_RTO_MAX)]
    IN Arm(next, "retrans", tcp_clamp_rto_to_user_timeout(next))

tcp_fastopen_synack_timer(s) ==
    IF s.num_timeout >= SynAckRetries + 1 THEN tcp_write_err(s)
    ELSE Arm([s EXCEPT !.num_timeout = @ + 1, !.retransmits = @ + 1,
                       !.retrans_stamp = IF @ = None THEN 0 ELSE @],
             "retrans", TCP_TIMEOUT_INIT * 2 ^ (s.num_timeout + 1))

WindowShrunk_of_orphan(s) ==
    s.snd_wnd = 0 /\ s.state \notin {"SYN_SENT", "SYN_RECV"}

WindowShrunk(s) ==
    s.snd_wnd = 0 /\ ~s.dead /\ s.state \notin {"SYN_SENT", "SYN_RECV"}

Retransmit_congested_unarmed(s, sent, set_rto) ==
    LET tried == tcp_retransmit_skb([s EXCEPT !.retransmits = @ + 1], sent)
    IN IF ~sent THEN tried ELSE OutResetTimer(tried, set_rto)

Retransmit(s, sent, set_rto) ==
    LET tried == tcp_retransmit_skb([s EXCEPT !.retransmits = @ + 1], sent)
    IN IF ~sent THEN Arm(tried, "retrans", TCP_RESOURCE_PROBE_INTERVAL)
       ELSE OutResetTimer([tried EXCEPT !.backoff = Lesser(@ + 1, MaxBackoff)],
                          set_rto)

tcp_retransmit_timer_patient(s, oom, sent, set_rto) ==
    IF s.fastopen THEN tcp_fastopen_synack_timer(s)
    ELSE IF s.packets_out = 0 THEN s
    ELSE IF WindowShrunk(s)
         THEN OutResetTimer(tcp_retransmit_skb(s, sent), set_rto)
    ELSE IF tcp_out_of_resources(s, oom) THEN tcp_done(s)
    ELSE IF tcp_write_timeout_expired(s) THEN tcp_write_err(s)
    ELSE Retransmit(s, sent, set_rto)

tcp_retransmit_timer(s, oom, sent, set_rto) ==
    IF s.fastopen THEN tcp_fastopen_synack_timer(s)
    ELSE IF s.packets_out = 0 THEN s
    ELSE IF WindowShrunk(s)
         THEN IF s.silence > TCP_RTO_MAX THEN tcp_write_err(s)
              ELSE OutResetTimer(tcp_retransmit_skb(s, sent), set_rto)
    ELSE IF tcp_out_of_resources(s, oom) THEN tcp_done(s)
    ELSE IF tcp_write_timeout_expired(s) THEN tcp_write_err(s)
    ELSE Retransmit(s, sent, set_rto)

(* tcp_send_probe0() of tcp_output.c. *)
tcp_send_probe0(s, sent) ==
    LET probed == [s EXCEPT !.probes_out = @ + 1,
                            !.backoff = IF sent /\ @ < Retries2
                                        THEN Lesser(@ + 1, MaxBackoff) ELSE @]
    IN Arm(probed, "probe0", IF sent THEN tcp_probe0_when(probed)
                             ELSE TCP_RESOURCE_PROBE_INTERVAL)

ProbeAlive(s) == s.rto * 2 ^ s.backoff < TCP_RTO_MAX

ProbeAborts(s) ==
    \/ /\ s.user_timeout # 0
       /\ tcp_model_timeout(s.probes_out, tcp_probe0_base(s)) >= s.user_timeout
    \/ /\ s.dead
       /\ ~ProbeAlive(s)
       /\ s.backoff >= tcp_orphan_retries(FALSE)

tcp_probe_timer(s, oom, sent) ==
    LET max_probes == IF s.dead THEN tcp_orphan_retries(ProbeAlive(s))
                      ELSE Retries2
    IN IF s.packets_out > 0 \/ ~s.send_head THEN [s EXCEPT !.probes_out = 0]
       ELSE IF ProbeAborts(s) THEN tcp_write_err(s)
       ELSE IF tcp_out_of_resources(s, oom) THEN tcp_done(s)
       ELSE IF s.probes_out >= max_probes THEN tcp_write_err(s)
       ELSE tcp_send_probe0(s, sent)

tcp_write_timer_handler(s, oom, sent, set_rto) ==
    IF s.state = "CLOSE" \/ s.pending = "none" THEN s
    ELSE IF s.timeout > 0 THEN [s EXCEPT !.wtimer = s.timeout]
    ELSE CASE s.pending = "lossprobe" -> tcp_rearm_rto(s)
           [] s.pending = "retrans" ->
                  tcp_retransmit_timer(Disarm(s), oom, sent, set_rto)
           [] s.pending = "probe0" -> tcp_probe_timer(Disarm(s), oom, sent)

(* A segment that left gives the peer something to answer.                 *)
Handle(s) ==
    \E oom, sent \in BOOLEAN, set_rto \in Rtos :
        /\ sk' = tcp_write_timer_handler(s, oom, sent, set_rto)
        /\ answers' = (answers \/ sent)

(* tcp_write_timer() *)
WriteTimer ==
    /\ sk.wtimer = 0
    /\ LET fired == [sk EXCEPT !.wtimer = None]
       IN IF sk.owned
          THEN sk' = [fired EXCEPT !.deferred = TRUE] /\ UNCHANGED answers
          ELSE Handle(fired)
    /\ UNCHANGED peer

-----------------------------------------------------------------------------
(* The keepalive timer.                                                    *)

tcp_set_keepalive(s, val) ==
    IF s.state = "CLOSE" THEN s
    ELSE IF val /\ ~s.keepopen THEN [s EXCEPT !.ktimer = KeepaliveTime]
    ELSE IF ~val THEN [s EXCEPT !.ktimer = None]
    ELSE s

(* Nothing from the peer for long enough, and enough probes unanswered.    *)
KeepaliveExpired_any_probe(s) == s.probes_out > 0

KeepaliveExpired(s) ==
    IF s.user_timeout # 0
    THEN s.silence >= s.user_timeout /\ s.probes_out > 0
    ELSE s.probes_out >= KeepaliveProbes

KeepaliveProbe(s, sent) ==
    IF sent
    THEN [s EXCEPT !.probes_out = @ + 1, !.ktimer = KeepaliveIntvl]
    ELSE [s EXCEPT !.ktimer = TCP_RESOURCE_PROBE_INTERVAL]

tcp_keepalive_timer(s, sent) ==
    IF s.owned THEN [s EXCEPT !.ktimer = RetryLocked]
    ELSE IF s.state = "FIN_WAIT2" /\ s.dead THEN tcp_done(s)
    ELSE IF ~s.keepopen \/ s.state \in {"CLOSE", "SYN_SENT"} THEN s
    ELSE IF s.packets_out > 0 \/ s.send_head
         THEN [s EXCEPT !.ktimer = KeepaliveTime]
    ELSE IF s.silence < KeepaliveTime
         THEN [s EXCEPT !.ktimer = KeepaliveTime - s.silence]
    ELSE IF KeepaliveExpired(s) THEN tcp_write_err(s)
    ELSE KeepaliveProbe(s, sent)

KeepaliveTimer ==
    /\ sk.ktimer = 0
    /\ \E sent \in BOOLEAN :
           sk' = tcp_keepalive_timer([sk EXCEPT !.ktimer = None], sent)
    /\ answers' = (answers \/ sk'.probes_out > sk.probes_out)
    /\ UNCHANGED peer

-----------------------------------------------------------------------------
(* The process: it takes the lock, and with its next call releases it.     *)

Lock ==
    /\ ~sk.owned /\ ~sk.dead
    /\ sk.state # "CLOSE"
    /\ sk' = [sk EXCEPT !.owned = TRUE]
    /\ UNCHANGED <<peer, answers>>

(* release_sock() runs tcp_release_cb(), which does the timer's work.      *)
release_sock(s) ==
    LET free == [s EXCEPT !.owned = FALSE, !.deferred = FALSE]
    IN IF s.deferred THEN Handle(free)
       ELSE sk' = free /\ answers' = TRUE

(* A call that changes nothing of the timers.                              *)
Release ==
    /\ sk.owned
    /\ release_sock(sk)
    /\ UNCHANGED peer

(* Queues one segment; it leaves at once if the window is open.  A tail    *)
(* loss probe may take the place of the retransmission timer.              *)
tcp_push_pending_frames(s, what) ==
    IF ~s.send_head THEN s
    ELSE IF s.snd_wnd = 0 \/ s.packets_out = MaxPackets
         THEN tcp_check_probe_timer(s)
    ELSE LET out == [s EXCEPT !.send_head = FALSE, !.packets_out = @ + 1]
         IN IF (s.packets_out > 0 /\ s.pending # "lossprobe") \/ s.fastopen
            THEN out
            ELSE Arm(out, what, s.rto)

Send ==
    /\ sk.owned
    /\ sk.state \in {"ESTABLISHED", "SYN_RECV"}
    /\ ~sk.send_head
    /\ \E what \in {"retrans", "lossprobe"} :
           release_sock(tcp_push_pending_frames([sk EXCEPT !.send_head = TRUE],
                                                what))
    /\ UNCHANGED peer

SetUserTimeout ==
    /\ sk.owned
    /\ \E t \in UserTimeouts : release_sock([sk EXCEPT !.user_timeout = t])
    /\ UNCHANGED peer

(* SO_KEEPALIVE of sock_setsockopt() *)
SetKeepalive ==
    /\ sk.owned
    /\ \E val \in BOOLEAN :
           release_sock([tcp_set_keepalive(sk, val) EXCEPT !.keepopen = val])
    /\ UNCHANGED peer

(* The timers a socket in FIN_WAIT2 without a process gets.                *)
OrphanInFinWait2(s) ==
    IF tcp_fin_time(s) > TCP_TIMEWAIT_LEN
    THEN [s EXCEPT !.ktimer = tcp_fin_time(s) - TCP_TIMEWAIT_LEN]
    ELSE tcp_done(s)

(* shutdown() or close() with the data already read: the FIN is a segment  *)
(* like the others.                                                        *)
SendFin(s) ==
    IF s.state \in {"ESTABLISHED", "SYN_RECV"}
    THEN tcp_push_pending_frames([s EXCEPT !.state = "FIN_WAIT1",
                                           !.send_head = TRUE], "retrans")
    ELSE s

Shutdown ==
    /\ sk.owned
    /\ sk.state \in {"ESTABLISHED", "SYN_RECV"}
    /\ release_sock(SendFin(sk))
    /\ UNCHANGED peer

tcp_close(s) ==
    LET orphan == [SendFin(s) EXCEPT !.dead = TRUE]
    IN IF s.state = "SYN_SENT" THEN tcp_done(tcp_write_queue_purge(orphan))
       ELSE IF s.state = "FIN_WAIT2" THEN OrphanInFinWait2(orphan)
       ELSE orphan

Close ==
    /\ sk.owned
    /\ release_sock(tcp_close(sk))
    /\ UNCHANGED peer

-----------------------------------------------------------------------------
(* The peer.                                                               *)

(* tcp_ack(): a segment that acknowledges n of the segments in flight and  *)
(* advertises a window.  sampled tells whether it measured a round trip,   *)
(* which Karn's rule forbids for a retransmitted segment; a recovery that  *)
(* is not over keeps its stamp (cleared).                                  *)
Heard(s) == [s EXCEPT !.silence = 0, !.probes_out = 0]

Acked(s, n, sampled, cleared, set_rto) ==
    LET acked == [s EXCEPT !.packets_out = @ - n, !.retransmits = 0,
                           !.retrans_stamp = IF cleared \/ n = s.packets_out
                                             THEN None ELSE @]
    IN tcp_rearm_rto(IF sampled THEN [acked EXCEPT !.rto = set_rto, !.backoff = 0]
                     ELSE acked)

(* tcp_ack_probe(): with nothing in flight, the window decides.            *)
tcp_ack_probe(s) ==
    IF ~s.send_head THEN s
    ELSE IF s.snd_wnd > 0 THEN Disarm([s EXCEPT !.backoff = 0])
    ELSE Arm(s, "probe0", tcp_probe0_when(s))

(* The handshake ends: the child forgets its request socket.               *)
Connected(s) ==
    CASE s.state = "SYN_SENT" ->
             [s EXCEPT !.state = "ESTABLISHED",
                       !.ktimer = IF s.keepopen THEN KeepaliveTime ELSE @]
      [] s.fastopen ->
             tcp_rearm_rto([s EXCEPT !.fastopen = FALSE, !.retransmits = 0,
                                     !.num_timeout = 0, !.retrans_stamp = None,
                                     !.state = IF @ = "SYN_RECV"
                                               THEN "ESTABLISHED" ELSE @])
      [] OTHER -> s

(* All is acknowledged, the FIN included.                                  *)
FinAcked(s) ==
    IF s.state = "FIN_WAIT1" /\ s.packets_out = 0 /\ ~s.send_head
    THEN IF s.dead THEN OrphanInFinWait2([s EXCEPT !.state = "FIN_WAIT2"])
         ELSE [s EXCEPT !.state = "FIN_WAIT2"]
    ELSE s

Received(s, n, wnd, sampled, cleared, set_rto) ==
    LET open == Connected([Heard(s) EXCEPT !.snd_wnd = wnd])
        acked == IF s.packets_out = 0 THEN tcp_ack_probe(open)
                 ELSE IF n > 0 THEN Acked(open, n, sampled, cleared, set_rto)
                 ELSE open
    IN FinAcked(tcp_push_pending_frames(acked, "retrans"))

Ack ==
    /\ peer = "there" /\ answers
    /\ ~sk.owned
    /\ sk.state # "CLOSE"
    /\ \E n \in 0 .. sk.packets_out, wnd \in {0, 1}, sampled, cleared \in BOOLEAN,
          set_rto \in Rtos :
           /\ sk.state = "SYN_SENT" => n = 1
           /\ sk' = Received(sk, n, wnd, sampled, cleared, set_rto)
    /\ answers' = (sk'.packets_out > 0)
    /\ UNCHANGED peer

PeerDies ==
    /\ peer = "there"
    /\ peer' = "gone"
    /\ UNCHANGED <<sk, answers>>

-----------------------------------------------------------------------------
Countdown(t) == IF t > 0 THEN t - 1 ELSE t
Older(stamp) == IF stamp = None THEN None ELSE Lesser(stamp + 1, MaxAge)

(* A tick of jiffies.  Once the socket is closed nothing is left to wait.  *)
Tick ==
    /\ sk.wtimer # 0 /\ sk.ktimer # 0
    /\ sk.state # "CLOSE"
    /\ sk' = [sk EXCEPT !.timeout = Countdown(@), !.wtimer = Countdown(@),
                        !.ktimer = Countdown(@),
                        !.silence = Lesser(@ + 1, MaxSilence),
                        !.retrans_stamp = Older(@)]
    /\ UNCHANGED <<peer, answers>>

Idle == [state |-> "ESTABLISHED", dead |-> FALSE, err |-> FALSE,
         keepopen |-> FALSE, fastopen |-> FALSE, owned |-> FALSE,
         deferred |-> FALSE, pending |-> "none", timeout |-> 0,
         wtimer |-> None, ktimer |-> None, packets_out |-> 0,
         send_head |-> FALSE, snd_wnd |-> 1, retransmits |-> 0, backoff |-> 0,
         rto |-> Lesser(TCP_TIMEOUT_INIT, TCP_RTO_MAX), retrans_stamp |-> None,
         probes_out |-> 0, silence |-> 0, num_timeout |-> 0, user_timeout |-> 0]

(* A client that sent its SYN, a Fast Open child that sent its SYN-ACK.    *)
Init ==
    /\ \/ sk = Arm([Idle EXCEPT !.state = "SYN_SENT", !.packets_out = 1],
                   "retrans", TCP_TIMEOUT_INIT)
       \/ sk = Arm([Idle EXCEPT !.state = "SYN_RECV", !.fastopen = TRUE],
                   "retrans", TCP_TIMEOUT_INIT)
    /\ peer = "there"
    /\ answers = TRUE

Next == \/ Tick \/ WriteTimer \/ KeepaliveTimer
        \/ Lock \/ Release \/ Send \/ SetUserTimeout \/ SetKeepalive
        \/ Shutdown \/ Close \/ Ack \/ PeerDies

(* Time passes, timers fire, a process that holds the lock releases it.    *)
Fairness == WF_vars(Tick) /\ WF_vars(WriteTimer) /\ WF_vars(KeepaliveTimer)
            /\ WF_vars(Release)

Spec == Init /\ [][Next]_vars /\ Fairness

-----------------------------------------------------------------------------
(* Every field keeps its type; the handlers never arm a negative timer.    *)
TypeOK ==
    /\ sk \in Sock
    /\ peer \in {"there", "gone"}
    /\ answers \in BOOLEAN

(* As long as a segment is unacknowledged or waits for a window, a timer   *)
(* event is pending, and either the kernel timer that brings it is running *)
(* or release_sock() owes its work; a timer for a later time is never      *)
(* dropped (567-621 with 333-378, 428-563).                                *)
TimerArmed ==
    sk.state # "CLOSE" /\ (sk.packets_out > 0 \/ sk.send_head) =>
        /\ sk.pending # "none"
        /\ sk.wtimer # None \/ sk.deferred
        /\ sk.timeout > 0 => sk.wtimer = sk.timeout

(* A peer that stopped answering does not keep a socket with unsent or     *)
(* unacknowledged data open for ever, whatever the window, the local queue *)
(* or the user timeout (191-263, 333-378, 472-480).                        *)
SilentPeerEnds ==
    peer = "gone" /\ (sk.packets_out > 0 \/ sk.send_head)
        ~> sk.state = "CLOSE"

(* A socket without a process ends, even if the peer keeps answering every *)
(* probe with a closed window (126-140, 362-373, 665-676).                 *)
OrphanEnds == sk.dead ~> sk.state = "CLOSE"

(* The keepalive timer ends a connection only after the peer was silent    *)
(* for the whole time of the options: the idle time and an interval for    *)
(* each probe, or TCP_USER_TIMEOUT (690-711).  An application that turns   *)
(* SO_KEEPALIVE off and on restarts the timer with the idle time (631-640), *)
(* so that an interval counts for no more than that.                       *)
KeepaliveOnlyAfterSilence ==
    [][KeepaliveTimer /\ sk'.err /\ ~sk.err =>
           /\ sk.silence >= KeepaliveTime
           /\ sk.silence >= IF sk.user_timeout # 0 THEN sk.user_timeout
                            ELSE KeepaliveTime + KeepaliveProbes
                                     * Lesser(KeepaliveTime, KeepaliveIntvl)
      ]_vars

(* What the comment above retransmits_timed_out() (186-189) says of its    *)
(* default: it is the time that "boundary" retransmissions take, each after *)
(* twice the time of the one before, from TCP_RTO_MIN on.                  *)
BackedOff[n \in Nat] ==
    Lesser(TCP_RTO_MIN * 2 ^ n, TCP_RTO_MAX)
        + (IF n = 0 THEN 0 ELSE BackedOff[n - 1])

BoundaryRetransmissions ==
    [][/\ sk.state = "ESTABLISHED" /\ ~sk'.dead /\ ~WindowShrunk(sk)
       /\ sk.packets_out > 0 /\ sk.user_timeout = 0
       /\ sk'.err /\ ~sk.err
       => sk.retrans_stamp >= BackedOff[Retries2]]_vars

=============================================================================
