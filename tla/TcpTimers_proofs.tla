--------------------------- MODULE TcpTimers_proofs ---------------------------
(***************************************************************************)
(* For every timeout, option and number of retries: the types of TcpTimers, *)
(* a timer as long as something is owed to the peer, and no end by the     *)
(* keepalive timer before its time.                                        *)
(***************************************************************************)
EXTENDS TcpTimers, FiniteSetTheorems, TLAPS

USE TimersAssumption DEF Positive, None

(***************************************************************************)
(* Numbers.                                                                *)
(***************************************************************************)
LEMMA LesserIs ==
    ASSUME NEW a \in Int, NEW b \in Int
    PROVE  /\ Lesser(a, b) \in {a, b}
           /\ Lesser(a, b) <= a /\ Lesser(a, b) <= b
           /\ Greater(a, b) \in {a, b}
           /\ Greater(a, b) >= a /\ Greater(a, b) >= b
    BY DEF Lesser, Greater

(* A shift is a number: 2 ^ n counts the subsets of 1 .. n.                *)
LEMMA PowerType ==
    ASSUME NEW n \in Nat
    PROVE  2 ^ n \in Positive
<1>1. IsFiniteSet(1 .. n) /\ Cardinality(1 .. n) = n
  <2>1. Cardinality(1 .. n) = IF 1 > n THEN 0 ELSE n - 1 + 1
      BY FS_Interval
  <2>2. IsFiniteSet(1 .. n)
      BY FS_Interval
  <2> QED
      BY <2>1, <2>2
<1>2. IsFiniteSet(SUBSET (1 .. n)) /\ Cardinality(SUBSET (1 .. n)) = 2 ^ n
    BY <1>1, FS_SUBSET
<1>3. Cardinality(SUBSET (1 .. n)) \in Nat
    BY <1>2, FS_CardinalityType
<1>4. Cardinality(SUBSET (1 .. n)) # 0
    BY <1>2, FS_EmptySet
<1> QED
    BY <1>2, <1>3, <1>4

(***************************************************************************)
(* Arming and clearing: the types, and the fields the invariants are about. *)
(***************************************************************************)
Same(s, t) ==
    /\ t.state = s.state /\ t.dead = s.dead
    /\ t.fastopen = s.fastopen /\ t.deferred = s.deferred
    /\ t.packets_out = s.packets_out /\ t.send_head = s.send_head
    /\ t.probes_out = s.probes_out /\ t.silence = s.silence
    /\ t.ktimer = s.ktimer

ArmedFor(t, what) == t.pending = what /\ t.wtimer = t.timeout

Closed(t) == t.state = "CLOSE" /\ t.pending = "none" /\ ~t.fastopen

LEMMA SameIs ==
    /\ \A s : Same(s, s)
    /\ \A r, s, t : Same(r, s) /\ Same(s, t) => Same(r, t)
    BY DEF Same

LEMMA ArmIs ==
    ASSUME NEW s \in Sock, NEW what \in {"retrans", "probe0", "lossprobe"},
           NEW when \in Nat
    PROVE  LET t == Arm(s, what, when)
           IN  t \in Sock /\ Same(s, t) /\ ArmedFor(t, what)
<1> DEFINE n == Lesser(when, TCP_RTO_MAX)
<1>1. n \in Nat
    BY LesserIs
<1> HIDE DEF n
<1>2. LET t == [s EXCEPT !.pending = what, !.timeout = n, !.wtimer = n]
      IN  t \in Sock /\ Same(s, t) /\ ArmedFor(t, what)
    BY <1>1 DEF Sock, Timer, Same, ArmedFor
<1> QED
    BY <1>2 DEF Arm, n

LEMMA DisarmIs ==
    ASSUME NEW s \in Sock
    PROVE  /\ Disarm(s) \in Sock /\ Same(s, Disarm(s))
           /\ Disarm(s).pending = "none"
    BY DEF Disarm, Sock, Same

LEMMA DoneIs ==
    ASSUME NEW s \in Sock
    PROVE  tcp_done(s) \in Sock /\ Closed(tcp_done(s))
<1> DEFINE off == Disarm(s)
<1>1. off \in Sock /\ off.pending = "none"
    BY DisarmIs
<1> HIDE DEF off
<1>2. LET t == [[off EXCEPT !.wtimer = None, !.ktimer = None]
                EXCEPT !.state = "CLOSE", !.fastopen = FALSE]
      IN  t \in Sock /\ Closed(t)
    BY <1>1 DEF Sock, Timer, States, Closed
<1> QED
    BY <1>2 DEF tcp_done, tcp_clear_xmit_timers, off

LEMMA WriteErrIs ==
    ASSUME NEW s \in Sock
    PROVE  tcp_write_err(s) \in Sock /\ Closed(tcp_write_err(s))
<1>1. tcp_write_queue_purge([s EXCEPT !.err = TRUE]) \in Sock
    BY DEF tcp_write_queue_purge, Sock
<1> QED
    BY <1>1, DoneIs DEF tcp_write_err

LEMMA ProbeBase ==
    ASSUME NEW s \in Sock
    PROVE  tcp_probe0_base(s) \in Nat /\ tcp_probe0_when(s) \in Nat
<1>1. s.rto \in Nat /\ s.backoff \in Nat
    BY DEF Sock
<1>2. tcp_probe0_base(s) \in Nat
    BY <1>1, LesserIs DEF tcp_probe0_base
<1>3. 2 ^ s.backoff \in Nat
    BY <1>1, PowerType
<1>4. tcp_probe0_base(s) * 2 ^ s.backoff \in Nat
    BY <1>2, <1>3
<1>5. tcp_probe0_when(s) \in Nat
    BY <1>4, LesserIs DEF tcp_probe0_when
<1> QED
    BY <1>2, <1>5

LEMMA RearmIs ==
    ASSUME NEW s \in Sock
    PROVE  LET t == tcp_rearm_rto(s)
           IN  /\ t \in Sock /\ Same(s, t)
               /\ s.fastopen => t = s
               /\ ~s.fastopen /\ s.packets_out = 0 => t.pending = "none"
               /\ ~s.fastopen /\ s.packets_out # 0 => ArmedFor(t, "retrans")
<1>1. s.rto \in Nat
    BY DEF Sock
<1>2. LET t == Arm(s, "retrans", s.rto)
      IN  t \in Sock /\ Same(s, t) /\ ArmedFor(t, "retrans")
    BY <1>1, ArmIs
<1> QED
    BY <1>2, DisarmIs, SameIs DEF tcp_rearm_rto

(***************************************************************************)
(* The write timer.                                                        *)
(***************************************************************************)
LEMMA SkbIs ==
    ASSUME NEW s \in Sock, NEW sent \in BOOLEAN
    PROVE  LET t == tcp_retransmit_skb(s, sent)
           IN  t \in Sock /\ Same(s, t)
<1>1. Lesser(s.rto, MaxAge) \in Nat
    BY LesserIs DEF Sock
<1> QED
    BY <1>1 DEF tcp_retransmit_skb, Sock, Timer, Same

LEMMA OutResetIs ==
    ASSUME NEW s \in Sock, NEW set_rto \in Rtos
    PROVE  LET t == OutResetTimer(s, set_rto)
           IN  t \in Sock /\ Same(s, t) /\ ArmedFor(t, "retrans")
<1> DEFINE next == IF tcp_stream_is_thin(s)
                   THEN [s EXCEPT !.backoff = 0,
                                  !.rto = Lesser(set_rto, TCP_RTO_MAX)]
                   ELSE [s EXCEPT !.rto = Lesser(2 * s.rto, TCP_RTO_MAX)]
<1>1. /\ Lesser(set_rto, TCP_RTO_MAX) \in Positive
      /\ Lesser(2 * s.rto, TCP_RTO_MAX) \in Positive
  <2>1. s.rto \in Positive
      BY DEF Sock
  <2>2. set_rto \in Positive /\ 2 * s.rto \in Positive
      BY <2>1
  <2>3. \A n \in Positive : Lesser(n, TCP_RTO_MAX) \in Positive
      BY LesserIs
  <2> QED
      BY <2>2, <2>3
<1>2. next \in Sock /\ Same(s, next)
    BY <1>1 DEF Sock, Same
<1> HIDE DEF next
<1>3. tcp_clamp_rto_to_user_timeout(next) \in Nat
  <2>1. /\ next.rto \in Nat /\ next.user_timeout \in Nat
        /\ next.retrans_stamp \in Int
      BY <1>2 DEF Sock, Timer
  <2>2. next.user_timeout - next.retrans_stamp \in Int
      BY <2>1
  <2> QED
      BY <2>1, <2>2, LesserIs DEF tcp_clamp_rto_to_user_timeout
<1>4. OutResetTimer(s, set_rto) =
          Arm(next, "retrans", tcp_clamp_rto_to_user_timeout(next))
    BY DEF OutResetTimer, next
<1> QED
    BY <1>2, <1>3, <1>4, ArmIs, SameIs

LEMMA SynackTimerIs ==
    ASSUME NEW s \in Sock
    PROVE  LET t == tcp_fastopen_synack_timer(s)
           IN  t \in Sock /\ (Closed(t) \/ (Same(s, t) /\ ArmedFor(t, "retrans")))
<1> DEFINE n == s.num_timeout + 1
           m == s.retransmits + 1
           stamp == IF s.retrans_stamp = None THEN 0 ELSE s.retrans_stamp
           next == [s EXCEPT !.num_timeout = n, !.retransmits = m,
                             !.retrans_stamp = stamp]
           when == TCP_TIMEOUT_INIT * 2 ^ n
<1>1. n \in Nat /\ m \in Nat /\ stamp \in Timer
    BY DEF Sock, Timer
<1>2. when \in Nat
  <2>1. 2 ^ n \in Nat
      BY <1>1, PowerType
  <2> QED
      BY <2>1
<1>3. next \in Sock /\ Same(s, next)
  <2> HIDE DEF n, m, stamp
  <2> QED
      BY <1>1 DEF Sock, Same
<1>4. tcp_fastopen_synack_timer(s) \in
          {tcp_write_err(s), Arm(next, "retrans", when)}
    BY DEF tcp_fastopen_synack_timer
<1> HIDE DEF next, when
<1> DEFINE Good(u) == u \in Sock
                      /\ (Closed(u) \/ (Same(s, u) /\ ArmedFor(u, "retrans")))
<1>5. Good(Arm(next, "retrans", when))
  <2>1. LET t == Arm(next, "retrans", when)
        IN  t \in Sock /\ Same(next, t) /\ ArmedFor(t, "retrans")
      BY <1>2, <1>3, ArmIs
  <2> QED
      BY <1>3, <2>1, SameIs
<1>6. Good(tcp_write_err(s))
    BY WriteErrIs
<1> HIDE DEF Good
<1>7. Good(tcp_fastopen_synack_timer(s))
    BY <1>4, <1>5, <1>6, Zenon
<1> QED
    BY <1>7 DEF Good

LEMMA RetransmitIs ==
    ASSUME NEW s \in Sock, NEW sent \in BOOLEAN, NEW set_rto \in Rtos
    PROVE  LET t == Retransmit(s, sent, set_rto)
           IN  t \in Sock /\ Same(s, t) /\ ArmedFor(t, "retrans")
<1> DEFINE n == s.retransmits + 1
           counted == [s EXCEPT !.retransmits = n]
           tried == tcp_retransmit_skb(counted, sent)
           b == Lesser(tried.backoff + 1, MaxBackoff)
           backed == [tried EXCEPT !.backoff = b]
<1>1. n \in Nat
    BY DEF Sock
<1>2. counted \in Sock /\ Same(s, counted)
  <2> HIDE DEF n
  <2> QED
      BY <1>1 DEF Sock, Same
<1> HIDE DEF counted
<1>3. tried \in Sock /\ Same(s, tried)
    BY <1>2, SkbIs DEF Same
<1> HIDE DEF tried
<1>4. b \in Nat
    BY <1>3, LesserIs DEF Sock
<1> HIDE DEF b
<1>5. backed \in Sock /\ Same(s, backed)
    BY <1>3, <1>4 DEF Sock, Same
<1> HIDE DEF backed
<1>6. Retransmit(s, sent, set_rto) =
          IF ~sent THEN Arm(tried, "retrans", TCP_RESOURCE_PROBE_INTERVAL)
          ELSE OutResetTimer(backed, set_rto)
    BY DEF Retransmit, backed, b, tried, counted, n
<1>7. LET t == Arm(tried, "retrans", TCP_RESOURCE_PROBE_INTERVAL)
      IN  t \in Sock /\ Same(s, t) /\ ArmedFor(t, "retrans")
    BY <1>3, ArmIs, SameIs
<1>8. LET t == OutResetTimer(backed, set_rto)
      IN  t \in Sock /\ Same(s, t) /\ ArmedFor(t, "retrans")
    BY <1>5, OutResetIs, SameIs
<1> QED
    BY <1>6, <1>7, <1>8

LEMMA RetransmitTimerIs ==
    ASSUME NEW s \in Sock, NEW oom \in BOOLEAN, NEW sent \in BOOLEAN,
           NEW set_rto \in Rtos
    PROVE  LET t == tcp_retransmit_timer(s, oom, sent, set_rto)
           IN  /\ t \in Sock
               /\ s.fastopen \/ s.packets_out # 0 =>
                      Closed(t) \/ (Same(s, t) /\ ArmedFor(t, "retrans"))
<1> DEFINE t == tcp_retransmit_timer(s, oom, sent, set_rto)
           shrunk == OutResetTimer(tcp_retransmit_skb(s, sent), set_rto)
           again == Retransmit(s, sent, set_rto)
           synack == tcp_fastopen_synack_timer(s)
           Good(u) == u \in Sock
                      /\ (Closed(u) \/ (Same(s, u) /\ ArmedFor(u, "retrans")))
<1>1. Good(shrunk)
  <2>1. tcp_retransmit_skb(s, sent) \in Sock /\ Same(s, tcp_retransmit_skb(s, sent))
      BY SkbIs
  <2>2. /\ shrunk \in Sock /\ Same(tcp_retransmit_skb(s, sent), shrunk)
        /\ ArmedFor(shrunk, "retrans")
      BY <2>1, OutResetIs
  <2>3. Same(s, shrunk)
      BY <2>1, <2>2, SameIs
  <2> HIDE DEF shrunk
  <2> QED
      BY <2>2, <2>3
<1>2. Good(again)
    BY RetransmitIs
<1>3. Good(synack)
    BY SynackTimerIs
<1>4. Good(tcp_write_err(s)) /\ Good(tcp_done(s))
    BY WriteErrIs, DoneIs
<1>5. \/ t \in {synack, tcp_write_err(s), tcp_done(s), shrunk, again}
      \/ t = s /\ ~s.fastopen /\ s.packets_out = 0
    BY DEF tcp_retransmit_timer
<1> HIDE DEF t, shrunk, again, synack, Good
<1>6. Good(t) \/ (t = s /\ ~s.fastopen /\ s.packets_out = 0)
    BY <1>1, <1>2, <1>3, <1>4, <1>5, Zenon
<1> QED
    BY <1>6 DEF Good, t

LEMMA ProbeTimerIs ==
    ASSUME NEW s \in Sock, NEW oom \in BOOLEAN, NEW sent \in BOOLEAN
    PROVE  LET t == tcp_probe_timer(s, oom, sent)
           IN  /\ t \in Sock
               /\ s.packets_out = 0 /\ s.send_head =>
                      \/ Closed(t)
                      \/ /\ ArmedFor(t, "probe0")
                         /\ t.state = s.state /\ t.fastopen = s.fastopen
                         /\ t.packets_out = 0 /\ t.send_head
<1>1. [s EXCEPT !.probes_out = 0] \in Sock
    BY DEF Sock
<1> DEFINE n == s.probes_out + 1
           b == IF sent /\ s.backoff < Retries2
                THEN Lesser(s.backoff + 1, MaxBackoff) ELSE s.backoff
           probed == [s EXCEPT !.probes_out = n, !.backoff = b]
           when == IF sent THEN tcp_probe0_when(probed)
                   ELSE TCP_RESOURCE_PROBE_INTERVAL
<1>2. n \in Nat /\ b \in Nat
    BY LesserIs DEF Sock
<1>3. probed \in Sock /\ probed.state = s.state /\ probed.fastopen = s.fastopen
      /\ probed.packets_out = s.packets_out /\ probed.send_head = s.send_head
  <2> HIDE DEF n, b
  <2> QED
      BY <1>2 DEF Sock
<1>4. tcp_send_probe0(s, sent) = Arm(probed, "probe0", when)
    BY DEF tcp_send_probe0
<1> HIDE DEF probed
<1>5. when \in Nat
    BY <1>3, ProbeBase
<1> HIDE DEF when
<1>6. LET t == tcp_send_probe0(s, sent)
      IN  /\ t \in Sock /\ ArmedFor(t, "probe0")
          /\ t.state = s.state /\ t.fastopen = s.fastopen
          /\ t.packets_out = s.packets_out /\ t.send_head = s.send_head
  <2>1. LET t == Arm(probed, "probe0", when)
        IN  t \in Sock /\ Same(probed, t) /\ ArmedFor(t, "probe0")
      BY <1>3, <1>5, ArmIs
  <2> QED
      BY <1>3, <1>4, <2>1 DEF Same
<1>7. /\ tcp_write_err(s) \in Sock /\ Closed(tcp_write_err(s))
      /\ tcp_done(s) \in Sock /\ Closed(tcp_done(s))
    BY WriteErrIs, DoneIs
<1>8. s.packets_out \in Nat
    BY DEF Sock
<1>9. tcp_probe_timer(s, oom, sent) \in
         {[s EXCEPT !.probes_out = 0], tcp_write_err(s), tcp_done(s),
          tcp_send_probe0(s, sent)}
    BY DEF tcp_probe_timer
<1>10. s.packets_out = 0 /\ s.send_head =>
         tcp_probe_timer(s, oom, sent) \in
             {tcp_write_err(s), tcp_done(s), tcp_send_probe0(s, sent)}
    BY DEF tcp_probe_timer
<1> QED
    BY <1>1, <1>6, <1>7, <1>9, <1>10

(***************************************************************************)
(* The silence that probes_out unanswered keepalive probes stand for.      *)
(***************************************************************************)
Shorter == Lesser(KeepaliveTime, KeepaliveIntvl)

Enough(p) == Lesser(KeepaliveTime + p * Shorter,
                    KeepaliveTime + KeepaliveProbes * Shorter)

LEMMA TimesIs ==
    ASSUME NEW p \in Nat, NEW m \in Positive
    PROVE  /\ p * m \in Nat /\ (p + 1) * m = p * m + m
           /\ \A q \in Nat : p <= q => p * m <= q * m
           /\ \A n \in Positive : m <= n => p * m <= p * n
<1>1. p * m \in Nat /\ (p + 1) * m = p * m + m
    OBVIOUS
<1>2. ASSUME NEW q \in Nat, p <= q PROVE p * m <= q * m
  <2>1. (q - p) * m \in Nat
      BY <1>2
  <2>2. q * m = p * m + (q - p) * m
      BY <1>2
  <2> QED
      BY <1>1, <2>1, <2>2
<1>3. ASSUME NEW n \in Positive, m <= n PROVE p * m <= p * n
  <2>1. p * (n - m) \in Nat
      BY <1>3
  <2>2. p * n = p * m + p * (n - m)
      BY <1>3
  <2> QED
      BY <1>1, <2>1, <2>2
<1> QED
    BY <1>1, <1>2, <1>3

LEMMA ShorterIs ==
    Shorter \in Positive /\ Shorter <= KeepaliveTime /\ Shorter <= KeepaliveIntvl
    BY LesserIs DEF Shorter

LEMMA EnoughIs ==
    ASSUME NEW p \in Nat
    PROVE  /\ Enough(p) \in Nat
           /\ KeepaliveTime <= Enough(p) /\ Enough(p) <= MaxSilence
           /\ Enough(p) <= Enough(p + 1) /\ Enough(p + 1) <= Enough(p) + Shorter
           /\ p = 0 => Enough(p) = KeepaliveTime
           /\ p >= KeepaliveProbes =>
                  Enough(p) = KeepaliveTime + KeepaliveProbes * Shorter
<1>1. /\ p * Shorter \in Nat /\ (p + 1) * Shorter = p * Shorter + Shorter
      /\ KeepaliveProbes * Shorter \in Nat
      /\ KeepaliveProbes <= p => KeepaliveProbes * Shorter <= p * Shorter
      /\ p = 0 => p * Shorter = 0
    BY ShorterIs, TimesIs
<1>2. KeepaliveProbes * Shorter <= KeepaliveProbes * KeepaliveIntvl
    BY ShorterIs, TimesIs
<1>3. KeepaliveProbes * KeepaliveIntvl \in Nat
    OBVIOUS
<1>4. KeepaliveTime + KeepaliveProbes * KeepaliveIntvl <= MaxSilence
    BY SilenceAssumption
<1> DEFINE a == p * Shorter
           b == (p + 1) * Shorter
           c == KeepaliveProbes * Shorter
           d == KeepaliveProbes * KeepaliveIntvl
<1>5. /\ Enough(p) = Lesser(KeepaliveTime + a, KeepaliveTime + c)
      /\ Enough(p + 1) = Lesser(KeepaliveTime + b, KeepaliveTime + c)
    BY DEF Enough
<1>6. /\ a \in Nat /\ b = a + Shorter /\ c \in Nat /\ d \in Nat
      /\ KeepaliveProbes <= p => c <= a
      /\ p = 0 => a = 0
      /\ c <= d /\ KeepaliveTime + d <= MaxSilence
    BY <1>1, <1>2, <1>3, <1>4
<1> HIDE DEF a, b, c, d
<1>7. KeepaliveTime \in Nat /\ Shorter \in Nat /\ Shorter > 0
    BY ShorterIs
<1>8. /\ Enough(p) = IF a <= c THEN KeepaliveTime + a ELSE KeepaliveTime + c
      /\ Enough(p + 1) = IF b <= c THEN KeepaliveTime + b ELSE KeepaliveTime + c
    BY <1>5, <1>6, <1>7 DEF Lesser
<1>9. \A e, f \in Nat :
         /\ e = (IF a <= c THEN KeepaliveTime + a ELSE KeepaliveTime + c)
         /\ f = (IF b <= c THEN KeepaliveTime + b ELSE KeepaliveTime + c)
         => /\ KeepaliveTime <= e /\ e <= MaxSilence
            /\ e <= f /\ f <= e + Shorter
            /\ p = 0 => e = KeepaliveTime
            /\ p >= KeepaliveProbes => e = KeepaliveTime + c
    BY <1>6, <1>7
<1>10. Enough(p) \in Nat /\ Enough(p + 1) \in Nat
    BY <1>6, <1>7, <1>8
<1> QED
    BY <1>8, <1>9, <1>10 DEF c

(***************************************************************************)
(* The inductive invariant.                                                *)
(***************************************************************************)
(* A pending event has its kernel timer, or release_sock() runs it.        *)
Running(s) ==
    s.pending # "none" =>
        /\ s.wtimer # None \/ s.deferred
        /\ s.timeout > 0 => s.wtimer = s.timeout

(* What is pending fits what there is to send.                             *)
Purpose(s) ==
    /\ s.pending = "probe0" => s.packets_out = 0 /\ s.send_head /\ ~s.fastopen
    /\ s.pending \in {"retrans", "lossprobe"} => s.packets_out > 0 \/ s.fastopen
    /\ s.fastopen => s.pending = "retrans" /\ s.state # "SYN_SENT"
    /\ s.state = "CLOSE" => s.pending = "none"

(* What is unacknowledged or waits has an event pending.                   *)
Owing(s) ==
    s.state # "CLOSE" /\ (s.packets_out > 0 \/ s.send_head)
        => s.pending # "none"

(* Each unanswered keepalive probe stands for its share of silence, and    *)
(* the timer does not fire before the next share is over.                  *)
Quiet(s) ==
    /\ s.packets_out = 0 /\ ~s.send_head /\ s.probes_out > 0
    /\ s.state # "CLOSE" /\ ~(s.dead /\ s.state = "FIN_WAIT2")
    => /\ s.silence >= Enough(s.probes_out - 1)
       /\ s.ktimer # None => s.silence + s.ktimer >= Enough(s.probes_out)

Sound(s) == s \in Sock /\ Running(s) /\ Purpose(s) /\ Owing(s) /\ Quiet(s)

IInv == Sound(sk) /\ peer \in {"there", "gone"} /\ answers \in BOOLEAN

LEMMA ClosedSound ==
    ASSUME NEW t \in Sock, Closed(t)
    PROVE  Sound(t)
    BY DEF Closed, Sound, Running, Purpose, Owing, Quiet

(* Nothing changed but the write timer, which is the right one.            *)
LEMMA ArmedSound ==
    ASSUME NEW s, Purpose(s), Quiet(s), s.state # "CLOSE",
           s.packets_out > 0 \/ s.fastopen,
           NEW t \in Sock, Same(s, t), ArmedFor(t, "retrans")
    PROVE  Sound(t)
<1>1. Running(t)
    BY DEF ArmedFor, Running, Sock
<1>2. Purpose(t)
    BY DEF Purpose, Same, ArmedFor
<1>3. Owing(t)
    BY DEF Owing, ArmedFor
<1>4. Quiet(t)
    BY DEF Quiet, Same
<1> QED
    BY <1>1, <1>2, <1>3, <1>4 DEF Sound

LEMMA HandlerSound ==
    ASSUME NEW s \in Sock, Purpose(s), Owing(s), Quiet(s),
           NEW oom \in BOOLEAN, NEW sent \in BOOLEAN, NEW set_rto \in Rtos
    PROVE  Sound(tcp_write_timer_handler(s, oom, sent, set_rto))
<1> DEFINE t == tcp_write_timer_handler(s, oom, sent, set_rto)
           off == Disarm(s)
<1>0. s.packets_out \in Nat /\ s.timeout \in Nat
      /\ s.pending \in {"none", "retrans", "probe0", "lossprobe"}
    BY DEF Sock
<1>1. off \in Sock /\ Same(s, off)
    BY DisarmIs
<1>2. CASE s.state = "CLOSE" \/ s.pending = "none"
  <2>1. t = s
      BY <1>2 DEF tcp_write_timer_handler
  <2>2. s.pending = "none"
      BY <1>2 DEF Purpose
  <2> HIDE DEF t
  <2> QED
      BY <2>1, <2>2 DEF Sound, Running, t
<1>3. CASE s.state # "CLOSE" /\ s.pending # "none" /\ s.timeout > 0
  <2>1. t = [s EXCEPT !.wtimer = s.timeout]
      BY <1>3 DEF tcp_write_timer_handler
  <2> HIDE DEF t
  <2>2. t \in Sock
      BY <1>0, <2>1 DEF Sock, Timer
  <2>3. /\ t.wtimer = s.timeout /\ t.timeout = s.timeout
        /\ t.pending = s.pending /\ Same(s, t)
      BY <2>1 DEF Sock, Same
  <2>4. Running(t)
      BY <1>0, <2>3 DEF Running
  <2>5. Purpose(t) /\ Owing(t) /\ Quiet(t)
      BY <2>3 DEF Purpose, Owing, Quiet, Same
  <2> QED
      BY <2>2, <2>4, <2>5 DEF Sound, t
<1>4. CASE s.state # "CLOSE" /\ s.pending = "lossprobe" /\ s.timeout = 0
  <2>1. t = tcp_rearm_rto(s)
      BY <1>4 DEF tcp_write_timer_handler
  <2> HIDE DEF t
  <2>2. ~s.fastopen /\ s.packets_out # 0 /\ s.packets_out > 0
      BY <1>0, <1>4 DEF Purpose
  <2>3. t \in Sock /\ Same(s, t) /\ ArmedFor(t, "retrans")
      BY <2>1, <2>2, RearmIs
  <2> QED
      BY <1>4, <2>2, <2>3, ArmedSound DEF t
<1>5. CASE s.state # "CLOSE" /\ s.pending = "retrans" /\ s.timeout = 0
  <2>1. t = tcp_retransmit_timer(off, oom, sent, set_rto)
      BY <1>5 DEF tcp_write_timer_handler
  <2> HIDE DEF t, off
  <2>2. s.fastopen \/ s.packets_out > 0
      BY <1>5 DEF Purpose
  <2>3. off.fastopen \/ off.packets_out # 0
      BY <1>0, <1>1, <2>2 DEF Same
  <2>4. t \in Sock /\ (Closed(t) \/ (Same(off, t) /\ ArmedFor(t, "retrans")))
      BY <1>1, <2>1, <2>3, RetransmitTimerIs
  <2>5. CASE Closed(t)
      BY <2>4, <2>5, ClosedSound DEF t
  <2>6. CASE Same(off, t) /\ ArmedFor(t, "retrans")
    <3>1. Same(s, t)
        BY <1>1, <2>6, SameIs
    <3> QED
        BY <1>5, <2>2, <2>4, <2>6, <3>1, ArmedSound DEF t
  <2> QED
      BY <2>4, <2>5, <2>6
<1>6. CASE s.state # "CLOSE" /\ s.pending = "probe0" /\ s.timeout = 0
  <2>1. t = tcp_probe_timer(off, oom, sent)
      BY <1>6 DEF tcp_write_timer_handler
  <2> HIDE DEF t, off
  <2>2. /\ off.packets_out = 0 /\ off.send_head /\ ~off.fastopen
        /\ off.state = s.state
      BY <1>1, <1>6 DEF Purpose, Same
  <2>3. /\ t \in Sock
        /\ \/ Closed(t)
           \/ /\ ArmedFor(t, "probe0")
              /\ t.state = off.state /\ t.fastopen = off.fastopen
              /\ t.packets_out = 0 /\ t.send_head
      BY <1>1, <2>1, <2>2, ProbeTimerIs
  <2>4. CASE Closed(t)
      BY <2>3, <2>4, ClosedSound DEF t
  <2>5. CASE /\ ArmedFor(t, "probe0")
             /\ t.state = s.state /\ ~t.fastopen
             /\ t.packets_out = 0 /\ t.send_head
    <3>1. Running(t)
        BY <2>3, <2>5 DEF ArmedFor, Running, Sock
    <3>2. Purpose(t) /\ Owing(t) /\ Quiet(t)
        BY <1>6, <2>5 DEF ArmedFor, Purpose, Owing, Quiet
    <3> QED
        BY <2>3, <3>1, <3>2 DEF Sound, t
  <2> QED
      BY <2>2, <2>3, <2>4, <2>5
<1> QED
    BY <1>0, <1>2, <1>3, <1>4, <1>5, <1>6

(* release_sock() and the handler itself keep the invariant.               *)
LEMMA HandleSound ==
    ASSUME NEW s \in Sock, Purpose(s), Owing(s), Quiet(s),
           answers \in BOOLEAN, Handle(s)
    PROVE  Sound(sk') /\ answers' \in BOOLEAN
    BY HandlerSound DEF Handle

LEMMA ReleaseSound ==
    ASSUME NEW s, Sound(s), answers \in BOOLEAN, release_sock(s)
    PROVE  Sound(sk') /\ answers' \in BOOLEAN
<1> DEFINE free == [s EXCEPT !.owned = FALSE, !.deferred = FALSE]
<1>1. /\ free \in Sock /\ free.pending = s.pending
      /\ free.wtimer = s.wtimer /\ free.timeout = s.timeout
    BY DEF Sound, Sock
<1>2. Purpose(free) /\ Owing(free) /\ Quiet(free)
  <2>1. s \in Sock /\ Purpose(s) /\ Owing(s) /\ Quiet(s)
      BY DEF Sound
  <2>2. /\ free.state = s.state /\ free.dead = s.dead
        /\ free.fastopen = s.fastopen /\ free.pending = s.pending
        /\ free.packets_out = s.packets_out /\ free.send_head = s.send_head
        /\ free.probes_out = s.probes_out /\ free.silence = s.silence
        /\ free.ktimer = s.ktimer
      BY <2>1 DEF Sock
  <2> HIDE DEF free
  <2> QED
      BY <2>1, <2>2 DEF Purpose, Owing, Quiet
<1>3. CASE s.deferred
  <2>1. Handle(free)
      BY <1>3 DEF release_sock
  <2> HIDE DEF free
  <2> QED
      BY <1>1, <1>2, <2>1, HandleSound
<1>4. CASE ~s.deferred
  <2>1. sk' = free /\ answers' = TRUE
      BY <1>4 DEF release_sock
  <2> HIDE DEF free
  <2>2. Running(free)
      BY <1>1, <1>4 DEF Sound, Running
  <2> QED
      BY <1>1, <1>2, <2>1, <2>2 DEF Sound
<1> QED
    BY <1>3, <1>4

(***************************************************************************)
(* The process.                                                            *)
(***************************************************************************)
(* What tcp_push_pending_frames() is given.                                *)
Sendable(s) ==
    /\ s \in Sock /\ Running(s) /\ Purpose(s)
    /\ s.state # "CLOSE"
    /\ s.packets_out > 0 => s.pending # "none"

LEMMA PushSound ==
    ASSUME NEW s, Sendable(s), ~s.send_head => Quiet(s),
           NEW what \in {"retrans", "lossprobe"}
    PROVE  LET t == tcp_push_pending_frames(s, what)
           IN  /\ Sound(t)
               /\ t.state = s.state /\ t.dead = s.dead
               /\ t.probes_out = s.probes_out
<1> DEFINE t == tcp_push_pending_frames(s, what)
           Kept(u) == /\ u.state = s.state /\ u.dead = s.dead
                      /\ u.probes_out = s.probes_out
           n == s.packets_out + 1
           out == [s EXCEPT !.send_head = FALSE, !.packets_out = n]
<1>1. /\ s \in Sock /\ Running(s) /\ Purpose(s)
      /\ s.state # "CLOSE"
      /\ s.packets_out > 0 => s.pending # "none"
    BY DEF Sendable
<1>2. /\ s.packets_out \in Nat /\ s.rto \in Nat
      /\ s.send_head \in BOOLEAN /\ s.fastopen \in BOOLEAN
      /\ s.pending \in {"none", "retrans", "probe0", "lossprobe"}
    BY <1>1 DEF Sock
<1>3. n \in Nat /\ n > 0
    BY <1>2
<1>4. /\ out \in Sock /\ out.packets_out = n /\ ~out.send_head
      /\ out.pending = s.pending /\ out.timeout = s.timeout
      /\ out.wtimer = s.wtimer /\ out.deferred = s.deferred
      /\ out.fastopen = s.fastopen /\ Kept(out)
  <2> HIDE DEF n
  <2> QED
      BY <1>1, <1>3 DEF Sock
<1>5. CASE ~s.send_head
  <2>1. t = s
      BY <1>5 DEF tcp_push_pending_frames
  <2> HIDE DEF t
  <2>2. Owing(s)
      BY <1>1, <1>5 DEF Owing
  <2> QED
      BY <1>1, <1>5, <2>1, <2>2 DEF Sound, t
<1>6. CASE s.send_head /\ (s.snd_wnd = 0 \/ s.packets_out = MaxPackets)
  <2>1. t = tcp_check_probe_timer(s)
      BY <1>6 DEF tcp_push_pending_frames
  <2> HIDE DEF t
  <2>2. CASE s.packets_out = 0 /\ s.pending = "none"
    <3>1. t = Arm(s, "probe0", tcp_probe0_base(s))
        BY <2>1, <2>2 DEF tcp_check_probe_timer
    <3>2. t \in Sock /\ Same(s, t) /\ ArmedFor(t, "probe0")
        BY <1>1, <3>1, ProbeBase, ArmIs
    <3>3. Running(t)
        BY <3>2 DEF Running, ArmedFor, Sock
    <3>4. ~s.fastopen
        BY <1>1, <2>2 DEF Purpose
    <3>5. Purpose(t) /\ Owing(t) /\ Quiet(t)
        BY <1>1, <1>6, <2>2, <3>2, <3>4 DEF Purpose, Owing, Quiet, Same, ArmedFor
    <3>6. Kept(t)
        BY <3>2 DEF Same
    <3> QED
        BY <3>2, <3>3, <3>5, <3>6 DEF Sound, t
  <2>3. CASE ~(s.packets_out = 0 /\ s.pending = "none")
    <3>1. t = s
        BY <2>1, <2>3 DEF tcp_check_probe_timer
    <3>2. s.pending # "none"
        BY <1>1, <1>2, <2>3
    <3>3. Owing(s) /\ Quiet(s)
        BY <1>6, <3>2 DEF Owing, Quiet
    <3> QED
        BY <1>1, <3>1, <3>3 DEF Sound, t
  <2> QED
      BY <2>2, <2>3
<1>7. CASE /\ s.send_head /\ ~(s.snd_wnd = 0 \/ s.packets_out = MaxPackets)
           /\ (s.packets_out > 0 /\ s.pending # "lossprobe") \/ s.fastopen
  <2>1. t = out
      BY <1>7 DEF tcp_push_pending_frames
  <2> HIDE DEF t, out, n
  <2>2. out.pending # "none"
      BY <1>1, <1>4, <1>7 DEF Purpose
  <2>3. Running(out)
      BY <1>1, <1>4 DEF Running
  <2>4. Purpose(out)
      BY <1>1, <1>2, <1>3, <1>4, <1>7 DEF Purpose
  <2>5. Owing(out) /\ Quiet(out)
      BY <1>3, <1>4, <2>2 DEF Owing, Quiet
  <2> QED
      BY <1>4, <2>1, <2>3, <2>4, <2>5 DEF Sound, t
<1>8. CASE /\ s.send_head /\ ~(s.snd_wnd = 0 \/ s.packets_out = MaxPackets)
           /\ ~((s.packets_out > 0 /\ s.pending # "lossprobe") \/ s.fastopen)
  <2>1. t = Arm(out, what, s.rto)
      BY <1>8 DEF tcp_push_pending_frames
  <2> HIDE DEF t, out, n
  <2>2. t \in Sock /\ Same(out, t) /\ ArmedFor(t, what)
      BY <1>2, <1>4, <2>1, ArmIs
  <2>3. Running(t)
      BY <2>2 DEF Running, ArmedFor, Sock
  <2>4. t.packets_out > 0 /\ ~t.fastopen /\ Kept(t)
      BY <1>3, <1>4, <1>8, <2>2 DEF Same
  <2>5. Purpose(t) /\ Owing(t) /\ Quiet(t)
      BY <1>1, <2>2, <2>4 DEF Purpose, Owing, Quiet, ArmedFor
  <2> QED
      BY <2>2, <2>3, <2>4, <2>5 DEF Sound, t
<1> QED
    BY <1>2, <1>5, <1>6, <1>7, <1>8

(* The segment that Send queues, and the FIN that SendFin queues.          *)
LEMMA QueueSendable ==
    ASSUME NEW s, Sound(s), s.state # "CLOSE",
           NEW state \in States, state # "CLOSE", state # "SYN_SENT"
    PROVE  LET t == [s EXCEPT !.state = state, !.send_head = TRUE]
           IN  Sendable(t) /\ t.send_head /\ t.state = state /\ t.dead = s.dead
<1> DEFINE t == [s EXCEPT !.state = state, !.send_head = TRUE]
<1>1. /\ t \in Sock /\ t.send_head /\ t.state = state /\ t.dead = s.dead
      /\ t.fastopen = s.fastopen /\ t.deferred = s.deferred
      /\ t.packets_out = s.packets_out /\ t.pending = s.pending
      /\ t.wtimer = s.wtimer /\ t.timeout = s.timeout
    BY DEF Sound, Sock
<1> HIDE DEF t
<1>2. Running(t)
    BY <1>1 DEF Sound, Running
<1>3. Purpose(t)
    BY <1>1 DEF Sound, Purpose
<1>4. t.packets_out > 0 => t.pending # "none"
    BY <1>1 DEF Sound, Owing
<1> QED
    BY <1>1, <1>2, <1>3, <1>4 DEF Sendable, t

LEMMA SendFinSound ==
    ASSUME NEW s, Sound(s)
    PROVE  Sound(SendFin(s))
<1>1. CASE s.state \in {"ESTABLISHED", "SYN_RECV"}
  <2> DEFINE fin == [s EXCEPT !.state = "FIN_WAIT1", !.send_head = TRUE]
  <2>1. Sendable(fin) /\ fin.send_head
      BY <1>1, QueueSendable DEF States
  <2> HIDE DEF fin
  <2>2. Sound(tcp_push_pending_frames(fin, "retrans"))
      BY <2>1, PushSound
  <2> QED
      BY <1>1, <2>2 DEF SendFin, fin
<1>2. CASE s.state \notin {"ESTABLISHED", "SYN_RECV"}
    BY <1>2 DEF SendFin
<1> QED
    BY <1>1, <1>2

(* Of a socket without a process, in FIN_WAIT2: the keepalive timer waits  *)
(* for the FIN.                                                            *)
LEMMA OrphanSound ==
    ASSUME NEW s, Sound(s), s.state = "FIN_WAIT2", s.dead \/ s.probes_out = 0
    PROVE  Sound(OrphanInFinWait2(s))
<1>1. s \in Sock
    BY DEF Sound
<1>2. CASE tcp_fin_time(s) > TCP_TIMEWAIT_LEN
  <2> DEFINE n == tcp_fin_time(s) - TCP_TIMEWAIT_LEN
             t == [s EXCEPT !.ktimer = n]
  <2>1. tcp_fin_time(s) \in Int
    <3>1. s.rto \in Nat
        BY <1>1 DEF Sock
    <3>2. 4 * s.rto - s.rto \div 2 \in Int
        BY <3>1
    <3> QED
        BY <3>2, LesserIs DEF tcp_fin_time
  <2>2. n \in Nat
      BY <1>2, <2>1
  <2> HIDE DEF n
  <2>3. /\ t \in Sock /\ t.state = s.state /\ t.dead = s.dead
        /\ t.fastopen = s.fastopen /\ t.deferred = s.deferred
        /\ t.packets_out = s.packets_out /\ t.send_head = s.send_head
        /\ t.pending = s.pending /\ t.wtimer = s.wtimer
        /\ t.timeout = s.timeout /\ t.probes_out = s.probes_out
      BY <1>1, <2>2 DEF Sock, Timer
  <2>4. OrphanInFinWait2(s) = t
      BY <1>2 DEF OrphanInFinWait2, n
  <2> HIDE DEF t
  <2>5. Running(t) /\ Purpose(t) /\ Owing(t)
      BY <2>3 DEF Sound, Running, Purpose, Owing
  <2>6. Quiet(t)
      BY <2>3 DEF Quiet
  <2> QED
      BY <2>3, <2>4, <2>5, <2>6 DEF Sound
<1>3. CASE ~(tcp_fin_time(s) > TCP_TIMEWAIT_LEN)
    BY <1>1, <1>3, DoneIs, ClosedSound DEF OrphanInFinWait2
<1> QED
    BY <1>2, <1>3

LEMMA CloseSound ==
    ASSUME NEW s, Sound(s)
    PROVE  Sound(tcp_close(s))
<1> DEFINE fin == SendFin(s)
           orphan == [fin EXCEPT !.dead = TRUE]
<1>1. Sound(fin)
    BY SendFinSound
<1> HIDE DEF fin
<1>2. /\ orphan \in Sock /\ orphan.dead /\ orphan.state = fin.state
      /\ orphan.fastopen = fin.fastopen /\ orphan.deferred = fin.deferred
      /\ orphan.packets_out = fin.packets_out
      /\ orphan.send_head = fin.send_head
      /\ orphan.pending = fin.pending /\ orphan.wtimer = fin.wtimer
      /\ orphan.timeout = fin.timeout /\ orphan.probes_out = fin.probes_out
      /\ orphan.silence = fin.silence /\ orphan.ktimer = fin.ktimer
    BY <1>1 DEF Sound, Sock
<1>3. tcp_close(s) =
         IF s.state = "SYN_SENT" THEN tcp_done(tcp_write_queue_purge(orphan))
         ELSE IF s.state = "FIN_WAIT2" THEN OrphanInFinWait2(orphan)
         ELSE orphan
    BY DEF tcp_close, fin
<1>4. s.state = "FIN_WAIT2" => fin.state = "FIN_WAIT2"
    BY DEF fin, SendFin
<1> HIDE DEF orphan
<1>5. Sound(orphan)
  <2>1. Running(orphan) /\ Purpose(orphan) /\ Owing(orphan)
      BY <1>1, <1>2 DEF Sound, Running, Purpose, Owing
  <2>2. Quiet(orphan)
      BY <1>1, <1>2 DEF Sound, Quiet
  <2> QED
      BY <1>2, <2>1, <2>2 DEF Sound
<1>6. Sound(tcp_done(tcp_write_queue_purge(orphan)))
  <2>1. tcp_write_queue_purge(orphan) \in Sock
      BY <1>2 DEF tcp_write_queue_purge, Sock
  <2> QED
      BY <2>1, DoneIs, ClosedSound
<1>7. s.state = "FIN_WAIT2" => Sound(OrphanInFinWait2(orphan))
    BY <1>2, <1>4, <1>5, OrphanSound
<1> QED
    BY <1>3, <1>5, <1>6, <1>7

(* A call that leaves alone what the write timer works on.                 *)
Like(s, t) ==
    /\ t.state = s.state /\ t.dead = s.dead /\ t.fastopen = s.fastopen
    /\ t.packets_out = s.packets_out /\ t.send_head = s.send_head
    /\ t.pending = s.pending /\ t.timeout = s.timeout
    /\ t.wtimer = s.wtimer /\ t.deferred = s.deferred

LEMMA LikeSound ==
    ASSUME NEW s, Running(s), Purpose(s), Owing(s),
           NEW t \in Sock, Like(s, t), Quiet(t)
    PROVE  Sound(t)
    BY DEF Sound, Running, Purpose, Owing, Like

LEMMA QuietIs ==
    ASSUME NEW s, Sound(s), NEW t \in Sock, Like(s, t),
           t.probes_out = s.probes_out, t.silence = s.silence,
           \/ t.ktimer = s.ktimer
           \/ t.ktimer = None
           \/ t.ktimer >= Shorter
    PROVE  Sound(t)
<1>1. s \in Sock /\ Running(s) /\ Purpose(s) /\ Owing(s) /\ Quiet(s)
    BY DEF Sound
<1> DEFINE p == s.probes_out - 1
<1>2. SUFFICES ASSUME t.packets_out = 0, ~t.send_head, t.probes_out > 0,
                      t.state # "CLOSE",
                      ~(t.dead /\ t.state = "FIN_WAIT2")
               PROVE  /\ t.silence >= Enough(t.probes_out - 1)
                      /\ t.ktimer # None =>
                             t.silence + t.ktimer >= Enough(t.probes_out)
    BY <1>1, LikeSound DEF Quiet
<1>3. s.probes_out \in Nat /\ s.silence \in Nat /\ t.ktimer \in Int
    BY <1>1 DEF Sock, Timer
<1>4. p \in Nat /\ s.probes_out = p + 1
    BY <1>2, <1>3
<1>5. /\ s.silence >= Enough(p)
      /\ s.ktimer # None => s.silence + s.ktimer >= Enough(p + 1)
    BY <1>1, <1>2, <1>4 DEF Quiet, Like
<1> HIDE DEF p
<1>6. /\ Enough(p) \in Nat /\ Enough(p + 1) \in Nat
      /\ Enough(p + 1) <= Enough(p) + Shorter
  <2>1. p + 1 \in Nat
      BY <1>4
  <2> QED
      BY <1>4, <2>1, EnoughIs
<1>7. t.ktimer # None => t.silence + t.ktimer >= Enough(p + 1)
    BY <1>3, <1>5, <1>6, ShorterIs
<1> QED
    BY <1>4, <1>5, <1>7 DEF p

LEMMA KeepaliveOptionSound ==
    ASSUME NEW s, Sound(s), NEW val \in BOOLEAN
    PROVE  Sound([tcp_set_keepalive(s, val) EXCEPT !.keepopen = val])
<1> DEFINE set == tcp_set_keepalive(s, val)
           t == [set EXCEPT !.keepopen = val]
<1>1. s \in Sock
    BY DEF Sound
<1>2. set \in {s, [s EXCEPT !.ktimer = KeepaliveTime], [s EXCEPT !.ktimer = None]}
    BY DEF tcp_set_keepalive
<1>3. /\ set \in Sock /\ Like(s, set)
      /\ set.probes_out = s.probes_out /\ set.silence = s.silence
      /\ set.ktimer \in {s.ktimer, KeepaliveTime, None}
  <2> HIDE DEF set
  <2> QED
      BY <1>1, <1>2 DEF Sock, Timer, Like
<1> HIDE DEF set
<1>4. /\ t \in Sock /\ Like(s, t)
      /\ t.probes_out = s.probes_out /\ t.silence = s.silence
      /\ t.ktimer \in {s.ktimer, KeepaliveTime, None}
    BY <1>3 DEF Sock, Like
<1> HIDE DEF t
<1>5. Sound(t)
    BY <1>4, QuietIs, ShorterIs
<1> QED
    BY <1>5 DEF t, set

LEMMA UserTimeoutSound ==
    ASSUME NEW s, Sound(s), NEW n \in UserTimeouts
    PROVE  Sound([s EXCEPT !.user_timeout = n])
<1> DEFINE t == [s EXCEPT !.user_timeout = n]
<1>1. /\ t \in Sock /\ Like(s, t) /\ t.probes_out = s.probes_out
      /\ t.silence = s.silence /\ t.ktimer = s.ktimer
    BY DEF Sound, Sock, Like
<1> HIDE DEF t
<1>2. Sound(t)
    BY <1>1, QuietIs
<1> QED
    BY <1>2 DEF t

(***************************************************************************)
(* The peer.                                                               *)
(***************************************************************************)
LEMMA RearmSendable ==
    ASSUME NEW s \in Sock, ~s.fastopen, s.state # "CLOSE"
    PROVE  LET t == tcp_rearm_rto(s)
           IN  Sendable(t) /\ Same(s, t)
<1> DEFINE t == tcp_rearm_rto(s)
<1>1. /\ t \in Sock /\ Same(s, t)
      /\ s.packets_out = 0 => t.pending = "none"
      /\ s.packets_out # 0 => ArmedFor(t, "retrans")
    BY RearmIs
<1> HIDE DEF t
<1>2. s.packets_out \in Nat
    BY DEF Sock
<1>3. Running(t)
    BY <1>1 DEF Running, ArmedFor, Sock
<1>4. Purpose(t)
    BY <1>1, <1>2 DEF Purpose, Same, ArmedFor
<1> QED
    BY <1>1, <1>2, <1>3, <1>4 DEF Sendable, Same, ArmedFor, t

(* The child that forgets its request socket.                              *)
LEMMA ChildType ==
    ASSUME NEW s \in Sock, NEW state \in States
    PROVE  LET t == [s EXCEPT !.fastopen = FALSE, !.retransmits = 0,
                              !.num_timeout = 0, !.retrans_stamp = None,
                              !.state = state]
           IN  /\ t \in Sock /\ ~t.fastopen /\ t.state = state
               /\ t.packets_out = s.packets_out
               /\ t.probes_out = s.probes_out
    BY DEF Sock, Timer

LEMMA ConnectedIs ==
    ASSUME NEW s \in Sock, Running(s), Purpose(s), Owing(s),
           s.state # "CLOSE", s.probes_out = 0
    PROVE  LET t == Connected(s)
           IN  /\ Sendable(t) /\ ~t.fastopen
               /\ t.probes_out = 0 /\ t.packets_out = s.packets_out
<1> DEFINE t == Connected(s)
<1>1. CASE s.state = "SYN_SENT"
  <2> DEFINE k == IF s.keepopen THEN KeepaliveTime ELSE s.ktimer
  <2>0. ~s.fastopen
      BY <1>1 DEF Purpose
  <2>1. t = [s EXCEPT !.state = "ESTABLISHED", !.ktimer = k]
      BY <1>1, <2>0 DEF Connected
  <2>2. k \in Timer
      BY DEF Sock, Timer
  <2> HIDE DEF t, k
  <2>3. /\ t \in Sock /\ t.state = "ESTABLISHED"
        /\ t.fastopen = s.fastopen /\ t.deferred = s.deferred
        /\ t.packets_out = s.packets_out /\ t.send_head = s.send_head
        /\ t.pending = s.pending /\ t.timeout = s.timeout
        /\ t.wtimer = s.wtimer /\ t.probes_out = s.probes_out
      BY <2>1, <2>2 DEF Sock, States
  <2>4. Running(t) /\ Purpose(t) /\ ~t.fastopen
      BY <1>1, <2>3 DEF Running, Purpose
  <2>5. t.packets_out > 0 => t.pending # "none"
      BY <2>3 DEF Owing
  <2> QED
      BY <2>3, <2>4, <2>5 DEF Sendable, t
<1>2. CASE s.state # "SYN_SENT" /\ s.fastopen
  <2> DEFINE state == IF s.state = "SYN_RECV" THEN "ESTABLISHED" ELSE s.state
             free == [s EXCEPT !.fastopen = FALSE, !.retransmits = 0,
                               !.num_timeout = 0, !.retrans_stamp = None,
                               !.state = state]
  <2>1. t = tcp_rearm_rto(free)
      BY <1>2 DEF Connected
  <2>2. state \in States /\ state # "CLOSE"
      BY DEF Sock, States
  <2> HIDE DEF t, state
  <2>3. /\ free \in Sock /\ ~free.fastopen /\ free.state = state
        /\ free.packets_out = s.packets_out /\ free.probes_out = s.probes_out
      BY <2>2, ChildType
  <2> HIDE DEF free
  <2>4. Sendable(t) /\ Same(free, t)
      BY <2>1, <2>2, <2>3, RearmSendable
  <2> QED
      BY <2>3, <2>4 DEF Same, t
<1>3. CASE s.state # "SYN_SENT" /\ ~s.fastopen
  <2>1. t = s
      BY <1>3 DEF Connected
  <2> HIDE DEF t
  <2>2. s.packets_out > 0 => s.pending # "none"
      BY DEF Owing
  <2> QED
      BY <1>3, <2>1, <2>2 DEF Sendable, t
<1>4. s.fastopen \in BOOLEAN
    BY DEF Sock
<1> QED
    BY <1>1, <1>2, <1>3, <1>4

LEMMA AckProbeIs ==
    ASSUME NEW s, Sendable(s), ~s.fastopen, s.packets_out = 0
    PROVE  LET t == tcp_ack_probe(s)
           IN  Sendable(t) /\ t.probes_out = s.probes_out
<1> DEFINE t == tcp_ack_probe(s)
           calm == [s EXCEPT !.backoff = 0]
<1>1. s \in Sock
    BY DEF Sendable
<1>2. CASE ~s.send_head
    BY <1>2 DEF tcp_ack_probe
<1>3. CASE s.send_head /\ s.snd_wnd > 0
  <2>1. t = Disarm(calm)
      BY <1>3 DEF tcp_ack_probe
  <2>2. calm \in Sock /\ Same(s, calm)
      BY <1>1 DEF Sock, Same
  <2> HIDE DEF t, calm
  <2>3. t \in Sock /\ Same(s, t) /\ t.pending = "none"
      BY <2>1, <2>2, DisarmIs, SameIs
  <2>4. Running(t) /\ Purpose(t)
      BY <2>3 DEF Running, Purpose, Same
  <2> QED
      BY <2>3, <2>4 DEF Sendable, Same, t
<1>4. CASE s.send_head /\ ~(s.snd_wnd > 0)
  <2>1. t = Arm(s, "probe0", tcp_probe0_when(s))
      BY <1>4 DEF tcp_ack_probe
  <2> HIDE DEF t
  <2>2. t \in Sock /\ Same(s, t) /\ ArmedFor(t, "probe0")
      BY <1>1, <2>1, ProbeBase, ArmIs
  <2>3. Running(t)
      BY <2>2 DEF Running, ArmedFor, Sock
  <2>4. Purpose(t)
      BY <1>4, <2>2 DEF Purpose, Same, ArmedFor, Sendable
  <2> QED
      BY <2>2, <2>3, <2>4 DEF Sendable, Same, t
<1> QED
    BY <1>2, <1>3, <1>4

LEMMA AckedIs ==
    ASSUME NEW s, Sendable(s), ~s.fastopen, NEW n \in 0 .. s.packets_out,
           NEW sampled \in BOOLEAN, NEW cleared \in BOOLEAN,
           NEW set_rto \in Rtos
    PROVE  LET t == Acked(s, n, sampled, cleared, set_rto)
           IN  Sendable(t) /\ t.probes_out = s.probes_out
<1> DEFINE left == s.packets_out - n
           stamp == IF cleared \/ n = s.packets_out THEN None
                    ELSE s.retrans_stamp
           acked == [s EXCEPT !.packets_out = left, !.retransmits = 0,
                              !.retrans_stamp = stamp]
           timed == IF sampled THEN [acked EXCEPT !.rto = set_rto, !.backoff = 0]
                    ELSE acked
<1>1. s \in Sock /\ s.state # "CLOSE"
    BY DEF Sendable
<1>2. left \in Nat /\ stamp \in Timer
  <2>1. s.packets_out \in Nat /\ s.retrans_stamp \in Timer
      BY <1>1 DEF Sock
  <2> QED
      BY <2>1 DEF Timer
<1>3. Acked(s, n, sampled, cleared, set_rto) = tcp_rearm_rto(timed)
    BY DEF Acked
<1>4. /\ acked \in Sock /\ ~acked.fastopen /\ acked.state # "CLOSE"
      /\ acked.probes_out = s.probes_out
  <2> HIDE DEF left, stamp
  <2> QED
      BY <1>1, <1>2 DEF Sock
<1> HIDE DEF acked
<1>5. /\ timed \in Sock /\ ~timed.fastopen /\ timed.state # "CLOSE"
      /\ timed.probes_out = s.probes_out
  <2>1. set_rto \in Positive
      OBVIOUS
  <2> QED
      BY <1>4, <2>1 DEF Sock
<1> HIDE DEF timed
<1>6. /\ Sendable(tcp_rearm_rto(timed))
      /\ Same(timed, tcp_rearm_rto(timed))
    BY <1>5, RearmSendable
<1> QED
    BY <1>3, <1>5, <1>6 DEF Same

LEMMA FinAckedSound ==
    ASSUME NEW s, Sound(s), s.probes_out = 0
    PROVE  Sound(FinAcked(s))
<1> DEFINE t == [s EXCEPT !.state = "FIN_WAIT2"]
<1>1. CASE s.state = "FIN_WAIT1" /\ s.packets_out = 0 /\ ~s.send_head
  <2>1. /\ t \in Sock /\ t.state = "FIN_WAIT2" /\ t.dead = s.dead
        /\ t.fastopen = s.fastopen /\ t.deferred = s.deferred
        /\ t.packets_out = s.packets_out /\ t.send_head = s.send_head
        /\ t.pending = s.pending /\ t.timeout = s.timeout
        /\ t.wtimer = s.wtimer /\ t.probes_out = 0
      BY DEF Sound, Sock, States
  <2>2. FinAcked(s) = IF s.dead THEN OrphanInFinWait2(t) ELSE t
      BY <1>1 DEF FinAcked
  <2> HIDE DEF t
  <2>3. Running(t) /\ Purpose(t) /\ Owing(t)
      BY <1>1, <2>1 DEF Sound, Running, Purpose, Owing
  <2>4. Quiet(t)
      BY <2>1 DEF Quiet
  <2>5. Sound(t)
      BY <2>1, <2>3, <2>4 DEF Sound
  <2> QED
      BY <2>1, <2>2, <2>5, OrphanSound
<1>2. CASE ~(s.state = "FIN_WAIT1" /\ s.packets_out = 0 /\ ~s.send_head)
    BY <1>2 DEF FinAcked
<1> QED
    BY <1>1, <1>2

LEMMA ReceivedSound ==
    ASSUME NEW s, Sound(s), s.state # "CLOSE",
           NEW n \in 0 .. s.packets_out, NEW wnd \in {0, 1},
           NEW sampled \in BOOLEAN, NEW cleared \in BOOLEAN,
           NEW set_rto \in Rtos
    PROVE  Sound(Received(s, n, wnd, sampled, cleared, set_rto))
<1> DEFINE heard == [Heard(s) EXCEPT !.snd_wnd = wnd]
           open == Connected(heard)
           acked == IF s.packets_out = 0 THEN tcp_ack_probe(open)
                    ELSE IF n > 0
                    THEN Acked(open, n, sampled, cleared, set_rto)
                    ELSE open
           pushed == tcp_push_pending_frames(acked, "retrans")
<1>1. Received(s, n, wnd, sampled, cleared, set_rto) = FinAcked(pushed)
    BY DEF Received
<1>2. heard \in Sock /\ Like(s, heard) /\ heard.probes_out = 0
    BY DEF Heard, Sound, Sock, Like
<1> HIDE DEF heard
<1>3. /\ Running(heard) /\ Purpose(heard) /\ Owing(heard)
      /\ heard.state # "CLOSE" /\ heard.packets_out = s.packets_out
  <2>1. Quiet(heard)
      BY <1>2 DEF Quiet
  <2>2. Sound(heard)
      BY <1>2, <2>1, LikeSound DEF Sound
  <2> QED
      BY <1>2, <2>2 DEF Sound, Like
<1>4. /\ Sendable(open) /\ ~open.fastopen
      /\ open.probes_out = 0 /\ open.packets_out = s.packets_out
    BY <1>2, <1>3, ConnectedIs
<1> HIDE DEF open
<1>5. Sendable(acked) /\ acked.probes_out = 0
  <2>1. CASE s.packets_out = 0
      BY <1>4, <2>1, AckProbeIs
  <2>2. CASE s.packets_out # 0 /\ n > 0
    <3>1. n \in 0 .. open.packets_out
        BY <1>4
    <3>2. LET t == Acked(open, n, sampled, cleared, set_rto)
          IN  Sendable(t) /\ t.probes_out = open.probes_out
        BY <1>4, <3>1, AckedIs
    <3> QED
        BY <1>4, <2>2, <3>2
  <2>3. CASE s.packets_out # 0 /\ ~(n > 0)
      BY <1>4, <2>3
  <2> QED
      BY <2>1, <2>2, <2>3
<1> HIDE DEF acked
<1>6. Quiet(acked)
    BY <1>5 DEF Quiet
<1>7. Sound(pushed) /\ pushed.probes_out = 0
    BY <1>5, <1>6, PushSound
<1> HIDE DEF pushed
<1> QED
    BY <1>1, <1>7, FinAckedSound

(***************************************************************************)
(* The keepalive timer, when it fires.                                     *)
(***************************************************************************)
Spent(s) ==
    /\ s.packets_out = 0 /\ ~s.send_head /\ s.probes_out > 0
    /\ s.state # "CLOSE" /\ ~(s.dead /\ s.state = "FIN_WAIT2")
    => s.silence >= Enough(s.probes_out)

LEMMA FiredIs ==
    ASSUME NEW s, Sound(s), s.ktimer = 0
    PROVE  LET t == [s EXCEPT !.ktimer = None]
           IN  /\ Sound(t) /\ Spent(t) /\ Like(s, t)
               /\ t.probes_out = s.probes_out /\ t.silence = s.silence
               /\ t.user_timeout = s.user_timeout /\ t.err = s.err
<1> DEFINE t == [s EXCEPT !.ktimer = None]
<1>1. /\ t \in Sock /\ Like(s, t) /\ t.ktimer = None
      /\ t.probes_out = s.probes_out /\ t.silence = s.silence
      /\ t.user_timeout = s.user_timeout /\ t.err = s.err
    BY DEF Sound, Sock, Timer, Like
<1> HIDE DEF t
<1>2. Sound(t)
    BY <1>1, QuietIs
<1>3. s.silence \in Nat
    BY DEF Sound, Sock
<1>4. Spent(t)
    BY <1>1, <1>3 DEF Sound, Quiet, Spent, Like
<1> QED
    BY <1>1, <1>2, <1>4 DEF t

LEMMA SpentSound ==
    ASSUME NEW s, Sound(s), Spent(s), NEW t \in Sock, Like(s, t),
           t.probes_out = s.probes_out, t.silence = s.silence
    PROVE  Sound(t)
<1>1. Running(s) /\ Purpose(s) /\ Owing(s) /\ s.probes_out \in Nat
    BY DEF Sound, Sock
<1> DEFINE p == s.probes_out - 1
<1>2. SUFFICES ASSUME t.packets_out = 0, ~t.send_head, t.probes_out > 0,
                      t.state # "CLOSE",
                      ~(t.dead /\ t.state = "FIN_WAIT2")
               PROVE  /\ t.silence >= Enough(t.probes_out - 1)
                      /\ t.ktimer # None =>
                             t.silence + t.ktimer >= Enough(t.probes_out)
    BY <1>1, LikeSound DEF Quiet
<1>3. p \in Nat /\ s.probes_out = p + 1 /\ p + 1 \in Nat
    BY <1>1, <1>2
<1>4. s.silence >= Enough(p + 1)
    BY <1>2, <1>3 DEF Spent, Like
<1> HIDE DEF p
<1>5. Enough(p) \in Nat /\ Enough(p + 1) \in Nat /\ Enough(p) <= Enough(p + 1)
    BY <1>3, EnoughIs
<1>6. t.silence \in Nat /\ t.ktimer \in Timer
    BY DEF Sock
<1>7. t.silence >= Enough(p)
    BY <1>4, <1>5, <1>6
<1>8. t.ktimer # None => t.silence + t.ktimer >= Enough(p + 1)
    BY <1>4, <1>5, <1>6 DEF Timer
<1> QED
    BY <1>3, <1>7, <1>8 DEF p

LEMMA ProbedSound ==
    ASSUME NEW s, Sound(s), Spent(s), s.silence >= KeepaliveTime
    PROVE  Sound(KeepaliveProbe(s, TRUE))
<1> DEFINE p == s.probes_out
           n == p + 1
           t == [s EXCEPT !.probes_out = n, !.ktimer = KeepaliveIntvl]
<1>1. s \in Sock /\ p \in Nat /\ s.silence \in Nat
    BY DEF Sound, Sock
<1>2. n \in Nat /\ n > 0 /\ n - 1 = p
    BY <1>1
<1>3. KeepaliveProbe(s, TRUE) = t
    BY DEF KeepaliveProbe
<1> HIDE DEF n
<1>4. /\ t \in Sock /\ Like(s, t) /\ t.probes_out = n
      /\ t.silence = s.silence /\ t.ktimer = KeepaliveIntvl
    BY <1>1, <1>2 DEF Sock, Timer, Like
<1> HIDE DEF t
<1>5. ASSUME t.packets_out = 0, ~t.send_head, t.state # "CLOSE",
             ~(t.dead /\ t.state = "FIN_WAIT2")
      PROVE  s.silence >= Enough(p)
  <2>1. CASE p = 0
      BY <2>1, EnoughIs
  <2>2. CASE p > 0
      BY <1>4, <1>5, <2>2 DEF Spent, Like
  <2> QED
      BY <1>1, <2>1, <2>2
<1>6. /\ Enough(p) \in Nat /\ Enough(n) \in Nat
      /\ Enough(n) <= Enough(p) + Shorter
    BY <1>1, <1>2, EnoughIs DEF n
<1>7. s.silence >= Enough(p) => s.silence + KeepaliveIntvl >= Enough(n)
    BY <1>1, <1>6, ShorterIs
<1>8. Quiet(t)
    BY <1>2, <1>4, <1>5, <1>7 DEF Quiet
<1>9. Sound(t)
    BY <1>4, <1>8, LikeSound DEF Sound
<1> QED
    BY <1>3, <1>9

LEMMA KeepaliveTimerSound ==
    ASSUME NEW s, Sound(s), Spent(s), NEW sent \in BOOLEAN
    PROVE  Sound(tcp_keepalive_timer(s, sent))
<1> DEFINE Wait(n) == [s EXCEPT !.ktimer = n]
           t == tcp_keepalive_timer(s, sent)
<1>1. s \in Sock /\ s.silence \in Nat
    BY DEF Sound, Sock
<1>2. ASSUME NEW n \in Nat PROVE Sound(Wait(n))
  <2> DEFINE w == Wait(n)
  <2>1. /\ w \in Sock /\ Like(s, w)
        /\ w.probes_out = s.probes_out /\ w.silence = s.silence
      BY <1>1, <1>2 DEF Sock, Timer, Like
  <2> HIDE DEF w
  <2>2. Sound(w)
      BY <2>1, SpentSound
  <2> QED
      BY <2>2 DEF w
<1>3. Sound(tcp_done(s)) /\ Sound(tcp_write_err(s))
    BY <1>1, DoneIs, WriteErrIs, ClosedSound
<1>4. \/ t \in {s, tcp_done(s), tcp_write_err(s)}
      \/ t \in {Wait(RetryLocked), Wait(KeepaliveTime),
                Wait(TCP_RESOURCE_PROBE_INTERVAL)}
      \/ (s.silence < KeepaliveTime /\ t = Wait(KeepaliveTime - s.silence))
      \/ (~(s.silence < KeepaliveTime) /\ t = KeepaliveProbe(s, TRUE))
    BY DEF tcp_keepalive_timer, KeepaliveProbe
<1>5. CASE t \in {s, tcp_done(s), tcp_write_err(s)}
  <2> HIDE DEF t
  <2> QED
      BY <1>3, <1>5 DEF t
<1>6. CASE t \in {Wait(RetryLocked), Wait(KeepaliveTime),
                  Wait(TCP_RESOURCE_PROBE_INTERVAL)}
  <2>1. /\ Sound(Wait(RetryLocked)) /\ Sound(Wait(KeepaliveTime))
        /\ Sound(Wait(TCP_RESOURCE_PROBE_INTERVAL))
      BY <1>2
  <2> HIDE DEF t, Wait
  <2> QED
      BY <1>6, <2>1 DEF t
<1>7. CASE s.silence < KeepaliveTime /\ t = Wait(KeepaliveTime - s.silence)
  <2>1. KeepaliveTime - s.silence \in Nat
      BY <1>1, <1>7
  <2>2. Sound(Wait(KeepaliveTime - s.silence))
      BY <1>2, <2>1
  <2> HIDE DEF t, Wait
  <2> QED
      BY <1>7, <2>2 DEF t
<1>8. CASE ~(s.silence < KeepaliveTime) /\ t = KeepaliveProbe(s, TRUE)
  <2>1. s.silence >= KeepaliveTime
      BY <1>1, <1>8
  <2>2. Sound(KeepaliveProbe(s, TRUE))
      BY <2>1, ProbedSound
  <2> HIDE DEF t
  <2> QED
      BY <1>8, <2>2 DEF t
<1> QED
    BY <1>4, <1>5, <1>6, <1>7, <1>8

(***************************************************************************)
(* A tick.                                                                 *)
(***************************************************************************)
LEMMA CountdownIs ==
    ASSUME NEW n \in Timer
    PROVE  /\ Countdown(n) \in Timer
           /\ n \in Nat => Countdown(n) \in Nat
           /\ n = None => Countdown(n) = None
           /\ n # None /\ n # 0 => Countdown(n) = n - 1 /\ n - 1 \in Nat
           /\ n = 0 => Countdown(n) = 0
           /\ Older(n) \in Timer
<1>1. n # None => Lesser(n + 1, MaxAge) \in Nat
    BY LesserIs DEF Timer
<1> QED
    BY <1>1 DEF Countdown, Older, Timer

LEMMA TickSound ==
    ASSUME Sound(sk), Tick
    PROVE  Sound(sk')
<1> DEFINE timeout == Countdown(sk.timeout)
           wtimer == Countdown(sk.wtimer)
           ktimer == Countdown(sk.ktimer)
           silence == Lesser(sk.silence + 1, MaxSilence)
           stamp == Older(sk.retrans_stamp)
           t == [sk EXCEPT !.timeout = timeout, !.wtimer = wtimer,
                           !.ktimer = ktimer, !.silence = silence,
                           !.retrans_stamp = stamp]
<1>1. /\ sk \in Sock /\ Running(sk) /\ Purpose(sk) /\ Owing(sk) /\ Quiet(sk)
      /\ sk.timeout \in Nat /\ sk.wtimer \in Timer /\ sk.ktimer \in Timer
      /\ sk.silence \in Nat /\ sk.retrans_stamp \in Timer
      /\ sk.probes_out \in Nat
    BY DEF Sound, Sock
<1>2. sk.wtimer # 0 /\ sk.ktimer # 0 /\ sk' = t
    BY DEF Tick
<1>3. timeout \in Nat /\ wtimer \in Timer /\ ktimer \in Timer /\ stamp \in Timer
  <2>1. sk.timeout \in Timer
      BY <1>1 DEF Timer
  <2> QED
      BY <1>1, <2>1, CountdownIs
<1>4. silence \in {sk.silence + 1, MaxSilence}
    BY <1>1, LesserIs
<1>5. silence \in Nat
    BY <1>1, <1>4
<1>6. /\ sk.wtimer = None => wtimer = None
      /\ sk.wtimer # None => wtimer # None /\ wtimer = sk.wtimer - 1
      /\ sk.timeout > 0 => timeout = sk.timeout - 1
      /\ sk.timeout = 0 => timeout = 0
      /\ sk.ktimer = None => ktimer = None
      /\ sk.ktimer # None => ktimer = sk.ktimer - 1 /\ ktimer \in Nat
  <2>1. sk.timeout \in Timer
      BY <1>1 DEF Timer
  <2> QED
      BY <1>1, <1>2, <2>1, CountdownIs
<1> HIDE DEF timeout, wtimer, ktimer, silence, stamp
<1>7. /\ t \in Sock /\ t.state = sk.state /\ t.dead = sk.dead
      /\ t.fastopen = sk.fastopen /\ t.deferred = sk.deferred
      /\ t.packets_out = sk.packets_out /\ t.send_head = sk.send_head
      /\ t.pending = sk.pending /\ t.probes_out = sk.probes_out
      /\ t.timeout = timeout /\ t.wtimer = wtimer /\ t.ktimer = ktimer
      /\ t.silence = silence
  <2>1. t \in Sock
      BY <1>1, <1>3, <1>5 DEF Sock
  <2> QED
      BY <1>1, <2>1 DEF Sock
<1> HIDE DEF t
<1>8. Running(t)
    BY <1>1, <1>6, <1>7 DEF Running
<1>9. Purpose(t) /\ Owing(t)
    BY <1>1, <1>7 DEF Purpose, Owing
<1>10. Quiet(t)
  <2> DEFINE p == sk.probes_out - 1
  <2>1. SUFFICES ASSUME t.packets_out = 0, ~t.send_head, t.probes_out > 0,
                        t.state # "CLOSE",
                        ~(t.dead /\ t.state = "FIN_WAIT2")
                 PROVE  /\ silence >= Enough(p)
                        /\ ktimer # None =>
                               silence + ktimer >= Enough(sk.probes_out)
      BY <1>7 DEF Quiet
  <2>2. p \in Nat
      BY <1>1, <1>7, <2>1
  <2>3. /\ sk.silence >= Enough(p)
        /\ sk.ktimer # None => sk.silence + sk.ktimer >= Enough(sk.probes_out)
      BY <1>1, <1>7, <2>1 DEF Quiet
  <2> HIDE DEF p
  <2>4. /\ Enough(p) \in Nat /\ Enough(p) <= MaxSilence
        /\ Enough(sk.probes_out) \in Nat /\ Enough(sk.probes_out) <= MaxSilence
      BY <1>1, <2>2, EnoughIs
  <2>5. silence >= Enough(p)
      BY <1>1, <1>4, <2>3, <2>4
  <2>6. ASSUME ktimer # None PROVE silence + ktimer >= Enough(sk.probes_out)
    <3>1. sk.ktimer # None /\ ktimer = sk.ktimer - 1 /\ ktimer \in Nat
        BY <1>6, <2>6
    <3>2. sk.silence + sk.ktimer >= Enough(sk.probes_out) /\ sk.ktimer \in Int
        BY <1>1, <2>3, <3>1 DEF Timer
    <3> QED
        BY <1>1, <1>4, <2>4, <3>1, <3>2
  <2> QED
      BY <2>5, <2>6
<1> QED
    BY <1>2, <1>7, <1>8, <1>9, <1>10 DEF Sound

(***************************************************************************)
(* Every behaviour.                                                        *)
(***************************************************************************)
LEMMA InitSound == Init => IInv
<1> SUFFICES ASSUME Init PROVE IInv
    OBVIOUS
<1> DEFINE client == [Idle EXCEPT !.state = "SYN_SENT", !.packets_out = 1]
           child == [Idle EXCEPT !.state = "SYN_RECV", !.fastopen = TRUE]
           Ready(s) == /\ s \in Sock /\ s.state # "CLOSE" /\ s.probes_out = 0
                       /\ s.packets_out > 0 \/ s.fastopen
                       /\ s.fastopen => s.state # "SYN_SENT"
<1> DEFINE rto == Lesser(TCP_TIMEOUT_INIT, TCP_RTO_MAX)
<1>1. rto \in Positive
  <2>1. \A n \in Positive : Lesser(n, TCP_RTO_MAX) \in Positive
      BY LesserIs
  <2> QED
      BY <2>1
<1>2. Idle \in Sock
    BY <1>1 DEF Idle, Sock, States, Timer
<1>3. Ready(client)
  <2>1. client \in Sock
      BY <1>2 DEF Sock, States
  <2>2. /\ client.state = "SYN_SENT" /\ client.packets_out = 1
        /\ client.probes_out = Idle.probes_out
        /\ client.fastopen = Idle.fastopen
      BY <1>2 DEF Sock
  <2>3. Idle.probes_out = 0 /\ Idle.fastopen = FALSE
      BY DEF Idle
  <2> HIDE DEF client
  <2> QED
      BY <2>1, <2>2, <2>3
<1>4. Ready(child)
  <2>1. child \in Sock
      BY <1>2 DEF Sock, States
  <2>2. /\ child.state = "SYN_RECV" /\ child.fastopen = TRUE
        /\ child.probes_out = Idle.probes_out
      BY <1>2 DEF Sock
  <2>3. Idle.probes_out = 0
      BY DEF Idle
  <2> HIDE DEF child
  <2> QED
      BY <2>1, <2>2, <2>3
<1>5. sk \in {Arm(client, "retrans", TCP_TIMEOUT_INIT),
              Arm(child, "retrans", TCP_TIMEOUT_INIT)}
    BY DEF Init
<1> HIDE DEF client, child
<1>6. ASSUME NEW s, Ready(s)
      PROVE  Sound(Arm(s, "retrans", TCP_TIMEOUT_INIT))
  <2> DEFINE t == Arm(s, "retrans", TCP_TIMEOUT_INIT)
  <2>1. t \in Sock /\ Same(s, t) /\ ArmedFor(t, "retrans")
      BY <1>6, ArmIs
  <2> HIDE DEF t
  <2>2. Running(t)
      BY <2>1 DEF Running, ArmedFor, Sock
  <2>3. Purpose(t) /\ Owing(t) /\ Quiet(t)
      BY <1>6, <2>1 DEF Purpose, Owing, Quiet, Same, ArmedFor
  <2> QED
      BY <2>1, <2>2, <2>3 DEF Sound, t
<1>7. Sound(sk)
    BY <1>3, <1>4, <1>5, <1>6
<1> QED
    BY <1>7 DEF IInv, Init

LEMMA NextSound == IInv /\ [Next]_vars => IInv'
<1> SUFFICES ASSUME IInv, [Next]_vars PROVE IInv'
    OBVIOUS
<1>1. /\ Sound(sk) /\ sk \in Sock /\ answers \in BOOLEAN
      /\ peer \in {"there", "gone"}
      /\ Running(sk) /\ Purpose(sk) /\ Owing(sk) /\ Quiet(sk)
    BY DEF IInv, Sound
<1>2. peer' \in {"there", "gone"}
    BY <1>1 DEF Next, vars, Tick, WriteTimer, KeepaliveTimer, Lock, Release,
               Send, SetUserTimeout, SetKeepalive, Shutdown, Close, Ack,
               PeerDies
<1> SUFFICES Sound(sk') /\ answers' \in BOOLEAN
    BY <1>2 DEF IInv
<1>3. CASE Tick
    BY <1>1, <1>3, TickSound DEF Tick
<1>4. CASE WriteTimer
  <2> DEFINE fired == [sk EXCEPT !.wtimer = None]
             later == [fired EXCEPT !.deferred = TRUE]
  <2>1. /\ fired \in Sock /\ fired.state = sk.state /\ fired.dead = sk.dead
        /\ fired.fastopen = sk.fastopen /\ fired.pending = sk.pending
        /\ fired.packets_out = sk.packets_out
        /\ fired.send_head = sk.send_head
        /\ fired.probes_out = sk.probes_out /\ fired.silence = sk.silence
        /\ fired.ktimer = sk.ktimer /\ fired.timeout = sk.timeout
      BY <1>1 DEF Sock, Timer
  <2>2. /\ sk.wtimer = 0
        /\ IF sk.owned THEN sk' = later /\ UNCHANGED answers ELSE Handle(fired)
      BY <1>4 DEF WriteTimer
  <2> HIDE DEF fired
  <2>3. Purpose(fired) /\ Owing(fired) /\ Quiet(fired)
      BY <1>1, <2>1 DEF Purpose, Owing, Quiet
  <2>4. CASE sk.owned
    <3>1. /\ later \in Sock /\ later.deferred
          /\ later.state = sk.state /\ later.dead = sk.dead
          /\ later.fastopen = sk.fastopen /\ later.pending = sk.pending
          /\ later.packets_out = sk.packets_out
          /\ later.send_head = sk.send_head
          /\ later.probes_out = sk.probes_out /\ later.silence = sk.silence
          /\ later.ktimer = sk.ktimer /\ later.timeout = sk.timeout
        BY <2>1 DEF Sock
    <3> HIDE DEF later
    <3>2. sk.timeout \in Nat
        BY <1>1 DEF Sock
    <3>3. Running(later)
        BY <1>1, <2>2, <3>1, <3>2 DEF Running
    <3>4. Purpose(later) /\ Owing(later) /\ Quiet(later)
        BY <1>1, <3>1 DEF Purpose, Owing, Quiet
    <3> QED
        BY <1>1, <2>2, <2>4, <3>1, <3>3, <3>4 DEF Sound
  <2>5. CASE ~sk.owned
      BY <1>1, <2>1, <2>2, <2>3, <2>5, HandleSound
  <2> QED
      BY <2>4, <2>5
<1>5. CASE KeepaliveTimer
  <2> DEFINE fired == [sk EXCEPT !.ktimer = None]
  <2>1. PICK sent \in BOOLEAN : sk' = tcp_keepalive_timer(fired, sent)
      BY <1>5 DEF KeepaliveTimer
  <2>2. sk.ktimer = 0 /\ answers' = (answers \/ sk'.probes_out > sk.probes_out)
      BY <1>5 DEF KeepaliveTimer
  <2>3. Sound(fired) /\ Spent(fired)
      BY <1>1, <2>2, FiredIs
  <2> HIDE DEF fired
  <2>4. Sound(sk')
      BY <2>1, <2>3, KeepaliveTimerSound
  <2>5. answers' \in BOOLEAN
      BY <2>2
  <2> QED
      BY <2>4, <2>5
<1>6. CASE Lock
  <2> DEFINE t == [sk EXCEPT !.owned = TRUE]
  <2>1. /\ t \in Sock /\ Like(sk, t) /\ t.probes_out = sk.probes_out
        /\ t.silence = sk.silence /\ t.ktimer = sk.ktimer
      BY <1>1 DEF Sock, Like
  <2>2. sk' = t /\ answers' = answers
      BY <1>6 DEF Lock
  <2> HIDE DEF t
  <2> QED
      BY <1>1, <2>1, <2>2, QuietIs
<1>7. CASE Release
    BY <1>1, <1>7, ReleaseSound DEF Release
<1>8. CASE Send
  <2> DEFINE queued == [sk EXCEPT !.state = sk.state, !.send_head = TRUE]
  <2>1. sk.state \in {"ESTABLISHED", "SYN_RECV"}
      BY <1>8 DEF Send
  <2>2. Sendable(queued) /\ queued.send_head
      BY <1>1, <2>1, QueueSendable DEF States
  <2>3. queued = [sk EXCEPT !.send_head = TRUE]
      BY <1>1 DEF Sock
  <2>4. PICK what \in {"retrans", "lossprobe"} :
            release_sock(tcp_push_pending_frames(queued, what))
      BY <1>8, <2>3 DEF Send
  <2> HIDE DEF queued
  <2>5. Sound(tcp_push_pending_frames(queued, what))
      BY <2>2, PushSound
  <2> QED
      BY <1>1, <2>4, <2>5, ReleaseSound
<1>9. CASE SetUserTimeout
    BY <1>1, <1>9, UserTimeoutSound, ReleaseSound DEF SetUserTimeout
<1>10. CASE SetKeepalive
    BY <1>1, <1>10, KeepaliveOptionSound, ReleaseSound DEF SetKeepalive
<1>11. CASE Shutdown
    BY <1>1, <1>11, SendFinSound, ReleaseSound DEF Shutdown
<1>12. CASE Close
    BY <1>1, <1>12, CloseSound, ReleaseSound DEF Close
<1>13. CASE Ack
  <2>1. /\ sk.state # "CLOSE" /\ answers' = (sk'.packets_out > 0)
        /\ \E n \in 0 .. sk.packets_out, wnd \in {0, 1},
              sampled \in BOOLEAN, cleared \in BOOLEAN, set_rto \in Rtos :
              sk' = Received(sk, n, wnd, sampled, cleared, set_rto)
      BY <1>13 DEF Ack
  <2>2. PICK n \in 0 .. sk.packets_out, wnd \in {0, 1},
              sampled \in BOOLEAN, cleared \in BOOLEAN, set_rto \in Rtos :
              sk' = Received(sk, n, wnd, sampled, cleared, set_rto)
      BY <2>1
  <2>3. Sound(Received(sk, n, wnd, sampled, cleared, set_rto))
      BY <1>1, <2>1, ReceivedSound
  <2> QED
      BY <2>1, <2>2, <2>3
<1>14. CASE PeerDies
    BY <1>1, <1>14 DEF PeerDies
<1>15. CASE UNCHANGED vars
    BY <1>1, <1>15 DEF vars
<1> QED
    BY <1>3, <1>4, <1>5, <1>6, <1>7, <1>8, <1>9, <1>10, <1>11, <1>12, <1>13,
       <1>14, <1>15 DEF Next

(* In every reachable state a pending event has its kernel timer or is     *)
(* owed by release_sock(), fits what there is to send, and is there as     *)
(* long as something is; the keepalive probes fit the silence.             *)
THEOREM Invariant == Spec => []IInv
<1> QED
    BY InitSound, NextSound, PTL DEF Spec

(* Every handler, in every order, leaves every field its type: no timer is *)
(* armed in the past, whatever the backoff and the user timeout.           *)
THEOREM TypeCorrect == Spec => []TypeOK
<1>1. IInv => TypeOK
    BY DEF IInv, Sound, TypeOK
<1> QED
    BY <1>1, Invariant, PTL

(* What is unacknowledged or waits for a window always has a timer to come *)
(* back to it, or a lock holder that owes the timer's work.                *)
THEOREM TimerArmedHolds == Spec => []TimerArmed
<1>1. IInv => TimerArmed
    BY DEF IInv, Sound, Owing, Running, TimerArmed
<1> QED
    BY <1>1, Invariant, PTL

(* The keepalive timer never ends a connection early.                      *)
THEOREM KeepaliveSilence == Spec => KeepaliveOnlyAfterSilence
<1> DEFINE After ==
      KeepaliveTimer /\ sk'.err /\ ~sk.err =>
           /\ sk.silence >= KeepaliveTime
           /\ sk.silence >= IF sk.user_timeout # 0 THEN sk.user_timeout
                            ELSE KeepaliveTime + KeepaliveProbes
                                     * Lesser(KeepaliveTime, KeepaliveIntvl)
<1>1. IInv => After
  <2> SUFFICES ASSUME IInv, KeepaliveTimer, sk'.err, ~sk.err PROVE After
      OBVIOUS
  <2> DEFINE fired == [sk EXCEPT !.ktimer = None]
  <2>1. Sound(sk)
      BY DEF IInv
  <2>2. PICK sent \in BOOLEAN : sk' = tcp_keepalive_timer(fired, sent)
      BY DEF KeepaliveTimer
  <2>3. sk.ktimer = 0
      BY DEF KeepaliveTimer
  <2>4. /\ Sound(fired) /\ Spent(fired) /\ Like(sk, fired)
        /\ fired.probes_out = sk.probes_out /\ fired.silence = sk.silence
        /\ fired.user_timeout = sk.user_timeout /\ fired.err = sk.err
      BY <2>1, <2>3, FiredIs
  <2> HIDE DEF fired
  <2>5. /\ fired \in Sock /\ fired.packets_out \in Nat /\ fired.silence \in Nat
        /\ fired.probes_out \in Nat
      BY <2>4 DEF Sound, Sock
  <2>6. \A n : [fired EXCEPT !.ktimer = n].err = fired.err
      BY <2>5 DEF Sock
  <2>7. tcp_done(fired).err = fired.err
      BY <2>5 DEF tcp_done, tcp_clear_xmit_timers, Disarm, Sock
  <2>8. KeepaliveProbe(fired, sent).err = fired.err
      BY <2>5 DEF KeepaliveProbe, Sock
  <2>9. /\ ~(fired.state = "FIN_WAIT2" /\ fired.dead)
        /\ fired.state # "CLOSE"
        /\ ~(fired.packets_out > 0 \/ fired.send_head)
        /\ ~(fired.silence < KeepaliveTime)
        /\ KeepaliveExpired(fired)
      BY <2>2, <2>4, <2>6, <2>7, <2>8 DEF tcp_keepalive_timer
  <2>10. fired.silence >= KeepaliveTime
      BY <2>5, <2>9
  <2>11. CASE fired.user_timeout # 0
      BY <2>4, <2>9, <2>10, <2>11 DEF KeepaliveExpired
  <2>12. CASE fired.user_timeout = 0
    <3>1. fired.probes_out >= KeepaliveProbes
        BY <2>9, <2>12 DEF KeepaliveExpired
    <3>2. Enough(fired.probes_out)
              = KeepaliveTime + KeepaliveProbes * Shorter
        BY <2>5, <3>1, EnoughIs
    <3>3. fired.silence >= Enough(fired.probes_out)
      <4>1. CASE fired.probes_out > 0
          BY <2>4, <2>5, <2>9, <4>1 DEF Spent
      <4>2. CASE fired.probes_out = 0
          BY <2>5, <2>10, <4>2, EnoughIs
      <4> QED
          BY <2>5, <4>1, <4>2
    <3> QED
        BY <2>4, <2>10, <2>12, <3>2, <3>3 DEF Shorter
  <2> QED
      BY <2>11, <2>12
<1>2. IInv /\ [Next]_vars => [After]_vars
    BY <1>1
<1> HIDE DEF After
<1>3. Spec => [][After]_vars
    BY <1>2, Invariant, PTL DEF Spec
<1> QED
    BY <1>3 DEF After, KeepaliveOnlyAfterSilence

=============================================================================
