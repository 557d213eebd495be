-------------------------- MODULE TcpSocket_proofs --------------------------
(***************************************************************************)
(* For every size of the buffers, every option and every peer: the types   *)
(* of TcpSocket, and what it promises to the peer (a reset for lost data), *)
(* to the kernel (one destruction) and to a thread in poll().              *)
(***************************************************************************)
EXTENDS TcpSocket, WellFoundedInduction, TLAPS

USE SocketAssumption

(***************************************************************************)
(* The operators return sockets.                                           *)
(***************************************************************************)
LEMMA SetStateType ==
    ASSUME NEW s \in Sock, NEW state \in States
    PROVE  tcp_set_state(s, state) \in Sock
    BY DEF tcp_set_state, Sock

LEMMA SmallTypes ==
    ASSUME NEW s \in Sock
    PROVE  /\ tcp_send_fin(s) \in Sock
           /\ tcp_send_active_reset(s) \in Sock
           /\ tcp_write_queue_purge(s) \in Sock
           /\ inet_csk_destroy_sock(s) \in Sock
           /\ inet_csk_listen_stop(s) \in Sock
           /\ Handled(s) \in Sock
<1>1. tcp_send_fin(s) \in Sock
    BY DEF tcp_send_fin, Sock
<1>2. tcp_send_active_reset(s) \in Sock
    BY DEF tcp_send_active_reset, Sock
<1>3. tcp_write_queue_purge(s) \in Sock
    BY DEF tcp_write_queue_purge, Sock
<1>4. inet_csk_destroy_sock(s) \in Sock
  <2> DEFINE n == IF s.destroyed < 2 THEN s.destroyed + 1 ELSE s.destroyed
  <2>1. s.destroyed \in 0 .. 2
      BY DEF Sock
  <2>2. n \in 0 .. 2
      BY <2>1
  <2> HIDE DEF n
  <2>3. [s EXCEPT !.destroyed = n] \in Sock
      BY <2>2 DEF Sock
  <2> QED
      BY <2>3 DEF inet_csk_destroy_sock, n
<1>5. inet_csk_listen_stop(s) \in Sock
    BY DEF inet_csk_listen_stop, tcp_send_active_reset, Sock
<1>6. Handled(s) \in Sock
    BY DEF Handled, Sock
<1> QED
    BY <1>1, <1>2, <1>3, <1>4, <1>5, <1>6

LEMMA QueueType ==
    ASSUME NEW s \in Sock, NEW r \in Seq(Skb), NEW how \in SUBSET SHUTDOWN_MASK
    PROVE  /\ [s EXCEPT !.receive_queue = r] \in Sock
           /\ [s EXCEPT !.shutdown = how] \in Sock
           /\ [s EXCEPT !.timer = FALSE] \in Sock
    BY DEF Sock

LEMMA AppendType ==
    ASSUME NEW s \in Sock, NEW skb \in Skb
    PROVE  Append(s.receive_queue, skb) \in Seq(Skb)
<1>1. s.receive_queue \in Seq(Skb)
    BY DEF Sock
<1> QED
    BY <1>1

LEMMA DoneType ==
    ASSUME NEW s \in Sock
    PROVE  tcp_done(s) \in Sock
<1> DEFINE closed == [tcp_set_state(s, "CLOSE")
                      EXCEPT !.timer = FALSE, !.shutdown = SHUTDOWN_MASK]
<1>1. closed \in Sock
    BY DEF tcp_set_state, Sock, States
<1> HIDE DEF closed
<1>2. inet_csk_destroy_sock(closed) \in Sock
    BY <1>1, SmallTypes
<1> QED
    BY <1>1, <1>2 DEF tcp_done, closed

LEMMA CloseStateType ==
    ASSUME NEW s \in Sock, NEW how
    PROVE  tcp_close_state(s) \in Sock /\ tcp_shutdown(s, how) \in Sock
<1>1. new_state[s.state] \in States
    BY DEF new_state, States, Sock
<1>2. tcp_close_state(s) \in Sock
    BY <1>1, SetStateType, SmallTypes DEF tcp_close_state
<1> QED
    BY <1>2 DEF tcp_shutdown

LEMMA DisconnectType ==
    ASSUME NEW s \in Sock
    PROVE  tcp_disconnect(s) \in Sock
<1>1. tcp_set_state(s, "CLOSE") \in Sock
    BY SetStateType DEF States
<1>2. \A t \in Sock : /\ inet_csk_listen_stop(t) \in Sock
                      /\ tcp_send_active_reset(t) \in Sock
                      /\ [t EXCEPT !.err = TRUE] \in Sock
                      /\ [tcp_write_queue_purge(t)
                          EXCEPT !.timer = FALSE, !.receive_queue = <<>>,
                                 !.shutdown = {}] \in Sock
  <2> SUFFICES ASSUME NEW t \in Sock
               PROVE  /\ [t EXCEPT !.err = TRUE] \in Sock
                      /\ [t EXCEPT !.timer = FALSE, !.receive_queue = <<>>,
                                   !.shutdown = {}] \in Sock
      BY SmallTypes
  <2>1. [t EXCEPT !.err = TRUE] \in Sock
      BY DEF Sock
  <2>2. <<>> \in Seq(Skb) /\ {} \in SUBSET SHUTDOWN_MASK
      OBVIOUS
  <2> QED
      BY <2>1, <2>2, QueueType, Zenon
<1> QED
    BY <1>1, <1>2, Zenon DEF tcp_disconnect

LEMMA ReceiveTypes ==
    ASSUME NEW s \in Sock, NEW long \in BOOLEAN
    PROVE  /\ tcp_reset(s) \in Sock /\ tcp_fin(s) \in Sock
           /\ tcp_data(s) \in Sock /\ tcp_ack(s, long) \in Sock
<1>1. tcp_reset(s) \in Sock
  <2>1. [s EXCEPT !.err = TRUE, !.killed = TRUE] \in Sock
      BY DEF Sock
  <2> QED
      BY <2>1, SmallTypes, DoneType DEF tcp_reset
<1>2. tcp_fin(s) \in Sock
  <2> DEFINE queued == [s EXCEPT !.shutdown = @ \cup {RCV_SHUTDOWN},
                  !.receive_queue = Append(@, [len |-> 0, fin |-> TRUE])]
  <2>1. queued \in Sock
    <3>1. s.shutdown \cup {RCV_SHUTDOWN} \in SUBSET SHUTDOWN_MASK
        BY DEF Sock, SHUTDOWN_MASK
    <3>2. [s EXCEPT !.shutdown = s.shutdown \cup {RCV_SHUTDOWN}] \in Sock
        BY <3>1 DEF Sock
    <3>3. [len |-> 0, fin |-> TRUE] \in Skb
        BY DEF Skb
    <3>4. Append(s.receive_queue, [len |-> 0, fin |-> TRUE]) \in Seq(Skb)
        BY <3>3, AppendType
    <3> QED
        BY <3>2, <3>4, QueueType, Zenon
  <2> HIDE DEF queued
  <2> QED
      BY <2>1, SetStateType, DoneType DEF tcp_fin, tcp_time_wait, States, queued
<1>3. tcp_data(s) \in Sock
  <2>1. [s EXCEPT !.receive_queue = Append(@, [len |-> 1, fin |-> FALSE])]
            \in Sock
    <3>1. [len |-> 1, fin |-> FALSE] \in Skb
        BY DEF Skb
    <3>2. Append(s.receive_queue, [len |-> 1, fin |-> FALSE]) \in Seq(Skb)
        BY <3>1, AppendType
    <3> QED
        BY <3>2, QueueType
  <2>2. \A t \in Sock : [t EXCEPT !.unread = TRUE] \in Sock
      BY DEF Sock
  <2> QED
      BY <1>1, <2>1, <2>2, SmallTypes DEF tcp_data
<1>4. tcp_ack(s, long) \in Sock
  <2> DEFINE acked == [s EXCEPT !.in_flight = 0,
                           !.fin = IF @ = "sent" THEN "acked" ELSE @,
                           !.state = IF @ = "SYN_RECV" THEN "ESTABLISHED" ELSE @]
  <2>1. acked \in Sock
      BY DEF Sock, States
  <2>2. ASSUME NEW t \in Sock
        PROVE  FinAcked(t, long) \in Sock
    <3> DEFINE half == [tcp_set_state(t, "FIN_WAIT2")
                        EXCEPT !.shutdown = @ \cup {SEND_SHUTDOWN}]
    <3>1. half \in Sock
        BY DEF tcp_set_state, Sock, States, SHUTDOWN_MASK
    <3> HIDE DEF half
    <3>2. [half EXCEPT !.timer = TRUE] \in Sock
        BY <3>1 DEF Sock
    <3> QED
        BY <3>1, <3>2, SmallTypes, DoneType DEF FinAcked, tcp_time_wait, half
  <2> HIDE DEF acked
  <2> QED
      BY <2>1, <2>2 DEF tcp_ack, acked
<1> QED
    BY <1>1, <1>2, <1>3, <1>4

LEMMA RcvType ==
    ASSUME NEW s \in Sock, NEW segment \in Segments, NEW long \in BOOLEAN
    PROVE  tcp_rcv(s, segment, long) \in Sock
    BY ReceiveTypes, SetStateType DEF tcp_rcv, tcp_synsent, States, Segments

LEMMA CloseConnectionType ==
    ASSUME NEW s \in Sock, NEW linger0 \in BOOLEAN
    PROVE  CloseConnection(s, linger0) \in Sock
<1> DEFINE shut == [s EXCEPT !.shutdown = SHUTDOWN_MASK]
           flushed == [s EXCEPT !.shutdown = SHUTDOWN_MASK, !.receive_queue = <<>>]
           tossed == [flushed EXCEPT !.unread = @ \/ DataWasUnread(s)]
<1>1. shut \in Sock /\ flushed \in Sock
  <2>1. SHUTDOWN_MASK \in SUBSET SHUTDOWN_MASK /\ <<>> \in Seq(Skb)
      OBVIOUS
  <2>2. shut \in Sock
      BY <2>1, QueueType
  <2> QED
      BY <2>1, <2>2, QueueType, Zenon
<1>2. tossed \in Sock
    BY <1>1 DEF Sock, DataWasUnread
<1> HIDE DEF shut, flushed, tossed
<1> QED
    BY <1>1, <1>2, SetStateType, SmallTypes, CloseStateType, DisconnectType
       DEF CloseConnection, shut, flushed, tossed, States

LEMMA AdjudgeType ==
    ASSUME NEW s \in Sock, NEW old, NEW long \in BOOLEAN, NEW oom \in BOOLEAN
    PROVE  AdjudgeToDeath(s, old, long, oom) \in Sock
<1>1. tcp_send_active_reset(tcp_set_state(s, "CLOSE")) \in Sock
    BY SetStateType, SmallTypes DEF States
<1>2. [s EXCEPT !.timer = TRUE] \in Sock
    BY DEF Sock
<1> QED
    BY <1>1, <1>2, SmallTypes, DoneType DEF AdjudgeToDeath, tcp_time_wait

(***************************************************************************)
(* The two conversions of TCP_DEFER_ACCEPT.                                *)
(***************************************************************************)
LEMMA Smallest ==
    ASSUME NEW S \in SUBSET Nat, S # {}
    PROVE  \E n \in S : \A m \in S : n <= m
<1>1. PICK n \in S : \A m \in S : <<m, n>> \notin OpToRel(<, Nat)
    BY WFMin, NatLessThanWellFounded, Zenon
<1>2. ASSUME NEW m \in S, m < n
      PROVE  FALSE
  <2>1. <<m, n>> \in OpToRel(<, Nat)
      BY <1>2 DEF OpToRel
  <2> QED
      BY <1>1, <2>1
<1> QED
    BY <1>2

Least(a, b) == IF a > b THEN b ELSE a

LEMMA Times ==
    ASSUME NEW n \in Int, NEW k \in Int
    PROVE  n * k \in Int /\ (n + 1) * k = n * k + k
    OBVIOUS

(* The equation of the recursive function has a solution, the sum in       *)
(* closed form; a smallest place where another solution differs from it    *)
(* would follow a place where they agree.                                  *)
LEMMA PeriodIs ==
    ASSUME NEW t \in Nat, NEW max \in Nat
    PROVE  \A n \in 1 .. U8_MAX : Period(t, max)[n] = t + (n - 1) * Least(t, max)
<1> DEFINE step == Least(t, max)
           sum == [n \in 1 .. U8_MAX |-> t + (n - 1) * step]
           Solves(f) == f = [n \in 1 .. U8_MAX |->
                IF n = 1 THEN t ELSE f[n - 1] + IF t > max THEN max ELSE t]
           f == CHOOSE g : Solves(g)
<1>0. step \in Nat /\ step = IF t > max THEN max ELSE t
    BY DEF Least
<1>1. Period(t, max) = f
    BY DEF Period
<1> HIDE DEF step
<1>2. Solves(sum)
  <2>1. ASSUME NEW n \in 1 .. U8_MAX, n # 1
        PROVE  sum[n] = sum[n - 1] + step
    <3>1. n - 1 \in 1 .. U8_MAX /\ n - 2 \in Int
        BY <2>1
    <3>2. ((n - 2) + 1) * step = (n - 2) * step + step /\ (n - 2) * step \in Int
        BY <3>1, <1>0, Times
    <3>3. (n - 2) + 1 = n - 1 /\ (n - 1) - 1 = n - 2
        BY <3>1
    <3> QED
        BY <3>1, <3>2, <3>3, <1>0
  <2>2. \A n \in 1 .. U8_MAX : n = 1 => sum[n] = t
    <3>1. 0 * step = 0
        BY <1>0
    <3> QED
        BY <3>1
  <2> QED
      BY <2>1, <2>2, <1>0
<1>3. Solves(f)
    BY <1>2
<1> HIDE DEF f, sum
<1>4. \A n \in 1 .. U8_MAX : f[n] = sum[n]
  <2> SUFFICES ASSUME {n \in 1 .. U8_MAX : f[n] # sum[n]} # {}
               PROVE  FALSE
      OBVIOUS
  <2> DEFINE D == {n \in 1 .. U8_MAX : f[n] # sum[n]}
  <2>1. D \in SUBSET Nat
      OBVIOUS
  <2>2. PICK n \in D : \A m \in D : n <= m
      BY <2>1, Smallest
  <2>3. n # 1
      BY <1>2, <1>3, <2>2
  <2>4. n - 1 \in 1 .. U8_MAX /\ n - 1 \notin D
      BY <2>2, <2>3
  <2> QED
      BY <1>2, <1>3, <2>2, <2>3, <2>4
<1> QED
    BY <1>1, <1>4 DEF sum, step

LEMMA SecsToRetrans ==
    ASSUME NEW seconds \in Int, NEW t \in Nat, NEW max \in Nat
    PROVE  LET n == secs_to_retrans(seconds, t, max)
           IN  /\ n \in 0 .. U8_MAX
               /\ n = 0 <=> seconds <= 0
               /\ n \in 1 .. U8_MAX - 1 =>
                      /\ seconds <= Period(t, max)[n]
                      /\ \A m \in 1 .. n - 1 : seconds > Period(t, max)[m]
<1> DEFINE enough == {n \in 1 .. U8_MAX : seconds <= Period(t, max)[n]}
           least == CHOOSE n \in enough : \A m \in enough : n <= m
<1>1. CASE seconds <= 0
    BY <1>1 DEF secs_to_retrans
<1>2. CASE seconds > 0 /\ enough = {}
    BY <1>2 DEF secs_to_retrans
<1>3. CASE seconds > 0 /\ enough # {}
  <2>1. \E n \in enough : \A m \in enough : n <= m
    <3>1. enough \in SUBSET Nat
        OBVIOUS
    <3> QED
        BY <1>3, <3>1, Smallest
  <2>2. least \in enough /\ \A m \in enough : least <= m
      BY <2>1
  <2>3. secs_to_retrans(seconds, t, max) = least
      BY <1>3 DEF secs_to_retrans
  <2>4. \A m \in 1 .. U8_MAX : Period(t, max)[m] \in Int
    <3>1. Least(t, max) \in Int
        BY DEF Least
    <3> QED
        BY <3>1, PeriodIs, Times
  <2> HIDE DEF least
  <2>5. ASSUME NEW m \in 1 .. least - 1
        PROVE  seconds > Period(t, max)[m]
    <3>1. m \in 1 .. U8_MAX /\ m \notin enough
        BY <2>2
    <3> QED
        BY <3>1, <2>4
  <2> QED
      BY <1>3, <2>2, <2>3, <2>5
<1> QED
    BY <1>1, <1>2, <1>3

(* The option's value is what setsockopt() made of what it was asked for.  *)
DeferInv ==
    sk.defer = secs_to_retrans(sk.defer_asked, TCP_TIMEOUT_INIT, TCP_RTO_MAX)

LEMMA DeferCovers == TypeOK /\ DeferInv => DeferAcceptCovers
<1> SUFFICES ASSUME TypeOK, DeferInv, sk.defer < U8_MAX
             PROVE  LET granted == getsockopt_DEFER_ACCEPT(sk)
                    IN  /\ granted >= sk.defer_asked
                        /\ sk.defer_asked > TCP_TIMEOUT_INIT =>
                              granted - sk.defer_asked < TCP_TIMEOUT_INIT
    BY DEF DeferAcceptCovers
<1> DEFINE n == sk.defer
           asked == sk.defer_asked
           t == TCP_TIMEOUT_INIT
           max == TCP_RTO_MAX
           step == Least(t, max)
<1>1. n \in 0 .. U8_MAX /\ asked \in Int
    BY DEF TypeOK, Sock
<1>2. t \in Nat /\ t > 0 /\ max \in Nat /\ step \in Nat /\ step <= t
    BY DEF Least
<1>3. CASE n = 0
  <2>1. asked <= 0
      BY <1>1, <1>2, <1>3, SecsToRetrans DEF DeferInv
  <2>2. getsockopt_DEFER_ACCEPT(sk) = 0
      BY <1>3 DEF getsockopt_DEFER_ACCEPT, retrans_to_secs
  <2> QED
      BY <1>1, <1>2, <2>1, <2>2
<1>4. CASE n # 0
  <2>1. getsockopt_DEFER_ACCEPT(sk) = Period(t, max)[n]
      BY <1>4 DEF getsockopt_DEFER_ACCEPT, retrans_to_secs
  <2>2. n \in 1 .. U8_MAX - 1
      BY <1>1, <1>4
  <2>3. asked <= Period(t, max)[n]
      BY <1>1, <1>2, <2>2, SecsToRetrans DEF DeferInv
  <2>4. Period(t, max)[n] = t + (n - 1) * step
      BY <1>2, <2>2, PeriodIs
  <2>5. ASSUME asked > t
        PROVE  Period(t, max)[n] - asked < t
    <3>1. n # 1
      <4> SUFFICES ASSUME n = 1
                   PROVE  FALSE
          OBVIOUS
      <4>1. (n - 1) * step = 0
          BY <1>2
      <4>2. Period(t, max)[n] = t
          BY <4>1, <2>4, <1>2
      <4> QED
          BY <4>2, <2>3, <2>5, <1>1, <1>2
    <3>2. asked > Period(t, max)[n - 1]
      <4>1. n - 1 \in 1 .. n - 1
          BY <2>2, <3>1
      <4> QED
          BY <4>1, <1>1, <1>2, <2>2, SecsToRetrans DEF DeferInv
    <3>3. Period(t, max)[n - 1] = t + (n - 2) * step
      <4>1. n - 1 \in 1 .. U8_MAX /\ (n - 1) - 1 = n - 2
          BY <2>2, <3>1
      <4> QED
          BY <4>1, <1>2, PeriodIs
    <3>4. ((n - 2) + 1) * step = (n - 2) * step + step /\ (n - 2) * step \in Int
      <4>1. n - 2 \in Int
          BY <2>2
      <4> QED
          BY <4>1, <1>2, Times
    <3>5. (n - 2) + 1 = n - 1
        BY <2>2
    <3> DEFINE before == (n - 2) * step
    <3>6. /\ Period(t, max)[n] = t + (before + step)
          /\ asked > t + before /\ before \in Int
        BY <2>4, <3>2, <3>3, <3>4, <3>5
    <3> HIDE DEF before, step
    <3> QED
        BY <3>6, <1>1, <1>2
  <2>6. Period(t, max)[n] \in Int
    <3>1. n - 1 \in Int
        BY <2>2
    <3> QED
        BY <3>1, <2>4, <1>2, Times
  <2> QED
      BY <1>1, <2>1, <2>3, <2>5, <2>6
<1> QED
    BY <1>3, <1>4

(***************************************************************************)
(* What a segment does to the fields the invariants are about.             *)
(***************************************************************************)
Same(s, t) ==
    /\ t.dead = s.dead /\ t.old = s.old
    /\ t.nospace = s.nospace /\ t.lowat = s.lowat
    /\ t.child = s.child
    /\ t.defer = s.defer /\ t.defer_asked = s.defer_asked

(* Data lost is answered; the error of an end comes with it.               *)
Answers(s, t) ==
    /\ (s.unread => s.reset) => (t.unread => t.reset)
    /\ (s.killed => s.err) => (t.killed => t.err)
    /\ s.err => t.err

(* No segment leads out of CLOSE or to LISTEN; reaching CLOSE destroys an   *)
(* orphan once.                                                            *)
Destroyed(s) == IF s.destroyed < 2 THEN s.destroyed + 1 ELSE s.destroyed

Ends(s, t) ==
    /\ s.state = "CLOSE" => t.state = "CLOSE"
    /\ t.state = "LISTEN" => s.state = "LISTEN"
    /\ t.destroyed = IF s.dead /\ s.state # "CLOSE" /\ t.state = "CLOSE"
                     THEN Destroyed(s) ELSE s.destroyed

(* What is not told to a waiter: no shutdown and no room.                  *)
Untold(s, t) ==
    /\ t.state = "SYN_RECV" => s.state \in {"SYN_SENT", "SYN_RECV"}
    /\ /\ t.state = s.state \/ t.state = "SYN_RECV"
       /\ t.receive_queue = s.receive_queue
       /\ t.err = s.err
       => /\ t.shutdown = s.shutdown
          /\ t.unsent = s.unsent
          /\ t.in_flight \in {s.in_flight, 0}

Received(s, t) == Same(s, t) /\ Answers(s, t) /\ Ends(s, t) /\ Untold(s, t)

LEMMA DoneIs ==
    ASSUME NEW s \in Sock
    PROVE  LET t == tcp_done(s)
           IN  /\ Same(s, t)
               /\ t.state = "CLOSE" /\ t.shutdown = SHUTDOWN_MASK
               /\ t.err = s.err /\ t.killed = s.killed
               /\ t.unread = s.unread /\ t.reset = s.reset
               /\ t.receive_queue = s.receive_queue
               /\ t.destroyed = IF s.dead THEN Destroyed(s) ELSE s.destroyed
    BY DEF tcp_done, tcp_set_state, inet_csk_destroy_sock, Sock, Same, Destroyed

LEMMA ResetIs ==
    ASSUME NEW s \in Sock
    PROVE  /\ Received(s, tcp_reset(s))
           /\ tcp_reset(s).state = "CLOSE"
           /\ s.state = "CLOSE" => tcp_reset(s) = s
<1>1. CASE s.state = "CLOSE"
    BY <1>1 DEF tcp_reset, Received, Same, Answers, Ends, Untold
<1>2. CASE s.state # "CLOSE"
  <2> DEFINE killed == [s EXCEPT !.err = TRUE, !.killed = TRUE]
             purged == tcp_write_queue_purge(killed)
  <2>1. killed \in Sock
      BY DEF Sock
  <2>2. purged \in Sock
      BY <2>1, SmallTypes
  <2>3. /\ Same(s, purged) /\ purged.err /\ purged.destroyed = s.destroyed
        /\ purged.unread = s.unread /\ purged.reset = s.reset
      BY DEF tcp_write_queue_purge, Sock, Same
  <2>4. tcp_reset(s) = tcp_done(purged)
      BY <1>2 DEF tcp_reset
  <2> HIDE DEF purged
  <2> QED
      BY <1>2, <2>2, <2>3, <2>4, DoneIs
         DEF Received, Same, Answers, Ends, Untold, Destroyed
<1> QED
    BY <1>1, <1>2

LEMMA FinIs ==
    ASSUME NEW s \in Sock
    PROVE  Received(s, tcp_fin(s))
<1> DEFINE queued == [s EXCEPT !.shutdown = @ \cup {RCV_SHUTDOWN},
                 !.receive_queue = Append(@, [len |-> 0, fin |-> TRUE])]
<1>1. /\ Same(s, queued) /\ queued.state = s.state
      /\ queued.err = s.err /\ queued.killed = s.killed
      /\ queued.unread = s.unread /\ queued.reset = s.reset
      /\ queued.destroyed = s.destroyed
    BY DEF Sock, Same
<1>2. queued \in Sock
  <2>1. s.shutdown \cup {RCV_SHUTDOWN} \in SUBSET SHUTDOWN_MASK
      BY DEF Sock, SHUTDOWN_MASK
  <2>2. [s EXCEPT !.shutdown = s.shutdown \cup {RCV_SHUTDOWN}] \in Sock
      BY <2>1 DEF Sock
  <2>3. [len |-> 0, fin |-> TRUE] \in Skb
      BY DEF Skb
  <2>4. Append(s.receive_queue, [len |-> 0, fin |-> TRUE]) \in Seq(Skb)
      BY <2>3, AppendType
  <2> QED
      BY <2>2, <2>4, QueueType, Zenon
<1> HIDE DEF queued
<1>3. CASE s.state = "FIN_WAIT2"
  <2>1. tcp_fin(s) = tcp_done(queued)
      BY <1>3 DEF tcp_fin, tcp_time_wait, queued
  <2> QED
      BY <1>1, <1>2, <1>3, <2>1, DoneIs
         DEF Received, Same, Answers, Ends, Untold, Destroyed
<1>4. ASSUME s.state \in {"SYN_RECV", "ESTABLISHED", "FIN_WAIT1"}
      PROVE  Received(s, tcp_fin(s))
  <2>1. PICK state \in {"CLOSE_WAIT", "CLOSING"} :
            tcp_fin(s) = tcp_set_state(queued, state)
      BY <1>4 DEF tcp_fin, queued
  <2>2. LET t == tcp_set_state(queued, state)
        IN  /\ Same(queued, t) /\ t.state = state /\ t.err = queued.err
            /\ t.killed = queued.killed /\ t.unread = queued.unread
            /\ t.reset = queued.reset /\ t.destroyed = queued.destroyed
      BY <1>2 DEF tcp_set_state, Sock, Same
  <2> QED
      BY <1>1, <1>4, <2>1, <2>2 DEF Received, Same, Answers, Ends, Untold
<1>5. CASE s.state \notin {"SYN_RECV", "ESTABLISHED", "FIN_WAIT1", "FIN_WAIT2"}
  <2>1. tcp_fin(s) = s
      BY <1>5 DEF tcp_fin
  <2> QED
      BY <2>1 DEF Received, Same, Answers, Ends, Untold
<1> QED
    BY <1>3, <1>4, <1>5

LEMMA DataIs ==
    ASSUME NEW s \in Sock
    PROVE  Received(s, tcp_data(s))
<1>1. CASE tcp_data(s) = [s EXCEPT !.receive_queue =
                                      Append(@, [len |-> 1, fin |-> FALSE])]
  <2> DEFINE t == [s EXCEPT !.receive_queue =
                                Append(@, [len |-> 1, fin |-> FALSE])]
  <2>1. /\ Same(s, t) /\ Answers(s, t) /\ Ends(s, t)
        /\ t.state = s.state /\ t.unsent = s.unsent
        /\ t.in_flight = s.in_flight /\ t.shutdown = s.shutdown
      BY DEF Sock, Same, Answers, Ends
  <2> HIDE DEF t
  <2> QED
      BY <1>1, <2>1 DEF Received, Untold, t
<1>2. CASE tcp_data(s) = [tcp_send_active_reset(tcp_reset(s))
                          EXCEPT !.unread = TRUE]
  <2> DEFINE r == tcp_reset(s)
             t == [tcp_send_active_reset(r) EXCEPT !.unread = TRUE]
  <2>1. r \in Sock /\ Received(s, r)
      BY ResetIs, ReceiveTypes
  <2> HIDE DEF r
  <2>2. /\ Same(r, t) /\ t.reset
        /\ t.err = r.err /\ t.killed = r.killed /\ t.state = r.state
        /\ t.destroyed = r.destroyed /\ t.shutdown = r.shutdown
        /\ t.unsent = r.unsent /\ t.in_flight = r.in_flight
        /\ t.receive_queue = r.receive_queue
      BY <2>1 DEF tcp_send_active_reset, Sock, Same
  <2> HIDE DEF t
  <2>3. Received(s, t)
      BY <2>1, <2>2 DEF Received, Same, Answers, Ends, Untold
  <2> QED
      BY <1>2, <2>3 DEF t, r
<1> QED
    BY <1>1, <1>2 DEF tcp_data

LEMMA AckIs ==
    ASSUME NEW s \in Sock, NEW long \in BOOLEAN
    PROVE  Received(s, tcp_ack(s, long))
<1> DEFINE acked == [s EXCEPT !.in_flight = 0,
                         !.fin = IF @ = "sent" THEN "acked" ELSE @,
                         !.state = IF @ = "SYN_RECV" THEN "ESTABLISHED" ELSE @]
           half == [tcp_set_state(acked, "FIN_WAIT2")
                    EXCEPT !.shutdown = @ \cup {SEND_SHUTDOWN}]
           timed == [half EXCEPT !.timer = TRUE]
<1>1. acked \in Sock
    BY DEF Sock, States
<1>2. /\ Same(s, acked) /\ acked.err = s.err /\ acked.killed = s.killed
      /\ acked.unread = s.unread /\ acked.reset = s.reset
      /\ acked.destroyed = s.destroyed /\ acked.shutdown = s.shutdown
      /\ acked.unsent = s.unsent /\ acked.in_flight = 0
      /\ acked.receive_queue = s.receive_queue
      /\ acked.state = IF s.state = "SYN_RECV" THEN "ESTABLISHED" ELSE s.state
    BY DEF Sock, Same
<1> HIDE DEF acked
<1>3. half \in Sock
    BY <1>1 DEF tcp_set_state, Sock, States, SHUTDOWN_MASK
<1>4. /\ Same(acked, half) /\ half.err = acked.err /\ half.killed = acked.killed
      /\ half.unread = acked.unread /\ half.reset = acked.reset
      /\ half.destroyed = acked.destroyed /\ half.state = "FIN_WAIT2"
    BY <1>1 DEF tcp_set_state, Sock, Same
<1> HIDE DEF half
<1>5. \A t \in Sock : LET r == tcp_send_active_reset(t)
                      IN  /\ Same(t, r) /\ r.err = t.err /\ r.killed = t.killed
                          /\ r.unread = t.unread /\ r.reset /\ r.state = t.state
                          /\ r.destroyed = t.destroyed
    BY DEF tcp_send_active_reset, Sock, Same
<1>6. /\ Same(half, timed) /\ timed.err = half.err
      /\ timed.killed = half.killed /\ timed.unread = half.unread
      /\ timed.reset = half.reset /\ timed.state = half.state
      /\ timed.destroyed = half.destroyed
    BY <1>3 DEF Sock, Same
<1> HIDE DEF timed
<1>7. tcp_ack(s, long) = IF s.fin = "sent" THEN FinAcked(acked, long) ELSE acked
    BY DEF tcp_ack, acked
<1>8. FinAcked(acked, long) \in
         {acked, half, tcp_send_active_reset(tcp_done(half)),
          timed, tcp_done(half), tcp_done(acked)}
    BY DEF FinAcked, tcp_time_wait, half, timed
<1>9. CASE tcp_ack(s, long) = acked
    BY <1>2, <1>9 DEF Received, Same, Answers, Ends, Untold
<1>10. CASE tcp_ack(s, long) # acked
  <2>1. acked.state \in {"FIN_WAIT1", "CLOSING", "LAST_ACK"}
      BY <1>7, <1>10 DEF FinAcked
  <2>2. acked.state = s.state
      BY <1>2, <2>1
  <2>3. tcp_ack(s, long) \in
            {half, tcp_send_active_reset(tcp_done(half)),
             timed, tcp_done(half), tcp_done(acked)}
      BY <1>7, <1>8, <1>10
  <2>4. CASE tcp_ack(s, long) \in {half, timed}
    <3>1. PICK t \in {half, timed} : tcp_ack(s, long) = t
        BY <2>4
    <3>2. /\ Same(s, t) /\ t.err = s.err /\ t.killed = s.killed
          /\ t.unread = s.unread /\ t.reset = s.reset
          /\ t.state = "FIN_WAIT2" /\ t.destroyed = s.destroyed
        BY <1>2, <1>4, <1>6 DEF Same
    <3> QED
        BY <2>1, <2>2, <3>1, <3>2 DEF Received, Same, Answers, Ends, Untold
  <2>5. ASSUME NEW u \in {half, acked}
        PROVE  LET t == tcp_done(u) IN
               /\ Same(s, t) /\ t.state = "CLOSE"
               /\ t.err = s.err /\ t.killed = s.killed
               /\ t.unread = s.unread /\ t.reset = s.reset
               /\ t.destroyed = IF s.dead THEN Destroyed(s) ELSE s.destroyed
    <3>1. u \in Sock /\ Same(s, u) /\ u.destroyed = s.destroyed
          /\ u.err = s.err /\ u.killed = s.killed
          /\ u.unread = s.unread /\ u.reset = s.reset
        BY <1>1, <1>2, <1>3, <1>4 DEF Same
    <3> QED
        BY <3>1, DoneIs DEF Same, Destroyed
  <2>6. CASE tcp_ack(s, long) \in {tcp_done(half), tcp_done(acked)}
      BY <2>1, <2>2, <2>5, <2>6 DEF Received, Same, Answers, Ends, Untold
  <2>7. CASE tcp_ack(s, long) = tcp_send_active_reset(tcp_done(half))
    <3>1. tcp_done(half) \in Sock
        BY <1>3, DoneType
    <3> QED
        BY <1>5, <2>1, <2>2, <2>5, <2>7, <3>1
           DEF Received, Same, Answers, Ends, Untold
  <2> QED
      BY <2>3, <2>4, <2>6, <2>7
<1> QED
    BY <1>9, <1>10

LEMMA RcvIs ==
    ASSUME NEW s \in Sock, NEW segment \in Segments, NEW long \in BOOLEAN
    PROVE  Received(s, tcp_rcv(s, segment, long))
<1>1. ASSUME NEW state \in {"SYN_RECV", "ESTABLISHED"}
      PROVE  Received(s, tcp_synsent(s, state))
  <2>1. CASE s.state = "SYN_SENT"
    <3> DEFINE t == tcp_set_state(s, state)
    <3>1. /\ Same(s, t) /\ t.state = state /\ t.err = s.err
          /\ t.killed = s.killed /\ t.unread = s.unread /\ t.reset = s.reset
          /\ t.destroyed = s.destroyed /\ t.shutdown = s.shutdown
          /\ t.unsent = s.unsent /\ t.in_flight = s.in_flight
        BY DEF tcp_set_state, Sock, Same
    <3> HIDE DEF t
    <3>2. tcp_synsent(s, state) = t
        BY <2>1 DEF tcp_synsent, t
    <3> QED
        BY <1>1, <2>1, <3>1, <3>2 DEF Received, Same, Answers, Ends, Untold
  <2>2. CASE s.state # "SYN_SENT"
      BY <2>2 DEF tcp_synsent, Received, Same, Answers, Ends, Untold
  <2> QED
      BY <2>1, <2>2
<1>2. tcp_rcv(s, segment, long) \in
         {tcp_synsent(s, "SYN_RECV"), tcp_synsent(s, "ESTABLISHED"),
          tcp_ack(s, long), tcp_data(s), tcp_fin(s), tcp_reset(s)}
    BY DEF tcp_rcv, Segments
<1> QED
    BY <1>1, <1>2, AckIs, DataIs, FinIs, ResetIs

(***************************************************************************)
(* The inductive invariant.                                                *)
(***************************************************************************)

(* Who may hold the lock, how far tcp_close() is, and what it has seen.    *)
CloseInv ==
    /\ app \in {"adjudge", "backlog"} <=> holder = "close"
    /\ sk.dead <=> app \in {"backlog", "closed"}
    /\ app # "open" => sk.state # "LISTEN" /\ poller.pc = "idle"
    /\ app = "backlog" /\ sk.old = "CLOSE" => sk.state = "CLOSE"
    /\ holder = "reset" => sk.state \notin {"CLOSE", "LISTEN"}

(* What the peer, the kernel and a reader of sk_err are promised.          *)
Promises ==
    DeferInv /\ LossIsReset /\ DestroyedOnce /\ CloseInv /\ (sk.killed => sk.err)

(* A poll that saw the end of the connection has still to look at the      *)
(* error, which is there to be read.                                       *)
HangupInv ==
    /\ poller.hangup => /\ "HUP" \in poller.mask
                        /\ poller.pc \in {"nospace", "recheck", "err", "done"}
    /\ poller.hangup /\ poller.pc # "done" => sk.err

(* The state that a poll loaded is the socket's, or one as good.           *)
LoadedInv ==
    poller.pc = "flags" /\ ~poller.woken =>
        \/ poller.state \in {"CLOSE", sk.state}
        \/ poller.state = "SYN_SENT" /\ sk.state = "SYN_RECV"

(* What a waiter that found nothing may rely on: nothing to read and no    *)
(* shutdown, and a writer with the flag set has no room yet or waits for   *)
(* an acknowledgement.                                                     *)
NothingToRead(s) ==
    /\ s.state # "CLOSE"
    /\ s.state = "LISTEN" => ~s.child
    /\ s.state # "LISTEN" => RCV_SHUTDOWN \notin s.shutdown
    /\ Connected(s.state) /\ s.state # "LISTEN" =>
           s.receive_queue = <<>> /\ SEND_SHUTDOWN \notin s.shutdown

RoomIsTold(s) ==
    s.nospace /\ (sk_stream_is_writeable(s, TRUE) => s.in_flight > 0)

WaiterInv ==
    poller.mask = {} /\ ~poller.woken =>
        /\ poller.pc \in {"nospace", "recheck", "err", "asleep"} =>
               NothingToRead(sk)
        /\ poller.pc \in {"nospace", "recheck"} => Connected(sk.state)
        /\ poller.pc \in {"nospace", "recheck", "err"} => sk.state # "LISTEN"
        /\ poller.pc = "recheck" => sk.nospace
        /\ /\ poller.pc \in {"err", "asleep"}
           /\ Connected(sk.state) /\ sk.state # "LISTEN"
           => RoomIsTold(sk)
        /\ poller.pc = "asleep" /\ sk.state # "LISTEN" /\ sk.err =>
               holder = "reset"

AsleepInv == poller.pc = "asleep" => poller.mask = {}

Waits == LoadedInv /\ WaiterInv

Hangs == HangupHasError /\ HangupInv /\ AsleepInv

IInv == TypeOK /\ Promises /\ Hangs /\ Waits

(***************************************************************************)
(* Type correctness.                                                       *)
(***************************************************************************)
LEMMA InitSockType == tcp_init_sock \in Sock
<1>1. <<>> \in Seq(Skb) /\ 0 \in 0 .. U8_MAX
    OBVIOUS
<1> QED
    BY <1>1 DEF tcp_init_sock, Sock, States

LEMMA OptionTypes ==
    ASSUME NEW s \in Sock
    PROVE  /\ \A val \in DeferSeconds : setsockopt_DEFER_ACCEPT(s, val) \in Sock
           /\ \A val \in Linger2s : setsockopt_LINGER2(s, val) \in Sock
           /\ \A val \in BOOLEAN : setsockopt_REPAIR(s, val) \in Sock
           /\ \A val \in Lowats : [s EXCEPT !.lowat = val] \in Sock
<1>1. ASSUME NEW val \in DeferSeconds
      PROVE  setsockopt_DEFER_ACCEPT(s, val) \in Sock
  <2> DEFINE n == secs_to_retrans(val, TCP_TIMEOUT_INIT, TCP_RTO_MAX)
  <2>1. n \in 0 .. U8_MAX /\ val \in Int
      BY SecsToRetrans
  <2> HIDE DEF n
  <2>2. [s EXCEPT !.defer = n, !.defer_asked = val] \in Sock
      BY <2>1 DEF Sock
  <2> QED
      BY <2>2 DEF setsockopt_DEFER_ACCEPT, n
<1>2. ASSUME NEW val \in Linger2s
      PROVE  setsockopt_LINGER2(s, val) \in Sock
  <2> DEFINE n == IF val < 0 THEN -1 ELSE IF val > FinTimeout THEN 0 ELSE val
  <2>1. n \in Int
      OBVIOUS
  <2> HIDE DEF n
  <2>2. [s EXCEPT !.linger2 = n] \in Sock
      BY <2>1 DEF Sock
  <2> QED
      BY <2>2 DEF setsockopt_LINGER2, n
<1>3. \A val \in BOOLEAN : setsockopt_REPAIR(s, val) \in Sock
    BY DEF setsockopt_REPAIR, Sock
<1>4. \A val \in Lowats : [s EXCEPT !.lowat = val] \in Sock
    BY DEF Sock
<1> QED
    BY <1>1, <1>2, <1>3, <1>4

LEMMA PollerTypes ==
    /\ NoPoll \in Poller
    /\ \A p \in Poller : [p EXCEPT !.woken = TRUE] \in Poller
    /\ \A s \in Sock : [NoPoll EXCEPT !.pc = "flags", !.state = s.state] \in Poller
<1>1. NoPoll \in Poller
    BY DEF NoPoll, Poller, States
<1>2. \A p \in Poller : [p EXCEPT !.woken = TRUE] \in Poller
    BY DEF Poller
<1>3. ASSUME NEW s \in Sock
      PROVE  [NoPoll EXCEPT !.pc = "flags", !.state = s.state] \in Poller
  <2>1. s.state \in States
      BY DEF Sock
  <2> QED
      BY <2>1 DEF NoPoll, Poller
<1> QED
    BY <1>1, <1>2, <1>3

LEMMA WakeType ==
    ASSUME TypeOK, NEW condition, Wake(condition)
    PROVE  poller' \in Poller
    BY PollerTypes DEF TypeOK, Wake

(* What TypeOK says of everything but the socket and the poll.             *)
RestOK ==
    /\ app \in {"open", "lingering", "adjudge", "backlog", "closed"}
    /\ holder \in {"free", "close", "reset", "abort"}
    /\ backlog \in Seq(Segments) /\ Len(backlog) <= MaxBacklog
    /\ peer \in [met : BOOLEAN, talking : BOOLEAN, fin : BOOLEAN,
                 left : 0 .. MaxIn, wanted : 0 .. MaxOut]

LEMMA TypeSplit == TypeOK <=> sk \in Sock /\ poller \in Poller /\ RestOK
    BY DEF TypeOK, RestOK

LEMMA PollsType == TypeOK /\ Polls => TypeOK'
<1> SUFFICES ASSUME TypeOK, Polls
             PROVE  TypeOK'
    OBVIOUS
<1> DEFINE Masks == SUBSET {"HUP", "IN", "RDHUP", "OUT", "ERR"}
<1>1. RestOK' /\ poller \in Poller /\ sk \in Sock
    BY DEF Polls, PollStart, PollAgain, PollReturns, PollListen, PollTests,
           PollSetsNospace, PollRechecks, PollReadsErr, TypeOK, RestOK
<1>2. sk' \in Sock
  <2>1. [sk EXCEPT !.nospace = TRUE] \in Sock
      BY <1>1 DEF Sock
  <2> QED
      BY <1>1, <2>1
         DEF Polls, PollStart, PollAgain, PollReturns, PollListen, PollTests,
             PollSetsNospace, PollRechecks, PollReadsErr
<1>3. poller' \in Poller
  <2>1. CASE PollStart \/ PollAgain \/ PollReturns
      BY <1>1, <2>1, PollerTypes DEF PollStart, PollAgain, PollReturns, Poll
  <2>2. CASE PollListen
      BY <1>1, <2>2 DEF PollListen, inet_csk_listen_poll, Flag, Poller
  <2>3. CASE PollTests
    <3>1. PollFlags(sk, poller.state) \in Masks
        BY DEF PollFlags, Flag
    <3> QED
        BY <1>1, <2>3, <3>1 DEF PollTests, Poller, States, Sock
  <2>4. CASE PollSetsNospace
      BY <1>1, <2>4 DEF PollSetsNospace, Poller
  <2>5. CASE PollRechecks
      BY <1>1, <2>5 DEF PollRechecks, Flag, Poller
  <2>6. CASE PollReadsErr
      BY <1>1, <2>6 DEF PollReadsErr, Flag, Poller
  <2> QED
      BY <2>1, <2>2, <2>3, <2>4, <2>5, <2>6 DEF Polls
<1> QED
    BY <1>1, <1>2, <1>3 DEF TypeOK, RestOK

LEMMA CallsType == TypeOK /\ Calls => TypeOK'
<1> SUFFICES ASSUME TypeOK, Calls
             PROVE  TypeOK'
    OBVIOUS
<1>1. RestOK /\ poller \in Poller /\ sk \in Sock
    BY DEF TypeOK, RestOK
<1>2. RestOK'
  <2>1. CASE Connect \/ Listen \/ Accept \/ Shutdown \/ Disconnect
      BY <1>1, <2>1
         DEF RestOK, Connect, Listen, Accept, Shutdown, Disconnect
  <2>5. CASE Write
    <3>1. peer' \in {peer, [peer EXCEPT !.wanted = @ - 1]}
          /\ (peer' # peer => peer.wanted > 0)
        BY <2>5 DEF Write
    <3>2. peer.wanted > 0 => peer.wanted - 1 \in 0 .. MaxOut
        BY <1>1 DEF RestOK
    <3> QED
        BY <1>1, <2>5, <3>1, <3>2 DEF RestOK, Write
  <2>2. CASE Read \/ SetOption \/ SetNotsentLowat \/ Close \/ LingerEnds
      BY <1>1, <2>2
         DEF RestOK, Read, SetOption, SetNotsentLowat, Close, LingerEnds
  <2>3. CASE Orphan \/ CloseEnds
      BY <1>1, <2>3 DEF RestOK, Orphan, CloseEnds
  <2>4. CASE HandleBacklog
    <3>1. Tail(backlog) \in Seq(Segments) /\ Len(Tail(backlog)) <= MaxBacklog
        BY <1>1, <2>4 DEF RestOK, HandleBacklog
    <3> QED
        BY <1>1, <2>4, <3>1 DEF RestOK, HandleBacklog
  <2> QED
      BY <2>1, <2>2, <2>3, <2>4, <2>5 DEF Calls
<1>3. poller' \in Poller
  <2>1. CASE Shutdown \/ Disconnect
    <3>1. Wake(TRUE)
        BY <2>1 DEF Shutdown, Disconnect
    <3> QED
        BY <3>1, WakeType
  <2>2. CASE SetNotsentLowat
      BY <2>2, WakeType DEF SetNotsentLowat
  <2>3. CASE Read
      BY <1>1, <2>3 DEF Read, Poller
  <2>4. CASE Connect \/ Listen \/ Accept \/ Write \/ SetOption
      BY <1>1, <2>4 DEF Connect, Listen, Accept, Write, SetOption
  <2>5. CASE Close \/ LingerEnds \/ Orphan \/ HandleBacklog \/ CloseEnds
      BY <1>1, <2>5 DEF Close, LingerEnds, Orphan, HandleBacklog, CloseEnds
  <2> QED
      BY <2>1, <2>2, <2>3, <2>4, <2>5 DEF Calls
<1>4. sk' \in Sock
  <2>1. CASE Connect \/ Listen
      BY <1>1, <2>1, SetStateType DEF Connect, Listen, States
  <2>2. CASE Accept
    <3>1. [tcp_init_sock EXCEPT !.state = "ESTABLISHED"] \in Sock
        BY InitSockType DEF Sock, States
    <3>2. sk.lowat \in Nat /\ sk.linger2 \in Int
        BY <1>1 DEF Sock
    <3>3. [tcp_init_sock EXCEPT !.state = "ESTABLISHED",
               !.lowat = sk.lowat, !.linger2 = sk.linger2] \in Sock
        BY <3>1, <3>2 DEF Sock
    <3> QED
        BY <2>2, <3>3 DEF Accept
  <2>3. CASE Shutdown
    <3>1. PICK how \in SUBSET SHUTDOWN_MASK :
             sk' \in {sk, tcp_disconnect(sk),
                      tcp_shutdown([sk EXCEPT !.shutdown = @ \cup how], how)}
        BY <2>3 DEF Shutdown
    <3>2. [sk EXCEPT !.shutdown = @ \cup how] \in Sock
      <4>1. sk.shutdown \cup how \in SUBSET SHUTDOWN_MASK
          BY <1>1 DEF Sock
      <4> QED
          BY <1>1, <4>1 DEF Sock
    <3> QED
        BY <1>1, <3>1, <3>2, DisconnectType, CloseStateType
  <2>4. CASE Disconnect
      BY <1>1, <2>4, DisconnectType DEF Disconnect
  <2>5. CASE Write
    <3>1. sk.unsent + 1 \in Nat
        BY <1>1 DEF Sock
    <3>2. [sk EXCEPT !.unsent = sk.unsent + 1] \in Sock
        BY <1>1, <3>1 DEF Sock
    <3>3. [sk EXCEPT !.nospace = TRUE] \in Sock
        BY <1>1 DEF Sock
    <3> QED
        BY <2>5, <3>2, <3>3 DEF Write
  <2>6. CASE Read
    <3>1. CASE sk.receive_queue # <<>> /\
               sk' = [sk EXCEPT !.receive_queue = Tail(@)]
      <4>1. Tail(sk.receive_queue) \in Seq(Skb)
        <5>1. sk.receive_queue \in Seq(Skb)
            BY <1>1 DEF Sock
        <5> QED
            BY <3>1, <5>1
      <4> QED
          BY <1>1, <3>1, <4>1, QueueType
    <3>2. CASE sk' = [sk EXCEPT !.err = FALSE, !.killed = FALSE]
        BY <1>1, <3>2 DEF Sock
    <3> QED
        BY <2>6, <3>1, <3>2 DEF Read
  <2>7. CASE SetOption
      BY <1>1, <2>7, OptionTypes DEF SetOption
  <2>8. CASE SetNotsentLowat
    <3>1. PICK val \in Lowats :
             sk' \in {[sk EXCEPT !.lowat = val],
                      [[sk EXCEPT !.lowat = val] EXCEPT !.nospace = FALSE]}
        BY <2>8 DEF SetNotsentLowat
    <3>2. [sk EXCEPT !.lowat = val] \in Sock
        BY <1>1, OptionTypes
    <3>3. \A s \in Sock : [s EXCEPT !.nospace = FALSE] \in Sock
        BY DEF Sock
    <3> QED
        BY <3>1, <3>2, <3>3
  <2>9. CASE Close
      BY <1>1, <2>9, CloseConnectionType DEF Close
  <2>10. CASE LingerEnds
      BY <1>1, <2>10 DEF LingerEnds
  <2>11. CASE Orphan
      BY <1>1, <2>11 DEF Orphan, Sock
  <2>12. CASE HandleBacklog
    <3>1. Head(backlog) \in Segments
        BY <1>1, <2>12 DEF RestOK, HandleBacklog
    <3> QED
        BY <1>1, <2>12, <3>1, RcvType, SmallTypes DEF HandleBacklog
  <2>13. CASE CloseEnds
    <3>1. PICK long \in BOOLEAN, oom \in BOOLEAN :
             sk' = [AdjudgeToDeath(sk, sk.old, long, oom) EXCEPT !.old = "CLOSE"]
        BY <2>13 DEF CloseEnds
    <3>2. \A s \in Sock : [s EXCEPT !.old = "CLOSE"] \in Sock
        BY DEF Sock, States
    <3> QED
        BY <1>1, <3>1, <3>2, AdjudgeType
  <2> QED
      BY <2>1, <2>2, <2>3, <2>4, <2>5, <2>6, <2>7, <2>8, <2>9, <2>10, <2>11,
         <2>12, <2>13 DEF Calls
<1> QED
    BY <1>2, <1>3, <1>4 DEF TypeOK, RestOK

LEMMA NetworkType == TypeOK /\ (Network \/ Aborts) => TypeOK'
<1> SUFFICES ASSUME TypeOK, Network \/ Aborts
             PROVE  TypeOK'
    OBVIOUS
<1>1. RestOK /\ poller \in Poller /\ sk \in Sock
    BY DEF TypeOK, RestOK
<1>2. ASSUME NEW segment \in Segments, Arrives(segment)
      PROVE  /\ sk' \in Sock /\ poller' \in Poller
             /\ backlog' \in Seq(Segments) /\ Len(backlog') <= MaxBacklog
  <2>1. CASE UNCHANGED backlog /\ \E long \in BOOLEAN :
                LET next == tcp_rcv(sk, segment, long)
                IN sk' = Handled(next) /\ Wake(Notices(sk, next))
      BY <1>1, <2>1, RcvType, SmallTypes, WakeType DEF RestOK
  <2>2. CASE /\ Len(backlog) < MaxBacklog
             /\ backlog' = Append(backlog, segment)
             /\ UNCHANGED <<sk, poller>>
    <3>1. Append(backlog, segment) \in Seq(Segments)
          /\ Len(Append(backlog, segment)) = Len(backlog) + 1
          /\ Len(backlog) \in Nat
        BY <1>1 DEF RestOK
    <3> QED
        BY <1>1, <2>2, <3>1
  <2> QED
      BY <1>2, <2>1, <2>2 DEF Arrives
<1>3. CASE PeerConnects \/ PeerAcks \/ PeerSends \/ PeerFinishes \/ PeerResets
  <2>1. PICK segment \in Segments : Arrives(segment)
      BY <1>3
         DEF Segments, PeerConnects, PeerAcks, PeerSends, PeerFinishes, PeerResets
  <2>2. /\ app' = app /\ holder' = holder
        /\ peer' \in [met : BOOLEAN, talking : BOOLEAN, fin : BOOLEAN,
                      left : 0 .. MaxIn, wanted : 0 .. MaxOut]
    <3>1. CASE PeerSends
      <4>1. peer.left - 1 \in 0 .. MaxIn
          BY <1>1, <3>1 DEF RestOK, PeerSends
      <4> QED
          BY <1>1, <3>1, <4>1 DEF RestOK, PeerSends
    <3>2. CASE PeerConnects \/ PeerAcks \/ PeerFinishes \/ PeerResets
        BY <1>1, <3>2
           DEF RestOK, PeerConnects, PeerAcks, PeerFinishes, PeerResets
    <3> QED
        BY <1>3, <3>1, <3>2
  <2> QED
      BY <1>1, <1>2, <2>1, <2>2 DEF TypeOK, RestOK
<1>4. CASE PeerConnectsToListener
  <2>1. RestOK'
      BY <1>1, <1>4 DEF PeerConnectsToListener, RestOK
  <2>2. sk' \in Sock
      BY <1>1, <1>4 DEF PeerConnectsToListener, Sock
  <2> QED
      BY <1>4, <2>1, <2>2, WakeType DEF PeerConnectsToListener, TypeOK, RestOK
<1>5. CASE ResetBegins \/ ResetEnds \/ Transmit \/ OrphanTimer
  <2>1. RestOK' /\ poller' \in Poller
      BY <1>1, <1>5, WakeType
         DEF ResetBegins, ResetEnds, Transmit, OrphanTimer, RestOK
  <2>2. CASE ResetBegins
      BY <1>1, <2>1, <2>2 DEF ResetBegins, Sock, TypeOK, RestOK
  <2>3. CASE ResetEnds
      BY <1>1, <2>1, <2>3, SmallTypes, DoneType DEF ResetEnds, TypeOK, RestOK
  <2>4. CASE Transmit
    <3>1. sk.in_flight + sk.unsent \in Nat
        BY <1>1 DEF Sock
    <3>2. \A n \in Nat : \A f \in {"sent", sk.fin} :
             [sk EXCEPT !.in_flight = n, !.unsent = 0, !.fin = f] \in Sock
        BY <1>1 DEF Sock
    <3> QED
        BY <2>1, <2>4, <3>1, <3>2 DEF Transmit, TypeOK, RestOK
  <2>5. CASE OrphanTimer
      BY <1>1, <2>1, <2>5, SmallTypes, DoneType
         DEF OrphanTimer, tcp_time_wait, TypeOK, RestOK
  <2> QED
      BY <1>5, <2>2, <2>3, <2>4, <2>5
<1>6. CASE Aborts
  <2>1. RestOK' /\ poller' \in Poller
      BY <1>1, <1>6, WakeType DEF Aborts, AbortBegins, AbortEnds, RestOK
  <2>2. \A s \in Sock : [s EXCEPT !.err = TRUE, !.killed = TRUE] \in Sock
      BY DEF Sock
  <2>3. sk' \in Sock
      BY <1>1, <1>6, <2>2, SmallTypes, DoneType, SetStateType
         DEF Aborts, AbortBegins, AbortEnds, States
  <2> QED
      BY <2>1, <2>3 DEF TypeOK, RestOK
<1> QED
    BY <1>3, <1>4, <1>5, <1>6 DEF Network

LEMMA StepType == TypeOK /\ [Next]_vars => TypeOK'
<1>1. TypeOK /\ UNCHANGED vars => TypeOK'
    BY DEF TypeOK, vars
<1> QED
    BY <1>1, CallsType, PollsType, NetworkType DEF Next

LEMMA InitType == Init => TypeOK
<1> SUFFICES ASSUME Init
             PROVE  TypeOK
    OBVIOUS
<1>1. sk \in Sock /\ poller \in Poller
    BY InitSockType, PollerTypes DEF Init
<1>2. backlog \in Seq(Segments) /\ Len(backlog) = 0 /\ MaxBacklog >= 0
    BY DEF Init
<1>3. peer \in [met : BOOLEAN, talking : BOOLEAN, fin : BOOLEAN,
                left : 0 .. MaxIn, wanted : 0 .. MaxOut]
    BY DEF Init
<1> QED
    BY <1>1, <1>2, <1>3 DEF Init, TypeOK

(* Every variable keeps its type, for buffers, options and peers of every  *)
(* size.                                                                   *)
THEOREM TypeCorrect == Spec => []TypeOK
<1> QED
    BY InitType, StepType, PTL DEF Spec

(***************************************************************************)
(* What the other operators do to the fields.                              *)
(***************************************************************************)
LEMMA HandledIs ==
    ASSUME NEW s \in Sock
    PROVE  LET t == Handled(s)
           IN  /\ t.nospace = (s.nospace /\ ~Wakes_writers(s))
               /\ t.dead = s.dead /\ t.old = s.old /\ t.lowat = s.lowat
               /\ t.child = s.child /\ t.defer = s.defer
               /\ t.defer_asked = s.defer_asked /\ t.state = s.state
               /\ t.shutdown = s.shutdown /\ t.err = s.err
               /\ t.killed = s.killed /\ t.unread = s.unread
               /\ t.reset = s.reset /\ t.destroyed = s.destroyed
               /\ t.receive_queue = s.receive_queue
               /\ t.unsent = s.unsent /\ t.in_flight = s.in_flight
    BY DEF Handled, Sock

(* What a call of the application leaves as it is.                         *)
Kept(s, t) ==
    /\ t.dead = s.dead /\ t.old = s.old /\ t.destroyed = s.destroyed
    /\ t.defer = s.defer /\ t.defer_asked = s.defer_asked
    /\ Answers(s, t)

LEMMA KeptTwice ==
    ASSUME NEW r, NEW s, NEW t, Kept(r, s), Kept(s, t)
    PROVE  Kept(r, t)
    BY DEF Kept, Answers

LEMMA SmallKept ==
    ASSUME NEW s \in Sock
    PROVE  /\ Kept(s, s)
           /\ \A state : Kept(s, tcp_set_state(s, state))
           /\ Kept(s, tcp_send_active_reset(s))
           /\ Kept(s, tcp_send_fin(s))
           /\ Kept(s, tcp_write_queue_purge(s))
           /\ Kept(s, inet_csk_listen_stop(s))
           /\ Kept(s, [s EXCEPT !.err = TRUE])
           /\ Kept(s, [s EXCEPT !.timer = FALSE, !.receive_queue = <<>>,
                                !.shutdown = {}])
    BY DEF tcp_set_state, tcp_send_active_reset, tcp_send_fin,
           tcp_write_queue_purge, inet_csk_listen_stop, Kept, Answers, Sock

LEMMA DisconnectIs ==
    ASSUME NEW s \in Sock
    PROVE  Kept(s, tcp_disconnect(s)) /\ tcp_disconnect(s).state = "CLOSE"
<1> DEFINE closed == tcp_set_state(s, "CLOSE")
           Ended(t) == Kept(closed, t) /\ t.state = "CLOSE" /\ t \in Sock
<1>1. closed \in Sock /\ Kept(s, closed) /\ closed.state = "CLOSE"
  <2>1. closed \in Sock
      BY SetStateType DEF States
  <2>2. Kept(s, closed)
      BY SmallKept
  <2>3. closed.state = "CLOSE"
      BY DEF tcp_set_state, Sock
  <2> QED
      BY <2>1, <2>2, <2>3
<1> HIDE DEF closed
<1>2. /\ Ended(closed) /\ Ended(inet_csk_listen_stop(closed))
      /\ Ended([closed EXCEPT !.err = TRUE])
      /\ Ended([tcp_send_active_reset(closed) EXCEPT !.err = TRUE])
  <2>1. \A t \in Sock : t.state = "CLOSE" =>
            /\ inet_csk_listen_stop(t).state = "CLOSE"
            /\ [t EXCEPT !.err = TRUE] \in Sock
            /\ [t EXCEPT !.err = TRUE].state = "CLOSE"
            /\ tcp_send_active_reset(t).state = "CLOSE"
    <3> SUFFICES ASSUME NEW t \in Sock, t.state = "CLOSE"
                 PROVE  /\ inet_csk_listen_stop(t).state = "CLOSE"
                        /\ [t EXCEPT !.err = TRUE] \in Sock
                        /\ [t EXCEPT !.err = TRUE].state = "CLOSE"
                        /\ tcp_send_active_reset(t).state = "CLOSE"
        OBVIOUS
    <3>1. tcp_send_active_reset(t).state = "CLOSE"
          /\ inet_csk_listen_stop(t).state = "CLOSE"
        BY DEF inet_csk_listen_stop, tcp_send_active_reset, Sock
    <3>2. [t EXCEPT !.err = TRUE] \in Sock
          /\ [t EXCEPT !.err = TRUE].state = "CLOSE"
        BY DEF Sock
    <3> QED
        BY <3>1, <3>2
  <2>2. Ended(closed) /\ Ended(inet_csk_listen_stop(closed))
      BY <1>1, <2>1, SmallKept, SmallTypes
  <2>3. Ended([closed EXCEPT !.err = TRUE])
      BY <1>1, <2>1, SmallKept
  <2>4. Ended([tcp_send_active_reset(closed) EXCEPT !.err = TRUE])
    <3> DEFINE reset == tcp_send_active_reset(closed)
    <3>1. reset \in Sock /\ Kept(closed, reset) /\ reset.state = "CLOSE"
        BY <1>1, <2>1, SmallKept, SmallTypes
    <3> HIDE DEF reset
    <3>2. Kept(reset, [reset EXCEPT !.err = TRUE])
          /\ [reset EXCEPT !.err = TRUE] \in Sock
          /\ [reset EXCEPT !.err = TRUE].state = "CLOSE"
        BY <2>1, <3>1, SmallKept
    <3>3. Ended([reset EXCEPT !.err = TRUE])
        BY <3>1, <3>2, KeptTwice
    <3> QED
        BY <3>3 DEF reset
  <2> QED
      BY <2>2, <2>3, <2>4
<1> DEFINE last(t) == [tcp_write_queue_purge(t) EXCEPT !.timer = FALSE,
                            !.receive_queue = <<>>, !.shutdown = {}]
<1>3. ASSUME NEW t, Ended(t)
      PROVE  Kept(t, last(t)) /\ last(t).state = "CLOSE"
  <2> DEFINE u == tcp_write_queue_purge(t)
  <2>1. u \in Sock /\ Kept(t, u)
      BY <1>3, SmallKept, SmallTypes
  <2>2. u.state = "CLOSE"
      BY <1>3 DEF tcp_write_queue_purge, Sock
  <2> HIDE DEF u
  <2>3. /\ Kept(u, [u EXCEPT !.timer = FALSE, !.receive_queue = <<>>,
                            !.shutdown = {}])
        /\ [u EXCEPT !.timer = FALSE, !.receive_queue = <<>>,
                     !.shutdown = {}].state = "CLOSE"
      BY <2>1, <2>2, SmallKept DEF Sock
  <2> QED
      BY <2>1, <2>3, KeptTwice DEF u
<1>4. \E t : Ended(t) /\ tcp_disconnect(s) = last(t)
    BY <1>2, Zenon DEF tcp_disconnect, closed
<1> HIDE DEF Ended, last
<1>5. PICK t : Ended(t) /\ tcp_disconnect(s) = last(t)
    BY <1>4
<1>6. Kept(closed, t)
    BY <1>5 DEF Ended
<1>7. Kept(s, t)
    BY <1>1, <1>6, KeptTwice
<1> QED
    BY <1>3, <1>5, <1>7, KeptTwice

LEMMA CloseStateIs ==
    ASSUME NEW s \in Sock
    PROVE  /\ Kept(s, tcp_close_state(s))
           /\ s.state # "LISTEN" => tcp_close_state(s).state # "LISTEN"
           /\ \A how : /\ Kept(s, tcp_shutdown(s, how))
                       /\ s.state # "LISTEN" =>
                              tcp_shutdown(s, how).state # "LISTEN"
<1> DEFINE next == tcp_set_state(s, new_state[s.state])
<1>1. new_state[s.state] \in States \ {"LISTEN"} \/ s.state = "LISTEN"
    BY DEF new_state, States, Sock
<1>2. Kept(s, next) /\ next.state = new_state[s.state]
    BY SmallKept DEF tcp_set_state, Sock
<1>3. Kept(s, tcp_send_fin(next)) /\ tcp_send_fin(next).state = next.state
    BY DEF tcp_set_state, tcp_send_fin, Sock, Kept, Answers
<1>4. Kept(s, s)
    BY SmallKept
<1> HIDE DEF next
<1>5. tcp_close_state(s) \in {next, tcp_send_fin(next)}
    BY DEF tcp_close_state, next
<1>6. /\ Kept(s, tcp_close_state(s))
      /\ s.state # "LISTEN" => tcp_close_state(s).state # "LISTEN"
    BY <1>1, <1>2, <1>3, <1>5
<1> QED
    BY <1>4, <1>6 DEF tcp_shutdown

LEMMA CloseConnectionIs ==
    ASSUME NEW s \in Sock, NEW linger0 \in BOOLEAN
    PROVE  LET t == CloseConnection(s, linger0)
           IN  /\ t.dead = s.dead /\ t.destroyed = s.destroyed
               /\ t.defer = s.defer /\ t.defer_asked = s.defer_asked
               /\ t.state # "LISTEN"
               /\ Answers(s, t)
<1> DEFINE shut == tcp_set_state([s EXCEPT !.shutdown = SHUTDOWN_MASK], "CLOSE")
           flushed == [s EXCEPT !.shutdown = SHUTDOWN_MASK, !.receive_queue = <<>>]
           tossed == [flushed EXCEPT !.unread = @ \/ DataWasUnread(s)]
           t == CloseConnection(s, linger0)
           Closed(u) == /\ u.dead = s.dead /\ u.destroyed = s.destroyed
                        /\ u.defer = s.defer /\ u.defer_asked = s.defer_asked
                        /\ u.state # "LISTEN"
                        /\ Answers(s, u)
<1>1. CASE s.state = "LISTEN"
  <2>1. Closed(inet_csk_listen_stop(shut))
      BY DEF tcp_set_state, inet_csk_listen_stop, tcp_send_active_reset,
             Answers, Sock
  <2> HIDE DEF Closed
  <2>2. Closed(t)
      BY <1>1, <2>1 DEF CloseConnection
  <2> QED
      BY <2>2 DEF Closed
<1>2. CASE s.state # "LISTEN"
  <2>1. /\ flushed \in Sock /\ Kept(s, flushed) /\ flushed.state = s.state
        /\ tossed \in Sock
        /\ tossed.dead = s.dead /\ tossed.destroyed = s.destroyed
        /\ tossed.defer = s.defer /\ tossed.defer_asked = s.defer_asked
        /\ tossed.state = s.state /\ tossed.reset = s.reset
        /\ tossed.err = s.err /\ tossed.killed = s.killed
        /\ tossed.unread = (s.unread \/ DataWasUnread(s))
    <3>1. SHUTDOWN_MASK \in SUBSET SHUTDOWN_MASK /\ <<>> \in Seq(Skb)
        OBVIOUS
    <3>2. flushed \in Sock
        BY <3>1, QueueType, Zenon
    <3>3. DataWasUnread(s) \in BOOLEAN
        BY DEF DataWasUnread
    <3>4. flushed \in Sock /\ Kept(s, flushed) /\ flushed.state = s.state
          /\ flushed.unread = s.unread /\ flushed.reset = s.reset
          /\ flushed.err = s.err /\ flushed.killed = s.killed
        BY <3>2 DEF Sock, Kept, Answers
    <3> HIDE DEF flushed
    <3> QED
        BY <3>3, <3>4 DEF Sock, Kept
  <2> HIDE DEF flushed, tossed
  <2> DEFINE reset == tcp_send_active_reset(tcp_set_state(tossed, "CLOSE"))
  <2>2. /\ reset.dead = tossed.dead /\ reset.destroyed = tossed.destroyed
        /\ reset.defer = tossed.defer /\ reset.state = "CLOSE"
        /\ reset.defer_asked = tossed.defer_asked /\ reset.reset
        /\ reset.err = tossed.err /\ reset.killed = tossed.killed
      BY <2>1 DEF tcp_set_state, tcp_send_active_reset, Sock
  <2> HIDE DEF reset
  <2>3. Closed(flushed)
      BY <1>2, <2>1 DEF Kept
  <2>4. Closed(tcp_disconnect(flushed))
      BY <2>1, <2>3, DisconnectIs DEF Kept, Answers
  <2>5. Closed(reset)
      BY <2>1, <2>2 DEF Answers
  <2>6. ~DataWasUnread(s) => Closed(tcp_disconnect(tossed))
      BY <2>1, DisconnectIs DEF Kept, Answers
  <2>7. ~DataWasUnread(s) => Closed(tcp_close_state(tossed))
      BY <1>2, <2>1, CloseStateIs DEF Kept, Answers
  <2> HIDE DEF Closed
  <2>8. Closed(t)
      BY <1>2, <2>3, <2>4, <2>5, <2>6, <2>7, Zenon
         DEF CloseConnection, flushed, tossed, reset
  <2> QED
      BY <2>8 DEF Closed
<1> QED
    BY <1>1, <1>2

LEMMA AdjudgeIs ==
    ASSUME NEW s \in Sock, NEW old, NEW long \in BOOLEAN, NEW oom \in BOOLEAN,
           s.dead, s.state # "LISTEN", old = "CLOSE" => s.state = "CLOSE",
           s.destroyed = IF old # "CLOSE" /\ s.state = "CLOSE" THEN 1 ELSE 0
    PROVE  LET t == AdjudgeToDeath(s, old, long, oom)
           IN  /\ t.dead /\ t.state # "LISTEN" /\ Answers(s, t)
               /\ t.defer = s.defer /\ t.defer_asked = s.defer_asked
               /\ t.destroyed = IF t.state = "CLOSE" THEN 1 ELSE 0
<1> DEFINE reset == tcp_send_active_reset(tcp_set_state(s, "CLOSE"))
           timed == [s EXCEPT !.timer = TRUE]
           Judged(t) == /\ t.dead /\ t.state # "LISTEN" /\ Answers(s, t)
                        /\ t.defer = s.defer /\ t.defer_asked = s.defer_asked
                        /\ t.destroyed = IF t.state = "CLOSE" THEN 1 ELSE 0
<1>1. CASE old # "CLOSE" /\ s.state = "CLOSE"
    BY <1>1 DEF AdjudgeToDeath, Answers
<1>2. CASE s.state = "CLOSE" => old = "CLOSE"
  <2>1. s.destroyed = 0
      BY <1>2
  <2>2. Judged(tcp_time_wait(s))
      BY <2>1, DoneIs DEF tcp_time_wait, Same, Answers, Destroyed
  <2>3. Judged(inet_csk_destroy_sock(reset))
      BY <2>1 DEF inet_csk_destroy_sock, tcp_set_state, tcp_send_active_reset,
                  Sock, Answers
  <2>4. s.state = "CLOSE" => Judged(inet_csk_destroy_sock(s))
      BY <2>1 DEF inet_csk_destroy_sock, Sock, Answers
  <2>5. s.state # "CLOSE" => Judged(s) /\ Judged(timed)
      BY <2>1 DEF Sock, Answers
  <2>6. reset.state = "CLOSE" /\ timed.state = s.state
      BY DEF tcp_set_state, tcp_send_active_reset, Sock
  <2> HIDE DEF Judged, reset, timed
  <2>7. Judged(AdjudgeToDeath(s, old, long, oom))
      BY <1>2, <2>2, <2>3, <2>4, <2>5, <2>6 DEF AdjudgeToDeath, reset, timed
  <2> QED
      BY <2>7 DEF Judged
<1> QED
    BY <1>1, <1>2

(***************************************************************************)
(* The promises to the peer and to the kernel, and where tcp_close() is.   *)
(***************************************************************************)
(* An action of the application on a socket with a process.                *)
LEMMA KeptKeeps ==
    ASSUME TypeOK, Promises, app = "open", holder = "free", Kept(sk, sk'),
           UNCHANGED <<app, holder>>
    PROVE  Promises'
<1>1. ~sk.dead /\ sk.destroyed = 0
    BY DEF Promises, CloseInv, DestroyedOnce
<1>2. sk'.dead = sk.dead /\ sk'.destroyed = sk.destroyed
    BY DEF Kept
<1>3. DestroyedOnce' /\ CloseInv'
    BY <1>1, <1>2 DEF DestroyedOnce, CloseInv
<1> QED
    BY <1>3 DEF Promises, Kept, Answers, DeferInv, LossIsReset

LEMMA ReceivedKeeps ==
    ASSUME TypeOK, Promises, holder # "reset",
           NEW segment \in Segments, NEW long \in BOOLEAN,
           sk' = Handled(tcp_rcv(sk, segment, long)),
           UNCHANGED <<app, holder>>, poller'.pc = poller.pc
    PROVE  Promises'
<1> DEFINE t == tcp_rcv(sk, segment, long)
<1>1. sk \in Sock /\ t \in Sock /\ Received(sk, t)
    BY RcvIs, RcvType DEF TypeOK
<1> HIDE DEF t
<1>2. /\ sk'.dead = sk.dead /\ sk'.old = sk.old
      /\ sk'.defer = sk.defer /\ sk'.defer_asked = sk.defer_asked
      /\ Answers(sk, sk') /\ Ends(sk, sk')
    BY <1>1, HandledIs DEF Received, Same, Answers, Ends, t
<1>3. CloseInv'
    BY <1>2 DEF Promises, CloseInv, Ends
<1>4. DestroyedOnce'
  <2>1. sk.destroyed \in {0, 1}
      BY DEF Promises, DestroyedOnce
  <2>2. CASE sk.dead
      BY <1>2, <2>1, <2>2 DEF Promises, DestroyedOnce, CloseInv, Ends, Destroyed
  <2>3. CASE ~sk.dead
    <3>1. app \notin {"backlog", "closed"} /\ sk.dead \in BOOLEAN
        BY <1>1, <2>3 DEF Promises, CloseInv, Sock
    <3> QED
        BY <1>2, <2>3, <3>1 DEF Promises, DestroyedOnce, Ends
  <2> QED
      BY <2>2, <2>3
<1> QED
    BY <1>2, <1>3, <1>4 DEF Promises, Answers, DeferInv, LossIsReset

LEMMA CallsPromises == TypeOK /\ Promises /\ Calls => Promises'
<1> SUFFICES ASSUME TypeOK, Promises, Calls
             PROVE  Promises'
    OBVIOUS
<1>1. sk \in Sock
    BY DEF TypeOK
<1>2. CASE Connect \/ Listen
    BY <1>1, <1>2, KeptKeeps, SmallKept DEF Connect, Listen, Free
<1>3. CASE Accept
  <2>1. /\ ~sk'.dead /\ sk'.destroyed = 0 /\ ~sk'.unread /\ ~sk'.killed
        /\ sk'.defer = 0 /\ sk'.defer_asked = 0
        /\ app' = "open" /\ holder' = "free"
      BY <1>3 DEF Accept, Free, tcp_init_sock
  <2>2. DeferInv'
      BY <2>1 DEF DeferInv, secs_to_retrans
  <2> QED
      BY <2>1, <2>2 DEF Promises, LossIsReset, DestroyedOnce, CloseInv
<1>4. CASE Shutdown
  <2>1. PICK how \in SUBSET SHUTDOWN_MASK :
           sk' \in {sk, tcp_disconnect(sk),
                    tcp_shutdown([sk EXCEPT !.shutdown = @ \cup how], how)}
      BY <1>4 DEF Shutdown
  <2> DEFINE told == [sk EXCEPT !.shutdown = @ \cup how]
  <2>2. told \in Sock
    <3>1. sk.shutdown \cup how \in SUBSET SHUTDOWN_MASK
        BY <1>1 DEF Sock
    <3> QED
        BY <1>1, <3>1 DEF Sock
  <2>3. Kept(sk, told)
      BY <1>1 DEF Kept, Answers, Sock
  <2> HIDE DEF told
  <2>4. Kept(told, tcp_shutdown(told, how))
      BY <2>2, CloseStateIs
  <2>5. Kept(sk, tcp_shutdown(told, how))
      BY <2>3, <2>4, KeptTwice
  <2>6. Kept(sk, sk) /\ Kept(sk, tcp_disconnect(sk))
      BY <1>1, SmallKept, DisconnectIs
  <2>7. Kept(sk, sk')
      BY <2>1, <2>5, <2>6 DEF told
  <2> QED
      BY <1>4, <2>7, KeptKeeps DEF Shutdown, Free
<1>5. CASE Disconnect
    BY <1>1, <1>5, KeptKeeps, DisconnectIs DEF Disconnect, Free
<1>6. CASE Write
  <2>1. Kept(sk, sk')
      BY <1>1, <1>6 DEF Write, Kept, Answers, Sock
  <2> QED
      BY <1>6, <2>1, KeptKeeps DEF Write, Free
<1>7. CASE Read
  <2>1. CASE sk' = [sk EXCEPT !.receive_queue = Tail(@)]
    <3>1. Kept(sk, sk')
        BY <1>1, <2>1 DEF Kept, Answers, Sock
    <3> QED
        BY <1>7, <3>1, KeptKeeps DEF Read, Free
  <2>2. CASE sk' = [sk EXCEPT !.err = FALSE, !.killed = FALSE]
    <3>1. /\ sk'.dead = sk.dead /\ sk'.destroyed = sk.destroyed
          /\ sk'.unread = sk.unread /\ sk'.reset = sk.reset /\ ~sk'.killed
          /\ sk'.defer = sk.defer /\ sk'.defer_asked = sk.defer_asked
          /\ app = "open" /\ app' = "open" /\ holder' = "free"
        BY <1>1, <1>7, <2>2 DEF Read, Free, Sock
    <3> QED
        BY <3>1 DEF Promises, DeferInv, LossIsReset, DestroyedOnce, CloseInv
  <2> QED
      BY <1>7, <2>1, <2>2 DEF Read
<1>8. CASE SetOption
  <2>1. CASE \E val \in DeferSeconds : sk' = setsockopt_DEFER_ACCEPT(sk, val)
    <3>1. /\ sk'.dead = sk.dead /\ sk'.destroyed = sk.destroyed
          /\ sk'.unread = sk.unread /\ sk'.reset = sk.reset
          /\ sk'.killed = sk.killed /\ sk'.err = sk.err
          /\ app = "open" /\ app' = "open" /\ holder' = "free"
          /\ DeferInv'
        BY <1>1, <1>8, <2>1
           DEF SetOption, Free, setsockopt_DEFER_ACCEPT, Sock, DeferInv
    <3> QED
        BY <3>1 DEF Promises, LossIsReset, DestroyedOnce, CloseInv
  <2>2. CASE \/ \E val \in Linger2s : sk' = setsockopt_LINGER2(sk, val)
             \/ \E val \in BOOLEAN : sk' = setsockopt_REPAIR(sk, val)
    <3>1. Kept(sk, sk')
        BY <1>1, <2>2
           DEF setsockopt_LINGER2, setsockopt_REPAIR, Kept, Answers, Sock
    <3> QED
        BY <1>8, <3>1, KeptKeeps DEF SetOption, Free
  <2> QED
      BY <1>8, <2>1, <2>2 DEF SetOption
<1>9. CASE SetNotsentLowat
  <2>1. Kept(sk, sk')
      BY <1>1, <1>9 DEF SetNotsentLowat, Kept, Answers, Sock
  <2> QED
      BY <1>9, <2>1, KeptKeeps DEF SetNotsentLowat, Free
<1>10. CASE Close
  <2>1. PICK linger0 \in BOOLEAN : sk' = CloseConnection(sk, linger0)
      BY <1>10 DEF Close
  <2>2. /\ sk'.dead = sk.dead /\ sk'.destroyed = sk.destroyed
        /\ sk'.defer = sk.defer /\ sk'.defer_asked = sk.defer_asked
        /\ sk'.state # "LISTEN" /\ Answers(sk, sk')
      BY <1>1, <2>1, CloseConnectionIs
  <2>3. app = "open" /\ ~sk.dead /\ sk.destroyed = 0
      BY <1>10 DEF Close, Free, Promises, CloseInv, DestroyedOnce
  <2>4. \/ app' = "lingering" /\ holder' = "free"
        \/ app' = "adjudge" /\ holder' = "close"
      BY <1>10 DEF Close
  <2>5. poller'.pc = "idle"
      BY <1>10 DEF Close
  <2>6. CloseInv' /\ DestroyedOnce'
      BY <2>2, <2>3, <2>4, <2>5 DEF CloseInv, DestroyedOnce
  <2> QED
      BY <2>2, <2>6 DEF Promises, DeferInv, LossIsReset, Answers
<1>11. CASE LingerEnds
    BY <1>11 DEF LingerEnds, Promises, DeferInv, LossIsReset, CloseInv,
                 DestroyedOnce
<1>12. CASE Orphan
  <2>1. /\ sk'.dead /\ sk'.old = sk.state /\ sk'.destroyed = sk.destroyed
        /\ sk'.unread = sk.unread /\ sk'.reset = sk.reset
        /\ sk'.killed = sk.killed /\ sk'.err = sk.err
        /\ sk'.state = sk.state
        /\ sk'.defer = sk.defer /\ sk'.defer_asked = sk.defer_asked
      BY <1>1, <1>12 DEF Orphan, Sock
  <2>2. app = "adjudge" /\ app' = "backlog" /\ UNCHANGED <<holder, poller>>
      BY <1>12 DEF Orphan
  <2>3. CloseInv' /\ DestroyedOnce'
      BY <2>1, <2>2 DEF CloseInv, DestroyedOnce, Promises
  <2> QED
      BY <2>1, <2>3 DEF Promises, DeferInv, LossIsReset
<1>13. CASE HandleBacklog
  <2>1. Head(backlog) \in Segments
      BY <1>13 DEF HandleBacklog, TypeOK
  <2>2. holder # "reset"
      BY <1>13 DEF HandleBacklog, Promises, CloseInv
  <2> QED
      BY <1>13, <2>1, <2>2, ReceivedKeeps DEF HandleBacklog
<1>14. CASE CloseEnds
  <2>1. PICK long \in BOOLEAN, oom \in BOOLEAN :
           sk' = [AdjudgeToDeath(sk, sk.old, long, oom) EXCEPT !.old = "CLOSE"]
      BY <1>14 DEF CloseEnds
  <2> DEFINE t == AdjudgeToDeath(sk, sk.old, long, oom)
  <2>2. /\ sk.dead /\ sk.state # "LISTEN"
        /\ sk.old = "CLOSE" => sk.state = "CLOSE"
        /\ sk.destroyed = IF sk.old # "CLOSE" /\ sk.state = "CLOSE" THEN 1 ELSE 0
      BY <1>14 DEF CloseEnds, Promises, CloseInv, DestroyedOnce
  <2>3. /\ t.dead /\ t.state # "LISTEN" /\ Answers(sk, t)
        /\ t.defer = sk.defer /\ t.defer_asked = sk.defer_asked
        /\ t.destroyed = IF t.state = "CLOSE" THEN 1 ELSE 0
      BY <1>1, <2>2, AdjudgeIs
  <2>4. t \in Sock
      BY <1>1, AdjudgeType
  <2> HIDE DEF t
  <2>5. /\ sk'.dead /\ sk'.state # "LISTEN" /\ Answers(sk, sk')
        /\ sk'.defer = sk.defer /\ sk'.defer_asked = sk.defer_asked
        /\ sk'.destroyed = IF sk'.state = "CLOSE" THEN 1 ELSE 0
    <3>1. sk' = [t EXCEPT !.old = "CLOSE"]
        BY <2>1 DEF t
    <3> QED
        BY <2>3, <2>4, <3>1 DEF Sock, Answers
  <2>6. app = "backlog" /\ app' = "closed" /\ holder' = "free" /\ UNCHANGED poller
      BY <1>14 DEF CloseEnds
  <2>7. CloseInv' /\ DestroyedOnce'
      BY <2>5, <2>6 DEF CloseInv, DestroyedOnce, Promises
  <2> QED
      BY <2>5, <2>7 DEF Promises, DeferInv, LossIsReset, Answers
<1> QED
    BY <1>2, <1>3, <1>4, <1>5, <1>6, <1>7, <1>8, <1>9, <1>10, <1>11, <1>12,
       <1>13, <1>14 DEF Calls

LEMMA PollsPromises == TypeOK /\ Promises /\ Polls => Promises'
<1> SUFFICES ASSUME TypeOK, Promises, Polls
             PROVE  Promises'
    OBVIOUS
<1>1. sk \in Sock /\ poller \in Poller
    BY DEF TypeOK
<1>2. Kept(sk, sk') /\ sk'.state = sk.state
    BY <1>1 DEF Polls, PollStart, PollAgain, PollReturns, PollListen, PollTests,
                PollSetsNospace, PollRechecks, PollReadsErr, Kept, Answers, Sock
<1>3. UNCHANGED <<app, holder>>
    BY DEF Polls, PollStart, PollAgain, PollReturns, PollListen, PollTests,
           PollSetsNospace, PollRechecks, PollReadsErr
<1>4. app = "open"
    BY DEF Polls, PollStart, PollAgain, PollReturns, PollListen, PollTests,
           PollSetsNospace, PollRechecks, PollReadsErr, Promises, CloseInv
<1>5. CloseInv' /\ DestroyedOnce'
    BY <1>2, <1>3, <1>4 DEF CloseInv, DestroyedOnce, Promises, Kept
<1> QED
    BY <1>2, <1>5 DEF Promises, DeferInv, LossIsReset, Kept, Answers

LEMMA WakeKeepsPlace ==
    ASSUME TypeOK, NEW condition, Wake(condition)
    PROVE  poller'.pc = poller.pc
    BY DEF TypeOK, Wake, Poller

LEMMA NetworkPromises == TypeOK /\ Promises /\ (Network \/ Aborts) => Promises'
<1> SUFFICES ASSUME TypeOK, Promises, Network \/ Aborts
             PROVE  Promises'
    OBVIOUS
<1>1. sk \in Sock
    BY DEF TypeOK
<1>2. ASSUME NEW segment \in Segments, Arrives(segment), UNCHANGED <<app, holder>>
      PROVE  Promises'
  <2>1. CASE UNCHANGED <<sk, poller>>
      BY <1>2, <2>1 DEF Promises, DeferInv, LossIsReset, DestroyedOnce, CloseInv
  <2>2. CASE /\ holder = "free"
             /\ \E long \in BOOLEAN :
                   LET next == tcp_rcv(sk, segment, long)
                   IN sk' = Handled(next) /\ Wake(Notices(sk, next))
      BY <1>2, <2>2, ReceivedKeeps, WakeKeepsPlace
  <2> QED
      BY <1>2, <2>1, <2>2 DEF Arrives
<1>3. CASE PeerConnects \/ PeerAcks \/ PeerSends \/ PeerFinishes \/ PeerResets
  <2>1. PICK segment \in Segments : Arrives(segment)
      BY <1>3
         DEF Segments, PeerConnects, PeerAcks, PeerSends, PeerFinishes, PeerResets
  <2> QED
      BY <1>2, <1>3, <2>1
         DEF PeerConnects, PeerAcks, PeerSends, PeerFinishes, PeerResets
<1>4. ASSUME Kept(sk, sk'), UNCHANGED app,
             holder \in {"free", "reset", "abort"},
             holder' \in {"free", "reset", "abort"},
             app # "open" => sk'.state # "LISTEN",
             sk'.state = "CLOSE" => sk.state = "CLOSE" \/ ~sk.dead,
             sk.state = "CLOSE" => sk'.state = "CLOSE",
             holder' = "reset" => sk'.state \notin {"CLOSE", "LISTEN"},
             poller'.pc = poller.pc
      PROVE  Promises'
  <2>1. CloseInv'
      BY <1>4 DEF Promises, CloseInv, Kept
  <2>2. DestroyedOnce'
      BY <1>4 DEF Promises, CloseInv, DestroyedOnce, Kept
  <2> QED
      BY <1>4, <2>1, <2>2 DEF Promises, DeferInv, LossIsReset, Kept, Answers
<1>5. ASSUME NEW s \in Sock, Kept(sk, s), s.state = sk.state,
             sk.state # "CLOSE", sk' = tcp_done(s), UNCHANGED app,
             holder \in {"free", "reset", "abort"},
             holder' \in {"free", "abort"}, poller'.pc = poller.pc
      PROVE  Promises'
  <2>1. /\ sk'.dead = sk.dead /\ sk'.old = sk.old
        /\ sk'.defer = sk.defer /\ sk'.defer_asked = sk.defer_asked
        /\ Answers(sk, sk') /\ sk'.state = "CLOSE"
        /\ sk'.destroyed = IF sk.dead THEN Destroyed(sk) ELSE sk.destroyed
      BY <1>5, DoneIs DEF Same, Kept, Answers, Destroyed
  <2>2. CloseInv'
      BY <1>5, <2>1 DEF Promises, CloseInv
  <2>3. sk.destroyed = 0 /\ (sk.dead <=> app = "closed")
      BY <1>5 DEF Promises, CloseInv, DestroyedOnce
  <2>4. DestroyedOnce'
      BY <1>5, <2>1, <2>3 DEF DestroyedOnce, Destroyed, Promises, CloseInv
  <2> QED
      BY <2>1, <2>2, <2>4 DEF Promises, DeferInv, LossIsReset, Answers
<1>6. CASE PeerConnectsToListener
  <2>1. Kept(sk, sk') /\ sk'.state = sk.state
      BY <1>1, <1>6 DEF PeerConnectsToListener, Kept, Answers, Sock
  <2> QED
      BY <1>4, <1>6, <2>1, WakeKeepsPlace
         DEF PeerConnectsToListener, Promises, CloseInv
<1>7. CASE ResetBegins
  <2>1. Kept(sk, sk') /\ sk'.state = sk.state
      BY <1>1, <1>7 DEF ResetBegins, Kept, Answers, Sock
  <2> QED
      BY <1>4, <1>7, <2>1 DEF ResetBegins, Promises, CloseInv
<1>8. CASE ResetEnds
  <2> DEFINE s == tcp_write_queue_purge(sk)
  <2>1. s \in Sock /\ Kept(sk, s) /\ s.state = sk.state
    <3>1. s.state = sk.state
        BY <1>1 DEF tcp_write_queue_purge, Sock
    <3> QED
        BY <1>1, <3>1, SmallKept, SmallTypes
  <2>2. sk.state # "CLOSE" /\ sk' = tcp_done(s)
      BY <1>8 DEF ResetEnds, Promises, CloseInv
  <2> HIDE DEF s
  <2> QED
      BY <1>5, <1>8, <2>1, <2>2, WakeKeepsPlace DEF ResetEnds
<1>9. CASE Transmit
  <2>1. Kept(sk, sk') /\ sk'.state = sk.state
      BY <1>1, <1>9 DEF Transmit, Kept, Answers, Sock
  <2> QED
      BY <1>4, <1>9, <2>1 DEF Transmit, Promises, CloseInv
<1>10. CASE OrphanTimer
  <2> DEFINE r == tcp_send_active_reset(sk)
  <2>1. Kept(sk, sk) /\ r \in Sock /\ Kept(sk, r)
      BY <1>1, SmallKept, SmallTypes
  <2>2. r.state = sk.state
      BY <1>1 DEF tcp_send_active_reset, Sock
  <2> HIDE DEF r
  <2>3. PICK s \in {sk, r} : sk' = tcp_done(s)
      BY <1>10 DEF OrphanTimer, tcp_time_wait, r
  <2> QED
      BY <1>1, <1>5, <1>10, <2>1, <2>2, <2>3 DEF OrphanTimer
<1>11. CASE AbortBegins
  <2>1. CASE sk.dead
    <3>1. sk.state # "LISTEN"
        BY <2>1 DEF Promises, CloseInv
    <3>2. sk' = sk
        BY <1>11, <2>1, <3>1 DEF AbortBegins
    <3> QED
        BY <1>4, <1>11, <3>1, <3>2, <1>1, SmallKept, WakeKeepsPlace
           DEF AbortBegins
  <2>2. CASE ~sk.dead
    <3> DEFINE closed == tcp_set_state(sk, "CLOSE")
               heard == IF sk.state = "LISTEN"
                        THEN inet_csk_listen_stop(closed) ELSE sk
               failed == [heard EXCEPT !.err = TRUE, !.killed = TRUE]
    <3>1. heard \in Sock /\ Kept(sk, heard) /\ heard.state # "LISTEN"
          /\ (sk.state = "CLOSE" => heard.state = "CLOSE")
      <4>1. closed \in Sock /\ Kept(sk, closed)
          BY <1>1, SetStateType, SmallKept DEF States
      <4>2. closed.state = "CLOSE"
          BY <1>1 DEF tcp_set_state, Sock
      <4> HIDE DEF closed
      <4>3. inet_csk_listen_stop(closed) \in Sock
            /\ Kept(closed, inet_csk_listen_stop(closed))
          BY <4>1, SmallKept, SmallTypes
      <4>4. inet_csk_listen_stop(closed).state = "CLOSE"
          BY <4>1, <4>2
             DEF inet_csk_listen_stop, tcp_send_active_reset, Sock
      <4>5. Kept(sk, inet_csk_listen_stop(closed)) /\ Kept(sk, sk)
          BY <4>1, <4>3, <1>1, KeptTwice, SmallKept
      <4> QED
          BY <1>1, <4>3, <4>4, <4>5
    <3> HIDE DEF heard
    <3>2. Kept(heard, failed) /\ failed.state = heard.state /\ failed \in Sock
      <4>1. failed \in Sock
          BY <3>1 DEF Sock
      <4> QED
          BY <3>1, <4>1 DEF Kept, Answers, Sock
    <3> HIDE DEF failed
    <3>3. /\ Kept(failed, tcp_send_active_reset(failed))
          /\ tcp_send_active_reset(failed).state = failed.state
      <4>1. tcp_send_active_reset(failed).state = failed.state
          BY <3>2 DEF tcp_send_active_reset, Sock
      <4> QED
          BY <3>2, <4>1, SmallKept
    <3>4. sk' \in {failed, tcp_send_active_reset(failed)}
        BY <1>11, <2>2 DEF AbortBegins, failed, heard
    <3>5. Kept(sk, failed)
        BY <3>1, <3>2, KeptTwice
    <3>6. Kept(sk, tcp_send_active_reset(failed))
        BY <3>3, <3>5, KeptTwice
    <3>7. Kept(sk, sk') /\ sk'.state = heard.state
        BY <3>2, <3>3, <3>4, <3>5, <3>6
    <3> QED
        BY <1>4, <1>11, <2>2, <3>1, <3>7, WakeKeepsPlace DEF AbortBegins
  <2> QED
      BY <2>1, <2>2
<1>12. CASE AbortEnds
  <2>1. PICK s \in {sk, tcp_done(sk)} :
             sk' = tcp_write_queue_purge(s) /\ (s = sk <=> sk.dead \/ tcp_done(sk) = sk)
      BY <1>12 DEF AbortEnds
  <2>2. Kept(sk, s) /\ s \in Sock
        /\ s.state = IF s = sk THEN sk.state ELSE "CLOSE"
    <3>1. CASE s = sk
        BY <1>1, <3>1, SmallKept
    <3>2. CASE s = tcp_done(sk) /\ ~sk.dead
        BY <1>1, <3>2, DoneIs, DoneType DEF Same, Kept, Answers
    <3> QED
        BY <2>1, <3>1, <3>2, <1>1 DEF Sock
  <2>3. Kept(sk, sk') /\ sk'.state = s.state
    <3>1. sk'.state = s.state
        BY <2>1, <2>2 DEF tcp_write_queue_purge, Sock
    <3>2. Kept(s, sk')
        BY <2>1, <2>2, SmallKept
    <3> QED
        BY <2>2, <3>1, <3>2, KeptTwice
  <2> QED
      BY <1>4, <1>12, <2>1, <2>2, <2>3, WakeKeepsPlace, <1>1
         DEF AbortEnds, Promises, CloseInv, Sock
<1> QED
    BY <1>3, <1>6, <1>7, <1>8, <1>9, <1>10, <1>11, <1>12 DEF Network, Aborts

LEMMA StepPromises == TypeOK /\ Promises /\ [Next]_vars => Promises'
<1>1. TypeOK /\ Promises /\ UNCHANGED vars => Promises'
    BY DEF Promises, DeferInv, LossIsReset, DestroyedOnce, CloseInv, vars
<1> QED
    BY <1>1, CallsPromises, PollsPromises, NetworkPromises DEF Next

LEMMA InitPromises == Init => Promises
    BY DEF Init, tcp_init_sock, Promises, DeferInv, LossIsReset, DestroyedOnce,
           CloseInv, secs_to_retrans, NoPoll

(***************************************************************************)
(* The thread in poll().                                                   *)
(***************************************************************************)

(* sk_err is only taken back by whoever reads it.                          *)
LEMMA ErrStays ==
    ASSUME TypeOK, Calls \/ Network \/ Aborts
    PROVE  \/ poller' = [poller EXCEPT !.hangup = FALSE]
           \/ poller.pc = "idle" /\ poller' = poller
           \/ /\ sk.err => sk'.err
              /\ poller' \in {poller, [poller EXCEPT !.woken = TRUE]}
<1>1. sk \in Sock
    BY DEF TypeOK
<1> DEFINE Stays == /\ sk.err => sk'.err
                    /\ poller' \in {poller, [poller EXCEPT !.woken = TRUE]}
<1>2. CASE Connect \/ Listen \/ Write \/ SetOption \/ SetNotsentLowat
  <2>1. sk.err => sk'.err
      BY <1>1, <1>2
         DEF Connect, Listen, Write, SetOption, SetNotsentLowat, tcp_set_state,
             setsockopt_DEFER_ACCEPT, setsockopt_LINGER2, setsockopt_REPAIR, Sock
  <2> QED
      BY <1>2, <2>1
         DEF Connect, Listen, Write, SetOption, SetNotsentLowat, Wake
<1>3. CASE Shutdown
  <2>1. PICK how \in SUBSET SHUTDOWN_MASK :
           sk' \in {sk, tcp_disconnect(sk),
                    tcp_shutdown([sk EXCEPT !.shutdown = @ \cup how], how)}
      BY <1>3 DEF Shutdown
  <2>2. [sk EXCEPT !.shutdown = @ \cup how] \in Sock
    <3>1. sk.shutdown \cup how \in SUBSET SHUTDOWN_MASK
        BY <1>1 DEF Sock
    <3> QED
        BY <1>1, <3>1 DEF Sock
  <2>3. [sk EXCEPT !.shutdown = @ \cup how].err = sk.err
      BY <1>1 DEF Sock
  <2>4. sk.err => sk'.err
      BY <1>1, <2>1, <2>2, <2>3, DisconnectIs, CloseStateIs DEF Kept, Answers
  <2> QED
      BY <1>3, <2>4 DEF Shutdown, Wake
<1>4. CASE Disconnect
    BY <1>1, <1>4, DisconnectIs DEF Disconnect, Wake, Kept, Answers
<1>5. CASE Accept \/ Close
    BY <1>5 DEF Accept, Close
<1>6. CASE Read
  <2>1. [sk EXCEPT !.receive_queue = Tail(@)].err = sk.err
      BY <1>1 DEF Sock
  <2> QED
      BY <1>6, <2>1 DEF Read
<1>7. CASE LingerEnds \/ Orphan
    BY <1>1, <1>7 DEF LingerEnds, Orphan, Sock
<1>8. ASSUME NEW segment \in Segments, NEW long \in BOOLEAN,
             sk' = Handled(tcp_rcv(sk, segment, long))
      PROVE  sk.err => sk'.err
    BY <1>1, <1>8, RcvIs, RcvType, HandledIs DEF Received, Answers
<1>9. CASE HandleBacklog
  <2>1. Head(backlog) \in Segments
      BY <1>9 DEF HandleBacklog, TypeOK
  <2> QED
      BY <1>8, <1>9, <2>1 DEF HandleBacklog
<1>10. CASE CloseEnds
  <2>1. PICK long \in BOOLEAN, oom \in BOOLEAN :
           sk' = [AdjudgeToDeath(sk, sk.old, long, oom) EXCEPT !.old = "CLOSE"]
      BY <1>10 DEF CloseEnds
  <2> DEFINE t == AdjudgeToDeath(sk, sk.old, long, oom)
  <2>2. t.err = sk.err
      BY <1>1, DoneIs
         DEF AdjudgeToDeath, tcp_time_wait, inet_csk_destroy_sock,
             tcp_set_state, tcp_send_active_reset, Sock
  <2>3. t \in Sock
      BY <1>1, AdjudgeType
  <2> HIDE DEF t
  <2>4. [t EXCEPT !.old = "CLOSE"].err = t.err
      BY <2>3 DEF Sock
  <2> QED
      BY <1>10, <2>1, <2>2, <2>4 DEF CloseEnds, t
<1>11. ASSUME NEW segment \in Segments, Arrives(segment)
       PROVE  Stays
    BY <1>8, <1>11 DEF Arrives, Wake
<1>12. CASE PeerConnects \/ PeerAcks \/ PeerSends \/ PeerFinishes \/ PeerResets
    BY <1>11, <1>12
       DEF Segments, PeerConnects, PeerAcks, PeerSends, PeerFinishes, PeerResets
<1>13. CASE PeerConnectsToListener \/ ResetBegins \/ Transmit
  <2>1. sk.err => sk'.err
      BY <1>1, <1>13 DEF PeerConnectsToListener, ResetBegins, Transmit, Sock
  <2> QED
      BY <1>13, <2>1 DEF PeerConnectsToListener, ResetBegins, Transmit, Wake
<1>14. tcp_write_queue_purge(sk) \in Sock /\ tcp_send_active_reset(sk) \in Sock
       /\ tcp_write_queue_purge(sk).err = sk.err
       /\ tcp_send_active_reset(sk).err = sk.err
  <2>1. /\ tcp_write_queue_purge(sk).err = sk.err
        /\ tcp_send_active_reset(sk).err = sk.err
      BY <1>1 DEF tcp_write_queue_purge, tcp_send_active_reset, Sock
  <2> QED
      BY <1>1, <2>1, SmallTypes
<1>15. CASE ResetEnds
    BY <1>14, <1>15, DoneIs DEF ResetEnds, Wake
<1>16. CASE OrphanTimer
    BY <1>1, <1>14, <1>16, DoneIs DEF OrphanTimer, tcp_time_wait
<1>17. CASE AbortBegins
  <2>1. sk.err => sk'.err
      BY <1>1, <1>17
         DEF AbortBegins, inet_csk_listen_stop, tcp_set_state,
             tcp_send_active_reset, Sock
  <2> QED
      BY <1>17, <2>1 DEF AbortBegins, Wake
<1>18. CASE AbortEnds
  <2>1. \A s \in Sock : tcp_write_queue_purge(s).err = s.err
      BY DEF tcp_write_queue_purge, Sock
  <2>2. tcp_done(sk) \in Sock /\ tcp_done(sk).err = sk.err
      BY <1>1, DoneIs, DoneType
  <2> QED
      BY <1>1, <1>18, <2>1, <2>2 DEF AbortEnds, Wake
<1> QED
    BY <1>2, <1>3, <1>4, <1>5, <1>6, <1>7, <1>9, <1>10, <1>12, <1>13, <1>15,
       <1>16, <1>17, <1>18 DEF Calls, Network, Aborts

LEMMA StepHangs == TypeOK /\ Promises /\ Hangs /\ [Next]_vars => Hangs'
<1> SUFFICES ASSUME TypeOK, Promises, Hangs, [Next]_vars
             PROVE  Hangs'
    OBVIOUS
<1>1. poller \in Poller
    BY DEF TypeOK
<1>2. CASE Calls \/ Network \/ Aborts
  <2>1. CASE poller' = [poller EXCEPT !.hangup = FALSE]
      BY <1>1, <2>1 DEF Poller, Hangs, HangupHasError, HangupInv, AsleepInv
  <2>2. CASE poller.pc = "idle" /\ poller' = poller
      BY <2>2 DEF Hangs, HangupHasError, HangupInv, AsleepInv
  <2>3. CASE /\ sk.err => sk'.err
             /\ poller' \in {poller, [poller EXCEPT !.woken = TRUE]}
    <3>1. poller'.pc = poller.pc /\ poller'.mask = poller.mask
          /\ poller'.hangup = poller.hangup
        BY <1>1, <2>3 DEF Poller
    <3> QED
        BY <2>3, <3>1 DEF Hangs, HangupHasError, HangupInv, AsleepInv
  <2> QED
      BY <1>2, <2>1, <2>2, <2>3, ErrStays
<1>3. CASE PollStart \/ PollAgain \/ PollReturns
  <2>1. NoPoll.pc = "idle" /\ ~NoPoll.hangup /\ NoPoll \in Poller
      BY PollerTypes DEF NoPoll
  <2>2. poller'.pc \in {"flags", "idle"} /\ poller'.hangup = NoPoll.hangup
      BY <1>3, <2>1 DEF PollStart, PollAgain, PollReturns, Poll, Poller
  <2> QED
      BY <2>1, <2>2 DEF Hangs, HangupHasError, HangupInv, AsleepInv
<1>4. CASE PollListen
  <2>1. ~poller.hangup
      BY <1>4 DEF PollListen, Hangs, HangupInv
  <2>2. /\ ~poller'.hangup
        /\ poller'.pc = "asleep" => poller'.mask = {}
      BY <1>1, <1>4, <2>1 DEF PollListen, Poller
  <2> QED
      BY <2>2 DEF Hangs, HangupHasError, HangupInv, AsleepInv
<1>5. CASE PollTests
  <2>1. /\ poller'.hangup => sk.killed /\ "HUP" \in poller'.mask
        /\ poller'.pc \in {"nospace", "err"}
        /\ sk' = sk
      BY <1>1, <1>5 DEF PollTests, Poller
  <2> QED
      BY <2>1 DEF Hangs, HangupHasError, HangupInv, AsleepInv, Promises
<1>6. CASE PollSetsNospace \/ PollRechecks
  <2>1. /\ poller'.hangup = poller.hangup
        /\ poller.mask \subseteq poller'.mask
        /\ poller.pc \in {"nospace", "recheck"}
        /\ poller'.pc \in {"recheck", "err"}
      BY <1>1, <1>6 DEF PollSetsNospace, PollRechecks, Poller
  <2>2. sk'.err = sk.err
      BY <1>6 DEF PollSetsNospace, PollRechecks, TypeOK, Sock
  <2> QED
      BY <2>1, <2>2 DEF Hangs, HangupHasError, HangupInv, AsleepInv
<1>7. CASE PollReadsErr
  <2>1. /\ poller'.hangup = poller.hangup
        /\ poller'.mask = poller.mask \cup Flag(sk.err, {"ERR"})
        /\ poller.pc = "err"
        /\ poller'.pc = IF poller'.mask = {} THEN "asleep" ELSE "done"
      BY <1>1, <1>7 DEF PollReadsErr, Poller
  <2> QED
      BY <2>1 DEF Hangs, HangupHasError, HangupInv, AsleepInv, Flag
<1>8. CASE UNCHANGED vars
    BY <1>8 DEF vars, Hangs, HangupHasError, HangupInv, AsleepInv
<1> QED
    BY <1>2, <1>3, <1>4, <1>5, <1>6, <1>7, <1>8 DEF Next, Polls

(* Less room is not more, and a writer that would be woken had room.       *)
LEMMA RoomMonotone ==
    ASSUME NEW s \in Sock, NEW t \in Sock, t.lowat = s.lowat,
           t.in_flight = s.in_flight, t.unsent \in {s.unsent, s.unsent + 1},
           NEW wake \in BOOLEAN,
           sk_stream_is_writeable(t, wake)
    PROVE  sk_stream_is_writeable(s, wake)
<1>1. /\ s.unsent \in Nat /\ s.in_flight \in Nat /\ SndBuf \in Nat
      /\ tcp_notsent_lowat(t) = tcp_notsent_lowat(s)
      /\ tcp_notsent_lowat(s) \in Nat
    BY DEF tcp_notsent_lowat, Sock
<1>2. s.unsent * 2 < tcp_notsent_lowat(s) \/ ~wake
    BY <1>1 DEF sk_stream_is_writeable, tcp_stream_memory_free
<1>3. s.unsent * 1 < tcp_notsent_lowat(s) \/ wake
    BY <1>1 DEF sk_stream_is_writeable, tcp_stream_memory_free
<1> DEFINE n == s.unsent + s.in_flight
           m == t.unsent + t.in_flight
<1>4. SndBuf - m >= m \div 2 /\ n \in Nat /\ m \in Nat /\ n <= m
    BY <1>1 DEF sk_stream_is_writeable
<1> HIDE DEF n, m
<1>5. SndBuf - n >= n \div 2
    BY <1>1, <1>4
<1> QED
    BY <1>2, <1>3, <1>5 DEF sk_stream_is_writeable, tcp_stream_memory_free, n

LEMMA WokenHadRoom ==
    ASSUME NEW s \in Sock, sk_stream_is_writeable(s, TRUE)
    PROVE  sk_stream_is_writeable(s, FALSE)
<1>1. s.unsent \in Nat /\ tcp_notsent_lowat(s) \in Nat
    BY DEF tcp_notsent_lowat, Sock
<1> QED
    BY <1>1 DEF sk_stream_is_writeable, tcp_stream_memory_free

LEMMA WaitsWoken ==
    ASSUME TypeOK, poller'.pc = "idle" \/ Wake(TRUE)
    PROVE  Waits'
<1>1. poller'.pc = "idle" \/ poller'.woken
    BY DEF TypeOK, Wake, Poller
<1> QED
    BY <1>1 DEF Waits, LoadedInv, WaiterInv

(* An action of a process that cannot be asleep, or that wakes nobody      *)
(* because nothing it changes concerns a waiter.                           *)
LEMMA WaitsSame ==
    ASSUME TypeOK, Waits, sk' \in Sock, UNCHANGED poller,
           sk'.state = sk.state, sk'.shutdown = sk.shutdown,
           sk.receive_queue = <<>> => sk'.receive_queue = <<>>,
           sk'.child = sk.child, sk'.lowat = sk.lowat,
           sk'.err => sk.err \/ holder' = "reset",
           holder = "reset" => holder' = "reset",
           sk.nospace => sk'.nospace,
           sk_stream_is_writeable(sk', TRUE) /\ sk'.in_flight = 0
               => sk_stream_is_writeable(sk, TRUE) /\ sk.in_flight = 0
    PROVE  Waits'
<1>1. sk.in_flight \in Nat /\ sk'.in_flight \in Nat
    BY DEF TypeOK, Sock
<1>2. NothingToRead(sk) => NothingToRead(sk')
    BY DEF NothingToRead
<1>3. RoomIsTold(sk) => RoomIsTold(sk')
  <2>1. sk.in_flight > 0 <=> sk.in_flight # 0
      BY <1>1
  <2>2. sk'.in_flight > 0 <=> sk'.in_flight # 0
      BY <1>1
  <2> QED
      BY <2>1, <2>2, Zenon DEF RoomIsTold
<1>4. LoadedInv'
    BY DEF Waits, LoadedInv
<1>5. WaiterInv'
    BY <1>2, <1>3 DEF Waits, WaiterInv
<1> QED
    BY <1>4, <1>5 DEF Waits

LEMMA CallsWait == IInv /\ Calls => Waits'
<1> SUFFICES ASSUME IInv, Calls
             PROVE  Waits'
    OBVIOUS
<1>1. TypeOK /\ sk \in Sock /\ poller \in Poller /\ Waits
    BY DEF IInv, TypeOK
<1>2. TypeOK' /\ sk' \in Sock
    BY <1>1, CallsType DEF TypeOK
<1>3. app # "open" => poller.pc = "idle"
    BY DEF IInv, Promises, CloseInv
<1>4. CASE Connect \/ Listen
  <2>1. sk.state = "CLOSE" /\ UNCHANGED poller
      BY <1>4 DEF Connect, Listen
  <2> QED
      BY <1>1, <2>1 DEF Waits, LoadedInv, WaiterInv, NothingToRead
<1>5. CASE Accept \/ Close
    BY <1>1, <1>5, WaitsWoken DEF Accept, Close
<1>6. CASE Shutdown \/ Disconnect
    BY <1>1, <1>6, WaitsWoken DEF Shutdown, Disconnect
<1>7. CASE Write
  <2>1. /\ sk'.state = sk.state /\ sk'.shutdown = sk.shutdown
        /\ sk'.receive_queue = sk.receive_queue /\ sk'.child = sk.child
        /\ sk'.lowat = sk.lowat /\ sk'.err = sk.err
        /\ sk'.in_flight = sk.in_flight
        /\ sk'.unsent \in {sk.unsent, sk.unsent + 1}
        /\ sk.nospace => sk'.nospace
        /\ UNCHANGED <<poller, holder>>
    <3>1. CASE sk' = [sk EXCEPT !.unsent = @ + 1]
        BY <1>1, <1>7, <3>1 DEF Write, Sock
    <3>2. CASE sk' = [sk EXCEPT !.nospace = TRUE]
        BY <1>1, <1>7, <3>2 DEF Write, Sock
    <3> QED
        BY <1>7, <3>1, <3>2 DEF Write
  <2>2. sk_stream_is_writeable(sk', TRUE) => sk_stream_is_writeable(sk, TRUE)
      BY <1>1, <1>2, <2>1, RoomMonotone
  <2> QED
      BY <1>1, <1>2, <2>1, <2>2, WaitsSame
<1>8. CASE Read
  <2>1. CASE /\ sk.receive_queue # <<>>
             /\ sk' = [sk EXCEPT !.receive_queue = Tail(@)]
             /\ UNCHANGED poller
    <3>1. /\ sk'.state = sk.state /\ sk'.shutdown = sk.shutdown
          /\ sk'.child = sk.child /\ sk'.lowat = sk.lowat
          /\ sk'.err = sk.err /\ sk'.in_flight = sk.in_flight
          /\ sk'.unsent = sk.unsent /\ sk'.nospace = sk.nospace
          /\ UNCHANGED holder
        BY <1>1, <1>8, <2>1 DEF Read, Sock
    <3>2. sk_stream_is_writeable(sk', TRUE) => sk_stream_is_writeable(sk, TRUE)
        BY <1>1, <1>2, <3>1, RoomMonotone
    <3> QED
        BY <1>1, <1>2, <2>1, <3>1, <3>2, WaitsSame
  <2>2. CASE /\ sk' = [sk EXCEPT !.err = FALSE, !.killed = FALSE]
             /\ poller' = [poller EXCEPT !.hangup = FALSE]
    <3>1. /\ sk'.state = sk.state /\ sk'.shutdown = sk.shutdown
          /\ sk'.child = sk.child /\ sk'.lowat = sk.lowat
          /\ ~sk'.err /\ sk'.in_flight = sk.in_flight
          /\ sk'.unsent = sk.unsent /\ sk'.nospace = sk.nospace
          /\ sk'.receive_queue = sk.receive_queue
        BY <1>1, <2>2 DEF Sock
    <3>2. sk_stream_is_writeable(sk', TRUE) => sk_stream_is_writeable(sk, TRUE)
        BY <1>1, <1>2, <3>1, RoomMonotone
    <3>3. /\ poller'.pc = poller.pc /\ poller'.mask = poller.mask
          /\ poller'.woken = poller.woken /\ poller'.state = poller.state
        BY <1>1, <2>2 DEF Poller
    <3>4. LoadedInv'
        BY <1>1, <3>1, <3>3 DEF Waits, LoadedInv
    <3>5. (NothingToRead(sk) => NothingToRead(sk'))
          /\ (RoomIsTold(sk) => RoomIsTold(sk'))
        BY <3>1, <3>2 DEF NothingToRead, RoomIsTold
    <3>6. WaiterInv'
        BY <1>1, <3>1, <3>3, <3>5 DEF Waits, WaiterInv
    <3> QED
        BY <3>4, <3>6 DEF Waits
  <2> QED
      BY <1>8, <2>1, <2>2 DEF Read
<1>9. CASE SetOption
  <2>1. /\ sk'.state = sk.state /\ sk'.shutdown = sk.shutdown
        /\ sk'.child = sk.child /\ sk'.lowat = sk.lowat
        /\ sk'.err = sk.err /\ sk'.in_flight = sk.in_flight
        /\ sk'.unsent = sk.unsent /\ sk'.nospace = sk.nospace
        /\ sk'.receive_queue = sk.receive_queue
        /\ UNCHANGED <<poller, holder>>
      BY <1>1, <1>9 DEF SetOption, setsockopt_DEFER_ACCEPT,
                        setsockopt_LINGER2, setsockopt_REPAIR, Sock
  <2>2. sk_stream_is_writeable(sk', TRUE) => sk_stream_is_writeable(sk, TRUE)
      BY <1>1, <1>2, <2>1, RoomMonotone
  <2> QED
      BY <1>1, <1>2, <2>1, <2>2, WaitsSame
<1>10. CASE SetNotsentLowat
  <2>1. PICK val \in Lowats :
           LET set == [sk EXCEPT !.lowat = val]
               wakes == sk_stream_is_writeable(set, TRUE)
           IN /\ sk' = IF wakes THEN [set EXCEPT !.nospace = FALSE] ELSE set
              /\ Wake(wakes)
      BY <1>10 DEF SetNotsentLowat
  <2> DEFINE set == [sk EXCEPT !.lowat = val]
  <2>2. CASE sk_stream_is_writeable(set, TRUE)
    <3>1. Wake(TRUE)
        BY <2>1, <2>2 DEF Wake
    <3> QED
        BY <1>1, <3>1, WaitsWoken
  <2>3. CASE ~sk_stream_is_writeable(set, TRUE)
    <3>1. sk' = set /\ UNCHANGED poller /\ ~sk_stream_is_writeable(sk', TRUE)
        BY <2>1, <2>3 DEF Wake
    <3>2. /\ sk'.state = sk.state /\ sk'.shutdown = sk.shutdown
          /\ sk'.child = sk.child
          /\ sk'.err = sk.err /\ sk'.nospace = sk.nospace
          /\ sk'.receive_queue = sk.receive_queue
        BY <1>1, <3>1 DEF Sock
    <3>3. UNCHANGED holder
        BY <1>10 DEF SetNotsentLowat
    <3> HIDE DEF set
    <3>4. LoadedInv'
        BY <1>1, <3>1, <3>2 DEF Waits, LoadedInv
    <3>5. (NothingToRead(sk) => NothingToRead(sk'))
          /\ (RoomIsTold(sk) => RoomIsTold(sk'))
        BY <3>1, <3>2 DEF NothingToRead, RoomIsTold
    <3>6. WaiterInv'
        BY <1>1, <3>1, <3>2, <3>3, <3>5 DEF Waits, WaiterInv
    <3> QED
        BY <3>4, <3>6 DEF Waits
  <2> QED
      BY <2>2, <2>3
<1>11. CASE LingerEnds \/ Orphan \/ HandleBacklog \/ CloseEnds
  <2>1. poller'.pc = "idle"
      BY <1>3, <1>11 DEF LingerEnds, Orphan, HandleBacklog, CloseEnds
  <2> QED
      BY <1>1, <2>1, WaitsWoken
<1> QED
    BY <1>4, <1>5, <1>6, <1>7, <1>8, <1>9, <1>10, <1>11 DEF Calls

(* A segment tells the waiter, or nothing it changes concerns one.         *)
LEMMA SegmentWaits ==
    ASSUME IInv, NEW segment \in Segments, NEW long \in BOOLEAN,
           holder = "free", UNCHANGED holder,
           LET next == tcp_rcv(sk, segment, long)
           IN sk' = Handled(next) /\ Wake(Notices(sk, next))
    PROVE  Waits'
<1> DEFINE t == tcp_rcv(sk, segment, long)
<1>1. TypeOK /\ sk \in Sock /\ poller \in Poller /\ Waits
    BY DEF IInv, TypeOK
<1>2. t \in Sock /\ Received(sk, t) /\ sk' = Handled(t) /\ Wake(Notices(sk, t))
    BY <1>1, RcvIs, RcvType
<1> HIDE DEF t
<1>3. CASE Notices(sk, t)
  <2>1. Wake(TRUE)
      BY <1>2, <1>3 DEF Wake
  <2> QED
      BY <1>1, <2>1, WaitsWoken
<1>4. CASE ~Notices(sk, t)
  <2>1. UNCHANGED poller
      BY <1>2, <1>4 DEF Wake
  <2>2. /\ t.receive_queue = sk.receive_queue
        /\ t.err = sk.err
        /\ t.state = sk.state \/ t.state = "SYN_RECV"
        /\ ~Wakes_writers(t)
      BY <1>4 DEF Notices
  <2>3. /\ t.state = "SYN_RECV" => sk.state \in {"SYN_SENT", "SYN_RECV"}
        /\ t.shutdown = sk.shutdown /\ t.child = sk.child
        /\ t.nospace = sk.nospace
      BY <1>2, <2>2 DEF Received, Untold, Same
  <2>4. /\ sk'.state = t.state /\ sk'.receive_queue = sk.receive_queue
        /\ sk'.err = sk.err /\ sk'.shutdown = sk.shutdown
        /\ sk'.child = sk.child /\ sk'.nospace = (sk.nospace /\ ~Wakes_writers(t))
        /\ sk'.unsent = t.unsent /\ sk'.in_flight = t.in_flight
        /\ sk'.lowat = t.lowat
      BY <1>2, <2>2, <2>3, HandledIs
  <2>5. sk'.nospace = sk.nospace
      BY <2>2, <2>4, <1>1, <1>2, SmallTypes DEF Sock
  <2>6. sk.nospace => ~sk_stream_is_writeable(sk', TRUE)
    <3>1. sk.nospace => ~sk_stream_is_writeable(t, TRUE)
        BY <2>2, <2>3 DEF Wakes_writers
    <3>2. sk_stream_is_writeable(sk', TRUE) <=> sk_stream_is_writeable(t, TRUE)
        BY <2>4 DEF sk_stream_is_writeable, tcp_stream_memory_free,
                    tcp_notsent_lowat
    <3> QED
        BY <3>1, <3>2
  <2>7. LoadedInv'
      BY <1>1, <2>1, <2>2, <2>3, <2>4 DEF Waits, LoadedInv
  <2>8. NothingToRead(sk) => NothingToRead(sk')
      BY <2>2, <2>3, <2>4 DEF NothingToRead, Connected
  <2>9. sk.nospace => RoomIsTold(sk')
      BY <2>5, <2>6 DEF RoomIsTold
  <2>10. WaiterInv'
    <3> SUFFICES ASSUME poller.mask = {}, ~poller.woken
                 PROVE  WaiterInv'
        BY <2>1 DEF WaiterInv
    <3>1. Connected(sk'.state) => sk'.state = sk.state
        BY <2>2, <2>4 DEF Connected
    <3>2. Connected(sk.state) => sk'.state = sk.state
        BY <2>2, <2>3, <2>4 DEF Connected
    <3>3. sk'.state = "LISTEN" => sk.state = "LISTEN"
        BY <2>2, <2>4
    <3>4. sk.state = "LISTEN" => sk'.state = "LISTEN"
        BY <2>2, <2>3, <2>4
    <3> HIDE DEF t
    <3>5. RoomIsTold(sk) => RoomIsTold(sk')
        BY <2>9 DEF RoomIsTold
    <3> QED
        BY <1>1, <2>1, <2>4, <2>5, <2>8, <3>1, <3>2, <3>3, <3>4, <3>5
           DEF Waits, WaiterInv
  <2> QED
      BY <2>7, <2>10 DEF Waits
<1> QED
    BY <1>3, <1>4

LEMMA NetworkWaits == IInv /\ (Network \/ Aborts) => Waits'
<1> SUFFICES ASSUME IInv, Network \/ Aborts
             PROVE  Waits'
    OBVIOUS
<1>1. TypeOK /\ sk \in Sock /\ poller \in Poller /\ Waits
    BY DEF IInv, TypeOK
<1>2. TypeOK' /\ sk' \in Sock
    BY <1>1, NetworkType DEF TypeOK
<1>3. app # "open" => poller.pc = "idle"
    BY DEF IInv, Promises, CloseInv
<1>4. sk.dead => app # "open"
    BY DEF IInv, Promises, CloseInv
<1>5. ASSUME NEW segment \in Segments, Arrives(segment), UNCHANGED <<app, holder>>
      PROVE  Waits'
  <2>1. CASE UNCHANGED <<sk, poller>>
      BY <1>1, <1>5, <2>1 DEF Waits, LoadedInv, WaiterInv
  <2>2. CASE /\ holder = "free"
             /\ \E long \in BOOLEAN :
                   LET next == tcp_rcv(sk, segment, long)
                   IN sk' = Handled(next) /\ Wake(Notices(sk, next))
      BY <1>5, <2>2, SegmentWaits
  <2> QED
      BY <1>5, <2>1, <2>2 DEF Arrives
<1>6. CASE PeerConnects \/ PeerAcks \/ PeerSends \/ PeerFinishes \/ PeerResets
  <2>1. PICK segment \in Segments : Arrives(segment)
      BY <1>6
         DEF Segments, PeerConnects, PeerAcks, PeerSends, PeerFinishes, PeerResets
  <2> QED
      BY <1>5, <1>6, <2>1
         DEF PeerConnects, PeerAcks, PeerSends, PeerFinishes, PeerResets
<1>7. CASE PeerConnectsToListener
    BY <1>1, <1>7, WaitsWoken DEF PeerConnectsToListener
<1>8. CASE ResetBegins
  <2>1. /\ sk'.state = sk.state /\ sk'.shutdown = sk.shutdown
        /\ sk'.child = sk.child /\ sk'.lowat = sk.lowat
        /\ sk'.in_flight = sk.in_flight
        /\ sk'.unsent = sk.unsent /\ sk'.nospace = sk.nospace
        /\ sk'.receive_queue = sk.receive_queue
        /\ UNCHANGED poller /\ holder' = "reset"
      BY <1>1, <1>8 DEF ResetBegins, Sock
  <2>2. sk_stream_is_writeable(sk', TRUE) => sk_stream_is_writeable(sk, TRUE)
      BY <1>1, <1>2, <2>1, RoomMonotone
  <2> QED
      BY <1>1, <1>2, <2>1, <2>2, WaitsSame
<1>9. CASE Transmit
  <2>1. /\ sk'.state = sk.state /\ sk'.shutdown = sk.shutdown
        /\ sk'.child = sk.child /\ sk'.lowat = sk.lowat
        /\ sk'.in_flight = sk.in_flight + sk.unsent
        /\ sk'.unsent = 0 /\ sk'.nospace = sk.nospace
        /\ sk'.err = sk.err
        /\ sk'.receive_queue = sk.receive_queue
        /\ UNCHANGED <<poller, holder>>
      BY <1>1, <1>9 DEF Transmit, Sock
  <2>2. sk'.in_flight = 0 => sk.in_flight = 0 /\ sk.unsent = 0
      BY <1>1, <2>1 DEF Sock
  <2>3. sk'.in_flight = 0 /\ sk_stream_is_writeable(sk', TRUE)
            => sk_stream_is_writeable(sk, TRUE)
      BY <1>1, <1>2, <2>1, <2>2, RoomMonotone
  <2> QED
      BY <1>1, <1>2, <2>1, <2>2, <2>3, WaitsSame
<1>10. CASE ResetEnds \/ OrphanTimer \/ AbortBegins \/ AbortEnds
  <2>1. CASE sk.dead
    <3>1. poller.pc = "idle"
        BY <1>3, <1>4, <2>1
    <3>2. poller'.pc = "idle"
        BY <1>10, <3>1 DEF ResetEnds, OrphanTimer, AbortBegins, AbortEnds, Wake
    <3> QED
        BY <1>1, <3>2, WaitsWoken
  <2>2. CASE ~sk.dead
    <3>1. Wake(TRUE)
        BY <1>10, <2>2
           DEF ResetEnds, OrphanTimer, AbortBegins, AbortEnds, Wake
    <3> QED
        BY <1>1, <3>1, WaitsWoken
  <2> QED
      BY <2>1, <2>2
<1> QED
    BY <1>6, <1>7, <1>8, <1>9, <1>10 DEF Network, Aborts

LEMMA PollsWait == IInv /\ Polls => Waits'
<1> SUFFICES ASSUME IInv, Polls
             PROVE  Waits'
    OBVIOUS
<1>1. TypeOK /\ sk \in Sock /\ poller \in Poller /\ LoadedInv /\ WaiterInv
    BY DEF IInv, TypeOK, Waits
<1>2. CASE PollStart \/ PollAgain
  <2>1. poller'.pc = "flags" /\ poller'.state = sk.state /\ sk' = sk
      BY <1>2 DEF PollStart, PollAgain, Poll, NoPoll
  <2> QED
      BY <2>1 DEF Waits, LoadedInv, WaiterInv
<1>3. CASE PollReturns
  <2>1. poller'.pc = "idle"
      BY <1>3 DEF PollReturns, NoPoll
  <2> QED
      BY <1>1, <2>1, WaitsWoken
<1>4. CASE PollListen
  <2>1. /\ poller.pc = "flags" /\ poller.state = "LISTEN"
        /\ poller'.mask = Flag(sk.child, {"IN"})
        /\ poller'.pc = IF poller'.mask = {} THEN "asleep" ELSE "done"
        /\ poller'.woken = poller.woken
        /\ sk' = sk /\ holder' = holder
      BY <1>1, <1>4 DEF PollListen, inet_csk_listen_poll, Poller
  <2>2. poller'.mask = {} /\ ~poller'.woken =>
            sk.state = "LISTEN" /\ ~sk.child
      BY <1>1, <2>1 DEF LoadedInv, Flag
  <2> QED
      BY <2>1, <2>2 DEF Waits, LoadedInv, WaiterInv, NothingToRead
<1>5. CASE PollTests
  <2>1. /\ poller.pc = "flags" /\ poller.state # "LISTEN"
        /\ poller'.mask = PollFlags(sk, poller.state)
        /\ poller'.pc = IF Connected(poller.state) /\ "OUT" \notin poller'.mask
                        THEN "nospace" ELSE "err"
        /\ poller'.woken = poller.woken
        /\ sk' = sk /\ holder' = holder
      BY <1>1, <1>5 DEF PollTests, Poller
  <2>2. ASSUME poller'.mask = {}, ~poller'.woken
        PROVE  /\ NothingToRead(sk) /\ sk.state # "LISTEN"
               /\ poller'.pc = IF Connected(sk.state) THEN "nospace" ELSE "err"
    <3>1. /\ poller.state # "CLOSE" /\ RCV_SHUTDOWN \notin sk.shutdown
          /\ ~(Connected(poller.state) /\ tcp_stream_is_readable(sk))
          /\ ~(Connected(poller.state) /\ SEND_SHUTDOWN \in sk.shutdown)
        BY <2>1, <2>2 DEF PollFlags, Flag
    <3>2. \/ poller.state = sk.state
          \/ poller.state = "SYN_SENT" /\ sk.state = "SYN_RECV"
        BY <1>1, <2>1, <2>2, <3>1 DEF LoadedInv
    <3>3. Connected(poller.state) <=> Connected(sk.state)
        BY <3>2 DEF Connected
    <3> QED
        BY <2>1, <2>2, <3>1, <3>2, <3>3
           DEF NothingToRead, tcp_stream_is_readable
  <2> QED
      BY <2>1, <2>2 DEF Waits, LoadedInv, WaiterInv
<1>6. CASE PollSetsNospace
  <2>1. /\ poller.pc = "nospace" /\ poller'.pc = "recheck"
        /\ poller'.mask = poller.mask /\ poller'.woken = poller.woken
        /\ sk'.nospace /\ sk'.state = sk.state /\ sk'.shutdown = sk.shutdown
        /\ sk'.child = sk.child /\ sk'.receive_queue = sk.receive_queue
      BY <1>1, <1>6 DEF PollSetsNospace, Poller, Sock
  <2> QED
      BY <1>1, <2>1 DEF Waits, LoadedInv, WaiterInv, NothingToRead
<1>7. CASE PollRechecks
  <2>1. /\ poller.pc = "recheck" /\ poller'.pc = "err"
        /\ poller'.mask =
               poller.mask \cup Flag(sk_stream_is_writeable(sk, FALSE), {"OUT"})
        /\ poller'.woken = poller.woken
        /\ sk' = sk /\ holder' = holder
      BY <1>1, <1>7 DEF PollRechecks, Poller
  <2>2. poller'.mask = {} =>
            poller.mask = {} /\ ~sk_stream_is_writeable(sk, TRUE)
      BY <1>1, <2>1, WokenHadRoom DEF Flag
  <2> QED
      BY <1>1, <2>1, <2>2 DEF Waits, LoadedInv, WaiterInv, RoomIsTold
<1>8. CASE PollReadsErr
  <2>1. /\ poller.pc = "err"
        /\ poller'.mask = poller.mask \cup Flag(sk.err, {"ERR"})
        /\ poller'.pc \in {"asleep", "done"}
        /\ poller'.woken = poller.woken
        /\ sk' = sk /\ holder' = holder
      BY <1>1, <1>8 DEF PollReadsErr, Poller
  <2>2. poller'.mask = {} => poller.mask = {} /\ ~sk.err
      BY <2>1 DEF Flag
  <2> QED
      BY <1>1, <2>1, <2>2 DEF Waits, LoadedInv, WaiterInv
<1> QED
    BY <1>2, <1>3, <1>4, <1>5, <1>6, <1>7, <1>8 DEF Polls

(***************************************************************************)
(* The invariant, and what follows from it.                                *)
(***************************************************************************)
LEMMA StepIInv == IInv /\ [Next]_vars => IInv'
<1> SUFFICES ASSUME IInv, [Next]_vars
             PROVE  IInv'
    OBVIOUS
<1>1. TypeOK' /\ Promises' /\ Hangs'
    BY StepType, StepPromises, StepHangs DEF IInv
<1>2. Waits'
  <2>1. CASE Next
      BY <2>1, CallsWait, NetworkWaits, PollsWait DEF Next
  <2>2. CASE UNCHANGED vars
      BY <2>2 DEF vars, IInv, Waits, LoadedInv, WaiterInv
  <2> QED
      BY <2>1, <2>2
<1> QED
    BY <1>1, <1>2 DEF IInv

LEMMA InitIInv == Init => IInv
<1> SUFFICES ASSUME Init
             PROVE  IInv
    OBVIOUS
<1>1. poller.pc = "idle" /\ ~poller.hangup
    BY DEF Init, NoPoll
<1>2. Hangs /\ Waits
    BY <1>1 DEF Hangs, Waits, HangupHasError, HangupInv, AsleepInv,
                LoadedInv, WaiterInv
<1> QED
    BY <1>2, InitType, InitPromises DEF IInv

(* The strengthening is inductive: every reachable state satisfies it.     *)
THEOREM Invariant == Spec => []IInv
<1> QED
    BY InitIInv, StepIInv, PTL DEF Spec

(* A peer whose bytes were thrown away is reset, in every run of close(),  *)
(* shutdown(), disconnect and abort against any peer.                      *)
THEOREM LossIsResetHolds == Spec => []LossIsReset
<1>1. IInv => LossIsReset
    BY DEF IInv, Promises
<1> QED
    BY <1>1, Invariant, PTL

(* An orphan is destroyed once, and as soon as it is in CLOSE, whoever of  *)
(* tcp_close(), the backlog, the peer and the timers brings it there.      *)
THEOREM DestroyedOnceHolds == Spec => []DestroyedOnce
<1>1. IInv => DestroyedOnce
    BY DEF IInv, Promises
<1> QED
    BY <1>1, Invariant, PTL

(* A poll() that reports a hang-up after an error end reports the error.   *)
THEOREM HangupHasErrorHolds == Spec => []HangupHasError
<1>1. IInv => HangupHasError
    BY DEF IInv, Hangs
<1> QED
    BY <1>1, Invariant, PTL

LEMMA WaiterNeedsNothing == IInv => NoLostWakeup
<1> SUFFICES ASSUME IInv, poller.pc = "asleep", ~poller.woken,
                    holder # "reset"
             PROVE  \/ ToReport(sk) = {}
                    \/ ToReport(sk) = {"OUT"} /\ sk.nospace /\ sk.in_flight > 0
    BY DEF NoLostWakeup
<1>1. /\ NothingToRead(sk)
      /\ Connected(sk.state) /\ sk.state # "LISTEN" => RoomIsTold(sk)
      /\ sk.state # "LISTEN" => ~sk.err
    BY DEF IInv, Hangs, AsleepInv, Waits, WaiterInv
<1>2. CASE sk.state = "LISTEN"
    BY <1>1, <1>2 DEF NothingToRead, ToReport, inet_csk_listen_poll, Flag
<1>3. CASE sk.state # "LISTEN"
  <2>1. PollFlags(sk, sk.state) \ {"OUT"} = {}
      BY <1>1, <1>3
         DEF NothingToRead, PollFlags, Flag, tcp_stream_is_readable, SHUTDOWN_MASK
  <2>2. ToReport(sk) =
            Flag(/\ Connected(sk.state)
                 /\ \/ SEND_SHUTDOWN \in sk.shutdown
                    \/ sk_stream_is_writeable(sk, TRUE), {"OUT"})
      BY <1>1, <1>3, <2>1 DEF ToReport, Flag
  <2> QED
      BY <1>1, <1>3, <2>2 DEF NothingToRead, RoomIsTold, Flag
<1> QED
    BY <1>2, <1>3

(* A thread asleep in poll() that nobody has woken misses nothing.         *)
THEOREM NoLostWakeupHolds == Spec => []NoLostWakeup
<1> QED
    BY Invariant, WaiterNeedsNothing, PTL

(* getsockopt(TCP_DEFER_ACCEPT) covers what setsockopt() was asked for, by *)
(* less than one retransmission, for every pair of timeouts.               *)
THEOREM DeferAcceptCoversHolds == Spec => []DeferAcceptCovers
<1>1. IInv => DeferAcceptCovers
    BY DeferCovers DEF IInv, Promises
<1> QED
    BY <1>1, Invariant, PTL

=============================================================================
