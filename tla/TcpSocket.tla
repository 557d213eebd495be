------------------------------ MODULE TcpSocket ------------------------------
(***************************************************************************)
(* The life of one TCP socket (Lab04/tcp.c): connect or listen, shutdown,  *)
(* close, disconnect and abort, against a peer that sends data, a FIN or a *)
(* reset at any moment, and a second thread that sleeps in poll() without  *)
(* the socket's lock.                                                      *)
(*                                                                         *)
(* The C functions are operators on the record sk and return it; a         *)
(* function that the code lets others interleave with (tcp_close(),        *)
(* tcp_abort(), tcp_poll()) is several actions.  What tcp_input.c,         *)
(* tcp_output.c and the inet layer do, which the repository does not hold, *)
(* is marked external in PROJECT.json.                                     *)
(*                                                                         *)
(* Left out: statistics, congestion state, routes and Fast Open            *)
(* (fastopen_rsk, defer_connect), which nothing below depends on.          *)
(***************************************************************************)
EXTENDS Integers, Sequences

CONSTANTS
    MaxIn,             \* bytes the peer sends
    MaxOut,            \* bytes the application writes
    SndBuf,            \* sk_sndbuf in bytes
    DefaultLowat,      \* sysctl_tcp_notsent_lowat
    Lowats,            \* values of TCP_NOTSENT_LOWAT
    FinTimeout,        \* sysctl_tcp_fin_timeout
    Linger2s,          \* values of TCP_LINGER2
    MaxBacklog,        \* bound on the segments that wait for the lock
    DeferSeconds,      \* values of TCP_DEFER_ACCEPT
    TCP_TIMEOUT_INIT,  \* in seconds, as
    TCP_RTO_MAX,       \* the two are passed to secs_to_retrans()
    U8_MAX             \* 255: the width of rskq_defer_accept

ASSUME SocketAssumption ==
    /\ {MaxIn, MaxOut, MaxBacklog, FinTimeout} \subseteq Nat
    /\ {SndBuf, DefaultLowat, TCP_TIMEOUT_INIT, TCP_RTO_MAX, U8_MAX} \subseteq Nat \ {0}
    /\ Lowats \subseteq Nat
    /\ Linger2s \cup DeferSeconds \subseteq Int

VARIABLES
    sk,       \* the socket
    app,      \* where the application's close() is
    holder,   \* who holds the socket's lock between two actions
    backlog,  \* segments that arrived while the lock was held
    peer,     \* what the peer has still to send
    poller    \* the thread in poll()

vars == <<sk, app, holder, backlog, peer, poller>>

States == {"CLOSE", "LISTEN", "SYN_SENT", "SYN_RECV", "ESTABLISHED",
           "FIN_WAIT1", "FIN_WAIT2", "CLOSE_WAIT", "LAST_ACK", "CLOSING"}

RCV_SHUTDOWN == "RCV"
SEND_SHUTDOWN == "SEND"
SHUTDOWN_MASK == {RCV_SHUTDOWN, SEND_SHUTDOWN}

(* A buffer of the receive queue: bytes, and whether it carries the FIN.   *)
Skb == [len : Nat, fin : BOOLEAN]
Segments == {"syn", "synack", "ack", "data", "fin", "rst"}

(* old is the local variable state of tcp_close(). unsent and in_flight    *)
(* count the bytes of the write and of the retransmit queue; fin is the    *)
(* FIN after them, reset a RST that was sent. unread and killed are        *)
(* history: bytes of the peer that close() or the time after it threw      *)
(* away, and an error end nobody has been told of yet.                     *)
Sock == [state : States, shutdown : SUBSET SHUTDOWN_MASK, err : BOOLEAN,
         dead : BOOLEAN, old : States, destroyed : 0 .. 2,
         receive_queue : Seq(Skb),
         unsent : Nat, in_flight : Nat, nospace : BOOLEAN,
         fin : {"none", "queued", "sent", "acked"}, reset : BOOLEAN,
         repair : BOOLEAN, lowat : Nat, linger2 : Int,
         timer : BOOLEAN, child : BOOLEAN,
         defer : 0 .. U8_MAX, defer_asked : Int,
         unread : BOOLEAN, killed : BOOLEAN]

(* tcp_init_sock() *)
tcp_init_sock ==
    [state |-> "CLOSE", shutdown |-> {}, err |-> FALSE, dead |-> FALSE,
     old |-> "CLOSE", destroyed |-> 0, receive_queue |-> <<>>, unsent |-> 0,
     in_flight |-> 0, nospace |-> FALSE, fin |-> "none", reset |-> FALSE,
     repair |-> FALSE, lowat |-> 0, linger2 |-> 0, timer |-> FALSE, child |-> FALSE,
     defer |-> 0, defer_asked |-> 0, unread |-> FALSE, killed |-> FALSE]

-----------------------------------------------------------------------------
(* State changes.                                                          *)

tcp_set_state(s, state) == [s EXCEPT !.state = state]

(* new_state[]: the state after a close; the FIN goes with the first two.  *)
new_state == [state \in States |->
    CASE state \in {"ESTABLISHED", "SYN_RECV"} -> "FIN_WAIT1"
      [] state = "CLOSE_WAIT" -> "LAST_ACK"
      [] state \in {"SYN_SENT", "LISTEN", "CLOSE"} -> "CLOSE"
      [] OTHER -> state]

TCP_ACTION_FIN == {"ESTABLISHED", "SYN_RECV", "CLOSE_WAIT"}

(* tcp_send_fin() queues the FIN behind what is unsent; Transmit sends it. *)
tcp_send_fin(s) == [s EXCEPT !.fin = "queued"]

tcp_close_state(s) ==
    LET next == tcp_set_state(s, new_state[s.state])
    IN IF s.state \in TCP_ACTION_FIN THEN tcp_send_fin(next) ELSE next

tcp_shutdown(s, how) ==
    IF /\ SEND_SHUTDOWN \in how
       /\ s.state \in {"ESTABLISHED", "SYN_SENT", "SYN_RECV", "CLOSE_WAIT"}
    THEN tcp_close_state(s) ELSE s

tcp_send_active_reset(s) == [s EXCEPT !.reset = TRUE]

tcp_need_reset(state) ==
    state \in {"ESTABLISHED", "CLOSE_WAIT", "FIN_WAIT1", "FIN_WAIT2", "SYN_RECV"}

tcp_write_queue_purge(s) ==
    [s EXCEPT !.unsent = 0, !.in_flight = 0,
              !.fin = IF @ = "queued" THEN "none" ELSE @]

(* inet_csk_destroy_sock() *)
inet_csk_destroy_sock(s) == [s EXCEPT !.destroyed = IF @ < 2 THEN @ + 1 ELSE @]

tcp_done(s) ==
    LET closed == [tcp_set_state(s, "CLOSE")
                   EXCEPT !.timer = FALSE, !.shutdown = SHUTDOWN_MASK]
    IN IF s.dead THEN inet_csk_destroy_sock(closed) ELSE closed

(* tcp_time_wait() leaves a small socket behind and ends this one.         *)
tcp_time_wait(s) == tcp_done(s)

(* inet_csk_listen_stop(): a connection nobody accepted is reset.          *)
inet_csk_listen_stop(s) ==
    IF s.child THEN [tcp_send_active_reset(s) EXCEPT !.child = FALSE] ELSE s

FinQueued(s) == IF s.fin = "queued" THEN 1 ELSE 0

tcp_disconnect(s) ==
    LET closed == tcp_set_state(s, "CLOSE")
        aborted ==
            IF s.state = "LISTEN" THEN inet_csk_listen_stop(closed)
            ELSE IF s.repair THEN [closed EXCEPT !.err = TRUE]
            ELSE IF \/ tcp_need_reset(s.state)
                    \/ /\ s.unsent + FinQueued(s) > 0
                       /\ s.state \in {"CLOSING", "LAST_ACK"}
                 THEN [tcp_send_active_reset(closed) EXCEPT !.err = TRUE]
            ELSE IF s.state = "SYN_SENT" THEN [closed EXCEPT !.err = TRUE]
            ELSE closed
    IN [tcp_write_queue_purge(aborted)
        EXCEPT !.timer = FALSE, !.receive_queue = <<>>, !.shutdown = {}]

-----------------------------------------------------------------------------
(* Options.                                                                *)

(* The time n retransmissions cover, as both conversions add it up.        *)
Period(timeout, rto_max) ==
    LET period[n \in 1 .. U8_MAX] ==
            IF n = 1 THEN timeout
            ELSE period[n - 1] + IF timeout > rto_max THEN rto_max ELSE timeout
    IN period

secs_to_retrans_unbounded(seconds, timeout, rto_max) ==
    IF seconds <= 0 THEN 0 ELSE 1 + (seconds - 1) \div timeout

secs_to_retrans(seconds, timeout, rto_max) ==
    LET enough == {n \in 1 .. U8_MAX : seconds <= Period(timeout, rto_max)[n]}
    IN IF seconds <= 0 THEN 0
       ELSE IF enough = {} THEN U8_MAX
       ELSE CHOOSE n \in enough : \A m \in enough : n <= m

retrans_to_secs_from_zero(retrans, timeout, rto_max) ==
    IF retrans <= 1 THEN 0 ELSE Period(timeout, rto_max)[retrans - 1]

retrans_to_secs(retrans, timeout, rto_max) ==
    IF retrans = 0 THEN 0 ELSE Period(timeout, rto_max)[retrans]

setsockopt_DEFER_ACCEPT(s, val) ==
    [s EXCEPT !.defer = secs_to_retrans(val, TCP_TIMEOUT_INIT, TCP_RTO_MAX),
              !.defer_asked = val]

getsockopt_DEFER_ACCEPT(s) ==
    retrans_to_secs(s.defer, TCP_TIMEOUT_INIT, TCP_RTO_MAX)

setsockopt_LINGER2(s, val) ==
    [s EXCEPT !.linger2 = IF val < 0 THEN -1
                          ELSE IF val > FinTimeout THEN 0 ELSE val]

(* Leaving repair sends a window probe, or does not: nothing here depends. *)
setsockopt_REPAIR(s, val) ==
    IF s.state = "LISTEN" THEN s ELSE [s EXCEPT !.repair = val]

-----------------------------------------------------------------------------
(* Poll.                                                                   *)

tcp_notsent_lowat(s) == IF s.lowat = 0 THEN DefaultLowat ELSE s.lowat

tcp_stream_memory_free(s, wake) ==
    s.unsent * (IF wake THEN 2 ELSE 1) < tcp_notsent_lowat(s)

(* __sk_stream_is_writeable(): as much room as half of what is queued.     *)
sk_stream_is_writeable(s, wake) ==
    LET queued == s.unsent + s.in_flight
    IN SndBuf - queued >= queued \div 2 /\ tcp_stream_memory_free(s, wake)

sk_stream_memory_free(s) ==
    s.unsent + s.in_flight < SndBuf /\ tcp_stream_memory_free(s, FALSE)

tcp_stream_is_readable(s) == s.receive_queue # <<>>

Connected(state) == state \notin {"SYN_SENT", "SYN_RECV"}

Flag(condition, names) == IF condition THEN names ELSE {}

(* What tcp_poll() finds before it reads sk_err.  It loaded state before.  *)
PollFlags(s, state) ==
    UNION {Flag(s.shutdown = SHUTDOWN_MASK \/ state = "CLOSE", {"HUP"}),
           Flag(RCV_SHUTDOWN \in s.shutdown, {"IN", "RDHUP"}),
           Flag(Connected(state) /\ tcp_stream_is_readable(s), {"IN"}),
           Flag(/\ Connected(state)
                /\ \/ SEND_SHUTDOWN \in s.shutdown
                   \/ sk_stream_is_writeable(s, FALSE), {"OUT"})}

inet_csk_listen_poll(s) == Flag(s.child, {"IN"})

NoPoll == [pc |-> "idle", state |-> "CLOSE", mask |-> {}, woken |-> FALSE,
           hangup |-> FALSE]

(* hangup is history: when the poll saw the socket hung up, an error had   *)
(* ended it, which nobody has read since.                                  *)
Poller == [pc : {"idle", "flags", "nospace", "recheck", "err", "asleep", "done"},
           state : States,
           mask : SUBSET {"HUP", "IN", "RDHUP", "OUT", "ERR"},
           woken : BOOLEAN, hangup : BOOLEAN]

(* A waiter is registered from the start of its poll on.                   *)
Wake(condition) ==
    poller' = IF condition /\ poller.pc # "idle"
              THEN [poller EXCEPT !.woken = TRUE] ELSE poller

(* sk_stream_write_space() wakes at half the limit of unsent bytes.        *)
Wakes_writers(s) == s.nospace /\ sk_stream_is_writeable(s, TRUE)

Poll == poller' = [NoPoll EXCEPT !.pc = "flags", !.state = sk.state]

PollStart ==
    /\ app = "open"
    /\ poller.pc = "idle"
    /\ Poll
    /\ UNCHANGED <<sk, app, holder, backlog, peer>>

PollAgain ==
    /\ poller.pc = "asleep"
    /\ poller.woken
    /\ Poll
    /\ UNCHANGED <<sk, app, holder, backlog, peer>>

(* poll() returns: with what it found, or because its time is over.        *)
PollReturns ==
    /\ poller.pc \in {"asleep", "done"}
    /\ poller' = NoPoll
    /\ UNCHANGED <<sk, app, holder, backlog, peer>>

PollListen ==
    /\ poller.pc = "flags"
    /\ poller.state = "LISTEN"
    /\ poller' = [poller EXCEPT
           !.mask = inet_csk_listen_poll(sk),
           !.pc = IF inet_csk_listen_poll(sk) = {} THEN "asleep" ELSE "done"]
    /\ UNCHANGED <<sk, app, holder, backlog, peer>>

PollTests ==
    /\ poller.pc = "flags"
    /\ poller.state # "LISTEN"
    /\ LET found == PollFlags(sk, poller.state)
       IN poller' = [poller EXCEPT
              !.mask = found,
              !.state = "CLOSE",   \* not read any more
              !.hangup = sk.killed /\ "HUP" \in found,
              !.pc = IF Connected(poller.state) /\ "OUT" \notin found
                     THEN "nospace" ELSE "err"]
    /\ UNCHANGED <<sk, app, holder, backlog, peer>>

PollSetsNospace_at_once ==
    /\ poller.pc = "nospace"
    /\ sk' = [sk EXCEPT !.nospace = TRUE]
    /\ poller' = [poller EXCEPT !.pc = "err"]
    /\ UNCHANGED <<app, holder, backlog, peer>>

(* The race breaker: first the flag, then a second look.                   *)
PollSetsNospace ==
    /\ poller.pc = "nospace"
    /\ sk' = [sk EXCEPT !.nospace = TRUE]
    /\ poller' = [poller EXCEPT !.pc = "recheck"]
    /\ UNCHANGED <<app, holder, backlog, peer>>

PollRechecks ==
    /\ poller.pc = "recheck"
    /\ poller' = [poller EXCEPT
           !.mask = @ \cup Flag(sk_stream_is_writeable(sk, FALSE), {"OUT"}),
           !.pc = "err"]
    /\ UNCHANGED <<sk, app, holder, backlog, peer>>

PollReadsErr ==
    /\ poller.pc = "err"
    /\ LET found == poller.mask \cup Flag(sk.err, {"ERR"})
       IN poller' = [poller EXCEPT
              !.mask = found,
              !.pc = IF found = {} THEN "asleep" ELSE "done"]
    /\ UNCHANGED <<sk, app, holder, backlog, peer>>

-----------------------------------------------------------------------------
(* The application's calls, each under the lock.                           *)

Free == app = "open" /\ holder = "free"

(* tcp_v4_connect() and inet_csk_listen_start() *)
Connect ==
    /\ Free /\ sk.state = "CLOSE" /\ ~peer.met
    /\ sk.shutdown = {}
    /\ sk' = tcp_set_state(sk, "SYN_SENT")
    /\ peer' = [peer EXCEPT !.met = TRUE]
    /\ UNCHANGED <<app, holder, backlog, poller>>

Listen ==
    /\ Free /\ sk.state = "CLOSE" /\ ~peer.met
    /\ sk.shutdown = {}
    /\ sk' = tcp_set_state(sk, "LISTEN")
    /\ UNCHANGED <<app, holder, backlog, peer, poller>>

(* accept(), after which this application closes the listening socket.     *)
Accept ==
    /\ Free /\ sk.child
    /\ poller.pc = "idle"
    /\ sk' = [tcp_init_sock EXCEPT !.state = "ESTABLISHED",
                                   !.lowat = sk.lowat, !.linger2 = sk.linger2]
    /\ UNCHANGED <<app, holder, backlog, peer, poller>>

(* inet_shutdown() *)
Shutdown ==
    /\ Free /\ sk.state # "CLOSE"
    /\ \E how \in SUBSET SHUTDOWN_MASK \ {{}} :
         sk' = IF sk.state = "LISTEN"
               THEN IF RCV_SHUTDOWN \in how THEN tcp_disconnect(sk) ELSE sk
               ELSE IF sk.state = "SYN_SENT" THEN tcp_disconnect(sk)
               ELSE tcp_shutdown([sk EXCEPT !.shutdown = @ \cup how], how)
    /\ Wake(TRUE)
    /\ UNCHANGED <<app, holder, backlog, peer>>

(* tcp_disconnect() ends in sk_error_report(). *)
Disconnect ==
    /\ Free
    /\ sk' = tcp_disconnect(sk)
    /\ Wake(TRUE)
    /\ UNCHANGED <<app, holder, backlog, peer>>

(* A write of one byte, or EAGAIN; a read of what is at hand, or of the    *)
(* error; TcpStream has both in detail.                                    *)
Write ==
    /\ Free /\ ~sk.repair /\ ~sk.err
    /\ sk.state \in {"ESTABLISHED", "CLOSE_WAIT"}
    /\ SEND_SHUTDOWN \notin sk.shutdown
    /\ IF sk_stream_memory_free(sk)
       THEN /\ peer.wanted > 0
            /\ sk' = [sk EXCEPT !.unsent = @ + 1]
            /\ peer' = [peer EXCEPT !.wanted = @ - 1]
       ELSE /\ sk' = [sk EXCEPT !.nospace = TRUE]
            /\ UNCHANGED peer
    /\ UNCHANGED <<app, holder, backlog, poller>>

Read ==
    /\ Free /\ ~sk.repair
    /\ IF sk.receive_queue # <<>>
       THEN /\ sk' = [sk EXCEPT !.receive_queue = Tail(@)]
            /\ UNCHANGED poller
       ELSE /\ sk.err
            /\ sk' = [sk EXCEPT !.err = FALSE, !.killed = FALSE]
            /\ poller' = [poller EXCEPT !.hangup = FALSE]
    /\ UNCHANGED <<app, holder, backlog, peer>>

SetOption ==
    /\ Free
    /\ \/ \E val \in DeferSeconds :
            sk.state = "LISTEN" /\ sk' = setsockopt_DEFER_ACCEPT(sk, val)
       \/ \E val \in Linger2s : sk' = setsockopt_LINGER2(sk, val)
       \/ \E val \in BOOLEAN : sk' = setsockopt_REPAIR(sk, val)
    /\ UNCHANGED <<app, holder, backlog, peer, poller>>

(* TCP_NOTSENT_LOWAT calls sk_write_space(). *)
SetNotsentLowat ==
    /\ Free
    /\ \E val \in Lowats :
         LET set == [sk EXCEPT !.lowat = val]
             wakes == sk_stream_is_writeable(set, TRUE)
         IN /\ sk' = IF wakes THEN [set EXCEPT !.nospace = FALSE] ELSE set
            /\ Wake(wakes)
    /\ UNCHANGED <<app, holder, backlog, peer>>

-----------------------------------------------------------------------------
(* tcp_close(), up to where it may wait for the peer and after.            *)

(* data_was_unread: the FIN in the queue is not a byte of the peer's.      *)
DataWasUnread(s) == \E i \in DOMAIN s.receive_queue : s.receive_queue[i].len > 0

CloseConnection_linger_first(s, linger0) ==
    LET flushed == [s EXCEPT !.shutdown = SHUTDOWN_MASK, !.receive_queue = <<>>]
        tossed == [flushed EXCEPT !.unread = @ \/ DataWasUnread(s)]
    IN IF s.state = "LISTEN"
       THEN inet_csk_listen_stop(
                tcp_set_state([s EXCEPT !.shutdown = SHUTDOWN_MASK], "CLOSE"))
       ELSE IF s.state = "CLOSE" THEN flushed
       ELSE IF s.repair THEN tcp_disconnect(flushed)
       ELSE IF linger0 THEN tcp_disconnect(tossed)
       ELSE IF DataWasUnread(s)
            THEN tcp_send_active_reset(tcp_set_state(tossed, "CLOSE"))
       ELSE tcp_close_state(tossed)

(* The part of tcp_close() before sk_stream_wait_close(): sk_shutdown is   *)
(* set, the receive queue thrown away.  unread notes the loss of a         *)
(* connection that is still there to be reset; a socket in repair is       *)
(* closed without a word on purpose.                                       *)
CloseConnection(s, linger0) ==
    LET flushed == [s EXCEPT !.shutdown = SHUTDOWN_MASK, !.receive_queue = <<>>]
        tossed == [flushed EXCEPT !.unread = @ \/ DataWasUnread(s)]
    IN IF s.state = "LISTEN"
       THEN inet_csk_listen_stop(
                tcp_set_state([s EXCEPT !.shutdown = SHUTDOWN_MASK], "CLOSE"))
       ELSE IF s.state = "CLOSE" THEN flushed
       ELSE IF s.repair THEN tcp_disconnect(flushed)
       ELSE IF DataWasUnread(s)
            THEN tcp_send_active_reset(tcp_set_state(tossed, "CLOSE"))
       ELSE IF linger0 THEN tcp_disconnect(tossed)
       ELSE tcp_close_state(tossed)

Closing(s) == s.state \in {"FIN_WAIT1", "CLOSING", "LAST_ACK"}

(* how is what SO_LINGER asks for: nothing, a wait, or zero seconds.       *)
Close ==
    /\ Free
    /\ poller.pc = "idle"
    /\ \E how \in {"plain", "linger", "linger0"} :
         LET next == CloseConnection(sk, how = "linger0")
             waits == how = "linger" /\ Closing(next)
         IN /\ sk' = next
            /\ app' = IF waits THEN "lingering" ELSE "adjudge"
            /\ holder' = IF waits THEN "free" ELSE "close"
    /\ UNCHANGED <<backlog, peer, poller>>

(* sk_stream_wait_close() ends: closed, or the time is over.               *)
LingerEnds ==
    /\ app = "lingering" /\ holder = "free"
    /\ app' = "adjudge"
    /\ holder' = "close"
    /\ UNCHANGED <<sk, backlog, peer, poller>>

-----------------------------------------------------------------------------
(* Segments of the peer.  Of a socket that no longer waits for data, and of *)
(* one that is gone, data is answered with a reset.                        *)

tcp_reset(s) ==
    IF s.state = "CLOSE" THEN s
    ELSE tcp_done(tcp_write_queue_purge([s EXCEPT !.err = TRUE, !.killed = TRUE]))

tcp_fin(s) ==
    LET queued == [s EXCEPT !.shutdown = @ \cup {RCV_SHUTDOWN},
                            !.receive_queue = Append(@, [len |-> 0, fin |-> TRUE])]
    IN CASE s.state \in {"SYN_RECV", "ESTABLISHED"} ->
                tcp_set_state(queued, "CLOSE_WAIT")
         [] s.state = "FIN_WAIT1" -> tcp_set_state(queued, "CLOSING")
         [] s.state = "FIN_WAIT2" -> tcp_time_wait(queued)
         [] OTHER -> s

tcp_data(s) ==
    IF \/ s.state = "ESTABLISHED"
       \/ /\ s.state \in {"FIN_WAIT1", "FIN_WAIT2"}
          /\ RCV_SHUTDOWN \notin s.shutdown
    THEN [s EXCEPT !.receive_queue = Append(@, [len |-> 1, fin |-> FALSE])]
    ELSE [tcp_send_active_reset(tcp_reset(s)) EXCEPT !.unread = TRUE]

(* long: tcp_fin_time() is above TCP_TIMEWAIT_LEN, or the lock is held.    *)
FinAcked(s, long) ==
    LET half == [tcp_set_state(s, "FIN_WAIT2")
                 EXCEPT !.shutdown = @ \cup {SEND_SHUTDOWN}]
    IN CASE s.state = "FIN_WAIT1" ->
                IF ~s.dead THEN half
                ELSE IF s.linger2 < 0 THEN tcp_send_active_reset(tcp_done(half))
                ELSE IF long THEN [half EXCEPT !.timer = TRUE]
                ELSE tcp_time_wait(half)
         [] s.state = "CLOSING" -> tcp_time_wait(s)
         [] s.state = "LAST_ACK" -> tcp_done(s)
         [] OTHER -> s

tcp_ack(s, long) ==
    LET acked == [s EXCEPT !.in_flight = 0,
                           !.fin = IF @ = "sent" THEN "acked" ELSE @,
                           !.state = IF @ = "SYN_RECV" THEN "ESTABLISHED" ELSE @]
    IN IF s.fin = "sent" THEN FinAcked(acked, long) ELSE acked

tcp_synsent(s, state) ==
    IF s.state = "SYN_SENT" THEN tcp_set_state(s, state) ELSE s

tcp_rcv(s, segment, long) ==
    CASE segment = "syn" -> tcp_synsent(s, "SYN_RECV")
      [] segment = "synack" -> tcp_synsent(s, "ESTABLISHED")
      [] segment = "ack" -> tcp_ack(s, long)
      [] segment = "data" -> tcp_data(s)
      [] segment = "fin" -> tcp_fin(s)
      [] segment = "rst" -> tcp_reset(s)

(* The receive path calls sk_state_change() or sk_data_ready(), and        *)
(* tcp_check_space() once memory is free again.                            *)
Notices(old, new) ==
    \/ new.receive_queue # old.receive_queue
    \/ new.err # old.err
    \/ new.state # old.state /\ new.state # "SYN_RECV"
    \/ Wakes_writers(new)

Handled(s) == [s EXCEPT !.nospace = @ /\ ~Wakes_writers(s)]

Arrives(segment) ==
    \/ /\ holder = "free"
       /\ \E long \in BOOLEAN :
            LET next == tcp_rcv(sk, segment, long)
            IN sk' = Handled(next) /\ Wake(Notices(sk, next))
       /\ UNCHANGED backlog
    \/ /\ holder = "close"
       /\ Len(backlog) < MaxBacklog
       /\ backlog' = Append(backlog, segment)
       /\ UNCHANGED <<sk, poller>>

(* The peer speaks until it has been reset.                                *)
Speaking == peer.talking /\ ~sk.reset

PeerConnects ==
    /\ peer.met /\ ~peer.talking
    /\ sk.state = "SYN_SENT"
    /\ \E segment \in {"syn", "synack"} : Arrives(segment)
    /\ peer' = [peer EXCEPT !.talking = TRUE]
    /\ UNCHANGED <<app, holder>>

(* A whole handshake with a listening socket: a child waits for accept().  *)
PeerConnectsToListener ==
    /\ sk.state = "LISTEN" /\ holder = "free" /\ ~peer.met
    /\ sk' = [sk EXCEPT !.child = TRUE]
    /\ peer' = [peer EXCEPT !.met = TRUE, !.talking = TRUE]
    /\ Wake(TRUE)
    /\ UNCHANGED <<app, holder, backlog>>

PeerAcks ==
    /\ Speaking
    /\ sk.in_flight > 0 \/ sk.fin = "sent" \/ sk.state = "SYN_RECV"
    /\ Arrives("ack")
    /\ UNCHANGED <<app, holder, peer>>

PeerSends ==
    /\ Speaking
    /\ sk.state \notin {"LISTEN", "SYN_RECV"}
    /\ peer.left > 0 /\ ~peer.fin
    /\ Arrives("data")
    /\ peer' = [peer EXCEPT !.left = @ - 1]
    /\ UNCHANGED <<app, holder>>

PeerFinishes ==
    /\ Speaking
    /\ sk.state \notin {"LISTEN"}
    /\ ~peer.fin
    /\ Arrives("fin")
    /\ peer' = [peer EXCEPT !.fin = TRUE]
    /\ UNCHANGED <<app, holder>>

(* A reset of the peer, or tcp_write_err() of a timer, outside the backlog: *)
(* sk_err, a barrier, then tcp_done(), with poll() in between.             *)
ResetBegins ==
    /\ holder = "free"
    /\ sk.state \notin {"CLOSE", "LISTEN"}
    /\ sk' = [sk EXCEPT !.err = TRUE, !.killed = TRUE]
    /\ holder' = "reset"
    /\ UNCHANGED <<app, backlog, peer, poller>>

ResetEnds ==
    /\ holder = "reset"
    /\ sk' = tcp_done(tcp_write_queue_purge(sk))
    /\ holder' = "free"
    /\ Wake(~sk.dead)
    /\ UNCHANGED <<app, backlog, peer>>

PeerResets ==
    /\ holder = "close"
    /\ peer.talking /\ sk.state # "LISTEN"
    /\ Arrives("rst")
    /\ UNCHANGED <<app, holder, peer>>

(* tcp_write_xmit(), whenever the peer's window and the local queue let it. *)
Transmit ==
    /\ holder = "free"
    /\ sk.state \notin {"CLOSE", "LISTEN", "SYN_SENT", "SYN_RECV"}
    /\ sk.unsent + FinQueued(sk) > 0
    /\ sk' = [sk EXCEPT !.in_flight = @ + sk.unsent, !.unsent = 0,
                        !.fin = IF @ = "queued" THEN "sent" ELSE @]
    /\ UNCHANGED <<app, holder, backlog, peer, poller>>

-----------------------------------------------------------------------------
(* The end of tcp_close(): the socket loses its process, what waited for   *)
(* the lock is handled (__release_sock()), and what is left is judged.     *)

(* sock_orphan(); sk.old is the variable state of tcp_close().             *)
Orphan ==
    /\ app = "adjudge"
    /\ sk' = [sk EXCEPT !.dead = TRUE, !.old = sk.state]
    /\ app' = "backlog"
    /\ UNCHANGED <<holder, backlog, peer, poller>>

(* While __release_sock() handles one segment others still arrive.         *)
HandleBacklog ==
    /\ app = "backlog"
    /\ backlog # <<>>
    /\ sk' = Handled(tcp_rcv(sk, Head(backlog), TRUE))
    /\ backlog' = Tail(backlog)
    /\ UNCHANGED <<app, holder, peer, poller>>

AdjudgeToDeath_again(s, old, long, oom) ==
    LET reset == tcp_send_active_reset(tcp_set_state(s, "CLOSE"))
        kept == IF s.state # "FIN_WAIT2" THEN s
                ELSE IF s.linger2 < 0 THEN reset
                ELSE [s EXCEPT !.timer = TRUE]
        judged == IF kept.state # "CLOSE" /\ oom THEN reset ELSE kept
    IN IF s.state = "FIN_WAIT2" /\ s.linger2 >= 0 /\ ~long
       THEN tcp_time_wait(s)
       ELSE IF judged.state = "CLOSE" THEN inet_csk_destroy_sock(judged)
       ELSE judged

(* adjudge_to_death: of tcp_close().  old is the state before the backlog; *)
(* oom is tcp_check_oom(), which the other sockets decide.                 *)
AdjudgeToDeath(s, old, long, oom) ==
    LET reset == tcp_send_active_reset(tcp_set_state(s, "CLOSE"))
        kept == IF s.state # "FIN_WAIT2" THEN s
                ELSE IF s.linger2 < 0 THEN reset
                ELSE [s EXCEPT !.timer = TRUE]
        judged == IF kept.state # "CLOSE" /\ oom THEN reset ELSE kept
    IN IF old # "CLOSE" /\ s.state = "CLOSE" THEN s
       ELSE IF s.state = "FIN_WAIT2" /\ s.linger2 >= 0 /\ ~long
            THEN tcp_time_wait(s)
       ELSE IF judged.state = "CLOSE" THEN inet_csk_destroy_sock(judged)
       ELSE judged

CloseEnds ==
    /\ app = "backlog"
    /\ backlog = <<>>
    /\ \E long, oom \in BOOLEAN :
         sk' = [AdjudgeToDeath(sk, sk.old, long, oom) EXCEPT !.old = "CLOSE"]
    /\ app' = "closed"
    /\ holder' = "free"
    /\ UNCHANGED <<backlog, peer, poller>>

(* The timer of an orphan in FIN_WAIT2 (tcp_keepalive_timer()).            *)
OrphanTimer ==
    /\ holder = "free"
    /\ sk.timer /\ sk.dead /\ sk.state = "FIN_WAIT2"
    /\ \E long \in BOOLEAN :
         sk' = IF sk.linger2 >= 0 /\ long THEN tcp_time_wait(sk)
               ELSE tcp_done(tcp_send_active_reset(sk))
    /\ UNCHANGED <<app, holder, backlog, peer, poller>>

AbortBegins_done_first ==
    /\ holder = "free"
    /\ sk.state # "CLOSE"
    /\ LET heard == IF sk.state = "LISTEN"
                    THEN inet_csk_listen_stop(tcp_set_state(sk, "CLOSE"))
                    ELSE sk
           reset == IF tcp_need_reset(heard.state)
                    THEN tcp_send_active_reset(heard) ELSE heard
       IN sk' = IF sk.dead THEN heard ELSE tcp_done([reset EXCEPT !.killed = TRUE])
    /\ holder' = "abort"
    /\ Wake(~sk.dead)
    /\ UNCHANGED <<app, backlog, peer>>

(* tcp_abort(), which an administrator calls on a hashed socket, up to the *)
(* barrier that tcp_poll() relies on, and after it.                        *)
AbortBegins ==
    /\ holder = "free"
    /\ sk.state # "CLOSE"
    /\ LET heard == IF sk.state = "LISTEN"
                    THEN inet_csk_listen_stop(tcp_set_state(sk, "CLOSE"))
                    ELSE sk
           failed == [heard EXCEPT !.err = TRUE, !.killed = TRUE]
       IN sk' = IF sk.dead THEN heard
                ELSE IF tcp_need_reset(heard.state)
                THEN tcp_send_active_reset(failed) ELSE failed
    /\ holder' = "abort"
    /\ Wake(~sk.dead)
    /\ UNCHANGED <<app, backlog, peer>>

AbortEnds ==
    /\ holder = "abort"
    /\ sk' = tcp_write_queue_purge(IF sk.dead THEN sk ELSE tcp_done(sk))
    /\ holder' = "free"
    /\ Wake(~sk.dead)
    /\ UNCHANGED <<app, backlog, peer>>

-----------------------------------------------------------------------------

Init ==
    /\ sk = tcp_init_sock
    /\ app = "open"
    /\ holder = "free"
    /\ backlog = <<>>
    /\ peer = [met |-> FALSE, talking |-> FALSE, fin |-> FALSE,
               left |-> MaxIn, wanted |-> MaxOut]
    /\ poller = NoPoll

Calls == \/ Connect \/ Listen \/ Accept \/ Shutdown \/ Disconnect
         \/ Write \/ Read \/ SetOption \/ SetNotsentLowat
         \/ Close \/ LingerEnds \/ Orphan \/ HandleBacklog \/ CloseEnds

Polls == \/ PollStart \/ PollAgain \/ PollReturns \/ PollListen \/ PollTests
         \/ PollSetsNospace \/ PollRechecks \/ PollReadsErr

Network == \/ PeerConnects \/ PeerConnectsToListener \/ PeerAcks \/ PeerSends
           \/ PeerFinishes \/ PeerResets \/ ResetBegins \/ ResetEnds
           \/ Transmit \/ OrphanTimer

Aborts == AbortBegins \/ AbortEnds

Next == Calls \/ Polls \/ Network \/ Aborts

Spec == Init /\ [][Next]_vars

-----------------------------------------------------------------------------
(* Every variable has its type.                                            *)
TypeOK ==
    /\ sk \in Sock
    /\ app \in {"open", "lingering", "adjudge", "backlog", "closed"}
    /\ holder \in {"free", "close", "reset", "abort"}
    /\ backlog \in Seq(Segments) /\ Len(backlog) <= MaxBacklog
    /\ peer \in [met : BOOLEAN, talking : BOOLEAN, fin : BOOLEAN,
                 left : 0 .. MaxIn, wanted : 0 .. MaxOut]
    /\ poller \in Poller

(* tcp_close() sends a reset "because data was lost" (comment at 2376): a  *)
(* peer whose bytes close() threw away, or that sends more to a closed     *)
(* socket, is always reset, whatever the options, the lingering and the    *)
(* state of the connection.                                                *)
LossIsReset == sk.unread => sk.reset

(* A socket without a process is destroyed once, when it has reached       *)
(* CLOSE: by tcp_close() itself, by what it found in the backlog, by the   *)
(* peer's last segment or by a timer, whoever comes first.                 *)
DestroyedOnce ==
    LET ended == \/ app = "closed"
                 \/ app = "backlog" /\ sk.old # "CLOSE"
    IN sk.destroyed = IF ended /\ sk.state = "CLOSE" THEN 1 ELSE 0

(* A poll() that finds the socket hung up by a reset, a timeout or         *)
(* tcp_abort() also finds the error: the barriers of tcp_abort() and       *)
(* tcp_poll() order the two.                                               *)
HangupHasError ==
    poller.pc = "done" /\ poller.hangup => "ERR" \in poller.mask

(* No lost wakeup: while a thread sleeps in poll() unwoken there is        *)
(* nothing to report to it, or the acknowledgement that will wake it is    *)
(* still to come.  tcp_poll() tests without the lock and relies on the     *)
(* second look after SOCK_NOSPACE is set.                                  *)
ToReport(s) ==
    IF s.state = "LISTEN" THEN inet_csk_listen_poll(s)
    ELSE (PollFlags(s, s.state) \ {"OUT"}) \cup Flag(s.err, {"ERR"})
         \cup Flag(/\ Connected(s.state)
                   /\ SEND_SHUTDOWN \in s.shutdown
                        \/ sk_stream_is_writeable(s, TRUE), {"OUT"})

NoLostWakeup ==
    poller.pc = "asleep" /\ ~poller.woken
        => \/ ToReport(sk) = {}
           \/ ToReport(sk) = {"OUT"} /\ sk.nospace /\ sk.in_flight > 0
           \/ holder = "reset"

(* getsockopt(TCP_DEFER_ACCEPT) reports at least what was asked for, and   *)
(* less than a retransmission more, as long as the count fits its byte:    *)
(* secs_to_retrans() and retrans_to_secs() still invert each other without *)
(* the doubling this lab took out of both.                                 *)
DeferAcceptCovers ==
    LET granted == getsockopt_DEFER_ACCEPT(sk)
    IN sk.defer < U8_MAX =>
         /\ granted >= sk.defer_asked
         /\ sk.defer_asked > TCP_TIMEOUT_INIT =>
                granted - sk.defer_asked < TCP_TIMEOUT_INIT
=============================================================================
