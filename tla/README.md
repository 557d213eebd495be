# Verification of the course labs: the Lab 03 file transfer and Lab 04's TCP

The repository holds the labs of a course on internetworking and cloud
computing.  Its one protocol of its own is the UDP file transfer of Lab 03: a
client and a server that upload and download files with a numbered-frame,
ask-again protocol.  Lab 04 changes the timers of the Linux kernel's TCP.  This
project specifies the protocol, and the parts of TCP in Lab 04 that make a
connection end and its bytes arrive, in TLA+, model-checks them with TLC and
proves the main properties of the protocol, of the timers, of the socket and of the
byte stream with TLAPS.

## 1. Inventory

| Component | Source | State | Operations |
|---|---|---|---|
| Transfer, sending side | `send_file()` in `src_server/udp_server.cpp`, `src_client/udp_client.cpp` | position in the code, last packet read, `missing_frame_seq`, `fileVector` | send every frame, repeat `SEND_FILE_DONE` until acknowledged, collect requests, resend, stop at `GET_ALL_FILE` |
| Transfer, receiving side | `receive_file()`, `request_to_resend_missing_frame()` | position, last packet read (two buffers), `receive_file_map`, `receive_file_sequence`, `missing_frame_sequence`, counters, reply address | gather, acknowledge, compute and request missing frames, collect, report `GET_ALL_FILE`, give up |
| Missing numbers | `missing_frame()` | the walk's position and set | the walk |
| Request text | `request_to_resend_missing_frame()`, `missing_frame_packet_interpreter()` | `send_string` | pack, flush, finish |
| Session | `run()`, `send_user_request()`, `receive_user_request()`, `send_header()`, `receive_header()`, the download request | `user_request`, `file_name`, `total_frame`, `from`, the socket's timeout | one session after the other on one socket |
| File content | `readFile()`, `writeFile()` | file, frame vector, frame map | split, join |
| Argument parsers | `argParser.cpp` | options | none of interest |
| Lab 04 timers | `tcp_timer.c` | one socket's timers, retransmissions, backoff, probes | fire, arm, defer to `release_sock()`, give up |
| Lab 04 socket | `tcp.c`: `tcp_close()`, `tcp_disconnect()`, `tcp_abort()`, `tcp_poll()`, options | state, `sk_shutdown`, `sk_err`, queues, backlog | open, shut, close, linger, abort, poll |
| Lab 04 stream | `tcp.c`: `tcp_sendmsg()`, `do_tcp_sendpages()`, `tcp_recvmsg()`, `tcp_cleanup_rbuf()`, ... | write queue, windows, `copied_seq`, urgent byte, waits | write, push, cork, read, peek, splice, map |
| Lab 01 servers | `src/server.c`, ... | listening socket, children | accept, fork, echo |
| Lab 08, Lab 09 devices | `hello_world.cpp`, `ota_example_*.cpp` | loop counter; radio session | sample, join, send, sleep |
| Lab 06, Lab 10 scripts | `*.py`, `*.ipynb` | none | straight-line data analysis |

Interaction.  The two peers share nothing but datagrams.  Each is sequential
code between blocking `recvfrom()` calls; a receive timeout of two seconds is
set in `receive_file()` only, and so holds for a client that downloads and for
a server from its first upload on.  A call that times out leaves the previous
packet in the buffer, and most loops look at that buffer again without looking
at the return value.

What is hard here: frames, requests and acknowledgements are lost, repeated and
overtaken; late packets of one round arrive in the next; timeouts are taken for
the end of the file; both peers have limits on repetition that end one side
before the other; a burst of up to 200 copies goes into a bounded buffer;
`missing_frame()` has its edges at an empty vector and at `total_frame`.

Lab 04 is kernel code: a socket has a lock, and timers, arriving segments and
other threads find it taken or free.  What finds it taken is put off to
`release_sock()` (`deferred`, the backlog) and meets a state that others have
changed meanwhile; `tcp_poll()` does not take it at all.  A writer sleeps until
an acknowledgement frees its buffer, a reader until the queue has grown, and
each of the two can be what the other waits for.

`PROJECT.json` lists each hazard at its line with the properties that cover it.

What makes each part correct:
* transfer: a file reported complete is complete and has the sender's content;
  the sender ends only after that; what was received is never lost again; with
  bounded loss both sides end;
* missing numbers: exactly what was not received;
* request text: every number once, in packets that fit the buffer, the last one
  marked;
* session: the two peers agree on file, length and address, and a new session is
  not confused by an old one's datagrams;
* file content: joining what was split gives the file back;
* timers: while data waits a timer is armed; a connection is given up when the
  modelled time is over and not before;
* socket: a peer whose data is thrown away learns of it; the socket is destroyed
  once; `poll()` never sleeps on something it should report;
* stream: every read continues where the last one ended; a wait ends with what
  it promised; neither side is left asleep with the other idle.

## 2. Plan

1. `FileTransfer` with `ReliableDelivery` (done), its theorems (done).
2. `MissingFrames`, `MissingRequest`: the two loops, with theorems (done).
3. `FileTransferFifo`: order, burst sizes, buffers, liveness (done).
4. `Session`: the server's loop, several clients, leftovers (done).
5. `FileFrames`: `readFile()`/`writeFile()` and `total_frame`, with theorems
   (done).
6. `TcpTimers`: the timers of Lab 04 as the lab changed them (done).
7. `TcpSocket`: the life of a socket, `tcp_poll()`, options (done).
8. `TcpSend`, `TcpReceive`, and `TcpStream` that composes them (done).
9. `TcpSocket_proofs`, `TcpTimers_proofs`, `Session_proofs`, and in
   `FileTransfer_proofs` that `FileTransferFifo` implements `FileTransfer` (done).
10. `TcpStream_proofs`, `SlidingWindow` that `TcpStream` implements (done).
11. Proofs left: `AckBurstSuffices` of `FileTransferFifo`, `DownloadsData` and
    `FilesUnmixed` of `Session`, which count copies and timeouts against losses.

## 3. Modules

**`FileTransfer`** is one transfer.  `spc` and `rpc` say at which `recvfrom()`
each peer waits; an action is the code from one such call to the next, on the
packet the call left in the buffer.

| State | Code |
|---|---|
| `spc = "awaitAck"` | `send_file()` lines 125-133 (server file) |
| `"awaitRequest"` | lines 141-151 and 182 |
| `"awaitAck2"` | lines 165-178 |
| `"end"`, `"crashed"` | returned; ended by reading past `fileVector` |
| `rpc = "first"`, `"gather"` | `receive_file()` lines 290 and 299 |
| `"request"` | `request_to_resend_missing_frame()` lines 503-506 |
| `"answer"`, `"collect"` | lines 322 and 329 |
| `"final"`, `"done"` | lines 345-348; returned |
| `"exited"`, `"crashed"` | `error()` after failed `sendto()`s; `missing_frame()` of nothing |
| `sbuf`, `rbuf`, `lbuf` | the three `receive_packet` variables |
| `rmap`, `missing`, `mfs` | `receive_file_map`, `missing_frame_sequence`, `missing_frame_seq` (as a set) |
| `toR`, `toS` | all datagrams ever sent to each peer |

The network is a set that only grows: any datagram sent can be received at any
later time, any number of times, or never.  A timeout may happen at any time.
Two kinds of undefined behaviour are choices: the read past `fileVector` yields
a string of `Stray` or ends the process, and the uninitialised packet of
`request_to_resend_missing_frame()` is an old `SEND_MISSING_DONE_ACK` or
anything else.  `receive_file_sequence` is the domain of `receive_file_map`,
which is filled next to it until `missing_frame()` is called.  A frame's content
is a model value.

**`ReliableDelivery`** is what a transfer promises, with no protocol; the
instance `Delivery` in `FileTransfer` maps the transfer to it.
**`FrameSets`** holds the one definition the transfer and the walk share.
**`MissingFrames`** is the loop of `missing_frame()`, an action for each branch.
**`MissingRequest`** is the loop that packs the numbers; the length of each
number is a constant function, so that the theorems hold for any.
**`FileTransferFifo`** puts the same actions on FIFO socket buffers of a given
capacity, with bursts of `MAX_SEND` copies and a bounded number of losses.
Every step is a step of `FileTransfer` on the packet at the head of the queue.
The line numbers in `FileTransfer` and `MissingFrames` are those of the server,
in the other two of the client: each program has a copy of both functions,
which differ only in the address they send to (the client always to `server`,
hence `InitialFrom = "sender"` for a download).

**`Session`** is the server and any number of clients, each with one request.
`pc[a]` is the `recvfrom()` a peer waits at:

| `pc` | Code (server file, or client file) |
|---|---|
| client `"reply"`, `"fileAnswer"` | `send_user_request()`, `request_to_download_file()` |
| server `"request"`, `"fileRequest"` | `receive_user_request()`, `receive_user_download_file_request()` |
| `"status"`, `"header"` | `send_header()`, `receive_header()` |
| `"awaitAck"`, `"awaitRequest"`, `"awaitAck2"` | `send_file()` |
| `"gather"`, `"missing"`, `"answer"`, `"collect"`, `"final"` | `receive_file()` and `request_to_resend_missing_frame()` |

`from` is the server's member, which every `recvfrom()` overwrites, `addr` the
copy some functions take of it.  Socket buffers are bounded queues; `Faults`
bounds losses and timeouts of a peer while another has something to read.  The
transfer is that of `FileTransfer` with one packet to a request, and the string
past the end of the vector always exists.  `send_header()` compares the answer's
frame count, which here is one number for all files, and the length of its
name, `NameLength`, not the name.  `MaxLive` is how many clients may be in a
session at a time.

**`FileFrames`** is `readFile()`, the computation of `total_frame` in `run()`,
and `writeFile()`, one loop round to an action, on bytes: a frame is a C string,
the buffer of `new char[]` holds anything (`Fresh`), the string past the end of
`fileVector` is one of `Strays`.  An empty file makes no frame: `NoFrame` is the
read of an empty vector's last element in `missing_frame()`, which ends the
receiver.

**`TcpTimers`** is one socket with its write and its keepalive timer, a user who
may hold the lock, a peer that answers or does not, and a local queue that may
refuse a segment.  The C functions are operators that take the socket and return
it.  Time is relative: a timer is the number of ticks it has left, a stamp is an
age, so no clock grows; a timer fires within its tick.  `SilenceAssumption` says
that the cap of the age of the peer's last answer, `MaxSilence`, is above every
time it is compared with: without it the cap, not the code, would decide.
`KeepaliveOnlyAfterSilence` counts the lesser of `keepalive_time` and
`keepalive_intvl` for each probe, because `tcp_keepalive_timer()` can be set again
by the first while probes are out (new data in between).  `tcp_timer.c` does not
compile as it is in the repository: the comment that takes out line 175 takes
the semicolon of line 174 with it.  The model reads the statement as ending
there.  The lab's text (`Lab04/README.md:18`, `:22`) says exponential backoff is
removed; `tcp_retransmit_timer()` still doubles `icsk_rto` (line 555), and so
does the model.

**`TcpSocket`** is one socket through `tcp_close()`, `tcp_disconnect()` and
`tcp_abort()`, with the steps of each that others can come between as actions of
their own: `tcp_close()` is `Close` and `LingerEnds`, then `Orphan`
(`sock_orphan()`), `HandleBacklog` for each segment that `__release_sock()` finds
(others may still arrive), and `CloseEnds` with `AdjudgeToDeath`, which compares
with the state `old` that `tcp_close()` noted before the backlog.  `tcp_poll()`
reads without the lock: loading the state, the tests that follow, setting
`SOCK_NOSPACE`, the second test of the space and reading `sk_err` are an action
each.  The first tests are one action, `PollTests`: others come before or after
them, not between them.  Segments of the peer are handled at once or, while the lock is taken,
from the backlog.  What `tcp_input.c` and `tcp_output.c` do is external.  Two
things seen on the way, not stated as properties: `TCP_QUEUE_SEQ` sets
`rcv_nxt` and leaves `copied_seq`; `tcp_abort()` on an orphan only purges its
write queue.

**`TcpSend`** and **`TcpReceive`** are the two ends of one direction of a
connection, **`TcpStream`** puts segments and acknowledgements between them.
Bytes are numbers, so that a byte is its place in the stream.  A pass of the loop
of `tcp_sendmsg()`, `do_tcp_sendpages()` or `tcp_recvmsg()` is an action; a round
of `tcp_splice_read()`, up to where it drops the lock, and the other readers are
one action each.  The loop of `tcp_write_xmit()`, external, is a recursive
function of the passes left: each pass sends a byte or the FIN, so `MaxBytes + 1`
are enough, and the proofs show that they are.

| State | Code |
|---|---|
| `tx.queue` | `sk_write_queue` as buffers `[seq, end]` |
| `tx.pushed_seq`, `nonagle`, `urg` | `pushed_seq`, `nonagle`, `snd_up - 1` |
| `tx.nospace`, `event`, `vm_wait` | `SOCK_NOSPACE`, a wake-up or EPOLLOUT, the timed wait of `sk_stream_wait_memory()` |
| `tx.throttled` | `TSQ_THROTTLED`: autocorked |
| `rx.copied_seq`, `rcv_nxt`, `rcv_wup`, `rcv_wnd` | the same |
| `rx.call.seq`, `hole` | `peek_seq` or `copied_seq`, `urg_hole` |
| `rx.sched`, `pushed`, `ack` | `ICSK_ACK_SCHED` with its timer, `ICSK_ACK_PUSHED`, the acknowledgement under way |
| `app` | a history, no state of the code: what the calls so far have consumed |

Abstractions: no segment is lost (retransmission is `TcpTimers`); one reader and
one urgent byte; while a call holds its lock the other end stands still, which
loses no order that matters because the steps of the two ends commute; the
urgent byte is a `MSG_OOB` call of one byte (`Sends`), of which there is one;
whether the device still has segments (`tcp_should_autocork()`) is a choice;
a copy into a page fragment is whole or fails, where the code goes round its loop
for the rest; `MSG_SENDPAGE_NOTLAST`, with which the last push is left to a later
call (`tcp.c:1077`), is left out.  A
`splice()` that meets the urgent byte returns 0 though the stream has not
ended, so only `tcp_recvmsg()` is held to "0 means the end".

**`SlidingWindow`** is what the two ends promise each other, with no segments: the
writer stays within what the reader has offered and adds nothing behind its
FIN, the reader within what was sent, its offer within the free part of its
buffer, and neither goes back.  The instance `Window` in `TcpStream` maps
`write_seq`, `snd_nxt`, `copied_seq` and `rcv_wup + rcv_wnd` to it.

`MC*` modules give constants their values.  `*_proofs` hold the theorems.

## 4. Runs

| Run | Shows | Bounds |
|---|---|---|
| `upload` | `TypeOK`, `Completeness`, `SenderEndsAfterReceiver`, `MissingExact`, `ImplementsDelivery` | 3 frames, 2 numbers to a request, so requests of one and two packets; `MAX_SEND` 1; server's address unset; client without timeout |
| `download` | `AcknowledgedEnd`, `PhantomFrameNeeded`, `FramesKept` | 2 frames, 1 number to a request; sender with timeout |
| `fifo_upload` | `FifoTypeOK`, `ReceiverSurvives`, `AckBurstSuffices`, `TransferEnds` | 3 frames, bursts of 3, 2 losses, buffers of 20 |
| `missing_frame` | `Correct` | all sorted vectors of 1-4 numbers in 0..4, `total_frame` 3 |
| `missing_request` | `FitsBuffer`, `AllAskedOnce` | all sets of numbers in 4..13, buffer of 7 |
| `session` | `DownloadsOwnName`, `DownloadsData`, `FilesUnmixed` | 2 uploads to one name, 2 downloads, two clients at once, 2 frames, buffers of 8, 2 faults |
| `session_turns` | `AllDone` | 7 clients one at a time, in every order in which a download comes after the upload of its file; 3 frames, bursts of 4 and 3, buffers of 5, no fault |
| `file_frames` | `FramesAgree`, `NothingStale`, `TextArrives` | files of up to 5 bytes over {0, 7, 8}, frames of 2 |
| `tcp_timers` | `TypeOK`, `TimerArmed`, `KeepaliveOnlyAfterSilence`, `SilentPeerEnds`, `OrphanEnds` | timeouts of 1 to 3 ticks, 2 retries, 2 segments |
| `tcp_socket` | `TypeOK`, `LossIsReset`, `DestroyedOnce`, `HangupHasError`, `NoLostWakeup`, `DeferAcceptCovers` | 1 byte in, 2 out, backlog of 2 |
| `tcp_stream` | `ReadsInOrder`, `ReadsEnough`, `DrainedMeansFlow`, `SenderWoken`, `ImplementsWindow` | 5 bytes, segments of 2, send buffer of 3, window of 4, one failed allocation or option |

The bounds suffice for the interesting cases.  With three frames a frame can be
the first, the last or in the middle of a gap and the phantom frame makes four
numbers, so requests have full and partial packets; the counters only compare
with `MAX_SEND`, so 1 already has a first, a last and a refused repetition; in
the FIFO run two losses can hit two copies of a burst, a frame and its
resending, or a request and its acknowledgement.  In `session` two clients at
once are as many as one server mixes up, and two faults are a lost packet and
the loss of its repetition.  In
`session_turns` a session leaves acknowledgements of its bursts in the server's
buffer for the next to find; buffers of 5, 6, 8 and 12 pass, with 3 or 4 the
burst takes the place of the resent frames, as in section 5.  Files of 5 bytes in frames of 2 have 0 to 3 frames,
full or short, with a zero byte at every place.  In `tcp_timers` a retransmission,
a second one and the end differ, and `MaxAge`, `MaxSilence`, `MaxBackoff` lie
above every number their counters are compared with.  `tcp_socket` has room for
a segment that waits behind another; bytes only count as none, some, or a full
buffer.  In `tcp_stream` the five bytes exceed both the send buffer and the
window, so a writer waits, the window closes and must be reopened, and a segment
is full, short, urgent or behind a cork; one failure is enough, because a
failed allocation is forgotten once its wait is over.

One run is expected to fail:

| Run | The statement | What happens |
|---|---|---|
| `tcp_boundary` | `tcp_timer.c:187`, the default timeout is that of `boundary` backed-off retransmissions | with the linear part gone (line 175) it stops growing at `ilog2(TCP_RTO_MAX / TCP_RTO_MIN)` retransmissions, while `tcp_retransmit_timer()` still backs off: the connection is given up earlier |

More configurations are kept for statements that the code does not bear out;
each can be run like the others and ends with the violation of its property:

| Configuration (module) | Property | The statement | What happens |
|---|---|---|---|
| `MCDownloadPhantom` (`MCFileTransfer`) | `OnlyMissingFramesRequested` | `packet.h:28`, the missing frames are requested | frame `total_frame`, which does not exist, is always requested; the sender reads past its vector |
| `MCDownloadSlowSender` (`MCFileTransfer`) | `DoneAckAfterDone` | `packet.h:27`, the acknowledgement confirms `SEND_FILE_DONE` | it is sent after two seconds of silence, whatever was sent |
| `MCFifoAllLost` (`MCFifo`) | `ReceiverSurvives` | `packet.h:28` | with no frame received `missing_frame()` dereferences a null pointer; an empty file takes the same path |
| `MCFifoEndlessDone` (`MCFifo`) | `DoneRepeatsStop` | `udp_server.h:21`, `MAX_SEND` limits repetition | `send_file()` prints a message at the limit and goes on |
| `MCFifoEndlessRequests` (`MCFifo`) | `ReceiverStops` | `udp_server.h:21` | the limit is per call, the calls are not limited |
| `MCFifoSlow` (`MCFifo`) | `SenderStops` | `Lab03/README.md:1`, reliable transfer | with no loss on the path a late client's buffer drops what it needs, the server ends, the client waits for ever |
| `MCSessionAnyAnswer` (`MCSession`) | `RequestReceived` | `udp_client.cpp:298`, "Request is successfully received by server" | any packet is the answer: the condition of the retry loop never holds |
| `MCSessionForeignEnd` (`MCSession`) | `SendEndsAfterReceiver` | `packet.h:31`, `GET_ALL_FILE` | the server takes another client's packet for its own client's and sends there |
| `MCSessionBlocked` (`MCSession`) | `ServedAfterNoFile` | `udp_client.cpp:60`, "enter correct file name" | the server has acknowledged the upload and is in `receive_header()`, which takes the requests of the next clients for headers that are none, until it waits for ever or ends the server at its limit; they wait for an answer that does not come |
| `MCSessionNoFile` (`MCSession`) | `MissingFileReported` | `udp_client.cpp:76`, "No such file in server ..." | the server sends no answer for a file it does not have; without a timeout the client waits |

`MCFifoDownload` (`MCFifo`) passes: `TransferEnds` for a download.

## 5. Fairness

`FileTransfer` has no fairness: its properties are safety.  `FifoSpec` has weak
fairness of each peer's step: both programs are single-threaded loops that the
system schedules, and each is always at a `recvfrom()` that returns when its
buffer is not empty or its timeout has passed.  A sender without timeout has no
step on an empty buffer.  `Prompt` says that a peer with something to read reads
it within the other's two seconds, which is so on a machine that is not
overloaded; `MCFifoSlow` is what happens otherwise.  The path loses at most
`Losses` datagrams in all; more losses than frames are `MCFifoAllLost`.  The buffers of the passing runs hold a burst and the file:
with less, and a receiver that reads nothing during a burst, the resent frames
behind 200 acknowledgements are dropped every time.

In `fifo_upload` `TransferEnds` allows one other end: the sender may die from
reading the phantom frame.

`FairSpec` of `Session` has weak fairness of each `recvfrom()` that can return and
of the start of each client, for the same reason as above.  `AllDone` promises an
end to the clients before one that asks to upload a file it does not have, to
that one, and to those in the middle of a session; those still at their request
may wait for ever after it (`MCSessionBlocked`).

`TcpTimers` has weak fairness of `Tick` (time passes), of the two timer handlers
(an expired kernel timer is run) and of `Release`: a process that holds the
socket's lock gives it back, since no system call keeps it while it sleeps.
Nothing is assumed of the peer or of the local queue.

`TcpSocket` and `TcpStream` state safety only: `NoLostWakeup`, `SenderWoken` and
`DrainedMeansFlow` say in each state that what must wake a sleeper is there or
under way, which is what the code's comments promise.

## 6. Proofs

Eight modules hold theorems; each is about every value of the constants that the
assumptions of its model allow.

| Module | Properties proved | Hypotheses |
|---|---|---|
| `FileTransfer_proofs` | `TypeOK`, `Completeness`, `SenderEndsAfterReceiver`, `MissingExact`, `PhantomFrameNeeded`, `AcknowledgedEnd`, `FramesKept`, `ImplementsDelivery` | `HandshakeOnly`, except for `TypeOK` |
| the same, for `FileTransferFifo` | the specification of `FileTransfer`, `FifoTypeOK`, `Completeness`, `ReceiverSurvives` | `HandshakeOnly`; for the last, a prompt sender and fewer losses than frames |
| `MissingFrames_proofs` | `Correct` | |
| `MissingRequest_proofs` | `FitsBuffer`, `AllAskedOnce` | |
| `FileFrames_proofs` | `TypeOK`, `FramesAgree`, `NothingStale`, `TextArrives` | |
| `Session_proofs` | `DownloadsOwnName` | |
| `TcpTimers_proofs` | `TypeOK`, `TimerArmed`, `KeepaliveOnlyAfterSilence` | |
| `TcpSocket_proofs` | `TypeOK`, `LossIsReset`, `DestroyedOnce`, `HangupHasError`, `NoLostWakeup`, `DeferAcceptCovers` | |
| `TcpStream_proofs` | `ReadsInOrder`, `ReadsEnough`, `SenderWoken`, `ImplementsWindow`, `DrainedMeansFlow` | for the last, `Roomy` |

`HandshakeOnly`: the datagrams already on the way at the start of a transfer are
at most those of the header exchange before it.  `Roomy`: the receive buffer holds
a segment of the sender's size and one of the receiver's, and twice the first
with the second up to two bytes.

**Transfer.**  `Completeness` is not inductive: the receiver stores what arrives,
so the invariant must speak of what can arrive, and of what is stored in the
buffers that are looked at again after a timeout.  `IInv` says: frames on the way
to the receiver, with a number in the file, have the file's content; so has
`receive_file_map`; `missing` is its complement in `0..total_frame` while the
receiver waits between requests, and empty from the report on; a `GET_ALL_FILE`
on the way to the sender, or in its buffer, means the receiver has reported; a
`GET_ALL_FILE_ACK` on the way, or in a buffer, means the sender has ended.
`SafetySender` and `SafetyReceiver` show the step, one case per action;
`ImplementsDeliveryHolds` uses the same invariant to show that a report happens
with all frames there, and an end after a report.

**Transfer over the socket buffers.**  `Refinement` shows that each step on the
queues is a step of `FileTransfer`: what is in a buffer was sent (`QueueInv`), so
that a packet from its head is one the network can deliver.  What is lost or
does not fit only makes the queue shorter.  All that is proved of `FileTransfer`
therefore holds on the path.  The content of a burst after losses is named by
the rank of each number among those that stay; ranks are an injection between
sets of one size (`RankOnto`).  `ReceiverSurvivesHolds` rests on `SurviveInv`:
until the receiver has stored a frame one is at the head of its buffer, because
the sender queues the whole file before `SEND_FILE_DONE` and the path cannot
lose all of it.

**Numbers and their packing.**  `MissingFrameCorrect` proves the walk for every
sorted vector from `WalkInv`: up to the last element handled the set is the
complement of the elements.  `FitsBufferHolds` and `AllAskedOnceHolds` prove the packing from the partition of the numbers in those
sent, held and still to visit, in ascending order, and from `send_string` being
empty only before the first.

**File content.**  For `HeaderCountsFrames` the invariant relates the bytes left,
`fileSize`, to the frames read: before the last round the bytes read are a
multiple of `Chunk`.  `FrameInv` adds which bytes each frame holds: the first *k*
frames have read the file up to `Reached(k)`, and the buffer is zero again
before every frame but the first.  `WriteInv` says the same of what
`writeFile()` has written; it starts with at least one frame, since an empty
file never gets there.

**Session.**  `DownloadsOwnName` depends on what the server is doing while a header
is under way.  `SessionInv` says that a client *waits* from the moment its
`DOWNLOAD_FILE_REQUEST_ACK` is in its buffer until it takes a header; while one
waits nobody else does and the server is in `send_header()` of its file, or has
exited; it leaves that loop only for a `SEND_FILE_STATUS_ACK`, of which there is
at most one in its buffer, and none while anybody waits; and every
`SEND_FILE_STATUS` behind the acknowledgement names the waiting client's file.
Headers that the server repeated to others come before an acknowledgement, and
`request_to_download_file()` drops them.  Two steps matter to this, the one that
acknowledges a file request and the one that takes a header; `Step` sums up what
all others have in common, `CodeIs` shows that every function of the model is
one of the four kinds.

**Timers.**  `IInv` says of the socket: what is pending has its kernel timer or is
owed by `release_sock()` (`Running`), fits what there is to send (`Purpose`) and
is there while something is unacknowledged or waits (`Owing`); and each
unanswered keepalive probe stands for its share of silence (`Quiet`).  A lemma
for each C function says what of this it keeps.  That `icsk_rto << n` is a
number is shown by counting the subsets of a set of *n* elements, as the proof
system has no induction.

**Socket.**  `IInv` of `TcpSocket_proofs` has, besides the types: who may hold the
lock and what `tcp_close()` has seen (`CloseInv`), an error for every end nobody
was told of (`Promises`), the error still readable for a poll that saw the
hang-up (`HangupInv`), and for a thread in `tcp_poll()` what it may rely on at
each of its unlocked reads (`LoadedInv`, `WaiterInv`).  `DeferAcceptCovers` needs
the closed form of a recursive function, the time of *n* retransmissions; it is
shown by a least counterexample (`PeriodIs`).

**Stream.**  `StreamInv` has a part for each end.  `SendInv` says of the sender that
what is queued, under way and acknowledged are consecutive runs of the same bytes
with the FIN last (`Core`), that a call still has bytes (`CallIsOpen`), that one
which sleeps has a wake-up or something that brings one (`WillWake`), and that
whenever nothing is in flight and bytes wait, the window or a cork is the reason
(`Pushed`).  `SenderIsWoken` is `WillWake` with `Pushed`.  `ReadInv` relates the
reader to the sender: what has arrived and what is under way meet, no window edge
the sender knows is beyond the one announced (`Linked`); the reader knows of an
urgent byte before it comes to it (`Knows`); and what the call in progress has
handed over are the bytes from its start on, the urgent one left out and counted
in `urg_hole` (`CallIs`), from which `RecvReadsEnough` follows.  `CallsReadInOrder`
is about all calls together and needs to know that each starts where the last one
ended: `AppInv` says that the bytes of `app` are in their places (`Hands`), that
there are as many as ordinary bytes before the place where the call in progress
started (`Before`, `TakenUpTo`), and that this call has moved `copied_seq` by
exactly what it has handed over (`CallTakes`).  A call that forgot to store
`copied_seq`, or stored too much, breaks the last part; `HandsJoin` puts the call
behind the others when it returns.  That a peek never finds its place moved (`NoPeekRace`) is a lemma: one
reader and the hole counted are enough.

`DrainedStreamFlows` needs more, because `tcp_cleanup_rbuf()` announces a window
only when it has at least doubled: a drained reader whose last announcement left
less than a segment must have announced again.  `WindowOpens` says that it has
while nothing is scheduled, `WantsSome` that a read in progress will hand over
what makes `tcp_cleanup_rbuf()` look.  Both use `Roomy`, and TLC shows that it
is needed: with buffer and receiver's segment 4 and 2, as in `tcp_stream`, it
just holds; with 3 and 2, or 4 and 3, `DrainedMeansFlow` is violated, and the
sender is left to its probe timer.

`StreamImplementsWindow` needs one fact more than `StreamInv`, `WithinBuffer`: the
edge of the window announced is at most `RcvBuf` beyond what was read.  Each
reader only reads on (`ReadOn`), and `tcp_send_ack()` chooses the greater of the
window left and what fits (`SelectFits`), so that the edge neither goes back nor
leaves the buffer; what arrives was offered, so it fits (`OffersIs`).

**Model-checked only.**  All liveness and what needs `ENABLED`: it is out of the
proof system's reach.  `AckBurstSuffices`, `FilesUnmixed` and `DownloadsData`:
they hold only up to a number of losses and timeouts, so that their invariants
would have to count them.

## 7. Not modelled

* Lab 03: the argument parsers, the printed messages, the width of the counters
  (2^31 frames are two terabytes).
* Lab 04: congestion control, the repair queues, MD5 signatures, Fast Open beyond
  its SYN-ACK timer, `MSG_ZEROCOPY`, faults of the user's buffer, options that
  only store a number, `ioctl()`, `getsockopt()` and `tcp_info`.  `tcp_input.c`
  and `tcp_output.c` are not in the repository; what they do is modelled as far as
  the functions above need it and marked external.
* Lab 01: a server that forks for each connection and never waits for its
  children, and single-message programs: straight lines of calls.
* Lab 08, Lab 09: loops over sensor and radio libraries that are not in the
  repository and keep the state.
* Lab 06, Lab 10: scripts of numerical computation.
