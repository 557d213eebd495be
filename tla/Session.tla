------------------------------- MODULE Session -------------------------------
(***************************************************************************)
(* The sessions of Lab03: one server that serves whatever arrives at its   *)
(* socket, and clients that each make one upload, download or message      *)
(* request: the request, the header exchange, the transfer with its rounds *)
(* of missing frames, and the server's return to its loop with whatever    *)
(* the session left behind in the socket buffers.                          *)
(*                                                                         *)
(* Each peer is sequential code between recvfrom() calls; an action is the *)
(* code from one call to the next, on the packet p the call left in the    *)
(* buffer.  A call that timed out left the one before: TimedOut stands for *)
(* it, a packet of a type nobody waits for, from the address there was.    *)
(* A socket buffer is a queue that drops what does not fit, and a bounded  *)
(* number of datagrams is lost.  A client is a process with an address.    *)
(*                                                                         *)
(* FileTransfer has the transfer between two peers in more detail: here    *)
(* the read of frame total_frame always yields a (stray) string, and one   *)
(* packet holds a whole request.                                           *)
(***************************************************************************)
EXTENDS Naturals, FiniteSets, Sequences

CONSTANTS
    Clients,     \* client processes
    Command,     \* client -> "upload", "download" or "message"
    FileOf,      \* client -> the file name on its command line
    NameLength,  \* file name -> the length of its string
    HasFile,     \* the uploading clients whose file exists
    OnDisk,      \* file names the server has at the start
    After,       \* client -> the clients that have ended before it starts
    MaxLive,     \* clients at work at the same time, so many at most
    total_frame, \* frames of a file
    MAX_SEND,    \* peer -> its MAX_SEND
    HeaderTries, \* the 20 of the header loops
    Capacity,    \* datagrams a socket buffer holds
    Faults       \* datagrams lost, and timeouts while there is something to
                 \* read elsewhere (a peer is slow): so many at most

Names == {FileOf[c] : c \in Clients} \cup OnDisk
Peers == Clients \cup {"server"}

ASSUME SessionAssumption ==
    /\ Command \in [Clients -> {"upload", "download", "message"}]
    /\ Clients \cap (Names \cup {"server", "none", "stray"}) = {}
    /\ {"", "stray"} \cap Names = {}
    /\ NameLength \in [Names -> Nat]
    /\ HasFile \subseteq Clients
    /\ After \in [Clients -> SUBSET Clients]
    /\ MaxLive \in Nat \ {0}
    /\ total_frame \in Nat
    /\ MAX_SEND \in [Peers -> Nat \ {0}]
    /\ HeaderTries \in Nat \ {0}
    /\ Capacity \in Nat \ {0}
    /\ Faults \in Nat

VARIABLES
    pc,      \* peer -> where it waits
    q,       \* peer -> its socket buffer
    tries,   \* peer -> the counter of the loop it is in
    name,    \* peer -> its file_name
    map,     \* peer -> receive_file_map: frame number -> whose data
    ask,     \* peer -> missing_frame_sequence, or missing_frame_seq
    old,     \* peer -> receive_packet still holds a SEND_FILE_DONE
    timed,   \* the peers whose socket has a receive timeout
    took,    \* client -> what it took for the answer to its request
    from,    \* the server's member from
    addr,    \* the copy of it in the function it is in
    disk,    \* file name -> frame number -> whose data, on the server
    faults   \* faults so far

vars == <<pc, q, tries, name, map, ask, old, timed, took, from, addr, disk, faults>>
transferVars == <<map, ask, old>>
sessionVars == <<name, timed, took, disk>>

Ended == {"done", "exited", "crashed", "nofile"}
Live(a) == a \in Peers /\ pc[a] \notin Ended \cup {"start"}

(***************************************************************************)
(* Packets: a type, the sender's address, and what is looked at in them.   *)
(***************************************************************************)
Packet(src, t) == [src |-> src, type |-> t]
NamePacket(src, t, n) == [src |-> src, type |-> t, name |-> n]
FramePacket(src, i, d) == [src |-> src, type |-> "SEND_PACKET", seq |-> i, data |-> d]
Request(src, S) == [src |-> src, type |-> "SEND_MISSING_DONE", frames |-> S]
TimedOut(src) == Packet(src, "TIMEOUT")
Copies(me, t) == [i \in 1 .. MAX_SEND[me] |-> Packet(me, t)]

Init ==
    /\ pc = [a \in Peers |-> IF a = "server" THEN "request" ELSE "start"]
    /\ q = [a \in Peers |-> <<>>]
    /\ tries = [a \in Peers |-> 0]
    /\ name = [a \in Peers |-> IF a = "server" THEN "" ELSE FileOf[a]]
    /\ map = [a \in Peers |-> <<>>]
    /\ ask = [a \in Peers |-> {}]
    /\ old = [a \in Peers |-> FALSE]
    /\ timed = {}
    /\ took = [c \in Clients |-> ""]
    /\ from = "none" /\ addr = "none"
    /\ disk = [n \in OnDisk |-> [i \in 0 .. total_frame - 1 |-> n]]
    /\ faults = 0

(***************************************************************************)
(* What every step does to the buffers: the packet read leaves the one,    *)
(* unless the call timed out, and the packets sent enter the other, if its *)
(* owner is there.                                                         *)
(***************************************************************************)
Fitting(s) == SubSeq(s, 1, IF Len(s) < Capacity THEN Len(s) ELSE Capacity)
Exchange(me, p, to, packets) ==
    LET rest == IF pc'[me] \in Ended THEN <<>>
                ELSE IF p.type = "TIMEOUT" THEN q[me] ELSE Tail(q[me])
        read == [q EXCEPT ![me] = rest]
    IN  q' = IF Live(to) THEN [read EXCEPT ![to] = Fitting(@ \o packets)] ELSE read

Goto(me, place, n) ==
    /\ pc' = [pc EXCEPT ![me] = place]
    /\ tries' = [tries EXCEPT ![me] = n]
Stay(me) == UNCHANGED <<pc, tries>>
StayCounting(me) == Goto(me, pc[me], tries[me] + 1)

\* The address the transfer sends to: a client's is always the server, the
\* server's is the member from, which every recvfrom() of it overwrites.
Partner(me, p) == IF me = "server" THEN p.src ELSE "server"
Overwrite(me, p) == from' = IF me = "server" THEN p.src ELSE from
OverwriteCopy(me, p) == addr' = IF me = "server" THEN p.src ELSE addr

(***************************************************************************)
(* send_file() of both programs.                                           *)
(***************************************************************************)
\* The frames with the numbers of s, then SEND_FILE_DONE.
FrameData(me, i) ==
    CASE me = "server" /\ i \in DOMAIN disk[name[me]] -> disk[name[me]][i]
      [] me # "server" /\ i < total_frame -> me
      [] OTHER -> "stray"
FramesAndDone(me, s) ==
    [i \in 1 .. Len(s) |-> FramePacket(me, s[i], FrameData(me, s[i]))]
        \o <<Packet(me, "SEND_FILE_DONE")>>
\* Requested numbers, as they are in missing_frame_seq.
Ascending(S) ==
    [k \in 1 .. Cardinality(S) |-> CHOOSE f \in S : Cardinality({g \in S : g < f}) = k - 1]
WholeFile(me) == FramesAndDone(me, [i \in 1 .. total_frame |-> i - 1])
Resent(me, S) ==
    Copies(me, "SEND_MISSING_DONE_ACK")
        \o FramesAndDone(me, Ascending(S \cap (0 .. total_frame)))

\* The end of send_file(): a client returns to main(), the server to run().
SendEnds(me, p) ==
    /\ Goto(me, IF me = "server" THEN "request" ELSE "done", 0)
    /\ Exchange(me, p, Partner(me, p), Copies(me, "GET_ALL_FILE_ACK"))

SendAgain(me, p) ==
    /\ Stay(me)
    /\ Exchange(me, p, Partner(me, p), <<Packet(me, "SEND_FILE_DONE")>>)

AwaitDoneAck(me, p) ==
    /\ pc[me] = "awaitAck"
    /\ \/ /\ p.type = "SEND_FILE_DONE_ACK"
          /\ Goto(me, "awaitRequest", 0)
          /\ Exchange(me, p, "none", <<>>)
       \/ p.type # "SEND_FILE_DONE_ACK" /\ SendAgain(me, p)

AwaitRequest(me, p) ==
    /\ pc[me] = "awaitRequest"
    /\ \/ p.type = "GET_ALL_FILE" /\ SendEnds(me, p)
       \/ /\ p.type = "SEND_MISSING_DONE"
          /\ Goto(me, "awaitAck2", 0)
          /\ Exchange(me, p, Partner(me, p), Resent(me, p.frames))
       \/ /\ p.type \notin {"GET_ALL_FILE", "SEND_MISSING_DONE"}
          /\ Stay(me)
          /\ Exchange(me, p, "none", <<>>)

AwaitDoneAckAgain(me, p) ==
    /\ pc[me] = "awaitAck2"
    /\ \/ p.type = "GET_ALL_FILE" /\ SendEnds(me, p)
       \/ /\ p.type = "SEND_FILE_DONE_ACK"
          /\ Goto(me, "awaitRequest", 0)
          /\ Exchange(me, p, "none", <<>>)
       \/ p.type \notin {"GET_ALL_FILE", "SEND_FILE_DONE_ACK"} /\ SendAgain(me, p)

SendFile(me, p) ==
    /\ AwaitDoneAck(me, p) \/ AwaitRequest(me, p) \/ AwaitDoneAckAgain(me, p)
    /\ Overwrite(me, p)
    /\ UNCHANGED <<transferVars, sessionVars, addr>>

(***************************************************************************)
(* receive_file() of both programs.                                        *)
(***************************************************************************)
Stored(m, p) ==
    IF p.type = "SEND_PACKET"
    THEN [i \in DOMAIN m \cup {p.seq} |-> IF i = p.seq THEN p.data ELSE m[i]]
    ELSE m

\* SEND_FILE_DONE_ACK, then the request for what is missing, or GET_ALL_FILE.
Report(me, p, missing) ==
    /\ ask' = [ask EXCEPT ![me] = missing]
    /\ old' = [old EXCEPT ![me] = p.type = "SEND_FILE_DONE" \/ (p.type = "TIMEOUT" /\ pc[me] = "answer")]
    /\ addr' = IF me = "server" /\ missing # {} THEN p.src ELSE addr
    /\ Goto(me, IF missing = {} THEN "final" ELSE "missing", 0)
    /\ Exchange(me, p, Partner(me, p), Append(Copies(me, "SEND_FILE_DONE_ACK"),
           IF missing = {} THEN Packet(me, "GET_ALL_FILE") ELSE Request(me, missing)))

\* missing_frame().
\* Mutant: the last loop ends one later.
Lacking_oneMore(m) == (0 .. total_frame + 1) \ DOMAIN m
Lacking(m) == (0 .. total_frame) \ DOMAIN m

\* The first pass ends.  With no frame at all missing_frame() reads before an
\* empty vector; a reply to an address never set fails, and the process ends.
GatherEnds(me, p) ==
    \/ /\ DOMAIN map[me] # {}
       /\ Report(me, p, Lacking(map[me]))
    \/ /\ DOMAIN map[me] = {}
       /\ Goto(me, IF Partner(me, p) = "none" THEN "exited" ELSE "crashed", 0)
       /\ Exchange(me, p, Partner(me, p), Copies(me, "SEND_FILE_DONE_ACK"))
       /\ UNCHANGED <<ask, old, addr>>

Gather(me, p) ==
    /\ pc[me] = "gather"
    /\ map' = [map EXCEPT ![me] = Stored(@, p)]
    /\ \/ p.type \in {"SEND_FILE_DONE", "TIMEOUT"} /\ GatherEnds(me, p)
       \/ /\ p.type \notin {"SEND_FILE_DONE", "TIMEOUT"}
          /\ Stay(me)
          /\ Exchange(me, p, "none", <<>>)
          /\ UNCHANGED <<ask, old, addr>>
    /\ Overwrite(me, p)
    /\ UNCHANGED disk

\* request_to_resend_missing_frame(), on a copy of the address.  Its packet
\* is not initialised: after a first timeout it may be an old acknowledgement.
RequestMissing(me, p) ==
    /\ pc[me] = "missing"
    /\ OverwriteCopy(me, p)
    /\ \/ /\ \/ p.type = "SEND_MISSING_DONE_ACK"
             \/ p.type = "TIMEOUT" /\ tries[me] = 0
             \/ tries[me] > MAX_SEND[me] + 1
          /\ Goto(me, "answer", 0)
          /\ Exchange(me, p, "none", <<>>)
       \/ /\ p.type # "SEND_MISSING_DONE_ACK" /\ tries[me] <= MAX_SEND[me] + 1
          /\ StayCounting(me)
          /\ Exchange(me, p, Partner(me, p), <<Request(me, ask[me])>>)
    /\ UNCHANGED <<map, ask, old, from, disk>>

\* The frames asked for, until SEND_FILE_DONE or two seconds of silence.  A
\* timeout of the first call leaves the packet of before the request.
\* Mutant: one round of resent frames is taken for enough.
Collect_once(me, p) ==
    /\ pc[me] \in {"answer", "collect"}
    /\ \/ p.type \in {"SEND_FILE_DONE", "TIMEOUT"} /\ Report(me, p, {}) /\ UNCHANGED map
       \/ /\ p.type \notin {"SEND_FILE_DONE", "TIMEOUT"}
          /\ map' = [map EXCEPT ![me] = Stored(@, p)]
          /\ Goto(me, "collect", 0)
          /\ Exchange(me, p, "none", <<>>)
          /\ UNCHANGED <<ask, old, addr>>
    /\ Overwrite(me, p)
    /\ UNCHANGED disk
Collect(me, p) ==
    /\ pc[me] \in {"answer", "collect"}
    /\ \/ /\ \/ p.type = "SEND_FILE_DONE"
             \/ p.type = "TIMEOUT" /\ (pc[me] = "collect" \/ old[me])
          /\ Report(me, p, ask[me])
          /\ UNCHANGED map
       \/ /\ p.type # "SEND_FILE_DONE"
          /\ ~ (p.type = "TIMEOUT" /\ (pc[me] = "collect" \/ old[me]))
          /\ map' = [map EXCEPT ![me] = Stored(@, p)]
          /\ ask' = [ask EXCEPT ![me] = @ \ (IF p.type = "SEND_PACKET" THEN {p.seq} ELSE {})]
          /\ Goto(me, "collect", 0)
          /\ Exchange(me, p, "none", <<>>)
          /\ UNCHANGED <<old, addr>>
    /\ Overwrite(me, p)
    /\ UNCHANGED disk

\* GET_ALL_FILE until it is acknowledged or was repeated often enough; then
\* writeFile(), which on the server makes the file available.
Final(me, p) ==
    /\ pc[me] = "final"
    /\ \/ /\ p.type = "GET_ALL_FILE_ACK" \/ tries[me] > MAX_SEND[me] + 1
          /\ disk' = IF me # "server" THEN disk
                     ELSE [n \in DOMAIN disk \cup {name[me]} |->
                             IF n # name[me] THEN disk[n]
                             ELSE [i \in DOMAIN map[me] \ {total_frame} |-> map[me][i]]]
          /\ Goto(me, IF me = "server" THEN "request" ELSE "done", 0)
          /\ Exchange(me, p, "none", <<>>)
       \/ /\ p.type # "GET_ALL_FILE_ACK" /\ tries[me] <= MAX_SEND[me] + 1
          /\ StayCounting(me)
          /\ Exchange(me, p, Partner(me, p), <<Packet(me, "GET_ALL_FILE")>>)
          /\ UNCHANGED disk
    /\ Overwrite(me, p)
    /\ UNCHANGED <<transferVars, addr>>

ReceiveFile(me, p) ==
    /\ Gather(me, p) \/ RequestMissing(me, p) \/ Collect(me, p) \/ Final(me, p)
    /\ UNCHANGED <<name, timed, took>>

(***************************************************************************)
(* The headers.  The counters are tested after recvfrom(), whatever came.  *)
(***************************************************************************)
\* receive_header(): both programs.  The server answers to where the header
\* came from, and clears its map; receive_file() begins, with a timeout.
\* Mutant: the map is not cleared.
receive_header_noClear(me, p) ==
    /\ pc[me] = "header"
    /\ \/ /\ p.type = "SEND_FILE_STATUS"
          /\ name' = [name EXCEPT ![me] = p.name]
          /\ timed' = timed \cup {me}
          /\ Goto(me, "gather", 0)
          /\ Exchange(me, p, Partner(me, p), <<NamePacket(me, "SEND_FILE_STATUS_ACK", p.name)>>)
       \/ /\ p.type # "SEND_FILE_STATUS"
          /\ Stay(me)
          /\ Exchange(me, p, "none", <<>>)
          /\ UNCHANGED <<name, timed>>
    /\ UNCHANGED <<map, ask, old, took, from, addr, disk>>
receive_header(me, p) ==
    /\ pc[me] = "header"
    /\ \/ /\ tries[me] > HeaderTries
          /\ Goto(me, "exited", 0)
          /\ Exchange(me, p, "none", <<>>)
          /\ UNCHANGED <<map, name, timed>>
       \/ /\ tries[me] <= HeaderTries
          /\ p.type = "SEND_FILE_STATUS"
          /\ name' = [name EXCEPT ![me] = p.name]
          /\ map' = [map EXCEPT ![me] = <<>>]
          /\ timed' = timed \cup {me}
          /\ Goto(me, "gather", 0)
          /\ Exchange(me, p, Partner(me, p), <<NamePacket(me, "SEND_FILE_STATUS_ACK", p.name)>>)
       \/ /\ tries[me] <= HeaderTries
          /\ p.type # "SEND_FILE_STATUS"
          /\ StayCounting(me)
          /\ Exchange(me, p, "none", <<>>)
          /\ UNCHANGED <<map, name, timed>>
    /\ UNCHANGED <<ask, old, took, from, addr, disk>>

\* send_header(): both programs.  The server's repetitions go to where the
\* last packet came from; send_file() then sends to the member from again.
\* The acknowledgement is compared by the number of frames, which is that of
\* every file here, and by the length of the name.
send_header(me, p) ==
    /\ pc[me] = "status"
    /\ OverwriteCopy(me, p)
    /\ \/ /\ \/ tries[me] >= HeaderTries
             \/ /\ p.type = "SEND_FILE_STATUS_ACK"
                /\ NameLength[p.name] # NameLength[name[me]]
          /\ Goto(me, "exited", 0)
          /\ Exchange(me, p, "none", <<>>)
       \/ /\ tries[me] < HeaderTries
          /\ p.type = "SEND_FILE_STATUS_ACK"
          /\ NameLength[p.name] = NameLength[name[me]]
          /\ Goto(me, "awaitAck", 0)
          /\ Exchange(me, p, IF me = "server" THEN from ELSE "server", WholeFile(me))
       \/ /\ tries[me] < HeaderTries
          /\ p.type # "SEND_FILE_STATUS_ACK"
          /\ StayCounting(me)
          /\ Exchange(me, p, Partner(me, p), <<NamePacket(me, "SEND_FILE_STATUS", name[me])>>)
    /\ UNCHANGED <<transferVars, sessionVars, from>>

(***************************************************************************)
(* The server's loop.                                                      *)
(***************************************************************************)
\* What run() does with a request.  The zeroed packet of a timeout has the
\* value of MESSAGE_REQUEST.
\* Mutant: message requests are not among the requests.
Serve_noMessage(p) ==
    \/ /\ p.type = "DOWNLOAD_REQUEST"
       /\ Goto("server", "fileRequest", 0)
       /\ Exchange("server", p, p.src, <<Packet("server", "DOWNLOAD_REQUEST_ACK")>>)
    \/ /\ p.type = "UPLOAD_REQUEST"
       /\ Goto("server", "header", 0)
       /\ Exchange("server", p, p.src, <<Packet("server", "UPLOAD_REQUEST_ACK")>>)
    \/ /\ p.type \notin {"DOWNLOAD_REQUEST", "UPLOAD_REQUEST"}
       /\ Stay("server")
       /\ Exchange("server", p, "none", <<>>)
Serve(p) ==
    \/ /\ p.type = "DOWNLOAD_REQUEST"
       /\ Goto("server", "fileRequest", 0)
       /\ Exchange("server", p, p.src, <<Packet("server", "DOWNLOAD_REQUEST_ACK")>>)
    \/ /\ p.type = "UPLOAD_REQUEST"
       /\ Goto("server", "header", 0)
       /\ Exchange("server", p, p.src, <<Packet("server", "UPLOAD_REQUEST_ACK")>>)
    \/ /\ p.type \in {"MESSAGE_REQUEST", "TIMEOUT"}
       /\ Stay("server")
       /\ Exchange("server", p, p.src, <<Packet("server", "MESSAGE_REQUEST_ACK")>>)
    \/ /\ p.type \notin {"DOWNLOAD_REQUEST", "UPLOAD_REQUEST", "MESSAGE_REQUEST", "TIMEOUT"}
       /\ Stay("server")
       /\ Exchange("server", p, "none", <<>>)

\* The address in receive_user_request() is a copy: the member keeps its value.
receive_user_request(p) ==
    /\ pc["server"] = "request"
    /\ Serve(p)
    /\ UNCHANGED <<transferVars, sessionVars, from, addr>>

\* receive_user_download_file_request(), and in run() the second test for the
\* file and the first packet of send_header().  The address is the member.
receive_user_download_file_request(p) ==
    /\ pc["server"] = "fileRequest"
    /\ from' = p.src
    /\ \/ /\ p.type = "DOWNLOAD_FILE_REQUEST"
          /\ p.name \in DOMAIN disk
          /\ name' = [name EXCEPT !["server"] = p.name]
          /\ addr' = p.src
          /\ Goto("server", "status", 0)
          /\ Exchange("server", p, p.src,
                 <<NamePacket("server", "DOWNLOAD_FILE_REQUEST_ACK", p.name),
                   NamePacket("server", "SEND_FILE_STATUS", p.name)>>)
       \/ /\ p.type = "DOWNLOAD_FILE_REQUEST"
          /\ p.name \notin DOMAIN disk
          /\ name' = [name EXCEPT !["server"] = p.name]
          /\ Goto("server", "request", 0)
          /\ Exchange("server", p, "none", <<>>)
          /\ UNCHANGED addr
       \/ /\ p.type # "DOWNLOAD_FILE_REQUEST"
          /\ Stay("server")
          /\ Exchange("server", p, "none", <<>>)
          /\ UNCHANGED <<name, addr>>
    /\ UNCHANGED <<transferVars, timed, took, disk>>

(***************************************************************************)
(* The client's run().                                                     *)
(***************************************************************************)
\* The first packet of send_user_request().
CStart(c) ==
    /\ pc[c] = "start"
    /\ \A b \in After[c] : pc[b] \in Ended
    /\ Cardinality({b \in Clients : Live(b)}) < MaxLive
    /\ Goto(c, "reply", 0)
    /\ LET type == CASE Command[c] = "upload" -> "UPLOAD_REQUEST"
                     [] Command[c] = "download" -> "DOWNLOAD_REQUEST"
                     [] Command[c] = "message" -> "MESSAGE_REQUEST"
       IN  Exchange(c, TimedOut("server"), "server", <<Packet(c, type)>>)
    /\ UNCHANGED <<transferVars, sessionVars, from, addr, faults>>

\* What run() does after the request was answered.
Proceed(c, p) ==
    \/ /\ Command[c] = "message"
       /\ Goto(c, "done", 0)
       /\ Exchange(c, p, "none", <<>>)
    \/ /\ Command[c] = "upload" /\ c \notin HasFile
       /\ Goto(c, "nofile", 0)
       /\ Exchange(c, p, "none", <<>>)
    \/ /\ Command[c] = "upload" /\ c \in HasFile
       /\ Goto(c, "status", 0)
       /\ Exchange(c, p, "server", <<NamePacket(c, "SEND_FILE_STATUS", FileOf[c])>>)
    \/ /\ Command[c] = "download"
       /\ Goto(c, "fileAnswer", 0)
       /\ Exchange(c, p, "server",
              [i \in 1 .. 2 |-> NamePacket(c, "DOWNLOAD_FILE_REQUEST", FileOf[c])])

\* The rest of send_user_request(): whatever arrives is the answer, as the
\* condition of the loop never holds.
send_user_request(c, p) ==
    /\ pc[c] = "reply"
    /\ took' = [took EXCEPT ![c] = p.type]
    /\ Proceed(c, p)
    /\ UNCHANGED <<transferVars, name, timed, disk, from, addr>>

\* The request is repeated for every packet that is not its acknowledgement,
\* MAX_SEND times.
\* Mutant: any packet is the acknowledgement, as in send_user_request().
request_to_download_file_any(c, p) ==
    /\ pc[c] = "fileAnswer"
    /\ Goto(c, "header", 0)
    /\ Exchange(c, p, "none", <<>>)
    /\ UNCHANGED <<transferVars, sessionVars, from, addr>>
request_to_download_file(c, p) ==
    /\ pc[c] = "fileAnswer"
    /\ \/ /\ tries[c] > MAX_SEND[c]
          /\ Goto(c, "exited", 0)
          /\ Exchange(c, p, "none", <<>>)
       \/ /\ tries[c] <= MAX_SEND[c]
          /\ p.type = "DOWNLOAD_FILE_REQUEST_ACK"
          /\ Goto(c, "header", 0)
          /\ Exchange(c, p, "none", <<>>)
       \/ /\ tries[c] <= MAX_SEND[c]
          /\ p.type # "DOWNLOAD_FILE_REQUEST_ACK"
          /\ StayCounting(c)
          /\ Exchange(c, p, "server", <<NamePacket(c, "DOWNLOAD_FILE_REQUEST", FileOf[c])>>)
    /\ UNCHANGED <<transferVars, sessionVars, from, addr>>

(***************************************************************************)
(* The whole system.                                                       *)
(***************************************************************************)
Code(me, p) ==
    \/ SendFile(me, p) \/ ReceiveFile(me, p)
    \/ send_header(me, p) \/ receive_header(me, p)
    \/ me = "server" /\ (receive_user_request(p) \/ receive_user_download_file_request(p))
    \/ me # "server" /\ (send_user_request(me, p) \/ request_to_download_file(me, p))

Receive(me) ==
    /\ q[me] # <<>>
    /\ Code(me, Head(q[me]))
    /\ UNCHANGED faults

\* Two seconds pass, on a socket that has a timeout and nothing to read.
Silent == \A a \in Peers : q[a] = <<>>
Timeout(me) ==
    /\ me \in timed /\ q[me] = <<>>
    /\ Code(me, TimedOut(CASE me # "server" -> "server"
                           [] me = "server" /\ pc[me] \in {"status", "missing"} -> addr
                           [] me = "server" /\ pc[me] \notin {"status", "missing"} -> from))
    /\ \/ Silent /\ UNCHANGED faults
       \/ ~ Silent /\ faults < Faults /\ faults' = faults + 1

Lose(me) ==
    /\ faults < Faults /\ q[me] # <<>>
    /\ faults' = faults + 1
    /\ q' = [q EXCEPT ![me] = Tail(@)]
    /\ UNCHANGED <<pc, tries, transferVars, sessionVars, from, addr>>

Next ==
    \/ \E c \in Clients : CStart(c)
    \/ \E me \in Peers : Receive(me) \/ Timeout(me) \/ Lose(me)

Spec == Init /\ [][Next]_vars

\* Every recvfrom() that can return does; clients are started.
FairSpec ==
    /\ Spec
    /\ \A c \in Clients : WF_vars(CStart(c))
    /\ \A me \in Peers : WF_vars(Receive(me)) /\ WF_vars(Timeout(me))

(***************************************************************************)
(* Types.                                                                  *)
(***************************************************************************)
Places == {"start", "reply", "fileAnswer", "request", "fileRequest", "header",
           "status", "awaitAck", "awaitRequest", "awaitAck2", "gather",
           "missing", "answer", "collect", "final"} \cup Ended
Data == Clients \cup Names \cup {"stray"}
TypeOK ==
    /\ pc \in [Peers -> Places]
    /\ tries \in [Peers -> Nat]
    /\ name \in [Peers -> Names \cup {""}]
    /\ \A a \in Peers : /\ DOMAIN map[a] \subseteq 0 .. total_frame
                        /\ \A i \in DOMAIN map[a] : map[a][i] \in Data
                        /\ ask[a] \subseteq 0 .. total_frame
                        /\ Len(q[a]) <= Capacity
    /\ old \in [Peers -> BOOLEAN]
    /\ timed \subseteq Peers
    /\ {from, addr} \subseteq Clients \cup {"none"}
    /\ DOMAIN disk \subseteq Names
    /\ \A n \in DOMAIN disk : disk[n] \in [0 .. total_frame - 1 -> Data]
    /\ faults \in 0 .. Faults

(***************************************************************************)
(* What the sessions guarantee, to any number of clients at once.          *)
(***************************************************************************)
\* What the file of a name can hold: what it held at the start, identified by
\* the name, or what a client of that file uploaded.
DataOf(n) == {n} \cup {c \in Clients : FileOf[c] = n}
IsFileOf(m, n) ==
    \E d \in DataOf(n) : \A i \in 0 .. total_frame - 1 : i \in DOMAIN m /\ m[i] = d

\* A client that receives a file receives the one it named: the header it
\* took is of its own session, though send_header() repeats its header to
\* whoever sends something, in the middle of another's session, too.
DownloadsOwnName ==
    \A c \in Clients :
        Command[c] = "download" /\ pc[c] \in {"gather", "missing", "answer", "collect", "final", "done"}
            => name[c] = FileOf[c]

\* A file on the server's disk is of one origin: the frames of two clients
\* or two sessions are never written into one file, though receive_file()
\* stores the frames of whoever sends them.
FilesUnmixed == \A n \in DOMAIN disk : IsFileOf(disk[n], n)

\* A download that ended brought all of the data the server had under the
\* name, of one origin.
DownloadsData ==
    \A c \in Clients :
        Command[c] = "download" /\ pc[c] = "done" => IsFileOf(map[c], FileOf[c])

\* With nothing lost and nobody slow, clients that come one after the other
\* are all served, whatever each leaves behind in the server's buffer and
\* though the idle server takes its timeouts for message requests: up to one
\* that asks to upload a file it does not have.  It ends by itself but leaves
\* the server in receive_header(), which takes the requests of those after it
\* for headers that are none.
AllDone ==
    \A c \in Clients :
        <>(\/ pc[c] \in {"done", "nofile"}
           \/ pc[c] \in {"start", "reply"} /\ \E b \in Clients : pc[b] = "nofile")

(***************************************************************************)
(* What comments and messages say, and the code does not do.               *)
(***************************************************************************)
\* udp_client.cpp:60, "enter correct file name": the user of a client without
\* its file is told to try again, and is served.
ServedAfterNoFile == \A c \in Clients : <>(pc[c] \in {"done", "nofile"})

\* udp_client.cpp:298, "Request is successfully received by server": the
\* client says so on an acknowledgement of its request.
RequestReceived ==
    \A c \in Clients :
        took[c] \in {"", "UPLOAD_REQUEST_ACK", "DOWNLOAD_REQUEST_ACK", "MESSAGE_REQUEST_ACK"}

\* packet.h:31, GET_ALL_FILE: "Receiver confirms get entire file": when the
\* server leaves send_file() a client has the file it sent.
SendEndsAfterReceiver ==
    [][pc["server"] \in {"awaitRequest", "awaitAck2"} /\ pc'["server"] = "request" =>
          \E c \in Clients : FileOf[c] = name["server"] /\ pc[c] \in {"final", "done"}]_vars

\* udp_client.cpp:76, "No such file in server and please give a another file
\* name.": a client that asks for a file that is not there ends.
MissingFileReported ==
    \A c \in Clients :
        pc[c] = "fileAnswer" /\ FileOf[c] \notin DOMAIN disk ~> pc[c] \in Ended
=============================================================================
