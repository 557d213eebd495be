---------------------------- MODULE Session_proofs ----------------------------
(***************************************************************************)
(* A client that downloads takes the header of its own session.            *)
(*                                                                         *)
(* Two facts carry it.  While somebody still waits for a header, having    *)
(* its DOWNLOAD_FILE_REQUEST_ACK or due to read it, the server is in       *)
(* send_header() of that client's file, and nobody else waits: the server  *)
(* sends the acknowledgement once and leaves the loop only by ending, or   *)
(* for a SEND_FILE_STATUS_ACK, which a client sends as it stops waiting.   *)
(* And a header that is queued behind the acknowledgement was sent after   *)
(* it, so it names that file; those before it are read and dropped.        *)
(***************************************************************************)
EXTENDS Session, FiniteSetTheorems, SequenceTheorems, TLAPS

\* What the proofs use of the constants.
LEMMA ConstantsAre ==
    /\ "server" \notin Clients /\ "none" \notin Clients
    /\ total_frame \in Nat
    /\ Capacity \in Nat \ {0}
    /\ MAX_SEND \in [Peers -> Nat \ {0}]
<1>1. Clients \cap (Names \cup {"server", "none", "stray"}) = {}
    BY SessionAssumption, Zenon
<1>2. total_frame \in Nat
    BY SessionAssumption, Zenon
<1>3. Capacity \in Nat \ {0}
    BY SessionAssumption, Zenon
<1>4. MAX_SEND \in [Peers -> Nat \ {0}]
    BY SessionAssumption, Zenon
<1>5. "server" \notin Clients /\ "none" \notin Clients
    BY <1>1
<1> QED
    BY <1>2, <1>3, <1>4, <1>5

(***************************************************************************)
(* The inductive invariant.                                                *)
(***************************************************************************)
IsSeq(s) == s \in Seq({s[i] : i \in DOMAIN s})

SessionTypes ==
    /\ pc \in [Peers -> Places]
    /\ DOMAIN name = Peers
    /\ DOMAIN q = Peers
    /\ \A a \in Peers : IsSeq(q[a])

\* What the server reads is from clients, and so are the addresses it keeps.
FromClients ==
    /\ \A i \in DOMAIN q["server"] : q["server"][i].src \in Clients
    /\ {from, addr} \subseteq Clients \cup {"none"}

RequestsOwn ==
    \A i \in DOMAIN q["server"] :
        q["server"][i].type = "DOWNLOAD_FILE_REQUEST"
            => q["server"][i].name = FileOf[q["server"][i].src]

\* The places of a client before receive_header().
Before == {"start", "reply", "fileAnswer"}
IsAck(p) == p.type = "DOWNLOAD_FILE_REQUEST_ACK"

\* c waits for a header, or will when it reads what is in its buffer.
Waiting(c) ==
    \/ pc[c] = "header"
    \/ pc[c] \in Before /\ \E i \in DOMAIN q[c] : IsAck(q[c][i])

\* The server is in the session of the one client that waits.
ServesWaiting ==
    \A c \in Clients :
        Waiting(c) => /\ pc["server"] \in {"status", "exited"}
                      /\ pc["server"] = "status" => name["server"] = FileOf[c]
OneWaits == \A c, d \in Clients : Waiting(c) /\ Waiting(d) => c = d

\* The client's acknowledgement of the header: once in a session.
Confirms(i) == i \in DOMAIN q["server"] /\ q["server"][i].type = "SEND_FILE_STATUS_ACK"
ConfirmedOnce ==
    /\ \A i \in DOMAIN q["server"] :
           Confirms(i) => pc["server"] = "status" /\ \A c \in Clients : ~ Waiting(c)
    /\ \A i, j \in DOMAIN q["server"] : Confirms(i) /\ Confirms(j) => i = j

\* The headers c would take are of its file.
Takes(c, i) ==
    /\ q[c][i].type = "SEND_FILE_STATUS"
    /\ \/ pc[c] = "header"
       \/ pc[c] \in Before /\ \E j \in DOMAIN q[c] : j < i /\ IsAck(q[c][j])
HeadersOwn ==
    \A c \in Clients : \A i \in DOMAIN q[c] : Takes(c, i) => q[c][i].name = FileOf[c]

OwnNames == \A c \in Clients : name[c] = FileOf[c]

SessionInv ==
    /\ SessionTypes
    /\ FromClients
    /\ RequestsOwn
    /\ ServesWaiting
    /\ OneWaits
    /\ ConfirmedOnce
    /\ HeadersOwn
    /\ OwnNames

(***************************************************************************)
(* Sequences of packets of any kind.                                       *)
(***************************************************************************)
LEMMA SeqOfSome ==
    ASSUME NEW S, NEW s \in Seq(S)
    PROVE  IsSeq(s) /\ Len(s) \in Nat /\ DOMAIN s = 1 .. Len(s)
<1>1. Len(s) \in Nat /\ DOMAIN s = 1 .. Len(s) /\ s \in [1 .. Len(s) -> S]
    OBVIOUS
<1>2. s \in [1 .. Len(s) -> {s[i] : i \in DOMAIN s}]
    BY <1>1
<1>3. s \in Seq({s[i] : i \in DOMAIN s})
    BY <1>1, <1>2
<1> QED
    BY <1>1, <1>3 DEF IsSeq

LEMMA FunctionIsSeq ==
    ASSUME NEW n \in Nat, NEW S, NEW f \in [1 .. n -> S]
    PROVE  IsSeq(f) /\ Len(f) = n
<1>1. f \in Seq(S)
    OBVIOUS
<1>2. Len(f) = n
    OBVIOUS
<1> QED
    BY <1>1, <1>2, SeqOfSome

LEMMA IsSeqLen ==
    ASSUME NEW s, IsSeq(s)
    PROVE  Len(s) \in Nat /\ DOMAIN s = 1 .. Len(s)
    BY DEF IsSeq

LEMMA ConcatIs ==
    ASSUME NEW s, NEW t, IsSeq(s), IsSeq(t)
    PROVE  /\ IsSeq(s \o t)
           /\ Len(s \o t) = Len(s) + Len(t)
           /\ \A i \in DOMAIN (s \o t) :
                  \/ i \in DOMAIN s /\ (s \o t)[i] = s[i]
                  \/ /\ i > Len(s) /\ i - Len(s) \in DOMAIN t
                     /\ (s \o t)[i] = t[i - Len(s)]
<1> DEFINE S == {s[i] : i \in DOMAIN s} \cup {t[i] : i \in DOMAIN t}
<1>1. s \in [1 .. Len(s) -> S] /\ t \in [1 .. Len(t) -> S]
      /\ Len(s) \in Nat /\ Len(t) \in Nat
    BY DEF IsSeq
<1>2. s \in Seq(S) /\ t \in Seq(S)
    BY <1>1
<1> HIDE DEF S
<1>3. s \o t \in Seq(S)
    BY <1>2
<1>4. IsSeq(s \o t) /\ DOMAIN (s \o t) = 1 .. Len(s \o t)
    BY <1>3, SeqOfSome
<1>5. Len(s \o t) = Len(s) + Len(t)
    BY <1>2
<1>6. ASSUME NEW i \in 1 .. Len(s) + Len(t)
      PROVE  (s \o t)[i] = IF i <= Len(s) THEN s[i] ELSE t[i - Len(s)]
    BY <1>2
<1>7. DOMAIN s = 1 .. Len(s) /\ DOMAIN t = 1 .. Len(t)
    BY <1>1
<1> QED
    BY <1>1, <1>4, <1>5, <1>6, <1>7

LEMMA FittingIs ==
    ASSUME NEW s, IsSeq(s)
    PROVE  /\ IsSeq(Fitting(s))
           /\ \A i \in DOMAIN Fitting(s) : i \in DOMAIN s /\ Fitting(s)[i] = s[i]
<1> DEFINE S == {s[i] : i \in DOMAIN s}
           n == IF Len(s) < Capacity THEN Len(s) ELSE Capacity
<1>1. s \in Seq(S) /\ Len(s) \in Nat /\ DOMAIN s = 1 .. Len(s)
    BY DEF IsSeq
<1>2. n \in 0 .. Len(s)
    BY <1>1, ConstantsAre
<1> HIDE DEF S, n
<1>3. SubSeq(s, 1, n) \in Seq(S) /\ Len(SubSeq(s, 1, n)) = n
    BY <1>1, <1>2, SubSeqProperties
<1>4. \A i \in 1 .. n : SubSeq(s, 1, n)[i] = s[i]
    BY <1>1, <1>2, SubSeqProperties
<1>5. Fitting(s) = SubSeq(s, 1, n)
    BY DEF Fitting, n
<1>6. IsSeq(Fitting(s)) /\ DOMAIN Fitting(s) = 1 .. n
    BY <1>3, <1>5, SeqOfSome
<1> QED
    BY <1>1, <1>2, <1>4, <1>5, <1>6

LEMMA TailIs ==
    ASSUME NEW s, IsSeq(s), s # <<>>
    PROVE  /\ IsSeq(Tail(s))
           /\ \A i \in DOMAIN Tail(s) : i + 1 \in DOMAIN s /\ Tail(s)[i] = s[i + 1]
           /\ 1 \in DOMAIN s /\ Head(s) = s[1]
<1> DEFINE S == {s[i] : i \in DOMAIN s}
<1>1. s \in Seq(S) /\ Len(s) \in Nat /\ DOMAIN s = 1 .. Len(s)
    BY DEF IsSeq
<1> HIDE DEF S
<1>2. Tail(s) \in Seq(S) /\ Len(Tail(s)) = Len(s) - 1 /\ Len(s) # 0
    BY <1>1
<1>3. IsSeq(Tail(s)) /\ DOMAIN Tail(s) = 1 .. Len(s) - 1
    BY <1>2, SeqOfSome
<1>4. \A i \in 1 .. Len(s) - 1 : Tail(s)[i] = s[i + 1]
    BY <1>1
<1> QED
    BY <1>1, <1>2, <1>3, <1>4

(***************************************************************************)
(* What a step does to the buffers: me reads n packets, none or the first, *)
(* and packets enter the buffer of to, as far as they fit.                 *)
(***************************************************************************)
Move(me, n, to, packets) ==
    /\ DOMAIN q' = Peers
    /\ \A a \in Peers : IsSeq(q'[a])
    /\ \A b \in Peers \ {me, to} : q'[b] = q[b]
    /\ \A i \in DOMAIN q'[me] : i + n \in DOMAIN q[me] /\ q'[me][i] = q[me][i + n]
    /\ to \in Peers =>
           \A i \in DOMAIN q'[to] :
               \/ i \in DOMAIN q[to] /\ q'[to][i] = q[to][i]
               \/ /\ i > Len(q[to]) /\ i - Len(q[to]) \in DOMAIN packets /\ Live(to)
                  /\ q'[to][i] = packets[i - Len(q[to])]

LEMMA QueuesAre ==
    ASSUME SessionTypes, NEW me \in Peers, NEW to, to # me,
           NEW n \in {0, 1}, NEW rest, IsSeq(rest),
           \A i \in DOMAIN rest : i + n \in DOMAIN q[me] /\ rest[i] = q[me][i + n],
           NEW packets, IsSeq(packets),
           q' = IF Live(to)
                THEN [[q EXCEPT ![me] = rest] EXCEPT ![to] = Fitting(@ \o packets)]
                ELSE [q EXCEPT ![me] = rest]
    PROVE  Move(me, n, to, packets)
<1>1. DOMAIN q = Peers /\ \A a \in Peers : IsSeq(q[a])
    BY DEF SessionTypes
<1>2. CASE ~ Live(to)
  <2>1. q' = [q EXCEPT ![me] = rest]
      BY <1>2
  <2>2. DOMAIN q' = Peers /\ q'[me] = rest /\ \A b \in Peers \ {me} : q'[b] = q[b]
      BY <2>1, <1>1
  <2>3. \A a \in Peers : IsSeq(q'[a])
      BY <2>2, <1>1
  <2> QED
      BY <2>2, <2>3 DEF Move
<1>3. CASE Live(to)
  <2>1. to \in Peers
      BY <1>3 DEF Live
  <2>2. q' = [[q EXCEPT ![me] = rest] EXCEPT ![to] = Fitting(@ \o packets)]
      BY <1>3
  <2>3. /\ DOMAIN q' = Peers /\ q'[me] = rest
        /\ q'[to] = Fitting(q[to] \o packets)
        /\ \A b \in Peers \ {me, to} : q'[b] = q[b]
      BY <2>1, <2>2, <1>1
  <2> DEFINE all == q[to] \o packets
  <2>4. /\ IsSeq(all)
        /\ \A i \in DOMAIN all :
               \/ i \in DOMAIN q[to] /\ all[i] = q[to][i]
               \/ /\ i > Len(q[to]) /\ i - Len(q[to]) \in DOMAIN packets
                  /\ all[i] = packets[i - Len(q[to])]
      BY <1>1, <2>1, ConcatIs
  <2> HIDE DEF all
  <2>5. /\ IsSeq(Fitting(all))
        /\ \A i \in DOMAIN Fitting(all) : i \in DOMAIN all /\ Fitting(all)[i] = all[i]
      BY <2>4, FittingIs
  <2>6. q'[to] = Fitting(all)
      BY <2>3 DEF all
  <2>7. \A a \in Peers : IsSeq(q'[a])
      BY <2>3, <2>5, <2>6, <1>1
  <2>8. \A i \in DOMAIN q'[to] :
               \/ i \in DOMAIN q[to] /\ q'[to][i] = q[to][i]
               \/ /\ i > Len(q[to]) /\ i - Len(q[to]) \in DOMAIN packets
                  /\ q'[to][i] = packets[i - Len(q[to])]
      BY <2>4, <2>5, <2>6
  <2> QED
      BY <1>3, <2>3, <2>7, <2>8 DEF Move
<1> QED
    BY <1>2, <1>3

\* The packet a step is on: the first, or the one a timeout leaves.
Packets(me, p) == p.type = "TIMEOUT" \/ (q[me] # <<>> /\ p = Head(q[me]))
Taken(p) == IF p.type = "TIMEOUT" THEN 0 ELSE 1

LEMMA ExchangeIs ==
    ASSUME SessionTypes, NEW me \in Peers, NEW p, Packets(me, p), NEW to, to # me,
           NEW packets, IsSeq(packets), Exchange(me, p, to, packets)
    PROVE  Move(me, Taken(p), to, packets)
<1> DEFINE rest == IF pc'[me] \in Ended THEN <<>>
                   ELSE IF p.type = "TIMEOUT" THEN q[me] ELSE Tail(q[me])
<1>1. IsSeq(q[me])
    BY DEF SessionTypes
<1>2. IsSeq(rest) /\ \A i \in DOMAIN rest :
             i + Taken(p) \in DOMAIN q[me] /\ rest[i] = q[me][i + Taken(p)]
  <2>1. CASE pc'[me] \in Ended
    <3>1. rest = <<>> /\ <<>> \in Seq({}) /\ Len(<<>>) = 0
        BY <2>1
    <3>2. IsSeq(rest) /\ DOMAIN rest = 1 .. 0
        BY <3>1, SeqOfSome
    <3> QED
        BY <3>2
  <2>2. CASE pc'[me] \notin Ended /\ p.type = "TIMEOUT"
    <3>1. rest = q[me] /\ Taken(p) = 0
        BY <2>2 DEF Taken
    <3>2. DOMAIN q[me] = 1 .. Len(q[me]) /\ Len(q[me]) \in Nat
        BY <1>1, IsSeqLen
    <3>3. \A i \in DOMAIN q[me] : i + 0 = i
        BY <3>2
    <3> QED
        BY <1>1, <3>1, <3>3
  <2>3. CASE pc'[me] \notin Ended /\ p.type # "TIMEOUT"
    <3>1. rest = Tail(q[me]) /\ Taken(p) = 1
        BY <2>3 DEF Taken
    <3>2. q[me] # <<>>
        BY <2>3 DEF Packets
    <3> HIDE DEF rest
    <3> QED
        BY <1>1, <3>1, <3>2, TailIs
  <2> QED
      BY <2>1, <2>2, <2>3
<1>3. q' = IF Live(to)
           THEN [[q EXCEPT ![me] = rest] EXCEPT ![to] = Fitting(@ \o packets)]
           ELSE [q EXCEPT ![me] = rest]
    BY DEF Exchange
<1>4. Taken(p) \in {0, 1}
    BY DEF Taken
<1> HIDE DEF rest
<1> QED
    BY <1>2, <1>3, <1>4, QueuesAre

(***************************************************************************)
(* The steps, as far as the invariant sees them: two that matter, the one  *)
(* that acknowledges a file request and the one that takes a header, and   *)
(* what all others of a client and of the server have in common.           *)
(***************************************************************************)
ClientDoes(c, n, to, packets, place) ==
    /\ Move(c, n, to, packets)
    /\ \A i \in DOMAIN packets :
          /\ packets[i].src = c
          /\ packets[i].type # "SEND_FILE_STATUS_ACK"
          /\ packets[i].type = "DOWNLOAD_FILE_REQUEST" => packets[i].name = FileOf[c]
    /\ place \in Places
    /\ pc' = [pc EXCEPT ![c] = place]
    /\ place \in Before => pc[c] \in Before
    /\ place = "header" =>
          \/ pc[c] = "header"
          \/ pc[c] \in Before /\ n = 1 /\ 1 \in DOMAIN q[c] /\ IsAck(q[c][1])
    /\ UNCHANGED <<name, from, addr>>
ClientStep(c) ==
    \E n \in {0, 1}, to \in {"server", "none"} : \E packets, place :
        ClientDoes(c, n, to, packets, place)

HeaderTaken(c) ==
    /\ pc[c] = "header"
    /\ 1 \in DOMAIN q[c] /\ q[c][1].type = "SEND_FILE_STATUS"
    /\ Move(c, 1, "server", <<NamePacket(c, "SEND_FILE_STATUS_ACK", q[c][1].name)>>)
    /\ pc' = [pc EXCEPT ![c] = "gather"]
    /\ name' = [name EXCEPT ![c] = q[c][1].name]
    /\ UNCHANGED <<from, addr>>

ServerDoes(n, to, packets, place) ==
    /\ Move("server", n, to, packets)
    /\ \A i \in DOMAIN packets :
          /\ ~ IsAck(packets[i])
          /\ packets[i].type = "SEND_FILE_STATUS" =>
                pc["server"] = "status" /\ packets[i].name = name["server"]
    /\ place \in Places
    /\ pc' = [pc EXCEPT !["server"] = place]
    /\ place = "status" => pc["server"] = "status"
    /\ pc["server"] = "status" => place \in {"status", "exited"} \/ (n = 1 /\ Confirms(1))
    /\ IF pc["server"] = "exited" THEN place = "exited"
       ELSE place = "exited" => DOMAIN q'["server"] = {}
    /\ DOMAIN name' = Peers
    /\ \A c \in Clients : name'[c] = name[c]
    /\ pc["server"] = "status" => name'["server"] = name["server"]
    /\ {from', addr'} \subseteq Clients \cup {"none"}
ServerStep ==
    \E n \in {0, 1}, to \in Clients \cup {"none"} : \E packets, place :
        ServerDoes(n, to, packets, place)

FileRequested ==
    LET p == q["server"][1] IN
        /\ pc["server"] = "fileRequest"
        /\ 1 \in DOMAIN q["server"] /\ p.type = "DOWNLOAD_FILE_REQUEST"
        /\ Move("server", 1, p.src, <<NamePacket("server", "DOWNLOAD_FILE_REQUEST_ACK", p.name),
                                      NamePacket("server", "SEND_FILE_STATUS", p.name)>>)
        /\ pc' = [pc EXCEPT !["server"] = "status"]
        /\ name' = [name EXCEPT !["server"] = p.name]
        /\ from' = p.src /\ addr' = p.src

LEMMA PeersAre == Peers = Clients \cup {"server"} /\ "server" \in Peers /\ "none" \notin Peers
    BY ConstantsAre DEF Peers

LEMMA ClientStepKeeps ==
    ASSUME SessionInv, NEW c \in Clients, ClientStep(c)
    PROVE  SessionInv'
<1>1. PICK n \in {0, 1}, to \in {"server", "none"} :
          \E packets, place : ClientDoes(c, n, to, packets, place)
    BY DEF ClientStep
<1>2. PICK packets, place : ClientDoes(c, n, to, packets, place)
    BY <1>1
<1> USE DEF ClientDoes
<1>3. c \in Peers /\ c # "server" /\ "server" \in Peers /\ Clients \subseteq Peers
    BY ConstantsAre, PeersAre
<1>4. /\ pc' \in [Peers -> Places] /\ pc'[c] = place
      /\ \A d \in Peers \ {c} : pc'[d] = pc[d]
    BY <1>2, <1>3 DEF SessionInv, SessionTypes
<1>5. SessionTypes'
    BY <1>2, <1>4 DEF SessionInv, SessionTypes, Move
<1>6. /\ \A d \in Clients \ {c} : q'[d] = q[d]
      /\ \A i \in DOMAIN q'[c] : i + n \in DOMAIN q[c] /\ q'[c][i] = q[c][i + n]
    BY <1>2, <1>3, ConstantsAre DEF Move
<1>7. ASSUME NEW i \in DOMAIN q'["server"]
      PROVE  \/ i \in DOMAIN q["server"] /\ q'["server"][i] = q["server"][i]
             \/ \E k \in DOMAIN packets : q'["server"][i] = packets[k]
  <2>1. CASE to = "server"
      BY <1>2, <1>3, <2>1 DEF Move
  <2>2. CASE to = "none"
      BY <1>2, <1>3, <2>2 DEF Move
  <2> QED
      BY <2>1, <2>2
<1>8. FromClients'
    BY <1>2, <1>7 DEF SessionInv, FromClients
<1>9. RequestsOwn'
    BY <1>2, <1>7 DEF SessionInv, RequestsOwn
<1>10. ASSUME NEW d \in Clients, Waiting(d)' PROVE Waiting(d)
  <2>1. CASE d # c
      BY <1>3, <1>4, <1>6, <1>10, <2>1 DEF Waiting
  <2>2. CASE d = c
    <3>1. CASE pc'[c] = "header"
        BY <1>2, <1>4, <2>2, <3>1 DEF Waiting
    <3>2. CASE pc'[c] \in Before /\ \E i \in DOMAIN q'[c] : IsAck(q'[c][i])
        BY <1>2, <1>4, <1>6, <2>2, <3>2 DEF Waiting
    <3> QED
        BY <1>10, <2>2, <3>1, <3>2 DEF Waiting
  <2> QED
      BY <2>1, <2>2
<1>11. ServesWaiting' /\ OneWaits'
    BY <1>2, <1>3, <1>4, <1>10 DEF SessionInv, ServesWaiting, OneWaits
<1>12. \A i : Confirms(i)' => Confirms(i)
    BY <1>2, <1>7 DEF Confirms
<1>13. ConfirmedOnce'
    BY <1>3, <1>4, <1>10, <1>12 DEF SessionInv, ConfirmedOnce, Confirms
<1>14. ASSUME NEW d \in Clients, NEW i \in DOMAIN q'[d], Takes(d, i)'
       PROVE  q'[d][i].name = FileOf[d]
  <2>1. CASE d # c
      BY <1>3, <1>4, <1>6, <1>14, <2>1 DEF SessionInv, HeadersOwn, Takes
  <2>2. CASE d = c
    <3>1. i \in Int /\ i >= 1 /\ i + n \in DOMAIN q[c] /\ q'[c][i] = q[c][i + n]
      <4>1. DOMAIN q'[c] = 1 .. Len(q'[c]) /\ Len(q'[c]) \in Nat
          BY <1>3, <1>5, IsSeqLen DEF SessionTypes
      <4> QED
          BY <1>6, <2>2, <4>1
    <3>2. q[c][i + n].type = "SEND_FILE_STATUS"
        BY <1>14, <2>2, <3>1 DEF Takes
    <3>3. CASE pc'[c] = "header"
      <4>1. CASE pc[c] = "header"
          BY <2>2, <3>1, <3>2, <4>1 DEF SessionInv, HeadersOwn, Takes
      <4>2. CASE pc[c] \in Before /\ n = 1 /\ 1 \in DOMAIN q[c] /\ IsAck(q[c][1])
        <5>1. 1 < i + n
            BY <3>1, <4>2
        <5>2. Takes(c, i + n)
            BY <3>2, <4>2, <5>1 DEF Takes
        <5> QED
            BY <2>2, <3>1, <5>2 DEF SessionInv, HeadersOwn
      <4> QED
          BY <1>2, <1>4, <3>3, <4>1, <4>2
    <3>4. CASE pc'[c] \in Before /\ \E j \in DOMAIN q'[c] : j < i /\ IsAck(q'[c][j])
      <4>1. PICK j \in DOMAIN q'[c] : j < i /\ IsAck(q'[c][j])
          BY <3>4
      <4>2. j \in Int
        <5>1. DOMAIN q'[c] = 1 .. Len(q'[c]) /\ Len(q'[c]) \in Nat
            BY <1>3, <1>5, IsSeqLen DEF SessionTypes
        <5> QED
            BY <5>1
      <4>3. j + n < i + n /\ j + n \in DOMAIN q[c] /\ IsAck(q[c][j + n])
        <5>1. j + n < i + n
            BY <3>1, <4>1, <4>2
        <5> QED
            BY <1>6, <4>1, <5>1
      <4>4. Takes(c, i + n)
          BY <1>2, <1>4, <3>2, <3>4, <4>3 DEF Takes
      <4> QED
          BY <2>2, <3>1, <4>4 DEF SessionInv, HeadersOwn
    <3> QED
        BY <1>14, <2>2, <3>3, <3>4 DEF Takes
  <2> QED
      BY <2>1, <2>2
<1>15. HeadersOwn'
    BY <1>14 DEF HeadersOwn
<1>16. OwnNames'
    BY <1>2 DEF SessionInv, OwnNames
<1> QED
    BY <1>5, <1>8, <1>9, <1>11, <1>13, <1>15, <1>16 DEF SessionInv

LEMMA HeaderTakenKeeps ==
    ASSUME SessionInv, NEW c \in Clients, HeaderTaken(c)
    PROVE  SessionInv'
<1> DEFINE ack == NamePacket(c, "SEND_FILE_STATUS_ACK", q[c][1].name)
<1>1. c \in Peers /\ c # "server" /\ "server" \in Peers /\ Clients \subseteq Peers
    BY ConstantsAre, PeersAre
<1>2. /\ pc' \in [Peers -> Places] /\ pc'[c] = "gather"
      /\ \A d \in Peers \ {c} : pc'[d] = pc[d]
    BY <1>1 DEF SessionInv, SessionTypes, HeaderTaken, Places
<1>3. /\ DOMAIN name' = Peers /\ name'[c] = q[c][1].name
      /\ \A d \in Peers \ {c} : name'[d] = name[d]
    BY <1>1 DEF SessionInv, SessionTypes, HeaderTaken
<1>4. Move(c, 1, "server", <<ack>>)
    BY DEF HeaderTaken
<1>5. SessionTypes'
    BY <1>2, <1>3, <1>4 DEF SessionTypes, Move
<1>6. \A d \in Clients \ {c} : q'[d] = q[d]
    BY <1>1, <1>4, ConstantsAre DEF Move
<1>7. /\ ack.src = c /\ ack.type = "SEND_FILE_STATUS_ACK"
    BY DEF NamePacket
<1> HIDE DEF ack
<1>8. ASSUME NEW i \in DOMAIN q'["server"]
      PROVE  \/ i \in DOMAIN q["server"] /\ q'["server"][i] = q["server"][i]
             \/ /\ i = Len(q["server"]) + 1 /\ Live("server")
                /\ q'["server"][i] = ack
  <2>1. \/ i \in DOMAIN q["server"] /\ q'["server"][i] = q["server"][i]
        \/ /\ i - Len(q["server"]) \in DOMAIN <<ack>> /\ Live("server")
           /\ q'["server"][i] = <<ack>>[i - Len(q["server"])]
      BY <1>1, <1>4 DEF Move
  <2>2. CASE /\ i - Len(q["server"]) \in DOMAIN <<ack>> /\ Live("server")
             /\ q'["server"][i] = <<ack>>[i - Len(q["server"])]
    <3>1. i - Len(q["server"]) = 1
        BY <2>2
    <3>2. Len(q["server"]) \in Nat
        BY <1>1, IsSeqLen DEF SessionInv, SessionTypes
    <3>3. i \in Int
      <4>1. DOMAIN q'["server"] = 1 .. Len(q'["server"]) /\ Len(q'["server"]) \in Nat
          BY <1>1, <1>5, IsSeqLen DEF SessionTypes
      <4> QED
          BY <4>1
    <3> QED
        BY <2>2, <3>1, <3>2, <3>3
  <2> QED
      BY <2>1, <2>2
<1>9. FromClients'
    BY <1>7, <1>8 DEF SessionInv, FromClients, HeaderTaken
<1>10. RequestsOwn'
    BY <1>7, <1>8 DEF SessionInv, RequestsOwn
<1>11. Waiting(c)
    BY DEF HeaderTaken, Waiting
<1>12. \A d \in Clients : ~ Waiting(d)'
  <2>1. SUFFICES ASSUME NEW d \in Clients, Waiting(d)' PROVE FALSE
      OBVIOUS
  <2>2. d # c
      BY <1>2, <2>1 DEF Waiting, Before
  <2>3. Waiting(d)
      BY <1>1, <1>2, <1>6, <2>1, <2>2 DEF Waiting
  <2> QED
      BY <1>11, <2>2, <2>3 DEF SessionInv, OneWaits
<1>13. ServesWaiting' /\ OneWaits'
    BY <1>12 DEF ServesWaiting, OneWaits
<1>14. \A i \in DOMAIN q["server"] : ~ Confirms(i)
    BY <1>11 DEF SessionInv, ConfirmedOnce
<1>15. ASSUME NEW i \in DOMAIN q'["server"], Confirms(i)'
       PROVE  i = Len(q["server"]) + 1 /\ Live("server")
    BY <1>8, <1>14, <1>15 DEF Confirms
<1>16. Live("server") => pc'["server"] = "status"
    BY <1>1, <1>2, <1>11 DEF SessionInv, ServesWaiting, Live, Ended
<1>17. ConfirmedOnce'
  <2>1. ASSUME NEW i \in DOMAIN q'["server"], Confirms(i)'
        PROVE  pc'["server"] = "status" /\ \A d \in Clients : ~ Waiting(d)'
      BY <1>12, <1>15, <1>16, <2>1
  <2>2. ASSUME NEW i \in DOMAIN q'["server"], NEW j \in DOMAIN q'["server"],
               Confirms(i)', Confirms(j)'
        PROVE  i = j
      BY <1>15, <2>2
  <2> QED
      BY <2>1, <2>2 DEF ConfirmedOnce
<1>18. HeadersOwn'
  <2>1. SUFFICES ASSUME NEW d \in Clients, NEW i \in DOMAIN q'[d], Takes(d, i)'
                 PROVE  q'[d][i].name = FileOf[d]
      BY DEF HeadersOwn
  <2>2. d # c
      BY <1>2, <2>1 DEF Takes, Before
  <2> QED
      BY <1>1, <1>2, <1>6, <2>1, <2>2 DEF SessionInv, HeadersOwn, Takes
<1>19. OwnNames'
  <2>1. Takes(c, 1) /\ 1 \in DOMAIN q[c]
      BY DEF HeaderTaken, Takes
  <2>2. name'[c] = FileOf[c]
      BY <1>3, <2>1 DEF SessionInv, HeadersOwn
  <2> QED
      BY <1>1, <1>3, <2>2 DEF SessionInv, OwnNames
<1> QED
    BY <1>5, <1>9, <1>10, <1>13, <1>17, <1>18, <1>19 DEF SessionInv

LEMMA FileRequestedKeeps ==
    ASSUME SessionInv, FileRequested
    PROVE  SessionInv'
<1> DEFINE p == q["server"][1]
           c == p.src
           answers == <<NamePacket("server", "DOWNLOAD_FILE_REQUEST_ACK", p.name),
                        NamePacket("server", "SEND_FILE_STATUS", p.name)>>
<1>1. "server" \in Peers /\ "server" \notin Clients /\ Clients \subseteq Peers
    BY ConstantsAre, PeersAre
<1>2. /\ pc["server"] = "fileRequest"
      /\ 1 \in DOMAIN q["server"] /\ p.type = "DOWNLOAD_FILE_REQUEST"
      /\ Move("server", 1, c, answers)
      /\ pc' = [pc EXCEPT !["server"] = "status"]
      /\ name' = [name EXCEPT !["server"] = p.name]
      /\ from' = c /\ addr' = c
    BY DEF FileRequested
<1>3. c \in Clients /\ p.name = FileOf[c]
    BY <1>2 DEF SessionInv, FromClients, RequestsOwn
<1>4. /\ pc' \in [Peers -> Places] /\ pc'["server"] = "status"
      /\ \A d \in Clients : pc'[d] = pc[d]
    BY <1>1, <1>2 DEF SessionInv, SessionTypes, Places
<1>5. /\ DOMAIN name' = Peers /\ name'["server"] = FileOf[c]
      /\ \A d \in Clients : name'[d] = name[d]
    BY <1>1, <1>2, <1>3 DEF SessionInv, SessionTypes
<1>6. \A k \in DOMAIN answers : answers[k].type = "SEND_FILE_STATUS" => answers[k].name = FileOf[c]
    BY <1>3 DEF NamePacket
<1> HIDE DEF p, c, answers
<1>7. SessionTypes'
    BY <1>2, <1>4, <1>5 DEF SessionTypes, Move
<1>8. \A d \in Clients \ {c} : q'[d] = q[d]
    BY <1>1, <1>2 DEF Move
<1>9. \A i \in DOMAIN q'["server"] :
          i + 1 \in DOMAIN q["server"] /\ q'["server"][i] = q["server"][i + 1]
    BY <1>2 DEF Move
<1>10. FromClients'
    BY <1>2, <1>3, <1>9 DEF SessionInv, FromClients
<1>11. RequestsOwn'
    BY <1>9 DEF SessionInv, RequestsOwn
<1>12. \A d \in Clients : ~ Waiting(d)
    BY <1>2 DEF SessionInv, ServesWaiting
<1>13. \A d \in Clients : Waiting(d)' => d = c
    BY <1>4, <1>8, <1>12 DEF Waiting
<1>14. ServesWaiting' /\ OneWaits'
    BY <1>4, <1>5, <1>13 DEF ServesWaiting, OneWaits
<1>15. \A i \in DOMAIN q["server"] : ~ Confirms(i)
    BY <1>2 DEF SessionInv, ConfirmedOnce
<1>16. ConfirmedOnce'
    BY <1>9, <1>15 DEF ConfirmedOnce, Confirms
<1>17. ASSUME NEW d \in Clients, NEW i \in DOMAIN q'[d], Takes(d, i)'
       PROVE  q'[d][i].name = FileOf[d]
  <2>1. CASE d # c
      BY <1>4, <1>8, <1>17, <2>1 DEF SessionInv, HeadersOwn, Takes
  <2>2. CASE d = c
    <3>1. ASSUME NEW j \in DOMAIN q'[c]
          PROVE  \/ j \in DOMAIN q[c] /\ q'[c][j] = q[c][j]
                 \/ /\ j > Len(q[c]) /\ j - Len(q[c]) \in DOMAIN answers
                    /\ q'[c][j] = answers[j - Len(q[c])]
        BY <1>1, <1>2, <1>3 DEF Move
    <3>2. CASE /\ i > Len(q[c]) /\ i - Len(q[c]) \in DOMAIN answers
               /\ q'[c][i] = answers[i - Len(q[c])]
        BY <1>6, <1>17, <2>2, <3>2 DEF Takes
    <3>3. CASE i \in DOMAIN q[c] /\ q'[c][i] = q[c][i]
      <4>1. pc[c] # "header"
          BY <1>3, <1>12 DEF Waiting
      <4>2. PICK j \in DOMAIN q'[c] : j < i /\ IsAck(q'[c][j])
          BY <1>3, <1>4, <1>17, <2>2, <4>1 DEF Takes
      <4>3. j \in DOMAIN q[c] /\ q'[c][j] = q[c][j]
        <5>1. DOMAIN q[c] = 1 .. Len(q[c]) /\ Len(q[c]) \in Nat
            BY <1>1, <1>3, IsSeqLen DEF SessionInv, SessionTypes
        <5>2. DOMAIN q'[c] = 1 .. Len(q'[c]) /\ Len(q'[c]) \in Nat
            BY <1>1, <1>3, <1>7, IsSeqLen DEF SessionTypes
        <5>3. ~ (j > Len(q[c]))
            BY <3>3, <4>2, <5>1, <5>2
        <5> QED
            BY <3>1, <5>3
      <4>4. Takes(c, i)
          BY <1>3, <1>4, <1>17, <2>2, <3>3, <4>1, <4>2, <4>3 DEF Takes
      <4> QED
          BY <1>3, <2>2, <3>3, <4>4 DEF SessionInv, HeadersOwn
    <3> QED
        BY <2>2, <3>1, <3>2, <3>3
  <2> QED
      BY <2>1, <2>2
<1>18. HeadersOwn'
    BY <1>17 DEF HeadersOwn
<1>19. OwnNames'
    BY <1>5 DEF SessionInv, OwnNames
<1> QED
    BY <1>7, <1>10, <1>11, <1>14, <1>16, <1>18, <1>19 DEF SessionInv

LEMMA ServerStepKeeps ==
    ASSUME SessionInv, ServerStep
    PROVE  SessionInv'
<1>1. PICK n \in {0, 1}, to \in Clients \cup {"none"} :
          \E packets, place : ServerDoes(n, to, packets, place)
    BY DEF ServerStep
<1>2. PICK packets, place : ServerDoes(n, to, packets, place)
    BY <1>1
<1> USE DEF ServerDoes
<1>3. "server" \in Peers /\ "server" \notin Clients /\ Clients \subseteq Peers
    BY ConstantsAre, PeersAre
<1>4. /\ pc' \in [Peers -> Places] /\ pc'["server"] = place
      /\ \A d \in Clients : pc'[d] = pc[d]
    BY <1>2, <1>3 DEF SessionInv, SessionTypes
<1>5. SessionTypes'
    BY <1>2, <1>4 DEF SessionTypes, Move
<1>6. ASSUME NEW d \in Clients, NEW i \in DOMAIN q'[d]
      PROVE  \/ i \in DOMAIN q[d] /\ q'[d][i] = q[d][i]
             \/ /\ i > Len(q[d]) /\ i - Len(q[d]) \in DOMAIN packets
                /\ q'[d][i] = packets[i - Len(q[d])]
  <2>1. CASE d = to
      BY <1>2, <1>3, <2>1 DEF Move
  <2>2. CASE d # to
      BY <1>2, <1>3, <2>2 DEF Move
  <2> QED
      BY <2>1, <2>2
<1>7. \A i \in DOMAIN q'["server"] :
          i + n \in DOMAIN q["server"] /\ q'["server"][i] = q["server"][i + n]
    BY <1>2 DEF Move
<1>8. FromClients'
    BY <1>2, <1>7 DEF SessionInv, FromClients
<1>9. RequestsOwn'
    BY <1>7 DEF SessionInv, RequestsOwn
<1>10. ASSUME NEW d \in Clients, Waiting(d)' PROVE Waiting(d)
  <2>1. CASE pc'[d] = "header"
      BY <1>4, <2>1 DEF Waiting
  <2>2. CASE pc'[d] \in Before /\ \E i \in DOMAIN q'[d] : IsAck(q'[d][i])
    <3>1. PICK i \in DOMAIN q'[d] : IsAck(q'[d][i])
        BY <2>2
    <3>2. i \in DOMAIN q[d] /\ q'[d][i] = q[d][i]
        BY <1>2, <1>6, <3>1
    <3> QED
        BY <1>4, <2>2, <3>1, <3>2 DEF Waiting
  <2> QED
      BY <1>10, <2>1, <2>2 DEF Waiting
<1>11. OneWaits'
    BY <1>10 DEF SessionInv, OneWaits
<1>12. ASSUME NEW d \in Clients, Waiting(d)'
       PROVE  /\ pc'["server"] \in {"status", "exited"}
              /\ pc'["server"] = "status" => name'["server"] = FileOf[d]
  <2>1. Waiting(d)
      BY <1>10, <1>12
  <2>2. /\ pc["server"] \in {"status", "exited"}
        /\ pc["server"] = "status" => name["server"] = FileOf[d]
      BY <2>1 DEF SessionInv, ServesWaiting
  <2>3. ~ Confirms(1)
      BY <2>1 DEF SessionInv, ConfirmedOnce, Confirms
  <2> QED
      BY <1>2, <1>4, <2>2, <2>3
<1>13. ServesWaiting'
    BY <1>12 DEF ServesWaiting
<1>14. ASSUME NEW i \in DOMAIN q'["server"], Confirms(i)'
       PROVE  /\ i \in Int /\ i >= 1 /\ Confirms(i + n)
              /\ pc'["server"] = "status"
  <2>1. i \in Int /\ i >= 1
    <3>1. DOMAIN q'["server"] = 1 .. Len(q'["server"]) /\ Len(q'["server"]) \in Nat
        BY <1>3, <1>5, IsSeqLen DEF SessionTypes
    <3> QED
        BY <3>1
  <2>2. Confirms(i + n) /\ i + n \in DOMAIN q["server"]
      BY <1>7, <1>14 DEF Confirms
  <2>3. pc["server"] = "status"
      BY <2>2 DEF SessionInv, ConfirmedOnce
  <2>4. place # "exited"
      BY <1>2, <2>3
  <2>5. ~ (n = 1 /\ Confirms(1))
    <3>1. SUFFICES ASSUME n = 1, Confirms(1) PROVE FALSE
        OBVIOUS
    <3>2. 1 \in DOMAIN q["server"]
        BY <3>1 DEF Confirms
    <3>3. i + n = 1
        BY <2>2, <3>1, <3>2 DEF SessionInv, ConfirmedOnce
    <3> QED
        BY <2>1, <3>1, <3>3
  <2> QED
      BY <1>2, <1>4, <2>1, <2>2, <2>3, <2>4, <2>5
<1>15. ConfirmedOnce'
  <2>1. ASSUME NEW i \in DOMAIN q'["server"], Confirms(i)'
        PROVE  pc'["server"] = "status" /\ \A d \in Clients : ~ Waiting(d)'
    <3>1. Confirms(i + n) /\ i + n \in DOMAIN q["server"] /\ pc'["server"] = "status"
        BY <1>14, <2>1 DEF Confirms
    <3> QED
        BY <1>10, <3>1 DEF SessionInv, ConfirmedOnce
  <2>2. ASSUME NEW i \in DOMAIN q'["server"], NEW j \in DOMAIN q'["server"],
               Confirms(i)', Confirms(j)'
        PROVE  i = j
    <3>1. i \in Int /\ Confirms(i + n) /\ i + n \in DOMAIN q["server"]
        BY <1>14, <2>2 DEF Confirms
    <3>2. j \in Int /\ Confirms(j + n) /\ j + n \in DOMAIN q["server"]
        BY <1>14, <2>2 DEF Confirms
    <3>3. i + n = j + n
        BY <3>1, <3>2 DEF SessionInv, ConfirmedOnce
    <3> QED
        BY <3>1, <3>2, <3>3
  <2> QED
      BY <2>1, <2>2 DEF ConfirmedOnce
<1>16. ASSUME NEW d \in Clients, NEW i \in DOMAIN q'[d], Takes(d, i)'
       PROVE  q'[d][i].name = FileOf[d]
  <2>1. CASE i \in DOMAIN q[d] /\ q'[d][i] = q[d][i]
    <3>1. CASE pc[d] = "header"
        BY <1>16, <2>1, <3>1 DEF SessionInv, HeadersOwn, Takes
    <3>2. CASE pc[d] # "header"
      <4>1. PICK j \in DOMAIN q'[d] : j < i /\ IsAck(q'[d][j])
          BY <1>4, <1>16, <3>2 DEF Takes
      <4>2. j \in DOMAIN q[d] /\ q'[d][j] = q[d][j]
          BY <1>2, <1>6, <4>1
      <4>3. Takes(d, i)
          BY <1>4, <1>16, <2>1, <3>2, <4>1, <4>2 DEF Takes
      <4> QED
          BY <2>1, <4>3 DEF SessionInv, HeadersOwn
    <3> QED
        BY <3>1, <3>2
  <2>2. CASE \E k \in DOMAIN packets : q'[d][i] = packets[k]
    <3>1. pc["server"] = "status" /\ q'[d][i].name = name["server"]
        BY <1>2, <1>16, <2>2 DEF Takes
    <3>2. Waiting(d)'
        BY <1>16 DEF Takes, Waiting
    <3> QED
        BY <1>10, <3>1, <3>2 DEF SessionInv, ServesWaiting
  <2> QED
      BY <1>6, <2>1, <2>2
<1>17. HeadersOwn'
    BY <1>16 DEF HeadersOwn
<1>18. OwnNames'
    BY <1>2 DEF SessionInv, OwnNames
<1> QED
    BY <1>5, <1>8, <1>9, <1>11, <1>13, <1>15, <1>17, <1>18 DEF SessionInv

(***************************************************************************)
(* The packets of the transfer, and those without a name.                  *)
(***************************************************************************)
Told == {"SEND_FILE_STATUS", "SEND_FILE_STATUS_ACK",
         "DOWNLOAD_FILE_REQUEST", "DOWNLOAD_FILE_REQUEST_ACK"}
PlainPacket(me, p) == p.src = me /\ p.type \notin Told
Plain(me, packets) ==
    IsSeq(packets) /\ \A i \in DOMAIN packets : PlainPacket(me, packets[i])

LEMMA IndexedIsSeq ==
    ASSUME NEW n \in Nat, NEW f, f = [i \in 1 .. n |-> f[i]]
    PROVE  IsSeq(f) /\ Len(f) = n /\ DOMAIN f = 1 .. n
<1> DEFINE S == {f[i] : i \in 1 .. n}
<1>1. f \in [1 .. n -> S]
    OBVIOUS
<1> HIDE DEF S
<1> QED
    BY <1>1, FunctionIsSeq

LEMMA PlainNone == ASSUME NEW me PROVE Plain(me, <<>>)
<1>1. <<>> \in Seq({}) /\ DOMAIN <<>> = {}
    OBVIOUS
<1> QED
    BY <1>1, SeqOfSome DEF Plain

LEMMA OneIsSeq == ASSUME NEW x PROVE IsSeq(<<x>>) /\ DOMAIN <<x>> = {1} /\ <<x>>[1] = x
<1>1. <<x>> \in Seq({x})
    OBVIOUS
<1>2. DOMAIN <<x>> = {1} /\ <<x>>[1] = x
    OBVIOUS
<1> QED
    BY <1>1, <1>2, SeqOfSome

LEMMA PlainOne ==
    ASSUME NEW me, NEW x, PlainPacket(me, x) PROVE Plain(me, <<x>>)
    BY OneIsSeq DEF Plain

LEMMA PlainConcat ==
    ASSUME NEW me, NEW s, NEW t, Plain(me, s), Plain(me, t) PROVE Plain(me, s \o t)
    BY ConcatIs DEF Plain

LEMMA PlainAppend ==
    ASSUME NEW me, NEW s, NEW x, Plain(me, s), PlainPacket(me, x) PROVE Plain(me, Append(s, x))
<1> DEFINE S == {s[i] : i \in DOMAIN s} \cup {x}
<1>1. s \in [1 .. Len(s) -> S] /\ Len(s) \in Nat
    BY DEF Plain, IsSeq
<1>2. s \in Seq(S) /\ x \in S
    BY <1>1
<1>3. DOMAIN s = 1 .. Len(s)
    BY <1>1
<1> HIDE DEF S
<1>4. /\ Append(s, x) \in Seq(S) /\ Len(Append(s, x)) = Len(s) + 1
      /\ \A i \in 1 .. Len(s) + 1 :
             Append(s, x)[i] = IF i <= Len(s) THEN s[i] ELSE x
    BY <1>1, <1>2
<1>5. IsSeq(Append(s, x)) /\ DOMAIN Append(s, x) = 1 .. Len(s) + 1
    BY <1>4, SeqOfSome
<1> QED
    BY <1>1, <1>3, <1>4, <1>5 DEF Plain

LEMMA PlainCopies ==
    ASSUME NEW me \in Peers, NEW t, t \notin Told PROVE Plain(me, Copies(me, t))
<1>1. MAX_SEND[me] \in Nat
    BY ConstantsAre
<1>2. Copies(me, t) = [i \in 1 .. MAX_SEND[me] |-> Copies(me, t)[i]]
    BY DEF Copies
<1>3. IsSeq(Copies(me, t)) /\ DOMAIN Copies(me, t) = 1 .. MAX_SEND[me]
    BY <1>1, <1>2, IndexedIsSeq
<1>4. \A i \in 1 .. MAX_SEND[me] : Copies(me, t)[i] = Packet(me, t)
    BY DEF Copies
<1>5. PlainPacket(me, Packet(me, t))
    BY DEF PlainPacket, Packet
<1> QED
    BY <1>3, <1>4, <1>5 DEF Plain

LEMMA PlainFrames ==
    ASSUME NEW me, NEW s, Len(s) \in Nat PROVE Plain(me, FramesAndDone(me, s))
<1> DEFINE frames == [i \in 1 .. Len(s) |-> FramePacket(me, s[i], FrameData(me, s[i]))]
<1>1. frames = [i \in 1 .. Len(s) |-> frames[i]]
    OBVIOUS
<1>2. \A i \in 1 .. Len(s) : PlainPacket(me, frames[i])
    BY DEF PlainPacket, FramePacket, Told
<1>3. FramesAndDone(me, s) = frames \o <<Packet(me, "SEND_FILE_DONE")>>
    BY DEF FramesAndDone
<1> HIDE DEF frames
<1>4. IsSeq(frames) /\ DOMAIN frames = 1 .. Len(s)
    BY <1>1, IndexedIsSeq
<1>5. Plain(me, frames)
    BY <1>2, <1>4 DEF Plain
<1>6. PlainPacket(me, Packet(me, "SEND_FILE_DONE"))
    BY DEF PlainPacket, Packet, Told
<1> QED
    BY <1>3, <1>5, <1>6, PlainOne, PlainConcat

LEMMA PlainTransfer ==
    ASSUME NEW me \in Peers
    PROVE  /\ Plain(me, WholeFile(me))
           /\ \A S : Plain(me, Resent(me, S))
<1>1. Plain(me, WholeFile(me))
  <2> DEFINE s == [i \in 1 .. total_frame |-> i - 1]
  <2>1. s = [i \in 1 .. total_frame |-> s[i]] /\ total_frame \in Nat
      BY ConstantsAre
  <2>2. WholeFile(me) = FramesAndDone(me, s)
      BY DEF WholeFile
  <2> HIDE DEF s
  <2>3. Len(s) \in Nat
      BY <2>1, IndexedIsSeq
  <2> QED
      BY <2>2, <2>3, PlainFrames
<1>2. ASSUME NEW S PROVE Plain(me, Resent(me, S))
  <2> DEFINE asked == S \cap (0 .. total_frame)
             s == Ascending(asked)
  <2>1. IsFiniteSet(0 .. total_frame)
      BY ConstantsAre, FS_Interval
  <2>2. IsFiniteSet(asked)
      BY <2>1, FS_Subset
  <2>3. Cardinality(asked) \in Nat
      BY <2>2, FS_CardinalityType
  <2>4. s = [k \in 1 .. Cardinality(asked) |-> s[k]]
    <3> DEFINE nth(k) == CHOOSE f \in asked : Cardinality({g \in asked : g < f}) = k - 1
    <3>1. s = [k \in 1 .. Cardinality(asked) |-> nth(k)]
        BY DEF Ascending
    <3> HIDE DEF s, nth
    <3> QED
        BY <3>1
  <2>5. Resent(me, S) = Copies(me, "SEND_MISSING_DONE_ACK") \o FramesAndDone(me, s)
      BY DEF Resent
  <2> HIDE DEF s, asked
  <2>6. Len(s) \in Nat
      BY <2>3, <2>4, IndexedIsSeq
  <2>7. Plain(me, Copies(me, "SEND_MISSING_DONE_ACK"))
      BY PlainCopies DEF Told
  <2> QED
      BY <2>5, <2>6, <2>7, PlainFrames, PlainConcat
<1> QED
    BY <1>1, <1>2

(***************************************************************************)
(* A step that tells nobody a name or a file, on the packet p.             *)
(***************************************************************************)
Calm == Places \ (Before \cup {"header", "status", "exited"})
QuietDoes(me, p, to, packets, place) ==
    /\ to \in {"none", Partner(me, p)}
    /\ Plain(me, packets)
    /\ Exchange(me, p, to, packets)
    /\ pc' = [pc EXCEPT ![me] = place]
Quiet(me, p) ==
    /\ pc[me] \in Calm
    /\ \E to, packets, place :
           /\ QuietDoes(me, p, to, packets, place)
           /\ place \in Calm \cup {"exited"}
    /\ name' = name
    /\ IF me = "server" THEN {from', addr'} \subseteq {from, addr, p.src}
       ELSE UNCHANGED <<from, addr>>

\* Where a step takes p from, and whom it can answer.
Given(me, p) ==
    /\ Packets(me, p)
    /\ me = "server" => p.src \in Clients \cup {"none"}

LEMMA EndEmpties ==
    ASSUME SessionTypes, NEW me \in Peers, NEW p, NEW to, to # me, NEW packets,
           Exchange(me, p, to, packets), pc'[me] \in Ended
    PROVE  DOMAIN q'[me] = {}
<1>1. DOMAIN q = Peers
    BY DEF SessionTypes
<1>2. \/ q' = [[q EXCEPT ![me] = <<>>] EXCEPT ![to] = Fitting(@ \o packets)] /\ to \in Peers
      \/ q' = [q EXCEPT ![me] = <<>>]
    BY DEF Exchange, Live
<1>3. q'[me] = <<>>
    BY <1>1, <1>2
<1> QED
    BY <1>3

LEMMA QuietClient ==
    ASSUME SessionInv, NEW c \in Clients, NEW p, Given(c, p), Quiet(c, p)
    PROVE  ClientStep(c)
<1>1. PICK to, packets, place :
         /\ QuietDoes(c, p, to, packets, place)
         /\ place \in Calm \cup {"exited"}
    BY DEF Quiet
<1>2. c \in Peers /\ c # "server" /\ c # "none"
    BY ConstantsAre, PeersAre
<1>3. to \in {"server", "none"} /\ to # c
    BY <1>1, <1>2 DEF QuietDoes, Partner
<1>4. Move(c, Taken(p), to, packets)
    BY <1>1, <1>2, <1>3, ExchangeIs DEF QuietDoes, Plain, Given, SessionInv
<1>5. Taken(p) \in {0, 1}
    BY DEF Taken
<1>6. ClientDoes(c, Taken(p), to, packets, place)
  <2>1. place \in Places /\ place \notin Before /\ place # "header"
      BY <1>1 DEF Calm, Places, Before, Ended
  <2>2. \A i \in DOMAIN packets :
           /\ packets[i].src = c
           /\ packets[i].type # "SEND_FILE_STATUS_ACK"
           /\ packets[i].type # "DOWNLOAD_FILE_REQUEST"
      BY <1>1 DEF QuietDoes, Plain, PlainPacket, Told
  <2>3. UNCHANGED <<name, from, addr>>
      BY <1>2 DEF Quiet
  <2> QED
      BY <1>1, <1>4, <2>1, <2>2, <2>3 DEF ClientDoes, QuietDoes
<1> QED
    BY <1>3, <1>5, <1>6 DEF ClientStep

LEMMA QuietServer ==
    ASSUME SessionInv, NEW p, Given("server", p), Quiet("server", p)
    PROVE  ServerStep
<1>1. PICK to, packets, place :
         /\ QuietDoes("server", p, to, packets, place)
         /\ place \in Calm \cup {"exited"}
    BY DEF Quiet
<1>2. "server" \in Peers /\ "server" \notin Clients \cup {"none"}
    BY ConstantsAre, PeersAre
<1>3. to \in Clients \cup {"none"} /\ to # "server"
    BY <1>1, <1>2 DEF QuietDoes, Partner, Given
<1>4. Move("server", Taken(p), to, packets)
    BY <1>1, <1>2, <1>3, ExchangeIs DEF QuietDoes, Plain, Given, SessionInv
<1>5. Taken(p) \in {0, 1}
    BY DEF Taken
<1>6. ServerDoes(Taken(p), to, packets, place)
  <2>1. place \in Places /\ place # "status"
      BY <1>1 DEF Calm, Places, Before, Ended
  <2>2. \A i \in DOMAIN packets :
           ~ IsAck(packets[i]) /\ packets[i].type # "SEND_FILE_STATUS"
      BY <1>1 DEF QuietDoes, Plain, PlainPacket, Told, IsAck
  <2>3. pc["server"] \notin {"status", "exited"}
      BY DEF Quiet, Calm
  <2>4. place = "exited" => DOMAIN q'["server"] = {}
    <3>1. SUFFICES ASSUME place = "exited" PROVE DOMAIN q'["server"] = {}
        OBVIOUS
    <3>2. pc'["server"] = place
        BY <1>1, <1>2 DEF QuietDoes, SessionInv, SessionTypes
    <3>3. pc'["server"] \in Ended
        BY <3>1, <3>2 DEF Ended
    <3> QED
        BY <1>1, <1>2, <1>3, <3>3, EndEmpties DEF QuietDoes, SessionInv
  <2>5. name' = name /\ {from', addr'} \subseteq Clients \cup {"none"}
      BY DEF Quiet, Given, SessionInv, FromClients
  <2>6. DOMAIN name' = Peers
      BY <2>5 DEF SessionInv, SessionTypes
  <2> QED
      BY <1>1, <1>4, <2>1, <2>2, <2>3, <2>4, <2>5, <2>6 DEF ServerDoes, QuietDoes
<1> QED
    BY <1>3, <1>5, <1>6 DEF ServerStep

(***************************************************************************)
(* The code of the transfer is quiet.                                      *)
(***************************************************************************)
LEMMA StayIs ==
    ASSUME SessionInv, NEW me \in Peers, Stay(me) PROVE pc' = [pc EXCEPT ![me] = pc[me]]
    BY DEF Stay, SessionInv, SessionTypes

LEMMA QuietIs ==
    ASSUME NEW me \in Peers, NEW p, NEW to, NEW packets, NEW place,
           pc[me] \in Calm, place \in Calm \cup {"exited"},
           QuietDoes(me, p, to, packets, place),
           name' = name,
           IF me = "server" THEN {from', addr'} \subseteq {from, addr, p.src}
           ELSE UNCHANGED <<from, addr>>
    PROVE  Quiet(me, p)
    BY DEF Quiet

LEMMA SendFileQuiet ==
    ASSUME SessionInv, NEW me \in Peers, NEW p, SendFile(me, p)
    PROVE  Quiet(me, p)
<1>1. name' = name /\ IF me = "server" THEN {from', addr'} \subseteq {from, addr, p.src}
                      ELSE UNCHANGED <<from, addr>>
    BY DEF SendFile, Overwrite, sessionVars
<1>2. /\ {"request", "done", "awaitAck", "awaitRequest", "awaitAck2"} \subseteq Calm
    BY DEF Calm, Places, Before, Ended
<1>3. pc[me] \in {"awaitAck", "awaitRequest", "awaitAck2"}
    BY DEF SendFile, AwaitDoneAck, AwaitRequest, AwaitDoneAckAgain
<1> DEFINE Does == \E to, packets, place :
                     QuietDoes(me, p, to, packets, place) /\ place \in Calm
<1>4. Plain(me, <<>>) /\ Plain(me, <<Packet(me, "SEND_FILE_DONE")>>)
      /\ Plain(me, Copies(me, "GET_ALL_FILE_ACK"))
    BY PlainNone, PlainOne, PlainCopies DEF PlainPacket, Packet, Told
<1>5. ASSUME SendEnds(me, p) PROVE Does
  <2>1. PICK place \in {"request", "done"} : Goto(me, place, 0)
      BY <1>5 DEF SendEnds
  <2>2. QuietDoes(me, p, Partner(me, p), Copies(me, "GET_ALL_FILE_ACK"), place)
      BY <1>4, <1>5, <2>1 DEF SendEnds, QuietDoes, Goto
  <2> QED
      BY <1>2, <2>2
<1>6. ASSUME SendAgain(me, p) PROVE Does
  <2>1. QuietDoes(me, p, Partner(me, p), <<Packet(me, "SEND_FILE_DONE")>>, pc[me])
      BY <1>4, <1>6, StayIs DEF SendAgain, QuietDoes
  <2> QED
      BY <1>2, <1>3, <2>1
<1>7. ASSUME Goto(me, "awaitRequest", 0), Exchange(me, p, "none", <<>>) PROVE Does
  <2>1. QuietDoes(me, p, "none", <<>>, "awaitRequest")
      BY <1>4, <1>7 DEF QuietDoes, Goto
  <2> QED
      BY <1>2, <2>1
<1>8. ASSUME Stay(me), Exchange(me, p, "none", <<>>) PROVE Does
  <2>1. QuietDoes(me, p, "none", <<>>, pc[me])
      BY <1>4, <1>8, StayIs DEF QuietDoes
  <2> QED
      BY <1>2, <1>3, <2>1
<1>9. ASSUME Goto(me, "awaitAck2", 0), Exchange(me, p, Partner(me, p), Resent(me, p.frames))
      PROVE Does
  <2>1. QuietDoes(me, p, Partner(me, p), Resent(me, p.frames), "awaitAck2")
      BY <1>9, PlainTransfer DEF QuietDoes, Goto
  <2> QED
      BY <1>2, <2>1
<1> HIDE DEF Does
<1>10. Does
  <2>1. CASE AwaitDoneAck(me, p)
      BY <1>6, <1>7, <2>1 DEF AwaitDoneAck
  <2>2. CASE AwaitRequest(me, p)
      BY <1>5, <1>8, <1>9, <2>2 DEF AwaitRequest
  <2>3. CASE AwaitDoneAckAgain(me, p)
      BY <1>5, <1>6, <1>7, <2>3 DEF AwaitDoneAckAgain
  <2> QED
      BY <2>1, <2>2, <2>3 DEF SendFile
<1> USE DEF Does
<1> QED
    BY <1>1, <1>2, <1>3, <1>10, QuietIs

LEMMA ReportQuiet ==
    ASSUME SessionInv, NEW me \in Peers, NEW p, NEW missing, Report(me, p, missing)
    PROVE  /\ \E to, packets, place :
                  QuietDoes(me, p, to, packets, place) /\ place \in Calm
           /\ addr' = IF me = "server" /\ missing # {} THEN p.src ELSE addr
<1>1. {"final", "missing"} \subseteq Calm
    BY DEF Calm, Places, Before, Ended
<1> DEFINE last == IF missing = {} THEN Packet(me, "GET_ALL_FILE") ELSE Request(me, missing)
           packets == Append(Copies(me, "SEND_FILE_DONE_ACK"), last)
           place == IF missing = {} THEN "final" ELSE "missing"
<1>2. PlainPacket(me, last)
    BY DEF PlainPacket, Packet, Request, Told
<1>3. Plain(me, packets)
    BY <1>2, PlainCopies, PlainAppend DEF Told
<1>4. Exchange(me, p, Partner(me, p), packets) /\ pc' = [pc EXCEPT ![me] = place]
    BY DEF Report, Goto
<1>5. place \in Calm
    BY <1>1
<1> HIDE DEF packets, place
<1>6. QuietDoes(me, p, Partner(me, p), packets, place)
    BY <1>3, <1>4 DEF QuietDoes
<1> QED
    BY <1>5, <1>6 DEF Report

LEMMA ReceiveFileQuiet ==
    ASSUME SessionInv, NEW me \in Peers, NEW p, ReceiveFile(me, p)
    PROVE  Quiet(me, p)
<1>1. name' = name
    BY DEF ReceiveFile
<1>2. {"request", "done", "crashed", "gather", "missing", "answer", "collect", "final"}
         \subseteq Calm
    BY DEF Calm, Places, Before, Ended
<1>3. pc[me] \in {"gather", "missing", "answer", "collect", "final"}
    BY DEF ReceiveFile, Gather, RequestMissing, Collect, Final
<1>4. IF me = "server" THEN {from', addr'} \subseteq {from, addr, p.src}
      ELSE UNCHANGED <<from, addr>>
  <2>1. CASE Gather(me, p)
      BY <2>1 DEF Gather, GatherEnds, Report, Overwrite
  <2>2. CASE RequestMissing(me, p)
      BY <2>2 DEF RequestMissing, OverwriteCopy
  <2>3. CASE Collect(me, p)
      BY <2>3 DEF Collect, Report, Overwrite
  <2>4. CASE Final(me, p)
      BY <2>4 DEF Final, Overwrite, transferVars
  <2> QED
      BY <2>1, <2>2, <2>3, <2>4 DEF ReceiveFile
<1> DEFINE Does == \E to, packets, place :
                     /\ QuietDoes(me, p, to, packets, place)
                     /\ place \in Calm \cup {"exited"}
<1>5. /\ Plain(me, <<>>) /\ Plain(me, <<Packet(me, "GET_ALL_FILE")>>)
      /\ Plain(me, Copies(me, "SEND_FILE_DONE_ACK")) /\ Plain(me, <<Request(me, ask[me])>>)
    BY PlainNone, PlainOne, PlainCopies DEF PlainPacket, Packet, Request, Told
<1>6. ASSUME NEW missing, Report(me, p, missing) PROVE Does
    BY <1>6, ReportQuiet
<1>7. ASSUME NEW place \in {"exited", "crashed"}, Goto(me, place, 0),
             Exchange(me, p, Partner(me, p), Copies(me, "SEND_FILE_DONE_ACK"))
      PROVE Does
  <2>1. QuietDoes(me, p, Partner(me, p), Copies(me, "SEND_FILE_DONE_ACK"), place)
      BY <1>5, <1>7 DEF QuietDoes, Goto
  <2> QED
      BY <1>2, <2>1
<1>8. ASSUME Stay(me), Exchange(me, p, "none", <<>>) PROVE Does
  <2>1. QuietDoes(me, p, "none", <<>>, pc[me])
      BY <1>5, <1>8, StayIs DEF QuietDoes
  <2> QED
      BY <1>2, <1>3, <2>1
<1>9. ASSUME NEW place \in {"request", "done", "answer", "collect"},
             Goto(me, place, 0), Exchange(me, p, "none", <<>>)
      PROVE Does
  <2>1. QuietDoes(me, p, "none", <<>>, place)
      BY <1>5, <1>9 DEF QuietDoes, Goto
  <2> QED
      BY <1>2, <2>1
<1>10. ASSUME NEW packets, Plain(me, packets), StayCounting(me),
              Exchange(me, p, Partner(me, p), packets)
       PROVE Does
  <2>1. QuietDoes(me, p, Partner(me, p), packets, pc[me])
      BY <1>10 DEF QuietDoes, Goto, StayCounting
  <2> QED
      BY <1>2, <1>3, <2>1
<1> HIDE DEF Does
<1>11. Does
  <2>1. CASE Gather(me, p)
    <3>1. CASE GatherEnds(me, p)
      <4>1. CASE Report(me, p, Lacking(map[me]))
          BY <1>6, <4>1
      <4>2. CASE /\ Goto(me, IF Partner(me, p) = "none" THEN "exited" ELSE "crashed", 0)
                 /\ Exchange(me, p, Partner(me, p), Copies(me, "SEND_FILE_DONE_ACK"))
          BY <1>7, <4>2
      <4> QED
          BY <3>1, <4>1, <4>2 DEF GatherEnds
    <3>2. CASE Stay(me) /\ Exchange(me, p, "none", <<>>)
        BY <1>8, <3>2
    <3> QED
        BY <2>1, <3>1, <3>2 DEF Gather
  <2>2. CASE RequestMissing(me, p)
      BY <1>5, <1>9, <1>10, <2>2 DEF RequestMissing
  <2>3. CASE Collect(me, p)
      BY <1>6, <1>9, <2>3 DEF Collect
  <2>4. CASE Final(me, p)
    <3>1. CASE /\ Goto(me, IF me = "server" THEN "request" ELSE "done", 0)
               /\ Exchange(me, p, "none", <<>>)
        BY <1>9, <3>1
    <3>2. CASE StayCounting(me) /\ Exchange(me, p, Partner(me, p), <<Packet(me, "GET_ALL_FILE")>>)
        BY <1>5, <1>10, <3>2
    <3> QED
        BY <2>4, <3>1, <3>2 DEF Final
  <2> QED
      BY <2>1, <2>2, <2>3, <2>4 DEF ReceiveFile
<1> USE DEF Does
<1> QED
    BY <1>1, <1>2, <1>3, <1>4, <1>11, QuietIs

(***************************************************************************)
(* The code of the requests and the headers.                               *)
(***************************************************************************)
LEMMA FirstIs ==
    ASSUME SessionInv, NEW me \in Peers, NEW p, Given(me, p), p.type # "TIMEOUT"
    PROVE  1 \in DOMAIN q[me] /\ p = q[me][1] /\ Taken(p) = 1
<1>1. q[me] # <<>> /\ p = Head(q[me]) /\ IsSeq(q[me])
    BY DEF Given, Packets, SessionInv, SessionTypes
<1> QED
    BY <1>1, TailIs DEF Taken

FromClient(c, packets) ==
    /\ IsSeq(packets)
    /\ \A i \in DOMAIN packets :
          /\ packets[i].src = c
          /\ packets[i].type # "SEND_FILE_STATUS_ACK"
          /\ packets[i].type = "DOWNLOAD_FILE_REQUEST" => packets[i].name = FileOf[c]

LEMMA FromClientIs ==
    ASSUME NEW c \in Clients
    PROVE  /\ \A packets : Plain(c, packets) => FromClient(c, packets)
           /\ \A n : FromClient(c, <<NamePacket(c, "SEND_FILE_STATUS", n)>>)
           /\ FromClient(c, <<NamePacket(c, "DOWNLOAD_FILE_REQUEST", FileOf[c])>>)
           /\ FromClient(c, [i \in 1 .. 2 |-> NamePacket(c, "DOWNLOAD_FILE_REQUEST", FileOf[c])])
<1>1. \A packets : Plain(c, packets) => FromClient(c, packets)
    BY DEF Plain, PlainPacket, FromClient, Told
<1>2. \A n : FromClient(c, <<NamePacket(c, "SEND_FILE_STATUS", n)>>)
    BY OneIsSeq DEF FromClient, NamePacket
<1>3. FromClient(c, <<NamePacket(c, "DOWNLOAD_FILE_REQUEST", FileOf[c])>>)
    BY OneIsSeq DEF FromClient, NamePacket
<1>4. FromClient(c, [i \in 1 .. 2 |-> NamePacket(c, "DOWNLOAD_FILE_REQUEST", FileOf[c])])
  <2> DEFINE r == NamePacket(c, "DOWNLOAD_FILE_REQUEST", FileOf[c])
             s == [i \in 1 .. 2 |-> r]
  <2>1. s = [i \in 1 .. 2 |-> s[i]] /\ \A i \in 1 .. 2 : s[i] = r
      OBVIOUS
  <2>2. r.src = c /\ r.type = "DOWNLOAD_FILE_REQUEST" /\ r.name = FileOf[c]
      BY DEF NamePacket
  <2> HIDE DEF r, s
  <2>3. IsSeq(s) /\ DOMAIN s = 1 .. 2
      BY <2>1, IndexedIsSeq
  <2>4. FromClient(c, s)
      BY <2>1, <2>2, <2>3 DEF FromClient
  <2> QED
      BY <2>4 DEF s, r
<1> QED
    BY <1>1, <1>2, <1>3, <1>4

LEMMA ClientIs ==
    ASSUME SessionInv, NEW c \in Clients, NEW p, Given(c, p),
           NEW to \in {"server", "none"}, NEW packets, FromClient(c, packets),
           Exchange(c, p, to, packets),
           NEW place \in Places, pc' = [pc EXCEPT ![c] = place],
           place \in Before => pc[c] \in Before,
           place = "header" =>
               \/ pc[c] = "header"
               \/ pc[c] \in Before /\ p.type # "TIMEOUT" /\ IsAck(p),
           UNCHANGED <<name, from, addr>>
    PROVE  ClientStep(c)
<1>1. c \in Peers /\ to # c
    BY ConstantsAre, PeersAre
<1>2. Move(c, Taken(p), to, packets)
    BY <1>1, ExchangeIs DEF FromClient, Given, SessionInv
<1>3. Taken(p) \in {0, 1}
    BY DEF Taken
<1>4. place = "header" =>
          \/ pc[c] = "header"
          \/ pc[c] \in Before /\ Taken(p) = 1 /\ 1 \in DOMAIN q[c] /\ IsAck(q[c][1])
    BY <1>1, FirstIs
<1>5. ClientDoes(c, Taken(p), to, packets, place)
    BY <1>2, <1>4 DEF ClientDoes, FromClient
<1> QED
    BY <1>3, <1>5 DEF ClientStep

LEMMA CStartIs ==
    ASSUME SessionInv, NEW c \in Clients, CStart(c)
    PROVE  ClientStep(c)
<1> DEFINE type == CASE Command[c] = "upload" -> "UPLOAD_REQUEST"
                     [] Command[c] = "download" -> "DOWNLOAD_REQUEST"
                     [] Command[c] = "message" -> "MESSAGE_REQUEST"
<1>1. Exchange(c, TimedOut("server"), "server", <<Packet(c, type)>>)
    BY DEF CStart
<1>2. Command[c] \in {"upload", "download", "message"}
  <2>1. Command \in [Clients -> {"upload", "download", "message"}]
      BY SessionAssumption, Zenon
  <2> QED
      BY <2>1
<1>3. type \notin Told
    BY <1>2 DEF Told
<1> HIDE DEF type
<1>4. FromClient(c, <<Packet(c, type)>>)
  <2>1. PlainPacket(c, Packet(c, type))
      BY <1>3 DEF PlainPacket, Packet
  <2> QED
      BY <2>1, PlainOne, FromClientIs
<1>5. Given(c, TimedOut("server"))
    BY ConstantsAre DEF Given, Packets, TimedOut, Packet
<1>6. /\ pc' = [pc EXCEPT ![c] = "reply"] /\ pc[c] = "start"
      /\ UNCHANGED <<name, from, addr>>
    BY DEF CStart, Goto, sessionVars
<1>7. "reply" \in Places /\ pc[c] \in Before /\ "reply" # "header"
    BY <1>6 DEF Places, Before
<1> QED
    BY <1>1, <1>4, <1>5, <1>6, <1>7, ClientIs

LEMMA SendHeaderClient ==
    ASSUME SessionInv, NEW c \in Clients, NEW p, Given(c, p), send_header(c, p)
    PROVE  ClientStep(c)
<1>1. c \in Peers /\ c # "server"
    BY ConstantsAre, PeersAre
<1>2. UNCHANGED <<name, from, addr>>
    BY <1>1 DEF send_header, sessionVars, OverwriteCopy
<1>3. {"exited", "awaitAck", "status"} \subseteq Places \ (Before \cup {"header"})
    BY DEF Places, Before, Ended
<1>4. CASE Goto(c, "exited", 0) /\ Exchange(c, p, "none", <<>>)
  <2>1. FromClient(c, <<>>)
      BY PlainNone, FromClientIs
  <2>2. pc' = [pc EXCEPT ![c] = "exited"]
      BY <1>4 DEF Goto
  <2> QED
      BY <1>2, <1>3, <1>4, <2>1, <2>2, ClientIs
<1>5. CASE /\ Goto(c, "awaitAck", 0)
           /\ Exchange(c, p, IF c = "server" THEN from ELSE "server", WholeFile(c))
  <2>1. FromClient(c, WholeFile(c))
      BY <1>1, PlainTransfer, FromClientIs
  <2>2. pc' = [pc EXCEPT ![c] = "awaitAck"] /\ Exchange(c, p, "server", WholeFile(c))
      BY <1>1, <1>5 DEF Goto
  <2> QED
      BY <1>2, <1>3, <2>1, <2>2, ClientIs
<1>6. CASE /\ StayCounting(c) /\ pc[c] = "status"
           /\ Exchange(c, p, Partner(c, p), <<NamePacket(c, "SEND_FILE_STATUS", name[c])>>)
  <2>1. FromClient(c, <<NamePacket(c, "SEND_FILE_STATUS", name[c])>>)
      BY FromClientIs
  <2>2. /\ pc' = [pc EXCEPT ![c] = "status"]
        /\ Exchange(c, p, "server", <<NamePacket(c, "SEND_FILE_STATUS", name[c])>>)
      BY <1>1, <1>6 DEF StayCounting, Goto, Partner
  <2> QED
      BY <1>2, <1>3, <2>1, <2>2, ClientIs
<1> QED
    BY <1>4, <1>5, <1>6 DEF send_header

LEMMA ReceiveHeaderClient ==
    ASSUME SessionInv, NEW c \in Clients, NEW p, Given(c, p), receive_header(c, p)
    PROVE  ClientStep(c) \/ HeaderTaken(c)
<1>1. c \in Peers /\ c # "server" /\ "server" \in Peers
    BY ConstantsAre, PeersAre
<1>2. UNCHANGED <<from, addr>> /\ pc[c] = "header"
    BY DEF receive_header
<1>3. FromClient(c, <<>>)
    BY PlainNone, FromClientIs
<1>4. CASE Goto(c, "exited", 0) /\ Exchange(c, p, "none", <<>>) /\ name' = name
  <2>1. pc' = [pc EXCEPT ![c] = "exited"] /\ "exited" \in Places /\ "exited" \notin Before
      BY <1>4 DEF Goto, Places, Before, Ended
  <2> QED
      BY <1>2, <1>3, <1>4, <2>1, ClientIs
<1>5. CASE StayCounting(c) /\ Exchange(c, p, "none", <<>>) /\ name' = name
  <2>1. pc' = [pc EXCEPT ![c] = "header"] /\ "header" \in Places /\ "header" \notin Before
      BY <1>2, <1>5 DEF StayCounting, Goto, Places, Before
  <2> QED
      BY <1>2, <1>3, <1>5, <2>1, ClientIs
<1>6. CASE /\ p.type = "SEND_FILE_STATUS"
           /\ name' = [name EXCEPT ![c] = p.name]
           /\ Goto(c, "gather", 0)
           /\ Exchange(c, p, Partner(c, p), <<NamePacket(c, "SEND_FILE_STATUS_ACK", p.name)>>)
  <2>1. 1 \in DOMAIN q[c] /\ p = q[c][1] /\ Taken(p) = 1
      BY <1>1, <1>6, FirstIs
  <2>2. IsSeq(<<NamePacket(c, "SEND_FILE_STATUS_ACK", p.name)>>)
      BY OneIsSeq
  <2>3. Move(c, 1, "server", <<NamePacket(c, "SEND_FILE_STATUS_ACK", p.name)>>)
      BY <1>1, <1>6, <2>1, <2>2, ExchangeIs DEF Partner, Given, SessionInv
  <2> QED
      BY <1>2, <1>6, <2>1, <2>3 DEF HeaderTaken, Goto
<1> QED
    BY <1>4, <1>5, <1>6 DEF receive_header

LEMMA UserRequestIs ==
    ASSUME SessionInv, NEW c \in Clients, NEW p, Given(c, p), send_user_request(c, p)
    PROVE  ClientStep(c)
<1>1. UNCHANGED <<name, from, addr>> /\ pc[c] = "reply"
    BY DEF send_user_request
<1>2. pc[c] \in Before
    BY <1>1 DEF Before
<1>3. {"done", "nofile", "status", "fileAnswer"} \subseteq Places \ {"header"}
    BY DEF Places, Ended
<1>4. PICK place \in {"done", "nofile", "status", "fileAnswer"}, to \in {"server", "none"} :
        \E packets : /\ FromClient(c, packets) /\ Exchange(c, p, to, packets)
                     /\ pc' = [pc EXCEPT ![c] = place]
  <2>1. FromClient(c, <<>>)
      BY PlainNone, FromClientIs
  <2>2. CASE Goto(c, "done", 0) /\ Exchange(c, p, "none", <<>>)
      BY <2>1, <2>2 DEF Goto
  <2>3. CASE Goto(c, "nofile", 0) /\ Exchange(c, p, "none", <<>>)
      BY <2>1, <2>3 DEF Goto
  <2>4. CASE /\ Goto(c, "status", 0)
             /\ Exchange(c, p, "server", <<NamePacket(c, "SEND_FILE_STATUS", FileOf[c])>>)
      BY <2>4, FromClientIs DEF Goto
  <2>5. CASE /\ Goto(c, "fileAnswer", 0)
             /\ Exchange(c, p, "server",
                   [i \in 1 .. 2 |-> NamePacket(c, "DOWNLOAD_FILE_REQUEST", FileOf[c])])
      BY <2>5, FromClientIs DEF Goto
  <2> QED
      BY <2>2, <2>3, <2>4, <2>5 DEF send_user_request, Proceed
<1>5. PICK packets : /\ FromClient(c, packets) /\ Exchange(c, p, to, packets)
                     /\ pc' = [pc EXCEPT ![c] = place]
    BY <1>4
<1> QED
    BY <1>1, <1>2, <1>3, <1>5, ClientIs

LEMMA FileRequestIs ==
    ASSUME SessionInv, NEW c \in Clients, NEW p, Given(c, p), request_to_download_file(c, p)
    PROVE  ClientStep(c)
<1>1. UNCHANGED <<name, from, addr>> /\ pc[c] = "fileAnswer"
    BY DEF request_to_download_file, sessionVars
<1>2. pc[c] \in Before
    BY <1>1 DEF Before
<1>3. {"exited", "header", "fileAnswer"} \subseteq Places /\ "header" \notin Before
    BY DEF Places, Before, Ended
<1>4. FromClient(c, <<>>)
    BY PlainNone, FromClientIs
<1>5. CASE Goto(c, "exited", 0) /\ Exchange(c, p, "none", <<>>)
  <2>1. pc' = [pc EXCEPT ![c] = "exited"]
      BY <1>5 DEF Goto
  <2> QED
      BY <1>1, <1>2, <1>3, <1>4, <1>5, <2>1, ClientIs
<1>6. CASE /\ p.type = "DOWNLOAD_FILE_REQUEST_ACK"
           /\ Goto(c, "header", 0) /\ Exchange(c, p, "none", <<>>)
  <2>1. pc' = [pc EXCEPT ![c] = "header"]
      BY <1>6 DEF Goto
  <2>2. p.type # "TIMEOUT" /\ IsAck(p)
      BY <1>6 DEF IsAck
  <2> QED
      BY <1>1, <1>2, <1>3, <1>4, <1>6, <2>1, <2>2, ClientIs
<1>7. CASE /\ StayCounting(c)
           /\ Exchange(c, p, "server", <<NamePacket(c, "DOWNLOAD_FILE_REQUEST", FileOf[c])>>)
  <2>1. pc' = [pc EXCEPT ![c] = "fileAnswer"]
      BY <1>1, <1>7 DEF StayCounting, Goto
  <2>2. FromClient(c, <<NamePacket(c, "DOWNLOAD_FILE_REQUEST", FileOf[c])>>)
      BY FromClientIs
  <2> QED
      BY <1>1, <1>2, <1>3, <1>7, <2>1, <2>2, ClientIs
<1> QED
    BY <1>5, <1>6, <1>7 DEF request_to_download_file

FromServer(packets) ==
    /\ IsSeq(packets)
    /\ \A i \in DOMAIN packets :
          /\ ~ IsAck(packets[i])
          /\ packets[i].type = "SEND_FILE_STATUS" =>
                pc["server"] = "status" /\ packets[i].name = name["server"]

LEMMA FromServerIs ==
    /\ \A packets : Plain("server", packets) => FromServer(packets)
    /\ \A n : FromServer(<<NamePacket("server", "SEND_FILE_STATUS_ACK", n)>>)
    /\ pc["server"] = "status" =>
          FromServer(<<NamePacket("server", "SEND_FILE_STATUS", name["server"])>>)
<1>1. \A packets : Plain("server", packets) => FromServer(packets)
    BY DEF Plain, PlainPacket, FromServer, Told, IsAck
<1>2. \A n : FromServer(<<NamePacket("server", "SEND_FILE_STATUS_ACK", n)>>)
    BY OneIsSeq DEF FromServer, NamePacket, IsAck
<1>3. pc["server"] = "status" =>
          FromServer(<<NamePacket("server", "SEND_FILE_STATUS", name["server"])>>)
    BY OneIsSeq DEF FromServer, NamePacket, IsAck
<1> QED
    BY <1>1, <1>2, <1>3

LEMMA ServerIs ==
    ASSUME SessionInv, NEW p, Given("server", p),
           NEW to \in Clients \cup {"none"}, NEW packets, FromServer(packets),
           Exchange("server", p, to, packets),
           NEW place \in Places, pc' = [pc EXCEPT !["server"] = place],
           pc["server"] \notin Ended,
           place = "status" => pc["server"] = "status",
           pc["server"] = "status" =>
               \/ place \in {"status", "exited"}
               \/ p.type = "SEND_FILE_STATUS_ACK",
           \/ name' = name
           \/ /\ pc["server"] # "status"
              /\ \E n : name' = [name EXCEPT !["server"] = n],
           {from', addr'} \subseteq {from, addr, p.src}
    PROVE  ServerStep
<1>1. "server" \in Peers /\ "server" \notin Clients /\ to # "server"
    BY ConstantsAre, PeersAre
<1>2. Move("server", Taken(p), to, packets)
    BY <1>1, ExchangeIs DEF FromServer, Given, SessionInv
<1>3. Taken(p) \in {0, 1}
    BY DEF Taken
<1>4. p.type = "SEND_FILE_STATUS_ACK" => Taken(p) = 1 /\ Confirms(1)
    BY <1>1, FirstIs DEF Confirms
<1>5. pc["server"] # "exited"
    BY DEF Ended
<1>6. place = "exited" => DOMAIN q'["server"] = {}
  <2>1. SUFFICES ASSUME place = "exited" PROVE DOMAIN q'["server"] = {}
      OBVIOUS
  <2>2. pc'["server"] = place
      BY <1>1 DEF SessionInv, SessionTypes
  <2>3. pc'["server"] \in Ended
      BY <2>1, <2>2 DEF Ended
  <2> QED
      BY <1>1, <2>3, EndEmpties DEF SessionInv
<1>7. /\ DOMAIN name' = Peers
      /\ \A c \in Clients : name'[c] = name[c]
      /\ pc["server"] = "status" => name'["server"] = name["server"]
  <2>1. DOMAIN name = Peers /\ Clients \subseteq Peers
      BY PeersAre DEF SessionInv, SessionTypes
  <2>2. CASE name' = name
      BY <2>1, <2>2
  <2>3. CASE /\ pc["server"] # "status"
             /\ \E n : name' = [name EXCEPT !["server"] = n]
      BY <1>1, <2>1, <2>3
  <2> QED
      BY <2>2, <2>3
<1>8. {from', addr'} \subseteq Clients \cup {"none"}
    BY DEF SessionInv, FromClients, Given
<1>9. ServerDoes(Taken(p), to, packets, place)
    BY <1>2, <1>4, <1>5, <1>6, <1>7, <1>8 DEF ServerDoes, FromServer
<1> QED
    BY <1>3, <1>9 DEF ServerStep

LEMMA SendHeaderServer ==
    ASSUME SessionInv, NEW p, Given("server", p), send_header("server", p)
    PROVE  ServerStep
<1>1. /\ pc["server"] = "status" /\ pc["server"] \notin Ended
      /\ name' = name /\ {from', addr'} \subseteq {from, addr, p.src}
    BY DEF send_header, sessionVars, OverwriteCopy, Ended
<1>2. {"exited", "awaitAck", "status"} \subseteq Places
    BY DEF Places, Ended
<1>3. "server" \in Peers
    BY PeersAre
<1>4. CASE Goto("server", "exited", 0) /\ Exchange("server", p, "none", <<>>)
  <2>1. FromServer(<<>>)
      BY PlainNone, FromServerIs
  <2>2. pc' = [pc EXCEPT !["server"] = "exited"]
      BY <1>4 DEF Goto
  <2> QED
      BY <1>1, <1>2, <1>4, <2>1, <2>2, ServerIs
<1>5. CASE /\ p.type = "SEND_FILE_STATUS_ACK"
           /\ Goto("server", "awaitAck", 0)
           /\ Exchange("server", p, from, WholeFile("server"))
  <2>1. FromServer(WholeFile("server"))
      BY <1>3, PlainTransfer, FromServerIs
  <2>2. pc' = [pc EXCEPT !["server"] = "awaitAck"] /\ from \in Clients \cup {"none"}
      BY <1>5 DEF Goto, SessionInv, FromClients
  <2> QED
      BY <1>1, <1>2, <1>5, <2>1, <2>2, ServerIs
<1>6. CASE /\ StayCounting("server")
           /\ Exchange("server", p, Partner("server", p),
                  <<NamePacket("server", "SEND_FILE_STATUS", name["server"])>>)
  <2>1. FromServer(<<NamePacket("server", "SEND_FILE_STATUS", name["server"])>>)
      BY <1>1, FromServerIs
  <2>2. pc' = [pc EXCEPT !["server"] = "status"]
      BY <1>1, <1>6 DEF StayCounting, Goto
  <2>3. Partner("server", p) \in Clients \cup {"none"}
      BY DEF Partner, Given
  <2> QED
      BY <1>1, <1>2, <1>6, <2>1, <2>2, <2>3, ServerIs
<1> QED
    BY <1>4, <1>5, <1>6 DEF send_header

LEMMA ReceiveHeaderServer ==
    ASSUME SessionInv, NEW p, Given("server", p), receive_header("server", p)
    PROVE  ServerStep
<1>1. /\ pc["server"] = "header" /\ pc["server"] \notin Ended
      /\ {from', addr'} \subseteq {from, addr, p.src}
    BY DEF receive_header, Ended
<1>2. {"exited", "header", "gather"} \subseteq Places \ {"status"}
    BY DEF Places, Ended
<1>3. FromServer(<<>>)
    BY PlainNone, FromServerIs
<1>4. CASE /\ Goto("server", "exited", 0) /\ Exchange("server", p, "none", <<>>)
           /\ name' = name
  <2>1. pc' = [pc EXCEPT !["server"] = "exited"]
      BY <1>4 DEF Goto
  <2> QED
      BY <1>1, <1>2, <1>3, <1>4, <2>1, ServerIs
<1>5. CASE /\ name' = [name EXCEPT !["server"] = p.name]
           /\ Goto("server", "gather", 0)
           /\ Exchange("server", p, Partner("server", p),
                  <<NamePacket("server", "SEND_FILE_STATUS_ACK", p.name)>>)
  <2>1. pc' = [pc EXCEPT !["server"] = "gather"]
      BY <1>5 DEF Goto
  <2>2. FromServer(<<NamePacket("server", "SEND_FILE_STATUS_ACK", p.name)>>)
      BY FromServerIs
  <2>3. Partner("server", p) \in Clients \cup {"none"}
      BY DEF Partner, Given
  <2>4. \E n : name' = [name EXCEPT !["server"] = n]
      BY <1>5
  <2> QED
      BY <1>1, <1>2, <1>5, <2>1, <2>2, <2>3, <2>4, ServerIs
<1>6. CASE /\ StayCounting("server") /\ Exchange("server", p, "none", <<>>)
           /\ name' = name
  <2>1. pc' = [pc EXCEPT !["server"] = "header"]
      BY <1>1, <1>6 DEF StayCounting, Goto
  <2> QED
      BY <1>1, <1>2, <1>3, <1>6, <2>1, ServerIs
<1> QED
    BY <1>4, <1>5, <1>6 DEF receive_header

LEMMA ServeIs ==
    ASSUME SessionInv, NEW p, Given("server", p), receive_user_request(p)
    PROVE  ServerStep
<1>1. /\ pc["server"] = "request" /\ pc["server"] \notin Ended
      /\ name' = name /\ {from', addr'} \subseteq {from, addr, p.src}
    BY DEF receive_user_request, sessionVars, Ended
<1>2. {"fileRequest", "header", "request"} \subseteq Places \ {"status"}
    BY DEF Places
<1>3. p.src \in Clients \cup {"none"} /\ "server" \in Peers
    BY PeersAre DEF Given
<1>4. /\ FromServer(<<>>)
      /\ FromServer(<<Packet("server", "DOWNLOAD_REQUEST_ACK")>>)
      /\ FromServer(<<Packet("server", "UPLOAD_REQUEST_ACK")>>)
      /\ FromServer(<<Packet("server", "MESSAGE_REQUEST_ACK")>>)
    BY PlainNone, PlainOne, FromServerIs DEF PlainPacket, Packet, Told
<1>5. Stay("server") => pc' = [pc EXCEPT !["server"] = "request"]
    BY <1>1, <1>3, StayIs
<1>6. PICK place \in {"fileRequest", "header", "request"}, to \in {p.src, "none"} :
        \E packets : /\ FromServer(packets) /\ Exchange("server", p, to, packets)
                     /\ pc' = [pc EXCEPT !["server"] = place]
    BY <1>4, <1>5 DEF receive_user_request, Serve, Goto
<1>7. PICK packets : /\ FromServer(packets) /\ Exchange("server", p, to, packets)
                     /\ pc' = [pc EXCEPT !["server"] = place]
    BY <1>6
<1> QED
    BY <1>1, <1>2, <1>3, <1>7, ServerIs

LEMMA ServeFileRequestIs ==
    ASSUME SessionInv, NEW p, Given("server", p), receive_user_download_file_request(p)
    PROVE  ServerStep \/ FileRequested
<1>1. /\ pc["server"] = "fileRequest" /\ pc["server"] \notin Ended /\ from' = p.src
    BY DEF receive_user_download_file_request, Ended
<1>2. {"fileRequest", "request"} \subseteq Places \ {"status"}
    BY DEF Places
<1>3. FromServer(<<>>)
    BY PlainNone, FromServerIs
<1>4. "server" \in Peers /\ p.src \in Clients \cup {"none"} /\ p.src # "server"
    BY ConstantsAre, PeersAre DEF Given
<1>5. CASE /\ p.type = "DOWNLOAD_FILE_REQUEST"
           /\ name' = [name EXCEPT !["server"] = p.name]
           /\ addr' = p.src
           /\ Goto("server", "status", 0)
           /\ Exchange("server", p, p.src,
                  <<NamePacket("server", "DOWNLOAD_FILE_REQUEST_ACK", p.name),
                    NamePacket("server", "SEND_FILE_STATUS", p.name)>>)
  <2> DEFINE first == NamePacket("server", "DOWNLOAD_FILE_REQUEST_ACK", p.name)
             second == NamePacket("server", "SEND_FILE_STATUS", p.name)
  <2>1. 1 \in DOMAIN q["server"] /\ p = q["server"][1] /\ Taken(p) = 1
      BY <1>4, <1>5, FirstIs
  <2>2. IsSeq(<<first, second>>)
    <3> HIDE DEF first, second
    <3>1. <<first, second>> \in Seq({first, second})
        OBVIOUS
    <3> QED
        BY <3>1, SeqOfSome
  <2>3. Exchange("server", p, p.src, <<first, second>>)
      BY <1>5
  <2> HIDE DEF first, second
  <2>4. Move("server", 1, p.src, <<first, second>>)
      BY <1>4, <2>1, <2>2, <2>3, ExchangeIs DEF Given, SessionInv
  <2> USE DEF first, second
  <2> QED
      BY <1>1, <1>5, <2>1, <2>4 DEF FileRequested, Goto
<1>6. CASE /\ name' = [name EXCEPT !["server"] = p.name]
           /\ Goto("server", "request", 0)
           /\ Exchange("server", p, "none", <<>>)
           /\ addr' = addr
  <2>1. pc' = [pc EXCEPT !["server"] = "request"] /\ {from', addr'} \subseteq {from, addr, p.src}
      BY <1>1, <1>6 DEF Goto
  <2>2. \E n : name' = [name EXCEPT !["server"] = n]
      BY <1>6
  <2> QED
      BY <1>1, <1>2, <1>3, <1>6, <2>1, <2>2, ServerIs
<1>7. CASE Stay("server") /\ Exchange("server", p, "none", <<>>) /\ UNCHANGED <<name, addr>>
  <2>1. /\ pc' = [pc EXCEPT !["server"] = "fileRequest"]
        /\ {from', addr'} \subseteq {from, addr, p.src}
      BY <1>1, <1>4, <1>7, StayIs
  <2> QED
      BY <1>1, <1>2, <1>3, <1>7, <2>1, ServerIs
<1> QED
    BY <1>5, <1>6, <1>7 DEF receive_user_download_file_request

LEMMA LoseIs ==
    ASSUME SessionInv, NEW me \in Peers, Lose(me)
    PROVE  ServerStep \/ \E c \in Clients : ClientStep(c)
<1>1. q[me] # <<>> /\ q' = [q EXCEPT ![me] = Tail(@)]
    BY DEF Lose
<1>2. IsSeq(q[me]) /\ DOMAIN q = Peers
    BY DEF SessionInv, SessionTypes
<1>3. /\ IsSeq(Tail(q[me]))
      /\ \A i \in DOMAIN Tail(q[me]) : i + 1 \in DOMAIN q[me] /\ Tail(q[me])[i] = q[me][i + 1]
    BY <1>1, <1>2, TailIs
<1>4. ~ Live("none") /\ "none" # me
    BY PeersAre DEF Live
<1>5. q' = IF Live("none")
           THEN [[q EXCEPT ![me] = Tail(q[me])] EXCEPT !["none"] = Fitting(@ \o <<>>)]
           ELSE [q EXCEPT ![me] = Tail(q[me])]
    BY <1>1, <1>4
<1>6. IsSeq(<<>>) /\ DOMAIN <<>> = {}
    BY PlainNone DEF Plain
<1> DEFINE rest == Tail(q[me])
<1>7. Move(me, 1, "none", <<>>)
  <2>1. IsSeq(rest) /\ \A i \in DOMAIN rest : i + 1 \in DOMAIN q[me] /\ rest[i] = q[me][i + 1]
      BY <1>3
  <2>2. q' = IF Live("none")
             THEN [[q EXCEPT ![me] = rest] EXCEPT !["none"] = Fitting(@ \o <<>>)]
             ELSE [q EXCEPT ![me] = rest]
      BY <1>5
  <2> HIDE DEF rest
  <2> QED
      BY <1>4, <1>6, <2>1, <2>2, QueuesAre DEF SessionInv
<1>8. /\ pc' = [pc EXCEPT ![me] = pc[me]] /\ pc[me] \in Places
      /\ UNCHANGED <<name, from, addr>>
    BY DEF Lose, sessionVars, SessionInv, SessionTypes
<1>9. CASE me = "server"
  <2>1. ServerDoes(1, "none", <<>>, pc["server"])
    <3>1. {from', addr'} \subseteq Clients \cup {"none"}
        BY <1>8 DEF SessionInv, FromClients
    <3>2. DOMAIN name' = Peers
        BY <1>8 DEF SessionInv, SessionTypes
    <3> QED
        BY <1>6, <1>7, <1>8, <1>9, <3>1, <3>2 DEF ServerDoes
  <2> QED
      BY <2>1 DEF ServerStep
<1>10. CASE me \in Clients
  <2>1. ClientDoes(me, 1, "none", <<>>, pc[me])
      BY <1>6, <1>7, <1>8 DEF ClientDoes
  <2> QED
      BY <1>10, <2>1 DEF ClientStep
<1> QED
    BY <1>9, <1>10, PeersAre

(***************************************************************************)
(* The invariant, and the property.                                        *)
(***************************************************************************)
Step == \/ \E c \in Clients : ClientStep(c) \/ HeaderTaken(c)
        \/ ServerStep
        \/ FileRequested

LEMMA CodeIs ==
    ASSUME SessionInv, NEW me \in Peers, NEW p, Given(me, p), Code(me, p)
    PROVE  Step
<1>1. CASE me = "server"
  <2>1. CASE SendFile(me, p) \/ ReceiveFile(me, p)
      BY <1>1, <2>1, SendFileQuiet, ReceiveFileQuiet, QuietServer DEF Step
  <2>2. CASE send_header(me, p) \/ receive_header(me, p)
      BY <1>1, <2>2, SendHeaderServer, ReceiveHeaderServer DEF Step
  <2>3. CASE receive_user_request(p) \/ receive_user_download_file_request(p)
      BY <1>1, <2>3, ServeIs, ServeFileRequestIs DEF Step
  <2> QED
      BY <1>1, <2>1, <2>2, <2>3 DEF Code
<1>2. CASE me # "server"
  <2>1. me \in Clients
      BY <1>2, PeersAre
  <2>2. CASE SendFile(me, p) \/ ReceiveFile(me, p)
      BY <2>1, <2>2, SendFileQuiet, ReceiveFileQuiet, QuietClient DEF Step
  <2>3. CASE send_header(me, p) \/ receive_header(me, p)
      BY <2>1, <2>3, SendHeaderClient, ReceiveHeaderClient DEF Step
  <2>4. CASE send_user_request(me, p) \/ request_to_download_file(me, p)
      BY <2>1, <2>4, UserRequestIs, FileRequestIs DEF Step
  <2> QED
      BY <1>2, <2>2, <2>3, <2>4 DEF Code
<1> QED
    BY <1>1, <1>2

LEMMA NextIs ==
    ASSUME SessionInv, Next
    PROVE  Step
<1>1. ASSUME NEW c \in Clients, CStart(c) PROVE Step
    BY <1>1, CStartIs DEF Step
<1>2. ASSUME NEW me \in Peers, Receive(me) PROVE Step
  <2> DEFINE p == Head(q[me])
  <2>1. q[me] # <<>> /\ Code(me, p)
      BY <1>2 DEF Receive
  <2>2. 1 \in DOMAIN q[me] /\ p = q[me][1]
      BY <2>1, TailIs DEF SessionInv, SessionTypes
  <2>3. me = "server" => p.src \in Clients
      BY <2>2 DEF SessionInv, FromClients
  <2>4. Given(me, p)
      BY <2>1, <2>3 DEF Given, Packets
  <2> HIDE DEF p
  <2> QED
      BY <2>1, <2>4, CodeIs
<1>3. ASSUME NEW me \in Peers, Timeout(me) PROVE Step
  <2> DEFINE a == CASE me # "server" -> "server"
                    [] me = "server" /\ pc[me] \in {"status", "missing"} -> addr
                    [] me = "server" /\ pc[me] \notin {"status", "missing"} -> from
  <2>1. Code(me, TimedOut(a))
      BY <1>3 DEF Timeout
  <2>2. me = "server" => a \in {from, addr}
    <3>1. CASE me = "server" /\ pc[me] \in {"status", "missing"}
        BY <3>1
    <3>2. CASE me = "server" /\ pc[me] \notin {"status", "missing"}
        BY <3>2
    <3> QED
        BY <3>1, <3>2
  <2> HIDE DEF a
  <2>3. TimedOut(a).type = "TIMEOUT" /\ TimedOut(a).src = a
      BY DEF TimedOut, Packet
  <2>4. Given(me, TimedOut(a))
      BY <2>2, <2>3 DEF Given, Packets, SessionInv, FromClients
  <2> QED
      BY <2>1, <2>4, CodeIs
<1>4. ASSUME NEW me \in Peers, Lose(me) PROVE Step
    BY <1>4, LoseIs DEF Step
<1> QED
    BY <1>1, <1>2, <1>3, <1>4 DEF Next

LEMMA SessionInitially == Init => SessionInv
<1>1. SUFFICES ASSUME Init PROVE SessionInv
    OBVIOUS
<1>2. Peers = Clients \cup {"server"} /\ "server" \in Peers /\ "server" \notin Clients
    BY ConstantsAre, PeersAre
<1>3. SessionTypes
  <2>1. pc \in [Peers -> Places] /\ DOMAIN name = Peers /\ DOMAIN q = Peers
      BY <1>1 DEF Init, Places
  <2>2. \A a \in Peers : q[a] = <<>>
      BY <1>1 DEF Init
  <2>3. IsSeq(<<>>)
      BY PlainNone DEF Plain
  <2> QED
      BY <2>1, <2>2, <2>3 DEF SessionTypes
<1>4. \A a \in Peers : DOMAIN q[a] = {}
  <2>1. \A a \in Peers : q[a] = <<>>
      BY <1>1 DEF Init
  <2>2. DOMAIN <<>> = {}
      OBVIOUS
  <2> QED
      BY <2>1, <2>2
<1>5. \A c \in Clients : pc[c] = "start" /\ name[c] = FileOf[c]
    BY <1>1, <1>2 DEF Init
<1>6. \A c \in Clients : ~ Waiting(c)
    BY <1>2, <1>4, <1>5 DEF Waiting
<1>7. FromClients
    BY <1>1, <1>2, <1>4 DEF Init, FromClients
<1> QED
    BY <1>2, <1>3, <1>4, <1>5, <1>6, <1>7
       DEF SessionInv, RequestsOwn, ServesWaiting, OneWaits, ConfirmedOnce, HeadersOwn, OwnNames

LEMMA SessionStutters == SessionInv /\ UNCHANGED vars => SessionInv'
<1>1. SUFFICES ASSUME SessionInv, UNCHANGED vars PROVE SessionInv'
    OBVIOUS
<1>2. UNCHANGED <<pc, q, name, from, addr>>
    BY <1>1 DEF vars
<1> QED
    BY <1>1, <1>2 DEF SessionInv, SessionTypes, FromClients, RequestsOwn, ServesWaiting,
         OneWaits, ConfirmedOnce, HeadersOwn, OwnNames, Waiting, Confirms, Takes

\* The sessions keep the invariant, for any clients, requests, files, order of
\* starting and loss.
THEOREM SessionInductive == Spec => []SessionInv
<1>1. SessionInv /\ [Next]_vars => SessionInv'
  <2>1. SUFFICES ASSUME SessionInv, [Next]_vars PROVE SessionInv'
      OBVIOUS
  <2>2. CASE Next
      BY <2>1, <2>2, NextIs, ClientStepKeeps, HeaderTakenKeeps, ServerStepKeeps,
         FileRequestedKeeps DEF Step
  <2>3. CASE UNCHANGED vars
      BY <2>1, <2>3, SessionStutters
  <2> QED
      BY <2>1, <2>2, <2>3
<1> QED
    BY <1>1, SessionInitially, PTL DEF Spec

\* DownloadsOwnName: run() of udp_client.cpp never writes what it received
\* under a name other than the one it was given, though the name is taken
\* from whatever header arrives.
THEOREM DownloadsOwnNameHolds == Spec => []DownloadsOwnName
<1>1. SessionInv => DownloadsOwnName
    BY DEF SessionInv, OwnNames, DownloadsOwnName
<1> QED
    BY <1>1, SessionInductive, PTL
=============================================================================
