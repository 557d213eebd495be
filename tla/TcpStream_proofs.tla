--------------------------- MODULE TcpStream_proofs ---------------------------
(***************************************************************************)
(* For every size of segments, buffers and windows, and any calls of the   *)
(* two applications: the invariants of TcpStream.                          *)
(*                                                                         *)
(* SendInv(s) is of the sender: what is queued, under way and acknowledged *)
(* are runs of the same bytes (Core), a call has bytes left, a waiting one *)
(* a wake-up, and a push was complete unless it was held back (Pushed).    *)
(* ReadInv(s, r) is of the reader r beside the sender s: the two agree on  *)
(* what has arrived and on the window (Linked), the reader knows of an     *)
(* urgent byte before it comes to it (Knows), and the call in progress has *)
(* handed over the bytes behind the place where it began (CallIs).         *)
(* WindowOpens adds, for a roomy buffer, that the window opens again;      *)
(* WithinBuffer, for any, that it is never wider than the buffer.          *)
(*                                                                         *)
(* Each function of the code has a lemma: from a state of the invariant it *)
(* returns one.  StreamStep puts them together.                            *)
(***************************************************************************)
EXTENDS TcpStream, SequenceTheorems, WellFoundedInduction, TLAPS

-----------------------------------------------------------------------------
(* Types, and what of a state the invariant relates.                       *)

Skb == [seq : Nat, end : Nat]
Wired == [seq : Nat, end : Nat, urg : Nat, fin : BOOLEAN]
Queues == Seq(Skb)
Wires == Seq(Wired)
SendCall == [kind : {"none", "msg", "pages"}, left : Nat, copied : Nat,
             more : BOOLEAN, oob : BOOLEAN, block : BOOLEAN]

Tx == [pc : {"idle", "sending", "asleep", "eagain"}, call : SendCall,
       queue : Queues, write_seq : Nat, snd_nxt : Nat, snd_una : Nat,
       wnd_end : Nat, pushed_seq : Nat, urg : Nat,
       nonagle : SUBSET {NAGLE_OFF, NAGLE_CORK, NAGLE_PUSH}, sml : Nat,
       nospace : BOOLEAN, event : BOOLEAN, vm_wait : BOOLEAN,
       throttled : BOOLEAN, held : BOOLEAN, fin : {"none", "queued", "sent"},
       chances : Nat, wire : Wires]

(* A queue of buffers is the run of bytes from n to m: only the last buffer *)
(* may be empty.                                                           *)
Run(q, n, m) ==
    /\ \A i \in 1 .. Len(q) : /\ q[i].seq <= q[i].end
                              /\ q[i].end <= m
    /\ \A i \in 1 .. Len(q) - 1 : /\ q[i].seq < q[i].end
                                  /\ q[i].end = q[i + 1].seq
    /\ (Len(q) = 0 => n = m)
    /\ (Len(q) > 0 => (q[1].seq = n /\ q[Len(q)].end = m))

Full(q) == \A i \in 1 .. Len(q) : q[i].seq < q[i].end

(* The segments under way are a run that ends at n; the FIN is the last.   *)
Flight(w, n, m, fin) ==
    /\ \A i \in 1 .. Len(w) : /\ w[i].seq <= w[i].end
                             /\ w[i].end <= n
                             /\ w[i].end <= m
                             /\ (~w[i].fin => w[i].seq < w[i].end)
                             /\ (w[i].fin => i = Len(w) /\ fin = "sent")
    /\ \A i \in 1 .. Len(w) - 1 : w[i].end = w[i + 1].seq
    /\ (Len(w) > 0 => n = w[Len(w)].end + IF w[Len(w)].fin THEN 1 ELSE 0)

(* Every segment that holds the urgent byte u has the urgent pointer.      *)
Tells(w, u) ==
    \A i \in 1 .. Len(w) :
        /\ w[i].urg \in {MaxBytes, u}
        /\ ((w[i].seq <= u /\ u < w[i].end) => w[i].urg = u)

Core(s) ==
    /\ s \in Tx
    /\ s.write_seq <= MaxBytes
    /\ s.snd_una <= s.snd_nxt /\ s.snd_nxt <= s.wnd_end
    /\ IF s.fin = "sent" THEN s.queue = <<>> /\ s.snd_nxt = s.write_seq + 1
       ELSE Run(s.queue, s.snd_nxt, s.write_seq)
    /\ Flight(s.wire, s.snd_nxt, s.write_seq, s.fin)
    /\ s.urg = MaxBytes \/ s.urg < s.write_seq
    /\ Tells(s.wire, s.urg)

NoneEmpty(s) == Full(s.queue)

(* The next byte that the other end is to get.                             *)
NextOut(s) == IF s.wire = <<>> THEN s.snd_nxt ELSE s.wire[1].seq

SameCall(s, t) ==
    /\ t.pc = s.pc /\ t.call = s.call /\ t.write_seq = s.write_seq
    /\ t.snd_una = s.snd_una /\ t.wnd_end = s.wnd_end
    /\ t.nospace = s.nospace /\ t.event = s.event /\ t.vm_wait = s.vm_wait
    /\ t.chances = s.chances

Sent(s, t) ==
    /\ SameCall(s, t)
    /\ t.urg = s.urg /\ t.nonagle = s.nonagle /\ t.held = s.held
    /\ t.throttled = s.throttled /\ t.pushed_seq = s.pushed_seq
    /\ (s.fin # "queued" => t.fin = s.fin)
    /\ (s.fin = "queued" => t.fin # "none")
    /\ NextOut(t) = NextOut(s)
    /\ (NoneEmpty(s) => NoneEmpty(t))
    /\ t.snd_nxt >= s.snd_nxt

LEMMA Constants ==
    /\ MaxBytes \in Nat \ {0} /\ Mss \in Nat \ {0} /\ GsoMax \in Nat \ {0}
    /\ SndBuf \in Nat \ {0} /\ MaxWindow \in Nat \ {0} /\ RcvBuf \in Nat \ {0}
    /\ RcvMss \in Nat \ {0} /\ Page \in Nat \ {0} /\ MaxChances \in Nat
    /\ MaxWindow = RcvBuf
    BY SendAssumption, ReceiveAssumption, StreamAssumption

LEMMA TxFields ==
    ASSUME NEW s \in Tx
    PROVE  /\ s.pc \in {"idle", "sending", "asleep", "eagain"}
           /\ s.call \in SendCall /\ s.queue \in Queues
           /\ s.write_seq \in Nat /\ s.snd_nxt \in Nat /\ s.snd_una \in Nat
           /\ s.wnd_end \in Nat /\ s.pushed_seq \in Nat /\ s.urg \in Nat
           /\ s.nonagle \in SUBSET {NAGLE_OFF, NAGLE_CORK, NAGLE_PUSH}
           /\ s.sml \in Nat /\ s.nospace \in BOOLEAN /\ s.event \in BOOLEAN
           /\ s.vm_wait \in BOOLEAN /\ s.throttled \in BOOLEAN
           /\ s.held \in BOOLEAN /\ s.fin \in {"none", "queued", "sent"}
           /\ s.chances \in Nat /\ s.wire \in Wires
    BY DEF Tx

LEMMA Buffers ==
    ASSUME NEW q \in Seq(Skb)
    PROVE  /\ Len(q) \in Nat
           /\ DOMAIN q = 1 .. Len(q)
           /\ \A i \in 1 .. Len(q) : /\ q[i] \in Skb
                                    /\ q[i].seq \in Nat
                                    /\ q[i].end \in Nat
<1>1. \A k \in Skb : k.seq \in Nat /\ k.end \in Nat
    BY DEF Skb
<1> QED
    BY <1>1

LEMMA Segments ==
    ASSUME NEW w \in Seq(Wired)
    PROVE  /\ Len(w) \in Nat
           /\ DOMAIN w = 1 .. Len(w)
           /\ \A i \in 1 .. Len(w) : /\ w[i] \in Wired
                                    /\ w[i].seq \in Nat
                                    /\ w[i].end \in Nat
                                    /\ w[i].urg \in Nat
                                    /\ w[i].fin \in BOOLEAN
<1>1. \A k \in Wired : /\ k.seq \in Nat
                       /\ k.end \in Nat
                       /\ k.urg \in Nat
                       /\ k.fin \in BOOLEAN
    BY DEF Wired
<1> QED
    BY <1>1

LEMMA BufferCut ==
    ASSUME NEW k \in Skb, NEW e \in Nat
    PROVE  /\ [k EXCEPT !.seq = e] \in Skb /\ [k EXCEPT !.end = e] \in Skb
           /\ [k EXCEPT !.seq = e].seq = e /\ [k EXCEPT !.seq = e].end = k.end
           /\ [k EXCEPT !.end = e].end = e /\ [k EXCEPT !.end = e].seq = k.seq
    BY DEF Skb

LEMMA RunHead ==
    ASSUME NEW q \in Seq(Skb), NEW n \in Nat, NEW m \in Nat, Run(q, n, m),
           Len(q) > 0
    PROVE  /\ q[1] \in Skb /\ Head(q) = q[1] /\ q[1].seq = n
           /\ q[1].end \in Nat /\ n <= q[1].end /\ q[1].end <= m
    BY Buffers DEF Run

LEMMA RunTail ==
    ASSUME NEW q \in Seq(Skb), NEW n \in Nat, NEW m \in Nat, Run(q, n, m),
           Len(q) > 0
    PROVE  /\ Tail(q) \in Seq(Skb) /\ Run(Tail(q), q[1].end, m)
           /\ (Full(q) => Full(Tail(q)))
<1> DEFINE r == Tail(q)
<1>1. r \in Seq(Skb) /\ Len(r) = Len(q) - 1
    OBVIOUS
<1>2. \A i \in 1 .. Len(r) : r[i] = q[i + 1]
    OBVIOUS
<1> HIDE DEF r
<1>3. Len(q) \in Nat /\ Len(r) \in Nat
    BY <1>1, Buffers
<1>4. \A i \in 1 .. Len(r) : i + 1 \in 1 .. Len(q)
    BY <1>1, <1>3
<1>5. \A i \in 1 .. Len(r) - 1 : i + 1 \in 1 .. Len(q) - 1 /\ i + 1 \in 1 .. Len(r)
    BY <1>1, <1>3
<1>6. Len(r) = 0 => q[1].end = m
  <2>1. Len(r) = 0 => Len(q) = 1
      BY <1>1, <1>3
  <2> QED
      BY <2>1 DEF Run
<1>7. Len(r) > 0 => r[1].seq = q[1].end /\ r[Len(r)].end = m
  <2>1. Len(r) > 0 => /\ 1 \in 1 .. Len(q) - 1 /\ 1 \in 1 .. Len(r)
                      /\ Len(r) \in 1 .. Len(r) /\ Len(r) + 1 = Len(q) /\ 1 + 1 = 2
      BY <1>1, <1>3
  <2> QED
      BY <2>1, <1>2 DEF Run
<1>8. \A i \in 1 .. Len(r) : /\ r[i].seq <= r[i].end
                            /\ r[i].end <= m
    BY <1>2, <1>4 DEF Run
<1>9. \A i \in 1 .. Len(r) - 1 : /\ r[i].seq < r[i].end
                                /\ r[i].end = r[i + 1].seq
  <2> SUFFICES ASSUME NEW i \in 1 .. Len(r) - 1
               PROVE  r[i].seq < r[i].end /\ r[i].end = r[i + 1].seq
      OBVIOUS
  <2>1. i \in 1 .. Len(r) /\ i + 1 \in 1 .. Len(r) /\ i + 1 \in 1 .. Len(q) - 1
      BY <1>3, <1>5
  <2> QED
      BY <2>1, <1>2 DEF Run
<1>10. Full(q) => Full(r)
    BY <1>2, <1>4 DEF Full
<1>11. Run(r, q[1].end, m)
    BY <1>6, <1>7, <1>8, <1>9 DEF Run
<1> QED
    BY <1>1, <1>10, <1>11 DEF r

LEMMA RunCut ==
    ASSUME NEW q \in Seq(Skb), NEW n \in Nat, NEW m \in Nat, Run(q, n, m),
           Len(q) > 0, NEW e \in Nat, e < q[1].end
    PROVE  LET r == [q EXCEPT ![1].seq = e]
           IN r \in Seq(Skb) /\ Run(r, e, m) /\ (Full(q) => Full(r))
<1> DEFINE k == [q[1] EXCEPT !.seq = e]
           r == [q EXCEPT ![1] = k]
<1>1. Len(q) \in Nat /\ 1 \in 1 .. Len(q) /\ q[1] \in Skb /\ q[1].end \in Nat
    BY Buffers
<1>2. k \in Skb /\ k.seq = e /\ k.end = q[1].end
    BY <1>1, BufferCut
<1> HIDE DEF k
<1>3. /\ r \in Seq(Skb) /\ Len(r) = Len(q) /\ r[1] = k
      /\ \A i \in 1 .. Len(q) : i # 1 => r[i] = q[i]
    BY <1>1, <1>2
<1> HIDE DEF r
<1>4. \A i \in 1 .. Len(r) : /\ r[i].seq <= r[i].end
                            /\ r[i].end <= m
    BY <1>1, <1>2, <1>3 DEF Run
<1>5. \A i \in 1 .. Len(r) - 1 : /\ r[i].seq < r[i].end
                                /\ r[i].end = r[i + 1].seq
  <2> SUFFICES ASSUME NEW i \in 1 .. Len(r) - 1
               PROVE  r[i].seq < r[i].end /\ r[i].end = r[i + 1].seq
      OBVIOUS
  <2>1. /\ i \in 1 .. Len(q) /\ i + 1 \in 1 .. Len(q) /\ i + 1 # 1
        /\ i \in 1 .. Len(q) - 1
      BY <1>1, <1>3
  <2> QED
      BY <2>1, <1>1, <1>2, <1>3 DEF Run
<1>6. r[1].seq = e /\ r[Len(r)].end = m
  <2>1. Len(q) \in 1 .. Len(q)
      BY <1>1
  <2> QED
      BY <2>1, <1>1, <1>2, <1>3 DEF Run
<1>7. Full(q) => Full(r)
    BY <1>1, <1>2, <1>3 DEF Full
<1>8. Run(r, e, m)
    BY <1>1, <1>3, <1>4, <1>5, <1>6 DEF Run
<1> QED
    BY <1>3, <1>7, <1>8 DEF r, k

LEMMA WireAppend ==
    ASSUME NEW w \in Seq(Wired), NEW sg \in Wired
    PROVE  LET v == Append(w, sg)
           IN /\ v \in Seq(Wired) /\ v # <<>> /\ Len(v) = Len(w) + 1
              /\ \A i \in 1 .. Len(w) : v[i] = w[i]
              /\ v[Len(v)] = sg
              /\ v[1].seq = IF w = <<>> THEN sg.seq ELSE w[1].seq
    OBVIOUS

LEMMA TellsMore ==
    ASSUME NEW w \in Seq(Wired), NEW sg \in Wired, NEW u, Tells(w, u), sg.urg = u
    PROVE  Tells(Append(w, sg), u)
<1> DEFINE v == Append(w, sg)
<1>1. /\ Len(v) = Len(w) + 1 /\ v[Len(v)] = sg
      /\ \A i \in 1 .. Len(w) : v[i] = w[i]
    BY WireAppend
<1> HIDE DEF v
<1>2. \A i \in 1 .. Len(v) : i = Len(v) \/ i \in 1 .. Len(w)
    BY <1>1, Segments
<1>3. Tells(v, u)
    BY <1>1, <1>2 DEF Tells
<1> QED
    BY <1>3 DEF v

(* A segment of data, or the FIN, joins what is under way.                 *)
LEMMA FlightMore ==
    ASSUME NEW w \in Seq(Wired), NEW n \in Nat, NEW m \in Nat, NEW fin,
           Flight(w, n, m, fin), fin # "sent", NEW sg \in Wired, sg.seq = n
    PROVE  /\ (sg.fin = FALSE /\ n < sg.end /\ sg.end <= m)
                   => Flight(Append(w, sg), sg.end, m, fin)
           /\ (sg.fin = TRUE /\ n = sg.end /\ n <= m)
                   => Flight(Append(w, sg), n + 1, m, "sent")
<1> DEFINE v == Append(w, sg)
<1>1. /\ Len(v) = Len(w) + 1 /\ v[Len(v)] = sg /\ Len(w) \in Nat
      /\ \A i \in 1 .. Len(w) : v[i] = w[i]
    BY WireAppend, Segments
<1> HIDE DEF v
<1>2. \A i \in 1 .. Len(w) : /\ w[i].seq \in Nat
                            /\ w[i].end \in Nat
                            /\ w[i].fin = FALSE
                            /\ w[i].seq < w[i].end
                            /\ w[i].end <= n
                            /\ w[i].end <= m
    BY Segments DEF Flight
<1>3. Len(w) > 0 => w[Len(w)].end = n
    BY <1>1, <1>2 DEF Flight
<1>4. \A i \in 1 .. Len(v) : i = Len(v) \/ i \in 1 .. Len(w)
    BY <1>1
<1>5. \A i \in 1 .. Len(v) - 1 : v[i].end = v[i + 1].seq
  <2> SUFFICES ASSUME NEW i \in 1 .. Len(v) - 1 PROVE v[i].end = v[i + 1].seq
      OBVIOUS
  <2>1. i \in 1 .. Len(w) /\ v[i] = w[i]
      BY <1>1
  <2>2. CASE i = Len(w)
      BY <2>1, <2>2, <1>1, <1>3
  <2>3. CASE i # Len(w)
    <3>1. i \in 1 .. Len(w) - 1 /\ i + 1 \in 1 .. Len(w)
        BY <2>1, <2>3, <1>1
    <3> QED
        BY <3>1, <2>1, <1>1 DEF Flight
  <2> QED
      BY <2>2, <2>3
<1>6. sg.end \in Nat /\ sg.fin \in BOOLEAN
    BY DEF Wired
<1>7. ASSUME sg.fin = FALSE, n < sg.end, sg.end <= m
      PROVE  Flight(v, sg.end, m, fin)
  <2>1. \A i \in 1 .. Len(v) : /\ v[i].seq <= v[i].end
                              /\ v[i].end <= sg.end
                              /\ v[i].end <= m
                              /\ v[i].fin = FALSE
                              /\ v[i].seq < v[i].end
      BY <1>1, <1>2, <1>4, <1>6, <1>7
  <2> QED
      BY <2>1, <1>1, <1>5, <1>6, <1>7 DEF Flight
<1>8. ASSUME sg.fin = TRUE, n = sg.end, n <= m
      PROVE  Flight(v, n + 1, m, "sent")
  <2>1. \A i \in 1 .. Len(v) : /\ v[i].seq <= v[i].end
                              /\ v[i].end <= n + 1
                              /\ v[i].end <= m
                              /\ (i = Len(v) \/ (v[i].fin = FALSE /\ v[i].seq < v[i].end))
      BY <1>1, <1>2, <1>4, <1>6, <1>8
  <2> QED
      BY <2>1, <1>1, <1>5, <1>6, <1>8 DEF Flight
<1> QED
    BY <1>7, <1>8 DEF v

LEMMA SegmentIs ==
    ASSUME NEW s, Core(s), Len(s.queue) > 0, SkbLen(Head(s.queue)) > 0
    PROVE  LET e == Segment(s)
           IN /\ e \in Nat /\ s.snd_nxt < e /\ e <= s.queue[1].end
              /\ e <= s.snd_nxt + Mss /\ s.fin # "sent"
<1>1. s.queue \in Seq(Skb) /\ s.snd_nxt \in Nat /\ s.write_seq \in Nat
    BY TxFields DEF Core, Queues
<1>2. s.fin # "sent" /\ Run(s.queue, s.snd_nxt, s.write_seq)
    BY DEF Core
<1> QED
  <2> DEFINE h == s.queue[1]
  <2>1. /\ Head(s.queue) = h /\ h.seq = s.snd_nxt /\ h.end \in Nat
        /\ h.seq < h.end
      BY <1>1, <1>2, RunHead DEF SkbLen
  <2>2. Segment(s) = IF h.end < h.seq + Mss THEN h.end ELSE h.seq + Mss
      BY <2>1 DEF Segment, Minimum
  <2> HIDE DEF h
  <2> QED
      BY <1>1, <1>2, <2>1, <2>2, Constants DEF h

LEMMA SegmentSent ==
    ASSUME NEW s, Core(s), NEW e \in Nat, Len(s.queue) > 0,
           s.snd_nxt < e, e <= s.queue[1].end, e <= s.wnd_end,
           NEW t, t = SendSegment(s, e)
    PROVE  Core(t) /\ Sent(s, t) /\ t.snd_nxt = e /\ t.fin = s.fin
<1> DEFINE q == s.queue
           sg == [seq |-> s.snd_nxt, end |-> e, urg |-> s.urg, fin |-> FALSE]
           more == Append(s.wire, sg)
           rest == IF e = Head(q).end THEN Tail(q) ELSE [q EXCEPT ![1].seq = e]
           small == IF e - s.snd_nxt < Mss THEN e ELSE s.sml
<1>1. /\ s \in Tx /\ q \in Seq(Skb) /\ s.wire \in Seq(Wired) /\ s.snd_nxt \in Nat
      /\ s.urg \in Nat /\ s.write_seq \in Nat /\ s.sml \in Nat
      /\ s.snd_una \in Nat /\ s.wnd_end \in Nat
    BY TxFields DEF Core, Queues, Wires
<1>2. s.fin # "sent" /\ Run(q, s.snd_nxt, s.write_seq)
    BY DEF Core
<1>3. Head(q) = q[1] /\ q[1].end \in Nat /\ q[1].end <= s.write_seq
    BY <1>1, <1>2, RunHead
<1>4. rest \in Seq(Skb) /\ Run(rest, e, s.write_seq) /\ (Full(q) => Full(rest))
  <2>1. CASE e = q[1].end
      BY <2>1, <1>1, <1>2, <1>3, RunTail
  <2>2. CASE e # q[1].end
    <3>1. e < q[1].end
        BY <2>2, <1>3
    <3>2. rest = [q EXCEPT ![1].seq = e]
        BY <2>2, <1>3
    <3> HIDE DEF rest
    <3> QED
        BY <3>1, <3>2, <1>1, <1>2, RunCut
  <2> QED
      BY <2>1, <2>2
<1>5. /\ more \in Seq(Wired) /\ more # <<>> /\ Tells(more, s.urg)
      /\ Flight(more, e, s.write_seq, s.fin)
      /\ more[1].seq = NextOut(s)
  <2>1. Flight(s.wire, s.snd_nxt, s.write_seq, s.fin) /\ Tells(s.wire, s.urg)
      BY DEF Core
  <2>2. s.snd_nxt <= e /\ e <= s.write_seq
      BY <1>1, <1>3
  <2>3. /\ sg \in Wired /\ sg.seq = s.snd_nxt /\ sg.end = e /\ sg.urg = s.urg
        /\ sg.fin = FALSE
      BY <1>1 DEF Wired
  <2> HIDE DEF sg
  <2>4. Flight(more, e, s.write_seq, s.fin)
      BY <1>1, <1>2, <2>1, <2>2, <2>3, FlightMore
  <2>5. Tells(more, s.urg)
      BY <1>1, <2>1, <2>3, TellsMore
  <2> QED
      BY <1>1, <2>3, <2>4, <2>5, WireAppend DEF NextOut
<1>6. small \in Nat
    BY <1>1
<1>7. t = [s EXCEPT !.wire = more, !.sml = small, !.snd_nxt = e, !.queue = rest]
    BY DEF SendSegment
<1>8. rest \in Queues /\ more \in Wires
    BY <1>4, <1>5 DEF Queues, Wires
<1> HIDE DEF rest, more, small, q
<1>9. /\ t \in Tx /\ t.wire = more /\ t.snd_nxt = e /\ t.queue = rest
      /\ SameCall(s, t) /\ t.urg = s.urg /\ t.nonagle = s.nonagle
      /\ t.held = s.held /\ t.throttled = s.throttled
      /\ t.pushed_seq = s.pushed_seq /\ t.fin = s.fin
    BY ONLY <1>1, <1>6, <1>7, <1>8, e \in Nat DEF Tx, SameCall
<1>10. Core(t)
    BY <1>1, <1>2, <1>4, <1>5, <1>9 DEF Core, SameCall
<1>11. Sent(s, t)
    BY <1>1, <1>2, <1>4, <1>5, <1>9 DEF Sent, NoneEmpty, NextOut, q
<1> QED
    BY <1>9, <1>10, <1>11

LEMMA FinSent ==
    ASSUME NEW s, Core(s), s.queue = <<>>, s.fin = "queued",
           s.snd_nxt < s.wnd_end, NEW t, t = SendFin(s)
    PROVE  Core(t) /\ Sent(s, t) /\ t.snd_nxt > s.snd_nxt
<1> DEFINE sg == [seq |-> s.snd_nxt, end |-> s.snd_nxt, urg |-> s.urg,
                  fin |-> TRUE]
           more == Append(s.wire, sg)
           n == s.snd_nxt + 1
<1>1. /\ s \in Tx /\ s.wire \in Seq(Wired) /\ s.snd_nxt \in Nat
      /\ s.urg \in Nat /\ s.write_seq \in Nat /\ s.snd_una \in Nat
      /\ s.wnd_end \in Nat
    BY TxFields DEF Core, Wires
<1>2. /\ sg \in Wired /\ sg.seq = s.snd_nxt /\ sg.end = s.snd_nxt
      /\ sg.urg = s.urg /\ sg.fin = TRUE /\ n \in Nat
    BY <1>1 DEF Wired
<1>3. s.snd_nxt = s.write_seq
  <2>1. Len(s.queue) = 0 /\ Run(s.queue, s.snd_nxt, s.write_seq)
      BY DEF Core
  <2> QED
      BY <2>1 DEF Run
<1>4. t = [s EXCEPT !.wire = more, !.snd_nxt = n, !.fin = "sent"]
    BY DEF SendFin
<1> HIDE DEF sg
<1>5. /\ more \in Seq(Wired) /\ more # <<>> /\ Tells(more, s.urg)
      /\ Flight(more, n, s.write_seq, "sent")
      /\ more[1].seq = NextOut(s)
  <2>1. Flight(s.wire, s.snd_nxt, s.write_seq, s.fin) /\ Tells(s.wire, s.urg)
      BY DEF Core
  <2>2. Flight(more, n, s.write_seq, "sent")
    <3>1. s.fin # "sent" /\ s.snd_nxt <= s.write_seq /\ s.snd_nxt = sg.end
        BY <1>1, <1>2, <1>3
    <3> QED
        BY ONLY <1>1, <1>2, <2>1, <3>1, FlightMore
  <2>3. Tells(more, s.urg)
      BY <1>1, <1>2, <2>1, TellsMore
  <2> QED
      BY <1>1, <1>2, <2>2, <2>3, WireAppend DEF NextOut
<1>6. more \in Wires
    BY <1>5 DEF Wires
<1> HIDE DEF more, n
<1>7. /\ t \in Tx /\ t.wire = more /\ t.snd_nxt = n /\ t.queue = s.queue
      /\ SameCall(s, t) /\ t.urg = s.urg /\ t.nonagle = s.nonagle
      /\ t.held = s.held /\ t.throttled = s.throttled
      /\ t.pushed_seq = s.pushed_seq /\ t.fin = "sent"
    BY ONLY <1>1, <1>2, <1>4, <1>6 DEF Tx, SameCall
<1>8. n = s.snd_nxt + 1
    BY DEF n
<1>9. Core(t)
    BY <1>1, <1>2, <1>3, <1>5, <1>7, <1>8 DEF Core, SameCall
<1>10. Sent(s, t)
    BY <1>1, <1>5, <1>7, <1>8 DEF Sent, NoneEmpty, NextOut
<1> QED
    BY <1>1, <1>7, <1>8, <1>9, <1>10

(* A pass sends a segment or the FIN, or can send nothing.                 *)
Blocked(s, nonagle) ==
    /\ ~CanSend(s, nonagle)
    /\ ~(s.queue = <<>> /\ s.fin = "queued" /\ s.snd_nxt < s.wnd_end)

LEMMA SentItself ==
    ASSUME NEW s, Core(s)
    PROVE  Sent(s, s)
    BY TxFields DEF Core, Sent, SameCall

LEMMA PassIs ==
    ASSUME NEW s, Core(s), NEW nonagle, NEW t, t = XmitPass(s, nonagle)
    PROVE  /\ Core(t) /\ Sent(s, t)
           /\ \/ t.snd_nxt > s.snd_nxt
              \/ t = s /\ Blocked(s, nonagle)
<1>0. s.snd_nxt \in Nat /\ s.queue \in Seq(Skb)
    BY TxFields DEF Core, Queues
<1>1. CASE CanSend(s, nonagle)
  <2>1. t = SendSegment(s, Segment(s))
      BY <1>1 DEF XmitPass
  <2>2. Len(s.queue) > 0 /\ SkbLen(Head(s.queue)) > 0 /\ Segment(s) <= s.wnd_end
      BY <1>0, <1>1 DEF CanSend, HasTail
  <2>3. /\ Segment(s) \in Nat /\ s.snd_nxt < Segment(s)
        /\ Segment(s) <= s.queue[1].end
      BY <2>2, SegmentIs
  <2> QED
      BY <1>0, <2>1, <2>2, <2>3, SegmentSent
<1>2. CASE /\ ~CanSend(s, nonagle)
           /\ s.queue = <<>> /\ s.fin = "queued" /\ s.snd_nxt < s.wnd_end
  <2>1. t = SendFin(s)
      BY <1>2 DEF XmitPass
  <2> QED
      BY <1>2, <2>1, FinSent
<1>3. CASE Blocked(s, nonagle)
  <2>1. t = s
      BY <1>3 DEF XmitPass, Blocked
  <2> QED
      BY <1>3, <2>1, SentItself
<1> QED
    BY <1>1, <1>2, <1>3 DEF Blocked

LEMMA SentTwice ==
    ASSUME NEW s, NEW t, NEW u, Core(s), Core(t), Core(u), Sent(s, t), Sent(t, u)
    PROVE  Sent(s, u)
<1>1. s.snd_nxt \in Nat /\ t.snd_nxt \in Nat /\ u.snd_nxt \in Nat
    BY TxFields DEF Core
<1>2. s.fin \in {"none", "queued", "sent"} /\ t.fin \in {"none", "queued", "sent"}
    BY TxFields DEF Core
<1>3. SameCall(s, u)
    BY DEF Sent, SameCall
<1> QED
    BY <1>1, <1>2, <1>3 DEF Sent

(* The recursive function of tcp_write_xmit() exists: a least bound up to  *)
(* which there is none would follow a bound up to which there is one.      *)
Passes(f, s, nonagle, m) ==
    f = [n \in 0 .. m |-> IF n = 0 THEN s ELSE XmitPass(f[n - 1], nonagle)]

LEMMA Least ==
    ASSUME NEW S \in SUBSET Nat, S # {}
    PROVE  \E n \in S : \A m \in S : n <= m
<1>1. PICK n \in S : \A m \in S : <<m, n>> \notin OpToRel(<, Nat)
    BY WFMin, NatLessThanWellFounded, Zenon
<1>2. ASSUME NEW m \in S, m < n
      PROVE  FALSE
  <2>1. <<m, n>> \in OpToRel(<, Nat)
      BY <1>2 DEF OpToRel
  <2> QED
      BY <1>1, <2>1
<1> QED
    BY <1>2

LEMMA PassesExist ==
    ASSUME NEW s, NEW nonagle, NEW m \in Nat
    PROVE  \E f : Passes(f, s, nonagle, m)
<1> DEFINE S == {k \in Nat : ~\E f : Passes(f, s, nonagle, k)}
<1> SUFFICES ASSUME S # {} PROVE FALSE
    OBVIOUS
<1>1. PICK k \in S : \A j \in S : k <= j
    BY Least
<1>2. CASE k = 0
  <2>1. Passes([n \in 0 .. 0 |-> s], s, nonagle, 0)
      BY DEF Passes
  <2> QED
      BY <1>1, <1>2, <2>1
<1>3. CASE k # 0
  <2>1. k - 1 \in Nat /\ k - 1 \notin S
      BY <1>1, <1>3
  <2>2. PICK f : Passes(f, s, nonagle, k - 1)
      BY <2>1
  <2> DEFINE Next1(n) == XmitPass(f[n - 1], nonagle)
             g == [n \in 0 .. k |-> IF n = 0 THEN s ELSE Next1(n)]
             G(n) == XmitPass(g[n - 1], nonagle)
  <2>3. \A n \in 0 .. k - 1 : f[n] = IF n = 0 THEN s ELSE Next1(n)
      BY <2>2 DEF Passes
  <2>4. \A n \in 0 .. k - 1 : g[n] = f[n]
    <3> HIDE DEF Next1
    <3> QED
        BY <2>1, <2>3
  <2>5. \A n \in 0 .. k : n # 0 => Next1(n) = G(n)
    <3>1. \A n \in 0 .. k : n # 0 => n - 1 \in 0 .. k - 1
        BY <2>1
    <3>2. \A n \in 0 .. k : n # 0 => g[n - 1] = f[n - 1]
      <4> HIDE DEF g
      <4> QED
          BY <2>4, <3>1
    <3> HIDE DEF g
    <3> QED
        BY <3>2
  <2>6. g = [n \in 0 .. k |-> IF n = 0 THEN s ELSE G(n)]
    <3> HIDE DEF Next1, G
    <3> QED
        BY <2>5
  <2>7. Passes(g, s, nonagle, k)
      BY <2>6 DEF Passes
  <2> QED
      BY <1>1, <2>7
<1> QED
    BY <1>2, <1>3

LEMMA XmitPasses ==
    ASSUME NEW s, NEW nonagle
    PROVE  \E f : /\ Passes(f, s, nonagle, MaxBytes + 1)
                  /\ tcp_write_xmit(s, nonagle) = f[MaxBytes + 1]
<1> DEFINE f == CHOOSE g : Passes(g, s, nonagle, MaxBytes + 1)
<1>1. MaxBytes + 1 \in Nat
    BY Constants
<1>2. Passes(f, s, nonagle, MaxBytes + 1)
    BY <1>1, PassesExist
<1>3. tcp_write_xmit(s, nonagle) = f[MaxBytes + 1]
    BY DEF tcp_write_xmit, Passes
<1> QED
    BY <1>2, <1>3

(* What a push does: it sends something, or can send nothing.              *)
LEMMA XmitIs ==
    ASSUME NEW s, Core(s), NEW nonagle, NEW t, t = tcp_write_xmit(s, nonagle)
    PROVE  /\ Core(t) /\ Sent(s, t)
           /\ \/ t.snd_nxt > s.snd_nxt
              \/ t = s /\ Blocked(s, nonagle)
<1> DEFINE last == MaxBytes + 1
           Good(u) == /\ Core(u) /\ Sent(s, u)
                      /\ \/ u.snd_nxt > s.snd_nxt
                         \/ u = s /\ Blocked(s, nonagle)
<1>1. last \in Nat /\ last >= 1
    BY Constants
<1>2. PICK f : Passes(f, s, nonagle, last) /\ t = f[last]
    BY XmitPasses
<1> DEFINE P(n) == XmitPass(f[n - 1], nonagle)
<1>3. \A n \in 0 .. last : f[n] = IF n = 0 THEN s ELSE P(n)
    BY <1>2 DEF Passes
<1>4. f[0] = s
    BY <1>1, <1>3
<1>5. \A n \in 1 .. last : f[n] = P(n)
  <2> HIDE DEF P
  <2> QED
      BY <1>1, <1>3
<1>6. Good(f[1])
  <2>1. f[1] = XmitPass(s, nonagle)
      BY <1>1, <1>4, <1>5
  <2> QED
      BY <2>1, PassIs
<1>7. ASSUME NEW n \in 2 .. last, Good(f[n - 1])
      PROVE  Good(f[n])
  <2> DEFINE u == f[n - 1]
             v == f[n]
  <2>1. v = XmitPass(u, nonagle)
      BY <1>5, <1>7
  <2> HIDE DEF u, v
  <2>2. Core(v) /\ Sent(u, v) /\ (v.snd_nxt > u.snd_nxt \/ v = u)
      BY <1>7, <2>1, PassIs DEF u
  <2>3. Sent(s, v)
      BY <1>7, <2>2, SentTwice DEF u
  <2>4. s.snd_nxt \in Nat /\ u.snd_nxt \in Nat /\ v.snd_nxt \in Nat
      BY <1>7, <2>2, TxFields DEF Core, u
  <2>5. u.snd_nxt >= s.snd_nxt
      BY <1>7 DEF Sent, u
  <2>6. v.snd_nxt > s.snd_nxt \/ (v = s /\ Blocked(s, nonagle))
      BY <1>7, <2>2, <2>4, <2>5 DEF u
  <2> QED
      BY <2>2, <2>3, <2>6 DEF v
<1> HIDE DEF Good
<1>8. \A n \in 1 .. last : Good(f[n])
  <2> SUFFICES ASSUME {n \in 1 .. last : ~Good(f[n])} # {}
               PROVE  FALSE
      OBVIOUS
  <2> DEFINE S == {n \in 1 .. last : ~Good(f[n])}
  <2>1. S \in SUBSET Nat
      OBVIOUS
  <2>2. PICK n \in S : \A m \in S : n <= m
      BY <2>1, Least
  <2>3. n \in 2 .. last
      BY <1>6, <2>2
  <2>4. n - 1 \in 1 .. last
      BY <1>1, <2>3
  <2>5. n - 1 \notin S
    <3>1. ~(n <= n - 1)
        BY <2>3
    <3> HIDE DEF S
    <3> QED
        BY <2>2, <3>1
  <2> QED
      BY <1>7, <2>2, <2>3, <2>4, <2>5
<1> QED
    BY <1>1, <1>2, <1>8 DEF Good

-----------------------------------------------------------------------------
(* The sender.                                                             *)

(* What is left to send, and whether the window is all that stops it.      *)
Unsent(s) == s.snd_nxt < s.write_seq \/ s.fin = "queued"

WindowBlocks(s) ==
    IF s.snd_nxt < s.write_seq THEN Segment(s) > s.wnd_end
    ELSE s.snd_nxt >= s.wnd_end

Flows(s) == (~InFlight(s) /\ Unsent(s)) => WindowBlocks(s)

(* Outside a copy, what is neither held nor corked has been pushed.        *)
Pushed(s) ==
    (/\ (s.pc = "sending" => s.call.copied = 0)
     /\ s.held = FALSE
     /\ NAGLE_CORK \notin s.nonagle)
    => Flows(s)

InCall(s) == s.pc \in {"sending", "asleep"}

FinIsLast(s) == s.fin # "none" => (s.pc = "idle" /\ s.write_seq = MaxBytes)

(* A call has bytes left to copy, and the urgent byte is sent alone.       *)
CallIsOpen(s) ==
    IF InCall(s)
    THEN /\ s.call.left \in 1 .. MaxBytes - s.write_seq
         /\ (s.call.oob => (/\ s.call.kind = "msg"
                            /\ s.call.left = 1
                            /\ s.call.copied = 0
                            /\ s.urg = MaxBytes))
    ELSE NoneEmpty(s) /\ s.call = NoCall

(* One of the wake-ups of a waiting sender is there or on its way.         *)
WillWake(s) ==
    s.pc \in {"asleep", "eagain"} =>
        \/ s.event
        \/ s.vm_wait
        \/ s.nospace /\ s.snd_una < s.write_seq

SendInv(s) ==
    /\ Core(s)
    /\ FinIsLast(s)
    /\ CallIsOpen(s)
    /\ WillWake(s)
    /\ Pushed(s)

(* The state of the stream without the flags of the calls.                 *)
Same(s, t) ==
    /\ t \in Tx
    /\ t.queue = s.queue
    /\ t.write_seq = s.write_seq
    /\ t.snd_nxt = s.snd_nxt
    /\ t.snd_una = s.snd_una
    /\ t.wnd_end = s.wnd_end
    /\ t.urg = s.urg
    /\ t.fin = s.fin
    /\ t.wire = s.wire

(* What a step of the sender does that its peer can notice.                *)
Move(s, t) ==
    /\ NextOut(t) = NextOut(s)
    /\ t.snd_una = s.snd_una
    /\ t.wnd_end = s.wnd_end
    /\ s.write_seq <= t.write_seq
    /\ s.snd_nxt <= t.snd_nxt
    /\ (t.urg = s.urg \/ (s.urg = MaxBytes /\ s.snd_nxt <= t.urg))
    /\ (s.fin = "sent" => (t.fin = "sent" /\ t.write_seq = s.write_seq))

LEMMA CoreSame ==
    ASSUME NEW s, Core(s), NEW t, Same(s, t)
    PROVE  /\ Core(t)
           /\ Move(s, t)
           /\ (NoneEmpty(t) <=> NoneEmpty(s))
           /\ (Flows(t) <=> Flows(s))
<1>1. Core(t)
    BY DEF Core, Same
<1>2. Move(s, t)
    BY TxFields DEF Core, Same, Move, NextOut
<1>3. Flows(t) <=> Flows(s)
    BY DEF Flows, Same, InFlight, Unsent, WindowBlocks, Segment
<1> QED
    BY <1>1, <1>2, <1>3 DEF NoneEmpty, Same

LEMMA MoveTwice ==
    ASSUME NEW s, NEW t, NEW u, Core(s), Core(t), Core(u), Move(s, t), Move(t, u)
    PROVE  Move(s, u)
<1>1. /\ s.write_seq \in Nat /\ t.write_seq \in Nat /\ u.write_seq \in Nat
      /\ s.snd_nxt \in Nat /\ t.snd_nxt \in Nat /\ u.snd_nxt \in Nat
      /\ s.urg \in Nat /\ t.urg \in Nat /\ u.urg \in Nat
    BY TxFields DEF Core
<1> QED
    BY <1>1 DEF Move

LEMMA SentMove ==
    ASSUME NEW s, NEW t, Core(s), Core(t), Sent(s, t)
    PROVE  Move(s, t)
    BY TxFields DEF Core, Sent, SameCall, Move

(* A push that no cork stops sends something, or the window is closed.     *)
LEMMA XmitFlows ==
    ASSUME NEW s, Core(s), s.fin = "queued" => NoneEmpty(s), NEW nonagle,
           NAGLE_PUSH \in nonagle \/ NAGLE_CORK \notin nonagle,
           NEW t, t = tcp_write_xmit(s, nonagle)
    PROVE  Flows(t)
<1>1. /\ s.snd_nxt \in Nat /\ s.snd_una \in Nat /\ s.write_seq \in Nat
      /\ s.wnd_end \in Nat /\ s.queue \in Seq(Skb) /\ s.snd_una <= s.snd_nxt
    BY TxFields DEF Core, Queues
<1>2. Core(t) /\ Sent(s, t)
    BY XmitIs
<1>3. CASE t.snd_nxt > s.snd_nxt
  <2>1. t.snd_nxt \in Nat /\ t.snd_una = s.snd_una
      BY <1>2, TxFields DEF Core, Sent, SameCall
  <2> QED
      BY <1>1, <1>3, <2>1 DEF Flows, InFlight
<1>4. CASE t = s /\ Blocked(s, nonagle)
  <2> SUFFICES ASSUME ~InFlight(s), Unsent(s)
               PROVE  WindowBlocks(s)
      BY <1>4 DEF Flows
  <2>1. s.fin # "sent" /\ Run(s.queue, s.snd_nxt, s.write_seq)
    <3>1. s.fin # "sent"
        BY <1>1 DEF Core, Unsent
    <3> QED
        BY <3>1 DEF Core
  <2>2. Len(s.queue) \in Nat
      BY <1>1, Buffers
  <2>3. CASE s.snd_nxt < s.write_seq
    <3>1. Len(s.queue) > 0
        BY <1>1, <2>1, <2>2, <2>3 DEF Run
    <3>2. SkbLen(Head(s.queue)) > 0
      <4>1. /\ Head(s.queue) = s.queue[1] /\ s.queue[1].seq = s.snd_nxt
            /\ s.queue[1].end \in Nat
          BY <1>1, <2>1, <3>1, RunHead
      <4>2. s.queue[1].seq < s.queue[1].end
        <5>1. CASE Len(s.queue) = 1
            BY <5>1, <4>1, <2>1, <2>3, <3>1 DEF Run
        <5>2. CASE Len(s.queue) # 1
          <6>1. \A n \in Nat : (n # 1 /\ n > 0) => 1 \in 1 .. n - 1
              OBVIOUS
          <6>2. 1 \in 1 .. Len(s.queue) - 1
              BY ONLY <6>1, <5>2, <2>2, <3>1
          <6> QED
              BY <6>2, <2>1 DEF Run
        <5> QED
            BY <5>1, <5>2
      <4> QED
          BY <1>1, <4>1, <4>2 DEF SkbLen
    <3>3. Segment(s) \in Nat
        BY <3>1, <3>2, SegmentIs
    <3>4. tcp_nagle_test(s, Segment(s), nonagle)
        BY DEF tcp_nagle_test, tcp_nagle_check
    <3>5. HasTail(s)
        BY <1>1, <2>2, <3>1 DEF HasTail
    <3> QED
        BY <1>1, <1>4, <2>3, <3>2, <3>3, <3>4, <3>5 DEF Blocked, CanSend, WindowBlocks
  <2>4. CASE ~(s.snd_nxt < s.write_seq)
    <3>1. s.fin = "queued" /\ Full(s.queue)
        BY <2>4 DEF Unsent, NoneEmpty
    <3>2. Len(s.queue) = 0
      <4> SUFFICES ASSUME Len(s.queue) > 0 PROVE FALSE
          BY <2>2
      <4>1. 1 \in 1 .. Len(s.queue)
          BY <2>2
      <4>2. /\ s.queue[1].seq = s.snd_nxt /\ s.queue[1].end \in Nat
            /\ s.queue[1].end <= s.write_seq
          BY <1>1, <2>1, RunHead
      <4> QED
          BY <1>1, <2>4, <3>1, <4>1, <4>2 DEF Full
    <3>3. s.queue = <<>>
        BY <1>1, <3>2
    <3> QED
        BY <1>1, <1>4, <2>4, <3>1, <3>3 DEF Blocked, WindowBlocks
  <2> QED
      BY <2>3, <2>4
<1> QED
    BY <1>3, <1>4, XmitIs

-----------------------------------------------------------------------------
(* The write queue grows, and loses an empty tail.                         *)

LEMMA RunGrows ==
    ASSUME NEW q \in Seq(Skb), NEW n \in Nat, NEW m \in Nat, Run(q, n, m), Full(q),
           NEW k \in Skb, k.seq = m, k.end = m
    PROVE  /\ Append(q, k) \in Seq(Skb)
           /\ Run(Append(q, k), n, m)
           /\ Append(q, k) # <<>>
           /\ Last(Append(q, k)) = k
<1> DEFINE r == Append(q, k)
<1>1. /\ r \in Seq(Skb) /\ Len(r) = Len(q) + 1 /\ r[Len(r)] = k /\ Len(q) \in Nat
      /\ \A i \in 1 .. Len(q) : r[i] = q[i]
      /\ Last(r) = k /\ r # <<>>
    BY Buffers DEF Last
<1> HIDE DEF r
<1>2. \A i \in 1 .. Len(q) : /\ q[i].seq \in Nat
                            /\ q[i].end \in Nat
                            /\ q[i].seq < q[i].end
                            /\ q[i].end <= m
    BY Buffers DEF Run, Full
<1>3. \A i \in 1 .. Len(r) : i = Len(r) \/ i \in 1 .. Len(q)
    BY <1>1
<1>4. \A i \in 1 .. Len(r) : /\ r[i].seq <= r[i].end
                            /\ r[i].end <= m
    BY <1>1, <1>2, <1>3
<1>5. \A i \in 1 .. Len(r) - 1 : /\ r[i].seq < r[i].end
                                /\ r[i].end = r[i + 1].seq
  <2> SUFFICES ASSUME NEW i \in 1 .. Len(r) - 1
               PROVE  r[i].seq < r[i].end /\ r[i].end = r[i + 1].seq
      OBVIOUS
  <2>1. i \in 1 .. Len(q)
      BY <1>1
  <2>2. CASE i = Len(q)
    <3>1. i + 1 = Len(r) /\ q[Len(q)].end = m
        BY <1>1, <2>1, <2>2 DEF Run
    <3> QED
        BY <1>1, <1>2, <2>1, <2>2, <3>1
  <2>3. CASE i # Len(q)
    <3>1. i \in 1 .. Len(q) - 1 /\ i + 1 \in 1 .. Len(q)
        BY <1>1, <2>1, <2>3
    <3> QED
        BY <1>1, <2>1, <3>1 DEF Run
  <2> QED
      BY <2>2, <2>3
<1>6. r[1].seq = n
  <2>1. CASE Len(q) = 0
      BY <2>1, <1>1 DEF Run
  <2>2. CASE Len(q) # 0
    <3>1. 1 \in 1 .. Len(q) /\ Len(q) > 0
        BY <2>2, <1>1
    <3> QED
        BY <3>1, <1>1 DEF Run
  <2> QED
      BY <2>1, <2>2
<1>7. Run(r, n, m)
    BY <1>1, <1>4, <1>5, <1>6 DEF Run
<1> QED
    BY <1>1, <1>7 DEF r

LEMMA RunExtends ==
    ASSUME NEW q \in Seq(Skb), NEW n \in Nat, NEW m \in Nat, Run(q, n, m),
           Len(q) > 0, NEW copy \in Nat, copy > 0
    PROVE  LET r == [q EXCEPT ![Len(q)].end = @ + copy]
           IN /\ r \in Seq(Skb) /\ Run(r, n, m + copy) /\ Full(r)
              /\ Len(r) = Len(q)
<1> DEFINE l == Len(q)
           k == [q[l] EXCEPT !.end = q[l].end + copy]
           r == [q EXCEPT ![l] = k]
<1>1. l \in Nat /\ l \in 1 .. Len(q) /\ 1 \in 1 .. Len(q)
    BY Buffers
<1>2. q[l] \in Skb /\ q[l].seq \in Nat /\ q[l].end \in Nat /\ q[l].end = m
    BY <1>1, Buffers DEF Run
<1>3. k \in Skb /\ k.seq = q[l].seq /\ k.end = m + copy
  <2>1. m + copy \in Nat
      OBVIOUS
  <2> QED
      BY <1>2, <2>1, BufferCut
<1> HIDE DEF k
<1>4. /\ r \in Seq(Skb) /\ Len(r) = Len(q) /\ r[l] = k
      /\ \A i \in 1 .. Len(q) : i # l => r[i] = q[i]
    BY <1>1, <1>3
<1> HIDE DEF r
<1>5. \A i \in 1 .. Len(q) : q[i].seq \in Nat /\ q[i].end \in Nat
    BY Buffers
<1>6. \A i \in 1 .. Len(q) : i # l => i \in 1 .. Len(q) - 1 /\ i + 1 \in 1 .. Len(q)
    BY <1>1
<1>7. \A i \in 1 .. Len(q) : i # l => q[i].seq < q[i].end /\ q[i].end <= m
    BY <1>6 DEF Run
<1>8. k.seq <= m
    BY <1>1, <1>2, <1>3 DEF Run
<1>9. \A i \in 1 .. Len(r) : /\ r[i].seq <= r[i].end
                            /\ r[i].end <= m + copy
                            /\ r[i].seq < r[i].end
  <2> SUFFICES ASSUME NEW i \in 1 .. Len(q)
               PROVE  /\ r[i].seq <= r[i].end
                      /\ r[i].end <= m + copy
                      /\ r[i].seq < r[i].end
      BY <1>4
  <2>1. CASE i = l
      BY <2>1, <1>2, <1>3, <1>4, <1>8
  <2>2. CASE i # l
      BY <2>2, <1>4, <1>5, <1>7
  <2> QED
      BY <2>1, <2>2
<1>10. \A i \in 1 .. Len(r) - 1 : r[i].end = r[i + 1].seq
  <2> SUFFICES ASSUME NEW i \in 1 .. Len(r) - 1
               PROVE  r[i].end = r[i + 1].seq
      OBVIOUS
  <2>1. i \in 1 .. Len(q) - 1 /\ i \in 1 .. Len(q) /\ i # l /\ i + 1 \in 1 .. Len(q)
      BY <1>1, <1>4
  <2>2. q[i].end = q[i + 1].seq
      BY <2>1 DEF Run
  <2> QED
      BY <2>1, <2>2, <1>3, <1>4
<1>11. r[1].seq = n
  <2>1. q[1].seq = n
      BY DEF Run
  <2> QED
      BY <2>1, <1>1, <1>3, <1>4
<1>12. Run(r, n, m + copy)
    BY <1>1, <1>3, <1>4, <1>9, <1>10, <1>11 DEF Run
<1>13. Full(r)
    BY <1>9 DEF Full
<1> QED
    BY <1>4, <1>12, <1>13 DEF r, k

LEMMA RunDrops ==
    ASSUME NEW q \in Seq(Skb), NEW n \in Nat, NEW m \in Nat, Run(q, n, m),
           Len(q) > 0
    PROVE  /\ Last(q) = q[Len(q)]
           /\ q[Len(q)].seq \in Nat
           /\ q[Len(q)].end = m
           /\ (SkbLen(Last(q)) # 0 => Full(q))
           /\ (SkbLen(Last(q)) = 0 => (/\ Front(q) \in Seq(Skb)
                                       /\ Run(Front(q), n, m)
                                       /\ Full(Front(q))
                                       /\ (n < m => (Front(q) # <<>> /\ Head(Front(q)) = Head(q)))))
<1> DEFINE l == Len(q)
           r == Front(q)
<1>1. l \in Nat /\ l \in 1 .. Len(q) /\ Last(q) = q[l]
    BY Buffers DEF Last
<1>2. /\ q[l].seq \in Nat /\ q[l].end \in Nat /\ q[l].end = m
      /\ q[l].seq <= q[l].end
    BY <1>1, Buffers DEF Run
<1>3. \A i \in 1 .. Len(q) - 1 : q[i].seq < q[i].end
    BY DEF Run
<1>4. SkbLen(Last(q)) = q[l].end - q[l].seq
    BY <1>1 DEF SkbLen
<1>5. ASSUME SkbLen(Last(q)) # 0
      PROVE  Full(q)
  <2>1. q[l].seq < q[l].end
      BY <1>2, <1>4, <1>5
  <2>2. \A i \in 1 .. Len(q) : i = l \/ i \in 1 .. Len(q) - 1
      BY <1>1
  <2> QED
      BY <1>3, <2>1, <2>2 DEF Full
<1>6. ASSUME SkbLen(Last(q)) = 0
      PROVE  /\ r \in Seq(Skb)
             /\ Run(r, n, m)
             /\ Full(r)
             /\ (n < m => (r # <<>> /\ Head(r) = Head(q)))
  <2>0. r = SubSeq(q, 1, l - 1)
      BY DEF Front
  <2>1. /\ r \in Seq(Skb)
        /\ Len(r) = l - 1
        /\ \A i \in 1 .. l - 1 : r[i] = q[i]
    <3>1. 1 \in Int /\ l - 1 \in Int /\ \A i \in 1 .. l - 1 : q[i] \in Skb
        BY <1>1, Buffers
    <3> DEFINE g == SubSeq(q, 1, l - 1)
    <3>2. /\ g \in Seq(Skb)
          /\ Len(g) = IF 1 <= l - 1 THEN l - 1 - 1 + 1 ELSE 0
          /\ \A i \in 1 .. l - 1 - 1 + 1 : g[i] = q[1 + i - 1]
      <4> HIDE DEF l
      <4> QED
          BY <3>1, SubSeqProperties
    <3>3. r = g
        BY <2>0
    <3> HIDE DEF g, r
    <3>4. \A i \in 1 .. l - 1 : i \in 1 .. l - 1 - 1 + 1 /\ 1 + i - 1 = i
        BY <1>1
    <3> QED
        BY <1>1, <3>2, <3>3, <3>4
  <2>2. \A i \in 1 .. Len(r) : r[i] = q[i]
      BY <2>1
  <2> HIDE DEF r
  <2>3. q[l].seq = m
      BY <1>2, <1>4, <1>6
  <2>4. \A i \in 1 .. Len(r) : i \in 1 .. Len(q) /\ i \in 1 .. Len(q) - 1
      BY <1>1, <2>1
  <2>5. \A i \in 1 .. Len(r) - 1 : i \in 1 .. Len(r) /\ i + 1 \in 1 .. Len(r)
      BY <1>1, <2>1
  <2>6. Full(r)
      BY <1>3, <2>2, <2>4 DEF Full
  <2>7. CASE l = 1
    <3>1. Len(r) = 0 /\ n = m
        BY <2>1, <2>3, <2>7 DEF Run
    <3>2. Run(r, n, m)
        BY <3>1 DEF Run
    <3> QED
        BY <2>1, <2>6, <3>1, <3>2
  <2>8. CASE l # 1
    <3>1. /\ 1 \in 1 .. Len(r) /\ Len(r) \in 1 .. Len(r) /\ Len(r) > 0
          /\ Len(r) \in 1 .. Len(q) - 1 /\ Len(r) + 1 = l
        BY <1>1, <2>1, <2>8
    <3>2. r[1].seq = n
        BY <2>2, <3>1 DEF Run
    <3>3. r[Len(r)].end = m
        BY <2>2, <2>3, <3>1 DEF Run
    <3>4. \A i \in 1 .. Len(r) : r[i].seq <= r[i].end /\ r[i].end <= m
        BY <2>2, <2>4 DEF Run
    <3>5. \A i \in 1 .. Len(r) - 1 : r[i].seq < r[i].end /\ r[i].end = r[i + 1].seq
        BY <2>2, <2>4, <2>5 DEF Run
    <3>6. Run(r, n, m)
        BY <3>1, <3>2, <3>3, <3>4, <3>5 DEF Run
    <3>7. r # <<>> /\ Head(r) = Head(q)
        BY <2>1, <2>2, <3>1
    <3> QED
        BY <2>1, <2>6, <3>6, <3>7
  <2> QED
      BY <2>7, <2>8
<1> QED
    BY <1>1, <1>2, <1>5, <1>6 DEF r

LEMMA FlightLater ==
    ASSUME NEW w \in Seq(Wired), NEW n \in Nat, NEW m \in Nat, NEW later \in Nat,
           m <= later, NEW fin, Flight(w, n, m, fin)
    PROVE  Flight(w, n, later, fin)
<1>1. \A i \in 1 .. Len(w) : w[i].end \in Nat
    BY Segments
<1>2. \A i \in 1 .. Len(w) : w[i].end <= m
    BY DEF Flight
<1>3. \A i \in 1 .. Len(w) : w[i].end <= later
    BY <1>1, <1>2
<1> QED
    BY <1>3 DEF Flight

(* What of the flags a change of the queue keeps.                          *)
Keeps(s, t) ==
    /\ t.held = s.held
    /\ t.throttled = s.throttled
    /\ t.urg = s.urg
    /\ t.fin = s.fin
    /\ t.snd_nxt = s.snd_nxt
    /\ t.wire = s.wire
    /\ (NAGLE_CORK \in t.nonagle <=> NAGLE_CORK \in s.nonagle)

LEMMA Entailed ==
    ASSUME NEW s, Core(s), NoneEmpty(s), s.fin = "none", NEW t, t = skb_entail(s)
    PROVE  /\ Core(t)
           /\ SameCall(s, t)
           /\ Keeps(s, t)
           /\ Move(s, t)
           /\ HasTail(t)
           /\ SkbLen(tcp_write_queue_tail(t)) = 0
           /\ (Flows(s) => Flows(t))
<1> DEFINE q == s.queue
           k == [seq |-> s.write_seq, end |-> s.write_seq]
           r == Append(q, k)
           left == s.nonagle \ {NAGLE_PUSH}
<1>1. /\ s \in Tx /\ q \in Seq(Skb) /\ s.snd_nxt \in Nat /\ s.write_seq \in Nat
      /\ s.nonagle \in SUBSET {NAGLE_OFF, NAGLE_CORK, NAGLE_PUSH}
    BY TxFields DEF Core, Queues
<1>2. Run(q, s.snd_nxt, s.write_seq) /\ Full(q)
    BY DEF Core, NoneEmpty
<1>3. k \in Skb /\ k.seq = s.write_seq /\ k.end = s.write_seq
    BY <1>1 DEF Skb
<1>4. /\ left \in SUBSET {NAGLE_OFF, NAGLE_CORK, NAGLE_PUSH}
      /\ (NAGLE_CORK \in left <=> NAGLE_CORK \in s.nonagle)
    BY <1>1 DEF NAGLE_CORK, NAGLE_PUSH
<1>5. t = [s EXCEPT !.queue = r, !.nonagle = left]
    BY DEF skb_entail
<1> HIDE DEF k
<1>6. /\ r \in Queues /\ Run(r, s.snd_nxt, s.write_seq)
      /\ r # <<>> /\ Last(r) = k
    BY <1>1, <1>2, <1>3, RunGrows DEF Queues
<1>7. Len(q) > 0 => Head(r) = Head(q)
    BY <1>1, <1>3
<1> HIDE DEF r, left, q
<1>8. t \in Tx /\ SameCall(s, t) /\ t.queue = r /\ t.nonagle = left /\ t.held = s.held
    BY ONLY <1>1, <1>4, <1>5, <1>6 DEF Tx, SameCall
<1>9. /\ t.throttled = s.throttled /\ t.urg = s.urg /\ t.fin = s.fin
      /\ t.snd_nxt = s.snd_nxt /\ t.wire = s.wire
    BY ONLY <1>1, <1>4, <1>5, <1>6 DEF Tx
<1>10. Core(t)
    BY <1>1, <1>6, <1>8, <1>9 DEF Core, SameCall
<1>11. Move(s, t)
    BY <1>1, <1>8, <1>9 DEF Move, SameCall, NextOut
<1>12. HasTail(t) /\ SkbLen(tcp_write_queue_tail(t)) = 0
    BY <1>1, <1>3, <1>6, <1>8 DEF HasTail, SkbLen, tcp_write_queue_tail
<1>13. Flows(s) => Flows(t)
  <2>1. s.snd_nxt < s.write_seq => Head(t.queue) = Head(s.queue)
    <3>1. s.snd_nxt < s.write_seq => Len(q) > 0
        BY <1>1, <1>2, Buffers DEF Run
    <3> QED
        BY <3>1, <1>7, <1>8 DEF q
  <2> QED
      BY <2>1, <1>8, <1>9 DEF Flows, InFlight, Unsent, WindowBlocks, Segment, SameCall
<1> QED
    BY <1>4, <1>8, <1>9, <1>10, <1>11, <1>12, <1>13 DEF Keeps

LEMMA Removed ==
    ASSUME NEW s, Core(s), s.fin = "none", NEW t, t = tcp_remove_empty_skb(s)
    PROVE  /\ Core(t)
           /\ NoneEmpty(t)
           /\ SameCall(s, t)
           /\ Keeps(s, t)
           /\ Move(s, t)
           /\ (Flows(s) => Flows(t))
<1> DEFINE q == s.queue
<1>1. /\ s \in Tx /\ q \in Seq(Skb) /\ s.snd_nxt \in Nat /\ s.write_seq \in Nat
      /\ Len(q) \in Nat
    BY TxFields, Buffers DEF Core, Queues
<1>2. Run(q, s.snd_nxt, s.write_seq)
    BY DEF Core
<1>3. CASE HasTail(s) /\ SkbLen(Last(q)) = 0
  <2> DEFINE r == Front(q)
  <2>1. Len(q) > 0
      BY <1>1, <1>3 DEF HasTail
  <2>2. /\ r \in Queues /\ Run(r, s.snd_nxt, s.write_seq) /\ Full(r)
        /\ (s.snd_nxt < s.write_seq => (r # <<>> /\ Head(r) = Head(q)))
      BY <1>1, <1>2, <1>3, <2>1, RunDrops DEF Queues
  <2>3. t = [s EXCEPT !.queue = r]
      BY <1>3 DEF tcp_remove_empty_skb, tcp_write_queue_tail
  <2> HIDE DEF r, q
  <2>4. /\ t \in Tx /\ SameCall(s, t) /\ t.queue = r /\ t.nonagle = s.nonagle
        /\ t.held = s.held /\ t.throttled = s.throttled /\ t.urg = s.urg
        /\ t.fin = s.fin /\ t.snd_nxt = s.snd_nxt /\ t.wire = s.wire
      BY ONLY <1>1, <2>2, <2>3 DEF Tx, SameCall
  <2>5. Core(t)
      BY <1>1, <2>2, <2>4 DEF Core, SameCall
  <2>6. Move(s, t)
      BY <1>1, <2>4 DEF Move, SameCall, NextOut
  <2>7. Flows(s) => Flows(t)
      BY <2>2, <2>4 DEF Flows, InFlight, Unsent, WindowBlocks, Segment, SameCall, q
  <2> QED
      BY <2>2, <2>4, <2>5, <2>6, <2>7 DEF NoneEmpty, Keeps
<1>4. CASE ~(HasTail(s) /\ SkbLen(Last(q)) = 0)
  <2>1. t = s
      BY <1>4 DEF tcp_remove_empty_skb, tcp_write_queue_tail
  <2>2. Full(q)
    <3>1. CASE Len(q) = 0
        BY <3>1 DEF Full
    <3>2. CASE Len(q) > 0
      <4>1. HasTail(s)
          BY <1>1, <3>2 DEF HasTail
      <4> QED
          BY <1>1, <1>2, <1>4, <3>2, <4>1, RunDrops
    <3> QED
        BY <1>1, <3>1, <3>2
  <2>3. Sent(s, s)
      BY SentItself
  <2> QED
      BY <1>1, <2>1, <2>2, <2>3, SentMove DEF NoneEmpty, Keeps, Sent
<1> QED
    BY <1>3, <1>4

LEMMA Extended ==
    ASSUME NEW s, Core(s), HasTail(s), s.fin = "none", NEW copy \in Nat, copy > 0,
           copy <= s.call.left, s.write_seq + copy <= MaxBytes,
           NEW t, t = Extend(s, copy)
    PROVE  /\ Core(t)
           /\ NoneEmpty(t)
           /\ Keeps(s, t)
           /\ Move(s, t)
           /\ HasTail(t)
           /\ t.pc = s.pc
           /\ t.write_seq = s.write_seq + copy
           /\ t.call.left = s.call.left - copy
           /\ t.call.copied = s.call.copied + copy
           /\ t.call.kind = s.call.kind
           /\ t.call.oob = s.call.oob
<1> DEFINE q == s.queue
           r == [q EXCEPT ![Len(q)].end = @ + copy]
           call == [s.call EXCEPT !.left = @ - copy, !.copied = @ + copy]
           m == s.write_seq + copy
<1>1. /\ s \in Tx /\ q \in Seq(Skb) /\ s.snd_nxt \in Nat /\ s.write_seq \in Nat
      /\ Len(q) \in Nat /\ s.wire \in Seq(Wired) /\ s.call \in SendCall
      /\ s.urg \in Nat
    BY TxFields, Buffers DEF Core, Queues, Wires
<1>2. Run(q, s.snd_nxt, s.write_seq) /\ Len(q) > 0
    BY <1>1 DEF Core, HasTail
<1>3. /\ r \in Queues /\ Run(r, s.snd_nxt, m) /\ Full(r) /\ Len(r) = Len(q)
    BY <1>1, <1>2, RunExtends DEF Queues
<1>4. /\ s.call.left \in Nat /\ s.call.copied \in Nat
      /\ s.call.left - copy \in Nat /\ s.call.copied + copy \in Nat
    BY <1>1 DEF SendCall
<1>5. /\ call \in SendCall /\ call.left = s.call.left - copy
      /\ call.copied = s.call.copied + copy /\ call.kind = s.call.kind
      /\ call.oob = s.call.oob
    BY <1>1, <1>4 DEF SendCall
<1>6. t = [s EXCEPT !.queue = r, !.write_seq = m, !.call = call]
    BY DEF Extend
<1>7. m \in Nat /\ s.write_seq <= m
    BY <1>1
<1>8. Flight(s.wire, s.snd_nxt, m, s.fin)
    BY <1>1, <1>7, FlightLater DEF Core
<1>9. m <= MaxBytes /\ m = s.write_seq + copy
    OBVIOUS
<1> HIDE DEF r, q, m, call
<1>10. /\ t \in Tx /\ t.queue = r /\ t.nonagle = s.nonagle /\ t.write_seq = m
       /\ t.call = call /\ t.held = s.held /\ t.throttled = s.throttled
       /\ t.urg = s.urg /\ t.fin = s.fin /\ t.snd_nxt = s.snd_nxt
       /\ t.wire = s.wire /\ t.pc = s.pc /\ t.snd_una = s.snd_una
       /\ t.wnd_end = s.wnd_end
    BY ONLY <1>1, <1>3, <1>5, <1>6, <1>7 DEF Tx
<1>11. Core(t)
    BY <1>1, <1>3, <1>7, <1>8, <1>9, <1>10 DEF Core
<1>12. Move(s, t)
    BY <1>1, <1>7, <1>10 DEF Move, NextOut
<1>13. HasTail(t)
  <2>1. Len(<<>>) = 0
      OBVIOUS
  <2> QED
      BY <2>1, <1>2, <1>3, <1>10 DEF HasTail
<1> QED
    BY <1>3, <1>5, <1>9, <1>10, <1>11, <1>12, <1>13 DEF Keeps, NoneEmpty

-----------------------------------------------------------------------------
(* The pushes of tcp.c.                                                    *)

LEMMA MarkedPush ==
    ASSUME NEW s, Core(s), NEW t, t = tcp_mark_push(s)
    PROVE  /\ Same(s, t)
           /\ SameCall(s, t)
           /\ t.nonagle = s.nonagle
           /\ t.held = s.held
           /\ t.throttled = s.throttled
<1>1. s \in Tx /\ s.write_seq \in Nat
    BY TxFields DEF Core
<1> DEFINE n == s.write_seq
<1>2. t = [s EXCEPT !.pushed_seq = n] /\ n \in Nat
    BY <1>1 DEF tcp_mark_push
<1> HIDE DEF n
<1> QED
    BY ONLY <1>1, <1>2 DEF Tx, Same, SameCall

(* The last byte written becomes the urgent one before it is sent.         *)
LEMMA MarkedUrgent ==
    ASSUME NEW s, Core(s), s.call.oob = TRUE, s.urg = MaxBytes, s.fin = "none",
           s.snd_nxt < s.write_seq, NEW t, t = tcp_mark_urg(s)
    PROVE  /\ Core(t)
           /\ SameCall(s, t)
           /\ Move(s, t)
           /\ t.nonagle = s.nonagle
           /\ t.queue = s.queue
           /\ t.fin = s.fin
<1> DEFINE u == s.write_seq - 1
<1>1. /\ s \in Tx /\ s.write_seq \in Nat /\ s.snd_nxt \in Nat
      /\ s.wire \in Seq(Wired) /\ MaxBytes \in Nat /\ s.write_seq <= MaxBytes
    BY TxFields, Constants DEF Core, Wires
<1>2. u \in Nat /\ s.snd_nxt <= u /\ u < s.write_seq
    BY <1>1
<1>3. t = [s EXCEPT !.urg = u]
    BY DEF tcp_mark_urg
<1> HIDE DEF u
<1>4. /\ t \in Tx /\ SameCall(s, t) /\ t.urg = u /\ t.nonagle = s.nonagle
      /\ t.queue = s.queue /\ t.fin = s.fin /\ t.snd_nxt = s.snd_nxt
      /\ t.wire = s.wire
    BY ONLY <1>1, <1>2, <1>3 DEF Tx, SameCall
<1>5. Tells(s.wire, u)
  <2>1. \A i \in 1 .. Len(s.wire) : /\ s.wire[i].end \in Nat
                                   /\ s.wire[i].end <= s.snd_nxt
                                   /\ s.wire[i].urg = MaxBytes
      BY <1>1, Segments DEF Core, Flight, Tells
  <2>2. \A i \in 1 .. Len(s.wire) : ~(u < s.wire[i].end)
      BY <1>1, <1>2, <2>1
  <2> QED
      BY <2>1, <2>2 DEF Tells
<1>6. Core(t)
    BY <1>1, <1>2, <1>4, <1>5 DEF Core, SameCall
<1>7. Move(s, t)
    BY <1>1, <1>2, <1>4 DEF Move, SameCall, NextOut
<1> QED
    BY <1>4, <1>6, <1>7

LEMMA FlagHeld ==
    ASSUME NEW s, Core(s), NEW more \in BOOLEAN, NEW t, t = [s EXCEPT !.held = more]
    PROVE  /\ Same(s, t)
           /\ SameCall(s, t)
           /\ t.nonagle = s.nonagle
           /\ t.held = more
    BY DEF Core, Tx, Same, SameCall

LEMMA FlagThrottled ==
    ASSUME NEW s, Core(s), NEW flag \in BOOLEAN, NEW t,
           t = [s EXCEPT !.throttled = flag]
    PROVE  /\ Same(s, t)
           /\ SameCall(s, t)
           /\ t.nonagle = s.nonagle
           /\ t.held = s.held
    BY DEF Core, Tx, Same, SameCall

LEMMA SameCallTwice ==
    ASSUME NEW s, NEW t, NEW u, SameCall(s, t), SameCall(t, u)
    PROVE  SameCall(s, u)
    BY DEF SameCall

(* tcp_push(): what neither MSG_MORE nor a cork holds is sent, or blocked. *)
PushOf(s, t) ==
    \E more \in BOOLEAN, nonagle \in {s.nonagle, {NAGLE_PUSH}}, busy \in BOOLEAN :
        t = tcp_push(s, more, nonagle, busy)

LEMMA PushIs ==
    ASSUME NEW s, Core(s), s.fin = "none",
           s.call.oob => (s.urg = MaxBytes /\ s.snd_nxt < s.write_seq),
           NEW t, PushOf(s, t)
    PROVE  /\ Core(t)
           /\ SameCall(s, t)
           /\ Move(s, t)
           /\ (NoneEmpty(s) => NoneEmpty(t))
           /\ t.fin = "none"
           /\ (s.call.oob = FALSE => t.urg = s.urg)
           /\ ((t.held = FALSE /\ NAGLE_CORK \notin t.nonagle) => Flows(t))
<1> PICK more \in BOOLEAN, nonagle \in {s.nonagle, {NAGLE_PUSH}}, busy \in BOOLEAN :
        t = tcp_push(s, more, nonagle, busy)
    BY DEF PushOf
<1>0. NAGLE_PUSH \in nonagle \/ nonagle = s.nonagle
    OBVIOUS
<1>1. /\ s \in Tx /\ s.call \in SendCall /\ s.call.oob \in BOOLEAN
      /\ s.write_seq \in Nat /\ s.snd_nxt \in Nat /\ s.queue \in Seq(Skb)
    BY TxFields DEF Core, Queues, SendCall
<1>2. CASE ~HasTail(s)
  <2>1. t = s
      BY <1>2 DEF tcp_push
  <2>2. s.queue = <<>> /\ Len(s.queue) = 0 /\ Run(s.queue, s.snd_nxt, s.write_seq)
      BY <1>2 DEF HasTail, Core
  <2>3. ~Unsent(s)
      BY <1>1, <2>2 DEF Run, Unsent
  <2>4. Sent(s, s)
      BY SentItself
  <2> QED
      BY <2>1, <2>3, <2>4, SentMove DEF Flows, Sent
<1>3. CASE HasTail(s)
  <2> DEFINE marked == IF ~more \/ forced_push(s) THEN tcp_mark_push(s) ELSE s
             a == tcp_mark_urg(marked)
             urgent == [a EXCEPT !.held = more]
             corked == [urgent EXCEPT !.throttled = TRUE]
             how == IF more THEN {NAGLE_CORK} ELSE nonagle
  <2>1. \/ tcp_should_autocork(urgent, busy) /\ t = corked
        \/ t = tcp_write_xmit(urgent, how)
      BY <1>3 DEF tcp_push, __tcp_push_pending_frames
  <2>2. /\ Core(marked) /\ SameCall(s, marked) /\ Move(s, marked)
        /\ marked.nonagle = s.nonagle /\ marked.queue = s.queue
        /\ marked.fin = s.fin /\ marked.snd_nxt = s.snd_nxt /\ marked.urg = s.urg
    <3>1. CASE marked = s
        BY <3>1, SentItself, SentMove DEF Sent
    <3>2. CASE marked = tcp_mark_push(s)
      <4>1. Same(s, marked) /\ SameCall(s, marked) /\ marked.nonagle = s.nonagle
          BY <3>2, MarkedPush
      <4> QED
          BY <4>1, CoreSame DEF Same
    <3> QED
        BY <3>1, <3>2
  <2> HIDE DEF marked
  <2>3. /\ Core(a) /\ SameCall(s, a) /\ Move(s, a) /\ a.nonagle = s.nonagle
        /\ a.queue = s.queue /\ a.fin = s.fin
        /\ (s.call.oob = FALSE => a.urg = s.urg)
    <3>1. marked.call = s.call /\ marked.write_seq = s.write_seq
        BY <2>2 DEF SameCall
    <3>2. CASE s.call.oob = TRUE
      <4>1. /\ Core(a) /\ SameCall(marked, a) /\ Move(marked, a)
            /\ a.nonagle = marked.nonagle /\ a.queue = marked.queue
            /\ a.fin = marked.fin
          BY <2>2, <3>1, <3>2, MarkedUrgent
      <4> QED
          BY <2>2, <3>2, <4>1, MoveTwice, SameCallTwice
    <3>3. CASE s.call.oob = FALSE
      <4>1. a = marked
          BY <3>1, <3>3 DEF tcp_mark_urg
      <4> QED
          BY <2>2, <4>1
    <3> QED
        BY <1>1, <3>2, <3>3
  <2> HIDE DEF a
  <2>4. /\ Same(a, urgent) /\ SameCall(a, urgent) /\ urgent.nonagle = a.nonagle
        /\ urgent.held = more
      BY <2>3, FlagHeld
  <2> HIDE DEF urgent
  <2>5. /\ Core(urgent) /\ SameCall(s, urgent) /\ Move(s, urgent)
        /\ urgent.nonagle = s.nonagle /\ urgent.held = more
        /\ urgent.fin = "none" /\ urgent.queue = s.queue
        /\ (s.call.oob = FALSE => urgent.urg = s.urg)
    <3>1. Core(urgent) /\ Move(a, urgent)
        BY <2>3, <2>4, CoreSame
    <3> QED
        BY <2>3, <2>4, <3>1, MoveTwice, SameCallTwice DEF Same
  <2>6. CASE tcp_should_autocork(urgent, busy) /\ t = corked
    <3>1. Same(urgent, t) /\ SameCall(urgent, t)
        BY <2>5, <2>6, FlagThrottled
    <3>2. Core(t) /\ Move(urgent, t)
        BY <2>5, <3>1, CoreSame
    <3>3. InFlight(t)
        BY <2>6, <3>1 DEF tcp_should_autocork, InFlight, Same
    <3> QED
        BY <2>5, <3>1, <3>2, <3>3, MoveTwice, SameCallTwice DEF Same, NoneEmpty, Flows
  <2>7. CASE t = tcp_write_xmit(urgent, how)
    <3>1. Core(t) /\ Sent(urgent, t)
        BY <2>5, <2>7, XmitIs
    <3>2. Move(urgent, t)
        BY <2>5, <3>1, SentMove
    <3>3. (t.held = FALSE /\ NAGLE_CORK \notin t.nonagle) => Flows(t)
      <4> SUFFICES ASSUME t.held = FALSE, NAGLE_CORK \notin t.nonagle
                   PROVE  Flows(t)
          OBVIOUS
      <4>1. more = FALSE /\ t.nonagle = s.nonagle
          BY <2>5, <3>1 DEF Sent
      <4>2. how = nonagle
          BY <4>1
      <4>3. NAGLE_PUSH \in how \/ NAGLE_CORK \notin how
          BY <1>0, <4>1, <4>2
      <4> HIDE DEF how
      <4> QED
          BY <2>5, <2>7, <4>3, XmitFlows
    <3>4. t.fin = "none" /\ t.urg = urgent.urg /\ (NoneEmpty(urgent) => NoneEmpty(t))
        BY <2>5, <3>1 DEF Sent
    <3>5. SameCall(s, t) /\ Move(s, t)
        BY <2>5, <3>1, <3>2, MoveTwice, SameCallTwice DEF Sent
    <3> QED
        BY <2>5, <3>1, <3>3, <3>4, <3>5 DEF NoneEmpty
  <2> QED
      BY <2>1, <2>6, <2>7
<1> QED
    BY <1>2, <1>3

-----------------------------------------------------------------------------
(* The ends of a call, and its waits.                                      *)

Loose(s) == s.held = FALSE /\ NAGLE_CORK \notin s.nonagle

LEMMA ReturnsIs ==
    ASSUME NEW s, Core(s), NEW t, t = SendReturns(s)
    PROVE  /\ Same(s, t)
           /\ t.pc = "idle"
           /\ t.call = NoCall
           /\ t.nonagle = s.nonagle
           /\ t.held = s.held
<1>1. NoCall \in SendCall /\ s \in Tx
    BY DEF NoCall, SendCall, Core
<1>2. t = [s EXCEPT !.pc = "idle", !.call = NoCall]
    BY DEF SendReturns
<1> QED
    BY ONLY <1>1, <1>2 DEF Tx, Same

LEMMA RefusedIs ==
    ASSUME NEW s, Core(s), NEW t, t = [s EXCEPT !.pc = "eagain", !.call = NoCall]
    PROVE  /\ Same(s, t)
           /\ t.pc = "eagain"
           /\ t.call = NoCall
           /\ t.nonagle = s.nonagle
           /\ t.held = s.held
           /\ t.nospace = s.nospace
<1>1. NoCall \in SendCall /\ s \in Tx
    BY DEF NoCall, SendCall, Core
<1>2. t = [s EXCEPT !.pc = "eagain", !.call = NoCall]
    OBVIOUS
<1> QED
    BY ONLY <1>1, <1>2 DEF Tx, Same

(* out: what a call has copied is pushed, and it returns.                  *)
LEMMA OutIs ==
    ASSUME NEW s, Core(s), NoneEmpty(s), s.fin = "none",
           (s.call.oob /\ s.call.copied # 0)
               => (s.urg = MaxBytes /\ s.snd_nxt < s.write_seq),
           (s.call.copied = 0 /\ Loose(s)) => Flows(s),
           NEW t, \E busy \in BOOLEAN : t = SendOut(s, busy)
    PROVE  SendInv(t) /\ Move(s, t)
<1> PICK busy \in BOOLEAN : t = SendOut(s, busy)
    OBVIOUS
<1> DEFINE p == IF s.call.copied = 0 THEN s
                ELSE tcp_push(s, s.call.more, s.nonagle, busy)
<1>1. s \in Tx /\ s.call.more \in BOOLEAN
    BY TxFields DEF Core, SendCall
<1>2. /\ Core(p) /\ Move(s, p) /\ NoneEmpty(p) /\ p.fin = "none"
      /\ (Loose(p) => Flows(p))
  <2>1. CASE s.call.copied = 0
    <3>1. p = s /\ Sent(s, s)
        BY <2>1, SentItself
    <3> QED
        BY <2>1, <3>1, SentMove
  <2>2. CASE s.call.copied # 0
    <3>1. p = tcp_push(s, s.call.more, s.nonagle, busy)
        BY <2>2
    <3> HIDE DEF p
    <3>2. PushOf(s, p)
        BY <1>1, <3>1, Zenon DEF PushOf
    <3>3. s.call.oob => (s.urg = MaxBytes /\ s.snd_nxt < s.write_seq)
        BY <2>2
    <3>4. /\ Core(p)
          /\ Move(s, p)
          /\ (NoneEmpty(s) => NoneEmpty(p))
          /\ p.fin = "none"
          /\ ((p.held = FALSE /\ NAGLE_CORK \notin p.nonagle) => Flows(p))
        BY <3>2, <3>3, PushIs
    <3> QED
        BY <3>4 DEF Loose
  <2> QED
      BY <2>1, <2>2
<1>3. t = SendReturns(p)
    BY DEF SendOut
<1> HIDE DEF p
<1>4. /\ Same(p, t) /\ t.pc = "idle" /\ t.call = NoCall
      /\ t.nonagle = p.nonagle /\ t.held = p.held
    BY <1>2, <1>3, ReturnsIs
<1>5. Core(t) /\ Move(p, t) /\ NoneEmpty(t) /\ (Flows(t) <=> Flows(p))
    BY <1>2, <1>4, CoreSame
<1>6. Move(s, t)
    BY <1>2, <1>5, MoveTwice
<1>7. FinIsLast(t) /\ CallIsOpen(t) /\ WillWake(t)
    BY <1>2, <1>4, <1>5 DEF FinIsLast, CallIsOpen, WillWake, InCall, Same
<1>8. Pushed(t)
    BY <1>2, <1>4, <1>5 DEF Pushed, Loose
<1> QED
    BY <1>5, <1>6, <1>7, <1>8 DEF SendInv

LEMMA WriteSpaceIs ==
    ASSUME NEW s, Core(s), NEW t, t = sk_write_space(s)
    PROVE  /\ Same(s, t)
           /\ t.pc = s.pc
           /\ t.call = s.call
           /\ t.nonagle = s.nonagle
           /\ t.held = s.held
           /\ ((s.nospace /\ s.pc \in {"asleep", "eagain"})
                   => \/ t.event
                      \/ t.nospace /\ t.snd_una < t.write_seq)
<1> DEFINE queued == s.write_seq - s.snd_una
           free == SndBuf - queued
           wakes == s.pc \in {"asleep", "eagain"}
<1>1. /\ s \in Tx /\ s.write_seq \in Nat /\ s.snd_una \in Nat
      /\ SndBuf \in Nat /\ SndBuf > 0
    BY TxFields, Constants DEF Core
<1>2. CASE 2 * free >= queued /\ free > 0
  <2>1. t = [s EXCEPT !.nospace = FALSE, !.event = wakes]
      BY <1>2 DEF sk_write_space, wmem_queued
  <2>2. wakes \in BOOLEAN
      OBVIOUS
  <2>3. s.pc \in {"asleep", "eagain"} => wakes = TRUE
      OBVIOUS
  <2> HIDE DEF wakes, free, queued
  <2>4. /\ Same(s, t) /\ t.pc = s.pc /\ t.call = s.call /\ t.nonagle = s.nonagle
        /\ t.held = s.held /\ t.event = wakes
      BY ONLY <1>1, <2>1, <2>2 DEF Tx, Same
  <2> QED
      BY <2>3, <2>4
<1>3. CASE ~(2 * free >= queued /\ free > 0)
  <2>1. t = s
      BY <1>3 DEF sk_write_space, wmem_queued
  <2>2. s.snd_una < s.write_seq
      BY <1>1, <1>3
  <2> QED
      BY <1>1, <2>1, <2>2 DEF Same
<1> QED
    BY <1>2, <1>3

(* do_error: or out_err:, after the wait that MSG_DONTWAIT refused.        *)
LEMMA FailsIs ==
    ASSUME NEW s, Core(s), s.fin = "none", s.call.oob => s.call.copied = 0,
           Loose(s) => Flows(s), s.nospace = TRUE,
           NEW t, \E busy \in BOOLEAN : t = SendFails(s, busy)
    PROVE  SendInv(t) /\ Move(s, t)
<1> PICK busy \in BOOLEAN : t = SendFails(s, busy)
    OBVIOUS
<1> DEFINE removed == tcp_remove_empty_skb(s)
           failed == [removed EXCEPT !.pc = "eagain", !.call = NoCall]
<1>1. /\ Core(removed) /\ NoneEmpty(removed) /\ SameCall(s, removed)
      /\ Keeps(s, removed) /\ Move(s, removed) /\ (Flows(s) => Flows(removed))
    BY Removed
<1>2. removed.fin = "none" /\ removed.call = s.call /\ removed.nospace = TRUE
    BY <1>1 DEF SameCall, Keeps
<1>3. Loose(removed) => Flows(removed)
    BY <1>1 DEF Keeps, Loose
<1>4. \/ s.call.copied > 0 /\ t = SendOut(removed, busy)
      \/ removed.queue = <<>> /\ t = sk_write_space(failed)
      \/ removed.queue # <<>> /\ t = failed
    BY DEF SendFails
<1> HIDE DEF removed
<1>5. CASE s.call.copied > 0 /\ t = SendOut(removed, busy)
  <2>1. s.call.copied \in Nat
      BY TxFields DEF Core, SendCall
  <2>2. \E b \in BOOLEAN : t = SendOut(removed, b)
      BY <1>5
  <2>3. /\ (removed.call.oob /\ removed.call.copied # 0)
             => (removed.urg = MaxBytes /\ removed.snd_nxt < removed.write_seq)
        /\ (removed.call.copied = 0 /\ Loose(removed)) => Flows(removed)
      BY <1>2, <1>3
  <2>4. SendInv(t) /\ Move(removed, t)
      BY ONLY <1>1, <1>2, <2>2, <2>3, OutIs
  <2> QED
      BY <1>1, <2>4, MoveTwice DEF SendInv
<1>11. failed = [removed EXCEPT !.pc = "eagain", !.call = NoCall]
    OBVIOUS
<1> HIDE DEF failed
<1>6. /\ Same(removed, failed) /\ failed.pc = "eagain" /\ failed.call = NoCall
      /\ failed.nonagle = removed.nonagle /\ failed.held = removed.held
      /\ failed.nospace = TRUE
    BY <1>1, <1>2, <1>11, RefusedIs
<1>7. /\ Core(failed) /\ Move(removed, failed) /\ NoneEmpty(failed)
      /\ (Flows(failed) <=> Flows(removed))
    BY <1>1, <1>6, CoreSame
<1>8. Move(s, failed)
    BY <1>1, <1>7, MoveTwice
<1>9. CASE removed.queue = <<>> /\ t = sk_write_space(failed)
  <2>1. /\ Same(failed, t) /\ t.pc = "eagain" /\ t.call = NoCall
        /\ t.nonagle = failed.nonagle /\ t.held = failed.held
        /\ (t.event \/ (t.nospace /\ t.snd_una < t.write_seq))
      BY <1>6, <1>7, <1>9, WriteSpaceIs
  <2>2. Core(t) /\ Move(failed, t) /\ NoneEmpty(t) /\ (Flows(t) <=> Flows(failed))
      BY <1>7, <2>1, CoreSame
  <2>3. FinIsLast(t) /\ CallIsOpen(t) /\ WillWake(t)
      BY <1>2, <1>6, <2>1, <2>2 DEF FinIsLast, CallIsOpen, WillWake, InCall, Same
  <2>4. Pushed(t)
      BY <1>3, <1>6, <1>7, <2>1, <2>2 DEF Pushed, Loose
  <2>5. Move(s, t)
      BY <1>7, <1>8, <2>2, MoveTwice
  <2> QED
      BY <2>2, <2>3, <2>4, <2>5 DEF SendInv
<1>10. CASE removed.queue # <<>> /\ t = failed
  <2> DEFINE q == removed.queue
  <2>1. /\ q \in Seq(Skb) /\ removed.snd_nxt \in Nat /\ removed.write_seq \in Nat
        /\ removed.snd_una \in Nat /\ removed.snd_una <= removed.snd_nxt
        /\ Run(q, removed.snd_nxt, removed.write_seq) /\ Full(q)
      BY <1>1, <1>2, TxFields DEF Core, Queues, NoneEmpty
  <2>2. removed.snd_una < removed.write_seq
    <3>1. Len(q) > 0 /\ 1 \in 1 .. Len(q)
        BY <2>1, <1>10, Buffers
    <3>2. /\ q[1].seq = removed.snd_nxt /\ q[1].end \in Nat
          /\ q[1].end <= removed.write_seq
        BY <2>1, <3>1, RunHead
    <3>3. q[1].seq < q[1].end
        BY <2>1, <3>1 DEF Full
    <3> QED
        BY <2>1, <3>2, <3>3
  <2>3. FinIsLast(t) /\ CallIsOpen(t)
      BY <1>2, <1>6, <1>7, <1>10 DEF FinIsLast, CallIsOpen, InCall, Same
  <2>4. WillWake(t)
      BY <1>6, <1>10, <2>2 DEF WillWake, Same
  <2>5. Pushed(t)
      BY <1>3, <1>6, <1>7, <1>10 DEF Pushed, Loose
  <2> QED
      BY <1>7, <1>8, <1>10, <2>3, <2>4, <2>5 DEF SendInv
<1> QED
    BY <1>4, <1>5, <1>9, <1>10

(* A call that waits for room, or returns when it must not.                *)
LEMMA WaitIs ==
    ASSUME NEW s, Core(s), s.pc = "sending", s.fin = "none", CallIsOpen(s),
           Loose(s) => Flows(s),
           NEW t, \E busy \in BOOLEAN : t = WaitOrFail(s, busy)
    PROVE  SendInv(t) /\ Move(s, t)
<1> PICK busy \in BOOLEAN : t = WaitOrFail(s, busy)
    OBVIOUS
<1> DEFINE free == sk_stream_memory_free(s)
           waits == sk_stream_wait_memory(s)
           refused == [waits EXCEPT !.vm_wait = FALSE]
<1>1. /\ s \in Tx /\ s.write_seq \in Nat /\ s.snd_una \in Nat
      /\ SndBuf \in Nat /\ SndBuf > 0
    BY TxFields, Constants DEF Core
<1>2. free \in BOOLEAN /\ (free = FALSE => s.snd_una < s.write_seq)
    BY <1>1 DEF sk_stream_memory_free, wmem_queued
<1>3. waits = [s EXCEPT !.nospace = TRUE, !.event = FALSE, !.pc = "asleep",
                        !.vm_wait = free]
    BY DEF sk_stream_wait_memory
<1>4. \/ s.call.block /\ t = waits
      \/ t = SendFails(refused, busy)
    BY DEF WaitOrFail
<1> HIDE DEF free, waits
<1>5. /\ Same(s, waits) /\ waits.pc = "asleep" /\ waits.call = s.call
      /\ waits.nonagle = s.nonagle /\ waits.held = s.held
      /\ waits.nospace = TRUE /\ waits.vm_wait = free
    BY ONLY <1>1, <1>2, <1>3 DEF Tx, Same
<1>6. Core(waits) /\ Move(s, waits) /\ (Flows(waits) <=> Flows(s))
    BY <1>5, CoreSame
<1>7. /\ waits.fin = "none"
      /\ (waits.call.oob => waits.call.copied = 0)
      /\ (Loose(waits) => Flows(waits))
    BY <1>5, <1>6 DEF CallIsOpen, InCall, Loose, Same
<1>8. CASE s.call.block /\ t = waits
  <2>1. FinIsLast(t) /\ CallIsOpen(t)
      BY <1>5, <1>7, <1>8 DEF FinIsLast, CallIsOpen, InCall, Same
  <2>2. WillWake(t)
      BY <1>2, <1>5, <1>8 DEF WillWake, Same
  <2>3. Pushed(t)
      BY <1>7, <1>8 DEF Pushed, Loose
  <2> QED
      BY <1>6, <1>8, <2>1, <2>2, <2>3 DEF SendInv
<1>9. CASE t = SendFails(refused, busy)
  <2>1. refused = [waits EXCEPT !.vm_wait = FALSE]
      OBVIOUS
  <2> HIDE DEF refused
  <2>2. /\ Same(waits, refused) /\ refused.call = waits.call
        /\ refused.nonagle = waits.nonagle /\ refused.held = waits.held
        /\ refused.nospace = waits.nospace
    <3>1. waits \in Tx
        BY <1>6 DEF Core
    <3> QED
        BY ONLY <2>1, <3>1 DEF Tx, Same
  <2>3. /\ Core(refused) /\ Move(waits, refused)
        /\ (Flows(refused) <=> Flows(waits))
      BY <1>6, <2>2, CoreSame
  <2>4. /\ refused.fin = "none" /\ (refused.call.oob => refused.call.copied = 0)
        /\ (Loose(refused) => Flows(refused)) /\ refused.nospace = TRUE
      BY <1>5, <1>7, <2>2, <2>3 DEF Same, Loose
  <2>5. \E b \in BOOLEAN : t = SendFails(refused, b)
      BY <1>9
  <2>6. SendInv(t) /\ Move(refused, t)
      BY ONLY <2>3, <2>4, <2>5, FailsIs
  <2> QED
      BY <1>6, <2>3, <2>6, MoveTwice DEF SendInv
<1> QED
    BY <1>4, <1>8, <1>9

(* wait_for_memory: with what the call has copied pushed first.            *)
LEMMA WaitForMemoryIs ==
    ASSUME NEW s, SendInv(s), s.pc = "sending",
           NEW t, \E busy \in BOOLEAN : t = wait_for_memory(s, busy)
    PROVE  SendInv(t) /\ Move(s, t)
<1> PICK busy \in BOOLEAN : t = wait_for_memory(s, busy)
    OBVIOUS
<1>1. /\ Core(s) /\ s.fin = "none" /\ CallIsOpen(s) /\ s.call.oob \in BOOLEAN
      /\ ((s.call.copied = 0 /\ Loose(s)) => Flows(s))
      /\ s.call.copied \in Nat
    BY TxFields DEF SendInv, FinIsLast, Pushed, Loose, Core, SendCall
<1>2. CASE s.call.kind = "msg" /\ s.call.copied = 0
  <2>1. t = WaitOrFail(s, busy)
      BY <1>2 DEF wait_for_memory, wait_for_memory_msg
  <2>2. \E b \in BOOLEAN : t = WaitOrFail(s, b)
      BY <2>1
  <2>3. Loose(s) => Flows(s)
      BY <1>1, <1>2
  <2> QED
      BY ONLY <1>1, <2>2, <2>3, s.pc = "sending", WaitIs
<1>3. CASE ~(s.call.kind = "msg" /\ s.call.copied = 0)
  <2> DEFINE p == PushBeforeWait(s, busy)
  <2>1. t = WaitOrFail(p, busy)
    <3>1. s.call.kind = "msg" => s.call.copied > 0
        BY <1>1, <1>3
    <3> QED
        BY <3>1 DEF wait_for_memory, wait_for_memory_msg, wait_for_memory_pages
  <2>2. s.call.oob = FALSE
      BY <1>1, <1>3 DEF CallIsOpen, InCall
  <2>3. p = tcp_push(s, FALSE, {NAGLE_PUSH}, busy)
      BY DEF PushBeforeWait
  <2> HIDE DEF p
  <2>4. PushOf(s, p)
      BY <2>3, Zenon DEF PushOf
  <2>5. /\ Core(p) /\ SameCall(s, p) /\ Move(s, p) /\ p.fin = "none"
        /\ p.urg = s.urg
        /\ ((p.held = FALSE /\ NAGLE_CORK \notin p.nonagle) => Flows(p))
      BY <1>1, <2>2, <2>4, PushIs
  <2>6. p.pc = "sending" /\ CallIsOpen(p)
      BY <1>1, <2>5 DEF SameCall, CallIsOpen, InCall
  <2>7. \E b \in BOOLEAN : t = WaitOrFail(p, b)
      BY <2>1
  <2>8. Loose(p) => Flows(p)
      BY <2>5 DEF Loose
  <2>9. SendInv(t) /\ Move(p, t)
      BY ONLY <2>5, <2>6, <2>7, <2>8, WaitIs
  <2> QED
      BY <1>1, <2>5, <2>9, MoveTwice DEF SendInv
<1> QED
    BY <1>2, <1>3

-----------------------------------------------------------------------------
(* The loop of both calls.                                                 *)

LEMMA Product ==
    ASSUME NEW a \in Nat, NEW b \in Nat
    PROVE  a * b \in Nat /\ ((a > 0 /\ b > 0) => a * b > 0)
    OBVIOUS

LEMMA GoalIs ==
    ASSUME NEW s, s.call.oob \in BOOLEAN
    PROVE  size_goal(s) \in Nat /\ size_goal(s) > 0
<1> DEFINE most == GsoMax * Mss
           size == tcp_bound_to_half_wnd(most)
           segs == size \div Mss
<1>1. /\ Mss \in Nat /\ Mss > 0 /\ GsoMax \in Nat
      /\ MaxWindow \in Nat
    BY Constants
<1>2. most \in Nat
    BY <1>1, Product
<1> HIDE DEF most
<1>3. size \in Nat
    BY <1>1, <1>2 DEF tcp_bound_to_half_wnd
<1> HIDE DEF size
<1>4. segs \in Nat
    BY <1>1, <1>3
<1>5. size_goal(s) = IF s.call.oob = FALSE /\ segs > 1 THEN segs * Mss ELSE Mss
    BY DEF size_goal, tcp_xmit_size_goal, segs, size, most
<1> HIDE DEF segs
<1>6. segs * Mss \in Nat /\ (segs > 1 => segs * Mss > 0)
    BY <1>1, <1>4, Product
<1> QED
    BY <1>1, <1>4, <1>5, <1>6

LEMMA SentIsWritten ==
    ASSUME NEW s, Core(s), s.fin # "sent"
    PROVE  s.snd_nxt <= s.write_seq
<1>1. /\ s.queue \in Seq(Skb) /\ s.snd_nxt \in Nat /\ s.write_seq \in Nat
      /\ Run(s.queue, s.snd_nxt, s.write_seq)
    BY TxFields DEF Core, Queues
<1>2. CASE Len(s.queue) = 0
    BY <1>1, <1>2 DEF Run
<1>3. CASE Len(s.queue) > 0
    BY <1>1, <1>3, RunHead
<1> QED
    BY <1>1, <1>2, <1>3, Buffers

(* A call with bytes copied, between a copy and what follows it.           *)
Copied(s) ==
    /\ Core(s)
    /\ NoneEmpty(s)
    /\ s.pc = "sending"
    /\ s.fin = "none"
    /\ s.call.copied > 0
    /\ s.call.left \in 0 .. MaxBytes - s.write_seq
    /\ (s.call.oob => (/\ s.call.left = 0
                       /\ s.urg = MaxBytes
                       /\ s.snd_nxt < s.write_seq))

LEMMA AfterCopyIs ==
    ASSUME NEW s, Copied(s), NEW t, \E busy \in BOOLEAN : t = AfterCopy(s, busy)
    PROVE  SendInv(t) /\ Move(s, t)
<1> PICK busy \in BOOLEAN : t = AfterCopy(s, busy)
    OBVIOUS
<1>1. /\ s \in Tx /\ s.call.copied \in Nat /\ s.call.left \in Nat
      /\ s.call.oob \in BOOLEAN /\ s.write_seq \in Nat /\ MaxBytes \in Nat
      /\ s.queue \in Seq(Skb)
    BY TxFields, Constants DEF Copied, Core, SendCall, Queues
<1>2. CASE s.call.left = 0
  <2>1. t = SendOut(s, busy)
      BY <1>2 DEF AfterCopy
  <2>2. \E b \in BOOLEAN : t = SendOut(s, b)
      BY <2>1
  <2>3. /\ Core(s) /\ NoneEmpty(s) /\ s.fin = "none"
        /\ (s.call.oob /\ s.call.copied # 0)
               => (s.urg = MaxBytes /\ s.snd_nxt < s.write_seq)
        /\ (s.call.copied = 0 /\ Loose(s)) => Flows(s)
      BY <1>1 DEF Copied
  <2> QED
      BY ONLY <2>2, <2>3, OutIs
<1>3. CASE s.call.left # 0
  <2>1. s.call.oob = FALSE /\ s.call.left \in 1 .. MaxBytes - s.write_seq
      BY <1>1, <1>3 DEF Copied
  <2>2. Core(t) /\ Move(s, t) /\ SameCall(s, t) /\ t.fin = "none"
    <3>1. CASE t = s
        BY <3>1, SentItself, SentMove DEF Copied, Sent
    <3>2. CASE t = tcp_write_xmit(tcp_mark_push(s), {NAGLE_PUSH})
      <4> DEFINE m == tcp_mark_push(s)
      <4>1. Same(s, m) /\ SameCall(s, m)
          BY MarkedPush DEF Copied
      <4>2. Core(m) /\ Move(s, m) /\ m.fin = "none"
          BY <4>1, CoreSame DEF Copied, Same
      <4>3. t = tcp_write_xmit(m, {NAGLE_PUSH})
          BY <3>2
      <4> HIDE DEF m
      <4>4. Core(t) /\ Sent(m, t)
          BY <4>2, <4>3, XmitIs
      <4> QED
          BY <4>1, <4>2, <4>4, SentMove, MoveTwice, SameCallTwice DEF Sent, Copied
    <3>3. CASE t = tcp_push_one(s) /\ CanSend(s, {NAGLE_PUSH})
      <4>1. t = XmitPass(s, {NAGLE_PUSH})
          BY <3>3 DEF XmitPass, tcp_push_one
      <4>2. Core(t) /\ Sent(s, t)
          BY <4>1, PassIs DEF Copied
      <4> QED
          BY <4>2, SentMove DEF Sent, Copied
    <3>4. CASE t = tcp_push_one(s) /\ ~CanSend(s, {NAGLE_PUSH})
      <4>1. t = s
          BY <3>4 DEF tcp_push_one
      <4> QED
          BY <3>1, <4>1
    <3> QED
        BY <1>3, <3>1, <3>2, <3>3, <3>4 DEF AfterCopy, __tcp_push_pending_frames
  <2>3. FinIsLast(t) /\ WillWake(t)
      BY <2>2 DEF Copied, SameCall, FinIsLast, WillWake
  <2>4. CallIsOpen(t)
      BY <2>1, <2>2 DEF Copied, SameCall, CallIsOpen, InCall
  <2>5. Pushed(t)
      BY <1>1, <2>2 DEF Copied, SameCall, Pushed
  <2> QED
      BY <2>2, <2>3, <2>4, <2>5 DEF SendInv
<1> QED
    BY <1>2, <1>3

LEMMA CopyIs ==
    ASSUME NEW s, SendInv(s), s.pc = "sending", HasRoom(s),
           NEW t, \E busy \in BOOLEAN : t = Copy(s, busy)
    PROVE  SendInv(t) /\ Move(s, t)
<1> PICK busy \in BOOLEAN : t = Copy(s, busy)
    OBVIOUS
<1> DEFINE room == size_goal(s) - SkbLen(tcp_write_queue_tail(s))
           copy == Minimum(room, s.call.left)
           a == Extend(s, copy)
<1>1. /\ Core(s) /\ s.fin = "none" /\ CallIsOpen(s) /\ HasTail(s)
    BY DEF SendInv, FinIsLast, HasRoom
<1>2. /\ s \in Tx /\ s.call.copied \in Nat /\ s.call.left \in Nat
      /\ s.call.oob \in BOOLEAN /\ s.write_seq \in Nat /\ MaxBytes \in Nat
      /\ s.queue \in Seq(Skb) /\ s.snd_nxt \in Nat
    BY <1>1, TxFields, Constants DEF Core, SendCall, Queues
<1>3. room \in Nat /\ room > 0
  <2>1. SkbLen(tcp_write_queue_tail(s)) \in Int
    <3>1. Len(s.queue) > 0 /\ Run(s.queue, s.snd_nxt, s.write_seq)
        BY <1>1, <1>2, Buffers DEF HasTail, Core
    <3>2. /\ Last(s.queue) = s.queue[Len(s.queue)]
          /\ s.queue[Len(s.queue)].seq \in Nat
          /\ s.queue[Len(s.queue)].end = s.write_seq
        BY <1>2, <3>1, RunDrops
    <3> QED
        BY <1>2, <3>2 DEF SkbLen, tcp_write_queue_tail
  <2>2. size_goal(s) \in Nat /\ SkbLen(tcp_write_queue_tail(s)) < size_goal(s)
      BY <1>2, GoalIs DEF HasRoom
  <2> QED
      BY <2>1, <2>2
<1> HIDE DEF room
<1>4. /\ s.call.left \in 1 .. MaxBytes - s.write_seq
      /\ (s.call.oob => (s.call.left = 1 /\ s.urg = MaxBytes))
    BY <1>1 DEF CallIsOpen, InCall
<1>5. copy \in Nat /\ copy > 0 /\ copy <= s.call.left
    BY <1>2, <1>3, <1>4 DEF Minimum
<1>6. t = AfterCopy(a, busy)
    BY DEF Copy, room
<1>7. a = Extend(s, copy)
    OBVIOUS
<1> HIDE DEF copy, a
<1>8. s.write_seq + copy <= MaxBytes
    BY <1>2, <1>4, <1>5
<1>9. /\ Core(a) /\ NoneEmpty(a) /\ Keeps(s, a) /\ Move(s, a)
      /\ a.pc = s.pc /\ a.write_seq = s.write_seq + copy
      /\ a.call.left = s.call.left - copy
      /\ a.call.copied = s.call.copied + copy
      /\ a.call.oob = s.call.oob
    BY <1>1, <1>5, <1>7, <1>8, Extended
<1>10. Copied(a)
  <2>1. s.snd_nxt <= s.write_seq
      BY <1>1, SentIsWritten
  <2>2. a.snd_nxt < a.write_seq
      BY <1>2, <1>5, <1>9, <2>1 DEF Keeps
  <2>3. a.call.left \in 0 .. MaxBytes - a.write_seq /\ a.call.copied > 0
      BY <1>2, <1>4, <1>5, <1>9
  <2>4. a.call.oob => (a.call.left = 0 /\ a.urg = MaxBytes)
      BY <1>2, <1>4, <1>5, <1>9 DEF Keeps
  <2> QED
      BY <1>1, <1>9, <2>2, <2>3, <2>4 DEF Copied, Keeps
<1>11. \E b \in BOOLEAN : t = AfterCopy(a, b)
    BY <1>6
<1>12. SendInv(t) /\ Move(a, t)
    BY <1>10, <1>11, AfterCopyIs
<1> QED
    BY <1>1, <1>9, <1>12, MoveTwice DEF SendInv

LEMMA MidSame ==
    ASSUME NEW s, SendInv(s), s.pc = "sending", NEW t, Same(s, t), t.pc = s.pc,
           t.call = s.call, t.nonagle = s.nonagle, t.held = s.held
    PROVE  SendInv(t) /\ Move(s, t) /\ (NoneEmpty(t) <=> NoneEmpty(s))
<1>1. /\ Core(t) /\ Move(s, t) /\ (NoneEmpty(t) <=> NoneEmpty(s))
      /\ (Flows(t) <=> Flows(s))
    BY CoreSame DEF SendInv
<1>2. FinIsLast(t) /\ CallIsOpen(t) /\ WillWake(t)
    BY DEF SendInv, FinIsLast, CallIsOpen, WillWake, InCall, Same
<1>3. Pushed(t)
    BY <1>1 DEF SendInv, Pushed
<1> QED
    BY <1>1, <1>2, <1>3 DEF SendInv

LEMMA MarkedMid ==
    ASSUME NEW s, SendInv(s), s.pc = "sending", NEW t, t = tcp_mark_push(s)
    PROVE  /\ SendInv(t) /\ Move(s, t) /\ (NoneEmpty(t) <=> NoneEmpty(s))
           /\ t.pc = "sending"
    BY MarkedPush, MidSame DEF SendInv, SameCall

LEMMA NoMemoryIs ==
    ASSUME NEW s, SendInv(s), s.pc = "sending", NEW t, t = NoMemory(s)
    PROVE  SendInv(t) /\ Move(s, t) /\ t.pc = "sending"
<1> DEFINE n == s.chances + 1
<1>1. s \in Tx /\ n \in Nat
    BY TxFields DEF SendInv, Core
<1>2. t = [s EXCEPT !.chances = n]
    BY DEF NoMemory
<1> HIDE DEF n
<1>3. /\ Same(s, t) /\ t.pc = s.pc /\ t.call = s.call /\ t.nonagle = s.nonagle
      /\ t.held = s.held
    BY ONLY <1>1, <1>2 DEF Tx, Same
<1> QED
    BY <1>3, MidSame

LEMMA NoSpaceIs ==
    ASSUME NEW s, SendInv(s), s.pc = "sending", NEW t,
           t = [s EXCEPT !.nospace = TRUE]
    PROVE  SendInv(t) /\ Move(s, t) /\ t.pc = "sending"
<1>1. s \in Tx
    BY DEF SendInv, Core
<1>2. t = [s EXCEPT !.nospace = TRUE]
    OBVIOUS
<1>3. /\ Same(s, t) /\ t.pc = s.pc /\ t.call = s.call /\ t.nonagle = s.nonagle
      /\ t.held = s.held
    BY ONLY <1>1, <1>2 DEF Tx, Same
<1> QED
    BY <1>3, MidSame

LEMMA EntailedMid ==
    ASSUME NEW s, SendInv(s), s.pc = "sending", NoneEmpty(s),
           NEW t, t = skb_entail(s)
    PROVE  SendInv(t) /\ Move(s, t) /\ t.pc = "sending" /\ HasRoom(t)
<1>1. Core(s) /\ s.fin = "none"
    BY DEF SendInv, FinIsLast
<1>2. /\ Core(t) /\ SameCall(s, t) /\ Keeps(s, t) /\ Move(s, t) /\ HasTail(t)
      /\ SkbLen(tcp_write_queue_tail(t)) = 0
      /\ (Flows(s) => Flows(t))
    BY <1>1, Entailed
<1>3. FinIsLast(t) /\ CallIsOpen(t) /\ WillWake(t)
    BY <1>2 DEF SendInv, FinIsLast, CallIsOpen, WillWake, InCall, SameCall, Keeps
<1>4. Pushed(t)
    BY <1>2 DEF SendInv, Pushed, SameCall, Keeps
<1>5. HasRoom(t)
  <2>1. t.call.oob \in BOOLEAN
      BY <1>2, TxFields DEF Core, SendCall
  <2>2. size_goal(t) \in Nat /\ size_goal(t) > 0
      BY <2>1, GoalIs
  <2> QED
      BY <1>2, <2>2 DEF HasRoom
<1> QED
    BY <1>2, <1>3, <1>4, <1>5 DEF SendInv, SameCall

(* new_segment: with its outcomes.                                         *)
LEMMA NewSegmentIs ==
    ASSUME NEW s, SendInv(s), s.pc = "sending", NoneEmpty(s),
           NewSegment(s) \/ NewSegmentFails(s) \/ NoRoom(s)
    PROVE  SendInv(tx') /\ Move(s, tx')
<1> DEFINE a == skb_entail(s)
<1>1. SendInv(a) /\ Move(s, a) /\ a.pc = "sending" /\ HasRoom(a)
    BY EntailedMid
<1>2. CASE NewSegment(s)
  <2>1. \E busy \in BOOLEAN : tx' = Copy(a, busy)
      BY <1>2 DEF NewSegment
  <2> HIDE DEF a
  <2>2. SendInv(tx') /\ Move(a, tx')
      BY <1>1, <2>1, CopyIs
  <2> QED
      BY <1>1, <2>2, MoveTwice DEF SendInv
<1>3. CASE NewSegmentFails(s)
  <2>1. PICK failed \in {s, a} :
            \E busy \in BOOLEAN : tx' = wait_for_memory(NoMemory(failed), busy)
      BY <1>3 DEF NewSegmentFails
  <2>2. SendInv(failed) /\ Move(s, failed) /\ failed.pc = "sending"
    <3>1. CASE failed = s
        BY <3>1, SentItself, SentMove DEF SendInv
    <3>2. CASE failed = a
        BY <3>2, <1>1
    <3> QED
        BY <2>1, <3>1, <3>2
  <2> DEFINE f == NoMemory(failed)
  <2>3. \E busy \in BOOLEAN : tx' = wait_for_memory(f, busy)
      BY <2>1
  <2>4. SendInv(f) /\ Move(failed, f) /\ f.pc = "sending"
      BY <2>2, NoMemoryIs
  <2> HIDE DEF f
  <2>5. SendInv(tx') /\ Move(f, tx')
      BY <2>3, <2>4, WaitForMemoryIs
  <2>6. Move(s, f)
      BY <2>2, <2>4, MoveTwice DEF SendInv
  <2> QED
      BY <2>4, <2>5, <2>6, MoveTwice DEF SendInv
<1>4. CASE NoRoom(s)
  <2> DEFINE f == [s EXCEPT !.nospace = TRUE]
  <2>1. \E busy \in BOOLEAN : tx' = wait_for_memory(f, busy)
      BY <1>4 DEF NoRoom
  <2>2. f = [s EXCEPT !.nospace = TRUE]
      OBVIOUS
  <2> HIDE DEF f
  <2>3. SendInv(f) /\ Move(s, f) /\ f.pc = "sending"
      BY <2>2, NoSpaceIs
  <2>4. SendInv(tx') /\ Move(f, tx')
      BY <2>1, <2>3, WaitForMemoryIs
  <2> QED
      BY <2>3, <2>4, MoveTwice DEF SendInv
<1> QED
    BY <1>2, <1>3, <1>4

LEMMA TailIsFull ==
    ASSUME NEW s, SendInv(s), s.pc = "sending",
           ~HasRoom(s) \/ (HasTail(s) /\ SkbLen(tcp_write_queue_tail(s)) > 0)
    PROVE  NoneEmpty(s)
<1>1. Core(s) /\ s.fin = "none"
    BY DEF SendInv, FinIsLast
<1>2. /\ s.queue \in Seq(Skb) /\ s.snd_nxt \in Nat /\ s.write_seq \in Nat
      /\ Run(s.queue, s.snd_nxt, s.write_seq) /\ s.call.oob \in BOOLEAN
    BY <1>1, TxFields DEF Core, Queues, SendCall
<1>3. CASE Len(s.queue) = 0
    BY <1>3 DEF NoneEmpty, Full
<1>4. CASE Len(s.queue) > 0
  <2>1. HasTail(s)
      BY <1>2, <1>4 DEF HasTail
  <2>2. size_goal(s) \in Nat /\ size_goal(s) > 0
      BY <1>2, GoalIs
  <2>3. SkbLen(tcp_write_queue_tail(s)) # 0
      BY <2>1, <2>2 DEF HasRoom
  <2> QED
      BY <1>2, <1>4, <2>3, RunDrops DEF NoneEmpty, tcp_write_queue_tail
<1> QED
    BY <1>2, <1>3, <1>4, Buffers

LEMMA SendPassIs ==
    ASSUME SendInv(tx), SendPass
    PROVE  SendInv(tx') /\ Move(tx, tx')
<1>1. tx.pc = "sending" /\ (TailRefuses \/ TailTakes)
    BY DEF SendPass
<1>2. CASE TailRefuses
  <2>1. PICK s \in {tx, tcp_mark_push(tx)} :
            /\ ~HasRoom(tx) \/ (HasTail(tx) /\ SkbLen(tcp_write_queue_tail(tx)) > 0)
            /\ NewSegment(s) \/ NewSegmentFails(s) \/ NoRoom(s)
      BY <1>2 DEF TailRefuses, HasRoom
  <2>2. NoneEmpty(tx)
      BY <1>1, <2>1, TailIsFull
  <2>3. SendInv(s) /\ Move(tx, s) /\ NoneEmpty(s) /\ s.pc = "sending"
    <3>1. CASE s = tx
        BY <1>1, <2>2, <3>1, SentItself, SentMove DEF SendInv
    <3>2. CASE s = tcp_mark_push(tx)
        BY <1>1, <2>2, <3>2, MarkedMid
    <3> QED
        BY <2>1, <3>1, <3>2
  <2>4. SendInv(tx') /\ Move(s, tx')
      BY <2>1, <2>3, NewSegmentIs
  <2> QED
      BY <2>3, <2>4, MoveTwice DEF SendInv
<1>3. CASE TailTakes
  <2>1. CASE HasRoom(tx) /\ \E busy \in BOOLEAN : tx' = Copy(tx, busy)
      BY <1>1, <2>1, CopyIs
  <2>2. CASE \E busy \in BOOLEAN : tx' = wait_for_memory(NoMemory(tx), busy)
    <3> DEFINE f == NoMemory(tx)
    <3>1. \E busy \in BOOLEAN : tx' = wait_for_memory(f, busy)
        BY <2>2
    <3>2. SendInv(f) /\ Move(tx, f) /\ f.pc = "sending"
        BY <1>1, NoMemoryIs
    <3> HIDE DEF f
    <3>3. SendInv(tx') /\ Move(f, tx')
        BY <3>1, <3>2, WaitForMemoryIs
    <3> QED
        BY <3>2, <3>3, MoveTwice DEF SendInv
  <2> QED
      BY <1>3, <2>1, <2>2 DEF TailTakes
<1> QED
    BY <1>1, <1>2, <1>3

-----------------------------------------------------------------------------
(* The other steps of the sender.                                          *)

LEMMA SendStartIs ==
    ASSUME SendInv(tx), SendStart
    PROVE  SendInv(tx') /\ Move(tx, tx')
<1>1. /\ Core(tx) /\ tx \in Tx /\ tx.fin = "none" /\ NoneEmpty(tx)
      /\ tx.pc \in {"idle", "eagain"} /\ (Loose(tx) => Flows(tx))
      /\ tx.write_seq \in Nat /\ MaxBytes \in Nat
    BY TxFields, Constants
    DEF SendInv, Core, SendStart, CallIsOpen, InCall, Pushed, Loose
<1>2. PICK call \in Sends :
         /\ call.len <= MaxBytes - tx.write_seq
         /\ (call.oob => tx.urg = MaxBytes)
         /\ tx' = [tx EXCEPT !.pc = "sending", !.event = FALSE, !.nospace = FALSE,
                     !.call = [kind |-> call.kind, left |-> call.len,
                               copied |-> 0, more |-> call.more,
                               oob |-> call.oob, block |-> call.block]]
    BY DEF SendStart
<1>3. /\ call.kind \in {"msg", "pages"} /\ call.len \in 1 .. MaxBytes
      /\ call.more \in BOOLEAN /\ call.oob \in BOOLEAN /\ call.block \in BOOLEAN
      /\ (call.oob => (call.kind = "msg" /\ call.len = 1))
    BY SendAssumption
<1> DEFINE c == [kind |-> call.kind, left |-> call.len, copied |-> 0,
                 more |-> call.more, oob |-> call.oob, block |-> call.block]
<1>4. /\ c \in SendCall /\ c.left \in 1 .. MaxBytes - tx.write_seq
      /\ c.copied = 0
      /\ (c.oob => (c.kind = "msg" /\ c.left = 1 /\ tx.urg = MaxBytes))
    BY <1>1, <1>2, <1>3 DEF SendCall
<1>5. tx' = [tx EXCEPT !.pc = "sending", !.event = FALSE, !.nospace = FALSE,
                       !.call = c]
    BY <1>2
<1> HIDE DEF c
<1>6. /\ Same(tx, tx') /\ tx'.pc = "sending" /\ tx'.call = c
      /\ tx'.nonagle = tx.nonagle /\ tx'.held = tx.held
    BY ONLY <1>1, <1>4, <1>5 DEF Tx, Same
<1>7. Core(tx') /\ Move(tx, tx') /\ (Flows(tx') <=> Flows(tx))
    BY <1>1, <1>6, CoreSame
<1>8. FinIsLast(tx') /\ WillWake(tx')
    BY <1>1, <1>6 DEF FinIsLast, WillWake, Same
<1>9. CallIsOpen(tx')
    BY <1>4, <1>6 DEF CallIsOpen, InCall, Same
<1>10. Pushed(tx')
    BY <1>1, <1>6, <1>7 DEF Pushed, Loose
<1> QED
    BY <1>7, <1>8, <1>9, <1>10 DEF SendInv

LEMMA SendResumesIs ==
    ASSUME SendInv(tx), SendResumes
    PROVE  SendInv(tx') /\ Move(tx, tx')
<1>1. /\ Core(tx) /\ tx \in Tx /\ tx.pc = "asleep" /\ tx.fin = "none"
      /\ CallIsOpen(tx) /\ (Loose(tx) => Flows(tx))
    BY DEF SendInv, Core, SendResumes, FinIsLast, Pushed, Loose
<1>2. tx' = [tx EXCEPT !.pc = "sending", !.event = FALSE, !.vm_wait = FALSE,
                       !.nospace = FALSE]
    BY DEF SendResumes
<1>3. /\ Same(tx, tx') /\ tx'.pc = "sending" /\ tx'.call = tx.call
      /\ tx'.nonagle = tx.nonagle /\ tx'.held = tx.held
    BY ONLY <1>1, <1>2 DEF Tx, Same
<1>4. Core(tx') /\ Move(tx, tx') /\ (Flows(tx') <=> Flows(tx))
    BY <1>1, <1>3, CoreSame
<1>5. FinIsLast(tx') /\ WillWake(tx')
    BY <1>1, <1>3 DEF FinIsLast, WillWake, Same
<1>6. CallIsOpen(tx')
    BY <1>1, <1>3 DEF CallIsOpen, InCall, Same
<1>7. Pushed(tx')
    BY <1>1, <1>3, <1>4 DEF Pushed, Loose
<1> QED
    BY <1>4, <1>5, <1>6, <1>7 DEF SendInv

(* A push outside a call that copies: all but the wake-up is restored.     *)
LEMMA PendingIs ==
    ASSUME NEW s, Core(s), s.pc # "sending", FinIsLast(s), CallIsOpen(s),
           NEW t, t = tcp_push_pending_frames(s)
    PROVE  /\ Core(t) /\ FinIsLast(t) /\ CallIsOpen(t) /\ Pushed(t)
           /\ Move(s, t) /\ SameCall(s, t)
<1>1. t = tcp_write_xmit(s, s.nonagle)
    BY DEF tcp_push_pending_frames, __tcp_push_pending_frames
<1>2. Core(t) /\ Sent(s, t)
    BY <1>1, XmitIs
<1>3. FinIsLast(t)
    BY <1>2 DEF FinIsLast, Sent, SameCall
<1>4. CallIsOpen(t)
    BY <1>2 DEF CallIsOpen, InCall, Sent, SameCall
<1>5. Pushed(t)
  <2> SUFFICES ASSUME NAGLE_CORK \notin t.nonagle PROVE Flows(t)
      BY DEF Pushed
  <2>1. NAGLE_CORK \notin s.nonagle
      BY <1>2 DEF Sent
  <2>2. s.fin = "queued" => NoneEmpty(s)
      BY DEF FinIsLast, CallIsOpen, InCall
  <2> QED
      BY <1>1, <2>1, <2>2, XmitFlows
<1> QED
    BY <1>2, <1>3, <1>4, <1>5, SentMove DEF Sent

LEMMA WakeKept ==
    ASSUME NEW s, NEW t, WillWake(s), SameCall(s, t)
    PROVE  WillWake(t)
    BY DEF WillWake, SameCall

LEMMA TsqIs ==
    ASSUME SendInv(tx), tcp_tsq_handler
    PROVE  SendInv(tx') /\ Move(tx, tx')
<1> DEFINE a == [tx EXCEPT !.throttled = FALSE]
<1>1. tx.pc # "sending" /\ tx' = tcp_push_pending_frames(a)
    BY DEF tcp_tsq_handler
<1>2. Same(tx, a) /\ SameCall(tx, a)
    BY FlagThrottled DEF SendInv
<1> HIDE DEF a
<1>3. Core(a) /\ Move(tx, a) /\ (NoneEmpty(a) <=> NoneEmpty(tx))
    BY <1>2, CoreSame DEF SendInv
<1>4. FinIsLast(a) /\ CallIsOpen(a) /\ WillWake(a) /\ a.pc # "sending"
    BY <1>1, <1>2, <1>3, WakeKept
    DEF SendInv, FinIsLast, CallIsOpen, InCall, Same, SameCall
<1>5. /\ Core(tx') /\ FinIsLast(tx') /\ CallIsOpen(tx') /\ Pushed(tx')
      /\ Move(a, tx') /\ SameCall(a, tx')
    BY <1>1, <1>3, <1>4, PendingIs
<1>6. Core(tx)
    BY DEF SendInv
<1>7. WillWake(tx') /\ Move(tx, tx')
    BY <1>3, <1>4, <1>5, <1>6, WakeKept, MoveTwice
<1> QED
    BY <1>5, <1>7 DEF SendInv

LEMMA SendShutdownIs ==
    ASSUME SendInv(tx), SendShutdown
    PROVE  SendInv(tx') /\ Move(tx, tx')
<1> DEFINE a == [tx EXCEPT !.fin = "queued", !.held = FALSE, !.pc = "idle"]
<1>1. /\ Core(tx) /\ tx \in Tx /\ tx.pc \in {"idle", "eagain"} /\ tx.fin = "none"
      /\ tx.write_seq = MaxBytes /\ NoneEmpty(tx) /\ tx.call = NoCall
    BY DEF SendInv, Core, SendShutdown, CallIsOpen, InCall
<1>2. tx' = tcp_write_xmit(a, {NAGLE_OFF})
    BY DEF SendShutdown, __tcp_push_pending_frames
<1>3. a = [tx EXCEPT !.fin = "queued", !.held = FALSE, !.pc = "idle"]
    OBVIOUS
<1> HIDE DEF a
<1>4. /\ a \in Tx /\ a.queue = tx.queue /\ a.write_seq = tx.write_seq
      /\ a.snd_nxt = tx.snd_nxt /\ a.snd_una = tx.snd_una
      /\ a.wnd_end = tx.wnd_end /\ a.urg = tx.urg /\ a.fin = "queued"
      /\ a.wire = tx.wire /\ a.pc = "idle" /\ a.call = tx.call
    BY ONLY <1>1, <1>3 DEF Tx
<1>5. Core(a)
  <2>1. Flight(tx.wire, tx.snd_nxt, tx.write_seq, "queued")
      BY <1>1 DEF Core, Flight
  <2> QED
      BY <1>1, <1>4, <2>1 DEF Core
<1>6. Move(tx, a) /\ NoneEmpty(a)
    BY <1>1, <1>4, TxFields DEF Move, NextOut, NoneEmpty
<1>7. Core(tx') /\ Sent(a, tx')
    BY <1>2, <1>5, XmitIs
<1>8. Flows(tx')
  <2>1. NAGLE_CORK \notin {NAGLE_OFF}
      BY DEF NAGLE_CORK, NAGLE_OFF
  <2> QED
      BY <1>2, <1>5, <1>6, <2>1, XmitFlows
<1>9. Move(tx, tx')
    BY <1>1, <1>5, <1>6, <1>7, SentMove, MoveTwice
<1>10. FinIsLast(tx') /\ CallIsOpen(tx') /\ WillWake(tx')
    BY <1>1, <1>4, <1>6, <1>7
    DEF FinIsLast, CallIsOpen, InCall, WillWake, Sent, SameCall
<1> QED
    BY <1>7, <1>8, <1>9, <1>10 DEF SendInv, Pushed

WithFlags(s, flags, n) == [s EXCEPT !.nonagle = flags, !.chances = n]

LEMMA NonagleIs ==
    ASSUME NEW s, SendInv(s), s.pc = "idle",
           NEW flags \in SUBSET {NAGLE_OFF, NAGLE_CORK, NAGLE_PUSH},
           NEW n \in Nat, NEW t, t = WithFlags(s, flags, n)
    PROVE  /\ Core(t) /\ FinIsLast(t) /\ CallIsOpen(t) /\ WillWake(t)
           /\ Move(s, t) /\ t.pc = "idle" /\ t.nonagle = flags
           /\ t.held = s.held /\ (Flows(t) <=> Flows(s))
<1>1. s \in Tx /\ Core(s)
    BY DEF SendInv, Core
<1>2. /\ Same(s, t) /\ t.pc = s.pc /\ t.call = s.call /\ t.nonagle = flags
      /\ t.held = s.held
  <2>1. t = [s EXCEPT !.nonagle = flags, !.chances = n]
      BY DEF WithFlags
  <2> QED
      BY ONLY <1>1, <2>1, n \in Nat,
         flags \in SUBSET {NAGLE_OFF, NAGLE_CORK, NAGLE_PUSH} DEF Tx, Same
<1>3. /\ Core(t) /\ Move(s, t) /\ (NoneEmpty(t) <=> NoneEmpty(s))
      /\ (Flows(t) <=> Flows(s))
    BY <1>1, <1>2, CoreSame
<1> QED
    BY <1>2, <1>3 DEF SendInv, FinIsLast, CallIsOpen, InCall, WillWake, Same

LEMMA OptionIs ==
    ASSUME SendInv(tx), SetSendOption
    PROVE  SendInv(tx') /\ Move(tx, tx')
<1> DEFINE All == SUBSET {NAGLE_OFF, NAGLE_CORK, NAGLE_PUSH}
           n == tx.chances + 1
           With(flags) == WithFlags(tx, flags, n)
<1>1. tx \in Tx /\ tx.nonagle \in All /\ n \in Nat /\ tx.pc = "idle" /\ Core(tx)
    BY TxFields DEF SendInv, Core, SetSendOption
<1>2. \/ \E flags \in All : tx' = tcp_push_pending_frames(With(flags))
      \/ \E flags \in All : /\ tx' = With(flags)
                            /\ (NAGLE_CORK \notin flags => NAGLE_CORK \notin tx.nonagle)
  <2> DEFINE s == [tx EXCEPT !.chances = @ + 1]
  <2>1. PICK val \in BOOLEAN : tx' \in {setsockopt_NODELAY(s, val), setsockopt_CORK(s, val)}
      BY DEF SetSendOption
  <2>2. /\ s.nonagle = tx.nonagle
        /\ \A flags \in All : [s EXCEPT !.nonagle = flags] = With(flags)
      BY <1>1 DEF Tx, WithFlags
  <2> DEFINE off == tx.nonagle \cup {NAGLE_OFF, NAGLE_PUSH}
             on == tx.nonagle \ {NAGLE_OFF}
             cork == tx.nonagle \cup {NAGLE_CORK}
             uncork == (tx.nonagle \ {NAGLE_CORK})
                           \cup IF NAGLE_OFF \in tx.nonagle THEN {NAGLE_PUSH} ELSE {}
  <2>3. off \in All /\ on \in All /\ cork \in All /\ uncork \in All
      BY <1>1
  <2>4. /\ NAGLE_CORK \in cork
        /\ (NAGLE_CORK \notin on => NAGLE_CORK \notin tx.nonagle)
      BY DEF NAGLE_OFF, NAGLE_CORK
  <2>5. \/ tx' = tcp_push_pending_frames([s EXCEPT !.nonagle = off])
        \/ tx' = [s EXCEPT !.nonagle = on]
        \/ tx' = [s EXCEPT !.nonagle = cork]
        \/ tx' = tcp_push_pending_frames([s EXCEPT !.nonagle = uncork])
      BY <2>1, <2>2 DEF setsockopt_NODELAY, setsockopt_CORK
  <2> HIDE DEF off, on, cork, uncork, s, All, With
  <2> QED
      BY <2>2, <2>3, <2>4, <2>5
<1>3. \A flags \in All :
          /\ Core(With(flags)) /\ FinIsLast(With(flags)) /\ CallIsOpen(With(flags))
          /\ WillWake(With(flags)) /\ Move(tx, With(flags))
          /\ With(flags).pc = "idle" /\ With(flags).nonagle = flags
          /\ With(flags).held = tx.held /\ (Flows(With(flags)) <=> Flows(tx))
  <2> TAKE flags \in All
  <2> DEFINE a == With(flags)
  <2>1. a = WithFlags(tx, flags, n)
      OBVIOUS
  <2> HIDE DEF a, n
  <2>2. /\ Core(a) /\ FinIsLast(a) /\ CallIsOpen(a) /\ WillWake(a)
        /\ Move(tx, a) /\ a.pc = "idle" /\ a.nonagle = flags
        /\ a.held = tx.held /\ (Flows(a) <=> Flows(tx))
      BY <1>1, <2>1, NonagleIs
  <2> QED
      BY <2>2 DEF a
<1> HIDE DEF All, With
<1>4. CASE \E flags \in All : tx' = tcp_push_pending_frames(With(flags))
  <2> PICK flags \in All : tx' = tcp_push_pending_frames(With(flags))
      BY <1>4
  <2> DEFINE a == With(flags)
  <2>1. /\ Core(a) /\ FinIsLast(a) /\ CallIsOpen(a) /\ WillWake(a)
        /\ Move(tx, a) /\ a.pc = "idle" /\ tx' = tcp_push_pending_frames(a)
      BY <1>3
  <2> HIDE DEF a
  <2>2. /\ Core(tx') /\ FinIsLast(tx') /\ CallIsOpen(tx') /\ Pushed(tx')
        /\ Move(a, tx') /\ SameCall(a, tx')
      BY <2>1, PendingIs
  <2>3. WillWake(tx') /\ Move(tx, tx')
      BY <1>1, <2>1, <2>2, WakeKept, MoveTwice
  <2> QED
      BY <2>2, <2>3 DEF SendInv
<1>5. CASE \E flags \in All : /\ tx' = With(flags)
                              /\ (NAGLE_CORK \notin flags => NAGLE_CORK \notin tx.nonagle)
  <2> PICK flags \in All :
          /\ tx' = With(flags)
          /\ (NAGLE_CORK \notin flags => NAGLE_CORK \notin tx.nonagle)
      BY <1>5
  <2>1. Pushed(tx')
      BY <1>1, <1>3 DEF Pushed, SendInv
  <2> QED
      BY <1>3, <2>1 DEF SendInv
<1> QED
    BY <1>2, <1>4, <1>5

LEMMA SenderIs ==
    ASSUME SendInv(tx), Sender
    PROVE  SendInv(tx') /\ Move(tx, tx')
    BY SendPassIs, SendStartIs, SendResumesIs, SendShutdownIs, OptionIs, TsqIs
    DEF Sender

(* What a step of the sender does, but for the acknowledged bytes.         *)
Follows(s, t) ==
    /\ NextOut(t) = NextOut(s)
    /\ s.write_seq <= t.write_seq
    /\ s.snd_nxt <= t.snd_nxt
    /\ (t.urg = s.urg \/ (s.urg = MaxBytes /\ s.snd_nxt <= t.urg))
    /\ (s.fin = "sent" => (t.fin = "sent" /\ t.write_seq = s.write_seq))

LEMMA MoveFollows ==
    ASSUME NEW s, NEW t, Move(s, t)
    PROVE  Follows(s, t) /\ t.snd_una = s.snd_una /\ t.wnd_end = s.wnd_end
    BY DEF Move, Follows

(* An acknowledgement opens the window, sends what it lets, and wakes.     *)
LEMMA AckIs ==
    ASSUME NEW s, SendInv(s), s.pc # "sending", NEW ack,
           ack.una \in Nat, ack.edge \in Nat, s.snd_una <= ack.una,
           ack.una <= s.snd_nxt, s.snd_nxt <= ack.edge,
           NEW t, t = AckReceived(s, ack)
    PROVE  /\ SendInv(t) /\ Follows(s, t)
           /\ t.snd_una = ack.una /\ t.wnd_end = ack.edge
<1> DEFINE una == ack.una
           edge == ack.edge
           sml == IF s.sml <= una THEN 0 ELSE s.sml
           a == [s EXCEPT !.snd_una = una, !.wnd_end = edge, !.sml = sml]
           p == tcp_push_pending_frames(a)
<1>1. /\ Core(s) /\ s \in Tx /\ s.sml \in Nat /\ s.snd_nxt \in Nat
      /\ s.snd_una \in Nat /\ s.write_seq \in Nat /\ s.urg \in Nat
    BY TxFields DEF SendInv, Core
<1>2. una \in Nat /\ edge \in Nat /\ sml \in Nat
    BY <1>1
<1>3. a = [s EXCEPT !.snd_una = una, !.wnd_end = edge, !.sml = sml]
    OBVIOUS
<1>4. \/ una > s.snd_una /\ s.nospace /\ t = sk_write_space(p)
      \/ ~(una > s.snd_una /\ s.nospace) /\ t = p
    BY DEF AckReceived
<1>5. una <= s.snd_nxt /\ s.snd_una <= una /\ s.snd_nxt <= edge
    OBVIOUS
<1>6. p = tcp_push_pending_frames(a)
    OBVIOUS
<1>7. una = ack.una /\ edge = ack.edge
    OBVIOUS
<1> HIDE DEF una, edge, sml, a, p
<1>8. /\ a \in Tx /\ a.queue = s.queue /\ a.write_seq = s.write_seq
      /\ a.snd_nxt = s.snd_nxt /\ a.snd_una = una
      /\ a.wnd_end = edge /\ a.urg = s.urg /\ a.fin = s.fin
      /\ a.wire = s.wire /\ a.pc = s.pc /\ a.call = s.call
    BY ONLY <1>1, <1>2, <1>3 DEF Tx
<1>9. a.event = s.event /\ a.vm_wait = s.vm_wait /\ a.nospace = s.nospace
    BY ONLY <1>1, <1>2, <1>3 DEF Tx
<1>10. Core(a) /\ FinIsLast(a) /\ CallIsOpen(a) /\ a.pc # "sending"
  <2>1. Core(a)
      BY <1>1, <1>5, <1>8 DEF Core
  <2> QED
      BY <2>1, <1>8 DEF SendInv, FinIsLast, CallIsOpen, InCall, NoneEmpty
<1>11. /\ Core(p) /\ FinIsLast(p) /\ CallIsOpen(p) /\ Pushed(p)
       /\ Move(a, p) /\ SameCall(a, p)
    BY <1>6, <1>10, PendingIs
<1>12. Follows(s, p) /\ p.snd_una = una /\ p.wnd_end = edge
  <2>1. Follows(a, p) /\ p.snd_una = a.snd_una /\ p.wnd_end = a.wnd_end
      BY <1>11, MoveFollows
  <2> QED
      BY <1>8, <2>1 DEF Follows, NextOut
<1>13. CASE una > s.snd_una /\ s.nospace /\ t = sk_write_space(p)
  <2>1. /\ Same(p, t) /\ t.pc = p.pc /\ t.call = p.call
        /\ t.nonagle = p.nonagle /\ t.held = p.held
        /\ ((p.nospace /\ p.pc \in {"asleep", "eagain"})
                => (t.event \/ (t.nospace /\ t.snd_una < t.write_seq)))
      BY <1>11, <1>13, WriteSpaceIs
  <2>2. /\ Core(t) /\ Move(p, t) /\ (NoneEmpty(t) <=> NoneEmpty(p))
        /\ (Flows(t) <=> Flows(p))
      BY <1>11, <2>1, CoreSame
  <2>3. WillWake(t)
      BY <1>9, <1>11, <1>13, <2>1 DEF WillWake, SameCall
  <2>4. FinIsLast(t) /\ CallIsOpen(t)
      BY <1>11, <2>1, <2>2 DEF FinIsLast, CallIsOpen, InCall, Same
  <2>5. Pushed(t)
      BY <1>11, <2>1, <2>2 DEF Pushed
  <2>6. Follows(s, t) /\ t.snd_una = una /\ t.wnd_end = edge
      BY <1>12, <2>1, <2>2 DEF Follows, Move, Same
  <2> QED
      BY <1>7, <2>2, <2>3, <2>4, <2>5, <2>6 DEF SendInv
<1>14. CASE ~(una > s.snd_una /\ s.nospace) /\ t = p
  <2>1. s.nospace \in BOOLEAN /\ (s.nospace => una = s.snd_una)
      BY <1>1, <1>2, <1>5, <1>14, TxFields
  <2>2. WillWake(a)
      BY <1>8, <1>9, <2>1 DEF SendInv, WillWake
  <2>3. WillWake(t)
      BY <1>11, <1>14, <2>2, WakeKept
  <2> QED
      BY <1>7, <1>11, <1>12, <1>14, <2>3 DEF SendInv
<1> QED
    BY <1>4, <1>13, <1>14

(* A segment that the probe timer sends past whatever holds it back.       *)
LEMMA ProbeIs ==
    ASSUME NEW s, SendInv(s), s.pc # "sending", ~InFlight(s), Unsent(s),
           s.wnd_end - s.snd_nxt # 0, NEW t,
           t = IF s.queue = <<>> THEN SendFin(s)
               ELSE SendSegment(s, Minimum(Segment(s), s.wnd_end))
    PROVE  SendInv(t) /\ Move(s, t)
<1>1. /\ Core(s) /\ s \in Tx /\ s.queue \in Seq(Skb) /\ s.snd_nxt \in Nat
      /\ s.snd_una \in Nat /\ s.wnd_end \in Nat /\ s.write_seq \in Nat
      /\ s.snd_una <= s.snd_nxt /\ s.snd_nxt < s.wnd_end
    BY TxFields DEF SendInv, Core, Queues
<1>2. s.fin # "sent" /\ Run(s.queue, s.snd_nxt, s.write_seq)
  <2>1. s.fin # "sent"
      BY <1>1 DEF Core, Unsent
  <2> QED
      BY <1>1, <2>1 DEF Core
<1>3. Core(t) /\ Sent(s, t) /\ t.snd_nxt > s.snd_nxt
  <2>1. CASE s.queue = <<>>
    <3>1. s.fin = "queued"
        BY <1>1, <1>2, <2>1 DEF Run, Unsent
    <3> QED
        BY <1>1, <2>1, <3>1, FinSent
  <2>2. CASE s.queue # <<>>
    <3> DEFINE q == s.queue
               e == Minimum(Segment(s), s.wnd_end)
    <3>1. Len(q) > 0 /\ Len(q) \in Nat /\ 1 \in 1 .. Len(q)
        BY <1>1, <2>2, Buffers
    <3>2. /\ Head(q) = q[1] /\ q[1].seq = s.snd_nxt /\ q[1].end \in Nat
          /\ q[1].end <= s.write_seq
        BY <1>1, <1>2, <3>1, RunHead
    <3>3. q[1].seq < q[1].end
      <4>1. CASE s.snd_nxt < s.write_seq
        <5>1. CASE Len(q) = 1
            BY <1>2, <3>1, <3>2, <4>1, <5>1 DEF Run
        <5>2. CASE Len(q) # 1
          <6>1. \A n \in Nat : (n # 1 /\ n > 0) => 1 \in 1 .. n - 1
              OBVIOUS
          <6>2. 1 \in 1 .. Len(q) - 1
              BY ONLY <6>1, <5>2, <3>1
          <6> QED
              BY <6>2, <1>2 DEF Run
        <5> QED
            BY <5>1, <5>2
      <4>2. CASE s.fin = "queued"
        <5>1. Full(q)
            BY <4>2 DEF SendInv, FinIsLast, CallIsOpen, InCall, NoneEmpty
        <5> QED
            BY <3>1, <5>1 DEF Full
      <4> QED
          BY <4>1, <4>2 DEF Unsent
    <3>4. SkbLen(Head(q)) > 0
        BY <1>1, <3>2, <3>3 DEF SkbLen
    <3>5. /\ Segment(s) \in Nat /\ s.snd_nxt < Segment(s)
          /\ Segment(s) <= q[1].end
        BY <1>1, <3>1, <3>4, SegmentIs
    <3>6. /\ e \in Nat /\ s.snd_nxt < e /\ e <= q[1].end /\ e <= s.wnd_end
        BY <1>1, <3>2, <3>5 DEF Minimum
    <3>7. t = SendSegment(s, e)
        BY <2>2
    <3> HIDE DEF e
    <3>8. Core(t) /\ Sent(s, t) /\ t.snd_nxt = e
        BY <1>1, <3>1, <3>6, <3>7, SegmentSent
    <3> QED
        BY <3>6, <3>8
  <2> QED
      BY <2>1, <2>2
<1>4. FinIsLast(t) /\ WillWake(t)
    BY <1>3, WakeKept DEF SendInv, FinIsLast, Sent, SameCall
<1>5. CallIsOpen(t)
    BY <1>3 DEF SendInv, CallIsOpen, InCall, Sent, SameCall
<1>6. Flows(t)
  <2>1. t.snd_una = s.snd_una /\ t.snd_nxt \in Nat
      BY <1>3, TxFields DEF Core, Sent, SameCall
  <2> QED
      BY <1>1, <1>3, <2>1 DEF Flows, InFlight
<1> QED
    BY <1>1, <1>3, <1>4, <1>5, <1>6, SentMove DEF SendInv, Pushed

(* The first segment under way arrives.                                    *)
LEMMA WireTail ==
    ASSUME NEW w \in Seq(Wired), NEW n \in Nat, NEW m \in Nat, NEW fin,
           Flight(w, n, m, fin), NEW u, Tells(w, u), Len(w) > 0
    PROVE  LET v == Tail(w)
               next == w[1].end + IF w[1].fin THEN 1 ELSE 0
           IN /\ v \in Seq(Wired) /\ Flight(v, n, m, fin) /\ Tells(v, u)
              /\ (v = <<>> => n = next)
              /\ (v # <<>> => v[1].seq = next)
              /\ Head(w) = w[1] /\ w[1] \in Wired
              /\ w[1].seq <= w[1].end /\ w[1].end <= m
              /\ w[1].urg \in {MaxBytes, u}
              /\ ((w[1].seq <= u /\ u < w[1].end) => w[1].urg = u)
              /\ (w[1].fin => (fin = "sent" /\ n = w[1].end + 1))
<1> DEFINE v == Tail(w)
<1>1. /\ v \in Seq(Wired) /\ Len(v) = Len(w) - 1 /\ Len(w) \in Nat
      /\ \A i \in 1 .. Len(v) : v[i] = w[i + 1]
      /\ Head(w) = w[1] /\ 1 \in 1 .. Len(w) /\ w[1] \in Wired
      /\ (v = <<>> <=> Len(v) = 0)
  <2>1. v \in Seq(Wired) /\ Len(v) = Len(w) - 1 /\ Len(w) \in Nat
      OBVIOUS
  <2>2. \A i \in 1 .. Len(v) : v[i] = w[i + 1]
      OBVIOUS
  <2>3. Head(w) = w[1] /\ 1 \in 1 .. Len(w)
      BY <2>1
  <2>4. w[1] \in Wired
      BY <2>3, Segments
  <2> HIDE DEF v
  <2>5. v = <<>> <=> Len(v) = 0
    <3>1. Len(<<>>) = 0
        OBVIOUS
    <3>2. \A r \in Seq(Wired) : Len(r) = 0 => r = <<>>
        OBVIOUS
    <3> QED
        BY ONLY <2>1, <3>1, <3>2
  <2> QED
      BY <2>1, <2>2, <2>3, <2>4, <2>5
<1> HIDE DEF v
<1>2. \A i \in 1 .. Len(w) : /\ w[i].seq <= w[i].end
                            /\ w[i].end <= n
                            /\ w[i].end <= m
                            /\ (~w[i].fin => w[i].seq < w[i].end)
                            /\ (w[i].fin => i = Len(w) /\ fin = "sent")
    BY DEF Flight
<1>3. \A i \in 1 .. Len(v) : i + 1 \in 1 .. Len(w) /\ (i + 1 = Len(w) <=> i = Len(v))
    BY <1>1
<1>4. \A i \in 1 .. Len(v) - 1 : /\ i \in 1 .. Len(v)
                                /\ i + 1 \in 1 .. Len(v)
                                /\ i + 1 \in 1 .. Len(w) - 1
    BY <1>1
<1>5. \A i \in 1 .. Len(v) : /\ v[i].seq <= v[i].end
                            /\ v[i].end <= n
                            /\ v[i].end <= m
                            /\ (~v[i].fin => v[i].seq < v[i].end)
                            /\ (v[i].fin => i = Len(v) /\ fin = "sent")
    BY <1>1, <1>2, <1>3
<1>6. \A i \in 1 .. Len(v) - 1 : v[i].end = v[i + 1].seq
    BY <1>1, <1>4 DEF Flight
<1>7. Len(v) > 0 => n = v[Len(v)].end + IF v[Len(v)].fin THEN 1 ELSE 0
  <2>1. Len(v) > 0 => /\ Len(v) \in 1 .. Len(v)
                      /\ Len(v) + 1 = Len(w)
                      /\ v[Len(v)] = w[Len(w)]
    <3>1. Len(v) > 0 => Len(v) \in 1 .. Len(v) /\ Len(v) + 1 = Len(w)
        BY <1>1
    <3> QED
        BY <1>1, <3>1
  <2> QED
      BY <2>1, <1>1 DEF Flight
<1>8. Flight(v, n, m, fin)
    BY <1>5, <1>6, <1>7 DEF Flight
<1>9. Tells(v, u)
    BY <1>1, <1>3 DEF Tells
<1>10. v = <<>> => n = w[1].end + IF w[1].fin THEN 1 ELSE 0
  <2>1. v = <<>> => Len(w) = 1
      BY <1>1
  <2> QED
      BY <2>1 DEF Flight
<1>11. v # <<>> => v[1].seq = w[1].end + IF w[1].fin THEN 1 ELSE 0
  <2> SUFFICES ASSUME v # <<>> PROVE v[1].seq = w[1].end + IF w[1].fin THEN 1 ELSE 0
      OBVIOUS
  <2>1. 1 \in 1 .. Len(v) /\ 1 \in 1 .. Len(w) - 1 /\ Len(w) # 1
    <3>1. Len(v) # 0 /\ Len(v) \in Nat
        BY <1>1, Segments
    <3> QED
        BY <3>1, <1>1
  <2>2. v[1] = w[1 + 1] /\ w[1].end = w[1 + 1].seq
      BY <1>1, <2>1 DEF Flight
  <2>3. ~w[1].fin
      BY <1>1, <1>2, <2>1
  <2>4. w[1].end \in Nat
      BY <1>1, Segments
  <2> QED
      BY <2>2, <2>3, <2>4
<1>12. /\ w[1].urg \in {MaxBytes, u}
       /\ ((w[1].seq <= u /\ u < w[1].end) => w[1].urg = u)
    BY <1>1 DEF Tells
<1>13. w[1].fin => n = w[1].end + 1
  <2>1. w[1].fin => Len(w) = 1
      BY <1>1, <1>2
  <2> QED
      BY <2>1 DEF Flight
<1> QED
    BY <1>1, <1>2, <1>8, <1>9, <1>10, <1>11, <1>12, <1>13 DEF v

-----------------------------------------------------------------------------
(* The reader.                                                             *)

Ack == [una : Nat, edge : Nat]
Gots == Seq(Nat)
ReadCall == [kind : {"none", "recv", "splice", "oob", "map"}, len : Nat,
             peek : BOOLEAN, block : BOOLEAN, target : Nat, start : Nat,
             seq : Nat, hole : Nat, got : Gots, eof : BOOLEAN]

Rx == [pc : {"idle", "reading", "waiting", "returned"}, call : ReadCall,
       rcv_nxt : Nat, copied_seq : Nat, rcv_wup : Nat, rcv_wnd : Nat,
       sched : BOOLEAN, pushed : BOOLEAN,
       urg : {"none", "notyet", "valid", "read"}, urg_seq : Nat,
       done : BOOLEAN, lowat : Nat, ack : Ack]

(* The two ends agree: what one is to get the other has sent, and the      *)
(* window is the one that was offered, or an older, narrower one while an  *)
(* acknowledgement is under way.                                           *)
Linked(s, r) ==
    /\ NextOut(s) = r.rcv_nxt
    /\ s.snd_una <= r.rcv_wup
    /\ r.rcv_wup <= r.rcv_nxt
    /\ 1 <= s.wnd_end
    /\ s.wnd_end <= r.rcv_wup + r.rcv_wnd
    /\ (r.ack = NoAck => s.wnd_end = r.rcv_wup + r.rcv_wnd)
    /\ (r.ack # NoAck => (/\ r.ack.una = r.rcv_wup
                          /\ r.ack.edge = r.rcv_wup + r.rcv_wnd))
    /\ (r.done = TRUE => (r.rcv_nxt = s.write_seq + 1 /\ s.fin = "sent"))
    /\ (r.done = FALSE => r.rcv_nxt <= s.write_seq)

(* The reader knows of the urgent byte before it comes to it.              *)
Knows(s, r) ==
    /\ r.copied_seq <= r.rcv_nxt
    /\ (r.urg # "none" => (/\ r.urg_seq = s.urg
                           /\ s.urg < s.write_seq
                           /\ r.copied_seq <= r.urg_seq))
    /\ ((s.urg # MaxBytes /\ s.urg < r.rcv_nxt /\ r.copied_seq <= s.urg)
            => r.urg # "none")

(* The place of the i-th ordinary byte from start on.                      *)
Place(start, u, i) ==
    IF start <= u /\ u <= start + i - 1 THEN start + i ELSE start + i - 1

Hands(got, start, u, m) ==
    \A i \in 1 .. Len(got) : got[i] = Place(start, u, i) /\ got[i] < m

Skipped(c, u) == IF c.start <= u /\ u < c.seq THEN 1 ELSE 0

(* A call of recv() in progress.                                           *)
RecvGoes(c, u, r) ==
    /\ c.seq = c.start + Len(c.got) + Skipped(c, u)
    /\ c.target <= Len(c.got) + c.len
    /\ c.eof = FALSE
    /\ IF c.peek THEN r.copied_seq = c.start /\ c.hole = Skipped(c, u)
       ELSE r.copied_seq = c.seq

(* A call of splice() in progress; with the FIN taken it is at its end.    *)
SpliceGoes(c, u, r) ==
    /\ r.copied_seq = c.seq
    /\ \/ c.seq = c.start + Len(c.got) /\ (u < c.start \/ c.seq <= u)
       \/ c.got # <<>> /\ r.done = TRUE

RecvEnds(c, s, r) ==
    /\ (c.eof = TRUE =>
            (/\ s.fin = "sent"
             /\ \/ s.write_seq <= c.start
                \/ c.start = s.urg /\ s.urg + 1 = s.write_seq))
    /\ ((c.block = TRUE /\ Len(c.got) < c.target) =>
            \/ r.done = TRUE
            \/ /\ c.got # <<>>
               /\ s.urg = c.start + Len(c.got)
               /\ s.urg # MaxBytes)

OobEnds(c, s) == c.got = <<>> \/ (c.got = <<s.urg>> /\ s.urg # MaxBytes)

CallIs(s, r) ==
    /\ ((r.pc # "idle" /\ r.call.kind # "oob")
            => Hands(r.call.got, r.call.start, s.urg, DataEnd(r)))
    /\ (r.pc = "reading" => r.call.kind = "recv")
    /\ (r.pc = "waiting" => r.call.kind \in {"recv", "splice"})
    /\ (r.pc \in {"reading", "waiting"} => r.call.seq <= r.rcv_nxt)
    /\ ((r.pc \in {"reading", "waiting"} /\ r.call.kind = "recv")
            => RecvGoes(r.call, s.urg, r))
    /\ ((r.pc = "waiting" /\ r.call.kind = "splice")
            => SpliceGoes(r.call, s.urg, r))
    /\ ((r.pc = "returned" /\ r.call.kind = "recv") => RecvEnds(r.call, s, r))
    /\ ((r.pc = "returned" /\ r.call.kind = "oob") => OobEnds(r.call, s))

ReadInv(s, r) ==
    /\ r \in Rx
    /\ Linked(s, r)
    /\ Knows(s, r)
    /\ CallIs(s, r)

LEMMA RxFields ==
    ASSUME NEW r \in Rx
    PROVE  /\ r.pc \in {"idle", "reading", "waiting", "returned"}
           /\ r.call \in ReadCall /\ r.rcv_nxt \in Nat /\ r.copied_seq \in Nat
           /\ r.rcv_wup \in Nat /\ r.rcv_wnd \in Nat /\ r.sched \in BOOLEAN
           /\ r.pushed \in BOOLEAN /\ r.urg \in {"none", "notyet", "valid", "read"}
           /\ r.urg_seq \in Nat /\ r.done \in BOOLEAN /\ r.lowat \in Nat
           /\ r.ack \in Ack
    BY DEF Rx

LEMMA CallFields ==
    ASSUME NEW c \in ReadCall
    PROVE  /\ c.kind \in {"none", "recv", "splice", "oob", "map"}
           /\ c.len \in Nat /\ c.peek \in BOOLEAN /\ c.block \in BOOLEAN
           /\ c.target \in Nat /\ c.start \in Nat /\ c.seq \in Nat
           /\ c.hole \in Nat /\ c.got \in Gots /\ c.eof \in BOOLEAN
           /\ c.got \in Seq(Nat) /\ Len(c.got) \in Nat
<1>1. /\ c.kind \in {"none", "recv", "splice", "oob", "map"}
      /\ c.len \in Nat /\ c.peek \in BOOLEAN /\ c.block \in BOOLEAN
      /\ c.target \in Nat /\ c.start \in Nat /\ c.seq \in Nat
      /\ c.hole \in Nat /\ c.got \in Gots /\ c.eof \in BOOLEAN
    BY DEF ReadCall
<1>2. c.got \in Seq(Nat)
    BY <1>1 DEF Gots
<1>3. Len(c.got) \in Nat
    BY <1>2
<1> QED
    BY <1>1, <1>2, <1>3

LEMMA NextOutIs ==
    ASSUME NEW s, Core(s)
    PROVE  NextOut(s) \in Nat /\ NextOut(s) <= s.snd_nxt
<1>1. /\ s.wire \in Seq(Wired) /\ s.snd_nxt \in Nat
      /\ Flight(s.wire, s.snd_nxt, s.write_seq, s.fin)
    BY TxFields DEF Core, Wires
<1>2. CASE s.wire = <<>>
    BY <1>1, <1>2 DEF NextOut
<1>3. CASE s.wire # <<>>
  <2>1. Len(s.wire) > 0 /\ 1 \in 1 .. Len(s.wire)
      BY <1>1, <1>3, Segments
  <2>2. /\ s.wire[1].seq \in Nat /\ s.wire[1].end \in Nat
        /\ s.wire[1].seq <= s.wire[1].end /\ s.wire[1].end <= s.snd_nxt
      BY <1>1, <2>1, Segments DEF Flight
  <2> QED
      BY <1>1, <1>3, <2>2 DEF NextOut
<1> QED
    BY <1>2, <1>3

-----------------------------------------------------------------------------
(* The window and its acknowledgements.                                    *)

LEMMA Multiples ==
    ASSUME NEW a \in Nat, NEW b \in Nat \ {0}
    PROVE  /\ a \div b \in Nat
           /\ (a \div b) * b \in Nat
           /\ (a \div b) * b <= a
           /\ a < (a \div b) * b + b
<1>1. /\ a \div b \in Int
      /\ a = b * (a \div b) + (a % b)
      /\ 0 <= a % b /\ a % b < b
    OBVIOUS
<1>2. a \div b \in Nat
    OBVIOUS
<1> DEFINE d == a \div b
<1>3. d \in Nat /\ a = b * d + (a % b) /\ a % b \in Int
    BY <1>1, <1>2
<1> HIDE DEF d
<1>4. b * d = d * b /\ b * d \in Nat
    BY <1>3
<1>5. d * b \in Nat /\ d * b <= a /\ a < d * b + b
    BY <1>1, <1>3, <1>4
<1> QED
    BY <1>3, <1>5 DEF d

LEMMA WindowIs ==
    ASSUME NEW r \in Rx
    PROVE  /\ tcp_receive_window(r) \in Nat
           /\ r.rcv_wup + r.rcv_wnd <= r.rcv_nxt + tcp_receive_window(r)
           /\ __tcp_select_window(r) \in Nat
<1> DEFINE space == RcvBuf - (r.rcv_nxt - r.copied_seq)
           free == IF space < 0 THEN 0 ELSE space
           mss == IF RcvMss > RcvBuf THEN RcvBuf ELSE RcvMss
           whole == (free \div mss) * mss
           low == free < RcvBuf \div 2
           least == free < RcvBuf \div 16
           big == RcvBuf \div 2
<1>1. /\ r.rcv_nxt \in Nat /\ r.copied_seq \in Nat /\ r.rcv_wup \in Nat
      /\ r.rcv_wnd \in Nat /\ RcvBuf \in Nat \ {0} /\ RcvMss \in Nat \ {0}
    BY RxFields, Constants
<1>2. free \in Nat /\ mss \in Nat \ {0}
    BY <1>1
<1>3. __tcp_select_window(r) \in {0, whole, free, r.rcv_wnd}
    BY DEF __tcp_select_window, tcp_space
<1> HIDE DEF free, mss
<1>4. whole \in Nat
    BY <1>2, Multiples
<1> HIDE DEF whole
<1>5. __tcp_select_window(r) \in Nat
    BY <1>1, <1>2, <1>3, <1>4
<1>6. /\ tcp_receive_window(r) \in Nat
      /\ r.rcv_wup + r.rcv_wnd <= r.rcv_nxt + tcp_receive_window(r)
    BY <1>1 DEF tcp_receive_window
<1> QED
    BY <1>5, <1>6

(* What of a reader the sender and the calls can tell.                     *)
Tied(s, r) == r \in Rx /\ Linked(s, r) /\ Knows(s, r)

SameRead(r, t) ==
    /\ t.pc = r.pc
    /\ t.call = r.call
    /\ t.rcv_nxt = r.rcv_nxt
    /\ t.copied_seq = r.copied_seq
    /\ t.urg = r.urg
    /\ t.urg_seq = r.urg_seq
    /\ t.done = r.done
    /\ t.lowat = r.lowat

LEMMA SendAckIs ==
    ASSUME NEW s, NEW r, Core(s), r \in Rx, Linked(s, r), NEW t,
           t = tcp_send_ack(r)
    PROVE  t \in Rx /\ Linked(s, t) /\ SameRead(r, t)
<1> DEFINE now == tcp_receive_window(r)
           chosen == __tcp_select_window(r)
           wnd == IF chosen < now THEN now ELSE chosen
           a == [una |-> r.rcv_nxt, edge |-> r.rcv_nxt + wnd]
<1>1. /\ r.rcv_nxt \in Nat /\ r.rcv_wup \in Nat /\ r.rcv_wnd \in Nat
      /\ s.wnd_end \in Nat /\ s.snd_una \in Nat /\ r \in Rx
    BY RxFields, TxFields DEF Core
<1>2. now \in Nat /\ chosen \in Nat /\ r.rcv_wup + r.rcv_wnd <= r.rcv_nxt + now
    BY WindowIs
<1>3. t = [r EXCEPT !.rcv_wup = r.rcv_nxt, !.rcv_wnd = wnd, !.sched = FALSE,
                    !.pushed = FALSE, !.ack = a]
    BY DEF tcp_send_ack
<1>4. /\ wnd \in Nat /\ r.rcv_wup + r.rcv_wnd <= r.rcv_nxt + wnd
  <2> HIDE DEF now, chosen
  <2> QED
      BY <1>1, <1>2
<1> HIDE DEF wnd
<1>5. a \in Ack /\ a.una = r.rcv_nxt /\ a.edge = r.rcv_nxt + wnd
    BY <1>1, <1>4 DEF Ack
<1> HIDE DEF a
<1>6. /\ t \in Rx /\ SameRead(r, t) /\ t.ack = a /\ t.rcv_wup = r.rcv_nxt
      /\ t.rcv_wnd = wnd
    BY ONLY <1>1, <1>3, <1>4, <1>5 DEF Rx, SameRead
<1>7. a # NoAck
  <2>1. 1 <= s.wnd_end /\ s.wnd_end <= r.rcv_wup + r.rcv_wnd
      BY DEF Linked
  <2>2. r.rcv_nxt + wnd > 0
      BY ONLY <1>1, <1>4, <2>1
  <2>3. a.edge # 0
      BY ONLY <1>1, <1>4, <1>5, <2>2
  <2>4. NoAck.edge = 0
      BY DEF NoAck
  <2> QED
      BY ONLY <2>3, <2>4
<1>8. Linked(s, t)
  <2>1. /\ s.snd_una <= r.rcv_nxt
        /\ s.wnd_end <= r.rcv_nxt + wnd
      BY <1>1, <1>4 DEF Linked
  <2> QED
      BY <1>1, <1>4, <1>5, <1>6, <1>7, <2>1 DEF Linked, SameRead
<1> QED
    BY <1>6, <1>8

LEMMA KnowsSame ==
    ASSUME NEW s, NEW r, NEW t, Knows(s, r), SameRead(r, t)
    PROVE  Knows(s, t) /\ DataEnd(t) = DataEnd(r)
    BY DEF Knows, SameRead, DataEnd

LEMMA CleanupIs ==
    ASSUME NEW s, NEW r, Core(s), Tied(s, r), NEW n, NEW t,
           t = tcp_cleanup_rbuf(r, n)
    PROVE  Tied(s, t) /\ SameRead(r, t) /\ DataEnd(t) = DataEnd(r)
<1>1. CASE t = r
    BY <1>1 DEF SameRead
<1>2. CASE t = tcp_send_ack(r)
  <2>1. t \in Rx /\ Linked(s, t) /\ SameRead(r, t)
      BY <1>2, SendAckIs DEF Tied
  <2> QED
      BY <2>1, KnowsSame DEF Tied
<1> QED
    BY <1>1, <1>2 DEF tcp_cleanup_rbuf

(* The delayed acknowledgement.                                            *)
LEMMA CallSame ==
    ASSUME NEW s, NEW r, NEW t, CallIs(s, r), SameRead(r, t)
    PROVE  CallIs(s, t)
<1>1. /\ t.pc = r.pc /\ t.call = r.call /\ t.rcv_nxt = r.rcv_nxt
      /\ t.done = r.done /\ t.copied_seq = r.copied_seq /\ DataEnd(t) = DataEnd(r)
    BY DEF SameRead, DataEnd
<1> QED
    BY <1>1 DEF CallIs, RecvGoes, SpliceGoes, RecvEnds

LEMMA DelackIs ==
    ASSUME NEW s, Core(s), ReadInv(s, rx), tcp_delack_timer
    PROVE  ReadInv(s, rx')
<1>1. rx' = tcp_send_ack(rx)
    BY DEF tcp_delack_timer
<1>2. rx' \in Rx /\ Linked(s, rx') /\ SameRead(rx, rx')
    BY <1>1, SendAckIs DEF ReadInv
<1> QED
    BY <1>2, KnowsSame, CallSame DEF ReadInv

-----------------------------------------------------------------------------
(* The bytes and the urgent byte.                                          *)

LEMMA EndIs ==
    ASSUME NEW s, NEW r, Core(s), Tied(s, r)
    PROVE  /\ DataEnd(r) \in Nat
           /\ DataEnd(r) <= r.rcv_nxt
           /\ DataEnd(r) <= s.write_seq
           /\ DataEnd(r) <= MaxBytes
           /\ (r.done = TRUE => (/\ r.rcv_nxt = DataEnd(r) + 1
                                 /\ DataEnd(r) = s.write_seq
                                 /\ s.fin = "sent"))
           /\ (r.done = FALSE => r.rcv_nxt = DataEnd(r))
           /\ (s.urg = MaxBytes \/ s.urg < s.write_seq)
           /\ s.urg \in Nat /\ s.write_seq \in Nat /\ r.rcv_nxt \in Nat
           /\ r.copied_seq \in Nat /\ r.urg_seq \in Nat /\ r.done \in BOOLEAN
           /\ s.write_seq <= MaxBytes /\ MaxBytes \in Nat
<1>1. /\ r.rcv_nxt \in Nat /\ r.done \in BOOLEAN /\ s.urg \in Nat
      /\ s.write_seq \in Nat /\ s.write_seq <= MaxBytes /\ MaxBytes \in Nat
      /\ r.copied_seq \in Nat /\ r.urg_seq \in Nat
    BY RxFields, TxFields, Constants DEF Core, Tied
<1>2. /\ (r.done = TRUE => (r.rcv_nxt = s.write_seq + 1 /\ s.fin = "sent"))
      /\ (r.done = FALSE => r.rcv_nxt <= s.write_seq)
    BY DEF Tied, Linked
<1>3. DataEnd(r) = IF r.done = TRUE THEN r.rcv_nxt - 1 ELSE r.rcv_nxt
    BY <1>1 DEF DataEnd
<1>4. s.urg = MaxBytes \/ s.urg < s.write_seq
    BY DEF Core
<1> QED
    BY <1>1, <1>2, <1>3, <1>4

(* Below the end of the data the reader finds the urgent byte where it is. *)
LEMMA UrgentIs ==
    ASSUME NEW s, NEW r, Core(s), Tied(s, r), NEW seq, seq \in Nat, NEW to, to \in Nat,
           r.copied_seq <= seq, seq < to, to <= DataEnd(r)
    PROVE  /\ (UrgentAt(r, seq) <=> seq = s.urg)
           /\ UpToUrgent(r, seq, to) = IF seq < s.urg /\ s.urg < to
                                       THEN s.urg ELSE to
<1>1. /\ DataEnd(r) \in Nat /\ DataEnd(r) <= r.rcv_nxt /\ s.urg \in Nat
      /\ DataEnd(r) <= MaxBytes /\ MaxBytes \in Nat
      /\ r.rcv_nxt \in Nat /\ r.copied_seq \in Nat /\ r.urg_seq \in Nat
    BY EndIs
<1>2. /\ (r.urg # "none" => r.urg_seq = s.urg)
      /\ ((s.urg # MaxBytes /\ s.urg < r.rcv_nxt /\ r.copied_seq <= s.urg)
              => r.urg # "none")
    BY DEF Tied, Knows
<1>3. (seq <= s.urg /\ s.urg < to) => r.urg # "none"
    BY <1>1, <1>2
<1>4. UrgentAt(r, seq) <=> seq = s.urg
    BY <1>1, <1>2, <1>3 DEF UrgentAt
<1>5. UpToUrgent(r, seq, to) = IF seq < s.urg /\ s.urg < to
                               THEN s.urg ELSE to
    BY <1>1, <1>2, <1>3 DEF UpToUrgent
<1> QED
    BY <1>4, <1>5

(* The known urgent byte lies ahead of what has been consumed.             *)
LEMMA UrgentAhead ==
    ASSUME NEW s, NEW r, Core(s), Tied(s, r), r.urg # "none"
    PROVE  /\ r.urg_seq = s.urg /\ s.urg < s.write_seq /\ s.urg # MaxBytes
           /\ r.copied_seq <= s.urg
<1>1. s.write_seq \in Nat /\ s.urg \in Nat /\ s.write_seq <= MaxBytes /\ MaxBytes \in Nat
    BY EndIs
<1>2. r.urg_seq = s.urg /\ s.urg < s.write_seq /\ r.copied_seq <= r.urg_seq
    BY DEF Tied, Knows
<1> QED
    BY <1>1, <1>2

LEMMA BytesAre ==
    ASSUME NEW from \in Nat, NEW to \in Nat
    PROVE  /\ Bytes(from, to) \in Seq(Nat)
           /\ Len(Bytes(from, to)) = (IF from <= to THEN to - from ELSE 0)
           /\ \A i \in 1 .. Len(Bytes(from, to)) : Bytes(from, to)[i] = from + i - 1
<1>1. \A i \in 1 .. to - from : from + i - 1 \in Nat
    OBVIOUS
<1>2. CASE from <= to
  <2>1. to - from \in Nat
      BY <1>2
  <2>2. Bytes(from, to) \in [1 .. to - from -> Nat]
      BY <1>1 DEF Bytes
  <2>3. /\ Bytes(from, to) \in Seq(Nat)
        /\ Len(Bytes(from, to)) = to - from
      BY <2>1, <2>2
  <2> QED
      BY <1>2, <2>3 DEF Bytes
<1>3. CASE from > to
  <2>1. 1 .. to - from = {}
      BY <1>3
  <2>2. Bytes(from, to) = <<>>
      BY <2>1 DEF Bytes
  <2> QED
      BY <1>3, <2>2
<1> QED
    BY <1>2, <1>3

(* After n bytes from start on, k tells whether the urgent byte u is among *)
(* those that were passed over, and the next ones do not hold it.          *)
GoesOn(start, n, k, u, from, to, m) ==
    /\ start \in Nat /\ n \in Nat /\ k \in {0, 1} /\ u \in Nat
    /\ from \in Nat /\ to \in Nat /\ m \in Nat
    /\ from <= to
    /\ to <= m
    /\ from = start + n + k
    /\ (k = 1 => (start <= u /\ u <= start + n))
    /\ (k = 0 => (u < start \/ to <= u))

(* What is handed over goes on in order, around the urgent byte.           *)
LEMMA HandsMore ==
    ASSUME NEW had, had \in Seq(Nat), NEW start, NEW u, NEW m, NEW from, NEW to,
           NEW k, Hands(had, start, u, m),
           GoesOn(start, Len(had), k, u, from, to, m)
    PROVE  /\ had \o Bytes(from, to) \in Seq(Nat)
           /\ Len(had \o Bytes(from, to)) = Len(had) + (to - from)
           /\ Hands(had \o Bytes(from, to), start, u, m)
<1> DEFINE b == Bytes(from, to)
           g == had \o b
<1>0. /\ start \in Nat /\ Len(had) \in Nat /\ k \in {0, 1} /\ u \in Nat
      /\ from \in Nat /\ to \in Nat /\ m \in Nat
      /\ from <= to
      /\ to <= m
      /\ from = start + Len(had) + k
      /\ (k = 1 => (start <= u /\ u <= start + Len(had)))
      /\ (k = 0 => (u < start \/ to <= u))
    BY DEF GoesOn
<1>1. /\ b \in Seq(Nat) /\ Len(b) = to - from
      /\ \A i \in 1 .. Len(b) : b[i] = from + i - 1
  <2>1. from \in Nat /\ to \in Nat /\ from <= to
      BY ONLY <1>0
  <2> QED
      BY <2>1, BytesAre
<1> HIDE DEF b
<1>2. /\ g \in Seq(Nat) /\ Len(g) = Len(had) + Len(b)
      /\ \A i \in 1 .. Len(g) : g[i] = IF i <= Len(had) THEN had[i] ELSE b[i - Len(had)]
  <2>1. b \in Seq(Nat) /\ had \in Seq(Nat)
      BY <1>1
  <2>2. g \in Seq(Nat)
      BY <2>1
  <2>3. Len(g) = Len(had) + Len(b)
      BY <2>1
  <2>4. \A i \in 1 .. Len(g) : g[i] = IF i <= Len(had) THEN had[i] ELSE b[i - Len(had)]
      BY <2>1
  <2> QED
      BY <2>2, <2>3, <2>4
<1>3. Len(had) \in Nat /\ Len(b) \in Nat
    BY <1>1
<1> HIDE DEF g
<1>4. ASSUME NEW i \in 1 .. Len(g)
      PROVE  g[i] = Place(start, u, i) /\ g[i] < m
  <2>1. CASE i <= Len(had)
    <3>1. i \in 1 .. Len(had) /\ g[i] = had[i]
        BY <1>2, <1>3, <2>1
    <3> QED
        BY <3>1 DEF Hands
  <2>2. CASE i > Len(had)
    <3>1. i - Len(had) \in 1 .. Len(b) /\ g[i] = b[i - Len(had)]
        BY <1>2, <1>3, <2>2
    <3>2. g[i] = from + (i - Len(had)) - 1 /\ i - Len(had) <= to - from
        BY <1>0, <1>1, <3>1
    <3>3. g[i] = start + i + k - 1 /\ g[i] < to /\ i \in Nat
        BY <1>0, <1>2, <1>3, <3>2
    <3>4. CASE k = 1
        BY <1>0, <1>3, <2>2, <3>3, <3>4 DEF Place
    <3>5. CASE k = 0
        BY <1>0, <1>3, <2>2, <3>3, <3>5 DEF Place
    <3> QED
        BY <1>0, <3>4, <3>5
  <2> QED
      BY <1>2, <1>3, <2>1, <2>2
<1>5. Hands(g, start, u, m)
    BY <1>4 DEF Hands
<1> QED
    BY <1>1, <1>2, <1>5 DEF g, b

(* sk_eat_skb(): what is consumed is behind, the urgent byte with it.      *)
LEMMA TiedMoves ==
    ASSUME NEW s, NEW r, Core(s), Tied(s, r), NEW seq, seq \in Nat,
           r.copied_seq <= seq, seq <= r.rcv_nxt,
           r.urg # "none" => seq <= r.urg_seq,
           NEW t, t = [r EXCEPT !.copied_seq = seq]
    PROVE  /\ Tied(s, t) /\ t.copied_seq = seq /\ t.pc = r.pc
           /\ t.call = r.call /\ t.rcv_nxt = r.rcv_nxt /\ t.done = r.done
           /\ t.urg = r.urg /\ t.urg_seq = r.urg_seq
           /\ DataEnd(t) = DataEnd(r)
<1>1. r \in Rx /\ r.rcv_nxt \in Nat /\ r.copied_seq \in Nat /\ s.urg \in Nat
    BY EndIs DEF Tied
<1>2. /\ t \in Rx /\ t.copied_seq = seq /\ t.pc = r.pc
      /\ t.call = r.call /\ t.rcv_nxt = r.rcv_nxt /\ t.done = r.done
      /\ t.urg = r.urg /\ t.urg_seq = r.urg_seq
      /\ t.rcv_wup = r.rcv_wup /\ t.rcv_wnd = r.rcv_wnd /\ t.ack = r.ack
    BY ONLY <1>1, t = [r EXCEPT !.copied_seq = seq], seq \in Nat DEF Rx
<1>3. Linked(s, t)
    BY <1>2 DEF Tied, Linked
<1>4. Knows(s, t)
    BY <1>1, <1>2 DEF Tied, Knows
<1> QED
    BY <1>2, <1>3, <1>4 DEF Tied, DataEnd

Within(r, c) ==
    /\ c \in ReadCall
    /\ r.copied_seq <= c.seq
    /\ c.seq <= r.rcv_nxt

Consumed(s, r, c, t) ==
    /\ Tied(s, t)
    /\ t.copied_seq = (IF c.peek = TRUE THEN r.copied_seq ELSE c.seq)
    /\ t.pc = r.pc /\ t.call = r.call /\ t.rcv_nxt = r.rcv_nxt
    /\ t.done = r.done /\ DataEnd(t) = DataEnd(r)

LEMMA ConsumeIs ==
    ASSUME NEW s, NEW r, Core(s), Tied(s, r), NEW c, Within(r, c), NEW t,
           t = Consume(r, c)
    PROVE  Consumed(s, r, c, t)
<1>0. c \in ReadCall /\ r.copied_seq <= c.seq /\ c.seq <= r.rcv_nxt
    BY DEF Within
<1>1. /\ r \in Rx /\ r.rcv_nxt \in Nat /\ r.copied_seq \in Nat /\ s.urg \in Nat
      /\ r.urg_seq \in Nat /\ c.seq \in Nat /\ c.peek \in BOOLEAN
      /\ r.urg \in {"none", "notyet", "valid", "read"}
    BY <1>0, EndIs, CallFields, RxFields DEF Tied
<1>2. CASE c.peek = TRUE
    BY <1>2 DEF Consume, Consumed
<1>3. CASE c.peek = FALSE
  <2> DEFINE past == r.urg # "none" /\ c.seq > r.urg_seq
             urg == IF past THEN "none" ELSE r.urg
             useq == IF past THEN 0 ELSE r.urg_seq
  <2>1. t = [r EXCEPT !.copied_seq = c.seq, !.urg = urg, !.urg_seq = useq]
      BY <1>3 DEF Consume
  <2>2. /\ urg \in {"none", "notyet", "valid", "read"} /\ useq \in Nat
        /\ (urg # "none" => (urg = r.urg /\ useq = r.urg_seq /\ c.seq <= useq))
        /\ ((r.urg # "none" /\ c.seq <= r.urg_seq) => urg # "none")
      BY <1>1
  <2> HIDE DEF urg, useq, past
  <2>3. /\ t \in Rx /\ t.copied_seq = c.seq /\ t.pc = r.pc
        /\ t.call = r.call /\ t.rcv_nxt = r.rcv_nxt /\ t.done = r.done
        /\ t.urg = urg /\ t.urg_seq = useq
        /\ t.rcv_wup = r.rcv_wup /\ t.rcv_wnd = r.rcv_wnd /\ t.ack = r.ack
      BY ONLY <1>1, <2>1, <2>2 DEF Rx
  <2>4. Linked(s, t)
      BY <2>3 DEF Tied, Linked
  <2>5. Knows(s, t)
    <3>1. (urg # "none") => (useq = s.urg /\ s.urg < s.write_seq)
        BY <2>2 DEF Tied, Knows
    <3>2. (s.urg # MaxBytes /\ s.urg < r.rcv_nxt /\ c.seq <= s.urg)
              => (r.urg # "none" /\ r.urg_seq = s.urg)
        BY <1>0, <1>1 DEF Tied, Knows
    <3>3. (s.urg # MaxBytes /\ s.urg < r.rcv_nxt /\ c.seq <= s.urg) => urg # "none"
        BY <2>2, <3>2
    <3> QED
        BY <1>0, <1>1, <2>2, <2>3, <3>1, <3>3 DEF Knows
  <2> QED
      BY <1>3, <2>3, <2>4, <2>5 DEF Tied, DataEnd, Consumed
<1> QED
    BY <1>1, <1>2, <1>3

-----------------------------------------------------------------------------
(* The calls.                                                              *)

Puts(r, pc, c) == [r EXCEPT !.pc = pc, !.call = c]

LEMMA CallPut ==
    ASSUME NEW s, NEW r, Tied(s, r), NEW c, c \in ReadCall, NEW t,
           NEW pc, pc \in {"idle", "reading", "waiting", "returned"},
           t = Puts(r, pc, c)
    PROVE  /\ Tied(s, t) /\ t.pc = pc /\ t.call = c /\ t.rcv_nxt = r.rcv_nxt
           /\ t.copied_seq = r.copied_seq /\ t.done = r.done
           /\ DataEnd(t) = DataEnd(r)
<1>1. r \in Rx
    BY DEF Tied
<1>2. /\ t \in Rx /\ t.pc = pc /\ t.call = c /\ t.rcv_nxt = r.rcv_nxt
      /\ t.copied_seq = r.copied_seq /\ t.done = r.done /\ t.urg = r.urg
      /\ t.urg_seq = r.urg_seq /\ t.rcv_wup = r.rcv_wup
      /\ t.rcv_wnd = r.rcv_wnd /\ t.ack = r.ack
    BY ONLY <1>1, t = Puts(r, pc, c), c \in ReadCall,
            pc \in {"idle", "reading", "waiting", "returned"} DEF Rx, Puts
<1>3. Linked(s, t) /\ Knows(s, t)
    BY <1>2 DEF Tied, Linked, Knows
<1> QED
    BY <1>2, <1>3 DEF Tied, DataEnd

(* A call of recv() that reads, at its state c, and one at its end.        *)
InRecv(s, r, c) ==
    /\ Core(s)
    /\ Tied(s, r)
    /\ c \in ReadCall
    /\ c.kind = "recv"
    /\ Hands(c.got, c.start, s.urg, DataEnd(r))
    /\ RecvGoes(c, s.urg, r)
    /\ c.seq <= r.rcv_nxt

RecvDone(s, r, c) ==
    /\ Core(s)
    /\ Tied(s, r)
    /\ c \in ReadCall
    /\ c.kind = "recv"
    /\ Hands(c.got, c.start, s.urg, DataEnd(r))
    /\ RecvEnds(c, s, r)

LEMMA RecvReturns ==
    ASSUME NEW s, NEW r, NEW c, RecvDone(s, r, c), NEW t,
           t = tcp_recvmsg_done(r, c)
    PROVE  ReadInv(s, t)
<1> DEFINE q == tcp_cleanup_rbuf(r, Len(c.got))
<1>0. /\ Core(s) /\ Tied(s, r) /\ c \in ReadCall /\ c.kind = "recv"
      /\ Hands(c.got, c.start, s.urg, DataEnd(r)) /\ RecvEnds(c, s, r)
    BY DEF RecvDone
<1>1. Tied(s, q) /\ SameRead(r, q) /\ DataEnd(q) = DataEnd(r)
    BY <1>0, CleanupIs
<1>2. t = Puts(q, "returned", c)
    BY DEF tcp_recvmsg_done, Returns, Puts
<1> HIDE DEF q
<1>3. /\ Tied(s, t) /\ t.pc = "returned" /\ t.call = c
      /\ DataEnd(t) = DataEnd(q) /\ t.done = q.done
    BY <1>0, <1>1, <1>2, CallPut
<1>4. RecvEnds(c, s, t)
    BY <1>0, <1>1, <1>3 DEF RecvEnds, SameRead
<1>5. CallIs(s, t)
    BY <1>0, <1>1, <1>3, <1>4 DEF CallIs
<1> QED
    BY <1>3, <1>5 DEF ReadInv, Tied

LEMMA OtherReturns ==
    ASSUME NEW s, NEW r, Tied(s, r), NEW c, c \in ReadCall,
           c.kind \in {"splice", "map"},
           Hands(c.got, c.start, s.urg, DataEnd(r)), NEW t, t = Returns(r, c)
    PROVE  ReadInv(s, t)
<1>0. t = Puts(r, "returned", c)
    BY DEF Returns, Puts
<1>1. /\ Tied(s, t) /\ t.pc = "returned" /\ t.call = c
      /\ DataEnd(t) = DataEnd(r)
    BY <1>0, CallPut
<1>2. CallIs(s, t)
    BY <1>1 DEF CallIs
<1> QED
    BY <1>1, <1>2 DEF ReadInv, Tied

Cleaned(r, q) == q = r \/ \E n \in Nat : q = tcp_cleanup_rbuf(r, n)

LEMMA RecvWaits ==
    ASSUME NEW s, NEW r, NEW c, InRecv(s, r, c), NEW q, Cleaned(r, q),
           NEW pc, pc \in {"reading", "waiting"}, NEW t, t = Puts(q, pc, c)
    PROVE  ReadInv(s, t)
<1>0. /\ Core(s) /\ Tied(s, r) /\ c \in ReadCall /\ c.kind = "recv"
      /\ Hands(c.got, c.start, s.urg, DataEnd(r)) /\ RecvGoes(c, s.urg, r)
      /\ c.seq <= r.rcv_nxt
    BY DEF InRecv
<1>1. Tied(s, q) /\ SameRead(r, q) /\ DataEnd(q) = DataEnd(r)
    BY <1>0, CleanupIs DEF SameRead, Cleaned
<1>2. /\ Tied(s, t) /\ t.pc = pc /\ t.call = c /\ t.rcv_nxt = q.rcv_nxt
      /\ t.copied_seq = q.copied_seq /\ DataEnd(t) = DataEnd(q)
    BY <1>0, <1>1, CallPut
<1>3. RecvGoes(c, s.urg, t) /\ c.seq <= t.rcv_nxt
    BY <1>0, <1>1, <1>2 DEF RecvGoes, SameRead
<1>4. CallIs(s, t)
    BY <1>0, <1>1, <1>2, <1>3 DEF CallIs
<1> QED
    BY <1>2, <1>4 DEF ReadInv, Tied

-----------------------------------------------------------------------------
(* recv(): a pass of its loop.                                             *)

LEMMA InRecvIs ==
    ASSUME NEW s, NEW r, NEW c, InRecv(s, r, c)
    PROVE  /\ c.len \in Nat /\ c.peek \in BOOLEAN /\ c.block \in BOOLEAN
           /\ c.target \in Nat /\ c.start \in Nat /\ c.seq \in Nat
           /\ c.hole \in Nat /\ c.got \in Seq(Nat) /\ Len(c.got) \in Nat
           /\ c.eof = FALSE /\ c.target <= Len(c.got) + c.len
           /\ Skipped(c, s.urg) \in {0, 1}
           /\ c.seq = c.start + Len(c.got) + Skipped(c, s.urg)
           /\ r.copied_seq <= c.seq
           /\ s.urg \in Nat /\ DataEnd(r) \in Nat /\ r.done \in BOOLEAN
           /\ (c.got = <<>> <=> Len(c.got) = 0)
<1>1. /\ c.len \in Nat /\ c.peek \in BOOLEAN /\ c.block \in BOOLEAN
      /\ c.target \in Nat /\ c.start \in Nat /\ c.seq \in Nat
      /\ c.hole \in Nat /\ c.got \in Seq(Nat) /\ Len(c.got) \in Nat
    BY CallFields DEF InRecv
<1>2. s.urg \in Nat /\ DataEnd(r) \in Nat /\ r.done \in BOOLEAN
    BY EndIs DEF InRecv
<1>3. /\ Skipped(c, s.urg) \in {0, 1} /\ c.eof = FALSE
      /\ c.target <= Len(c.got) + c.len
      /\ c.seq = c.start + Len(c.got) + Skipped(c, s.urg)
      /\ (r.copied_seq = c.start \/ r.copied_seq = c.seq)
    BY <1>1 DEF InRecv, RecvGoes, Skipped
<1>4. r.copied_seq <= c.seq
    BY <1>1, <1>3
<1>5. c.got = <<>> <=> Len(c.got) = 0
    BY <1>1
<1> QED
    BY <1>1, <1>2, <1>3, <1>4, <1>5

(* found_ok_skb: goes on with the next ordinary bytes.                     *)
Found(s, r, c, d) ==
    /\ d \in ReadCall /\ d.kind = "recv" /\ d.peek = c.peek
    /\ d.start = c.start /\ d.target = c.target /\ d.eof = FALSE
    /\ Hands(d.got, c.start, s.urg, DataEnd(r))
    /\ d.seq = c.start + Len(d.got) + Skipped(d, s.urg)
    /\ d.target <= Len(d.got) + d.len
    /\ (c.hole = Skipped(c, s.urg) => d.hole = Skipped(d, s.urg))
    /\ c.seq < d.seq /\ d.seq <= DataEnd(r)

LEMMA FoundIs ==
    ASSUME NEW s, NEW r, NEW c, InRecv(s, r, c), c.len # 0,
           ~(UrgentAt(r, c.seq) /\ Len(c.got) > 0), c.seq < DataEnd(r),
           NEW d, d = found_ok_skb(r, c)
    PROVE  Found(s, r, c, d)
<1> DEFINE u == s.urg
           m == DataEnd(r)
           avail == m - c.seq
           wanted == IF c.len < avail THEN c.len ELSE avail
           to == c.seq + wanted
           first == UrgentAt(r, c.seq)
           upto == UpToUrgent(r, c.seq, to)
           from == IF first THEN c.seq + 1 ELSE c.seq
           got == c.got \o Bytes(from, upto)
           len == c.len - (upto - from)
           hole == IF first THEN c.hole + 1 ELSE c.hole
           k == IF first THEN 1 ELSE Skipped(c, u)
<1>1. /\ c.len \in Nat /\ c.peek \in BOOLEAN /\ c.block \in BOOLEAN
      /\ c.target \in Nat /\ c.start \in Nat /\ c.seq \in Nat
      /\ c.hole \in Nat /\ c.got \in Seq(Nat) /\ Len(c.got) \in Nat
      /\ c.eof = FALSE /\ c.target <= Len(c.got) + c.len
      /\ Skipped(c, u) \in {0, 1}
      /\ c.seq = c.start + Len(c.got) + Skipped(c, u)
      /\ r.copied_seq <= c.seq /\ u \in Nat /\ m \in Nat
    BY InRecvIs
<1>2. d = [c EXCEPT !.seq = upto, !.got = got, !.len = len, !.hole = hole]
    BY DEF found_ok_skb
<1>3. c \in ReadCall /\ c.kind = "recv" /\ c.seq < m
    BY DEF InRecv
<1>4. /\ to \in Nat /\ c.seq < to /\ to <= m /\ to - c.seq <= c.len
    BY <1>1
<1> HIDE DEF to, m
<1>5. /\ (first <=> c.seq = u)
      /\ upto = IF c.seq < u /\ u < to THEN u ELSE to
    BY <1>1, <1>4, UrgentIs DEF InRecv, m
<1>6. first => Len(c.got) = 0
    BY <1>1
<1> HIDE DEF first, upto
<1>7. /\ upto \in Nat /\ c.seq < upto /\ upto <= m /\ upto - c.seq <= c.len
      /\ (u > c.seq => upto <= u)
    BY <1>1, <1>4, <1>5
<1>8. /\ Skipped(c, u) = 1 => (c.start <= u /\ u < c.seq)
      /\ Skipped(c, u) = 0 => (u < c.start \/ c.seq <= u)
    BY <1>1 DEF Skipped
<1>9. /\ from \in Nat /\ from <= upto /\ upto - from <= c.len
      /\ c.seq <= from
      /\ k \in {0, 1} /\ from = c.start + Len(c.got) + k
      /\ (k = 1 => (c.start <= u /\ u <= c.start + Len(c.got)))
      /\ (k = 0 => (u < c.start \/ upto <= u))
      /\ hole \in Nat
  <2>1. CASE first
    <3>1. Len(c.got) = 0 /\ c.seq = u /\ from = c.seq + 1 /\ k = 1 /\ hole = c.hole + 1
        BY <1>5, <1>6, <2>1
    <3>2. Skipped(c, u) = 0
        BY <1>1, <1>8, <3>1
    <3> QED
        BY <1>1, <1>7, <3>1, <3>2
  <2>2. CASE ~first
    <3>1. c.seq # u /\ from = c.seq /\ k = Skipped(c, u) /\ hole = c.hole
        BY <1>5, <2>2
    <3>2. CASE Skipped(c, u) = 1
        BY <1>1, <1>7, <1>8, <3>1, <3>2
    <3>3. CASE Skipped(c, u) = 0
        BY <1>1, <1>7, <1>8, <3>1, <3>3
    <3> QED
        BY <1>1, <3>2, <3>3
  <2> QED
      BY <2>1, <2>2
<1>10. (c.hole = Skipped(c, u)) => hole = k
  <2>1. CASE first
    <3>1. Skipped(c, u) = 0 /\ k = 1 /\ hole = c.hole + 1
        BY <1>1, <1>5, <1>8, <1>6, <2>1
    <3> QED
        BY <1>1, <3>1
  <2>2. CASE ~first
    <3>1. k = Skipped(c, u) /\ hole = c.hole
        BY <2>2
    <3> QED
        BY <1>1, <3>1
  <2> QED
      BY <2>1, <2>2
<1> HIDE DEF from, k, hole, u
<1>0. Hands(c.got, c.start, u, m)
    BY DEF InRecv, u, m
<1>11. /\ got \in Seq(Nat) /\ Len(got) = Len(c.got) + (upto - from)
       /\ Hands(got, c.start, u, m)
  <2>1. GoesOn(c.start, Len(c.got), k, u, from, upto, m)
      BY ONLY <1>1, <1>7, <1>9 DEF GoesOn
  <2>2. c.got \in Seq(Nat)
      BY ONLY <1>1
  <2> QED
    <3>1. Hands(got, c.start, u, m)
        BY <1>0, <2>1, <2>2, HandsMore
    <3>2. got \in Seq(Nat)
        BY <1>0, <2>1, <2>2, HandsMore
    <3>3. Len(got) = Len(c.got) + (upto - from)
        BY <1>0, <2>1, <2>2, HandsMore
    <3> QED
        BY <3>1, <3>2, <3>3
<1> HIDE DEF got
<1>12. len \in Nat /\ Len(got) + len = Len(c.got) + c.len
  <2>1. /\ c.len \in Nat /\ upto \in Nat /\ from \in Nat /\ Len(c.got) \in Nat
        /\ from <= upto /\ upto - from <= c.len
        /\ Len(got) = Len(c.got) + (upto - from)
      BY ONLY <1>1, <1>7, <1>9, <1>11
  <2> QED
      BY ONLY <2>1
<1> HIDE DEF len
<1>13. got \in Gots
    BY <1>11 DEF Gots
<1>14. /\ d \in ReadCall /\ d.kind = "recv" /\ d.peek = c.peek
       /\ d.start = c.start /\ d.target = c.target /\ d.eof = c.eof
       /\ d.seq = upto /\ d.got = got /\ d.len = len /\ d.hole = hole
    BY ONLY <1>2, <1>3, <1>7, <1>9, <1>12, <1>13 DEF ReadCall
<1>15. Skipped(d, u) = k
  <2>1. CASE k = 1
    <3>1. c.start <= u /\ u < upto
        BY ONLY <1>1, <1>7, <1>9, <2>1
    <3> QED
        BY <1>14, <2>1, <3>1 DEF Skipped
  <2>2. CASE k = 0
    <3>1. u < c.start \/ upto <= u
        BY <1>9, <2>2
    <3>2. ~(c.start <= u /\ u < upto)
        BY <1>1, <1>7, <3>1
    <3> QED
        BY <1>14, <2>2, <3>2 DEF Skipped
  <2> QED
      BY <1>9, <2>1, <2>2
<1>16. d.seq = c.start + Len(d.got) + Skipped(d, u)
  <2>1. /\ Len(got) = Len(c.got) + (upto - from) /\ d.seq = upto
        /\ d.got = got /\ from = c.start + Len(c.got) + k
        /\ Len(c.got) \in Nat /\ c.start \in Nat /\ from \in Nat
        /\ upto \in Nat /\ k \in Nat
      BY ONLY <1>1, <1>7, <1>9, <1>11, <1>14
  <2> DEFINE a == c.start
             n == Len(c.got)
             g == Len(got)
  <2>2. /\ g \in Nat /\ g = n + (upto - from) /\ from = a + n + k
        /\ n \in Nat /\ a \in Nat /\ from \in Nat /\ upto \in Nat /\ k \in Nat
      BY ONLY <1>11, <2>1
  <2> HIDE DEF a, n, g
  <2>3. upto = a + g + k
      BY ONLY <2>2
  <2> QED
      BY ONLY <1>15, <2>1, <2>3 DEF a, g
<1>17. c.hole = Skipped(c, u) => d.hole = Skipped(d, u)
    BY <1>1, <1>9, <1>10, <1>14, <1>15
<1>18. d.target <= Len(d.got) + d.len
    BY <1>1, <1>12, <1>14
<1> QED
    BY <1>1, <1>7, <1>11, <1>14, <1>16, <1>17, <1>18 DEF Found, u, m

(* The numbers of a call in progress; m is where the data ends.            *)
RecvNumbers(s, r, c, n, m, skip) ==
    /\ n = Len(c.got) /\ m = DataEnd(r) /\ skip = Skipped(c, s.urg)
    /\ n \in Nat /\ m \in Nat /\ skip \in {0, 1} /\ c.seq \in Nat
    /\ c.start \in Nat /\ c.len \in Nat /\ s.urg \in Nat /\ s.write_seq \in Nat
    /\ r.rcv_nxt \in Nat /\ r.copied_seq \in Nat
    /\ c.seq = c.start + n + skip
    /\ r.copied_seq <= c.seq
    /\ m <= r.rcv_nxt
    /\ (skip = 1 => (c.start <= s.urg /\ s.urg < c.seq))
    /\ (skip = 0 => (s.urg < c.start \/ c.seq <= s.urg))

LEMMA RecvNumbersAre ==
    ASSUME NEW s, NEW r, NEW c, InRecv(s, r, c)
    PROVE  RecvNumbers(s, r, c, Len(c.got), DataEnd(r), Skipped(c, s.urg))
<1>1. /\ Len(c.got) \in Nat /\ DataEnd(r) \in Nat /\ c.seq \in Nat
      /\ c.start \in Nat /\ c.len \in Nat /\ s.urg \in Nat
      /\ Skipped(c, s.urg) \in {0, 1}
      /\ c.seq = c.start + Len(c.got) + Skipped(c, s.urg)
      /\ r.copied_seq <= c.seq
    BY InRecvIs
<1>2. /\ s.write_seq \in Nat /\ r.rcv_nxt \in Nat /\ r.copied_seq \in Nat
      /\ DataEnd(r) <= r.rcv_nxt
    BY EndIs DEF InRecv
<1>3. (Skipped(c, s.urg) = 1) => (c.start <= s.urg /\ s.urg < c.seq)
    BY <1>1 DEF Skipped
<1>4. (Skipped(c, s.urg) = 0) => (s.urg < c.start \/ c.seq <= s.urg)
    BY <1>1 DEF Skipped
<1> QED
    BY <1>1, <1>2, <1>3, <1>4 DEF RecvNumbers

(* The call stops before the urgent byte.                                  *)
LEMMA UrgentStops ==
    ASSUME NEW s, NEW r, NEW c, InRecv(s, r, c), UrgentAt(r, c.seq),
           Len(c.got) > 0
    PROVE  RecvDone(s, r, c)
<1> DEFINE n == Len(c.got)
           m == DataEnd(r)
           skip == Skipped(c, s.urg)
<1>1. /\ Core(s) /\ Tied(s, r) /\ c \in ReadCall /\ c.kind = "recv"
      /\ Hands(c.got, c.start, s.urg, DataEnd(r))
    BY DEF InRecv
<1>2. RecvNumbers(s, r, c, n, m, skip) /\ c.eof = FALSE /\ (c.got = <<>> <=> n = 0)
    BY RecvNumbersAre, InRecvIs
<1> HIDE DEF n, m, skip
<1>3. s.urg = c.seq /\ s.urg # MaxBytes
    BY <1>1, UrgentAhead DEF UrgentAt
<1>4. s.urg = c.start + n
  <2>1. /\ n \in Nat /\ skip \in {0, 1} /\ c.seq \in Nat /\ c.start \in Nat
        /\ c.seq = c.start + n + skip
        /\ (skip = 1 => s.urg < c.seq)
      BY ONLY <1>2 DEF RecvNumbers
  <2>2. skip = 0
      BY ONLY <1>3, <2>1
  <2> QED
      BY ONLY <1>3, <2>1, <2>2
<1>5. c.got # <<>>
  <2>1. n # 0
      BY DEF n
  <2> QED
      BY ONLY <1>2, <2>1
<1>6. RecvEnds(c, s, r)
    BY <1>2, <1>3, <1>4, <1>5 DEF RecvEnds, n
<1> QED
    BY <1>1, <1>6 DEF RecvDone

(* The call has what it wants, or does not wait.                           *)
LEMMA EnoughRead ==
    ASSUME NEW s, NEW r, NEW c, InRecv(s, r, c),
           \/ c.len = 0
           \/ Len(c.got) >= c.target
           \/ r.done = TRUE
           \/ c.block = FALSE
    PROVE  RecvDone(s, r, c)
<1> DEFINE n == Len(c.got)
<1>1. /\ Core(s) /\ Tied(s, r) /\ c \in ReadCall /\ c.kind = "recv"
      /\ Hands(c.got, c.start, s.urg, DataEnd(r))
    BY DEF InRecv
<1>2. /\ c.eof = FALSE /\ n \in Nat /\ c.target \in Nat /\ c.len \in Nat
      /\ c.target <= n + c.len
    BY InRecvIs
<1> HIDE DEF n
<1>3. n < c.target => (r.done = TRUE \/ c.block = FALSE)
    BY <1>2 DEF n
<1>4. RecvEnds(c, s, r)
    BY <1>2, <1>3 DEF RecvEnds, n
<1> QED
    BY <1>1, <1>4 DEF RecvDone

(* found_fin_ok: the call takes the FIN.                                   *)
LEMMA FinTaken ==
    ASSUME NEW s, NEW r, NEW c, InRecv(s, r, c), r.done = TRUE,
           c.seq = DataEnd(r), NEW d, d = found_fin_ok(c), NEW q, q = Consume(r, d)
    PROVE  RecvDone(s, q, d) /\ Consumed(s, r, d, q)
<1> DEFINE n == Len(c.got)
           m == DataEnd(r)
           skip == Skipped(c, s.urg)
           seq == c.seq + 1
           eof == c.got = <<>>
<1>1. /\ Core(s) /\ Tied(s, r) /\ c \in ReadCall /\ c.kind = "recv"
      /\ Hands(c.got, c.start, s.urg, m)
    BY DEF InRecv
<1>2. RecvNumbers(s, r, c, n, m, skip) /\ (c.got = <<>> <=> n = 0)
    BY RecvNumbersAre, InRecvIs
<1>3. r.rcv_nxt = m + 1 /\ m = s.write_seq /\ s.fin = "sent"
    BY <1>1, EndIs
<1>4. d = [c EXCEPT !.seq = seq, !.eof = eof]
    BY DEF found_fin_ok
<1>5. c.seq = m
    OBVIOUS
<1> HIDE DEF n, m, skip
<1>6. eof \in BOOLEAN /\ (eof = TRUE => n = 0)
    BY <1>2
<1> HIDE DEF eof
<1>7. /\ n \in Nat /\ m \in Nat /\ skip \in {0, 1} /\ c.seq \in Nat
      /\ c.start \in Nat /\ s.urg \in Nat /\ s.write_seq \in Nat
      /\ r.rcv_nxt \in Nat /\ r.copied_seq \in Nat
      /\ c.seq = c.start + n + skip
      /\ r.copied_seq <= c.seq
      /\ (skip = 1 => (c.start <= s.urg /\ s.urg < c.seq))
    BY ONLY <1>2 DEF RecvNumbers
<1>8. seq \in Nat /\ r.copied_seq <= seq /\ seq <= r.rcv_nxt
    BY ONLY <1>3, <1>5, <1>7
<1> HIDE DEF seq
<1>9. /\ d \in ReadCall /\ d.kind = "recv" /\ d.got = c.got
      /\ d.start = c.start /\ d.eof = eof /\ d.seq = seq
    BY ONLY <1>1, <1>4, <1>6, <1>8 DEF ReadCall
<1>10. Within(r, d)
    BY <1>8, <1>9 DEF Within
<1>11. Consumed(s, r, d, q)
    BY <1>1, <1>10, ConsumeIs
<1>12. (n = 0) => \/ s.write_seq <= c.start
                  \/ c.start = s.urg /\ s.urg + 1 = s.write_seq
  <2>1. CASE skip = 0
      BY ONLY <1>3, <1>5, <1>7, <2>1
  <2>2. CASE skip = 1
      BY ONLY <1>3, <1>5, <1>7, <2>2
  <2> QED
      BY ONLY <1>7, <2>1, <2>2
<1>13. q.done = TRUE /\ DataEnd(q) = m /\ Tied(s, q)
    BY <1>11 DEF Consumed, m
<1>14. RecvEnds(d, s, q)
    BY <1>3, <1>6, <1>9, <1>12, <1>13 DEF RecvEnds
<1>15. Hands(d.got, d.start, s.urg, DataEnd(q))
    BY <1>1, <1>9, <1>13
<1> QED
    BY <1>1, <1>9, <1>11, <1>13, <1>14, <1>15 DEF RecvDone

(* Nothing is left behind the FIN.                                         *)
LEMMA AfterFin ==
    ASSUME NEW s, NEW r, NEW c, InRecv(s, r, c), r.done = TRUE,
           Len(c.got) = 0, ~(c.seq < DataEnd(r)), c.seq # DataEnd(r),
           NEW d, d = [c EXCEPT !.eof = TRUE]
    PROVE  RecvDone(s, r, d)
<1> DEFINE n == Len(c.got)
           m == DataEnd(r)
           skip == Skipped(c, s.urg)
<1>1. /\ Core(s) /\ Tied(s, r) /\ c \in ReadCall /\ c.kind = "recv"
      /\ Hands(c.got, c.start, s.urg, m)
    BY DEF InRecv
<1>2. RecvNumbers(s, r, c, n, m, skip)
    BY RecvNumbersAre
<1>3. m = s.write_seq /\ s.fin = "sent"
    BY <1>1, EndIs
<1>4. n = 0 /\ ~(c.seq < m) /\ c.seq # m
    OBVIOUS
<1> HIDE DEF n, m, skip
<1>5. /\ m \in Nat /\ skip \in {0, 1} /\ c.seq \in Nat /\ c.start \in Nat
      /\ n \in Nat /\ c.seq = c.start + n + skip
    BY ONLY <1>2 DEF RecvNumbers
<1>6. s.write_seq <= c.start
    BY ONLY <1>3, <1>4, <1>5
<1>7. /\ d \in ReadCall /\ d.kind = "recv" /\ d.got = c.got
      /\ d.start = c.start /\ d.eof = TRUE
    BY ONLY <1>1, d = [c EXCEPT !.eof = TRUE] DEF ReadCall
<1>8. RecvEnds(d, s, r)
    BY <1>3, <1>6, <1>7 DEF RecvEnds
<1> QED
    BY <1>1, <1>7, <1>8 DEF RecvDone, m

(* found_ok_skb: what is handed over is consumed, but for a peek.          *)
LEMMA FoundReads ==
    ASSUME NEW s, NEW r, NEW c, InRecv(s, r, c), NEW d, Found(s, r, c, d),
           NEW q, q = Consume(r, d)
    PROVE  InRecv(s, q, d) /\ q.pc = r.pc /\ DataEnd(q) = DataEnd(r)
<1>1. /\ Core(s) /\ Tied(s, r) /\ RecvGoes(c, s.urg, r)
      /\ RecvNumbers(s, r, c, Len(c.got), DataEnd(r), Skipped(c, s.urg))
      /\ c.peek \in BOOLEAN
    BY RecvNumbersAre, InRecvIs DEF InRecv
<1>2. /\ d \in ReadCall /\ d.kind = "recv" /\ d.peek = c.peek
      /\ d.start = c.start /\ d.eof = FALSE
      /\ Hands(d.got, c.start, s.urg, DataEnd(r))
      /\ d.seq = c.start + Len(d.got) + Skipped(d, s.urg)
      /\ d.target <= Len(d.got) + d.len
      /\ (c.hole = Skipped(c, s.urg) => d.hole = Skipped(d, s.urg))
      /\ c.seq < d.seq /\ d.seq <= DataEnd(r)
    BY DEF Found
<1>3. d.seq \in Nat
    BY <1>2, CallFields
<1>4. r.copied_seq <= d.seq /\ d.seq <= r.rcv_nxt
  <2> DEFINE m == DataEnd(r)
  <2>1. /\ m \in Nat /\ c.seq \in Nat /\ r.rcv_nxt \in Nat /\ r.copied_seq \in Nat
        /\ r.copied_seq <= c.seq /\ m <= r.rcv_nxt
      BY ONLY <1>1 DEF RecvNumbers
  <2>2. c.seq < d.seq /\ d.seq <= m
      BY ONLY <1>2
  <2> HIDE DEF m
  <2> QED
      BY ONLY <1>3, <2>1, <2>2
<1>5. Within(r, d)
    BY <1>2, <1>4 DEF Within
<1>6. Consumed(s, r, d, q)
    BY <1>1, <1>5, ConsumeIs
<1>7. /\ Tied(s, q) /\ q.pc = r.pc /\ q.rcv_nxt = r.rcv_nxt
      /\ DataEnd(q) = DataEnd(r)
      /\ q.copied_seq = IF d.peek = TRUE THEN r.copied_seq ELSE d.seq
    BY <1>6 DEF Consumed
<1>8. RecvGoes(d, s.urg, q)
  <2>1. CASE c.peek = TRUE
    <3>1. r.copied_seq = c.start /\ c.hole = Skipped(c, s.urg)
        BY <1>1, <2>1 DEF RecvGoes
    <3>2. q.copied_seq = d.start /\ d.hole = Skipped(d, s.urg)
        BY <1>2, <1>7, <2>1, <3>1
    <3> QED
        BY <1>2, <2>1, <3>2 DEF RecvGoes
  <2>2. CASE c.peek = FALSE
    <3>1. q.copied_seq = d.seq /\ d.peek = FALSE
        BY <1>2, <1>7, <2>2
    <3> QED
        BY <1>2, <3>1 DEF RecvGoes
  <2> QED
      BY <1>1, <2>1, <2>2
<1>9. Hands(d.got, d.start, s.urg, DataEnd(q)) /\ d.seq <= q.rcv_nxt
    BY <1>2, <1>4, <1>7
<1> QED
    BY <1>1, <1>2, <1>7, <1>8, <1>9 DEF InRecv

LEMMA PassReads ==
    ASSUME NEW s, NEW r, NEW c, InRecv(s, r, c), r.pc = "reading", NEW t,
           \E backlog \in BOOLEAN : t = tcp_recvmsg_pass(r, c, backlog)
    PROVE  ReadInv(s, t)
<1> DEFINE n == Len(c.got)
           m == DataEnd(r)
           next == found_ok_skb(r, c)
           fin == found_fin_ok(c)
           ended == [c EXCEPT !.eof = TRUE]
           after == Consume(r, next)
           q == Consume(r, fin)
<1>1. r.done \in BOOLEAN /\ c.block \in BOOLEAN /\ n \in Nat
    BY InRecvIs
<1>2. \/ /\ UrgentAt(r, c.seq) /\ n > 0
         /\ t = tcp_recvmsg_done(r, c)
      \/ /\ c.len # 0
         /\ ~(UrgentAt(r, c.seq) /\ n > 0)
         /\ c.seq < m
         /\ t = [after EXCEPT !.call = next]
      \/ /\ r.done = TRUE /\ c.seq = m
         /\ t = tcp_recvmsg_done(q, fin)
      \/ /\ c.len = 0 \/ n >= c.target \/ r.done = TRUE \/ c.block = FALSE
         /\ t = tcp_recvmsg_done(r, c)
      \/ /\ n = 0 /\ r.done = TRUE /\ ~(c.seq < m) /\ c.seq # m
         /\ t = tcp_recvmsg_done(r, ended)
      \/ t = Waits(tcp_cleanup_rbuf(r, n), c)
  <2>1. PICK backlog \in BOOLEAN : t = tcp_recvmsg_pass(r, c, backlog)
      OBVIOUS
  <2> QED
      BY <1>1, <2>1 DEF tcp_recvmsg_pass
<1>3. next = found_ok_skb(r, c) /\ fin = found_fin_ok(c) /\ after = Consume(r, next)
      /\ q = Consume(r, fin) /\ ended = [c EXCEPT !.eof = TRUE]
    OBVIOUS
<1> HIDE DEF next, fin, ended, after, q
<1>4. CASE UrgentAt(r, c.seq) /\ n > 0 /\ t = tcp_recvmsg_done(r, c)
    BY <1>4, UrgentStops, RecvReturns
<1>5. CASE /\ c.len # 0
           /\ ~(UrgentAt(r, c.seq) /\ n > 0)
           /\ c.seq < m
           /\ t = [after EXCEPT !.call = next]
  <2>1. Found(s, r, c, next)
      BY <1>3, <1>5, FoundIs
  <2>2. InRecv(s, after, next) /\ after.pc = "reading"
      BY <1>3, <2>1, FoundReads
  <2>3. t = Puts(after, "reading", next)
    <3>1. after \in Rx /\ after.pc = "reading" /\ t = [after EXCEPT !.call = next]
        BY <1>5, <2>2 DEF InRecv, Tied
    <3> QED
        BY ONLY <3>1 DEF Rx, Puts
  <2>4. Cleaned(after, after)
      BY DEF Cleaned
  <2> QED
      BY <2>2, <2>3, <2>4, RecvWaits
<1>6. CASE r.done = TRUE /\ c.seq = m /\ t = tcp_recvmsg_done(q, fin)
    BY <1>3, <1>6, FinTaken, RecvReturns
<1>7. CASE /\ c.len = 0 \/ n >= c.target \/ r.done = TRUE \/ c.block = FALSE
           /\ t = tcp_recvmsg_done(r, c)
    BY <1>7, EnoughRead, RecvReturns
<1>8. CASE /\ n = 0 /\ r.done = TRUE /\ ~(c.seq < m) /\ c.seq # m
           /\ t = tcp_recvmsg_done(r, ended)
  <2>1. RecvDone(s, r, ended)
      BY <1>8, AfterFin DEF ended
  <2> QED
      BY <1>8, <2>1, RecvReturns
<1>9. CASE t = Waits(tcp_cleanup_rbuf(r, n), c)
  <2> DEFINE w == tcp_cleanup_rbuf(r, n)
  <2>1. Cleaned(r, w)
      BY <1>1 DEF Cleaned
  <2>2. t = Puts(w, "waiting", c)
      BY <1>9 DEF Waits, Puts
  <2> HIDE DEF w
  <2> QED
      BY <2>1, <2>2, RecvWaits
<1> QED
    BY <1>2, <1>4, <1>5, <1>6, <1>7, <1>8, <1>9

-----------------------------------------------------------------------------
(* splice().                                                               *)

(* A call of splice() that goes on, at its state c.                        *)
InSplice(s, r, c) ==
    /\ Core(s)
    /\ Tied(s, r)
    /\ c \in ReadCall
    /\ c.kind = "splice"
    /\ Hands(c.got, c.start, s.urg, DataEnd(r))
    /\ r.copied_seq = c.seq
    /\ c.seq = c.start + Len(c.got)
    /\ (s.urg < c.start \/ c.seq <= s.urg)
    /\ c.seq <= r.rcv_nxt

(* It has taken the FIN behind the last byte.                              *)
SplicedFin(s, r, d) ==
    /\ d.seq = DataEnd(r) + 1
    /\ DataEnd(r) = d.start + Len(d.got)
    /\ (s.urg < d.start \/ DataEnd(r) <= s.urg)

(* What tcp_read_sock() makes of the call.                                 *)
Spliced(s, r, c, d) ==
    /\ d \in ReadCall
    /\ d.kind = "splice"
    /\ d.start = c.start
    /\ Hands(d.got, d.start, s.urg, DataEnd(r))
    /\ r.copied_seq <= d.seq
    /\ d.seq <= r.rcv_nxt
    /\ (r.urg # "none" => d.seq <= r.urg_seq)
    /\ \/ d.seq = d.start + Len(d.got) /\ (s.urg < d.start \/ d.seq <= s.urg)
       \/ r.done = TRUE /\ SplicedFin(s, r, d)

LEMMA ReadSockIs ==
    ASSUME NEW s, NEW r, NEW c, InSplice(s, r, c), NEW d, d = tcp_read_sock(r, c)
    PROVE  Spliced(s, r, c, d)
<1> DEFINE n == Len(c.got)
           m == DataEnd(r)
           start == c.start
           u == s.urg
           avail == m - c.seq
           wanted == IF c.len < avail THEN c.len ELSE avail
           to == c.seq + wanted
           upto == IF UrgentAt(r, c.seq) THEN c.seq ELSE UpToUrgent(r, c.seq, to)
           got == c.got \o Bytes(c.seq, upto)
           len == c.len - (upto - c.seq)
           read == [c EXCEPT !.seq = upto, !.got = got, !.len = len]
           fin == r.done /\ upto = m /\ read.len > 0
<1>1. /\ Core(s) /\ Tied(s, r) /\ c \in ReadCall /\ c.kind = "splice"
      /\ Hands(c.got, start, u, m)
      /\ r.copied_seq = c.seq
      /\ c.seq = start + n
      /\ (u < start \/ c.seq <= u)
      /\ c.seq <= r.rcv_nxt
    BY DEF InSplice
<1>2. /\ c.got \in Seq(Nat) /\ n \in Nat /\ c.len \in Nat /\ start \in Nat
      /\ c.seq \in Nat
    BY <1>1, CallFields
<1>3. /\ m \in Nat /\ m <= r.rcv_nxt /\ u \in Nat /\ r.rcv_nxt \in Nat
      /\ r.done \in BOOLEAN
      /\ (r.done = TRUE => (r.rcv_nxt = m + 1 /\ m = s.write_seq))
      /\ (r.done = FALSE => r.rcv_nxt = m)
    BY <1>1, EndIs
<1>4. \/ r.done = TRUE /\ c.seq > m /\ d = c
      \/ ~(r.done = TRUE /\ c.seq > m) /\ ~fin /\ d = read
      \/ ~(r.done = TRUE /\ c.seq > m) /\ fin /\ d = [read EXCEPT !.seq = @ + 1]
    BY <1>3 DEF tcp_read_sock
<1>5. (r.urg # "none") => (r.urg_seq = u /\ u < s.write_seq /\ c.seq <= u)
    BY <1>1, UrgentAhead
<1>6. n = Len(c.got) /\ start = c.start /\ m = DataEnd(r) /\ u = s.urg
    OBVIOUS
<1> HIDE DEF n, m, start, u
<1>7. CASE d = c
    BY <1>1, <1>2, <1>3, <1>5, <1>6, <1>7 DEF Spliced
<1>8. CASE ~(r.done = TRUE /\ c.seq > m)
  <2>1. /\ to \in Nat /\ c.seq <= to /\ to <= m /\ to - c.seq <= c.len
    <3>1. c.seq <= m
        BY ONLY <1>1, <1>2, <1>3, <1>8
    <3> QED
        BY ONLY <1>2, <1>3, <3>1
  <2> HIDE DEF to
  <2>2. /\ upto \in Nat /\ c.seq <= upto /\ upto <= to
        /\ (u < start \/ upto <= u)
    <3>1. CASE UrgentAt(r, c.seq)
        BY <1>1, <1>2, <2>1, <3>1
    <3>2. CASE ~UrgentAt(r, c.seq) /\ c.seq = to
      <4>1. upto = to
          BY <1>2, <2>1, <3>2, <1>3, <1>5 DEF UpToUrgent
      <4> QED
          BY <1>1, <2>1, <3>2, <4>1
    <3>3. CASE ~UrgentAt(r, c.seq) /\ c.seq < to
      <4>1. r.copied_seq <= c.seq /\ to <= DataEnd(r)
          BY <1>1, <1>2, <1>6, <2>1
      <4>2. /\ (UrgentAt(r, c.seq) <=> c.seq = s.urg)
            /\ UpToUrgent(r, c.seq, to) = IF c.seq < s.urg /\ s.urg < to
                                          THEN s.urg ELSE to
          BY <1>1, <1>2, <2>1, <3>3, <4>1, UrgentIs
      <4>3. c.seq # u /\ upto = IF c.seq < u /\ u < to THEN u ELSE to
          BY <1>6, <3>3, <4>2
      <4> HIDE DEF upto
      <4> QED
          BY ONLY <1>1, <1>2, <1>3, <2>1, <3>3, <4>3
    <3> QED
        BY <1>2, <2>1, <3>1, <3>2, <3>3
  <2> HIDE DEF upto
  <2>3. got \in Seq(Nat) /\ Len(got) = n + (upto - c.seq) /\ Hands(got, start, u, m)
    <3>1. GoesOn(start, n, 0, u, c.seq, upto, m)
        BY ONLY <1>1, <1>2, <1>3, <2>1, <2>2 DEF GoesOn
    <3>2. GoesOn(start, Len(c.got), 0, u, c.seq, upto, m)
        BY <1>6, <3>1
    <3>3. Hands(got, start, u, m)
        BY <1>1, <1>2, <3>2, HandsMore
    <3>4. got \in Seq(Nat)
        BY <1>1, <1>2, <3>2, HandsMore
    <3> DEFINE from == c.seq
    <3>5. Len(c.got \o Bytes(from, upto)) = Len(c.got) + (upto - from)
      <4>1. GoesOn(start, Len(c.got), 0, u, from, upto, m)
          BY <3>2
      <4>2. from \in Nat
          BY <1>2
      <4> HIDE DEF from
      <4> QED
          BY <1>1, <1>2, <4>1, <4>2, HandsMore
    <3> QED
        BY <1>6, <3>3, <3>4, <3>5
  <2> HIDE DEF got
  <2>4. len \in Nat
      BY ONLY <1>2, <2>1, <2>2
  <2>5. read = [c EXCEPT !.seq = upto, !.got = got, !.len = len]
      OBVIOUS
  <2> HIDE DEF len, read
  <2>6. got \in Gots
      BY <2>3 DEF Gots
  <2>7. /\ read \in ReadCall /\ read.kind = "splice" /\ read.start = c.start
        /\ read.got = got /\ read.seq = upto
      BY ONLY <1>1, <2>2, <2>4, <2>5, <2>6 DEF ReadCall
  <2>8. upto = start + Len(got)
    <3> DEFINE g == Len(got)
    <3>1. g = n + (upto - c.seq) /\ g \in Nat
        BY <2>3
    <3> HIDE DEF g
    <3>2. upto = start + g
        BY ONLY <1>1, <1>2, <2>2, <3>1
    <3> QED
        BY <3>2 DEF g
  <2>9. r.copied_seq <= upto /\ upto <= m /\ upto <= r.rcv_nxt
      BY ONLY <1>1, <1>2, <1>3, <2>1, <2>2
  <2>10. (r.urg # "none") => (r.urg_seq = u /\ u < s.write_seq /\ upto <= r.urg_seq)
    <3>1. start <= c.seq
        BY ONLY <1>1, <1>2
    <3> QED
        BY ONLY <1>2, <1>3, <1>5, <2>2, <3>1
  <2>11. CASE d = read
      BY <1>6, <2>2, <2>3, <2>7, <2>8, <2>9, <2>10, <2>11 DEF Spliced
  <2>12. CASE fin /\ d = [read EXCEPT !.seq = @ + 1]
    <3> DEFINE seq == upto + 1
    <3>1. r.done = TRUE /\ upto = m /\ d = [read EXCEPT !.seq = seq]
        BY <1>3, <2>7, <2>12 DEF ReadCall
    <3>2. seq \in Nat /\ r.copied_seq <= seq /\ seq <= r.rcv_nxt
        BY ONLY <1>1, <1>2, <1>3, <2>2, <3>1
    <3>3. r.urg = "none"
        BY <1>3, <2>2, <2>10, <3>1
    <3> HIDE DEF seq
    <3>4. /\ d \in ReadCall /\ d.kind = "splice" /\ d.start = c.start
          /\ d.got = got /\ d.seq = seq
        BY ONLY <2>7, <3>1, <3>2 DEF ReadCall
    <3>5. SplicedFin(s, r, d)
        BY <1>6, <2>2, <2>8, <3>1, <3>4 DEF SplicedFin, seq
    <3> QED
        BY <1>6, <2>3, <3>1, <3>2, <3>3, <3>4, <3>5 DEF Spliced
  <2> QED
      BY <1>4, <1>7, <1>8, <2>11, <2>12 DEF read
<1> QED
    BY <1>4, <1>7, <1>8

(* A splice() that takes some goes on or returns.                          *)
LEMMA SpliceReads ==
    ASSUME NEW s, NEW r, NEW c, InSplice(s, r, c), NEW t,
           t = tcp_splice_read(r, c)
    PROVE  ReadInv(s, t)
<1> DEFINE d == tcp_read_sock(r, c)
           moved == Len(d.got) - Len(c.got)
           after == [r EXCEPT !.copied_seq = d.seq]
           cleaned == tcp_cleanup_rbuf(after, moved)
           eof == d.got = <<>> /\ (r.done \/ c.block)
           ended == [d EXCEPT !.eof = eof]
<1>1. /\ Core(s) /\ Tied(s, r) /\ c \in ReadCall
    BY DEF InSplice
<1>2. Spliced(s, r, c, d)
    BY ReadSockIs
<1>3. /\ d \in ReadCall /\ d.kind = "splice"
      /\ Hands(d.got, d.start, s.urg, DataEnd(r))
      /\ r.copied_seq <= d.seq
      /\ d.seq <= r.rcv_nxt
      /\ (r.urg # "none" => d.seq <= r.urg_seq)
      /\ \/ d.seq = d.start + Len(d.got) /\ (s.urg < d.start \/ d.seq <= s.urg)
         \/ r.done = TRUE
    BY <1>2 DEF Spliced
<1>4. \/ moved > 0 /\ t = Returns(cleaned, d)
      \/ moved > 0 /\ t = Waits(cleaned, d)
      \/ t = Returns(after, ended)
      \/ r.done = FALSE /\ t = Waits(after, d)
  <2>1. r.done \in BOOLEAN
      BY <1>1, EndIs
  <2> QED
      BY <2>1 DEF tcp_splice_read, Stored
<1>5. Len(c.got) \in Nat /\ Len(d.got) \in Nat /\ d.seq \in Nat /\ d.got \in Seq(Nat)
    BY <1>1, <1>3, CallFields
<1>6. after = [r EXCEPT !.copied_seq = d.seq]
    OBVIOUS
<1>7. (moved > 0) => d.got # <<>>
  <2> DEFINE a == Len(c.got)
             b == Len(d.got)
  <2>1. a \in Nat /\ b \in Nat /\ moved = b - a
      BY <1>5
  <2>2. (d.got = <<>>) => b = 0
      OBVIOUS
  <2> HIDE DEF a, b, moved, d
  <2> QED
      BY ONLY <2>1, <2>2
<1>8. eof \in BOOLEAN
    OBVIOUS
<1>9. ended = [d EXCEPT !.eof = eof]
    OBVIOUS
<1> HIDE DEF d, moved, after, eof, ended
<1>10. /\ Tied(s, after) /\ after.copied_seq = d.seq /\ after.rcv_nxt = r.rcv_nxt
       /\ after.done = r.done /\ DataEnd(after) = DataEnd(r)
    BY <1>1, <1>3, <1>5, <1>6, TiedMoves
<1>11. Tied(s, cleaned) /\ SameRead(after, cleaned) /\ DataEnd(cleaned) = DataEnd(r)
  <2>1. /\ Tied(s, cleaned) /\ SameRead(after, cleaned)
        /\ DataEnd(cleaned) = DataEnd(after)
      BY <1>1, <1>10, CleanupIs
  <2> QED
      BY <1>10, <2>1
<1> HIDE DEF cleaned
<1>12. ASSUME NEW q, Tied(s, q), q.copied_seq = d.seq, q.rcv_nxt = r.rcv_nxt,
              q.done = r.done, DataEnd(q) = DataEnd(r), t = Waits(q, d),
              d.got # <<>> \/ r.done = FALSE
       PROVE  ReadInv(s, t)
  <2>1. t = Puts(q, "waiting", d)
      BY <1>12 DEF Waits, Puts
  <2>2. /\ Tied(s, t) /\ t.pc = "waiting" /\ t.call = d /\ t.rcv_nxt = q.rcv_nxt
        /\ t.copied_seq = q.copied_seq /\ t.done = q.done
        /\ DataEnd(t) = DataEnd(q)
      BY <1>3, <1>12, <2>1, CallPut
  <2>3. SpliceGoes(d, s.urg, t)
      BY <1>3, <1>12, <2>2 DEF SpliceGoes
  <2>4. CallIs(s, t)
      BY <1>3, <1>12, <2>2, <2>3 DEF CallIs
  <2> QED
      BY <2>2, <2>4 DEF ReadInv, Tied
<1>13. CASE moved > 0 /\ t = Returns(cleaned, d)
    BY <1>3, <1>11, <1>13, OtherReturns
<1>14. CASE moved > 0 /\ t = Waits(cleaned, d)
    BY <1>7, <1>10, <1>11, <1>12, <1>14 DEF SameRead
<1>15. CASE t = Returns(after, ended)
  <2>1. /\ ended \in ReadCall /\ ended.kind = "splice" /\ ended.got = d.got
        /\ ended.start = d.start
      BY ONLY <1>3, <1>8, <1>9 DEF ReadCall
  <2> QED
      BY <1>3, <1>10, <1>15, <2>1, OtherReturns
<1>16. CASE r.done = FALSE /\ t = Waits(after, d)
    BY <1>10, <1>12, <1>16
<1> QED
    BY <1>4, <1>13, <1>14, <1>15, <1>16

-----------------------------------------------------------------------------
(* The other readers, and how a call starts.                               *)

Fresh(r, c) ==
    /\ c \in ReadCall
    /\ c.start = r.copied_seq
    /\ c.seq = r.copied_seq
    /\ c.hole = 0
    /\ c.got = <<>>
    /\ c.eof = FALSE
    /\ c.target <= c.len

LEMMA NothingHandsOver ==
    ASSUME NEW start, NEW u, NEW m
    PROVE  Hands(<<>>, start, u, m) /\ Len(<<>>) = 0
<1>1. Len(<<>>) = 0 /\ 1 .. Len(<<>>) = {}
    OBVIOUS
<1> QED
    BY <1>1 DEF Hands

(* What tcp_inq() counts can be read without meeting the urgent byte.      *)
LEMMA InqIs ==
    ASSUME NEW s, NEW r, Core(s), Tied(s, r)
    PROVE  /\ tcp_inq(r) \in Nat
           /\ r.copied_seq + tcp_inq(r) <= r.rcv_nxt
           /\ (r.urg # "none" => r.copied_seq + tcp_inq(r) <= r.urg_seq)
           /\ \/ tcp_inq(r) = 0
              \/ /\ r.copied_seq + tcp_inq(r) <= DataEnd(r)
                 /\ (s.urg < r.copied_seq \/ r.copied_seq + tcp_inq(r) <= s.urg)
<1> DEFINE m == DataEnd(r)
           u == s.urg
           i == tcp_inq(r)
<1>1. /\ m \in Nat /\ m <= r.rcv_nxt /\ m <= MaxBytes
      /\ (r.done = TRUE => (r.rcv_nxt = m + 1 /\ m = s.write_seq))
      /\ (r.done = FALSE => r.rcv_nxt = m)
      /\ u \in Nat /\ s.write_seq \in Nat /\ r.rcv_nxt \in Nat
      /\ r.copied_seq \in Nat /\ r.urg_seq \in Nat /\ r.done \in BOOLEAN
      /\ MaxBytes \in Nat
    BY EndIs
<1>2. /\ r.copied_seq <= r.rcv_nxt
      /\ (r.urg # "none" => (/\ r.urg_seq = u
                             /\ u < s.write_seq
                             /\ r.copied_seq <= r.urg_seq))
      /\ ((u # MaxBytes /\ u < r.rcv_nxt /\ r.copied_seq <= u) => r.urg # "none")
    BY DEF Tied, Knows
<1>3. \/ /\ r.urg = "none" \/ r.urg_seq < r.copied_seq \/ r.urg_seq >= r.rcv_nxt
         /\ r.done = TRUE /\ r.rcv_nxt > r.copied_seq
         /\ i = r.rcv_nxt - r.copied_seq - 1
      \/ /\ r.urg = "none" \/ r.urg_seq < r.copied_seq \/ r.urg_seq >= r.rcv_nxt
         /\ ~(r.done = TRUE /\ r.rcv_nxt > r.copied_seq)
         /\ i = r.rcv_nxt - r.copied_seq
      \/ /\ r.urg # "none" /\ r.urg_seq >= r.copied_seq /\ r.urg_seq < r.rcv_nxt
         /\ i = r.urg_seq - r.copied_seq
    BY <1>1 DEF tcp_inq
<1> HIDE DEF m, u, i
<1>4. /\ i \in Nat /\ r.copied_seq + i <= r.rcv_nxt
      /\ (r.urg # "none" => r.copied_seq + i <= r.urg_seq)
    BY ONLY <1>1, <1>2, <1>3
<1>5. i = 0 \/ r.copied_seq + i <= m
    BY ONLY <1>1, <1>2, <1>3
<1>6. i = 0 \/ u < r.copied_seq \/ r.copied_seq + i <= u
    BY ONLY <1>1, <1>2, <1>3
<1> QED
    BY <1>4, <1>5, <1>6 DEF m, u, i

(* tcp_zerocopy_receive() hands over whole pages of them.                  *)
LEMMA MapReads ==
    ASSUME NEW s, NEW r, NEW c, Core(s), Tied(s, r), Fresh(r, c), c.kind = "map",
           NEW most \in Nat, most <= tcp_inq(r),
           NEW pages \in 0 .. most \div Page,
           NEW t, t = tcp_zerocopy_receive(r, c, pages)
    PROVE  ReadInv(s, t)
<1> DEFINE n == pages * Page
           seq == c.seq + n
           got == Bytes(c.seq, seq)
           read == [c EXCEPT !.seq = seq, !.got = got]
           after == [r EXCEPT !.copied_seq = read.seq]
           q == tcp_cleanup_rbuf(after, n)
           i == tcp_inq(r)
           m == DataEnd(r)
           u == s.urg
<1>1. /\ c \in ReadCall /\ c.start = r.copied_seq /\ c.seq = r.copied_seq
      /\ c.got = <<>> /\ c.seq \in Nat /\ c.start \in Nat
    BY CallFields DEF Fresh
<1>2. t = Returns(r, c) \/ t = Returns(q, read)
  <2>1. read = [c EXCEPT !.seq = @ + pages * Page,
                         !.got = Bytes(c.seq, c.seq + pages * Page)]
      BY <1>1 DEF ReadCall
  <2> QED
      BY <2>1 DEF tcp_zerocopy_receive, Stored
<1>3. n \in Nat /\ n <= i
  <2> DEFINE whole == most \div Page
  <2>1. Page \in Nat \ {0} /\ pages \in Nat
      BY Constants
  <2>2. whole \in Nat /\ whole * Page \in Nat /\ whole * Page <= most
      BY <2>1, Multiples
  <2>3. pages <= whole
      BY <2>2
  <2>4. i \in Nat /\ most <= i
      BY InqIs
  <2> HIDE DEF whole, i
  <2>5. pages * Page \in Nat /\ pages * Page <= whole * Page
      BY ONLY <2>1, <2>2, <2>3
  <2> QED
      BY <2>2, <2>4, <2>5
<1>4. /\ i \in Nat
      /\ r.copied_seq + i <= r.rcv_nxt
      /\ (r.urg # "none" => r.copied_seq + i <= r.urg_seq)
      /\ (i = 0 \/ (/\ r.copied_seq + i <= m
                    /\ (u < r.copied_seq \/ r.copied_seq + i <= u)))
    BY InqIs
<1>5. /\ r.copied_seq \in Nat /\ r.rcv_nxt \in Nat /\ r.urg_seq \in Nat
      /\ m \in Nat /\ u \in Nat
    BY EndIs
<1>6. t = Returns(r, c) => ReadInv(s, t)
  <2>1. Hands(c.got, c.start, s.urg, DataEnd(r))
      BY <1>1, NothingHandsOver
  <2> QED
      BY <1>1, <2>1, OtherReturns
<1> HIDE DEF n, i, m, u
<1>7. /\ seq \in Nat /\ r.copied_seq <= seq /\ seq <= r.rcv_nxt
      /\ (r.urg # "none" => seq <= r.urg_seq)
    BY ONLY <1>1, <1>3, <1>4, <1>5
<1>8. n = 0 \/ GoesOn(r.copied_seq, 0, 0, u, r.copied_seq, seq, m)
    BY ONLY <1>1, <1>3, <1>4, <1>5 DEF GoesOn
<1>9. got \in Seq(Nat) /\ Hands(got, c.start, u, m)
  <2>1. CASE n = 0
    <3>1. seq = c.seq
        BY <1>1, <2>1
    <3> DEFINE from == c.seq
    <3>2. from \in Nat /\ seq \in Nat /\ seq = from
        BY <1>1, <1>7, <3>1
    <3>3. got = Bytes(from, seq)
        OBVIOUS
    <3> HIDE DEF seq, from, got
    <3>4. got \in Seq(Nat)
        BY <3>2, <3>3, BytesAre
    <3>5. Len(got) = 0
      <4>1. Len(Bytes(from, seq)) = IF from <= seq THEN seq - from ELSE 0
          BY <3>2, BytesAre
      <4> DEFINE len == Len(got)
      <4>2. len = IF from <= seq THEN seq - from ELSE 0
          BY <3>3, <4>1
      <4> HIDE DEF len
      <4> QED
          BY ONLY <3>2, <4>2 DEF len
    <3>6. got = <<>>
        BY <3>4, <3>5
    <3> QED
        BY <3>4, <3>6, NothingHandsOver
  <2>2. CASE GoesOn(r.copied_seq, 0, 0, u, r.copied_seq, seq, m)
    <3> DEFINE none == <<>>
    <3>1. none \in Seq(Nat) /\ Len(none) = 0 /\ Hands(none, c.start, u, m)
        BY NothingHandsOver
    <3> HIDE DEF seq
    <3>2. got \in Seq(Nat)
        BY <1>1, <1>7, BytesAre
    <3>3. none \o got = got
        BY <3>2
    <3> HIDE DEF none
    <3>4. GoesOn(c.start, Len(none), 0, u, c.seq, seq, m)
        BY <1>1, <2>2, <3>1
    <3>5. Hands(none \o got, c.start, u, m)
        BY <3>1, <3>4, HandsMore
    <3> QED
        BY <3>2, <3>3, <3>5
  <2> QED
      BY <1>8, <2>1, <2>2
<1> HIDE DEF seq, got
<1>10. /\ read \in ReadCall /\ read.kind = "map" /\ read.start = c.start
       /\ read.seq = seq /\ read.got = got
  <2>1. got \in Gots
      BY <1>9 DEF Gots
  <2> QED
      BY ONLY <1>1, <1>7, <2>1, c.kind = "map" DEF ReadCall
<1>11. after = [r EXCEPT !.copied_seq = seq]
    BY <1>10
<1> HIDE DEF read, after
<1>12. Tied(s, after) /\ DataEnd(after) = DataEnd(r)
    BY <1>7, <1>11, TiedMoves
<1>13. Tied(s, q) /\ DataEnd(q) = DataEnd(r)
    BY <1>12, CleanupIs
<1>14. Hands(read.got, read.start, s.urg, DataEnd(q))
    BY <1>9, <1>10, <1>13 DEF u, m
<1> HIDE DEF q
<1>15. t = Returns(q, read) => ReadInv(s, t)
    BY <1>10, <1>13, <1>14, OtherReturns
<1> QED
    BY <1>2, <1>6, <1>15

(* The state of a call that starts.                                        *)
Started(r, call) ==
    [NoRead EXCEPT !.kind = call.kind, !.len = call.len, !.peek = call.peek,
                   !.block = call.block, !.target = sock_rcvlowat(r, call),
                   !.start = r.copied_seq, !.seq = r.copied_seq]

LEMMA NoReadIs ==
    /\ NoRead \in ReadCall /\ NoRead.got = <<>> /\ NoRead.hole = 0
    /\ NoRead.eof = FALSE /\ NoRead.kind = "none"
<1>1. <<>> \in Gots
    BY DEF Gots
<1> DEFINE none == <<>>
<1>2. NoRead = [kind |-> "none", len |-> 0, peek |-> FALSE, block |-> TRUE,
                target |-> 0, start |-> 0, seq |-> 0, hole |-> 0, got |-> none,
                eof |-> FALSE]
    BY DEF NoRead
<1>3. none \in Gots
    BY <1>1
<1> HIDE DEF none
<1>4. /\ NoRead \in ReadCall /\ NoRead.got = none /\ NoRead.hole = 0
      /\ NoRead.eof = FALSE /\ NoRead.kind = "none"
    BY ONLY <1>2, <1>3 DEF ReadCall
<1> QED
    BY <1>4 DEF none

LEMMA StartedIs ==
    ASSUME NEW r, r \in Rx, NEW call, call \in Reads
    PROVE  Fresh(r, Started(r, call)) /\ Started(r, call).kind = call.kind
<1> DEFINE c == Started(r, call)
           target == sock_rcvlowat(r, call)
           copied == r.copied_seq
           kind == call.kind
           len == call.len
           peek == call.peek
           block == call.block
<1>1. /\ kind \in {"recv", "splice", "oob", "map"} /\ len \in Nat
      /\ peek \in BOOLEAN /\ call.waitall \in BOOLEAN /\ block \in BOOLEAN
    BY ReceiveAssumption
<1>2. copied \in Nat /\ r.lowat \in Nat
    BY RxFields
<1>3. target \in Nat /\ target <= len
    BY <1>1, <1>2 DEF sock_rcvlowat
<1>4. c = [NoRead EXCEPT !.kind = kind, !.len = len, !.peek = peek,
                         !.block = block, !.target = target,
                         !.start = copied, !.seq = copied]
    BY DEF Started
<1> HIDE DEF c, target, copied, kind, len, peek, block
<1>5. /\ NoRead \in ReadCall /\ NoRead.got = <<>> /\ NoRead.hole = 0
      /\ NoRead.eof = FALSE
    BY NoReadIs
<1>6. /\ c \in ReadCall /\ c.kind = kind /\ c.len = len /\ c.target = target
      /\ c.start = copied /\ c.seq = copied /\ c.got = NoRead.got
      /\ c.hole = NoRead.hole /\ c.eof = NoRead.eof
    BY ONLY <1>1, <1>2, <1>3, <1>4, <1>5 DEF ReadCall
<1>7. Fresh(r, c) /\ c.kind = kind
    BY <1>3, <1>5, <1>6 DEF Fresh, copied
<1> QED
    BY <1>7 DEF c, kind

LEMMA FreshRecv ==
    ASSUME NEW s, NEW r, NEW c, Core(s), Tied(s, r), Fresh(r, c), c.kind = "recv"
    PROVE  InRecv(s, r, c)
<1>1. /\ c \in ReadCall /\ c.start = r.copied_seq /\ c.seq = r.copied_seq
      /\ c.hole = 0 /\ c.got = <<>> /\ c.eof = FALSE /\ c.target <= c.len
      /\ c.len \in Nat /\ c.start \in Nat /\ c.target \in Nat
    BY CallFields DEF Fresh
<1>2. Hands(c.got, c.start, s.urg, DataEnd(r)) /\ Len(c.got) = 0
    BY <1>1, NothingHandsOver
<1>3. s.urg \in Nat /\ r.copied_seq <= r.rcv_nxt
    BY EndIs DEF Tied, Knows
<1>4. Skipped(c, s.urg) = 0
    BY <1>1, <1>3 DEF Skipped
<1>5. RecvGoes(c, s.urg, r)
    BY <1>1, <1>2, <1>4 DEF RecvGoes
<1> QED
    BY <1>1, <1>2, <1>3, <1>5 DEF InRecv

LEMMA FreshSplice ==
    ASSUME NEW s, NEW r, NEW c, Core(s), Tied(s, r), Fresh(r, c),
           c.kind = "splice"
    PROVE  InSplice(s, r, c)
<1>1. /\ c \in ReadCall /\ c.start = r.copied_seq /\ c.seq = r.copied_seq
      /\ c.got = <<>> /\ c.start \in Nat
    BY CallFields DEF Fresh
<1>2. Hands(c.got, c.start, s.urg, DataEnd(r)) /\ Len(c.got) = 0
    BY <1>1, NothingHandsOver
<1>3. s.urg \in Nat /\ r.copied_seq <= r.rcv_nxt
    BY EndIs DEF Tied, Knows
<1>4. c.seq = c.start + Len(c.got) /\ (s.urg < c.start \/ c.seq <= s.urg)
    BY <1>1, <1>2, <1>3
<1> QED
    BY <1>1, <1>2, <1>3, <1>4 DEF InSplice

(* tcp_recv_urg() hands over the urgent byte or nothing.                   *)
LEMMA OobReads ==
    ASSUME NEW s, NEW r, NEW c, Core(s), Tied(s, r), Fresh(r, c), c.kind = "oob",
           NEW t, t = tcp_recv_urg(r, c)
    PROVE  ReadInv(s, t)
<1> DEFINE urg == IF c.peek THEN r.urg ELSE "read"
           got == <<r.urg_seq>>
           d == [c EXCEPT !.got = got]
           q == [r EXCEPT !.urg = urg]
<1>1. /\ r \in Rx /\ c \in ReadCall /\ c.got = <<>> /\ c.peek \in BOOLEAN
      /\ r.urg \in {"none", "notyet", "valid", "read"} /\ r.urg_seq \in Nat
    BY CallFields, RxFields DEF Fresh, Tied
<1>2. \/ t = Returns(r, c)
      \/ r.urg = "valid" /\ t = Returns([r EXCEPT !.urg = IF c.peek THEN @ ELSE "read"],
                                        [c EXCEPT !.got = <<r.urg_seq>>])
    BY DEF tcp_recv_urg
<1>3. CASE t = Returns(r, c)
  <2>1. t = Puts(r, "returned", c)
      BY <1>3 DEF Returns, Puts
  <2>2. Tied(s, t) /\ t.pc = "returned" /\ t.call = c
      BY <1>1, <2>1, CallPut
  <2>3. OobEnds(t.call, s)
      BY <1>1, <2>2 DEF OobEnds
  <2>4. CallIs(s, t)
      BY <2>2, <2>3, c.kind = "oob" DEF CallIs
  <2> QED
      BY <2>2, <2>4 DEF ReadInv, Tied
<1>4. CASE r.urg = "valid" /\ ~(t = Returns(r, c))
  <2>1. urg \in {"valid", "read"} /\ urg # "none"
      BY <1>1, <1>4
  <2>2. got \in Gots /\ got = <<s.urg>> /\ s.urg # MaxBytes
      BY <1>1, <1>4, UrgentAhead DEF Gots
  <2>3. q = [r EXCEPT !.urg = urg]
      OBVIOUS
  <2>4. d = [c EXCEPT !.got = got]
      OBVIOUS
  <2>5. t = Returns(q, d)
      BY <1>1, <1>2, <1>4 DEF Rx
  <2> HIDE DEF urg, got, d, q
  <2>6. /\ q \in Rx /\ q.urg = urg /\ q.urg_seq = r.urg_seq
        /\ q.rcv_nxt = r.rcv_nxt /\ q.copied_seq = r.copied_seq
        /\ q.rcv_wup = r.rcv_wup /\ q.rcv_wnd = r.rcv_wnd /\ q.done = r.done
        /\ q.ack = r.ack
      BY ONLY <1>1, <2>1, <2>3 DEF Rx
  <2>7. d \in ReadCall /\ d.kind = "oob" /\ d.got = got
      BY ONLY <1>1, <2>2, <2>4, c.kind = "oob" DEF ReadCall
  <2>8. r.urg # "none"
      BY <1>4
  <2>9. Linked(s, q) /\ Knows(s, q)
      BY <2>1, <2>6, <2>8 DEF Tied, Linked, Knows
  <2>10. t = Puts(q, "returned", d)
      BY <2>5 DEF Returns, Puts
  <2>11. Tied(s, t) /\ t.pc = "returned" /\ t.call = d
      BY <2>6, <2>7, <2>9, <2>10, CallPut DEF Tied
  <2>12. OobEnds(t.call, s)
      BY <2>2, <2>7, <2>11 DEF OobEnds
  <2>13. CallIs(s, t)
      BY <2>7, <2>11, <2>12 DEF CallIs
  <2> QED
      BY <2>11, <2>13 DEF ReadInv, Tied
<1> QED
    BY <1>2, <1>3, <1>4

-----------------------------------------------------------------------------
(* The reader's steps.                                                     *)

LEMMA ReadStartIs ==
    ASSUME NEW s, Core(s), ReadInv(s, rx), ReadStart
    PROVE  ReadInv(s, rx')
<1>1. PICK call \in Reads : StartRead(call)
    BY DEF ReadStart
<1> DEFINE c == Started(rx, call)
<1>2. rx \in Rx /\ Tied(s, rx)
    BY DEF ReadInv, Tied
<1>3. Fresh(rx, c) /\ c.kind = call.kind /\ c \in ReadCall
    BY <1>2, StartedIs DEF Fresh
<1>4. call.kind \in {"recv", "splice", "oob", "map"} /\ call.len \in Nat
    BY ReceiveAssumption
<1>5. c = [NoRead EXCEPT !.kind = call.kind, !.len = call.len, !.peek = call.peek,
                         !.block = call.block, !.target = sock_rcvlowat(rx, call),
                         !.start = rx.copied_seq, !.seq = rx.copied_seq]
    BY DEF Started
<1> HIDE DEF c
<1>6. CASE call.kind = "recv"
  <2>1. rx' = Puts(rx, "reading", c)
      BY <1>1, <1>5, <1>6 DEF StartRead, Reading, Puts
  <2>2. InRecv(s, rx, c)
      BY <1>2, <1>3, <1>6, FreshRecv
  <2>3. Cleaned(rx, rx)
      BY DEF Cleaned
  <2> QED
      BY <2>1, <2>2, <2>3, RecvWaits
<1>7. CASE call.kind = "splice"
  <2>1. rx' = tcp_splice_read(rx, c)
      BY <1>1, <1>5, <1>7 DEF StartRead
  <2>2. InSplice(s, rx, c)
      BY <1>2, <1>3, <1>7, FreshSplice
  <2> QED
      BY <2>1, <2>2, SpliceReads
<1>8. CASE call.kind = "oob"
  <2>1. rx' = tcp_recv_urg(rx, c)
      BY <1>1, <1>5, <1>8 DEF StartRead
  <2> QED
      BY <1>2, <1>3, <1>8, <2>1, OobReads
<1>9. CASE call.kind = "map"
  <2> DEFINE most == IF call.len < tcp_inq(rx) THEN call.len ELSE tcp_inq(rx)
  <2>1. PICK pages \in 0 .. most \div Page : rx' = tcp_zerocopy_receive(rx, c, pages)
      BY <1>1, <1>5, <1>9 DEF StartRead
  <2>2. most \in Nat /\ most <= tcp_inq(rx)
      BY <1>2, <1>4, InqIs
  <2> HIDE DEF most
  <2> QED
      BY <1>2, <1>3, <1>9, <2>1, <2>2, MapReads
<1> QED
    BY <1>4, <1>6, <1>7, <1>8, <1>9

LEMMA RecvOfInv ==
    ASSUME NEW s, NEW r, Core(s), ReadInv(s, r), r.pc \in {"reading", "waiting"},
           r.call.kind = "recv"
    PROVE  InRecv(s, r, r.call)
<1>1. r.call \in ReadCall /\ r.call.kind # "oob"
    BY RxFields DEF ReadInv
<1>2. /\ Hands(r.call.got, r.call.start, s.urg, DataEnd(r))
      /\ RecvGoes(r.call, s.urg, r)
      /\ r.call.seq <= r.rcv_nxt
    BY <1>1 DEF ReadInv, CallIs
<1> QED
    BY <1>1, <1>2 DEF ReadInv, Tied, InRecv

LEMMA ReadPassIs ==
    ASSUME NEW s, Core(s), ReadInv(s, rx), ReadPass
    PROVE  ReadInv(s, rx')
<1>1. /\ rx.pc = "reading"
      /\ \E backlog \in BOOLEAN : rx' = tcp_recvmsg_pass(rx, rx.call, backlog)
    BY DEF ReadPass
<1>2. rx.call.kind = "recv"
    BY <1>1 DEF ReadInv, CallIs
<1>3. InRecv(s, rx, rx.call)
    BY <1>1, <1>2, RecvOfInv
<1> QED
    BY <1>1, <1>3, PassReads

(* Nobody else reads here: no peek finds its place taken.                  *)
LEMMA NoPeekRace ==
    ASSUME NEW s, NEW r, NEW c, InRecv(s, r, c)
    PROVE  PeekRace(r, c) = c
<1> DEFINE n == Len(c.got)
           start == c.start
           seq == c.seq
           k == Skipped(c, s.urg)
<1>1. n \in Nat /\ start \in Nat /\ k \in {0, 1} /\ seq = start + n + k
    BY InRecvIs
<1>2. c.peek => r.copied_seq = start /\ c.hole = k
    BY DEF InRecv, RecvGoes
<1>3. PeekRace(r, c) = IF c.peek /\ seq - n - c.hole # r.copied_seq
                       THEN [c EXCEPT !.seq = r.copied_seq] ELSE c
    BY DEF PeekRace
<1> HIDE DEF n, start, seq, k
<1>4. seq - n - k = start
    BY ONLY <1>1
<1> QED
    BY <1>2, <1>3, <1>4

LEMMA ReadResumesIs ==
    ASSUME NEW s, Core(s), ReadInv(s, rx), ReadResumes
    PROVE  ReadInv(s, rx')
<1> DEFINE c == rx.call
<1>1. rx.pc = "waiting" /\ c.kind \in {"recv", "splice"} /\ c \in ReadCall
    BY RxFields DEF ReadResumes, ReadInv, CallIs
<1>2. CASE c.kind = "recv"
  <2>1. InRecv(s, rx, c)
      BY <1>1, <1>2, RecvOfInv
  <2>2. rx' = Reading(rx, PeekRace(rx, c))
      BY <1>1, <1>2 DEF ReadResumes
  <2>3. rx' = Puts(rx, "reading", c)
      BY <2>1, <2>2, NoPeekRace DEF Reading, Puts
  <2>4. Cleaned(rx, rx)
      BY DEF Cleaned
  <2> QED
      BY <2>1, <2>3, <2>4, RecvWaits
<1>3. CASE c.kind = "splice"
  <2>1. /\ Hands(c.got, c.start, s.urg, DataEnd(rx))
        /\ SpliceGoes(c, s.urg, rx)
        /\ c.seq <= rx.rcv_nxt
        /\ Tied(s, rx)
      BY <1>1, <1>3 DEF ReadInv, CallIs, Tied
  <2>2. \/ rx' = Returns(rx, c)
        \/ ~(c.got # <<>> /\ rx.done) /\ rx' = tcp_splice_read(rx, c)
      BY <1>1, <1>3 DEF ReadResumes
  <2>3. CASE rx' = Returns(rx, c)
      BY <1>1, <1>3, <2>1, <2>3, OtherReturns
  <2>4. CASE ~(c.got # <<>> /\ rx.done) /\ rx' = tcp_splice_read(rx, c)
    <3>1. /\ rx.copied_seq = c.seq
          /\ c.seq = c.start + Len(c.got) /\ (s.urg < c.start \/ c.seq <= s.urg)
        BY <2>1, <2>4 DEF SpliceGoes
    <3>2. InSplice(s, rx, c)
        BY <1>1, <1>3, <2>1, <3>1 DEF InSplice
    <3> QED
        BY <2>4, <3>2, SpliceReads
  <2> QED
      BY <2>2, <2>3, <2>4
<1> QED
    BY <1>1, <1>2, <1>3

LEMMA ReadReturnsIs ==
    ASSUME NEW s, Core(s), ReadInv(s, rx), ReadReturns
    PROVE  ReadInv(s, rx')
<1>1. rx' = Puts(rx, "idle", NoRead)
    BY DEF ReadReturns, Puts
<1>2. Tied(s, rx') /\ rx'.pc = "idle"
    BY <1>1, CallPut, NoReadIs DEF ReadInv, Tied
<1>3. CallIs(s, rx')
    BY <1>2 DEF CallIs
<1> QED
    BY <1>2, <1>3 DEF ReadInv, Tied

LEMMA ReaderIs ==
    ASSUME NEW s, Core(s), ReadInv(s, rx), Reader
    PROVE  ReadInv(s, rx')
    BY ReadPassIs, ReadReturnsIs, ReadStartIs, ReadResumesIs DEF Reader

-----------------------------------------------------------------------------
(* What the sender does leaves the reader's invariant as it is: an urgent  *)
(* byte that is new to the stream lies ahead of all that has arrived.      *)

NewUrgent(s, t, r) ==
    /\ s.urg = MaxBytes
    /\ t.urg \in Nat
    /\ r.rcv_nxt \in Nat
    /\ DataEnd(r) \in Nat
    /\ r.rcv_nxt <= t.urg
    /\ DataEnd(r) <= t.urg
    /\ t.urg < MaxBytes
    /\ MaxBytes \in Nat
    /\ r.urg = "none"
    /\ s.fin # "sent"

LEMMA NewUrgentIs ==
    ASSUME NEW s, NEW t, NEW r, Core(s), Core(t), Follows(s, t), Tied(s, r),
           t.urg # s.urg
    PROVE  NewUrgent(s, t, r)
<1>1. /\ s.write_seq \in Nat /\ s.snd_nxt \in Nat /\ s.urg \in Nat
      /\ t.write_seq \in Nat /\ t.urg \in Nat /\ MaxBytes \in Nat
      /\ s.write_seq <= MaxBytes /\ t.write_seq <= MaxBytes
      /\ t.fin \in {"none", "queued", "sent"}
    BY TxFields, Constants DEF Core
<1>2. s.urg = MaxBytes /\ s.snd_nxt <= t.urg /\ t.urg # MaxBytes
    BY DEF Follows
<1>3. t.urg < t.write_seq /\ t.urg < MaxBytes
    BY <1>1, <1>2 DEF Core
<1>4. r.rcv_nxt = NextOut(s) /\ r.rcv_nxt \in Nat /\ r.rcv_nxt <= s.snd_nxt
    BY NextOutIs DEF Tied, Linked
<1>5. DataEnd(r) \in Nat /\ DataEnd(r) <= r.rcv_nxt
    BY EndIs
<1>6. r.urg = "none"
    BY <1>1, <1>2, UrgentAhead
<1>7. s.fin # "sent"
  <2>1. s.fin = "sent" => (s.snd_nxt = s.write_seq + 1 /\ t.write_seq = s.write_seq)
      BY DEF Core, Follows
  <2> QED
      BY <1>1, <1>2, <1>3, <2>1
<1> QED
    BY <1>1, <1>2, <1>3, <1>4, <1>5, <1>6, <1>7 DEF NewUrgent

LEMMA HandsNew ==
    ASSUME NEW s, NEW t, NEW r, NewUrgent(s, t, r), NEW got, got \in Seq(Nat),
           NEW start, start \in Nat, Hands(got, start, s.urg, DataEnd(r))
    PROVE  Hands(got, start, t.urg, DataEnd(r))
<1> DEFINE u == s.urg
           v == t.urg
           m == DataEnd(r)
<1>1. /\ u = MaxBytes /\ v \in Nat /\ m \in Nat /\ m <= v /\ v < MaxBytes
      /\ MaxBytes \in Nat
    BY DEF NewUrgent
<1> HIDE DEF u, v, m
<1>2. ASSUME NEW i \in 1 .. Len(got)
      PROVE  got[i] = Place(start, v, i) /\ got[i] < m
  <2> DEFINE g == got[i]
  <2>1. i \in Nat
      OBVIOUS
  <2>2. g = (IF start <= u /\ u <= start + i - 1 THEN start + i ELSE start + i - 1)
        /\ g < m
      BY <1>2 DEF Hands, Place, u, m
  <2> HIDE DEF g
  <2>3. g = start + i - 1 /\ g < m
      BY ONLY <1>1, <2>1, <2>2, start \in Nat
  <2>4. ~(start <= v /\ v <= start + i - 1)
      BY ONLY <1>1, <2>1, <2>3, start \in Nat
  <2> QED
      BY <2>3, <2>4 DEF Place, g
<1> QED
    BY <1>2 DEF Hands, v, m

LEMMA SkippedNew ==
    ASSUME NEW s, NEW t, NEW r, NewUrgent(s, t, r), NEW c, c \in ReadCall,
           c.seq <= r.rcv_nxt
    PROVE  Skipped(c, t.urg) = Skipped(c, s.urg)
<1> DEFINE u == s.urg
           v == t.urg
           n == r.rcv_nxt
           seq == c.seq
<1>1. /\ u = MaxBytes /\ v \in Nat /\ n \in Nat /\ n <= v /\ v < MaxBytes
      /\ MaxBytes \in Nat /\ seq \in Nat /\ seq <= n
    BY CallFields DEF NewUrgent
<1> HIDE DEF u, v, n, seq
<1>2. ~(u < seq) /\ ~(v < seq)
    BY ONLY <1>1
<1> QED
    BY <1>2 DEF Skipped, u, v, seq

LEMMA CallNew ==
    ASSUME NEW s, NEW t, NEW r, NewUrgent(s, t, r), r \in Rx, CallIs(s, r)
    PROVE  CallIs(t, r)
<1> DEFINE c == r.call
<1>1. c \in ReadCall /\ c.got \in Seq(Nat) /\ c.start \in Nat /\ c.seq \in Nat
    BY RxFields, CallFields
<1> HIDE DEF c
<1>2. Hands(c.got, c.start, s.urg, DataEnd(r)) => Hands(c.got, c.start, t.urg, DataEnd(r))
    BY <1>1, HandsNew
<1>3. c.seq <= r.rcv_nxt => Skipped(c, t.urg) = Skipped(c, s.urg)
    BY <1>1, SkippedNew
<1>4. (c.seq <= r.rcv_nxt /\ RecvGoes(c, s.urg, r)) => RecvGoes(c, t.urg, r)
    BY <1>3 DEF RecvGoes
<1>5. (c.seq <= r.rcv_nxt /\ SpliceGoes(c, s.urg, r)) => SpliceGoes(c, t.urg, r)
  <2>1. c.seq <= r.rcv_nxt => c.seq <= t.urg
      BY <1>1 DEF NewUrgent
  <2> QED
      BY <2>1 DEF SpliceGoes
<1>6. RecvEnds(c, s, r) => RecvEnds(c, t, r)
    BY DEF RecvEnds, NewUrgent
<1>7. OobEnds(c, s) => OobEnds(c, t)
    BY DEF OobEnds, NewUrgent
<1>8. c = r.call
    BY DEF c
<1> QED
    BY <1>2, <1>4, <1>5, <1>6, <1>7, <1>8 DEF CallIs

LEMMA FollowSame ==
    ASSUME NEW s, NEW t, NEW r, Core(s), Core(t), Follows(s, t), ReadInv(s, r)
    PROVE  /\ Knows(t, r) /\ CallIs(t, r)
           /\ NextOut(t) = r.rcv_nxt
           /\ (r.done = TRUE => (r.rcv_nxt = t.write_seq + 1 /\ t.fin = "sent"))
           /\ (r.done = FALSE => r.rcv_nxt <= t.write_seq)
<1>1. /\ s.write_seq \in Nat /\ t.write_seq \in Nat /\ s.write_seq <= t.write_seq
      /\ s.urg \in Nat /\ t.urg \in Nat /\ r \in Rx /\ Tied(s, r) /\ CallIs(s, r)
      /\ r.rcv_nxt \in Nat
    BY TxFields, RxFields DEF Core, Follows, ReadInv, Tied
<1>2. (s.fin = "sent") => (t.fin = "sent" /\ t.write_seq = s.write_seq)
    BY DEF Follows
<1>3. /\ NextOut(t) = r.rcv_nxt
      /\ (r.done = TRUE => (r.rcv_nxt = t.write_seq + 1 /\ t.fin = "sent"))
      /\ (r.done = FALSE => r.rcv_nxt <= t.write_seq)
    BY <1>1, <1>2 DEF Tied, Linked, Follows
<1>4. CASE t.urg = s.urg
  <2>1. Knows(t, r)
      BY <1>1, <1>4 DEF Tied, Knows
  <2>2. RecvEnds(r.call, s, r) => RecvEnds(r.call, t, r)
      BY <1>2, <1>4 DEF RecvEnds
  <2>3. OobEnds(r.call, s) => OobEnds(r.call, t)
      BY <1>4 DEF OobEnds
  <2>4. CallIs(t, r)
      BY <1>1, <1>4, <2>2, <2>3 DEF CallIs
  <2> QED
      BY <1>3, <2>1, <2>4
<1>5. CASE t.urg # s.urg
  <2>1. NewUrgent(s, t, r)
      BY <1>1, <1>5, NewUrgentIs
  <2>2. Knows(t, r)
      BY <1>1, <2>1 DEF NewUrgent, Tied, Knows
  <2>3. CallIs(t, r)
      BY <1>1, <2>1, CallNew
  <2> QED
      BY <1>3, <2>2, <2>3
<1> QED
    BY <1>4, <1>5

LEMMA SenderKeeps ==
    ASSUME NEW s, NEW t, NEW r, Core(s), Core(t), Move(s, t), ReadInv(s, r)
    PROVE  ReadInv(t, r)
<1>1. Follows(s, t) /\ t.snd_una = s.snd_una /\ t.wnd_end = s.wnd_end
    BY MoveFollows
<1>2. /\ Knows(t, r) /\ CallIs(t, r)
      /\ NextOut(t) = r.rcv_nxt
      /\ (r.done = TRUE => (r.rcv_nxt = t.write_seq + 1 /\ t.fin = "sent"))
      /\ (r.done = FALSE => r.rcv_nxt <= t.write_seq)
    BY <1>1, FollowSame
<1>3. Linked(t, r)
    BY <1>1, <1>2 DEF ReadInv, Linked
<1> QED
    BY <1>2, <1>3 DEF ReadInv

-----------------------------------------------------------------------------
(* A segment arrives.                                                      *)

LEMMA WireShorter ==
    ASSUME NEW s, SendInv(s), s.wire # <<>>, NEW t, t = [s EXCEPT !.wire = Tail(@)]
    PROVE  LET w == s.wire[1]
               next == w.end + IF w.fin THEN 1 ELSE 0
           IN /\ SendInv(t) /\ t.wire = Tail(s.wire)
              /\ t.write_seq = s.write_seq /\ t.snd_una = s.snd_una
              /\ t.wnd_end = s.wnd_end /\ t.urg = s.urg /\ t.fin = s.fin
              /\ t.snd_nxt = s.snd_nxt
              /\ NextOut(s) = w.seq /\ NextOut(t) = next
              /\ Head(s.wire) = w /\ w \in Wired
              /\ w.seq <= w.end /\ w.end <= s.write_seq
              /\ w.urg \in {MaxBytes, s.urg}
              /\ ((w.seq <= s.urg /\ s.urg < w.end) => w.urg = s.urg)
              /\ (w.fin => (s.fin = "sent" /\ s.snd_nxt = w.end + 1))
<1> DEFINE w == s.wire[1]
           v == Tail(s.wire)
           next == w.end + IF w.fin THEN 1 ELSE 0
<1>1. /\ Core(s) /\ s \in Tx /\ s.wire \in Seq(Wired) /\ s.snd_nxt \in Nat
      /\ s.write_seq \in Nat /\ s.urg \in Nat
    BY TxFields DEF SendInv, Core, Wires
<1>2. Flight(s.wire, s.snd_nxt, s.write_seq, s.fin) /\ Tells(s.wire, s.urg)
    BY <1>1 DEF Core
<1>3. Len(s.wire) > 0
    BY <1>1
<1>4. /\ v \in Seq(Wired) /\ Flight(v, s.snd_nxt, s.write_seq, s.fin)
      /\ Tells(v, s.urg)
      /\ (v = <<>> => s.snd_nxt = next)
      /\ (v # <<>> => v[1].seq = next)
      /\ Head(s.wire) = w /\ w \in Wired
      /\ w.seq <= w.end /\ w.end <= s.write_seq
      /\ w.urg \in {MaxBytes, s.urg}
      /\ ((w.seq <= s.urg /\ s.urg < w.end) => w.urg = s.urg)
      /\ (w.fin => (s.fin = "sent" /\ s.snd_nxt = w.end + 1))
    BY <1>1, <1>2, <1>3, WireTail
<1>5. v \in Wires /\ t = [s EXCEPT !.wire = v]
    BY <1>1, <1>4 DEF Wires, Tx
<1> HIDE DEF v, next, w
<1>6. /\ t \in Tx /\ t.pc = s.pc /\ t.call = s.call /\ t.queue = s.queue
      /\ t.write_seq = s.write_seq /\ t.snd_nxt = s.snd_nxt
      /\ t.snd_una = s.snd_una /\ t.wnd_end = s.wnd_end /\ t.urg = s.urg
      /\ t.nonagle = s.nonagle /\ t.nospace = s.nospace /\ t.event = s.event
      /\ t.vm_wait = s.vm_wait /\ t.held = s.held /\ t.fin = s.fin
      /\ t.wire = v
    BY ONLY <1>1, <1>5 DEF Tx
<1>7. Core(t)
    BY <1>1, <1>4, <1>6 DEF Core
<1>8. Flows(t) <=> Flows(s)
    BY <1>6 DEF Flows, InFlight, Unsent, WindowBlocks, Segment
<1>9. FinIsLast(t) /\ CallIsOpen(t) /\ WillWake(t) /\ Pushed(t)
    BY <1>6, <1>8 DEF SendInv, FinIsLast, CallIsOpen, WillWake, Pushed, InCall, NoneEmpty
<1>10. NextOut(s) = w.seq /\ NextOut(t) = next
    BY <1>4, <1>6 DEF NextOut, w
<1> QED
    BY <1>4, <1>6, <1>7, <1>9, <1>10 DEF SendInv, v, w, next

(* What the reader makes of it, before it acknowledges.                    *)
Taken(r, w) ==
    [r EXCEPT !.rcv_nxt = w.end + IF w.fin THEN 1 ELSE 0, !.done = w.fin]

LEMMA TakenIs ==
    ASSUME NEW s, NEW t, NEW r, SendInv(s), ReadInv(s, r), s.wire # <<>>,
           t = [s EXCEPT !.wire = Tail(@)], r.pc \in {"idle", "waiting"},
           NEW q, q = tcp_urg(Taken(r, s.wire[1]), s.wire[1], NoUrgent)
    PROVE  ReadInv(t, q)
<1> DEFINE w == s.wire[1]
           next == w.end + IF w.fin THEN 1 ELSE 0
           p == Taken(r, w)
           u == s.urg
           news == w.urg # NoUrgent /\ w.urg >= w.seq /\ p.urg = "none"
           known == IF news THEN [p EXCEPT !.urg = "notyet", !.urg_seq = w.urg]
                    ELSE p
           came == known.urg = "notyet" /\ known.urg_seq < w.end
           urg == IF came THEN "valid" ELSE known.urg
           urg_seq == known.urg_seq
<1>1. /\ t.wire = Tail(s.wire) /\ SendInv(t)
      /\ t.write_seq = s.write_seq /\ t.snd_una = s.snd_una
      /\ t.wnd_end = s.wnd_end /\ t.urg = u /\ t.fin = s.fin
      /\ NextOut(s) = w.seq /\ NextOut(t) = next
      /\ w \in Wired
      /\ w.seq <= w.end /\ w.end <= s.write_seq
      /\ w.urg \in {MaxBytes, u}
      /\ ((w.seq <= u /\ u < w.end) => w.urg = u)
      /\ (w.fin => (s.fin = "sent" /\ s.snd_nxt = w.end + 1))
    BY WireShorter
<1>2. w.seq \in Nat /\ w.end \in Nat /\ w.urg \in Nat /\ w.fin \in BOOLEAN
    BY <1>1 DEF Wired
<1>3. Core(s) /\ Tied(s, r) /\ r \in Rx /\ Linked(s, r) /\ Knows(s, r) /\ CallIs(s, r)
    BY DEF SendInv, ReadInv, Tied
<1>4. /\ r.rcv_nxt \in Nat /\ r.copied_seq \in Nat /\ r.rcv_wup \in Nat
      /\ r.rcv_wnd \in Nat /\ r.urg \in {"none", "notyet", "valid", "read"}
      /\ r.urg_seq \in Nat /\ r.done \in BOOLEAN /\ u \in Nat
      /\ s.write_seq \in Nat /\ s.snd_nxt \in Nat /\ MaxBytes \in Nat
      /\ s.write_seq <= MaxBytes
    BY <1>3, RxFields, TxFields, Constants DEF Core
<1>5. r.rcv_nxt = w.seq /\ r.done = FALSE
  <2>1. r.rcv_nxt = w.seq
      BY <1>1, <1>3 DEF Linked
  <2>2. r.done = TRUE => r.rcv_nxt = s.write_seq + 1
      BY <1>3 DEF Linked
  <2> QED
      BY <1>1, <1>2, <1>4, <2>1, <2>2
<1>6. /\ next \in Nat /\ r.rcv_nxt <= next
      /\ (w.fin = TRUE => (next = s.write_seq + 1 /\ w.end = s.write_seq))
      /\ (w.fin = FALSE => (next = w.end /\ next <= s.write_seq))
  <2>1. s.fin = "sent" => s.snd_nxt = s.write_seq + 1
      BY <1>3 DEF Core
  <2> QED
      BY <1>1, <1>2, <1>4, <1>5, <2>1
<1>7. p = [r EXCEPT !.rcv_nxt = next, !.done = w.fin]
    BY DEF Taken
<1>8. q = IF came THEN [known EXCEPT !.urg = "valid"] ELSE known
    BY DEF tcp_urg
<1> HIDE DEF next, p
<1>9. /\ p \in Rx /\ p.pc = r.pc /\ p.call = r.call /\ p.rcv_nxt = next
      /\ p.copied_seq = r.copied_seq /\ p.rcv_wup = r.rcv_wup
      /\ p.rcv_wnd = r.rcv_wnd /\ p.urg = r.urg /\ p.urg_seq = r.urg_seq
      /\ p.done = w.fin /\ p.ack = r.ack
    BY ONLY <1>2, <1>3, <1>6, <1>7 DEF Rx
<1>10. \/ news /\ known.urg = "notyet" /\ urg_seq = w.urg /\ known = [p EXCEPT !.urg = "notyet", !.urg_seq = w.urg]
       \/ ~news /\ known = p /\ known.urg = r.urg /\ urg_seq = r.urg_seq
    BY <1>9 DEF Rx
<1>11. /\ known \in Rx /\ known.pc = r.pc /\ known.call = r.call
       /\ known.rcv_nxt = next
       /\ known.copied_seq = r.copied_seq /\ known.rcv_wup = r.rcv_wup
       /\ known.rcv_wnd = r.rcv_wnd
       /\ known.done = w.fin /\ known.ack = r.ack
  <2>1. CASE known = p
      BY <1>9, <2>1
  <2> DEFINE place == w.urg
  <2>2. CASE known = [p EXCEPT !.urg = "notyet", !.urg_seq = place]
    <3>1. place \in Nat
        BY <1>2
    <3> HIDE DEF place, known
    <3>2. /\ known \in Rx /\ known.pc = p.pc /\ known.call = p.call
          /\ known.rcv_nxt = p.rcv_nxt
          /\ known.copied_seq = p.copied_seq /\ known.rcv_wup = p.rcv_wup
          /\ known.rcv_wnd = p.rcv_wnd
          /\ known.done = p.done /\ known.ack = p.ack
        BY ONLY <1>9, <2>2, <3>1 DEF Rx
    <3> QED
        BY <1>9, <3>2
  <2> QED
      BY <1>10, <2>1, <2>2
<1> HIDE DEF known
<1>12. /\ q \in Rx /\ q.pc = r.pc /\ q.call = r.call /\ q.rcv_nxt = next
       /\ q.copied_seq = r.copied_seq /\ q.rcv_wup = r.rcv_wup
       /\ q.rcv_wnd = r.rcv_wnd /\ q.done = w.fin /\ q.ack = r.ack
       /\ q.urg_seq = urg_seq /\ (q.urg = "none" <=> known.urg = "none")
  <2>1. CASE ~came
      BY <1>8, <1>11, <2>1
  <2>2. CASE came
    <3>1. q = [known EXCEPT !.urg = "valid"] /\ known.urg = "notyet"
        BY <1>8, <2>2
    <3>2. /\ q \in Rx /\ q.pc = known.pc /\ q.call = known.call
          /\ q.rcv_nxt = known.rcv_nxt
          /\ q.copied_seq = known.copied_seq /\ q.rcv_wup = known.rcv_wup
          /\ q.rcv_wnd = known.rcv_wnd /\ q.done = known.done
          /\ q.ack = known.ack /\ q.urg = "valid" /\ q.urg_seq = known.urg_seq
        BY ONLY <1>11, <3>1 DEF Rx
    <3> QED
        BY <1>11, <3>1, <3>2
  <2> QED
      BY <2>1, <2>2
<1>13. Linked(t, q)
    BY <1>1, <1>3, <1>4, <1>5, <1>6, <1>12 DEF Linked
<1>14. Knows(t, q)
  <2>1. r.copied_seq <= next
      BY <1>3, <1>4, <1>6 DEF Knows
  <2>2. u = MaxBytes \/ u < s.write_seq
      BY <1>3 DEF Core
  <2>3. known.urg # "none" => (urg_seq = u /\ u < s.write_seq /\ r.copied_seq <= urg_seq)
    <3>1. CASE news /\ urg_seq = w.urg
      <4>1. w.urg = u /\ u # MaxBytes /\ r.copied_seq <= w.urg
          BY <1>1, <1>2, <1>3, <1>4, <1>5, <3>1 DEF NoUrgent, Knows
      <4> QED
          BY <2>2, <3>1, <4>1
    <3>2. CASE ~news /\ known.urg = r.urg /\ urg_seq = r.urg_seq
        BY <1>3, <3>2 DEF Knows
    <3> QED
        BY <1>10, <3>1, <3>2
  <2>4. (u # MaxBytes /\ u < next /\ r.copied_seq <= u) => known.urg # "none"
    <3> SUFFICES ASSUME u # MaxBytes, u < next, r.copied_seq <= u, known.urg = "none"
                 PROVE  FALSE
        OBVIOUS
    <3>1. ~news /\ r.urg = "none"
        BY <1>10
    <3>2. r.rcv_nxt <= u
        BY <1>3, <1>4, <3>1 DEF Knows
    <3>3. u < w.end
        BY <1>1, <1>2, <1>4, <1>6, <2>2
    <3>4. w.urg = u
        BY <1>1, <1>5, <3>2, <3>3
    <3> QED
        BY <1>2, <1>5, <1>9, <3>1, <3>2, <3>4 DEF NoUrgent
  <2> QED
      BY <1>1, <1>12, <2>1, <2>3, <2>4 DEF Knows
<1>15. DataEnd(r) = r.rcv_nxt /\ DataEnd(q) = w.end
  <2>1. next = w.end + IF w.fin THEN 1 ELSE 0
      BY DEF next
  <2> QED
      BY <1>2, <1>5, <1>12, <2>1 DEF DataEnd
<1>16. CallIs(t, q)
  <2> DEFINE c == r.call
  <2>1. c \in ReadCall /\ c.got \in Seq(Nat) /\ c.start \in Nat /\ c.seq \in Nat
      BY <1>3, RxFields, CallFields
  <2> HIDE DEF c
  <2>2. Hands(c.got, c.start, u, DataEnd(r)) => Hands(c.got, c.start, u, DataEnd(q))
    <3> SUFFICES ASSUME Hands(c.got, c.start, u, DataEnd(r)), NEW i \in 1 .. Len(c.got)
                 PROVE  c.got[i] = Place(c.start, u, i) /\ c.got[i] < DataEnd(q)
        BY DEF Hands
    <3>1. c.got[i] = Place(c.start, u, i) /\ c.got[i] < DataEnd(r)
        BY DEF Hands
    <3>2. c.got[i] \in Nat
        BY <2>1
    <3> QED
        BY <1>1, <1>2, <1>4, <1>5, <1>15, <3>1, <3>2
  <2>3. c.seq <= r.rcv_nxt => c.seq <= q.rcv_nxt
      BY <1>4, <1>6, <1>12, <2>1
  <2>4. RecvGoes(c, u, r) => RecvGoes(c, u, q)
      BY <1>12 DEF RecvGoes
  <2>5. SpliceGoes(c, u, r) => SpliceGoes(c, u, q)
      BY <1>5, <1>12 DEF SpliceGoes
  <2>6. c = r.call
      BY DEF c
  <2>7. q.pc = r.pc /\ q.call = c /\ t.urg = u /\ u = s.urg
      BY <1>1, <1>12, <2>6
  <2> HIDE DEF u
  <2> QED
      BY <1>3, <2>2, <2>3, <2>4, <2>5, <2>6, <2>7 DEF CallIs
<1> QED
    BY <1>12, <1>13, <1>14, <1>16 DEF ReadInv

LEMMA UrgentSame ==
    ASSUME NEW r, r \in Rx, NEW w, w \in Wired, NEW none,
           NEW q, q = tcp_urg(Taken(r, w), w, none)
    PROVE  /\ q.pc = r.pc /\ q.call = r.call /\ q.lowat = r.lowat
           /\ q.copied_seq = r.copied_seq /\ q.rcv_wup = r.rcv_wup
           /\ q.rcv_wnd = r.rcv_wnd
<1> DEFINE next == w.end + IF w.fin THEN 1 ELSE 0
           done == w.fin
           place == w.urg
           p == Taken(r, w)
           news == place # none /\ place >= w.seq /\ p.urg = "none"
           known == IF news THEN [p EXCEPT !.urg = "notyet", !.urg_seq = place]
                    ELSE p
<1>1. next \in Nat /\ done \in BOOLEAN /\ place \in Nat
    BY DEF Wired
<1>2. p = [r EXCEPT !.rcv_nxt = next, !.done = done]
    BY DEF Taken
<1>3. q = known \/ q = [known EXCEPT !.urg = "valid"]
    BY DEF tcp_urg
<1>4. known = p \/ known = [p EXCEPT !.urg = "notyet", !.urg_seq = place]
    OBVIOUS
<1> HIDE DEF next, done, place, p, known
<1>5. /\ p \in Rx /\ p.pc = r.pc /\ p.call = r.call /\ p.lowat = r.lowat
      /\ p.copied_seq = r.copied_seq /\ p.rcv_wup = r.rcv_wup
      /\ p.rcv_wnd = r.rcv_wnd
    BY ONLY <1>1, <1>2, r \in Rx DEF Rx
<1>6. /\ known \in Rx /\ known.pc = r.pc /\ known.call = r.call
      /\ known.lowat = r.lowat
      /\ known.copied_seq = r.copied_seq /\ known.rcv_wup = r.rcv_wup
      /\ known.rcv_wnd = r.rcv_wnd
    BY ONLY <1>1, <1>4, <1>5 DEF Rx
<1> QED
    BY ONLY <1>3, <1>6 DEF Rx

LEMMA SegmentArrivesIs ==
    ASSUME SendInv(tx), ReadInv(tx, rx), SegmentArrives
    PROVE  SendInv(tx') /\ ReadInv(tx', rx')
<1> DEFINE w == tx.wire[1]
           q == tcp_urg(Taken(rx, w), w, NoUrgent)
<1>1. /\ tx.wire # <<>> /\ tx' = [tx EXCEPT !.wire = Tail(@)]
      /\ rx.pc \in {"idle", "waiting"}
      /\ rx' = SegmentReceived(rx, Head(tx.wire), NoUrgent)
  <2>1. rx.pc \in {"idle", "reading", "waiting", "returned"}
      BY RxFields DEF ReadInv
  <2> QED
      BY <2>1 DEF SegmentArrives, ReaderFree
<1>2. SendInv(tx') /\ Head(tx.wire) = w
    BY <1>1, WireShorter
<1>3. ReadInv(tx', q)
    BY <1>1, TakenIs
<1>4. \/ rx' = tcp_send_ack(q)
      \/ \E b \in BOOLEAN : rx' = [q EXCEPT !.sched = TRUE, !.pushed = b]
  <2> DEFINE short == w.end - w.seq < RcvMss
             b == q.pushed \/ short
  <2>1. \/ rx' = tcp_send_ack(q)
        \/ rx' = [q EXCEPT !.sched = TRUE, !.pushed = @ \/ short]
      BY <1>1, <1>2 DEF SegmentReceived, Taken
  <2>2. b \in BOOLEAN
      OBVIOUS
  <2>3. q \in Rx
      BY <1>3 DEF ReadInv
  <2> HIDE DEF q, short
  <2>4. [q EXCEPT !.sched = TRUE, !.pushed = @ \/ short]
            = [q EXCEPT !.sched = TRUE, !.pushed = b]
      BY <2>3 DEF Rx
  <2> QED
      BY <2>1, <2>2, <2>4
<1> HIDE DEF q
<1>5. q \in Rx /\ Linked(tx', q) /\ Knows(tx', q) /\ CallIs(tx', q) /\ Core(tx')
    BY <1>2, <1>3 DEF ReadInv, SendInv
<1>6. rx' \in Rx /\ Linked(tx', rx') /\ SameRead(q, rx')
  <2>1. CASE rx' = tcp_send_ack(q)
      BY <1>5, <2>1, SendAckIs
  <2>2. CASE \E b \in BOOLEAN : rx' = [q EXCEPT !.sched = TRUE, !.pushed = b]
    <3>1. PICK b \in BOOLEAN : rx' = [q EXCEPT !.sched = TRUE, !.pushed = b]
        BY <2>2
    <3>2. /\ rx' \in Rx /\ rx'.pc = q.pc /\ rx'.call = q.call
          /\ rx'.rcv_nxt = q.rcv_nxt /\ rx'.copied_seq = q.copied_seq
          /\ rx'.rcv_wup = q.rcv_wup /\ rx'.rcv_wnd = q.rcv_wnd
          /\ rx'.urg = q.urg /\ rx'.urg_seq = q.urg_seq /\ rx'.done = q.done
          /\ rx'.lowat = q.lowat /\ rx'.ack = q.ack
        BY ONLY <1>5, <3>1 DEF Rx
    <3> QED
        BY <1>5, <3>2 DEF Linked, SameRead
  <2> QED
      BY <1>4, <2>1, <2>2
<1> QED
    BY <1>2, <1>5, <1>6, KnowsSame, CallSame DEF ReadInv

-----------------------------------------------------------------------------
(* The acknowledgement arrives; the probe timer.                           *)

LEMMA AckArrivesIs ==
    ASSUME SendInv(tx), ReadInv(tx, rx), AckArrives
    PROVE  SendInv(tx') /\ Follows(tx, tx') /\ ReadInv(tx', rx')
<1> DEFINE ack == rx.ack
<1>1. /\ tx.pc # "sending" /\ ack # NoAck /\ tx' = AckReceived(tx, ack)
      /\ rx' = [rx EXCEPT !.ack = NoAck]
    BY DEF AckArrives, SenderFree
<1>2. /\ Core(tx) /\ rx \in Rx /\ Linked(tx, rx)
    BY DEF SendInv, ReadInv
<1>3. /\ tx.snd_nxt \in Nat /\ tx.snd_una \in Nat /\ tx.wnd_end \in Nat
      /\ tx.snd_nxt <= tx.wnd_end
      /\ rx.rcv_nxt \in Nat /\ rx.rcv_wup \in Nat /\ rx.rcv_wnd \in Nat
    BY <1>2, TxFields, RxFields DEF Core
<1>4. NextOut(tx) \in Nat /\ NextOut(tx) <= tx.snd_nxt
    BY <1>2, NextOutIs
<1>5. /\ NextOut(tx) = rx.rcv_nxt /\ tx.snd_una <= rx.rcv_wup
      /\ rx.rcv_wup <= rx.rcv_nxt /\ 1 <= tx.wnd_end
      /\ tx.wnd_end <= rx.rcv_wup + rx.rcv_wnd
      /\ ack.una = rx.rcv_wup /\ ack.edge = rx.rcv_wup + rx.rcv_wnd
    BY <1>1, <1>2 DEF Linked
<1> HIDE DEF ack
<1>6. /\ ack.una \in Nat /\ ack.edge \in Nat /\ tx.snd_una <= ack.una
      /\ ack.una <= tx.snd_nxt /\ tx.snd_nxt <= ack.edge /\ 1 <= ack.edge
    BY <1>3, <1>4, <1>5
<1>7. /\ SendInv(tx') /\ Follows(tx, tx')
      /\ tx'.snd_una = ack.una /\ tx'.wnd_end = ack.edge
    BY <1>1, <1>6, AckIs
<1>8. Core(tx')
    BY <1>7 DEF SendInv
<1>9. NoAck \in Ack
    BY DEF NoAck, Ack
<1> DEFINE none == NoAck
<1>10. none \in Ack /\ rx' = [rx EXCEPT !.ack = none]
    BY <1>1, <1>9
<1> HIDE DEF none
<1>11. /\ rx' \in Rx /\ rx'.pc = rx.pc /\ rx'.call = rx.call
       /\ rx'.rcv_nxt = rx.rcv_nxt /\ rx'.copied_seq = rx.copied_seq
       /\ rx'.rcv_wup = rx.rcv_wup /\ rx'.rcv_wnd = rx.rcv_wnd
       /\ rx'.urg = rx.urg /\ rx'.urg_seq = rx.urg_seq /\ rx'.done = rx.done
       /\ rx'.lowat = rx.lowat /\ rx'.ack = none
    BY ONLY <1>2, <1>10 DEF Rx
<1>12. SameRead(rx, rx') /\ rx'.ack = NoAck
    BY <1>11 DEF SameRead, none
<1>13. /\ Knows(tx', rx) /\ CallIs(tx', rx)
       /\ NextOut(tx') = rx.rcv_nxt
       /\ (rx.done = TRUE => (rx.rcv_nxt = tx'.write_seq + 1 /\ tx'.fin = "sent"))
       /\ (rx.done = FALSE => rx.rcv_nxt <= tx'.write_seq)
    BY <1>2, <1>7, <1>8, FollowSame
<1>14. Linked(tx', rx')
  <2>1. rx'.rcv_wup + rx'.rcv_wnd = ack.edge /\ ack.una = rx'.rcv_wup
      BY <1>5, <1>11
  <2>2. tx'.wnd_end <= rx'.rcv_wup + rx'.rcv_wnd /\ tx'.snd_una <= rx'.rcv_wup
      BY <1>3, <1>6, <1>7, <1>11, <2>1
  <2> QED
      BY <1>5, <1>6, <1>7, <1>11, <1>12, <1>13, <2>1, <2>2 DEF Linked
<1> QED
    BY <1>7, <1>11, <1>12, <1>13, <1>14, KnowsSame, CallSame DEF ReadInv

LEMMA ProbeTimerIs ==
    ASSUME SendInv(tx), ReadInv(tx, rx), ProbeTimer
    PROVE  SendInv(tx') /\ ReadInv(tx', rx')
<1> DEFINE room == tx.wnd_end - tx.snd_nxt
<1>1. tx.pc # "sending" /\ ~InFlight(tx) /\ Unsent(tx)
    BY DEF ProbeTimer, ProbeDue, SenderFree, Unsent
<1>2. Core(tx) /\ rx \in Rx /\ Linked(tx, rx) /\ Knows(tx, rx) /\ CallIs(tx, rx)
    BY DEF SendInv, ReadInv
<1>3. CASE room = 0
  <2>1. rx' = tcp_send_ack(rx) /\ tx' = tx
      BY <1>3 DEF ProbeTimer
  <2>2. rx' \in Rx /\ Linked(tx, rx') /\ SameRead(rx, rx')
      BY <1>2, <2>1, SendAckIs
  <2>3. ReadInv(tx, rx')
      BY <1>2, <2>2, KnowsSame, CallSame DEF ReadInv
  <2> QED
      BY <2>1, <2>3
<1>4. CASE room # 0
  <2>1. /\ tx' = IF tx.queue = <<>> THEN SendFin(tx)
                 ELSE SendSegment(tx, Minimum(Segment(tx), tx.wnd_end))
        /\ rx' = rx
      BY <1>4 DEF ProbeTimer
  <2>2. SendInv(tx') /\ Move(tx, tx')
      BY <1>1, <1>4, <2>1, ProbeIs
  <2>3. Core(tx')
      BY <2>2 DEF SendInv
  <2> QED
      BY <1>2, <2>1, <2>2, <2>3, SenderKeeps
<1> QED
    BY <1>3, <1>4

-----------------------------------------------------------------------------
(* The inductive invariant.                                                *)

StreamInv == SendInv(tx) /\ ReadInv(tx, rx)

LEMMA NothingIsCore ==
    ASSUME NEW s, s \in Tx, s.queue = <<>>, s.wire = <<>>, s.write_seq = 0,
           s.snd_nxt = 0, s.snd_una = 0, s.urg = MaxBytes, s.fin = "none"
    PROVE  Core(s) /\ NoneEmpty(s) /\ NextOut(s) = 0
<1>1. MaxBytes \in Nat /\ s.wnd_end \in Nat
    BY Constants, TxFields
<1>2. Len(<<>>) = 0 /\ 1 .. Len(<<>>) = {} /\ 1 .. Len(<<>>) - 1 = {}
    OBVIOUS
<1>3. Run(s.queue, 0, 0) /\ Full(s.queue)
    BY <1>2 DEF Run, Full
<1>4. Flight(s.wire, 0, 0, s.fin)
    BY <1>2 DEF Flight
<1>5. Tells(s.wire, s.urg)
    BY <1>2 DEF Tells
<1> QED
    BY <1>1, <1>3, <1>4, <1>5 DEF Core, NoneEmpty, NextOut

LEMMA InitSend ==
    /\ SendInv(InitTx) /\ NextOut(InitTx) = 0 /\ InitTx.snd_una = 0
    /\ InitTx.wnd_end = MaxWindow /\ InitTx.urg = MaxBytes
    /\ InitTx.write_seq = 0
<1> DEFINE queue == <<>>
           wire == <<>>
           call == NoCall
           nonagle == {}
           s == InitTx
<1>1. /\ queue \in Queues /\ wire \in Wires /\ call \in SendCall
      /\ nonagle \in SUBSET {NAGLE_OFF, NAGLE_CORK, NAGLE_PUSH}
    BY DEF Queues, Wires, SendCall, NoCall
<1>2. MaxBytes \in Nat /\ MaxWindow \in Nat
    BY Constants
<1>3. s = [pc |-> "idle", call |-> call, queue |-> queue, write_seq |-> 0,
           snd_nxt |-> 0, snd_una |-> 0, wnd_end |-> MaxWindow, pushed_seq |-> 0,
           urg |-> MaxBytes, nonagle |-> nonagle, sml |-> 0, nospace |-> FALSE,
           event |-> FALSE, vm_wait |-> FALSE, throttled |-> FALSE,
           held |-> FALSE, fin |-> "none", chances |-> 0, wire |-> wire]
    BY DEF InitTx
<1> HIDE DEF queue, wire, call, nonagle, s
<1>4. /\ s \in Tx /\ s.pc = "idle" /\ s.call = call /\ s.queue = queue
      /\ s.write_seq = 0 /\ s.snd_nxt = 0 /\ s.snd_una = 0
      /\ s.wnd_end = MaxWindow /\ s.urg = MaxBytes /\ s.fin = "none"
      /\ s.wire = wire
    BY ONLY <1>1, <1>2, <1>3 DEF Tx
<1>5. Core(s) /\ NoneEmpty(s) /\ NextOut(s) = 0
    BY <1>4, NothingIsCore DEF queue, wire
<1>6. Flows(s)
    BY <1>4 DEF Flows, Unsent
<1>7. /\ FinIsLast(s) /\ CallIsOpen(s) /\ WillWake(s) /\ Pushed(s)
    BY <1>4, <1>5, <1>6 DEF FinIsLast, CallIsOpen, WillWake, Pushed, InCall, call
<1> QED
    BY <1>4, <1>5, <1>7 DEF SendInv, s

LEMMA InitRead ==
    ASSUME NEW val \in Lowats
    PROVE  ReadInv(InitTx, InitRx(tcp_set_rcvlowat(val)))
<1> DEFINE r == InitRx(tcp_set_rcvlowat(val))
           lowat == tcp_set_rcvlowat(val)
           call == NoRead
           none == NoAck
           s == InitTx
<1>1. RcvBuf \in Nat \ {0} /\ MaxWindow = RcvBuf /\ val \in Nat /\ MaxBytes \in Nat \ {0}
    BY Constants, ReceiveAssumption
<1>2. lowat \in Nat
  <2> DEFINE half == RcvBuf \div 2
  <2>1. half \in Nat
      BY <1>1
  <2> HIDE DEF half
  <2>2. lowat \in {1, val, half}
      BY DEF tcp_set_rcvlowat, half
  <2> QED
      BY <1>1, <2>1, <2>2
<1>3. call \in ReadCall /\ none \in Ack
    BY NoReadIs DEF NoAck, Ack
<1>4. r = [pc |-> "idle", call |-> call, rcv_nxt |-> 0, copied_seq |-> 0,
           rcv_wup |-> 0, rcv_wnd |-> RcvBuf, sched |-> FALSE, pushed |-> FALSE,
           urg |-> "none", urg_seq |-> 0, done |-> FALSE,
           lowat |-> lowat, ack |-> none]
    BY DEF InitRx
<1> HIDE DEF r, lowat, call, none, s
<1>5. /\ r \in Rx /\ r.pc = "idle" /\ r.rcv_nxt = 0 /\ r.copied_seq = 0
      /\ r.rcv_wup = 0 /\ r.rcv_wnd = RcvBuf /\ r.urg = "none"
      /\ r.done = FALSE /\ r.ack = none
    BY ONLY <1>1, <1>2, <1>3, <1>4 DEF Rx
<1>6. /\ NextOut(s) = 0 /\ s.snd_una = 0 /\ s.wnd_end = MaxWindow
      /\ s.urg = MaxBytes /\ s.write_seq = 0
    BY InitSend DEF s
<1>7. Linked(s, r)
    BY <1>1, <1>5, <1>6 DEF Linked, none
<1>8. Knows(s, r)
    BY <1>5, <1>6 DEF Knows
<1>9. CallIs(s, r)
    BY <1>5 DEF CallIs
<1> QED
    BY <1>5, <1>7, <1>8, <1>9 DEF ReadInv, r, s

LEMMA StreamStep ==
    ASSUME StreamInv, [Next]_vars
    PROVE  StreamInv'
<1>0. SendInv(tx) /\ ReadInv(tx, rx) /\ Core(tx)
    BY DEF StreamInv, SendInv
<1>1. CASE Sender /\ UNCHANGED rx
  <2>1. SendInv(tx') /\ Move(tx, tx')
      BY <1>0, <1>1, SenderIs
  <2>2. Core(tx')
      BY <2>1 DEF SendInv
  <2>3. ReadInv(tx', rx)
      BY <1>0, <2>1, <2>2, SenderKeeps
  <2> QED
      BY <1>1, <2>1, <2>3 DEF StreamInv
<1>2. CASE Reader /\ UNCHANGED tx
  <2>1. ReadInv(tx, rx')
      BY <1>0, <1>2, ReaderIs
  <2> QED
      BY <1>0, <1>2, <2>1 DEF StreamInv
<1>3. CASE DelackTimer /\ UNCHANGED tx
  <2>1. ReadInv(tx, rx')
      BY <1>0, <1>3, DelackIs DEF DelackTimer
  <2> QED
      BY <1>0, <1>3, <2>1 DEF StreamInv
<1>4. CASE SegmentArrives
    BY <1>0, <1>4, SegmentArrivesIs DEF StreamInv
<1>5. CASE AckArrives
    BY <1>0, <1>5, AckArrivesIs DEF StreamInv
<1>6. CASE ProbeTimer
    BY <1>0, <1>6, ProbeTimerIs DEF StreamInv
<1>7. CASE UNCHANGED vars
    BY <1>0, <1>7 DEF vars, StreamInv
<1> QED
    BY <1>1, <1>2, <1>3, <1>4, <1>5, <1>6, <1>7 DEF Next

(* The two ends of a stream agree in every state that it can reach, with   *)
(* any segment size, buffer, window and any calls of the two applications. *)
THEOREM StreamInvariant == Spec => []StreamInv
<1>1. Init => StreamInv
    BY InitSend, InitRead DEF Init, StreamInv
<1>2. StreamInv /\ [Next]_vars => StreamInv'
    BY StreamStep
<1> QED
    BY <1>1, <1>2, PTL DEF Spec

-----------------------------------------------------------------------------
(* The properties of the calls.                                            *)

(* Whoever sleeps on a full send buffer, or waits for EPOLLOUT, has been   *)
(* woken or will be: the invariant has bytes that are not acknowledged, so *)
(* that an acknowledgement is to come, or the probe timer is.              *)
THEOREM SenderIsWoken == Spec => []SenderWoken
<1>1. StreamInv => SenderWoken
  <2> SUFFICES ASSUME StreamInv, tx.pc \in {"asleep", "eagain"},
                      ~tx.event, ~tx.vm_wait
               PROVE  tx.nospace /\ (InFlight(tx) \/ ProbeDue)
      BY DEF SenderWoken
  <2>1. tx.nospace /\ tx.snd_una < tx.write_seq
      BY DEF StreamInv, SendInv, WillWake
  <2>2. tx.snd_una \in Nat /\ tx.snd_nxt \in Nat /\ tx.write_seq \in Nat
      BY TxFields DEF StreamInv, SendInv, Core
  <2>3. InFlight(tx) \/ tx.snd_nxt < tx.write_seq
      BY <2>1, <2>2 DEF InFlight
  <2> QED
      BY <2>1, <2>3 DEF ProbeDue, SenderFree
<1> QED
    BY <1>1, StreamInvariant, PTL

(* A blocking tcp_recvmsg() that returns with less than it is to wait for  *)
(* has met the FIN, or the urgent byte right behind what it hands over.    *)
THEOREM RecvReadsEnough == Spec => []ReadsEnough
<1>1. StreamInv => ReadsEnough
  <2> SUFFICES ASSUME StreamInv, rx.pc = "returned", rx.call.kind = "recv",
                      rx.call.block, Len(rx.call.got) < rx.call.target
               PROVE  \/ rx.done
                      \/ /\ rx.call.got # <<>>
                         /\ tx.urg = rx.call.start + Len(rx.call.got)
      BY DEF ReadsEnough
  <2>1. rx.call.block = TRUE
      BY RxFields, CallFields DEF StreamInv, ReadInv
  <2>2. RecvEnds(rx.call, tx, rx)
      BY DEF StreamInv, ReadInv, CallIs
  <2> QED
      BY <2>1, <2>2 DEF RecvEnds
<1> QED
    BY <1>1, StreamInvariant, PTL

LEMMA PrefixIs ==
    ASSUME NEW s, s \in Seq(Nat), NEW t, t \in Seq(Nat), Len(s) <= Len(t),
           \A i \in 1 .. Len(s) : s[i] = t[i]
    PROVE  IsPrefix(s, t)
<1> DEFINE n == Len(s)
           v == SubSeq(t, 1, n)
<1>1. n \in Nat /\ n <= Len(t)
    OBVIOUS
<1>2. \A i \in 1 .. n : t[i] \in Nat
    BY <1>1
<1> HIDE DEF n
<1>3. v \in Seq(Nat) /\ Len(v) = n /\ \A i \in 1 .. n : v[i] = t[i]
  <2>1. 1 \in Int /\ n \in Int /\ n - 1 + 1 = n
      BY <1>1
  <2>2. /\ v \in Seq(Nat)
        /\ Len(v) = IF 1 <= n THEN n - 1 + 1 ELSE 0
        /\ \A i \in 1 .. n - 1 + 1 : v[i] = t[1 + i - 1]
      BY <1>2, <2>1, SubSeqProperties
  <2> QED
      BY <1>1, <2>1, <2>2
<1> HIDE DEF v
<1>4. s = v
  <2>1. Len(s) = Len(v) /\ \A i \in 1 .. Len(s) : s[i] = v[i]
      BY <1>3 DEF n
  <2> QED
      BY <1>3, <2>1, SeqEqual
<1>5. SubSeq(s, 1, Len(s)) = s
    BY SubSeqFull
<1> QED
    BY <1>1, <1>4, <1>5 DEF IsPrefix, v, n

LEMMA WholePrefix ==
    ASSUME NEW s, s \in Seq(Nat), NEW t, t \in Seq(Nat), Len(s) = Len(t), IsPrefix(s, t)
    PROVE  s = t
<1>1. SubSeq(t, 1, Len(s)) = t
    BY SubSeqFull
<1>2. SubSeq(s, 1, Len(s)) = s
    BY SubSeqFull
<1> QED
    BY <1>1, <1>2 DEF IsPrefix

LEMMA OrdinaryIs ==
    ASSUME NEW start, start \in Nat, NEW end, end \in Nat, tx.urg \in Nat
    PROVE  /\ Ordinary(start, end) \in Seq(Nat)
           /\ Len(Ordinary(start, end))
                = IF tx.urg \in start .. end - 1 THEN end - start - 1
                  ELSE IF start <= end THEN end - start ELSE 0
           /\ \A i \in 1 .. Len(Ordinary(start, end)) :
                  Ordinary(start, end)[i] = Place(start, tx.urg, i)
<1> DEFINE u == tx.urg
           rest == Ordinary(start, end)
<1>1. u \in Nat /\ u + 1 \in Nat
    OBVIOUS
<1> HIDE DEF u
<1>2. CASE u \in start .. end - 1
  <2> DEFINE after == u + 1
             a == Bytes(start, u)
             b == Bytes(after, end)
  <2>1. start <= u /\ after <= end /\ after \in Nat /\ u < end /\ after = u + 1
      BY <1>1, <1>2
  <2>2. rest = a \o b
      BY <1>2 DEF Ordinary, u
  <2> HIDE DEF after
  <2>3. /\ a \in Seq(Nat) /\ Len(a) = u - start
        /\ \A i \in 1 .. Len(a) : a[i] = start + i - 1
      BY <1>1, <2>1, BytesAre
  <2>4. /\ b \in Seq(Nat) /\ Len(b) = end - after
        /\ \A i \in 1 .. Len(b) : b[i] = after + i - 1
      BY <1>1, <2>1, BytesAre
  <2> HIDE DEF a, b, rest
  <2>5. /\ rest \in Seq(Nat)
        /\ Len(rest) = Len(a) + Len(b)
        /\ \A i \in 1 .. Len(rest) : rest[i] = IF i <= Len(a) THEN a[i] ELSE b[i - Len(a)]
    <3>1. a \in Seq(Nat) /\ b \in Seq(Nat)
        BY <2>3, <2>4
    <3>2. a \o b \in Seq(Nat)
        BY ONLY <3>1
    <3>3. Len(a \o b) = Len(a) + Len(b)
        BY ONLY <3>1
    <3>4. \A i \in 1 .. Len(a \o b) :
             (a \o b)[i] = IF i <= Len(a) THEN a[i] ELSE b[i - Len(a)]
        BY ONLY <3>1
    <3> QED
        BY <2>2, <3>2, <3>3, <3>4
  <2> DEFINE n == Len(a)
             k == Len(b)
             l == Len(rest)
  <2>8. n = u - start /\ k = end - after /\ l = n + k
      BY <2>3, <2>4, <2>5
  <2> HIDE DEF n, k, l
  <2>9. n \in Nat /\ k \in Nat /\ l = end - start - 1
      BY ONLY <1>1, <2>1, <2>8, start \in Nat, end \in Nat
  <2>10. ASSUME NEW i \in 1 .. l
         PROVE  rest[i] = Place(start, u, i)
    <3>1. i \in Nat /\ i >= 1 /\ i <= l
        BY <2>8, <2>9
    <3>2. CASE i <= n
      <4>1. i \in 1 .. Len(a) /\ i \in 1 .. Len(rest)
          BY <2>9, <3>1, <3>2 DEF n, l
      <4>2. rest[i] = start + i - 1
          BY <2>3, <2>5, <4>1
      <4>3. ~(u <= start + i - 1)
          BY ONLY <1>1, <2>8, <3>1, <3>2, start \in Nat
      <4> QED
          BY <4>2, <4>3 DEF Place
    <3>3. CASE ~(i <= n)
      <4> DEFINE j == i - n
      <4>1. j \in 1 .. k
          BY ONLY <2>8, <2>9, <3>1, <3>3
      <4>2. rest[i] = b[j]
          BY <2>5, <3>1, <3>3 DEF n, l
      <4>3. b[j] = after + j - 1
          BY <2>4, <4>1 DEF k
      <4>4. after + j - 1 = start + i /\ u <= start + i - 1
          BY ONLY <1>1, <2>1, <2>8, <2>9, <3>1, <3>3, start \in Nat
      <4> QED
          BY <2>1, <4>2, <4>3, <4>4 DEF Place
    <3> QED
        BY <3>2, <3>3
  <2> QED
      BY <1>2, <2>5, <2>9, <2>10 DEF l, rest, u
<1>3. CASE u \notin start .. end - 1
  <2>1. rest = Bytes(start, end)
      BY <1>3 DEF Ordinary, u
  <2>2. /\ rest \in Seq(Nat)
        /\ Len(rest) = (IF start <= end THEN end - start ELSE 0)
        /\ \A i \in 1 .. Len(rest) : rest[i] = start + i - 1
    <3> DEFINE a == Bytes(start, end)
    <3>1. /\ a \in Seq(Nat)
          /\ Len(a) = (IF start <= end THEN end - start ELSE 0)
          /\ \A i \in 1 .. Len(a) : a[i] = start + i - 1
        BY BytesAre
    <3> HIDE DEF a, rest
    <3> QED
        BY <2>1, <3>1 DEF a
  <2> HIDE DEF rest
  <2> DEFINE l == Len(rest)
  <2>3. l = (IF start <= end THEN end - start ELSE 0)
      BY <2>2
  <2> HIDE DEF l
  <2>4. ASSUME NEW i \in 1 .. l
        PROVE  rest[i] = Place(start, u, i)
    <3>1. i \in Nat /\ i >= 1 /\ i <= end - start
        BY ONLY <2>3, start \in Nat, end \in Nat
    <3>2. ~(start <= u /\ u <= start + i - 1)
        BY ONLY <1>1, <1>3, <3>1, start \in Nat, end \in Nat
    <3>3. rest[i] = start + i - 1
        BY <2>2 DEF l
    <3> QED
        BY <3>2, <3>3 DEF Place
  <2> QED
      BY <1>3, <2>2, <2>4 DEF l, rest, u
<1> QED
    BY <1>2, <1>3

(* What is handed over, in its places, is the beginning of what there is.  *)
LEMMA HandsPrefix ==
    ASSUME NEW got, got \in Seq(Nat), NEW start, start \in Nat, NEW m, m \in Nat,
           NEW end, end \in Nat, m <= end, tx.urg \in Nat,
           Hands(got, start, tx.urg, m)
    PROVE  IsPrefix(got, Ordinary(start, end))
<1> DEFINE u == tx.urg
           rest == Ordinary(start, end)
           n == Len(got)
           l == Len(rest)
<1>1. /\ rest \in Seq(Nat)
      /\ l = IF u \in start .. end - 1 THEN end - start - 1
             ELSE IF start <= end THEN end - start ELSE 0
      /\ \A i \in 1 .. l : rest[i] = Place(start, u, i)
    BY OrdinaryIs
<1>2. n \in Nat /\ l \in Nat /\ u \in Nat
    BY <1>1
<1>3. \A i \in 1 .. n : got[i] = Place(start, u, i) /\ got[i] < m
    BY DEF Hands
<1>4. n > 0 => Place(start, u, n) < end
  <2> SUFFICES ASSUME n > 0 PROVE Place(start, u, n) < end
      OBVIOUS
  <2> DEFINE g == got[n]
  <2>1. n \in 1 .. n
      BY <1>2
  <2>2. g = Place(start, u, n) /\ g < m /\ g \in Nat
      BY <1>3, <2>1
  <2> HIDE DEF g
  <2> QED
      BY ONLY <2>2, m \in Nat, end \in Nat, m <= end
<1> HIDE DEF n, l, rest, u
<1>5. n <= l
  <2>1. n = 0 => n <= l
      BY <1>2
  <2>2. ASSUME n > 0 PROVE n <= l
    <3>1. (IF start <= u /\ u <= start + n - 1 THEN start + n ELSE start + n - 1) < end
        BY <1>4, <2>2 DEF Place
    <3>2. CASE u \in start .. end - 1
        BY ONLY <1>1, <1>2, <2>2, <3>1, <3>2, start \in Nat, end \in Nat
    <3>3. CASE u \notin start .. end - 1
        BY ONLY <1>1, <1>2, <2>2, <3>1, <3>3, start \in Nat, end \in Nat
    <3> QED
        BY <3>2, <3>3
  <2> QED
      BY <1>2, <2>1, <2>2
<1>6. \A i \in 1 .. n : i \in 1 .. l /\ got[i] = rest[i]
    BY <1>1, <1>2, <1>3, <1>5
<1>7. Len(got) <= Len(rest) /\ \A i \in 1 .. Len(got) : got[i] = rest[i]
    BY <1>5, <1>6 DEF n, l
<1> QED
    BY <1>1, <1>7, PrefixIs DEF rest

-----------------------------------------------------------------------------
(* The calls together.                                                     *)

(* The number of the ordinary bytes before the place p in the queue, whose *)
(* data ends at m: the FIN counts for nothing, nor the urgent byte.        *)
Before(p, m, u) ==
    LET to == IF p <= m THEN p ELSE m IN IF u < to THEN to - 1 ELSE to

(* What a call has handed over is what it has consumed since its start.    *)
CallTakes(r, c, u) ==
    /\ c.start <= r.copied_seq
    /\ IF Consumes(c)
       THEN Before(r.copied_seq, DataEnd(r), u) = Before(c.start, DataEnd(r), u) + Len(c.got)
       ELSE r.copied_seq = c.start

(* A step of the call c leaves it at t.                                    *)
Takes(s, r, c, t) ==
    /\ t.pc # "idle"
    /\ t.call.start = c.start
    /\ DataEnd(t) = DataEnd(r)
    /\ CallTakes(t, t.call, s.urg)

(* A call is at seq after n bytes from start on; k tells whether the       *)
(* urgent byte u was passed over.                                          *)
Went(start, n, k, u, seq, m) ==
    /\ start \in Nat /\ n \in Nat /\ k \in {0, 1} /\ u \in Nat
    /\ seq \in Nat /\ m \in Nat
    /\ seq = start + n + k
    /\ seq <= m + 1
    /\ (k = 1 => (start <= u /\ u < seq))
    /\ (k = 0 => (u < start \/ seq <= u))

LEMMA HandsWithin ==
    ASSUME NEW got, got \in Seq(Nat), NEW start, NEW seq, NEW u, NEW m, NEW k,
           Hands(got, start, u, m), Went(start, Len(got), k, u, seq, m)
    PROVE  Before(seq, m, u) = Before(start, m, u) + Len(got)
<1> DEFINE n == Len(got)
           last == got[n]
<1>1. /\ start \in Nat /\ n \in Nat /\ k \in {0, 1} /\ u \in Nat
      /\ seq \in Nat /\ m \in Nat /\ seq <= m + 1
      /\ (k = 1 => (start <= u /\ u < seq))
      /\ (k = 0 => (u < start \/ seq <= u))
    BY DEF Went
<1>2. n > 0 => (last = Place(start, u, n) /\ last < m)
  <2>1. n > 0 => n \in 1 .. Len(got)
      BY <1>1
  <2> QED
      BY <2>1 DEF Hands
<1>3. seq = start + n + k
    BY DEF Went
<1> HIDE DEF n, last
<1>4. n > 0 => (last = (IF start <= u /\ u <= start + n - 1 THEN start + n ELSE start + n - 1)
                /\ last < m)
    BY <1>2 DEF Place
<1>5. seq <= m \/ (n = 0 /\ m <= start) \/ (start + n = m /\ m <= u)
  <2>1. CASE k = 0
      BY ONLY <1>1, <1>3, <1>4, <2>1
  <2>2. CASE k = 1
    <3>1. /\ start \in Nat /\ n \in Nat /\ u \in Nat /\ m \in Nat
          /\ seq = start + n + 1 /\ seq <= m + 1 /\ start <= u /\ u <= start + n
        BY ONLY <1>1, <1>3, <2>2
    <3>2. CASE n = 0
        BY ONLY <3>1, <3>2
    <3>3. CASE n > 0 /\ u <= start + n - 1
      <4>1. last = start + n /\ last < m
          BY ONLY <1>4, <3>1, <3>3
      <4> QED
          BY ONLY <3>1, <4>1
    <3>4. CASE n > 0 /\ u = start + n
        BY ONLY <3>1, <3>4
    <3> QED
        BY ONLY <3>1, <3>2, <3>3, <3>4
  <2> QED
      BY <1>1, <2>1, <2>2
<1>6. Before(seq, m, u) = Before(start, m, u) + n
  <2>1. CASE k = 0
    <3>1. u < start \/ seq <= u
        BY <1>1, <2>1
    <3> QED
        BY ONLY <1>1, <1>3, <1>5, <2>1, <3>1 DEF Before
  <2>2. CASE k = 1
    <3>1. /\ start \in Nat /\ n \in Nat /\ u \in Nat /\ m \in Nat
          /\ seq = start + n + 1 /\ seq <= m + 1 /\ start <= u /\ u <= start + n
        BY ONLY <1>1, <1>3, <2>2
    <3>2. CASE seq <= m
      <4>1. start <= m /\ u < seq /\ ~(u < start)
          BY ONLY <3>1, <3>2
      <4>2. Before(seq, m, u) = seq - 1
          BY ONLY <3>2, <4>1 DEF Before
      <4>3. Before(start, m, u) = start
          BY ONLY <4>1 DEF Before
      <4> QED
          BY ONLY <3>1, <4>2, <4>3
    <3>3. CASE seq = m + 1
      <4>1. (n = 0 /\ m <= start) \/ (start + n = m /\ m <= u)
          BY ONLY <1>5, <3>1, <3>3
      <4>2. m = start + n
          BY ONLY <3>1, <3>3
      <4>3. ~(seq <= m) /\ start <= m /\ ~(u < start) /\ ~(u < m)
          BY ONLY <3>1, <3>3, <4>1, <4>2
      <4>4. Before(seq, m, u) = m
          BY ONLY <4>3 DEF Before
      <4>5. Before(start, m, u) = start
          BY ONLY <4>3 DEF Before
      <4> QED
          BY ONLY <4>2, <4>4, <4>5
    <3> QED
        BY ONLY <3>1, <3>2, <3>3
  <2> QED
      BY <1>1, <2>1, <2>2
<1> QED
    BY <1>6 DEF n

(* The FIN takes one place.                                                *)
LEMMA FinAfter ==
    ASSUME NEW s, NEW r, Core(s), Tied(s, r)
    PROVE  /\ r.rcv_nxt \in Nat /\ DataEnd(r) \in Nat
           /\ r.rcv_nxt <= DataEnd(r) + 1
<1> DEFINE m == DataEnd(r)
<1>1. /\ r.rcv_nxt \in Nat /\ m \in Nat /\ r.done \in BOOLEAN
      /\ (r.done = TRUE => r.rcv_nxt = m + 1)
      /\ (r.done = FALSE => r.rcv_nxt = m)
    BY EndIs
<1> HIDE DEF m
<1> QED
    BY <1>1 DEF m

(* A call of recv() that goes on.                                          *)
LEMMA RecvTakes ==
    ASSUME NEW s, NEW r, NEW c, InRecv(s, r, c)
    PROVE  CallTakes(r, c, s.urg)
<1> DEFINE n == Len(c.got)
           m == DataEnd(r)
           k == Skipped(c, s.urg)
<1>1. /\ Core(s) /\ Tied(s, r) /\ c.kind = "recv"
      /\ Hands(c.got, c.start, s.urg, m) /\ RecvGoes(c, s.urg, r) /\ c.seq <= r.rcv_nxt
    BY DEF InRecv
<1>2. RecvNumbers(s, r, c, n, m, k) /\ c.got \in Seq(Nat) /\ c.peek \in BOOLEAN
    BY RecvNumbersAre, InRecvIs
<1>3. r.rcv_nxt \in Nat /\ m \in Nat /\ r.rcv_nxt <= m + 1 /\ c.seq <= r.rcv_nxt
    BY <1>1, FinAfter
<1> HIDE DEF n, m, k
<1>4. /\ n \in Nat /\ m \in Nat /\ k \in {0, 1} /\ c.seq \in Nat /\ c.start \in Nat
      /\ s.urg \in Nat /\ c.seq = c.start + n + k
      /\ (k = 1 => (c.start <= s.urg /\ s.urg < c.seq))
      /\ (k = 0 => (s.urg < c.start \/ c.seq <= s.urg))
      /\ n = Len(c.got)
    BY <1>2 DEF RecvNumbers
<1>5. c.seq <= m + 1 /\ c.start <= c.seq
  <2>1. c.seq <= m + 1
      BY ONLY <1>3, <1>4
  <2>2. c.start <= c.seq
      BY ONLY <1>4
  <2> QED
      BY <2>1, <2>2
<1>6. Before(c.seq, m, s.urg) = Before(c.start, m, s.urg) + Len(c.got)
  <2>1. Went(c.start, Len(c.got), k, s.urg, c.seq, m)
      BY <1>4, <1>5 DEF Went
  <2> QED
      BY <1>1, <1>2, <2>1, HandsWithin
<1>7. CASE c.peek = TRUE
  <2>1. r.copied_seq = c.start /\ ~Consumes(c)
      BY <1>1, <1>7 DEF RecvGoes, Consumes
  <2> QED
      BY <1>4, <2>1 DEF CallTakes
<1>8. CASE c.peek = FALSE
  <2>1. r.copied_seq = c.seq /\ Consumes(c)
      BY <1>1, <1>8 DEF RecvGoes, Consumes
  <2> QED
      BY <1>5, <1>6, <2>1 DEF CallTakes, m
<1> QED
    BY <1>2, <1>7, <1>8

(* What puts a call aside takes nothing.                                   *)
LEMMA PutTakes ==
    ASSUME NEW s, NEW r, NEW q, Core(s), Tied(s, q), DataEnd(q) = DataEnd(r),
           NEW c, NEW d, d \in ReadCall, d.start = c.start, CallTakes(q, d, s.urg),
           NEW w, w = q \/ \E n : w = tcp_cleanup_rbuf(q, n),
           NEW pc, pc \in {"reading", "waiting", "returned"},
           NEW t, t = Puts(w, pc, d)
    PROVE  Takes(s, r, c, t)
<1>1. Tied(s, w) /\ w.copied_seq = q.copied_seq /\ DataEnd(w) = DataEnd(q)
    BY CleanupIs DEF SameRead
<1>2. /\ t.pc = pc /\ t.call = d /\ t.copied_seq = w.copied_seq
      /\ DataEnd(t) = DataEnd(w)
    BY <1>1, CallPut
<1> QED
    BY <1>1, <1>2 DEF Takes, CallTakes

LEMMA PassTakes ==
    ASSUME NEW s, NEW r, NEW c, InRecv(s, r, c), r.pc = "reading",
           NEW t, \E backlog \in BOOLEAN : t = tcp_recvmsg_pass(r, c, backlog)
    PROVE  Takes(s, r, c, t)
<1> DEFINE n == Len(c.got)
           m == DataEnd(r)
           next == found_ok_skb(r, c)
           fin == found_fin_ok(c)
           ended == [c EXCEPT !.eof = TRUE]
           after == Consume(r, next)
           q == Consume(r, fin)
<1>1. /\ r.done \in BOOLEAN /\ c.block \in BOOLEAN /\ n \in Nat /\ c.seq \in Nat
      /\ c.peek \in BOOLEAN /\ s.urg \in Nat /\ m \in Nat /\ c.start \in Nat
    BY InRecvIs
<1>2. /\ Core(s) /\ Tied(s, r) /\ c \in ReadCall /\ c.kind = "recv"
      /\ CallTakes(r, c, s.urg)
    BY RecvTakes DEF InRecv
<1>3. \/ /\ c.len # 0
         /\ ~(UrgentAt(r, c.seq) /\ n > 0)
         /\ c.seq < m
         /\ t = [after EXCEPT !.call = next]
      \/ /\ r.done = TRUE /\ c.seq = m
         /\ t = tcp_recvmsg_done(q, fin)
      \/ t = tcp_recvmsg_done(r, c)
      \/ t = tcp_recvmsg_done(r, ended)
      \/ t = Waits(tcp_cleanup_rbuf(r, n), c)
  <2>1. PICK backlog \in BOOLEAN : t = tcp_recvmsg_pass(r, c, backlog)
      OBVIOUS
  <2> QED
      BY <1>1, <2>1 DEF tcp_recvmsg_pass
<1>4. next = found_ok_skb(r, c) /\ fin = found_fin_ok(c) /\ after = Consume(r, next)
      /\ q = Consume(r, fin) /\ ended = [c EXCEPT !.eof = TRUE]
    OBVIOUS
<1> HIDE DEF next, fin, ended, after, q
<1>5. CASE /\ c.len # 0
           /\ ~(UrgentAt(r, c.seq) /\ n > 0)
           /\ c.seq < m
           /\ t = [after EXCEPT !.call = next]
  <2>1. Found(s, r, c, next)
      BY <1>4, <1>5, FoundIs
  <2>2. InRecv(s, after, next) /\ after.pc = "reading" /\ DataEnd(after) = DataEnd(r)
      BY <1>4, <2>1, FoundReads
  <2>3. next \in ReadCall /\ next.start = c.start /\ Tied(s, after)
      BY <2>1, <2>2 DEF Found, InRecv
  <2>4. t = Puts(after, "reading", next)
    <3>1. after \in Rx /\ after.pc = "reading" /\ t = [after EXCEPT !.call = next]
        BY <1>5, <2>2, <2>3 DEF Tied
    <3> QED
        BY ONLY <3>1 DEF Rx, Puts
  <2>5. CallTakes(after, next, s.urg)
      BY <2>2, RecvTakes
  <2> QED
      BY <1>2, <2>2, <2>3, <2>4, <2>5, PutTakes
<1>6. CASE r.done = TRUE /\ c.seq = m /\ t = tcp_recvmsg_done(q, fin)
  <2>1. /\ RecvDone(s, q, fin) /\ Consumed(s, r, fin, q)
        /\ fin.kind = c.kind /\ fin.peek = c.peek /\ fin.start = c.start
        /\ fin.got = c.got /\ fin.seq = c.seq + 1
    <3>1. RecvDone(s, q, fin) /\ Consumed(s, r, fin, q)
        BY <1>4, <1>6, FinTaken
    <3>2. /\ fin.kind = c.kind /\ fin.peek = c.peek /\ fin.start = c.start
          /\ fin.got = c.got /\ fin.seq = c.seq + 1
        BY ONLY <1>2, <1>4 DEF found_fin_ok, ReadCall
    <3> QED
        BY <3>1, <3>2
  <2>2. /\ Tied(s, q) /\ DataEnd(q) = m /\ fin \in ReadCall
        /\ q.copied_seq = IF c.peek = TRUE THEN r.copied_seq ELSE m + 1
      BY <1>6, <2>1 DEF RecvDone, Consumed
  <2>3. CallTakes(q, fin, s.urg)
    <3>1. Consumes(fin) <=> c.peek = FALSE
        BY <1>1, <1>2, <2>1 DEF Consumes
    <3>2. CASE c.peek = TRUE
      <4>1. ~Consumes(c) /\ ~Consumes(fin)
          BY <1>2, <3>1, <3>2 DEF Consumes
      <4> QED
          BY <1>2, <2>1, <2>2, <3>2, <4>1 DEF CallTakes
    <3>3. CASE c.peek = FALSE
      <4>1. Consumes(c) /\ r.copied_seq = m
          BY <1>2, <1>6, <3>3 DEF Consumes, InRecv, RecvGoes
      <4>2. Before(m, m, s.urg) = Before(c.start, m, s.urg) + Len(c.got) /\ c.start <= m
          BY <1>2, <4>1 DEF CallTakes
      <4>3. Before(m + 1, m, s.urg) = Before(m, m, s.urg)
        <5> HIDE DEF m
        <5> QED
            BY ONLY <1>1 DEF Before
      <4>4. c.start <= m + 1
          BY <1>1, <4>2
      <4> QED
          BY <2>1, <2>2, <3>1, <3>3, <4>2, <4>3, <4>4 DEF CallTakes
    <3> QED
        BY <1>1, <3>2, <3>3
  <2>4. t = Puts(tcp_cleanup_rbuf(q, Len(fin.got)), "returned", fin)
      BY <1>6 DEF tcp_recvmsg_done, Returns, Puts
  <2> QED
      BY <1>2, <2>1, <2>2, <2>3, <2>4, PutTakes
<1>7. CASE t = tcp_recvmsg_done(r, c)
  <2>1. t = Puts(tcp_cleanup_rbuf(r, n), "returned", c)
      BY <1>7 DEF tcp_recvmsg_done, Returns, Puts
  <2> QED
      BY <1>2, <2>1, PutTakes
<1>8. CASE t = tcp_recvmsg_done(r, ended)
  <2>1. /\ ended \in ReadCall /\ ended.start = c.start /\ ended.got = c.got
        /\ ended.kind = c.kind /\ ended.peek = c.peek
      BY <1>2, <1>4 DEF ReadCall
  <2>2. CallTakes(r, ended, s.urg)
      BY <1>2, <2>1 DEF CallTakes, Consumes
  <2>3. t = Puts(tcp_cleanup_rbuf(r, Len(ended.got)), "returned", ended)
      BY <1>8 DEF tcp_recvmsg_done, Returns, Puts
  <2> QED
      BY <1>2, <2>1, <2>2, <2>3, PutTakes
<1>9. CASE t = Waits(tcp_cleanup_rbuf(r, n), c)
  <2>1. t = Puts(tcp_cleanup_rbuf(r, n), "waiting", c)
      BY <1>9 DEF Waits, Puts
  <2> QED
      BY <1>2, <2>1, PutTakes
<1> QED
    BY <1>3, <1>5, <1>6, <1>7, <1>8, <1>9

(* splice(), map and MSG_OOB.                                              *)
LEMMA SpliceTakes ==
    ASSUME NEW s, NEW r, NEW c, InSplice(s, r, c), NEW t, t = tcp_splice_read(r, c)
    PROVE  Takes(s, r, c, t)
<1> DEFINE d == tcp_read_sock(r, c)
           moved == Len(d.got) - Len(c.got)
           after == [r EXCEPT !.copied_seq = d.seq]
           eof == d.got = <<>> /\ (r.done \/ c.block)
           ended == [d EXCEPT !.eof = eof]
           m == DataEnd(r)
           u == s.urg
<1>1. Core(s) /\ Tied(s, r) /\ Spliced(s, r, c, d)
    BY ReadSockIs DEF InSplice
<1>2. /\ d \in ReadCall /\ d.kind = "splice" /\ d.start = c.start
      /\ Hands(d.got, d.start, u, m)
      /\ r.copied_seq <= d.seq /\ d.seq <= r.rcv_nxt
      /\ (r.urg # "none" => d.seq <= r.urg_seq)
      /\ \/ d.seq = d.start + Len(d.got) /\ (u < d.start \/ d.seq <= u)
         \/ SplicedFin(s, r, d)
    BY <1>1 DEF Spliced
<1>3. \/ t = Returns(tcp_cleanup_rbuf(after, moved), d)
      \/ t = Waits(tcp_cleanup_rbuf(after, moved), d)
      \/ t = Returns(after, ended)
      \/ t = Waits(after, d)
    BY DEF tcp_splice_read, Stored
<1>4. /\ eof \in BOOLEAN /\ ended = [d EXCEPT !.eof = eof] /\ d.seq \in Nat
      /\ d.got \in Seq(Nat) /\ d.start \in Nat /\ after = [r EXCEPT !.copied_seq = d.seq]
    BY <1>2, CallFields
<1>5. /\ m \in Nat /\ u \in Nat /\ r.rcv_nxt \in Nat /\ r.rcv_nxt <= m + 1
      /\ c.start <= r.copied_seq /\ r.copied_seq \in Nat /\ c.start \in Nat
  <2>1. /\ m \in Nat /\ u \in Nat /\ r.rcv_nxt \in Nat /\ r.rcv_nxt <= m + 1
        /\ r.copied_seq \in Nat
      BY <1>1, EndIs, FinAfter
  <2>2. /\ c.seq = c.start + Len(c.got) /\ r.copied_seq = c.seq /\ c \in ReadCall
      BY DEF InSplice
  <2>3. c.start \in Nat /\ Len(c.got) \in Nat
      BY <2>2, CallFields
  <2> QED
      BY <2>1, <2>2, <2>3
<1> HIDE DEF d, eof, ended, m, u
<1>6. /\ ended \in ReadCall /\ ended.start = d.start /\ ended.got = d.got
      /\ ended.kind = d.kind
    BY ONLY <1>2, <1>4 DEF ReadCall
<1>7. Before(d.seq, m, u) = Before(d.start, m, u) + Len(d.got)
  <2>1. CASE d.seq = d.start + Len(d.got) /\ (u < d.start \/ d.seq <= u)
    <3>1. d.seq = d.start + Len(d.got) + 0 /\ d.seq <= m + 1
        BY <1>2, <1>4, <1>5, <2>1
    <3>2. Went(d.start, Len(d.got), 0, u, d.seq, m)
        BY <1>4, <1>5, <2>1, <3>1 DEF Went
    <3> QED
        BY <1>2, <1>4, <3>2, HandsWithin
  <2>2. CASE SplicedFin(s, r, d)
    <3>1. d.seq = m + 1 /\ m = d.start + Len(d.got) /\ (u < d.start \/ m <= u)
        BY <2>2 DEF SplicedFin, m, u
    <3>2. m = d.start + Len(d.got) + 0 /\ m <= m + 1
        BY <1>4, <1>5, <3>1
    <3>3. Before(m, m, u) = Before(d.start, m, u) + Len(d.got)
      <4>1. Went(d.start, Len(d.got), 0, u, m, m)
          BY <1>4, <1>5, <3>1, <3>2 DEF Went
      <4> QED
          BY <1>2, <1>4, <4>1, HandsWithin
    <3>4. Before(m + 1, m, u) = Before(m, m, u)
        BY ONLY <1>5 DEF Before
    <3> QED
        BY <3>1, <3>3, <3>4
  <2> QED
      BY <1>2, <2>1, <2>2
<1>8. Tied(s, after) /\ after.copied_seq = d.seq /\ DataEnd(after) = m
  <2> DEFINE seq == d.seq
  <2>1. /\ seq \in Nat /\ r.copied_seq <= seq /\ seq <= r.rcv_nxt
        /\ (r.urg # "none" => seq <= r.urg_seq)
      BY <1>2, <1>4
  <2>2. after = [r EXCEPT !.copied_seq = seq]
      BY <1>4
  <2> HIDE DEF seq, after
  <2>3. Tied(s, after) /\ after.copied_seq = seq /\ DataEnd(after) = DataEnd(r)
      BY <1>1, <2>1, <2>2, TiedMoves
  <2> QED
      BY <2>3 DEF seq, m
<1> HIDE DEF after, moved
<1>9. CallTakes(after, d, u) /\ CallTakes(after, ended, u)
  <2>1. Consumes(d) /\ Consumes(ended)
      BY <1>2, <1>6 DEF Consumes
  <2>2. c.start <= d.seq
      BY <1>2, <1>4, <1>5
  <2> QED
      BY <1>2, <1>6, <1>7, <1>8, <2>1, <2>2 DEF CallTakes
<1>10. \/ t = Puts(tcp_cleanup_rbuf(after, moved), "returned", d)
       \/ t = Puts(tcp_cleanup_rbuf(after, moved), "waiting", d)
       \/ t = Puts(after, "returned", ended)
       \/ t = Puts(after, "waiting", d)
    BY <1>3 DEF Returns, Waits, Puts
<1> QED
    BY <1>1, <1>2, <1>6, <1>8, <1>9, <1>10, PutTakes DEF m, u

(* A call that has only started has taken nothing.                         *)
LEMMA FreshTakes ==
    ASSUME NEW s, NEW r, Core(s), Tied(s, r), NEW c, Fresh(r, c)
    PROVE  CallTakes(r, c, s.urg)
<1> DEFINE m == DataEnd(r)
           u == s.urg
           at == r.copied_seq
<1>1. at \in Nat /\ m \in Nat /\ u \in Nat
    BY EndIs
<1>2. c.start = at /\ Len(c.got) = 0
    BY NothingHandsOver DEF Fresh
<1> HIDE DEF m, u, at
<1>3. Before(at, m, u) = Before(at, m, u) + 0
    BY ONLY <1>1 DEF Before
<1> QED
    BY <1>1, <1>2, <1>3 DEF CallTakes, m, u, at

LEMMA MapTakes ==
    ASSUME NEW s, NEW r, NEW c, Core(s), Tied(s, r), Fresh(r, c), c.kind = "map",
           NEW most \in Nat, most <= tcp_inq(r),
           NEW pages \in 0 .. most \div Page,
           NEW t, t = tcp_zerocopy_receive(r, c, pages)
    PROVE  Takes(s, r, c, t)
<1> DEFINE n == pages * Page
           seq == c.seq + n
           got == Bytes(c.seq, seq)
           read == [c EXCEPT !.seq = seq, !.got = got]
           after == [r EXCEPT !.copied_seq = read.seq]
           i == tcp_inq(r)
           m == DataEnd(r)
           u == s.urg
<1>1. /\ c \in ReadCall /\ c.start = r.copied_seq /\ c.seq = r.copied_seq
      /\ c.seq \in Nat /\ c.start \in Nat
    BY CallFields DEF Fresh
<1>2. \/ t = Returns(r, c)
      \/ pages # 0 /\ t = Returns(tcp_cleanup_rbuf(after, n), read)
  <2>1. read = [c EXCEPT !.seq = @ + pages * Page,
                         !.got = Bytes(c.seq, c.seq + pages * Page)]
      BY <1>1 DEF ReadCall
  <2> QED
      BY <2>1 DEF tcp_zerocopy_receive, Stored
<1>3. CASE t = Returns(r, c)
  <2>1. t = Puts(r, "returned", c)
      BY <1>3 DEF Returns, Puts
  <2>2. CallTakes(r, c, s.urg)
      BY FreshTakes
  <2> QED
      BY <1>1, <2>1, <2>2, PutTakes
<1>4. CASE pages # 0 /\ t = Returns(tcp_cleanup_rbuf(after, n), read)
  <2>1. n \in Nat /\ n > 0 /\ n <= i
    <3> DEFINE whole == most \div Page
    <3>1. Page \in Nat \ {0} /\ pages \in Nat \ {0}
        BY <1>4, Constants
    <3>2. whole \in Nat /\ whole * Page \in Nat /\ whole * Page <= most
        BY <3>1, Multiples
    <3>3. pages <= whole
        BY <3>2
    <3>4. i \in Nat /\ most <= i
        BY InqIs
    <3> HIDE DEF whole, i
    <3>5. pages * Page \in Nat /\ pages * Page <= whole * Page /\ pages * Page > 0
        BY ONLY <3>1, <3>2, <3>3
    <3> QED
        BY <3>2, <3>4, <3>5
  <2>2. /\ i \in Nat
        /\ r.copied_seq + i <= r.rcv_nxt
        /\ (r.urg # "none" => r.copied_seq + i <= r.urg_seq)
        /\ (i = 0 \/ (/\ r.copied_seq + i <= m
                      /\ (u < r.copied_seq \/ r.copied_seq + i <= u)))
      BY InqIs
  <2>3. /\ r.copied_seq \in Nat /\ r.rcv_nxt \in Nat /\ r.urg_seq \in Nat
        /\ m \in Nat /\ u \in Nat
      BY EndIs
  <2>4. seq = c.seq + n
      OBVIOUS
  <2> HIDE DEF n, i, m, u, seq
  <2>5. /\ seq \in Nat /\ r.copied_seq <= seq /\ seq <= r.rcv_nxt
        /\ (r.urg # "none" => seq <= r.urg_seq)
        /\ seq <= m /\ (u < r.copied_seq \/ seq <= u)
        /\ c.seq <= seq /\ seq - c.seq = n
      BY ONLY <1>1, <2>1, <2>2, <2>3, <2>4
  <2>6. got \in Seq(Nat) /\ Len(got) = n
    <3> DEFINE from == c.seq
    <3>1. from \in Nat /\ got = Bytes(from, seq) /\ from <= seq /\ seq - from = n
        BY <1>1, <2>5
    <3> HIDE DEF from, got
    <3> QED
        BY <2>5, <3>1, BytesAre
  <2> HIDE DEF got
  <2>7. /\ read \in ReadCall /\ read.kind = "map" /\ read.start = c.start
        /\ read.seq = seq /\ read.got = got
    <3>1. got \in Gots
        BY <2>6 DEF Gots
    <3> QED
        BY ONLY <1>1, <2>5, <3>1, c.kind = "map" DEF ReadCall
  <2>8. after = [r EXCEPT !.copied_seq = seq]
      BY <2>7
  <2> HIDE DEF read, after
  <2>9. Tied(s, after) /\ after.copied_seq = seq /\ DataEnd(after) = DataEnd(r)
      BY <2>5, <2>8, TiedMoves
  <2>10. Before(seq, m, u) = Before(c.start, m, u) + n
      BY ONLY <1>1, <2>1, <2>3, <2>4, <2>5 DEF Before
  <2>11. CallTakes(after, read, s.urg)
    <3>1. Consumes(read)
        BY <2>7 DEF Consumes
    <3> QED
        BY <1>1, <2>5, <2>6, <2>7, <2>9, <2>10, <3>1 DEF CallTakes, m, u
  <2>12. t = Puts(tcp_cleanup_rbuf(after, n), "returned", read)
      BY <1>4 DEF Returns, Puts
  <2> QED
      BY <2>7, <2>9, <2>11, <2>12, PutTakes
<1> QED
    BY <1>2, <1>3, <1>4

LEMMA OobTakes ==
    ASSUME NEW s, NEW r, NEW c, Core(s), Tied(s, r), Fresh(r, c), c.kind = "oob",
           NEW t, t = tcp_recv_urg(r, c)
    PROVE  Takes(s, r, c, t)
<1> DEFINE urg == IF c.peek THEN r.urg ELSE "read"
           got == <<r.urg_seq>>
           d == [c EXCEPT !.got = got]
           q == [r EXCEPT !.urg = urg]
<1>1. /\ r \in Rx /\ c \in ReadCall /\ c.start = r.copied_seq /\ r.urg_seq \in Nat
      /\ r.urg \in {"none", "notyet", "valid", "read"} /\ r.copied_seq \in Nat
    BY RxFields DEF Fresh, Tied
<1>2. \/ t = Returns(r, c)
      \/ t = Returns([r EXCEPT !.urg = IF c.peek THEN @ ELSE "read"],
                     [c EXCEPT !.got = <<r.urg_seq>>])
    BY DEF tcp_recv_urg
<1>3. CASE t = Returns(r, c)
  <2>1. t = Puts(r, "returned", c)
      BY <1>3 DEF Returns, Puts
  <2>2. CallTakes(r, c, s.urg)
      BY FreshTakes
  <2> QED
      BY <1>1, <2>1, <2>2, PutTakes
<1>4. CASE ~(t = Returns(r, c))
  <2>1. urg \in {"none", "notyet", "valid", "read"} /\ got \in Gots
      BY <1>1 DEF Gots
  <2>2. t = Returns(q, d)
      BY <1>1, <1>2, <1>4 DEF Rx
  <2>3. t = Puts(q, "returned", d)
      BY <2>2 DEF Returns, Puts
  <2>4. q = [r EXCEPT !.urg = urg] /\ d = [c EXCEPT !.got = got]
      OBVIOUS
  <2> HIDE DEF urg, got, q, d
  <2>5. /\ q \in Rx /\ q.copied_seq = r.copied_seq /\ q.rcv_nxt = r.rcv_nxt
        /\ q.done = r.done
      BY ONLY <1>1, <2>1, <2>4 DEF Rx
  <2>6. d \in ReadCall /\ d.start = c.start /\ d.kind = "oob"
      BY ONLY <1>1, <2>1, <2>4, c.kind = "oob" DEF ReadCall
  <2>7. /\ t.pc = "returned" /\ t.call = d /\ t.copied_seq = q.copied_seq
        /\ t.rcv_nxt = q.rcv_nxt /\ t.done = q.done
      BY ONLY <2>3, <2>5, <2>6 DEF Puts, Rx
  <2>8. DataEnd(t) = DataEnd(r)
      BY <2>5, <2>7 DEF DataEnd
  <2>9. CallTakes(t, d, s.urg)
      BY <1>1, <2>5, <2>6, <2>7 DEF CallTakes, Consumes
  <2> QED
      BY <2>6, <2>7, <2>8, <2>9 DEF Takes
<1> QED
    BY <1>3, <1>4

Took(s, r) == r.pc # "idle" => CallTakes(r, r.call, s.urg)

(* Where the bytes end that the calls have handed over which have returned. *)
TakenUpTo(r) == IF r.pc = "idle" THEN r.copied_seq ELSE r.call.start

LEMMA StartTakes ==
    ASSUME NEW s, Core(s), ReadInv(s, rx), ReadStart
    PROVE  \E c : c.start = rx.copied_seq /\ Takes(s, rx, c, rx')
<1>1. PICK call \in Reads : StartRead(call)
    BY DEF ReadStart
<1> DEFINE c == Started(rx, call)
<1>2. rx \in Rx /\ Tied(s, rx)
    BY DEF ReadInv, Tied
<1>3. Fresh(rx, c) /\ c.kind = call.kind /\ c \in ReadCall /\ c.start = rx.copied_seq
    BY <1>2, StartedIs DEF Fresh
<1>4. call.kind \in {"recv", "splice", "oob", "map"} /\ call.len \in Nat
    BY ReceiveAssumption
<1>5. c = [NoRead EXCEPT !.kind = call.kind, !.len = call.len, !.peek = call.peek,
                         !.block = call.block, !.target = sock_rcvlowat(rx, call),
                         !.start = rx.copied_seq, !.seq = rx.copied_seq]
    BY DEF Started
<1> HIDE DEF c
<1>6. CASE call.kind = "recv"
  <2>1. rx' = Puts(rx, "reading", c)
      BY <1>1, <1>5, <1>6 DEF StartRead, Reading, Puts
  <2>2. CallTakes(rx, c, s.urg)
      BY <1>2, <1>3, FreshTakes
  <2> QED
      BY <1>2, <1>3, <2>1, <2>2, PutTakes
<1>7. CASE call.kind = "splice"
  <2>1. rx' = tcp_splice_read(rx, c)
      BY <1>1, <1>5, <1>7 DEF StartRead
  <2>2. InSplice(s, rx, c)
      BY <1>2, <1>3, <1>7, FreshSplice
  <2> QED
      BY <1>3, <2>1, <2>2, SpliceTakes
<1>8. CASE call.kind = "oob"
  <2>1. rx' = tcp_recv_urg(rx, c)
      BY <1>1, <1>5, <1>8 DEF StartRead
  <2> QED
      BY <1>2, <1>3, <1>8, <2>1, OobTakes
<1>9. CASE call.kind = "map"
  <2> DEFINE most == IF call.len < tcp_inq(rx) THEN call.len ELSE tcp_inq(rx)
  <2>1. PICK pages \in 0 .. most \div Page : rx' = tcp_zerocopy_receive(rx, c, pages)
      BY <1>1, <1>5, <1>9 DEF StartRead
  <2>2. most \in Nat /\ most <= tcp_inq(rx)
      BY <1>2, <1>4, InqIs
  <2> HIDE DEF most
  <2> QED
      BY <1>2, <1>3, <1>9, <2>1, <2>2, MapTakes
<1> QED
    BY <1>4, <1>6, <1>7, <1>8, <1>9

LEMMA ResumeTakes ==
    ASSUME NEW s, Core(s), ReadInv(s, rx), Took(s, rx), ReadResumes
    PROVE  rx.pc = "waiting" /\ Takes(s, rx, rx.call, rx')
<1> DEFINE c == rx.call
<1>1. /\ rx.pc = "waiting" /\ c.kind \in {"recv", "splice"} /\ c \in ReadCall
      /\ CallTakes(rx, c, s.urg)
    BY RxFields DEF ReadResumes, ReadInv, CallIs, Took
<1>2. rx \in Rx /\ Tied(s, rx)
    BY DEF ReadInv, Tied
<1>3. CASE c.kind = "recv"
  <2>1. InRecv(s, rx, c)
      BY <1>1, <1>3, RecvOfInv
  <2>2. rx' = Reading(rx, PeekRace(rx, c))
      BY <1>1, <1>3 DEF ReadResumes
  <2>3. rx' = Puts(rx, "reading", c)
      BY <2>1, <2>2, NoPeekRace DEF Reading, Puts
  <2> QED
      BY <1>1, <1>2, <2>3, PutTakes
<1>4. CASE c.kind = "splice"
  <2>1. /\ Hands(c.got, c.start, s.urg, DataEnd(rx))
        /\ SpliceGoes(c, s.urg, rx)
        /\ c.seq <= rx.rcv_nxt
      BY <1>1, <1>4 DEF ReadInv, CallIs
  <2>2. \/ rx' = Returns(rx, c)
        \/ ~(c.got # <<>> /\ rx.done) /\ rx' = tcp_splice_read(rx, c)
      BY <1>1, <1>4 DEF ReadResumes
  <2>3. CASE rx' = Returns(rx, c)
    <3>1. rx' = Puts(rx, "returned", c)
        BY <2>3 DEF Returns, Puts
    <3> QED
        BY <1>1, <1>2, <3>1, PutTakes
  <2>4. CASE ~(c.got # <<>> /\ rx.done) /\ rx' = tcp_splice_read(rx, c)
    <3>1. /\ rx.copied_seq = c.seq
          /\ c.seq = c.start + Len(c.got) /\ (s.urg < c.start \/ c.seq <= s.urg)
        BY <2>1, <2>4 DEF SpliceGoes
    <3>2. InSplice(s, rx, c)
        BY <1>1, <1>2, <1>4, <2>1, <3>1 DEF InSplice
    <3> QED
        BY <1>1, <2>4, <3>2, SpliceTakes
  <2> QED
      BY <2>2, <2>3, <2>4
<1> QED
    BY <1>1, <1>3, <1>4

(* A call starts where the calls before it ended, and takes what it hands  *)
(* over; that it returns moves nothing.                                    *)
LEMMA ReaderTakes ==
    ASSUME NEW s, Core(s), ReadInv(s, rx), Took(s, rx), Reader
    PROVE  /\ DataEnd(rx') = DataEnd(rx)
           /\ Took(s, rx')
           /\ TakenUpTo(rx') = IF rx.pc = "returned" THEN rx.copied_seq
                               ELSE TakenUpTo(rx)
<1>0. rx \in Rx /\ Tied(s, rx)
    BY DEF ReadInv, Tied
<1>1. CASE ReadPass
  <2>1. /\ rx.pc = "reading"
        /\ \E backlog \in BOOLEAN : rx' = tcp_recvmsg_pass(rx, rx.call, backlog)
      BY <1>1 DEF ReadPass
  <2>2. rx.call.kind = "recv"
      BY <2>1 DEF ReadInv, CallIs
  <2>3. InRecv(s, rx, rx.call)
      BY <2>1, <2>2, RecvOfInv
  <2>4. Takes(s, rx, rx.call, rx')
      BY <2>1, <2>3, PassTakes
  <2> QED
      BY <2>1, <2>4 DEF Takes, Took, TakenUpTo
<1>2. CASE ReadReturns
  <2>1. rx.pc = "returned" /\ rx' = Puts(rx, "idle", NoRead)
      BY <1>2 DEF ReadReturns, Puts
  <2>2. rx'.pc = "idle" /\ rx'.copied_seq = rx.copied_seq /\ DataEnd(rx') = DataEnd(rx)
      BY <1>0, <2>1, NoReadIs, CallPut
  <2> QED
      BY <2>1, <2>2 DEF Took, TakenUpTo
<1>3. CASE ReadStart
  <2>1. PICK c : c.start = rx.copied_seq /\ Takes(s, rx, c, rx')
      BY <1>3, StartTakes
  <2>2. rx.pc = "idle"
      BY <1>3 DEF ReadStart, StartRead
  <2> QED
      BY <2>1, <2>2 DEF Takes, Took, TakenUpTo
<1>4. CASE ReadResumes
  <2>1. rx.pc = "waiting" /\ Takes(s, rx, rx.call, rx')
      BY <1>4, ResumeTakes
  <2> QED
      BY <2>1 DEF Takes, Took, TakenUpTo
<1> QED
    BY <1>1, <1>2, <1>3, <1>4 DEF Reader

-----------------------------------------------------------------------------
(* What the application has is what has been consumed.                     *)

AppIs(s, r, a) ==
    /\ a \in Seq(Nat)
    /\ Hands(a, 0, s.urg, DataEnd(r))
    /\ Len(a) = Before(TakenUpTo(r), DataEnd(r), s.urg)
    /\ Took(s, r)

(* What a call hands over goes on where the bytes a stop.                  *)
LEMMA HandsJoin ==
    ASSUME NEW a, a \in Seq(Nat), NEW got, got \in Seq(Nat), NEW start, start \in Nat,
           NEW u, u \in Nat, NEW m, m \in Nat,
           Hands(a, 0, u, m), Hands(got, start, u, m), Len(a) = Before(start, m, u)
    PROVE  /\ a \o got \in Seq(Nat)
           /\ Len(a \o got) = Len(a) + Len(got)
           /\ Hands(a \o got, 0, u, m)
<1> DEFINE b == a \o got
           n == Len(a)
           k == Len(got)
<1>1. /\ b \in Seq(Nat) /\ Len(b) = n + k /\ n \in Nat /\ k \in Nat
      /\ \A i \in 1 .. Len(b) : b[i] = IF i <= n THEN a[i] ELSE got[i - n]
    BY ONLY a \in Seq(Nat), got \in Seq(Nat)
<1> HIDE DEF b
<1>2. ASSUME NEW i \in 1 .. Len(b)
      PROVE  b[i] = Place(0, u, i) /\ b[i] < m
  <2>0. n = Len(a) /\ k = Len(got)
      OBVIOUS
  <2> HIDE DEF n, k
  <2>1. i \in Nat /\ 1 <= i /\ i <= n + k
      BY ONLY <1>1, <1>2
  <2>2. CASE i <= n
    <3>1. i \in 1 .. Len(a)
        BY ONLY <1>1, <2>0, <2>1, <2>2
    <3>2. b[i] = a[i]
        BY <1>1, <2>2
    <3> QED
        BY <3>1, <3>2 DEF Hands
  <2>3. CASE ~(i <= n)
    <3> DEFINE j == i - n
               g == got[j]
               first == got[1]
    <3>1. j \in 1 .. Len(got) /\ 1 \in 1 .. Len(got)
        BY ONLY <1>1, <2>0, <2>1, <2>3
    <3>2. b[i] = g
        BY <1>1, <2>3
    <3>3. /\ g = Place(start, u, j) /\ g < m
          /\ first = Place(start, u, 1) /\ first < m
        BY <3>1 DEF Hands
    <3>4. j \in Nat /\ 1 <= j /\ i = n + j
        BY ONLY <1>1, <2>1, <2>3
    <3> HIDE DEF j, g, first
    <3>5. start < m
        BY ONLY <3>3, start \in Nat, u \in Nat, m \in Nat DEF Place
    <3>6. n = IF u < start THEN start - 1 ELSE start
        BY <2>0, <3>5 DEF Before
    <3>7. Place(start, u, j) = Place(0, u, i)
        BY ONLY <2>1, <3>4, <3>6, start \in Nat, u \in Nat DEF Place
    <3> QED
        BY <3>2, <3>3, <3>7
  <2> QED
      BY <2>2, <2>3
<1>3. Hands(b, 0, u, m)
    BY <1>2 DEF Hands
<1> QED
    BY <1>1, <1>3 DEF b

(* The reader stays, and the sender's steps do not change what it has.     *)
LEMMA AppKept ==
    ASSUME NEW s, NEW t, NEW r, NEW q, NEW a, Core(s), Tied(s, r), AppIs(s, r, a),
           t.urg = s.urg \/ NewUrgent(s, t, r),
           q.pc = r.pc, q.call = r.call, q.copied_seq = r.copied_seq,
           DataEnd(q) = DataEnd(r)
    PROVE  AppIs(t, q, a)
<1>1. /\ TakenUpTo(q) = TakenUpTo(r) /\ a \in Seq(Nat) /\ 0 \in Nat
      /\ Hands(a, 0, s.urg, DataEnd(r))
      /\ Len(a) = Before(TakenUpTo(r), DataEnd(r), s.urg)
      /\ (r.pc # "idle" => CallTakes(r, r.call, s.urg))
    BY DEF AppIs, TakenUpTo, Took
<1>2. CASE t.urg = s.urg
    BY <1>1, <1>2 DEF AppIs, Took, CallTakes
<1>3. CASE NewUrgent(s, t, r)
  <2> DEFINE m == DataEnd(r)
             u == s.urg
             v == t.urg
  <2>1. /\ m \in Nat /\ m <= u /\ m <= v /\ u \in Nat /\ v \in Nat
      BY <1>3, EndIs DEF NewUrgent
  <2>2. Hands(a, 0, v, m)
      BY <1>1, <1>3, HandsNew
  <2> HIDE DEF m, u, v
  <2>3. ASSUME NEW p, p \in Nat
        PROVE  Before(p, m, v) = Before(p, m, u)
    <3> DEFINE to == IF p <= m THEN p ELSE m
    <3>1. CASE p <= m
      <4>1. Before(p, m, v) = (IF v < p THEN p - 1 ELSE p)
            /\ Before(p, m, u) = (IF u < p THEN p - 1 ELSE p)
          BY <3>1 DEF Before
      <4>2. ~(v < p) /\ ~(u < p)
          BY ONLY <2>1, <2>3, <3>1
      <4> QED
          BY ONLY <4>1, <4>2
    <3>2. CASE ~(p <= m)
      <4>1. Before(p, m, v) = (IF v < m THEN m - 1 ELSE m)
            /\ Before(p, m, u) = (IF u < m THEN m - 1 ELSE m)
          BY <3>2 DEF Before
      <4>2. ~(v < m) /\ ~(u < m)
          BY ONLY <2>1
      <4> QED
          BY ONLY <4>1, <4>2
    <3> QED
        BY <3>1, <3>2
  <2>4. /\ r.copied_seq \in Nat /\ r.call.start \in Nat /\ TakenUpTo(r) \in Nat
      BY RxFields, CallFields DEF Tied, TakenUpTo
  <2>5. r.pc # "idle" => CallTakes(q, q.call, v)
      BY <1>1, <2>3, <2>4 DEF CallTakes, m, u
  <2>6. Len(a) = Before(TakenUpTo(q), m, v)
      BY <1>1, <2>3, <2>4 DEF m, u
  <2> QED
      BY <1>1, <2>2, <2>5, <2>6 DEF AppIs, Took, m, u, v
<1> QED
    BY <1>2, <1>3

(* More has arrived.                                                       *)
LEMMA AppArrives ==
    ASSUME NEW s, NEW t, NEW r, NEW q, NEW a, Core(s), ReadInv(s, r), AppIs(s, r, a),
           r.done = FALSE, t.urg = s.urg,
           q.pc = r.pc, q.call = r.call, q.copied_seq = r.copied_seq,
           DataEnd(q) \in Nat, DataEnd(r) <= DataEnd(q)
    PROVE  AppIs(t, q, a)
<1> DEFINE m == DataEnd(r)
           w == DataEnd(q)
           u == s.urg
           at == TakenUpTo(r)
<1>1. /\ TakenUpTo(q) = at /\ a \in Seq(Nat) /\ Hands(a, 0, u, m)
      /\ Len(a) = Before(at, m, u) /\ Took(s, r)
    BY DEF AppIs, TakenUpTo
<1>2. /\ r \in Rx /\ Tied(s, r) /\ r.call \in ReadCall /\ r.copied_seq <= r.rcv_nxt
    BY RxFields DEF ReadInv, Tied, Knows
<1>3. /\ m \in Nat /\ w \in Nat /\ u \in Nat /\ m <= w /\ r.copied_seq \in Nat
      /\ r.copied_seq <= m
    BY <1>2, EndIs
<1>4. r.pc # "idle" => (/\ CallTakes(r, r.call, u) /\ r.call.start \in Nat
                       /\ r.call.start <= m)
  <2>1. r.call.start \in Nat
      BY <1>2, CallFields
  <2>2. r.pc # "idle" => (CallTakes(r, r.call, u) /\ r.call.start <= r.copied_seq)
      BY <1>1 DEF Took, CallTakes
  <2> HIDE DEF m, u
  <2> QED
      BY <1>3, <2>1, <2>2
<1>5. at <= m
    BY <1>3, <1>4 DEF TakenUpTo
<1>6. at \in Nat
    BY <1>3, <1>4 DEF TakenUpTo
<1>7. ASSUME NEW p \in Nat, p <= m
      PROVE  Before(p, w, u) = Before(p, m, u)
  <2> HIDE DEF m, w, u
  <2>1. p <= w
      BY ONLY <1>3, <1>7
  <2> QED
      BY <1>7, <2>1 DEF Before
<1>8. Hands(a, 0, u, w)
  <2>1. ASSUME NEW i \in 1 .. Len(a)
        PROVE  a[i] = Place(0, u, i) /\ a[i] < w
    <3> DEFINE g == a[i]
    <3>1. g = Place(0, u, i) /\ g < m /\ g \in Nat
        BY <1>1, <2>1 DEF Hands
    <3> HIDE DEF g, m, w
    <3>2. g < w
        BY ONLY <1>3, <3>1
    <3> QED
        BY <3>1, <3>2 DEF g
  <2> QED
      BY <2>1 DEF Hands
<1>9. r.pc # "idle" => CallTakes(q, q.call, u)
  <2> SUFFICES ASSUME r.pc # "idle" PROVE CallTakes(q, q.call, u)
      OBVIOUS
  <2>1. /\ Before(r.copied_seq, w, u) = Before(r.copied_seq, m, u)
        /\ Before(r.call.start, w, u) = Before(r.call.start, m, u)
      BY <1>3, <1>4, <1>7
  <2> QED
      BY <1>4, <2>1 DEF CallTakes
<1> QED
    BY <1>1, <1>5, <1>6, <1>7, <1>8, <1>9 DEF AppIs, Took

AppInv == AppIs(tx, rx, app)

(* A call that returns has handed over what it took.                       *)
LEMMA AppReads ==
    ASSUME StreamInv, AppInv, Reader, HandsOver, UNCHANGED tx
    PROVE  AppInv'
<1> DEFINE c == rx.call
           got == c.got
           start == c.start
           m == DataEnd(rx)
           u == tx.urg
<1>1. /\ Core(tx) /\ ReadInv(tx, rx) /\ Tied(tx, rx) /\ CallIs(tx, rx)
      /\ rx \in Rx /\ c \in ReadCall
    BY RxFields DEF StreamInv, SendInv, ReadInv, Tied
<1>2. /\ app \in Seq(Nat) /\ Hands(app, 0, u, m)
      /\ Len(app) = Before(TakenUpTo(rx), m, u) /\ Took(tx, rx)
    BY DEF AppInv, AppIs
<1>3. /\ DataEnd(rx') = m /\ Took(tx, rx')
      /\ TakenUpTo(rx') = IF rx.pc = "returned" THEN rx.copied_seq ELSE TakenUpTo(rx)
    BY <1>1, <1>2, ReaderTakes
<1>4. /\ got \in Seq(Nat) /\ start \in Nat /\ m \in Nat /\ u \in Nat
    BY <1>1, CallFields, EndIs
<1>5. AppInv' <=> AppIs(tx, rx', app')
    BY DEF AppInv, AppIs, Hands, Took, CallTakes, TakenUpTo, DataEnd, Before, Place
<1>6. CASE rx.pc # "returned"
  <2>1. app' = app /\ TakenUpTo(rx') = TakenUpTo(rx)
      BY <1>3, <1>6 DEF HandsOver
  <2> QED
      BY <1>2, <1>3, <1>5, <2>1 DEF AppIs
<1>7. CASE rx.pc = "returned"
  <2>1. CallTakes(rx, c, u) /\ TakenUpTo(rx) = start /\ TakenUpTo(rx') = rx.copied_seq
      BY <1>2, <1>3, <1>7 DEF Took, TakenUpTo
  <2>2. CASE Consumes(c)
    <3>1. app' = app \o got
        BY <1>7, <2>2 DEF HandsOver
    <3>2. Hands(got, start, u, m)
        BY <1>1, <1>7, <2>2 DEF CallIs, Consumes
    <3>3. Len(app) = Before(start, m, u)
        BY <1>2, <2>1
    <3>4. /\ app' \in Seq(Nat) /\ Len(app') = Len(app) + Len(got)
          /\ Hands(app', 0, u, m)
      <4> HIDE DEF c, got, start, m, u
      <4> QED
          BY <1>2, <1>4, <3>1, <3>2, <3>3, HandsJoin
    <3>5. Before(rx.copied_seq, m, u) = Len(app')
        BY <2>1, <2>2, <3>3, <3>4 DEF CallTakes
    <3> QED
        BY <1>3, <1>5, <2>1, <3>4, <3>5 DEF AppIs
  <2>3. CASE ~Consumes(c)
    <3>1. app' = app
        BY <1>7, <2>3 DEF HandsOver
    <3>2. rx.copied_seq = start
        BY <2>1, <2>3 DEF CallTakes
    <3> QED
        BY <1>2, <1>3, <1>5, <2>1, <3>1, <3>2 DEF AppIs
  <2> QED
      BY <2>2, <2>3
<1> QED
    BY <1>6, <1>7

LEMMA AppSegment ==
    ASSUME StreamInv, AppInv, SegmentArrives, UNCHANGED app
    PROVE  AppInv'
<1> DEFINE w == tx.wire[1]
           next == w.end + IF w.fin THEN 1 ELSE 0
           q == tcp_urg(Taken(rx, w), w, NoUrgent)
           short == w.end - w.seq < RcvMss
           b == q.pushed \/ short
           m == DataEnd(rx)
           n == DataEnd(rx')
<1>1. /\ SendInv(tx) /\ ReadInv(tx, rx) /\ Core(tx) /\ Tied(tx, rx) /\ rx \in Rx
      /\ SendInv(tx') /\ ReadInv(tx', rx') /\ Core(tx') /\ Tied(tx', rx')
    BY SegmentArrivesIs DEF StreamInv, SendInv, ReadInv, Tied
<1>2. /\ tx.wire # <<>> /\ tx' = [tx EXCEPT !.wire = Tail(@)]
      /\ rx.pc \in {"idle", "waiting"}
      /\ rx' = SegmentReceived(rx, Head(tx.wire), NoUrgent)
  <2>1. rx.pc \in {"idle", "reading", "waiting", "returned"}
      BY <1>1, RxFields
  <2> QED
      BY <2>1 DEF SegmentArrives, ReaderFree
<1>3. /\ Head(tx.wire) = w /\ w \in Wired /\ tx'.urg = tx.urg
      /\ tx'.write_seq = tx.write_seq /\ NextOut(tx) = w.seq /\ NextOut(tx') = next
      /\ w.seq <= w.end /\ w.end <= tx.write_seq
    BY <1>1, <1>2, WireShorter
<1>4. w.seq \in Nat /\ w.end \in Nat /\ w.fin \in BOOLEAN
    BY <1>3 DEF Wired
<1>5. /\ m \in Nat /\ m <= tx.write_seq /\ tx.write_seq \in Nat /\ rx.done \in BOOLEAN
      /\ (rx.done = TRUE => (rx.rcv_nxt = m + 1 /\ m = tx.write_seq))
      /\ (rx.done = FALSE => rx.rcv_nxt = m)
    BY <1>1, EndIs
<1>6. /\ n \in Nat /\ rx'.done \in BOOLEAN
      /\ (rx'.done = TRUE => n = tx.write_seq)
      /\ (rx'.done = FALSE => rx'.rcv_nxt = n)
    BY <1>1, <1>3, EndIs
<1>7. rx.rcv_nxt = w.seq /\ rx'.rcv_nxt = next
    BY <1>1, <1>3 DEF Tied, Linked
<1>8. ReadInv(tx', q)
    BY <1>1, <1>2, TakenIs
<1>9. /\ q \in Rx /\ q.pc = rx.pc /\ q.call = rx.call /\ q.copied_seq = rx.copied_seq
    BY <1>1, <1>3, <1>8, UrgentSame DEF ReadInv
<1>10. /\ rx'.pc = q.pc /\ rx'.call = q.call /\ rx'.copied_seq = q.copied_seq
  <2>1. \/ rx' = tcp_send_ack(q)
        \/ rx' = [q EXCEPT !.sched = TRUE, !.pushed = @ \/ short]
      BY <1>2, <1>3 DEF SegmentReceived, Taken
  <2>2. CASE rx' = tcp_send_ack(q)
    <3>1. Linked(tx', q)
        BY <1>8 DEF ReadInv
    <3> HIDE DEF q
    <3>2. SameRead(q, rx')
        BY <1>1, <1>9, <2>2, <3>1, SendAckIs
    <3> QED
        BY <3>2 DEF SameRead
  <2>3. CASE rx' = [q EXCEPT !.sched = TRUE, !.pushed = @ \/ short]
    <3>1. b \in BOOLEAN
        OBVIOUS
    <3> HIDE DEF q, short
    <3>2. rx' = [q EXCEPT !.sched = TRUE, !.pushed = b]
        BY <1>9, <2>3 DEF Rx
    <3> HIDE DEF b
    <3> QED
        BY ONLY <1>9, <3>1, <3>2 DEF Rx
  <2> QED
      BY <2>1, <2>2, <2>3
<1> HIDE DEF q, m, n, w
<1>11. rx.done = FALSE
    BY ONLY <1>3, <1>4, <1>5, <1>7
<1>12. m <= n
  <2>1. CASE rx'.done = TRUE
      BY <1>5, <1>6, <2>1
  <2>2. CASE rx'.done = FALSE
    <3>1. n = next /\ m = w.seq
        BY <1>5, <1>6, <1>7, <1>11, <2>2
    <3>2. next \in Nat /\ w.end <= next
        BY ONLY <1>4
    <3> HIDE DEF next
    <3> QED
        BY ONLY <1>3, <1>4, <3>1, <3>2
  <2> QED
      BY <1>6, <2>1, <2>2
<1>13. AppIs(tx', rx', app)
  <2>1. AppIs(tx, rx, app)
      BY DEF AppInv
  <2>2. /\ rx'.pc = rx.pc /\ rx'.call = rx.call /\ rx'.copied_seq = rx.copied_seq
        /\ DataEnd(rx') \in Nat /\ DataEnd(rx) <= DataEnd(rx')
      BY <1>6, <1>9, <1>10, <1>12 DEF m, n
  <2> QED
      BY <1>1, <1>3, <1>11, <2>1, <2>2, AppArrives
<1> QED
    BY <1>13 DEF AppInv

(* What leaves the reader where it is.                                     *)
LEMMA AppStays ==
    ASSUME StreamInv, AppInv, app' = app, Core(tx'),
           tx' = tx \/ Follows(tx, tx'), SameRead(rx, rx')
    PROVE  AppInv'
<1>1. Core(tx) /\ Tied(tx, rx) /\ AppIs(tx, rx, app)
    BY DEF StreamInv, SendInv, ReadInv, Tied, AppInv
<1>2. tx'.urg = tx.urg \/ NewUrgent(tx, tx', rx)
    BY <1>1, NewUrgentIs
<1>3. /\ rx'.pc = rx.pc /\ rx'.call = rx.call /\ rx'.copied_seq = rx.copied_seq
      /\ DataEnd(rx') = DataEnd(rx)
    BY DEF SameRead, DataEnd
<1>4. AppIs(tx', rx', app)
    BY <1>1, <1>2, <1>3, AppKept
<1> QED
    BY <1>4 DEF AppInv

LEMMA AppStep ==
    ASSUME StreamInv, AppInv, [Next]_vars
    PROVE  AppInv'
<1>0. /\ SendInv(tx) /\ ReadInv(tx, rx) /\ Core(tx) /\ rx \in Rx /\ Linked(tx, rx)
      /\ SendInv(tx') /\ Core(tx') /\ SameRead(rx, rx)
    BY StreamStep DEF StreamInv, SendInv, ReadInv, SameRead
<1>1. CASE Sender /\ UNCHANGED <<rx, app>>
  <2>1. Follows(tx, tx') /\ SameRead(rx, rx')
      BY <1>0, <1>1, SenderIs, MoveFollows
  <2> QED
      BY <1>0, <1>1, <2>1, AppStays
<1>2. CASE Reader /\ HandsOver /\ UNCHANGED tx
    BY <1>2, AppReads
<1>3. CASE DelackTimer /\ UNCHANGED <<tx, app>>
  <2>1. rx' = tcp_send_ack(rx)
      BY <1>3 DEF DelackTimer, tcp_delack_timer
  <2>2. SameRead(rx, rx')
      BY <1>0, <2>1, SendAckIs
  <2> QED
      BY <1>0, <1>3, <2>2, AppStays
<1>4. CASE SegmentArrives /\ UNCHANGED app
    BY <1>4, AppSegment
<1>5. CASE AckArrives /\ UNCHANGED app
  <2>1. Follows(tx, tx')
      BY <1>0, <1>5, AckArrivesIs
  <2> DEFINE none == NoAck
  <2>2. none \in Ack
      BY DEF NoAck, Ack
  <2>3. rx' = [rx EXCEPT !.ack = none]
      BY <1>5 DEF AckArrives
  <2> HIDE DEF none
  <2>4. SameRead(rx, rx')
      BY ONLY <1>0, <2>2, <2>3 DEF Rx, SameRead
  <2> QED
      BY <1>0, <1>5, <2>1, <2>4, AppStays
<1>6. CASE ProbeTimer /\ UNCHANGED app
  <2> DEFINE room == tx.wnd_end - tx.snd_nxt
  <2>1. CASE room = 0
    <3>1. rx' = tcp_send_ack(rx) /\ tx' = tx
        BY <1>6, <2>1 DEF ProbeTimer
    <3>2. SameRead(rx, rx')
        BY <1>0, <3>1, SendAckIs
    <3> QED
        BY <1>0, <1>6, <3>1, <3>2, AppStays
  <2>2. CASE room # 0
    <3>1. /\ tx' = IF tx.queue = <<>> THEN SendFin(tx)
                   ELSE SendSegment(tx, Minimum(Segment(tx), tx.wnd_end))
          /\ rx' = rx
        BY <1>6, <2>2 DEF ProbeTimer
    <3>2. tx.pc # "sending" /\ ~InFlight(tx) /\ Unsent(tx)
        BY <1>6 DEF ProbeTimer, ProbeDue, SenderFree, Unsent
    <3>3. Follows(tx, tx')
        BY <1>0, <2>2, <3>1, <3>2, ProbeIs, MoveFollows
    <3>4. SameRead(rx, rx')
        BY <1>0, <3>1
    <3> QED
        BY <1>0, <1>6, <3>3, <3>4, AppStays
  <2> QED
      BY <2>1, <2>2
<1>7. CASE UNCHANGED vars
  <2>1. tx' = tx /\ rx' = rx /\ app' = app
      BY <1>7 DEF vars
  <2> QED
      BY <1>0, <2>1, AppStays
<1> QED
    BY <1>1, <1>2, <1>3, <1>4, <1>5, <1>6, <1>7 DEF Next

LEMMA InitApp ==
    ASSUME Init
    PROVE  AppInv
<1>1. PICK val \in Lowats : rx = InitRx(tcp_set_rcvlowat(val))
    BY DEF Init
<1>2. ReadInv(tx, rx) /\ tx.urg = MaxBytes /\ tx.write_seq = 0 /\ Core(tx)
    BY <1>1, InitRead, InitSend DEF Init, SendInv
<1>3. rx.pc = "idle" /\ rx.copied_seq = 0
    BY <1>1 DEF InitRx
<1>4. DataEnd(rx) \in Nat /\ DataEnd(rx) <= 0 /\ tx.urg \in Nat
    BY <1>2, EndIs DEF ReadInv, Tied
<1> DEFINE none == <<>>
<1>5. app = none /\ none \in Seq(Nat) /\ Len(none) = 0
      /\ Hands(none, 0, tx.urg, DataEnd(rx))
    BY NothingHandsOver DEF Init
<1>6. Before(0, DataEnd(rx), tx.urg) = 0
    BY ONLY <1>4 DEF Before
<1> HIDE DEF none
<1> QED
    BY <1>3, <1>5, <1>6 DEF AppInv, AppIs, TakenUpTo, Took

(* At the end of the stream the application has all of it.                 *)
LEMMA AppEnds ==
    ASSUME StreamInv, AppInv, rx.pc = "returned", rx.call.kind = "recv",
           rx.call.eof = TRUE
    PROVE  tx.fin = "sent" /\ app = Ordinary(0, tx.write_seq)
<1> DEFINE start == rx.call.start
           end == tx.write_seq
           u == tx.urg
           m == DataEnd(rx)
           next == rx.rcv_nxt
           copied == rx.copied_seq
           stream == Ordinary(0, end)
           l == Len(stream)
           n == Len(app)
<1>1. /\ Core(tx) /\ Tied(tx, rx) /\ CallIs(tx, rx) /\ rx.call \in ReadCall
      /\ AppIs(tx, rx, app)
    BY RxFields DEF StreamInv, SendInv, ReadInv, Tied, AppInv
<1>2. tx.fin = "sent" /\ (end <= start \/ (start = u /\ u + 1 = end))
    BY <1>1 DEF CallIs, RecvEnds
<1>3. /\ m \in Nat /\ m <= end /\ end \in Nat /\ u \in Nat /\ next \in Nat
      /\ copied \in Nat /\ start \in Nat /\ rx.done \in BOOLEAN
      /\ (rx.done = TRUE => m = end) /\ (rx.done = FALSE => next = m)
    BY <1>1, EndIs, CallFields
<1>4. /\ app \in Seq(Nat) /\ Hands(app, 0, u, m) /\ n = Before(start, m, u)
      /\ start <= copied /\ copied <= next
    BY <1>1 DEF AppIs, Took, CallTakes, TakenUpTo, Tied, Knows
<1>5. /\ stream \in Seq(Nat)
      /\ l = IF u \in 0 .. end - 1 THEN end - 0 - 1
             ELSE IF 0 <= end THEN end - 0 ELSE 0
    BY <1>3, OrdinaryIs
<1>6. IsPrefix(app, stream)
    BY <1>1, <1>3, <1>4, HandsPrefix
<1>7. n \in Nat /\ n = Len(app) /\ l = Len(stream)
    BY <1>4
<1> HIDE DEF start, end, u, m, next, copied, stream, l, n
<1>8. rx.done = FALSE => start <= m
    BY ONLY <1>3, <1>4
<1>9. l = IF u < end THEN end - 1 ELSE end
    BY ONLY <1>3, <1>5
<1>10. n = l
  <2>1. CASE m = end
    <3>1. CASE end <= start
        BY ONLY <1>3, <1>4, <1>9, <2>1, <3>1 DEF Before
    <3>2. CASE start = u /\ u + 1 = end
        BY ONLY <1>3, <1>4, <1>9, <2>1, <3>2 DEF Before
    <3> QED
        BY <1>2, <3>1, <3>2
  <2>2. CASE m # end
    <3>1. start <= m /\ start = u /\ u + 1 = end
        BY ONLY <1>2, <1>3, <1>8, <2>2
    <3> QED
        BY ONLY <1>3, <1>4, <1>9, <3>1 DEF Before
  <2> QED
      BY <2>1, <2>2
<1>11. app = stream
    BY <1>4, <1>5, <1>6, <1>7, <1>10, WholePrefix
<1> QED
    BY <1>2, <1>11 DEF stream, end

(* The bytes that the calls of the reader consume, one call after the      *)
(* other, are the ordinary bytes of the stream in order, none twice and    *)
(* none left out: a call goes on where the calls before it stopped,        *)
(* whichever they were and wherever they were interrupted.  Only MSG_OOB   *)
(* hands over the urgent byte, and tcp_recvmsg() reports the end when the  *)
(* application has all of the stream.                                      *)
THEOREM CallsReadInOrder == Spec => []ReadsInOrder
<1>1. Init => StreamInv /\ AppInv
    BY InitSend, InitRead, InitApp DEF Init, StreamInv
<1>2. StreamInv /\ AppInv /\ [Next]_vars => StreamInv' /\ AppInv'
    BY StreamStep, AppStep
<1>3. StreamInv /\ AppInv => ReadsInOrder
  <2> DEFINE c == rx.call
             start == c.start
             end == tx.write_seq
             u == tx.urg
             m == DataEnd(rx)
             stream == Ordinary(0, end)
  <2> SUFFICES ASSUME StreamInv, AppInv, rx.pc = "returned"
               PROVE  IF c.kind = "oob" THEN c.got \in {<<>>, <<tx.urg>>}
                      ELSE /\ IsPrefix(app \o c.got, stream)
                           /\ ((c.kind = "recv" /\ c.eof)
                                   => (tx.fin = "sent" /\ app = stream))
      BY DEF ReadsInOrder
  <2>1. Core(tx) /\ Tied(tx, rx) /\ CallIs(tx, rx) /\ c \in ReadCall
      BY RxFields DEF StreamInv, SendInv, ReadInv, Tied
  <2>2. c.got \in Seq(Nat) /\ start \in Nat /\ c.eof \in BOOLEAN
      BY <2>1, CallFields
  <2>3. m \in Nat /\ m <= end /\ end \in Nat /\ u \in Nat
      BY <2>1, EndIs
  <2>4. /\ app \in Seq(Nat) /\ Hands(app, 0, u, m) /\ Len(app) = Before(start, m, u)
      BY DEF AppInv, AppIs, TakenUpTo
  <2>5. CASE c.kind = "oob"
    <3>1. OobEnds(c, tx)
        BY <2>1, <2>5 DEF CallIs
    <3> QED
        BY <2>5, <3>1 DEF OobEnds
  <2>6. CASE c.kind # "oob"
    <3> DEFINE got == c.got
               all == app \o got
    <3>1. Hands(got, start, u, m)
        BY <2>1, <2>6 DEF CallIs
    <3>2. all \in Seq(Nat) /\ Hands(all, 0, u, m)
      <4> HIDE DEF got, start, u, m
      <4>1. got \in Seq(Nat)
          BY <2>2 DEF got
      <4> QED
          BY <2>2, <2>3, <2>4, <3>1, <4>1, HandsJoin
    <3>3. IsPrefix(all, stream)
      <4> HIDE DEF all
      <4> QED
          BY <2>3, <3>2, HandsPrefix
    <3>4. ASSUME c.kind = "recv", c.eof
          PROVE  tx.fin = "sent" /\ app = stream
      <4>1. c.eof = TRUE
          BY <2>2, <3>4
      <4> QED
          BY <3>4, <4>1, AppEnds
    <3> QED
        BY <2>6, <3>3, <3>4
  <2> QED
      BY <2>5, <2>6
<1> QED
    BY <1>1, <1>2, <1>3, PTL DEF Spec

-----------------------------------------------------------------------------
(* The window opens.  A buffer with room for three segments, or nearly so, *)
(* never leaves less than a segment to a sender whose bytes have all been  *)
(* read; a smaller one may, as a window is announced again only when it    *)
(* has doubled.  The default buffer of tcp_init(), 131072 bytes of which   *)
(* tcp_win_from_space() may count half, is roomy for 20000-byte segments.  *)

Roomy ==
    /\ 2 * Mss + RcvMss <= RcvBuf + 2
    /\ Mss + RcvMss <= RcvBuf

Fits(r) == r \in Rx /\ r.copied_seq <= r.rcv_nxt

(* At most one byte, which may be the urgent one, has not been read.       *)
Near(r) == r.rcv_nxt <= r.copied_seq + 1
Wide(r) == Mss <= tcp_receive_window(r)
Calm(r) == r.done = FALSE /\ r.sched = FALSE
Opens(r) == (Calm(r) /\ Near(r)) => Wide(r)

(* A recv() in its loop whose end will not look at the window.             *)
Still(r) ==
    /\ r.call.peek = TRUE \/ r.call.got = <<>>
    /\ \/ r.rcv_nxt = r.copied_seq
       \/ r.call.peek = TRUE
       \/ UrgentAt(r, r.call.seq)

WindowOpens(r) ==
    (Calm(r) /\ Near(r) /\ (r.pc = "reading" => Still(r))) => Wide(r)

WantsSome(r) ==
    /\ 1 <= r.lowat
    /\ ((r.pc \in {"reading", "waiting"} /\ r.call.kind = "recv")
            => 1 <= r.call.target)

ReadFlows(r) == WindowOpens(r) /\ WantsSome(r)

(* With next to nothing to read the window chosen is nearly all there is.  *)
LEMMA SelectIs ==
    ASSUME Roomy, NEW r, Fits(r), Near(r)
    PROVE  /\ __tcp_select_window(r) \in Nat
           /\ RcvBuf - RcvMss <= __tcp_select_window(r)
<1> DEFINE b == RcvBuf
           free == b - (r.rcv_nxt - r.copied_seq)
           whole == (free \div RcvMss) * RcvMss
           half == b \div 2
           chosen == __tcp_select_window(r)
           wnd == r.rcv_wnd
<1>1. /\ b \in Nat \ {0} /\ RcvMss \in Nat \ {0} /\ Mss \in Nat \ {0}
      /\ r.rcv_nxt \in Nat /\ r.copied_seq \in Nat /\ wnd \in Nat
      /\ r.copied_seq <= r.rcv_nxt /\ r.rcv_nxt <= r.copied_seq + 1
      /\ Mss + RcvMss <= b
    BY Constants, RxFields DEF Fits, Near, Roomy
<1>2. half \in Nat /\ half + half <= b
    BY <1>1
<1>3. free = tcp_space(r)
    BY DEF tcp_space
<1>4. \/ free < half /\ chosen = 0
      \/ ~(free < 0) /\ ~(RcvMss > b) /\ (wnd <= free - RcvMss \/ wnd > free)
         /\ chosen = whole
      \/ RcvMss = b
      \/ ~(free < 0) /\ ~(RcvMss > b) /\ ~(wnd <= free - RcvMss) /\ chosen = wnd
      \/ free < 0 \/ RcvMss > b
    BY <1>3 DEF __tcp_select_window
<1> HIDE DEF half, chosen, free, wnd
<1>5. free \in Nat /\ b - 1 <= free /\ free <= b
    BY ONLY <1>1 DEF free
<1> HIDE DEF b
<1>6. ~(free < half) /\ RcvMss # b /\ ~(RcvMss > b)
    BY ONLY <1>1, <1>2, <1>5
<1>7. whole \in Nat /\ free < whole + RcvMss
    BY <1>1, <1>5, Multiples
<1> HIDE DEF whole
<1>8. chosen \in Nat /\ free < chosen + RcvMss
    BY ONLY <1>1, <1>4, <1>5, <1>6, <1>7
<1>9. chosen \in Nat /\ b - RcvMss <= chosen
    BY ONLY <1>1, <1>5, <1>8
<1> QED
    BY <1>9 DEF b, chosen

LEMMA SendAckOpens ==
    ASSUME Roomy, NEW r, Fits(r), NEW t, t = tcp_send_ack(r)
    PROVE  Fits(t) /\ Opens(t) /\ SameRead(r, t)
<1> DEFINE now == tcp_receive_window(r)
           chosen == __tcp_select_window(r)
           wnd == IF chosen < now THEN now ELSE chosen
           a == [una |-> r.rcv_nxt, edge |-> r.rcv_nxt + wnd]
<1>1. r \in Rx /\ r.rcv_nxt \in Nat /\ r.copied_seq <= r.rcv_nxt
    BY RxFields DEF Fits
<1>2. now \in Nat /\ chosen \in Nat
    BY <1>1, WindowIs
<1>3. t = [r EXCEPT !.rcv_wup = r.rcv_nxt, !.rcv_wnd = wnd, !.sched = FALSE,
                    !.pushed = FALSE, !.ack = a]
    BY DEF tcp_send_ack
<1> HIDE DEF now, chosen
<1>4. wnd \in Nat /\ chosen <= wnd
    BY <1>2
<1> HIDE DEF wnd
<1>5. a \in Ack
    BY <1>1, <1>4 DEF Ack
<1> HIDE DEF a
<1>6. /\ t \in Rx /\ t.pc = r.pc /\ t.call = r.call /\ t.rcv_nxt = r.rcv_nxt
      /\ t.copied_seq = r.copied_seq /\ t.urg = r.urg /\ t.urg_seq = r.urg_seq
      /\ t.done = r.done /\ t.lowat = r.lowat
      /\ t.rcv_wup = r.rcv_nxt /\ t.rcv_wnd = wnd
    BY ONLY <1>1, <1>3, <1>4, <1>5 DEF Rx
<1>7. tcp_receive_window(t) = wnd
  <2>1. r.rcv_nxt + wnd - r.rcv_nxt = wnd /\ ~(wnd < 0)
      BY ONLY <1>1, <1>4
  <2> QED
      BY <1>6, <2>1 DEF tcp_receive_window
<1>8. Near(t) => Wide(t)
  <2> SUFFICES ASSUME Near(t) PROVE Wide(t)
      OBVIOUS
  <2>1. Near(r)
      BY <1>6 DEF Near
  <2>2. RcvBuf - RcvMss <= chosen
      BY <2>1, SelectIs DEF chosen
  <2>3. Mss + RcvMss <= RcvBuf
      BY DEF Roomy
  <2>4. Mss \in Nat /\ RcvMss \in Nat /\ RcvBuf \in Nat
      BY Constants
  <2>5. Mss <= wnd
      BY ONLY <1>2, <1>4, <2>2, <2>3, <2>4
  <2> QED
      BY <1>7, <2>5 DEF Wide
<1> QED
    BY <1>1, <1>6, <1>8 DEF Fits, Opens, SameRead

(* A reader that took something, or found the window open, leaves it open. *)
LEMMA CleanupOpens ==
    ASSUME Roomy, NEW r, Fits(r), NEW n, n \in Nat, n > 0 \/ Opens(r),
           NEW t, t = tcp_cleanup_rbuf(r, n)
    PROVE  Fits(t) /\ Opens(t) /\ SameRead(r, t)
<1>1. CASE t = tcp_send_ack(r)
    BY <1>1, SendAckOpens
<1>2. CASE t = r /\ ~(n > 0 /\ ~r.done /\ WindowHasOpened(r))
  <2>1. Opens(r)
    <3> SUFFICES ASSUME n > 0, Calm(r), Near(r) PROVE Wide(r)
        BY DEF Opens
    <3> DEFINE now == tcp_receive_window(r)
               new == __tcp_select_window(r)
    <3>1. ~(2 * now <= RcvBuf /\ new > 0 /\ new >= 2 * now)
        BY <1>2 DEF Calm, WindowHasOpened
    <3>2. now \in Nat
        BY WindowIs DEF Fits
    <3>3. new \in Nat /\ RcvBuf - RcvMss <= new
        BY SelectIs
    <3>4. 2 * Mss + RcvMss <= RcvBuf + 2 /\ Mss + RcvMss <= RcvBuf
        BY DEF Roomy
    <3>5. Mss \in Nat \ {0} /\ RcvMss \in Nat \ {0} /\ RcvBuf \in Nat
        BY Constants
    <3> HIDE DEF now, new
    <3>6. Mss <= now
        BY ONLY <3>1, <3>2, <3>3, <3>4, <3>5
    <3> QED
        BY <3>6 DEF Wide, now
  <2> QED
      BY <1>2, <2>1 DEF SameRead
<1> QED
    BY <1>1, <1>2 DEF tcp_cleanup_rbuf

(* What puts a call aside leaves the window as it is.                      *)
LEMMA PutOpens ==
    ASSUME NEW r, r \in Rx, NEW pc, pc \in {"idle", "reading", "waiting", "returned"},
           NEW c, c \in ReadCall, NEW t, t = Puts(r, pc, c)
    PROVE  /\ (Near(t) <=> Near(r)) /\ (Calm(t) <=> Calm(r))
           /\ (Wide(t) <=> Wide(r)) /\ (Opens(t) <=> Opens(r))
           /\ t.pc = pc /\ t.call = c /\ t.lowat = r.lowat /\ t.urg = r.urg
           /\ t.urg_seq = r.urg_seq /\ t.rcv_nxt = r.rcv_nxt
           /\ t.copied_seq = r.copied_seq
<1>1. /\ t.pc = pc /\ t.call = c /\ t.lowat = r.lowat /\ t.rcv_nxt = r.rcv_nxt
      /\ t.copied_seq = r.copied_seq /\ t.rcv_wup = r.rcv_wup
      /\ t.rcv_wnd = r.rcv_wnd /\ t.done = r.done /\ t.sched = r.sched
      /\ t.urg = r.urg /\ t.urg_seq = r.urg_seq
    BY ONLY r \in Rx, t = Puts(r, pc, c) DEF Rx, Puts
<1>2. tcp_receive_window(t) = tcp_receive_window(r)
    BY <1>1 DEF tcp_receive_window
<1> QED
    BY <1>1, <1>2 DEF Near, Calm, Wide, Opens

LEMMA ReturnFlows ==
    ASSUME NEW r, r \in Rx, Opens(r), 1 <= r.lowat, NEW c, c \in ReadCall,
           NEW pc, pc \in {"idle", "waiting", "returned"},
           pc = "waiting" /\ c.kind = "recv" => 1 <= c.target,
           NEW t, t = Puts(r, pc, c)
    PROVE  ReadFlows(t)
<1>1. /\ Opens(t) /\ t.pc = pc /\ t.call = c /\ t.lowat = r.lowat
    BY PutOpens
<1>2. WindowOpens(t)
    BY <1>1 DEF Opens, WindowOpens
<1>3. WantsSome(t)
    BY <1>1 DEF WantsSome
<1> QED
    BY <1>2, <1>3 DEF ReadFlows

LEMMA NotReadingOpens ==
    ASSUME NEW r, WindowOpens(r), r.pc # "reading"
    PROVE  Opens(r)
    BY DEF WindowOpens, Opens

LEMMA FitsTied ==
    ASSUME NEW s, NEW r, Tied(s, r)
    PROVE  Fits(r)
    BY DEF Tied, Knows, Fits

(* What Consume() leaves of the window, and of the urgent byte it passes.  *)
Eaten(r, c, t) ==
    /\ t.rcv_nxt = r.rcv_nxt
    /\ t.rcv_wup = r.rcv_wup
    /\ t.rcv_wnd = r.rcv_wnd
    /\ t.sched = r.sched
    /\ t.done = r.done
    /\ t.lowat = r.lowat
    /\ (c.peek = TRUE => t = r)
    /\ (c.peek = FALSE => t.copied_seq = c.seq)
    /\ ((c.peek = FALSE /\ r.urg # "none" /\ c.seq > r.urg_seq)
            => t.urg = "none")

LEMMA ConsumeFields ==
    ASSUME NEW r, r \in Rx, NEW c, c \in ReadCall, NEW t, t = Consume(r, c)
    PROVE  Eaten(r, c, t)
<1>1. c.peek \in BOOLEAN
    BY CallFields
<1>2. CASE c.peek = TRUE
  <2>1. t = r
      BY <1>2 DEF Consume
  <2> QED
      BY <1>2, <2>1 DEF Eaten
<1>3. CASE c.peek = FALSE
  <2> DEFINE past == r.urg # "none" /\ c.seq > r.urg_seq
             urg == IF past THEN "none" ELSE r.urg
             useq == IF past THEN 0 ELSE r.urg_seq
             seq == c.seq
  <2>1. t = [r EXCEPT !.copied_seq = seq, !.urg = urg, !.urg_seq = useq]
      BY <1>3 DEF Consume
  <2>2. past => urg = "none"
      OBVIOUS
  <2> HIDE DEF urg, useq, seq
  <2>3. /\ t.rcv_nxt = r.rcv_nxt /\ t.rcv_wup = r.rcv_wup
        /\ t.rcv_wnd = r.rcv_wnd /\ t.sched = r.sched /\ t.done = r.done
        /\ t.lowat = r.lowat /\ t.copied_seq = seq /\ t.urg = urg
      BY ONLY <2>1, r \in Rx DEF Rx
  <2> QED
      BY <1>3, <2>2, <2>3 DEF seq, Eaten
<1> QED
    BY <1>1, <1>2, <1>3

(* A recv() that has handed over nothing and finds no more.                *)
LEMMA NothingMore ==
    ASSUME NEW s, NEW r, NEW c, InRecv(s, r, c), r.pc = "reading", r.call = c,
           WindowOpens(r), ~(c.seq < DataEnd(r)), Len(c.got) = 0
    PROVE  Opens(r)
<1> SUFFICES ASSUME Calm(r), Near(r) PROVE Wide(r)
    BY DEF Opens
<1>1. Tied(s, r) /\ Core(s) /\ RecvGoes(c, s.urg, r)
    BY DEF InRecv
<1>2. c.got = <<>> /\ c.peek \in BOOLEAN /\ c.seq \in Nat
  <2> DEFINE got == c.got
  <2>1. got \in Seq(Nat) /\ Len(got) = 0 /\ c.peek \in BOOLEAN /\ c.seq \in Nat
      BY InRecvIs
  <2> HIDE DEF got
  <2>2. got = <<>>
      BY ONLY <2>1
  <2> QED
      BY <2>1, <2>2 DEF got
<1>3. /\ r.rcv_nxt = DataEnd(r) /\ r.rcv_nxt \in Nat /\ r.copied_seq \in Nat
      /\ r.copied_seq <= r.rcv_nxt
    BY <1>1, EndIs DEF Calm, Tied, Knows
<1>4. c.peek = FALSE => r.copied_seq = c.seq
    BY <1>1 DEF RecvGoes
<1>5. c.peek = TRUE \/ r.rcv_nxt = r.copied_seq
    BY <1>2, <1>3, <1>4
<1>6. Still(r)
    BY <1>2, <1>5 DEF Still
<1> QED
    BY <1>6 DEF WindowOpens

LEMMA DoneFlows ==
    ASSUME Roomy, NEW s, NEW r, NEW c, RecvDone(s, r, c), 1 <= r.lowat,
           Len(c.got) > 0 \/ Opens(r), NEW t, t = tcp_recvmsg_done(r, c)
    PROVE  ReadFlows(t)
<1> DEFINE n == Len(c.got)
           q == tcp_cleanup_rbuf(r, n)
<1>1. Fits(r) /\ c \in ReadCall
    BY FitsTied DEF RecvDone
<1>2. n \in Nat /\ (n > 0 \/ Opens(r))
    BY <1>1, CallFields
<1>3. t = Puts(q, "returned", c)
    BY DEF tcp_recvmsg_done, Returns, Puts
<1> HIDE DEF n
<1>4. Fits(q) /\ Opens(q) /\ SameRead(r, q)
    BY <1>1, <1>2, CleanupOpens
<1> HIDE DEF q
<1>5. q \in Rx /\ 1 <= q.lowat
    BY <1>4 DEF Fits, SameRead
<1> QED
    BY <1>1, <1>3, <1>4, <1>5, ReturnFlows

(* Only the urgent byte is passed over with nothing to hand over.          *)
LEMMA PassedOver ==
    ASSUME NEW s, NEW r, NEW c, InRecv(s, r, c), NEW d, Found(s, r, c, d),
           d.got = <<>>
    PROVE  /\ c.got = <<>> /\ d.seq = c.seq + 1 /\ UrgentAt(r, c.seq)
           /\ c.seq \in Nat
<1> DEFINE n == Len(c.got)
           m == DataEnd(r)
           skip == Skipped(c, s.urg)
           then == Skipped(d, s.urg)
           u == s.urg
<1>1. Core(s) /\ Tied(s, r) /\ RecvNumbers(s, r, c, n, m, skip) /\ (c.got = <<>> <=> n = 0)
    BY RecvNumbersAre, InRecvIs DEF InRecv
<1>2. /\ d \in ReadCall /\ d.start = c.start
      /\ d.seq = c.start + Len(d.got) + then
      /\ c.seq < d.seq /\ d.seq <= m
    BY DEF Found
<1>3. Len(d.got) = 0
    OBVIOUS
<1>4. d.seq \in Nat /\ then \in {0, 1} /\ (then = 1 => (c.start <= u /\ u < d.seq))
    BY <1>2, CallFields DEF Skipped
<1> HIDE DEF n, m, skip, then, u
<1>5. /\ n \in Nat /\ skip \in {0, 1} /\ c.seq \in Nat /\ c.start \in Nat
      /\ c.seq = c.start + n + skip /\ r.copied_seq <= c.seq /\ m \in Nat
      /\ u \in Nat
    BY ONLY <1>1 DEF RecvNumbers, u
<1>6. n = 0 /\ then = 1 /\ d.seq = c.seq + 1 /\ c.seq = c.start
  <2> DEFINE none == Len(d.got)
  <2>1. none = 0 /\ d.seq = c.start + none + then
      BY <1>2, <1>3
  <2> HIDE DEF none
  <2> QED
      BY ONLY <1>2, <1>4, <1>5, <2>1
<1>7. u = c.seq
    BY ONLY <1>4, <1>5, <1>6
<1>8. UrgentAt(r, c.seq)
  <2> DEFINE seq == c.seq
             to == c.seq + 1
  <2>1. seq \in Nat /\ to \in Nat /\ r.copied_seq <= seq /\ seq < to /\ to <= DataEnd(r)
      BY <1>2, <1>5, <1>6 DEF m
  <2> HIDE DEF seq, to
  <2>2. UrgentAt(r, seq) <=> seq = s.urg
      BY <1>1, <2>1, UrgentIs
  <2> QED
      BY <1>7, <2>2 DEF seq, u
<1> QED
    BY <1>1, <1>5, <1>6, <1>8

LEMMA FoundFlows ==
    ASSUME NEW s, NEW r, NEW c, InRecv(s, r, c), r.pc = "reading", r.call = c,
           ReadFlows(r), NEW d, Found(s, r, c, d), NEW q, q = Consume(r, d),
           NEW t, t = Puts(q, "reading", d)
    PROVE  ReadFlows(t)
<1>1. /\ r \in Rx /\ c \in ReadCall /\ Tied(s, r) /\ Core(s) /\ c.kind = "recv"
      /\ RecvGoes(c, s.urg, r) /\ c.peek \in BOOLEAN
    BY InRecvIs DEF InRecv, Tied
<1>2. d \in ReadCall /\ d.peek = c.peek /\ d.target = c.target
    BY DEF Found
<1>3. q \in Rx
    BY FoundReads DEF InRecv, Tied
<1>4. /\ q.rcv_nxt = r.rcv_nxt /\ q.rcv_wup = r.rcv_wup
      /\ q.rcv_wnd = r.rcv_wnd /\ q.sched = r.sched /\ q.done = r.done
      /\ q.lowat = r.lowat
      /\ (d.peek = TRUE => q = r)
      /\ (d.peek = FALSE => q.copied_seq = d.seq)
      /\ ((d.peek = FALSE /\ r.urg # "none" /\ d.seq > r.urg_seq)
              => q.urg = "none")
  <2>1. Eaten(r, d, q)
      BY <1>1, <1>2, ConsumeFields
  <2> QED
      BY <2>1 DEF Eaten
<1>5. /\ (Near(t) <=> Near(q)) /\ (Calm(t) <=> Calm(q))
      /\ (Wide(t) <=> Wide(q)) /\ t.pc = "reading" /\ t.call = d
      /\ t.lowat = q.lowat /\ t.urg = q.urg /\ t.urg_seq = q.urg_seq
      /\ t.rcv_nxt = q.rcv_nxt /\ t.copied_seq = q.copied_seq
    BY <1>2, <1>3, PutOpens
<1>6. Wide(q) <=> Wide(r)
    BY <1>4 DEF Wide, tcp_receive_window
<1>7. WantsSome(t)
    BY <1>1, <1>2, <1>4, <1>5 DEF ReadFlows, WantsSome
<1>8. ASSUME Calm(t), Near(t), Still(t) PROVE Wide(t)
  <2>1. Calm(r)
      BY <1>4, <1>5, <1>8 DEF Calm
  <2>2. CASE d.peek = TRUE
    <3>1. Near(r) /\ Still(r)
        BY <1>2, <1>4, <1>5, <1>8, <2>2 DEF Still
    <3> QED
        BY <1>5, <1>6, <2>1, <3>1 DEF ReadFlows, WindowOpens
  <2>3. CASE d.peek = FALSE
    <3>1. d.got = <<>>
        BY <1>5, <1>8, <2>3 DEF Still
    <3>2. c.got = <<>> /\ d.seq = c.seq + 1 /\ UrgentAt(r, c.seq) /\ c.seq \in Nat
        BY <3>1, PassedOver
    <3>3. t.urg = "none"
      <4>1. r.urg # "none" /\ r.urg_seq = c.seq
          BY <3>2 DEF UrgentAt
      <4>2. d.seq > r.urg_seq
          BY <3>2, <4>1
      <4> QED
          BY <1>4, <1>5, <2>3, <4>1, <4>2
    <3>4. t.rcv_nxt = t.copied_seq
        BY <1>5, <1>8, <2>3, <3>3 DEF Still, UrgentAt
    <3>5. r.copied_seq = c.seq
        BY <1>1, <1>2, <2>3 DEF RecvGoes
    <3>6. r.rcv_nxt = r.copied_seq + 1
        BY <1>4, <1>5, <2>3, <3>2, <3>4, <3>5
    <3>7. Near(r) /\ Still(r)
      <4>1. r.rcv_nxt \in Nat
          BY <1>1, RxFields
      <4>2. Near(r)
          BY <3>6, <4>1 DEF Near
      <4> QED
          BY <3>2, <4>2 DEF Still
    <3> QED
        BY <1>5, <1>6, <2>1, <3>7 DEF ReadFlows, WindowOpens
  <2> QED
      BY <1>1, <1>2, <2>2, <2>3
<1>9. WindowOpens(t)
  <2>1. t.pc = "reading"
      BY <1>5
  <2> QED
      BY <1>8, <2>1 DEF WindowOpens
<1> QED
    BY <1>7, <1>9 DEF ReadFlows

LEMMA PassFlows ==
    ASSUME Roomy, NEW s, NEW r, NEW c, InRecv(s, r, c), r.pc = "reading",
           r.call = c, ReadFlows(r), NEW t,
           \E backlog \in BOOLEAN : t = tcp_recvmsg_pass(r, c, backlog)
    PROVE  ReadFlows(t)
<1> DEFINE n == Len(c.got)
           m == DataEnd(r)
           next == found_ok_skb(r, c)
           fin == found_fin_ok(c)
           ended == [c EXCEPT !.eof = TRUE]
           after == Consume(r, next)
           q == Consume(r, fin)
<1>1. /\ r.done \in BOOLEAN /\ c.block \in BOOLEAN /\ n \in Nat
      /\ c.target \in Nat /\ c.len \in Nat /\ c.target <= n + c.len
    BY InRecvIs
<1>2. /\ Tied(s, r) /\ r \in Rx /\ c \in ReadCall /\ c.kind = "recv"
    BY DEF InRecv, Tied
<1>3. 1 <= r.lowat /\ 1 <= c.target /\ WindowOpens(r)
    BY <1>2 DEF ReadFlows, WantsSome
<1>4. \/ /\ UrgentAt(r, c.seq) /\ n > 0
         /\ t = tcp_recvmsg_done(r, c)
      \/ /\ c.len # 0
         /\ ~(UrgentAt(r, c.seq) /\ n > 0)
         /\ c.seq < m
         /\ t = [after EXCEPT !.call = next]
      \/ /\ r.done = TRUE /\ c.seq = m
         /\ t = tcp_recvmsg_done(q, fin)
      \/ /\ c.len = 0 \/ n >= c.target \/ r.done = TRUE \/ c.block = FALSE
         /\ c.len = 0 \/ ~(c.seq < m)
         /\ t = tcp_recvmsg_done(r, c)
      \/ /\ n = 0 /\ r.done = TRUE /\ ~(c.seq < m) /\ c.seq # m
         /\ t = tcp_recvmsg_done(r, ended)
      \/ ~(c.seq < m) /\ t = Waits(tcp_cleanup_rbuf(r, n), c)
  <2>1. PICK backlog \in BOOLEAN : t = tcp_recvmsg_pass(r, c, backlog)
      OBVIOUS
  <2> QED
      BY <1>1, <2>1 DEF tcp_recvmsg_pass
<1>5. next = found_ok_skb(r, c) /\ fin = found_fin_ok(c) /\ after = Consume(r, next)
      /\ q = Consume(r, fin) /\ ended = [c EXCEPT !.eof = TRUE]
    OBVIOUS
<1> HIDE DEF next, fin, ended, after, q
<1>6. ~(c.seq < m) => (n > 0 \/ Opens(r))
    BY <1>1, <1>3, NothingMore
<1>7. (r.done = TRUE) => Opens(r)
    BY DEF Opens, Calm
<1>8. CASE UrgentAt(r, c.seq) /\ n > 0 /\ t = tcp_recvmsg_done(r, c)
    BY <1>3, <1>8, UrgentStops, DoneFlows
<1>9. CASE /\ c.len # 0
           /\ ~(UrgentAt(r, c.seq) /\ n > 0)
           /\ c.seq < m
           /\ t = [after EXCEPT !.call = next]
  <2>1. Found(s, r, c, next)
      BY <1>5, <1>9, FoundIs
  <2>2. InRecv(s, after, next) /\ after.pc = "reading"
      BY <1>5, <2>1, FoundReads
  <2>3. t = Puts(after, "reading", next)
    <3>1. after \in Rx /\ after.pc = "reading" /\ t = [after EXCEPT !.call = next]
        BY <1>9, <2>2 DEF InRecv, Tied
    <3> QED
        BY ONLY <3>1 DEF Rx, Puts
  <2> QED
      BY <1>5, <2>1, <2>3, FoundFlows
<1>10. CASE r.done = TRUE /\ c.seq = m /\ t = tcp_recvmsg_done(q, fin)
  <2>1. RecvDone(s, q, fin)
      BY <1>5, <1>10, FinTaken
  <2>2. fin \in ReadCall
      BY <2>1 DEF RecvDone
  <2>3. Eaten(r, fin, q)
      BY <1>2, <1>5, <2>2, ConsumeFields
  <2>4. 1 <= q.lowat /\ Opens(q)
      BY <1>3, <1>10, <2>3 DEF Eaten, Opens, Calm
  <2> QED
      BY <1>10, <2>1, <2>4, DoneFlows
<1>11. CASE /\ c.len = 0 \/ n >= c.target \/ r.done = TRUE \/ c.block = FALSE
            /\ c.len = 0 \/ ~(c.seq < m)
            /\ t = tcp_recvmsg_done(r, c)
  <2>1. RecvDone(s, r, c)
      BY <1>11, EnoughRead
  <2>2. n > 0 \/ Opens(r)
    <3>1. c.len = 0 => n > 0
        BY ONLY <1>1, <1>3
    <3> QED
        BY <1>6, <1>11, <3>1
  <2> QED
      BY <1>3, <1>11, <2>1, <2>2, DoneFlows
<1>12. CASE /\ n = 0 /\ r.done = TRUE /\ ~(c.seq < m) /\ c.seq # m
            /\ t = tcp_recvmsg_done(r, ended)
  <2>1. RecvDone(s, r, ended)
      BY <1>12, AfterFin DEF ended
  <2> QED
      BY <1>3, <1>7, <1>12, <2>1, DoneFlows
<1>13. CASE ~(c.seq < m) /\ t = Waits(tcp_cleanup_rbuf(r, n), c)
  <2> DEFINE w == tcp_cleanup_rbuf(r, n)
  <2>1. n > 0 \/ Opens(r)
      BY <1>6, <1>13
  <2>2. t = Puts(w, "waiting", c)
      BY <1>13 DEF Waits, Puts
  <2>3. Fits(r)
      BY <1>2, FitsTied
  <2> HIDE DEF n
  <2>4. Fits(w) /\ Opens(w) /\ SameRead(r, w)
      BY <1>1, <2>1, <2>3, CleanupOpens
  <2> HIDE DEF w
  <2>5. w \in Rx /\ 1 <= w.lowat
      BY <1>3, <2>4 DEF Fits, SameRead
  <2> QED
      BY <1>2, <1>3, <2>2, <2>4, <2>5, ReturnFlows
<1> QED
    BY <1>4, <1>8, <1>9, <1>10, <1>11, <1>12, <1>13

(* A call that only starts, or goes on after a wait, moves nothing.        *)
LEMMA ReadingFlows ==
    ASSUME NEW r, Fits(r), Opens(r), 1 <= r.lowat, NEW c, c \in ReadCall,
           1 <= c.target, NEW t, t = Puts(r, "reading", c)
    PROVE  ReadFlows(t)
<1>1. r \in Rx
    BY DEF Fits
<1>2. Opens(t) /\ t.pc = "reading" /\ t.call = c /\ t.lowat = r.lowat
    BY <1>1, PutOpens
<1>3. WindowOpens(t)
    BY <1>2 DEF Opens, WindowOpens
<1>4. WantsSome(t)
    BY <1>2 DEF WantsSome
<1> QED
    BY <1>3, <1>4 DEF ReadFlows

LEMMA SpliceFlows ==
    ASSUME Roomy, NEW s, NEW r, NEW c, InSplice(s, r, c), ReadFlows(r),
           r.pc # "reading", NEW t, t = tcp_splice_read(r, c)
    PROVE  ReadFlows(t)
<1> DEFINE d == tcp_read_sock(r, c)
           moved == Len(d.got) - Len(c.got)
           after == [r EXCEPT !.copied_seq = d.seq]
           cleaned == tcp_cleanup_rbuf(after, moved)
           eof == d.got = <<>> /\ (r.done \/ c.block)
           ended == [d EXCEPT !.eof = eof]
<1>1. /\ Core(s) /\ Tied(s, r) /\ r \in Rx /\ c \in ReadCall
      /\ r.copied_seq = c.seq /\ c.seq = c.start + Len(c.got)
    BY DEF InSplice, Tied
<1>2. Spliced(s, r, c, d)
    BY ReadSockIs
<1>3. /\ d \in ReadCall /\ d.kind = "splice" /\ d.start = c.start
      /\ r.copied_seq <= d.seq
      /\ d.seq <= r.rcv_nxt
      /\ (d.seq = d.start + Len(d.got) \/ r.done = TRUE)
    BY <1>2 DEF Spliced
<1>4. \/ moved > 0 /\ t = Returns(cleaned, d)
      \/ moved > 0 /\ t = Waits(cleaned, d)
      \/ ~(moved > 0) /\ t = Returns(after, ended)
      \/ ~(moved > 0) /\ t = Waits(after, d)
    BY DEF tcp_splice_read, Stored
<1>5. /\ Len(c.got) \in Nat /\ Len(d.got) \in Nat /\ d.seq \in Nat
      /\ c.seq \in Nat /\ c.start \in Nat
    BY <1>1, <1>3, CallFields
<1>6. 1 <= r.lowat /\ Opens(r)
    BY NotReadingOpens DEF ReadFlows, WantsSome
<1>7. eof \in BOOLEAN /\ ended = [d EXCEPT !.eof = eof]
    OBVIOUS
<1> HIDE DEF d, eof, ended
<1>8. ended \in ReadCall /\ ended.kind = "splice"
    BY ONLY <1>3, <1>7 DEF ReadCall
<1> DEFINE seq == d.seq
<1>9. seq \in Nat /\ after = [r EXCEPT !.copied_seq = seq]
    BY <1>5
<1> HIDE DEF seq, after
<1>10. /\ after \in Rx /\ after.copied_seq = seq /\ after.rcv_nxt = r.rcv_nxt
       /\ after.rcv_wup = r.rcv_wup /\ after.rcv_wnd = r.rcv_wnd
       /\ after.sched = r.sched /\ after.done = r.done /\ after.lowat = r.lowat
    BY ONLY <1>1, <1>9 DEF Rx
<1>11. Fits(after) /\ (Wide(after) <=> Wide(r)) /\ (Calm(after) <=> Calm(r))
    BY <1>3, <1>10 DEF Fits, Wide, Calm, tcp_receive_window, seq
<1>12. CASE moved > 0
  <2>1. moved \in Nat
    <3> DEFINE a == Len(c.got)
               b == Len(d.got)
    <3>1. a \in Nat /\ b \in Nat /\ moved = b - a /\ moved > 0
        BY <1>5, <1>12
    <3> HIDE DEF a, b, moved
    <3> QED
        BY ONLY <3>1
  <2> HIDE DEF moved
  <2>2. Fits(cleaned) /\ Opens(cleaned) /\ SameRead(after, cleaned)
      BY <1>11, <1>12, <2>1, CleanupOpens
  <2> HIDE DEF cleaned
  <2>3. cleaned \in Rx /\ 1 <= cleaned.lowat
      BY <1>6, <1>10, <2>2 DEF Fits, SameRead
  <2>4. t = Puts(cleaned, "returned", d) \/ t = Puts(cleaned, "waiting", d)
      BY <1>4, <1>12 DEF Returns, Waits, Puts
  <2> QED
      BY <1>3, <2>2, <2>3, <2>4, ReturnFlows
<1>13. CASE ~(moved > 0)
  <2>1. r.done = TRUE \/ seq = r.copied_seq
    <3> DEFINE a == Len(c.got)
               b == Len(d.got)
    <3>1. /\ a \in Nat /\ b \in Nat /\ ~(b - a > 0) /\ r.copied_seq = c.start + a
          /\ (seq = c.start + b \/ r.done = TRUE) /\ r.copied_seq <= seq
        BY <1>1, <1>3, <1>5, <1>13 DEF seq
    <3> HIDE DEF a, b
    <3> QED
        BY ONLY <1>5, <1>9, <3>1
  <2>2. Opens(after)
      BY <1>6, <1>10, <1>11, <2>1 DEF Opens, Near, Calm
  <2>3. t = Puts(after, "returned", ended) \/ t = Puts(after, "waiting", d)
      BY <1>4, <1>13 DEF Returns, Waits, Puts
  <2> QED
      BY <1>3, <1>6, <1>8, <1>10, <2>2, <2>3, ReturnFlows
<1> QED
    BY <1>12, <1>13

LEMMA MapFlows ==
    ASSUME Roomy, NEW s, NEW r, NEW c, Core(s), Tied(s, r), ReadFlows(r),
           r.pc = "idle", Fresh(r, c), c.kind = "map",
           NEW most \in Nat, most <= tcp_inq(r),
           NEW pages \in 0 .. most \div Page,
           NEW t, t = tcp_zerocopy_receive(r, c, pages)
    PROVE  ReadFlows(t)
<1> DEFINE n == pages * Page
           seq == c.seq + n
           got == Bytes(c.seq, seq)
           read == [c EXCEPT !.seq = seq, !.got = got]
           after == [r EXCEPT !.copied_seq = read.seq]
           q == tcp_cleanup_rbuf(after, n)
           i == tcp_inq(r)
<1>1. /\ r \in Rx /\ c \in ReadCall /\ c.seq = r.copied_seq /\ c.seq \in Nat
      /\ r.rcv_nxt \in Nat
    BY CallFields, RxFields DEF Fresh, Tied
<1>2. 1 <= r.lowat /\ Opens(r)
    BY NotReadingOpens DEF ReadFlows, WantsSome
<1>3. t = Returns(r, c) \/ (pages # 0 /\ t = Returns(q, read))
  <2>1. read = [c EXCEPT !.seq = @ + pages * Page,
                         !.got = Bytes(c.seq, c.seq + pages * Page)]
      BY <1>1 DEF ReadCall
  <2> QED
      BY <2>1 DEF tcp_zerocopy_receive, Stored
<1>4. n \in Nat /\ n <= i /\ (pages # 0 => n > 0)
  <2> DEFINE whole == most \div Page
  <2>1. Page \in Nat \ {0} /\ pages \in Nat
      BY Constants
  <2>2. whole \in Nat /\ whole * Page \in Nat /\ whole * Page <= most
      BY <2>1, Multiples
  <2>3. pages <= whole
      BY <2>2
  <2>4. i \in Nat /\ most <= i
      BY InqIs
  <2> HIDE DEF whole, i
  <2>5. pages * Page \in Nat /\ pages * Page <= whole * Page
        /\ (pages # 0 => pages * Page > 0)
      BY ONLY <2>1, <2>2, <2>3
  <2> QED
      BY <2>2, <2>4, <2>5
<1>5. i \in Nat /\ r.copied_seq + i <= r.rcv_nxt
    BY InqIs
<1> HIDE DEF n, i
<1>6. seq \in Nat /\ seq <= r.rcv_nxt
    BY ONLY <1>1, <1>4, <1>5
<1>7. CASE t = Returns(r, c)
  <2>1. t = Puts(r, "returned", c)
      BY <1>7 DEF Returns, Puts
  <2> QED
      BY <1>1, <1>2, <2>1, ReturnFlows
<1>8. CASE pages # 0 /\ t = Returns(q, read)
  <2> DEFINE from == c.seq
  <2>1. from \in Nat /\ got = Bytes(from, seq)
      BY <1>1
  <2> HIDE DEF from, seq
  <2>2. Bytes(from, seq) \in Seq(Nat)
      BY <1>6, <2>1, BytesAre
  <2>3. got \in Gots
      BY <2>1, <2>2 DEF Gots
  <2> HIDE DEF got
  <2>4. read \in ReadCall /\ read.seq = seq /\ read.kind = "map"
      BY ONLY <1>1, <1>6, <2>3, c.kind = "map" DEF ReadCall
  <2>5. after = [r EXCEPT !.copied_seq = seq]
      BY <2>4
  <2> HIDE DEF read, after
  <2>6. /\ after \in Rx /\ after.copied_seq = seq /\ after.rcv_nxt = r.rcv_nxt
        /\ after.lowat = r.lowat
      BY ONLY <1>1, <1>6, <2>5 DEF Rx
  <2>7. Fits(after)
      BY <1>6, <2>6 DEF Fits
  <2>8. Fits(q) /\ Opens(q) /\ SameRead(after, q)
      BY <1>4, <1>8, <2>7, CleanupOpens
  <2>9. t = Puts(q, "returned", read)
      BY <1>8 DEF Returns, Puts
  <2> HIDE DEF q
  <2>10. q \in Rx /\ 1 <= q.lowat
      BY <1>2, <2>6, <2>8 DEF Fits, SameRead
  <2> QED
      BY <2>4, <2>8, <2>9, <2>10, ReturnFlows
<1> QED
    BY <1>3, <1>7, <1>8

LEMMA OobFlows ==
    ASSUME NEW r, NEW c, r \in Rx, ReadFlows(r), r.pc = "idle", c \in ReadCall,
           NEW t, t = tcp_recv_urg(r, c)
    PROVE  ReadFlows(t)
<1> DEFINE urg == IF c.peek THEN r.urg ELSE "read"
           got == <<r.urg_seq>>
           d == [c EXCEPT !.got = got]
           q == [r EXCEPT !.urg = urg]
<1>1. 1 <= r.lowat /\ Opens(r)
    BY NotReadingOpens DEF ReadFlows, WantsSome
<1>2. \/ t = Returns(r, c)
      \/ t = Returns([r EXCEPT !.urg = IF c.peek THEN @ ELSE "read"],
                     [c EXCEPT !.got = <<r.urg_seq>>])
    BY DEF tcp_recv_urg
<1>3. CASE t = Returns(r, c)
  <2>1. t = Puts(r, "returned", c)
      BY <1>3 DEF Returns, Puts
  <2> QED
      BY <1>1, <2>1, ReturnFlows
<1>4. CASE ~(t = Returns(r, c))
  <2>1. urg \in {"none", "notyet", "valid", "read"} /\ got \in Gots
      BY RxFields DEF Gots
  <2>2. t = Returns(q, d)
      BY <1>2, <1>4 DEF Rx
  <2>3. t = Puts(q, "returned", d)
      BY <2>2 DEF Returns, Puts
  <2>4. q = [r EXCEPT !.urg = urg] /\ d = [c EXCEPT !.got = got]
      OBVIOUS
  <2> HIDE DEF urg, got, q, d
  <2>5. /\ q \in Rx /\ q.copied_seq = r.copied_seq /\ q.rcv_nxt = r.rcv_nxt
        /\ q.rcv_wup = r.rcv_wup /\ q.rcv_wnd = r.rcv_wnd
        /\ q.sched = r.sched /\ q.done = r.done /\ q.lowat = r.lowat
      BY ONLY <2>1, <2>4, r \in Rx DEF Rx
  <2>6. d \in ReadCall
      BY ONLY <2>1, <2>4, c \in ReadCall DEF ReadCall
  <2>7. Opens(q)
      BY <1>1, <2>5 DEF Opens, Calm, Near, Wide, tcp_receive_window
  <2> QED
      BY <1>1, <2>3, <2>5, <2>6, <2>7, ReturnFlows
<1> QED
    BY <1>3, <1>4

(* A call asks for a byte at least.                                        *)
LEMMA StartedWants ==
    ASSUME NEW r, r \in Rx, 1 <= r.lowat, NEW call, call \in Reads
    PROVE  1 <= Started(r, call).target
<1> DEFINE c == Started(r, call)
           target == sock_rcvlowat(r, call)
           copied == r.copied_seq
           kind == call.kind
           len == call.len
           peek == call.peek
           block == call.block
<1>1. /\ kind \in {"recv", "splice", "oob", "map"} /\ len \in Nat \ {0}
      /\ peek \in BOOLEAN /\ block \in BOOLEAN
    BY ReceiveAssumption
<1>2. copied \in Nat /\ r.lowat \in Nat
    BY RxFields
<1>3. target \in Nat /\ 1 <= target
  <2>1. target \in {len, r.lowat}
      BY DEF sock_rcvlowat
  <2> HIDE DEF target, len
  <2> QED
      BY <1>1, <1>2, <2>1
<1>4. c = [NoRead EXCEPT !.kind = kind, !.len = len, !.peek = peek,
                         !.block = block, !.target = target,
                         !.start = copied, !.seq = copied]
    BY DEF Started
<1> HIDE DEF c, target, copied, kind, len, peek, block
<1>5. NoRead \in ReadCall
    BY NoReadIs
<1>6. c.target = target
    BY ONLY <1>1, <1>2, <1>3, <1>4, <1>5 DEF ReadCall
<1> QED
    BY <1>3, <1>6 DEF c

LEMMA ReadStartFlows ==
    ASSUME Roomy, NEW s, Core(s), ReadInv(s, rx), ReadFlows(rx), ReadStart
    PROVE  ReadFlows(rx')
<1>1. PICK call \in Reads : StartRead(call)
    BY DEF ReadStart
<1> DEFINE c == Started(rx, call)
<1>2. rx \in Rx /\ Tied(s, rx) /\ rx.pc = "idle"
    BY DEF ReadInv, Tied, ReadStart
<1>3. Fresh(rx, c) /\ c.kind = call.kind /\ c \in ReadCall
    BY <1>2, StartedIs DEF Fresh
<1>4. call.kind \in {"recv", "splice", "oob", "map"} /\ call.len \in Nat
    BY ReceiveAssumption
<1>5. Fits(rx) /\ Opens(rx) /\ 1 <= rx.lowat
    BY <1>2, FitsTied, NotReadingOpens DEF ReadFlows, WantsSome
<1>6. 1 <= c.target
    BY <1>2, <1>5, StartedWants
<1>7. c = [NoRead EXCEPT !.kind = call.kind, !.len = call.len, !.peek = call.peek,
                         !.block = call.block, !.target = sock_rcvlowat(rx, call),
                         !.start = rx.copied_seq, !.seq = rx.copied_seq]
    BY DEF Started
<1> HIDE DEF c
<1>8. CASE call.kind = "recv"
  <2>1. rx' = Puts(rx, "reading", c)
      BY <1>1, <1>7, <1>8 DEF StartRead, Reading, Puts
  <2> QED
      BY <1>3, <1>5, <1>6, <2>1, ReadingFlows
<1>9. CASE call.kind = "splice"
  <2>1. rx' = tcp_splice_read(rx, c)
      BY <1>1, <1>7, <1>9 DEF StartRead
  <2>2. InSplice(s, rx, c)
      BY <1>2, <1>3, <1>9, FreshSplice
  <2> QED
      BY <1>2, <2>1, <2>2, SpliceFlows
<1>10. CASE call.kind = "oob"
  <2>1. rx' = tcp_recv_urg(rx, c)
      BY <1>1, <1>7, <1>10 DEF StartRead
  <2> QED
      BY <1>2, <1>3, <2>1, OobFlows
<1>11. CASE call.kind = "map"
  <2> DEFINE most == IF call.len < tcp_inq(rx) THEN call.len ELSE tcp_inq(rx)
  <2>1. PICK pages \in 0 .. most \div Page : rx' = tcp_zerocopy_receive(rx, c, pages)
      BY <1>1, <1>7, <1>11 DEF StartRead
  <2>2. most \in Nat /\ most <= tcp_inq(rx)
      BY <1>2, <1>4, InqIs
  <2> HIDE DEF most
  <2> QED
      BY <1>2, <1>3, <1>11, <2>1, <2>2, MapFlows
<1> QED
    BY <1>4, <1>8, <1>9, <1>10, <1>11

LEMMA ReadResumesFlows ==
    ASSUME Roomy, NEW s, Core(s), ReadInv(s, rx), ReadFlows(rx), ReadResumes
    PROVE  ReadFlows(rx')
<1> DEFINE c == rx.call
<1>1. rx.pc = "waiting" /\ c.kind \in {"recv", "splice"} /\ c \in ReadCall
    BY RxFields DEF ReadResumes, ReadInv, CallIs
<1>2. rx \in Rx /\ Tied(s, rx)
    BY DEF ReadInv, Tied
<1>3. Fits(rx) /\ Opens(rx) /\ 1 <= rx.lowat
    BY <1>1, <1>2, FitsTied, NotReadingOpens DEF ReadFlows, WantsSome
<1>4. CASE c.kind = "recv"
  <2>1. InRecv(s, rx, c)
      BY <1>1, <1>4, RecvOfInv
  <2>2. rx' = Reading(rx, PeekRace(rx, c))
      BY <1>1, <1>4 DEF ReadResumes
  <2>3. rx' = Puts(rx, "reading", c)
      BY <2>1, <2>2, NoPeekRace DEF Reading, Puts
  <2>4. 1 <= c.target
      BY <1>1, <1>4 DEF ReadFlows, WantsSome
  <2> QED
      BY <1>1, <1>3, <2>3, <2>4, ReadingFlows
<1>5. CASE c.kind = "splice"
  <2>1. /\ Hands(c.got, c.start, s.urg, DataEnd(rx))
        /\ SpliceGoes(c, s.urg, rx)
        /\ c.seq <= rx.rcv_nxt
      BY <1>1, <1>5 DEF ReadInv, CallIs
  <2>2. \/ rx' = Returns(rx, c)
        \/ ~(c.got # <<>> /\ rx.done) /\ rx' = tcp_splice_read(rx, c)
      BY <1>1, <1>5 DEF ReadResumes
  <2>3. CASE rx' = Returns(rx, c)
    <3>1. rx' = Puts(rx, "returned", c)
        BY <2>3 DEF Returns, Puts
    <3> QED
        BY <1>1, <1>2, <1>3, <3>1, ReturnFlows
  <2>4. CASE ~(c.got # <<>> /\ rx.done) /\ rx' = tcp_splice_read(rx, c)
    <3>1. /\ rx.copied_seq = c.seq
          /\ c.seq = c.start + Len(c.got) /\ (s.urg < c.start \/ c.seq <= s.urg)
        BY <2>1, <2>4 DEF SpliceGoes
    <3>2. InSplice(s, rx, c)
        BY <1>1, <1>2, <1>5, <2>1, <3>1 DEF InSplice
    <3> QED
        BY <1>1, <2>4, <3>2, SpliceFlows
  <2> QED
      BY <2>2, <2>3, <2>4
<1> QED
    BY <1>1, <1>4, <1>5

LEMMA ReaderFlows ==
    ASSUME Roomy, NEW s, Core(s), ReadInv(s, rx), ReadFlows(rx), Reader
    PROVE  ReadFlows(rx')
<1>1. CASE ReadPass
  <2>1. /\ rx.pc = "reading"
        /\ \E backlog \in BOOLEAN : rx' = tcp_recvmsg_pass(rx, rx.call, backlog)
      BY <1>1 DEF ReadPass
  <2>2. rx.call.kind = "recv"
      BY <2>1 DEF ReadInv, CallIs
  <2>3. InRecv(s, rx, rx.call)
      BY <2>1, <2>2, RecvOfInv
  <2> QED
      BY <2>1, <2>3, PassFlows
<1>2. CASE ReadReturns
  <2>1. rx.pc = "returned" /\ rx' = Puts(rx, "idle", NoRead)
      BY <1>2 DEF ReadReturns, Puts
  <2>2. rx \in Rx /\ Opens(rx) /\ 1 <= rx.lowat
      BY <2>1, NotReadingOpens DEF ReadInv, ReadFlows, WantsSome
  <2>3. NoRead \in ReadCall
      BY NoReadIs
  <2> QED
      BY <2>1, <2>2, <2>3, ReturnFlows
<1>3. CASE ReadStart
    BY <1>3, ReadStartFlows
<1>4. CASE ReadResumes
    BY <1>4, ReadResumesFlows
<1> QED
    BY <1>1, <1>2, <1>3, <1>4 DEF Reader

(* An acknowledgement sent outside the calls.                              *)
LEMMA AckFlows ==
    ASSUME Roomy, NEW r, Fits(r), WantsSome(r), NEW t, t = tcp_send_ack(r)
    PROVE  ReadFlows(t)
<1>1. Opens(t) /\ SameRead(r, t)
    BY SendAckOpens
<1>2. WindowOpens(t)
    BY <1>1 DEF Opens, WindowOpens
<1>3. WantsSome(t)
    BY <1>1 DEF WantsSome, SameRead
<1> QED
    BY <1>2, <1>3 DEF ReadFlows

LEMMA ArrivalFlows ==
    ASSUME Roomy, SendInv(tx), ReadInv(tx, rx), ReadFlows(rx), SegmentArrives
    PROVE  ReadFlows(rx')
<1> DEFINE w == tx.wire[1]
           q == tcp_urg(Taken(rx, w), w, NoUrgent)
           short == w.end - w.seq < RcvMss
           b == q.pushed \/ short
<1>1. /\ tx.wire # <<>> /\ tx' = [tx EXCEPT !.wire = Tail(@)]
      /\ rx.pc \in {"idle", "waiting"} /\ rx \in Rx
      /\ rx' = SegmentReceived(rx, Head(tx.wire), NoUrgent)
  <2>1. rx.pc \in {"idle", "reading", "waiting", "returned"} /\ rx \in Rx
      BY RxFields DEF ReadInv
  <2> QED
      BY <2>1 DEF SegmentArrives, ReaderFree
<1>2. Head(tx.wire) = w /\ w \in Wired
    BY <1>1, WireShorter
<1>3. ReadInv(tx', q)
    BY <1>1, TakenIs
<1>4. q.pc = rx.pc /\ q.call = rx.call /\ q.lowat = rx.lowat
    BY <1>1, <1>2, UrgentSame
<1>5. Fits(q)
    BY <1>3 DEF ReadInv, Knows, Fits
<1>6. WantsSome(q)
    BY <1>4 DEF ReadFlows, WantsSome
<1>7. \/ rx' = tcp_send_ack(q)
      \/ rx' = [q EXCEPT !.sched = TRUE, !.pushed = @ \/ short]
    BY <1>1, <1>2 DEF SegmentReceived, Taken
<1>8. b \in BOOLEAN /\ q \in Rx
    BY <1>3 DEF ReadInv
<1> HIDE DEF q, short
<1>9. CASE rx' = tcp_send_ack(q)
    BY <1>5, <1>6, <1>9, AckFlows
<1>10. CASE rx' = [q EXCEPT !.sched = TRUE, !.pushed = @ \/ short]
  <2>1. rx' = [q EXCEPT !.sched = TRUE, !.pushed = b]
      BY <1>8, <1>10 DEF Rx
  <2> HIDE DEF b
  <2>2. /\ rx'.sched = TRUE /\ rx'.pc = q.pc /\ rx'.call = q.call
        /\ rx'.lowat = q.lowat
      BY ONLY <1>8, <2>1 DEF Rx
  <2> QED
      BY <1>6, <2>2 DEF ReadFlows, WindowOpens, WantsSome, Calm
<1> QED
    BY <1>7, <1>9, <1>10

LEMMA TakenAckFlows ==
    ASSUME ReadInv(tx, rx), ReadFlows(rx), AckArrives
    PROVE  ReadFlows(rx')
<1> DEFINE none == NoAck
<1>1. none \in Ack /\ rx' = [rx EXCEPT !.ack = none] /\ rx \in Rx
    BY DEF AckArrives, NoAck, Ack, ReadInv
<1> HIDE DEF none
<1>2. /\ rx'.pc = rx.pc /\ rx'.call = rx.call /\ rx'.rcv_nxt = rx.rcv_nxt
      /\ rx'.copied_seq = rx.copied_seq /\ rx'.rcv_wup = rx.rcv_wup
      /\ rx'.rcv_wnd = rx.rcv_wnd /\ rx'.sched = rx.sched /\ rx'.urg = rx.urg
      /\ rx'.urg_seq = rx.urg_seq /\ rx'.done = rx.done /\ rx'.lowat = rx.lowat
    BY ONLY <1>1 DEF Rx
<1>3. /\ (Calm(rx') <=> Calm(rx)) /\ (Near(rx') <=> Near(rx))
      /\ (Wide(rx') <=> Wide(rx)) /\ (Still(rx') <=> Still(rx))
    BY <1>2 DEF Calm, Near, Wide, Still, tcp_receive_window, UrgentAt
<1>4. WindowOpens(rx')
    BY <1>2, <1>3 DEF ReadFlows, WindowOpens
<1>5. WantsSome(rx')
    BY <1>2 DEF ReadFlows, WantsSome
<1> QED
    BY <1>4, <1>5 DEF ReadFlows

LEMMA InitFlows ==
    ASSUME Roomy, NEW val \in Lowats
    PROVE  ReadFlows(InitRx(tcp_set_rcvlowat(val)))
<1> DEFINE r == InitRx(tcp_set_rcvlowat(val))
           lowat == tcp_set_rcvlowat(val)
           buf == RcvBuf
<1>1. /\ buf \in Nat \ {0} /\ val \in Nat /\ Mss \in Nat /\ RcvMss \in Nat
      /\ Mss + RcvMss <= buf
    BY Constants, ReceiveAssumption DEF Roomy
<1>2. lowat \in Nat /\ 1 <= lowat
  <2> DEFINE half == RcvBuf \div 2
             capped == IF val < half THEN val ELSE half
  <2>1. half \in Nat
      BY <1>1
  <2> HIDE DEF half
  <2>2. capped \in Nat
      BY <1>1, <2>1
  <2>3. lowat = IF capped = 0 THEN 1 ELSE capped
      BY DEF tcp_set_rcvlowat, half
  <2> HIDE DEF capped, lowat
  <2> QED
      BY <2>2, <2>3
<1>3. /\ r.pc = "idle" /\ r.rcv_nxt = 0 /\ r.rcv_wup = 0 /\ r.rcv_wnd = buf
      /\ r.lowat = lowat
    BY DEF InitRx
<1> HIDE DEF r, lowat, buf
<1>4. tcp_receive_window(r) = buf
    BY <1>1, <1>3 DEF tcp_receive_window
<1>5. Wide(r)
    BY <1>1, <1>4 DEF Wide
<1>6. WindowOpens(r) /\ WantsSome(r)
    BY <1>2, <1>3, <1>5 DEF WindowOpens, WantsSome
<1> QED
    BY <1>6 DEF ReadFlows, r

LEMMA FlowStep ==
    ASSUME Roomy, StreamInv, ReadFlows(rx), [Next]_vars
    PROVE  ReadFlows(rx')
<1>0. /\ SendInv(tx) /\ ReadInv(tx, rx) /\ Core(tx) /\ Fits(rx) /\ WantsSome(rx)
    BY DEF StreamInv, SendInv, ReadInv, Knows, Fits, ReadFlows
<1>1. CASE Sender /\ UNCHANGED rx
    BY <1>1
<1>2. CASE Reader /\ UNCHANGED tx
    BY <1>0, <1>2, ReaderFlows
<1>3. CASE DelackTimer /\ UNCHANGED tx
  <2>1. rx' = tcp_send_ack(rx)
      BY <1>3 DEF DelackTimer, tcp_delack_timer
  <2> QED
      BY <1>0, <2>1, AckFlows
<1>4. CASE SegmentArrives
    BY <1>0, <1>4, ArrivalFlows
<1>5. CASE AckArrives
    BY <1>0, <1>5, TakenAckFlows
<1>6. CASE ProbeTimer
  <2>1. rx' = tcp_send_ack(rx) \/ rx' = rx
      BY <1>6 DEF ProbeTimer
  <2> QED
      BY <1>0, <2>1, AckFlows
<1>7. CASE UNCHANGED vars
    BY <1>7 DEF vars
<1> QED
    BY <1>1, <1>2, <1>3, <1>4, <1>5, <1>6, <1>7 DEF Next

(* With all read and nothing under way, the window is open at both ends.   *)
LEMMA FlowMeans ==
    ASSUME StreamInv, ReadFlows(rx)
    PROVE  DrainedMeansFlow
<1> SUFFICES ASSUME Quiet, ReaderFree, ProbeDue, Drained(rx), ~tx.held,
                    NAGLE_CORK \notin tx.nonagle
             PROVE  FALSE
    BY DEF DrainedMeansFlow
<1> DEFINE n == tx.snd_nxt
           m == tx.write_seq
           edge == tx.wnd_end
           up == rx.rcv_wup
           wnd == rx.rcv_wnd
<1>1. /\ Core(tx) /\ Pushed(tx) /\ tx \in Tx /\ rx \in Rx /\ Linked(tx, rx)
    BY DEF StreamInv, SendInv, ReadInv, Core
<1>2. /\ n \in Nat /\ m \in Nat /\ edge \in Nat /\ up \in Nat /\ wnd \in Nat
      /\ Mss \in Nat \ {0} /\ tx.held = FALSE
      /\ rx.done \in BOOLEAN /\ rx.sched \in BOOLEAN
      /\ rx.rcv_nxt \in Nat /\ tx.queue \in Seq(Skb)
    BY <1>1, TxFields, RxFields, Constants DEF Queues
<1>3. Unsent(tx) /\ ~InFlight(tx) /\ tx.pc # "sending"
    BY DEF ProbeDue, SenderFree, Unsent
<1>4. WindowBlocks(tx)
    BY <1>1, <1>2, <1>3 DEF Pushed, Flows
<1>5. rx.rcv_nxt = n
    BY <1>1 DEF Quiet, NextOut, Linked
<1>6. tx.fin # "sent"
    BY <1>1, <1>2, <1>3 DEF Core, Unsent
<1>7. rx.done = FALSE
    BY <1>1, <1>2, <1>6 DEF Linked
<1>8. Near(rx)
    BY <1>2 DEF Drained, Near
<1>9. Mss <= tcp_receive_window(rx)
    BY <1>2, <1>7, <1>8 DEF ReadFlows, WindowOpens, Calm, Quiet, ReaderFree, Wide
<1>10. edge = up + wnd
    BY <1>1 DEF Quiet, Linked
<1>11. tcp_receive_window(rx) = IF up + wnd - n < 0 THEN 0 ELSE up + wnd - n
    BY <1>5 DEF tcp_receive_window
<1>12. n < m => Segment(tx) \in Nat /\ Segment(tx) <= n + Mss
  <2> SUFFICES ASSUME n < m PROVE Segment(tx) \in Nat /\ Segment(tx) <= n + Mss
      OBVIOUS
  <2>1. Run(tx.queue, n, m)
      BY <1>1, <1>6 DEF Core
  <2>2. Len(tx.queue) \in Nat /\ Len(tx.queue) # 0
      BY <1>2, <2>1, Buffers DEF Run
  <2>3. tx.queue[1].seq = n /\ 1 \in 1 .. Len(tx.queue)
      BY <2>1, <2>2 DEF Run
  <2>4. tx.queue[1].end \in Nat /\ Head(tx.queue) = tx.queue[1]
      BY <1>2, <2>2, <2>3, Buffers
  <2> DEFINE e == tx.queue[1].end
  <2>5. Segment(tx) = IF e < n + Mss THEN e ELSE n + Mss
      BY <2>3, <2>4 DEF Segment, Minimum
  <2> HIDE DEF e, n
  <2> QED
      BY <1>2, <2>4, <2>5 DEF e
<1>13. IF n < m THEN Segment(tx) > edge ELSE n >= edge
    BY <1>4 DEF WindowBlocks
<1> HIDE DEF n, m, edge, up, wnd
<1>14. n + Mss <= edge
    BY ONLY <1>2, <1>9, <1>10, <1>11
<1> QED
    BY ONLY <1>2, <1>12, <1>13, <1>14

(* No sender is left to its probe timer while the reader has taken all,    *)
(* when the buffer has room for three segments: the reader that took the   *)
(* last byte has offered a segment's room or more, or its acknowledgement  *)
(* still has to arrive.                                                    *)
THEOREM DrainedStreamFlows == Roomy => (Spec => []DrainedMeansFlow)
<1> SUFFICES ASSUME Roomy PROVE Spec => []DrainedMeansFlow
    OBVIOUS
<1> DEFINE Flowing == StreamInv /\ ReadFlows(rx)
<1>1. Init => Flowing
    BY InitSend, InitRead, InitFlows DEF Init, StreamInv
<1>2. Flowing /\ [Next]_vars => Flowing'
    BY StreamStep, FlowStep
<1>3. Flowing => DrainedMeansFlow
    BY FlowMeans
<1> HIDE DEF Flowing
<1> QED
    BY <1>1, <1>2, <1>3, PTL DEF Spec

-----------------------------------------------------------------------------
(* The sliding window.  What the reader offers never exceeds what its      *)
(* buffer has room for behind what was read, and neither ever goes back.   *)

Edge(r) == r.rcv_wup + r.rcv_wnd

Offers(r) ==
    /\ r \in Rx
    /\ r.rcv_nxt <= r.copied_seq + RcvBuf
    /\ Edge(r) <= r.copied_seq + RcvBuf

(* What a call may do: read on, and offer what it has freed.               *)
Slides(r, t) ==
    /\ Offers(t)
    /\ t.rcv_nxt = r.rcv_nxt
    /\ r.copied_seq <= t.copied_seq
    /\ Edge(r) <= Edge(t)

LEMMA SlidesTwice ==
    ASSUME NEW r \in Rx, NEW q, Slides(r, q), NEW t, Slides(q, t)
    PROVE  Slides(r, t)
<1> DEFINE a == Edge(r)
           b == Edge(q)
           d == Edge(t)
<1>1. /\ q \in Rx /\ t \in Rx /\ Offers(t) /\ t.rcv_nxt = r.rcv_nxt
      /\ r.copied_seq <= q.copied_seq /\ q.copied_seq <= t.copied_seq
      /\ a <= b /\ b <= d
    BY DEF Slides, Offers
<1>2. /\ r.copied_seq \in Nat /\ q.copied_seq \in Nat /\ t.copied_seq \in Nat
      /\ a \in Nat /\ b \in Nat /\ d \in Nat
    BY <1>1, RxFields DEF Edge
<1> HIDE DEF a, b, d
<1>3. r.copied_seq <= t.copied_seq /\ a <= d
    BY ONLY <1>1, <1>2
<1> QED
    BY <1>1, <1>3 DEF Slides, a, d

(* Reading alone offers nothing.                                           *)
LEMMA ReadOn ==
    ASSUME NEW r, Offers(r), NEW t, t \in Rx, t.rcv_nxt = r.rcv_nxt,
           t.rcv_wup = r.rcv_wup, t.rcv_wnd = r.rcv_wnd,
           r.copied_seq <= t.copied_seq
    PROVE  Slides(r, t)
<1>1. /\ r.copied_seq \in Nat /\ t.copied_seq \in Nat /\ r.rcv_nxt \in Nat
      /\ r.rcv_wup \in Nat /\ r.rcv_wnd \in Nat /\ RcvBuf \in Nat
    BY RxFields, Constants DEF Offers
<1>2. /\ Edge(t) = Edge(r) /\ Edge(r) \in Nat
    BY <1>1 DEF Edge
<1>3. /\ r.rcv_nxt <= r.copied_seq + RcvBuf /\ Edge(r) <= r.copied_seq + RcvBuf
    BY DEF Offers
<1>4. /\ r.rcv_nxt <= t.copied_seq + RcvBuf /\ Edge(r) <= t.copied_seq + RcvBuf
    BY <1>1, <1>2, <1>3
<1> QED
    BY <1>1, <1>2, <1>4 DEF Slides, Offers

LEMMA SelectFits ==
    ASSUME NEW r, Offers(r)
    PROVE  /\ __tcp_select_window(r) \in Nat
           /\ r.rcv_nxt + __tcp_select_window(r) <= r.copied_seq + RcvBuf
<1> DEFINE space == tcp_space(r)
           free == IF space < 0 THEN 0 ELSE space
           mss == IF RcvMss > RcvBuf THEN RcvBuf ELSE RcvMss
           whole == (free \div mss) * mss
           chosen == __tcp_select_window(r)
           wnd == r.rcv_wnd
           copied == r.copied_seq
           nxt == r.rcv_nxt
           b == RcvBuf
<1>1. /\ b \in Nat \ {0} /\ RcvMss \in Nat \ {0} /\ nxt \in Nat
      /\ copied \in Nat /\ wnd \in Nat /\ nxt <= copied + b
    BY Constants, RxFields DEF Offers
<1>2. space = b - (nxt - copied)
    BY DEF tcp_space
<1>3. \/ chosen = 0
      \/ chosen = whole
      \/ chosen = free
      \/ ~(wnd > free) /\ chosen = wnd
    BY DEF __tcp_select_window
<1>4. mss \in Nat \ {0}
    BY <1>1
<1> HIDE DEF space, mss, chosen, wnd, copied, nxt, b
<1>5. free \in Nat /\ free = copied + b - nxt
    BY ONLY <1>1, <1>2
<1> HIDE DEF free
<1>6. whole \in Nat /\ whole <= free
    BY <1>4, <1>5, Multiples
<1> HIDE DEF whole
<1>7. chosen \in Nat /\ nxt + chosen <= copied + b
    BY ONLY <1>1, <1>3, <1>5, <1>6
<1> QED
    BY <1>7 DEF chosen, nxt, copied, b

LEMMA SendAckSlides ==
    ASSUME NEW r, Offers(r), NEW t, t = tcp_send_ack(r)
    PROVE  Slides(r, t) /\ t.copied_seq = r.copied_seq
<1> DEFINE now == tcp_receive_window(r)
           chosen == __tcp_select_window(r)
           wnd == IF chosen < now THEN now ELSE chosen
           a == [una |-> r.rcv_nxt, edge |-> r.rcv_nxt + wnd]
           up == r.rcv_wup
           old == r.rcv_wnd
           nxt == r.rcv_nxt
           copied == r.copied_seq
           b == RcvBuf
<1>1. /\ r \in Rx /\ nxt \in Nat /\ up \in Nat /\ old \in Nat
      /\ copied \in Nat /\ b \in Nat
      /\ nxt <= copied + b /\ up + old <= copied + b
    BY RxFields, Constants DEF Offers, Edge
<1>2. /\ now \in Nat /\ chosen \in Nat
      /\ now = IF up + old - nxt < 0 THEN 0 ELSE up + old - nxt
      /\ nxt + chosen <= copied + b
    BY <1>1, WindowIs, SelectFits DEF tcp_receive_window
<1>3. t = [r EXCEPT !.rcv_wup = nxt, !.rcv_wnd = wnd, !.sched = FALSE,
                    !.pushed = FALSE, !.ack = a]
    BY DEF tcp_send_ack
<1> HIDE DEF now, chosen, up, old, nxt, copied, b
<1>4. wnd \in Nat /\ up + old <= nxt + wnd /\ nxt + wnd <= copied + b
    BY ONLY <1>1, <1>2
<1> HIDE DEF wnd
<1>5. a \in Ack
    BY <1>1, <1>4 DEF Ack, nxt
<1> HIDE DEF a
<1>6. /\ t \in Rx /\ t.rcv_nxt = r.rcv_nxt /\ t.copied_seq = r.copied_seq
      /\ t.rcv_wup = nxt /\ t.rcv_wnd = wnd
    BY ONLY <1>1, <1>3, <1>4, <1>5 DEF Rx
<1>7. Edge(t) = nxt + wnd /\ Edge(r) = up + old
    BY <1>6 DEF Edge, up, old
<1>8. Offers(t)
    BY <1>1, <1>4, <1>6, <1>7 DEF Offers, nxt, copied, b
<1>9. r.copied_seq <= t.copied_seq
    BY <1>1, <1>6 DEF copied
<1> QED
    BY <1>4, <1>6, <1>7, <1>8, <1>9 DEF Slides

LEMMA CleanupSlides ==
    ASSUME NEW r, Offers(r), NEW n, NEW t, t = tcp_cleanup_rbuf(r, n)
    PROVE  Slides(r, t)
<1>1. CASE t = tcp_send_ack(r)
    BY <1>1, SendAckSlides
<1>2. CASE t = r
  <2>1. r.copied_seq <= r.copied_seq
      BY RxFields DEF Offers
  <2> QED
      BY <1>2, <2>1, ReadOn DEF Offers
<1> QED
    BY <1>1, <1>2 DEF tcp_cleanup_rbuf

(* A call that is put aside after it has read.                             *)
LEMMA PutSlides ==
    ASSUME NEW r \in Rx, NEW q, Slides(r, q), NEW c, c \in ReadCall,
           NEW pc, pc \in {"idle", "reading", "waiting", "returned"},
           NEW t, t = Puts(q, pc, c)
    PROVE  Slides(r, t)
<1>1. q \in Rx /\ Offers(q)
    BY DEF Slides, Offers
<1>2. /\ t \in Rx /\ t.rcv_nxt = q.rcv_nxt /\ t.copied_seq = q.copied_seq
      /\ t.rcv_wup = q.rcv_wup /\ t.rcv_wnd = q.rcv_wnd
    BY ONLY <1>1, t = Puts(q, pc, c), c \in ReadCall,
            pc \in {"idle", "reading", "waiting", "returned"} DEF Rx, Puts
<1>3. q.copied_seq <= t.copied_seq
    BY <1>1, <1>2, RxFields
<1>4. Slides(q, t)
    BY <1>1, <1>2, <1>3, ReadOn
<1> QED
    BY <1>4, SlidesTwice

LEMMA Stays ==
    ASSUME NEW r, Offers(r)
    PROVE  Slides(r, r)
<1>1. r \in Rx /\ r.copied_seq <= r.copied_seq
    BY RxFields DEF Offers
<1> QED
    BY <1>1, ReadOn

LEMMA CleanedSlides ==
    ASSUME NEW r \in Rx, NEW q, Slides(r, q), NEW c, c \in ReadCall, NEW n,
           NEW pc, pc \in {"idle", "reading", "waiting", "returned"},
           NEW t, t = Puts(tcp_cleanup_rbuf(q, n), pc, c)
    PROVE  Slides(r, t)
<1> DEFINE w == tcp_cleanup_rbuf(q, n)
<1>1. Slides(q, w)
    BY CleanupSlides DEF Slides
<1> HIDE DEF w
<1>2. Slides(r, w)
    BY <1>1, SlidesTwice
<1>3. t = Puts(w, pc, c)
    BY DEF w
<1> QED
    BY <1>2, <1>3, PutSlides

(* A pass of the loop of recv().                                           *)
LEMMA ConsumeSlides ==
    ASSUME NEW s, NEW r, Core(s), Tied(s, r), Offers(r), NEW c, Within(r, c),
           NEW t, t = Consume(r, c)
    PROVE  Slides(r, t)
<1>1. /\ c \in ReadCall /\ r.copied_seq <= c.seq /\ r \in Rx /\ c.peek \in BOOLEAN
    BY CallFields DEF Within, Offers
<1>2. Eaten(r, c, t)
    BY <1>1, ConsumeFields
<1>3. t \in Rx /\ t.copied_seq = (IF c.peek = TRUE THEN r.copied_seq ELSE c.seq)
  <2>1. Consumed(s, r, c, t)
      BY ConsumeIs
  <2> QED
      BY <2>1 DEF Consumed, Tied
<1>4. r.copied_seq <= t.copied_seq
    BY <1>1, <1>3, RxFields
<1> QED
    BY <1>2, <1>3, <1>4, ReadOn DEF Eaten

LEMMA PassSlides ==
    ASSUME NEW s, NEW r, NEW c, InRecv(s, r, c), Offers(r), r.pc = "reading",
           NEW t, \E backlog \in BOOLEAN : t = tcp_recvmsg_pass(r, c, backlog)
    PROVE  Slides(r, t)
<1> DEFINE n == Len(c.got)
           m == DataEnd(r)
           next == found_ok_skb(r, c)
           fin == found_fin_ok(c)
           ended == [c EXCEPT !.eof = TRUE]
           after == Consume(r, next)
           q == Consume(r, fin)
<1>1. /\ r.done \in BOOLEAN /\ c.block \in BOOLEAN /\ n \in Nat
    BY InRecvIs
<1>2. /\ Core(s) /\ Tied(s, r) /\ r \in Rx /\ c \in ReadCall /\ Slides(r, r)
    BY Stays DEF InRecv, Tied
<1>3. \/ /\ c.len # 0
         /\ ~(UrgentAt(r, c.seq) /\ n > 0)
         /\ c.seq < m
         /\ t = [after EXCEPT !.call = next]
      \/ /\ r.done = TRUE /\ c.seq = m
         /\ t = tcp_recvmsg_done(q, fin)
      \/ t = tcp_recvmsg_done(r, c)
      \/ /\ n = 0 /\ r.done = TRUE /\ ~(c.seq < m) /\ c.seq # m
         /\ t = tcp_recvmsg_done(r, ended)
      \/ t = Waits(tcp_cleanup_rbuf(r, n), c)
  <2>1. PICK backlog \in BOOLEAN : t = tcp_recvmsg_pass(r, c, backlog)
      OBVIOUS
  <2> QED
      BY <1>1, <2>1 DEF tcp_recvmsg_pass
<1>4. next = found_ok_skb(r, c) /\ fin = found_fin_ok(c) /\ after = Consume(r, next)
      /\ q = Consume(r, fin) /\ ended = [c EXCEPT !.eof = TRUE]
    OBVIOUS
<1> HIDE DEF next, fin, ended, after, q
<1>5. CASE /\ c.len # 0
           /\ ~(UrgentAt(r, c.seq) /\ n > 0)
           /\ c.seq < m
           /\ t = [after EXCEPT !.call = next]
  <2>1. Found(s, r, c, next)
      BY <1>4, <1>5, FoundIs
  <2>2. InRecv(s, after, next) /\ after.pc = "reading"
      BY <1>4, <2>1, FoundReads
  <2>3. t = Puts(after, "reading", next) /\ next \in ReadCall
    <3>1. after \in Rx /\ after.pc = "reading" /\ t = [after EXCEPT !.call = next]
        BY <1>5, <2>2 DEF InRecv, Tied
    <3>2. t = Puts(after, "reading", next)
        BY ONLY <3>1 DEF Rx, Puts
    <3> QED
        BY <2>2, <3>2 DEF InRecv
  <2>4. Within(r, next)
    <3>1. /\ next \in ReadCall /\ c.seq < next.seq /\ next.seq <= m
        BY <2>1 DEF Found
    <3>2. /\ r.copied_seq <= c.seq /\ c.seq \in Nat /\ m \in Nat /\ m <= r.rcv_nxt
        BY <1>2, InRecvIs, EndIs
    <3>3. /\ r.copied_seq \in Nat /\ r.rcv_nxt \in Nat /\ next.seq \in Nat
        BY <1>2, <3>1, RxFields, CallFields
    <3>4. r.copied_seq <= next.seq /\ next.seq <= r.rcv_nxt
      <4> HIDE DEF m
      <4> QED
          BY ONLY <3>1, <3>2, <3>3
    <3> QED
        BY <3>1, <3>4 DEF Within
  <2>5. Slides(r, after)
      BY <1>2, <1>4, <2>4, ConsumeSlides
  <2> QED
      BY <1>2, <2>3, <2>5, PutSlides
<1>6. CASE r.done = TRUE /\ c.seq = m /\ t = tcp_recvmsg_done(q, fin)
  <2>1. RecvDone(s, q, fin)
      BY <1>4, <1>6, FinTaken
  <2>2. fin \in ReadCall /\ fin.seq = c.seq + 1
    <3>1. fin.seq = c.seq + 1
        BY <1>2, <1>4 DEF found_fin_ok, ReadCall
    <3> QED
        BY <2>1, <3>1 DEF RecvDone
  <2>3. Within(r, fin)
    <3>1. r.rcv_nxt = m + 1 /\ r.copied_seq <= c.seq /\ c.seq \in Nat /\ m \in Nat
        BY <1>2, <1>6, InRecvIs, EndIs
    <3>2. r.copied_seq \in Nat /\ r.rcv_nxt \in Nat
        BY <1>2, RxFields
    <3>3. r.copied_seq <= c.seq + 1 /\ c.seq + 1 <= r.rcv_nxt
        BY <1>6, <3>1, <3>2
    <3> QED
        BY <2>2, <3>3 DEF Within
  <2>4. Slides(r, q)
      BY <1>2, <1>4, <2>3, ConsumeSlides
  <2>5. t = Puts(tcp_cleanup_rbuf(q, Len(fin.got)), "returned", fin)
      BY <1>6 DEF tcp_recvmsg_done, Returns, Puts
  <2> QED
      BY <1>2, <2>2, <2>4, <2>5, CleanedSlides
<1>7. CASE t = tcp_recvmsg_done(r, c)
  <2>1. t = Puts(tcp_cleanup_rbuf(r, n), "returned", c)
      BY <1>7 DEF tcp_recvmsg_done, Returns, Puts
  <2> QED
      BY <1>2, <2>1, CleanedSlides
<1>8. CASE /\ n = 0 /\ r.done = TRUE /\ ~(c.seq < m) /\ c.seq # m
           /\ t = tcp_recvmsg_done(r, ended)
  <2>1. ended \in ReadCall
      BY <1>2, <1>4 DEF ReadCall
  <2>2. t = Puts(tcp_cleanup_rbuf(r, Len(ended.got)), "returned", ended)
      BY <1>8 DEF tcp_recvmsg_done, Returns, Puts
  <2> QED
      BY <1>2, <2>1, <2>2, CleanedSlides
<1>9. CASE t = Waits(tcp_cleanup_rbuf(r, n), c)
  <2>1. t = Puts(tcp_cleanup_rbuf(r, n), "waiting", c)
      BY <1>9 DEF Waits, Puts
  <2> QED
      BY <1>2, <2>1, CleanedSlides
<1> QED
    BY <1>3, <1>5, <1>6, <1>7, <1>8, <1>9

(* splice(), map and MSG_OOB.                                              *)
LEMMA SpliceSlides ==
    ASSUME NEW s, NEW r, NEW c, InSplice(s, r, c), Offers(r),
           NEW t, t = tcp_splice_read(r, c)
    PROVE  Slides(r, t)
<1> DEFINE d == tcp_read_sock(r, c)
           moved == Len(d.got) - Len(c.got)
           after == [r EXCEPT !.copied_seq = d.seq]
           eof == d.got = <<>> /\ (r.done \/ c.block)
           ended == [d EXCEPT !.eof = eof]
<1>1. r \in Rx
    BY DEF Offers
<1>2. d \in ReadCall /\ r.copied_seq <= d.seq
    BY ReadSockIs DEF Spliced
<1>3. \/ t = Returns(tcp_cleanup_rbuf(after, moved), d)
      \/ t = Waits(tcp_cleanup_rbuf(after, moved), d)
      \/ t = Returns(after, ended)
      \/ t = Waits(after, d)
    BY DEF tcp_splice_read, Stored
<1>4. eof \in BOOLEAN /\ ended = [d EXCEPT !.eof = eof] /\ d.seq \in Nat
    BY <1>2, CallFields
<1> HIDE DEF d, eof, ended
<1>5. ended \in ReadCall
    BY ONLY <1>2, <1>4 DEF ReadCall
<1> DEFINE seq == d.seq
<1>6. seq \in Nat /\ after = [r EXCEPT !.copied_seq = seq]
    BY <1>4
<1> HIDE DEF seq, after, moved
<1>7. /\ after \in Rx /\ after.copied_seq = seq /\ after.rcv_nxt = r.rcv_nxt
      /\ after.rcv_wup = r.rcv_wup /\ after.rcv_wnd = r.rcv_wnd
    BY ONLY <1>1, <1>6 DEF Rx
<1>8. Slides(r, after)
    BY <1>2, <1>7, ReadOn DEF seq
<1>9. \/ t = Puts(tcp_cleanup_rbuf(after, moved), "returned", d)
      \/ t = Puts(tcp_cleanup_rbuf(after, moved), "waiting", d)
      \/ t = Puts(after, "returned", ended)
      \/ t = Puts(after, "waiting", d)
    BY <1>3 DEF Returns, Waits, Puts
<1> QED
    BY <1>1, <1>2, <1>5, <1>8, <1>9, PutSlides, CleanedSlides

LEMMA MapSlides ==
    ASSUME NEW s, NEW r, NEW c, Core(s), Tied(s, r), Offers(r), Fresh(r, c),
           c.kind = "map",
           NEW most \in Nat, most <= tcp_inq(r),
           NEW pages \in 0 .. most \div Page,
           NEW t, t = tcp_zerocopy_receive(r, c, pages)
    PROVE  Slides(r, t)
<1> DEFINE n == pages * Page
           seq == c.seq + n
           got == Bytes(c.seq, seq)
           read == [c EXCEPT !.seq = seq, !.got = got]
           after == [r EXCEPT !.copied_seq = read.seq]
           q == tcp_cleanup_rbuf(after, n)
<1>1. /\ r \in Rx /\ c \in ReadCall /\ c.seq = r.copied_seq /\ c.seq \in Nat
    BY CallFields DEF Fresh, Tied
<1>2. t = Returns(r, c) \/ t = Returns(q, read)
  <2>1. read = [c EXCEPT !.seq = @ + pages * Page,
                         !.got = Bytes(c.seq, c.seq + pages * Page)]
      BY <1>1 DEF ReadCall
  <2> QED
      BY <2>1 DEF tcp_zerocopy_receive, Stored
<1>3. n \in Nat
    BY Constants
<1> HIDE DEF n
<1>4. seq \in Nat /\ c.seq <= seq
    BY ONLY <1>1, <1>3
<1>5. CASE t = Returns(r, c)
  <2>1. t = Puts(r, "returned", c)
      BY <1>5 DEF Returns, Puts
  <2> QED
      BY <1>1, <2>1, Stays, PutSlides
<1>6. CASE t = Returns(q, read)
  <2> DEFINE from == c.seq
  <2>1. from \in Nat /\ got = Bytes(from, seq)
      BY <1>1
  <2> HIDE DEF from, seq
  <2>2. Bytes(from, seq) \in Seq(Nat)
      BY <1>4, <2>1, BytesAre DEF from
  <2>3. got \in Gots
      BY <2>1, <2>2 DEF Gots
  <2> HIDE DEF got
  <2>4. read \in ReadCall /\ read.seq = seq
      BY ONLY <1>1, <1>4, <2>3 DEF ReadCall
  <2>5. after = [r EXCEPT !.copied_seq = seq]
      BY <2>4
  <2> HIDE DEF read, after
  <2>6. /\ after \in Rx /\ after.copied_seq = seq /\ after.rcv_nxt = r.rcv_nxt
        /\ after.rcv_wup = r.rcv_wup /\ after.rcv_wnd = r.rcv_wnd
      BY ONLY <1>1, <1>4, <2>5 DEF Rx
  <2>7. Slides(r, after)
      BY <1>1, <1>4, <2>6, ReadOn
  <2>8. t = Puts(tcp_cleanup_rbuf(after, n), "returned", read)
      BY <1>6 DEF Returns, Puts
  <2> QED
      BY <1>1, <2>4, <2>7, <2>8, CleanedSlides
<1> QED
    BY <1>2, <1>5, <1>6

LEMMA OobSlides ==
    ASSUME NEW r, NEW c, Offers(r), c \in ReadCall,
           NEW t, t = tcp_recv_urg(r, c)
    PROVE  Slides(r, t)
<1> DEFINE urg == IF c.peek THEN r.urg ELSE "read"
           got == <<r.urg_seq>>
           d == [c EXCEPT !.got = got]
           q == [r EXCEPT !.urg = urg]
<1>0. r \in Rx
    BY DEF Offers
<1>1. \/ t = Returns(r, c)
      \/ t = Returns([r EXCEPT !.urg = IF c.peek THEN @ ELSE "read"],
                     [c EXCEPT !.got = <<r.urg_seq>>])
    BY DEF tcp_recv_urg
<1>2. CASE t = Returns(r, c)
  <2>1. t = Puts(r, "returned", c)
      BY <1>2 DEF Returns, Puts
  <2> QED
      BY <1>0, <2>1, Stays, PutSlides
<1>3. CASE ~(t = Returns(r, c))
  <2>1. urg \in {"none", "notyet", "valid", "read"} /\ got \in Gots
      BY <1>0, RxFields DEF Gots
  <2>2. t = Returns(q, d)
      BY <1>0, <1>1, <1>3 DEF Rx
  <2>3. t = Puts(q, "returned", d)
      BY <2>2 DEF Returns, Puts
  <2>4. q = [r EXCEPT !.urg = urg] /\ d = [c EXCEPT !.got = got]
      OBVIOUS
  <2> HIDE DEF urg, got, q, d
  <2>5. /\ q \in Rx /\ q.copied_seq = r.copied_seq /\ q.rcv_nxt = r.rcv_nxt
        /\ q.rcv_wup = r.rcv_wup /\ q.rcv_wnd = r.rcv_wnd
      BY ONLY <1>0, <2>1, <2>4 DEF Rx
  <2>6. d \in ReadCall
      BY ONLY <2>1, <2>4, c \in ReadCall DEF ReadCall
  <2>7. r.copied_seq <= q.copied_seq
      BY <1>0, <2>5, RxFields
  <2>8. Slides(r, q)
      BY <2>5, <2>7, ReadOn
  <2> QED
      BY <1>0, <2>3, <2>6, <2>8, PutSlides
<1> QED
    BY <1>2, <1>3

LEMMA ReadStartSlides ==
    ASSUME NEW s, Core(s), ReadInv(s, rx), Offers(rx), ReadStart
    PROVE  Slides(rx, rx')
<1>1. PICK call \in Reads : StartRead(call)
    BY DEF ReadStart
<1> DEFINE c == Started(rx, call)
<1>2. rx \in Rx /\ Tied(s, rx)
    BY DEF ReadInv, Tied
<1>3. Fresh(rx, c) /\ c.kind = call.kind /\ c \in ReadCall
    BY <1>2, StartedIs DEF Fresh
<1>4. call.kind \in {"recv", "splice", "oob", "map"} /\ call.len \in Nat
    BY ReceiveAssumption
<1>5. c = [NoRead EXCEPT !.kind = call.kind, !.len = call.len, !.peek = call.peek,
                         !.block = call.block, !.target = sock_rcvlowat(rx, call),
                         !.start = rx.copied_seq, !.seq = rx.copied_seq]
    BY DEF Started
<1> HIDE DEF c
<1>6. CASE call.kind = "recv"
  <2>1. rx' = Puts(rx, "reading", c)
      BY <1>1, <1>5, <1>6 DEF StartRead, Reading, Puts
  <2> QED
      BY <1>2, <1>3, <2>1, Stays, PutSlides
<1>7. CASE call.kind = "splice"
  <2>1. rx' = tcp_splice_read(rx, c)
      BY <1>1, <1>5, <1>7 DEF StartRead
  <2>2. InSplice(s, rx, c)
      BY <1>2, <1>3, <1>7, FreshSplice
  <2> QED
      BY <2>1, <2>2, SpliceSlides
<1>8. CASE call.kind = "oob"
  <2>1. rx' = tcp_recv_urg(rx, c)
      BY <1>1, <1>5, <1>8 DEF StartRead
  <2> QED
      BY <1>3, <2>1, OobSlides
<1>9. CASE call.kind = "map"
  <2> DEFINE most == IF call.len < tcp_inq(rx) THEN call.len ELSE tcp_inq(rx)
  <2>1. PICK pages \in 0 .. most \div Page : rx' = tcp_zerocopy_receive(rx, c, pages)
      BY <1>1, <1>5, <1>9 DEF StartRead
  <2>2. most \in Nat /\ most <= tcp_inq(rx)
      BY <1>2, <1>4, InqIs
  <2> HIDE DEF most
  <2> QED
      BY <1>2, <1>3, <1>9, <2>1, <2>2, MapSlides
<1> QED
    BY <1>4, <1>6, <1>7, <1>8, <1>9

LEMMA ReadResumesSlides ==
    ASSUME NEW s, Core(s), ReadInv(s, rx), Offers(rx), ReadResumes
    PROVE  Slides(rx, rx')
<1> DEFINE c == rx.call
<1>1. rx.pc = "waiting" /\ c.kind \in {"recv", "splice"} /\ c \in ReadCall
    BY RxFields DEF ReadResumes, ReadInv, CallIs
<1>2. rx \in Rx /\ Tied(s, rx)
    BY DEF ReadInv, Tied
<1>3. CASE c.kind = "recv"
  <2>1. InRecv(s, rx, c)
      BY <1>1, <1>3, RecvOfInv
  <2>2. rx' = Reading(rx, PeekRace(rx, c))
      BY <1>1, <1>3 DEF ReadResumes
  <2>3. rx' = Puts(rx, "reading", c)
      BY <2>1, <2>2, NoPeekRace DEF Reading, Puts
  <2> QED
      BY <1>1, <1>2, <2>3, Stays, PutSlides
<1>4. CASE c.kind = "splice"
  <2>1. /\ Hands(c.got, c.start, s.urg, DataEnd(rx))
        /\ SpliceGoes(c, s.urg, rx)
        /\ c.seq <= rx.rcv_nxt
      BY <1>1, <1>4 DEF ReadInv, CallIs
  <2>2. \/ rx' = Returns(rx, c)
        \/ ~(c.got # <<>> /\ rx.done) /\ rx' = tcp_splice_read(rx, c)
      BY <1>1, <1>4 DEF ReadResumes
  <2>3. CASE rx' = Returns(rx, c)
    <3>1. rx' = Puts(rx, "returned", c)
        BY <2>3 DEF Returns, Puts
    <3> QED
        BY <1>1, <1>2, <3>1, Stays, PutSlides
  <2>4. CASE ~(c.got # <<>> /\ rx.done) /\ rx' = tcp_splice_read(rx, c)
    <3>1. /\ rx.copied_seq = c.seq
          /\ c.seq = c.start + Len(c.got) /\ (s.urg < c.start \/ c.seq <= s.urg)
        BY <2>1, <2>4 DEF SpliceGoes
    <3>2. InSplice(s, rx, c)
        BY <1>1, <1>2, <1>4, <2>1, <3>1 DEF InSplice
    <3> QED
        BY <2>4, <3>2, SpliceSlides
  <2> QED
      BY <2>2, <2>3, <2>4
<1> QED
    BY <1>1, <1>3, <1>4

LEMMA ReaderSlides ==
    ASSUME NEW s, Core(s), ReadInv(s, rx), Offers(rx), Reader
    PROVE  Slides(rx, rx')
<1>1. CASE ReadPass
  <2>1. /\ rx.pc = "reading"
        /\ \E backlog \in BOOLEAN : rx' = tcp_recvmsg_pass(rx, rx.call, backlog)
      BY <1>1 DEF ReadPass
  <2>2. rx.call.kind = "recv"
      BY <2>1 DEF ReadInv, CallIs
  <2>3. InRecv(s, rx, rx.call)
      BY <2>1, <2>2, RecvOfInv
  <2> QED
      BY <2>1, <2>3, PassSlides
<1>2. CASE ReadReturns
  <2>1. rx' = Puts(rx, "idle", NoRead) /\ rx \in Rx
      BY <1>2 DEF ReadReturns, Puts, Offers
  <2> QED
      BY <2>1, NoReadIs, Stays, PutSlides
<1>3. CASE ReadStart
    BY <1>3, ReadStartSlides
<1>4. CASE ReadResumes
    BY <1>4, ReadResumesSlides
<1> QED
    BY <1>1, <1>2, <1>3, <1>4 DEF Reader

(* What arrives was offered, so that it fits.                              *)
LEMMA OffersIs ==
    ASSUME NEW s, NEW r, Core(s), ReadInv(s, r), Edge(r) <= r.copied_seq + RcvBuf
    PROVE  /\ Offers(r)
           /\ r.copied_seq <= s.snd_nxt
           /\ s.snd_nxt <= Edge(r)
<1> DEFINE edge == Edge(r)
<1>1. /\ r \in Rx /\ r.rcv_nxt \in Nat /\ r.copied_seq \in Nat /\ edge \in Nat
      /\ s.snd_nxt \in Nat /\ s.wnd_end \in Nat /\ RcvBuf \in Nat
      /\ s.snd_nxt <= s.wnd_end
    BY RxFields, TxFields, Constants DEF ReadInv, Core, Edge
<1>2. r.rcv_nxt <= s.snd_nxt /\ s.wnd_end <= edge /\ r.copied_seq <= r.rcv_nxt
    BY NextOutIs DEF ReadInv, Linked, Knows, Edge
<1>3. edge <= r.copied_seq + RcvBuf
    OBVIOUS
<1> HIDE DEF edge
<1>4. /\ r.rcv_nxt <= r.copied_seq + RcvBuf
      /\ r.copied_seq <= s.snd_nxt
      /\ s.snd_nxt <= edge
    BY ONLY <1>1, <1>2, <1>3
<1> QED
    BY <1>1, <1>4 DEF Offers, edge

LEMMA ArrivalSlides ==
    ASSUME SendInv(tx), ReadInv(tx, rx), Offers(rx), SegmentArrives
    PROVE  /\ Edge(rx') <= rx'.copied_seq + RcvBuf
           /\ rx.copied_seq <= rx'.copied_seq
           /\ Edge(rx) <= Edge(rx')
<1> DEFINE w == tx.wire[1]
           q == tcp_urg(Taken(rx, w), w, NoUrgent)
           short == w.end - w.seq < RcvMss
           b == q.pushed \/ short
<1>1. /\ tx.wire # <<>> /\ tx' = [tx EXCEPT !.wire = Tail(@)]
      /\ rx.pc \in {"idle", "waiting"} /\ rx \in Rx
      /\ rx' = SegmentReceived(rx, Head(tx.wire), NoUrgent)
  <2>1. rx.pc \in {"idle", "reading", "waiting", "returned"} /\ rx \in Rx
      BY RxFields DEF ReadInv
  <2> QED
      BY <2>1 DEF SegmentArrives, ReaderFree
<1>2. Head(tx.wire) = w /\ w \in Wired /\ Core(tx')
    BY <1>1, WireShorter DEF SendInv
<1>3. ReadInv(tx', q)
    BY <1>1, TakenIs
<1>4. q.copied_seq = rx.copied_seq /\ Edge(q) = Edge(rx)
    BY <1>1, <1>2, UrgentSame DEF Edge
<1>5. Offers(q)
    BY <1>2, <1>3, <1>4, OffersIs DEF Offers
<1>6. \/ rx' = tcp_send_ack(q)
      \/ rx' = [q EXCEPT !.sched = TRUE, !.pushed = @ \/ short]
    BY <1>1, <1>2 DEF SegmentReceived, Taken
<1>7. b \in BOOLEAN /\ q \in Rx
    BY <1>3 DEF ReadInv
<1> HIDE DEF q, short
<1>8. Slides(q, rx')
  <2>1. CASE rx' = tcp_send_ack(q)
      BY <1>5, <2>1, SendAckSlides
  <2>2. CASE rx' = [q EXCEPT !.sched = TRUE, !.pushed = @ \/ short]
    <3>1. rx' = [q EXCEPT !.sched = TRUE, !.pushed = b]
        BY <1>7, <2>2 DEF Rx
    <3> HIDE DEF b
    <3>2. /\ rx' \in Rx /\ rx'.rcv_nxt = q.rcv_nxt
          /\ rx'.copied_seq = q.copied_seq /\ rx'.rcv_wup = q.rcv_wup
          /\ rx'.rcv_wnd = q.rcv_wnd
        BY ONLY <1>7, <3>1 DEF Rx
    <3>3. q.copied_seq <= rx'.copied_seq
        BY <1>7, <3>2, RxFields
    <3> QED
        BY <1>5, <3>2, <3>3, ReadOn
  <2> QED
      BY <1>6, <2>1, <2>2
<1> QED
    BY <1>4, <1>8 DEF Slides, Offers

(* The sender: the FIN counts as written once it was sent.                 *)
WrittenTo(s) == s.write_seq + IF s.fin = "sent" THEN 1 ELSE 0

Writes(s, t) ==
    /\ WrittenTo(s) <= WrittenTo(t)
    /\ s.snd_nxt <= t.snd_nxt
    /\ t.snd_nxt <= WrittenTo(t)
    /\ (s.fin = "sent" => (t.fin = "sent" /\ WrittenTo(t) = WrittenTo(s)))

LEMMA FollowsWrites ==
    ASSUME NEW s, NEW t, Core(s), Core(t), Follows(s, t)
    PROVE  Writes(s, t)
<1>1. /\ s.write_seq \in Nat /\ t.write_seq \in Nat /\ t.snd_nxt \in Nat
    BY TxFields DEF Core
<1>2. /\ s.write_seq <= t.write_seq /\ s.snd_nxt <= t.snd_nxt
      /\ (s.fin = "sent" => (t.fin = "sent" /\ t.write_seq = s.write_seq))
    BY DEF Follows
<1>3. t.snd_nxt <= WrittenTo(t)
  <2>1. CASE t.fin = "sent"
      BY <1>1, <2>1 DEF Core, WrittenTo
  <2>2. CASE t.fin # "sent"
      BY <1>1, <2>2, SentIsWritten DEF WrittenTo
  <2> QED
      BY <2>1, <2>2
<1>4. WrittenTo(s) <= WrittenTo(t)
    BY <1>1, <1>2 DEF WrittenTo
<1>5. s.fin = "sent" => (t.fin = "sent" /\ WrittenTo(t) = WrittenTo(s))
    BY <1>2 DEF WrittenTo
<1> QED
    BY <1>2, <1>3, <1>4, <1>5 DEF Writes

LEMMA WriterStep ==
    ASSUME Core(tx), Core(tx'), Follows(tx, tx'), ReadInv(tx', rx'),
           rx'.copied_seq = rx.copied_seq, Edge(rx') = Edge(rx),
           Edge(rx) <= rx.copied_seq + RcvBuf
    PROVE  Window!Writer
<1>1. Writes(tx, tx')
    BY FollowsWrites
<1>2. tx'.snd_nxt <= Edge(rx')
    BY OffersIs
<1>3. /\ WrittenTo(tx) <= WrittenTo(tx')
      /\ tx.snd_nxt <= tx'.snd_nxt
      /\ tx'.snd_nxt <= WrittenTo(tx')
      /\ (tx.fin = "sent" => (tx'.fin = "sent" /\ WrittenTo(tx') = WrittenTo(tx)))
    BY <1>1 DEF Writes
<1> QED
    BY <1>2, <1>3 DEF Window!Writer, WrittenTo, Edge

LEMMA ReaderStep ==
    ASSUME Core(tx'), ReadInv(tx', rx'), tx'.write_seq = tx.write_seq,
           tx'.fin = tx.fin, tx'.snd_nxt = tx.snd_nxt,
           rx.copied_seq <= rx'.copied_seq, Edge(rx) <= Edge(rx'),
           Edge(rx') <= rx'.copied_seq + RcvBuf
    PROVE  Window!Reader
<1>1. rx'.copied_seq <= tx'.snd_nxt
    BY OffersIs
<1> QED
    BY <1>1 DEF Window!Reader, Edge

(* The one fact of the reader that the invariant needs for this.           *)
WithinBuffer == Edge(rx) <= rx.copied_seq + RcvBuf

LEMMA WindowStep ==
    ASSUME StreamInv, WithinBuffer, [Next]_vars
    PROVE  /\ WithinBuffer'
           /\ Window!Next \/ UNCHANGED vars
<1>0. /\ SendInv(tx) /\ ReadInv(tx, rx) /\ Core(tx) /\ rx \in Rx
      /\ SendInv(tx') /\ ReadInv(tx', rx') /\ Core(tx')
      /\ Edge(rx) <= rx.copied_seq + RcvBuf
    BY StreamStep DEF StreamInv, SendInv, ReadInv, WithinBuffer
<1>00. Offers(rx)
    BY <1>0, OffersIs
<1>1. CASE /\ Follows(tx, tx') /\ rx'.copied_seq = rx.copied_seq
           /\ Edge(rx') = Edge(rx)
  <2>1. Window!Writer
      BY <1>0, <1>1, WriterStep
  <2> QED
      BY <1>0, <1>1, <2>1 DEF Window!Next, WithinBuffer, Edge
<1>2. CASE Slides(rx, rx') /\ tx' = tx
  <2>1. /\ Edge(rx') <= rx'.copied_seq + RcvBuf
        /\ rx.copied_seq <= rx'.copied_seq /\ Edge(rx) <= Edge(rx')
      BY <1>2 DEF Slides, Offers
  <2>2. Window!Reader
      BY <1>0, <1>2, <2>1, ReaderStep
  <2> QED
      BY <2>1, <2>2 DEF Window!Next, WithinBuffer, Edge
<1>3. CASE Sender /\ UNCHANGED rx
    BY <1>0, <1>1, <1>3, SenderIs, MoveFollows
<1>4. CASE Reader /\ UNCHANGED tx
    BY <1>0, <1>00, <1>2, <1>4, ReaderSlides
<1>5. CASE DelackTimer /\ UNCHANGED tx
    BY <1>00, <1>2, <1>5, SendAckSlides DEF DelackTimer, tcp_delack_timer
<1>6. CASE SegmentArrives
  <2>1. /\ Edge(rx') <= rx'.copied_seq + RcvBuf
        /\ rx.copied_seq <= rx'.copied_seq /\ Edge(rx) <= Edge(rx')
      BY <1>0, <1>00, <1>6, ArrivalSlides
  <2>2. /\ tx'.write_seq = tx.write_seq /\ tx'.fin = tx.fin
        /\ tx'.snd_nxt = tx.snd_nxt
      BY <1>0, <1>6, WireShorter DEF SegmentArrives
  <2>3. Window!Reader
      BY <1>0, <2>1, <2>2, ReaderStep
  <2> QED
      BY <2>1, <2>3 DEF Window!Next, WithinBuffer, Edge
<1>7. CASE AckArrives
  <2>1. Follows(tx, tx')
      BY <1>0, <1>7, AckArrivesIs
  <2> DEFINE none == NoAck
  <2>2. none \in Ack /\ rx' = [rx EXCEPT !.ack = none]
      BY <1>7 DEF AckArrives, NoAck, Ack
  <2> HIDE DEF none
  <2>3. /\ rx'.copied_seq = rx.copied_seq /\ rx'.rcv_wup = rx.rcv_wup
        /\ rx'.rcv_wnd = rx.rcv_wnd
      BY ONLY <1>0, <2>2 DEF Rx
  <2> QED
      BY <1>1, <2>1, <2>3 DEF Edge
<1>8. CASE ProbeTimer
  <2> DEFINE room == tx.wnd_end - tx.snd_nxt
  <2>1. CASE room = 0
    <3>1. rx' = tcp_send_ack(rx) /\ tx' = tx
        BY <1>8, <2>1 DEF ProbeTimer
    <3> QED
        BY <1>00, <1>2, <3>1, SendAckSlides
  <2>2. CASE room # 0
    <3>1. /\ tx' = IF tx.queue = <<>> THEN SendFin(tx)
                   ELSE SendSegment(tx, Minimum(Segment(tx), tx.wnd_end))
          /\ rx' = rx
        BY <1>8, <2>2 DEF ProbeTimer
    <3>2. tx.pc # "sending" /\ ~InFlight(tx) /\ Unsent(tx)
        BY <1>8 DEF ProbeTimer, ProbeDue, SenderFree, Unsent
    <3>3. Move(tx, tx')
        BY <1>0, <2>2, <3>1, <3>2, ProbeIs
    <3> QED
        BY <1>1, <3>1, <3>3, MoveFollows
  <2> QED
      BY <2>1, <2>2
<1>9. CASE UNCHANGED vars
    BY <1>0, <1>9 DEF vars, WithinBuffer, Edge
<1> QED
    BY <1>3, <1>4, <1>5, <1>6, <1>7, <1>8, <1>9 DEF Next

LEMMA InitWindow ==
    ASSUME Init
    PROVE  WithinBuffer /\ Window!Init
<1>1. /\ tx.write_seq = 0 /\ tx.fin = "none" /\ tx.snd_nxt = 0
    BY DEF Init, InitTx
<1>2. /\ rx.copied_seq = 0 /\ rx.rcv_wup = 0 /\ rx.rcv_wnd = RcvBuf
    BY DEF Init, InitRx
<1>3. RcvBuf \in Nat
    BY Constants
<1>4. WithinBuffer
    BY <1>2, <1>3 DEF WithinBuffer, Edge
<1>5. Window!Init
    BY <1>1, <1>2, <1>3 DEF Window!Init
<1> QED
    BY <1>4, <1>5

(* The stream is a sliding window: whatever is written, pushed, corked,    *)
(* read, peeked, spliced or mapped, and whenever an acknowledgement or the *)
(* probe timer comes, nothing is sent that was not offered, the reader is  *)
(* never beyond what was sent, and no window is larger than the buffer's   *)
(* free part or taken back.                                                *)
THEOREM StreamImplementsWindow == Spec => ImplementsWindow
<1> DEFINE Sliding == StreamInv /\ WithinBuffer
<1>1. Init => Sliding /\ Window!Init
    BY InitSend, InitRead, InitWindow DEF Init, StreamInv
<1>2. Sliding /\ [Next]_vars => Sliding'
    BY StreamStep, WindowStep
<1>3. Sliding /\ [Next]_vars =>
        [Window!Next]_<<tx.write_seq + IF tx.fin = "sent" THEN 1 ELSE 0,
                        tx.fin = "sent", tx.snd_nxt, rx.copied_seq,
                        rx.rcv_wup + rx.rcv_wnd>>
    BY WindowStep DEF vars
<1> HIDE DEF Sliding
<1> QED
    BY <1>1, <1>2, <1>3, PTL DEF Spec, ImplementsWindow, Window!Spec

=============================================================================
