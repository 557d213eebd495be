---------------------------- MODULE SlidingWindow ----------------------------
(***************************************************************************)
(* What the two ends of a stream promise each other, with no segments: the *)
(* writer sends what it has written, in order, no more than the reader has *)
(* offered, and adds nothing once it has closed the stream; the reader     *)
(* takes what was sent, in order, and offers no more than its buffer has   *)
(* room for.  Neither takes anything back.                                 *)
(***************************************************************************)
EXTENDS Naturals

CONSTANT Buffer

VARIABLES
    written, \* how far the stream is written, its end included
    closed,  \* its end has been sent
    sent,    \* how far it was sent
    taken,   \* how far the reader has taken it
    offered  \* how far it may be sent

Init ==
    /\ written = 0 /\ closed = FALSE /\ sent = 0
    /\ taken = 0 /\ offered = Buffer

Writer ==
    /\ written <= written' /\ sent <= sent'
    /\ sent' <= written' /\ sent' <= offered
    /\ closed => closed' /\ written' = written
    /\ UNCHANGED <<taken, offered>>

Reader ==
    /\ taken <= taken' /\ offered <= offered'
    /\ taken' <= sent /\ offered' <= taken' + Buffer
    /\ UNCHANGED <<written, closed, sent>>

Next == Writer \/ Reader

Spec == Init /\ [][Next]_<<written, closed, sent, taken, offered>>
=============================================================================
