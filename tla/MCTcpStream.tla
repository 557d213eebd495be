----------------------------- MODULE MCTcpStream -----------------------------
(* The calls of TcpStream for TLC; the rest is in the .cfg.                 *)
EXTENDS TcpStream

Send(kind, len, more, oob, block) ==
    [kind |-> kind, len |-> len, more |-> more, oob |-> oob, block |-> block]

Read(kind, len, peek, waitall, block) ==
    [kind |-> kind, len |-> len, peek |-> peek, waitall |-> waitall,
     block |-> block]

(* A write longer than a segment, a short one with more to come, the       *)
(* urgent byte, and pages without waiting.                                 *)
MCSends == {Send("msg", 3, FALSE, FALSE, TRUE), Send("msg", 1, TRUE, FALSE, FALSE),
            Send("msg", 1, FALSE, TRUE, TRUE), Send("pages", 2, FALSE, FALSE, FALSE)}

(* Reads beyond SO_RCVLOWAT, a peek for all of its length, and the others.  *)
MCReads == {Read("recv", 3, FALSE, FALSE, TRUE), Read("recv", 3, TRUE, TRUE, TRUE),
            Read("recv", 2, FALSE, TRUE, FALSE), Read("splice", 2, FALSE, FALSE, TRUE),
            Read("oob", 1, FALSE, FALSE, FALSE), Read("map", 2, FALSE, FALSE, FALSE)}
=============================================================================
