----------------------------- MODULE MCTcpSocket -----------------------------
(* Values of the constants of TcpSocket for TLC; the rest is in the .cfg.   *)
EXTENDS TcpSocket

(* No FIN_WAIT2 at all, and more than the system's limit.                   *)
LingerValues == {-1, 5}
=============================================================================
