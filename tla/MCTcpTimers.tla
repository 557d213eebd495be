----------------------------- MODULE MCTcpTimers -----------------------------
(* Values of the constants of TcpTimers for TLC are in the .cfg files.      *)
EXTENDS TcpTimers
=============================================================================
