------------------------------ MODULE MCSession ------------------------------
(* Values of the constants of Session for TLC. *)
EXTENDS Session

FourClients == [c1 |-> "upload", c2 |-> "upload", c3 |-> "download", c4 |-> "download"]
OneOther == [c \in Clients |-> IF c = "c4" THEN "g" ELSE "f"]
SameLength == [n \in Names |-> 1]
TwoAtOnce == [c1 |-> {}, c2 |-> {"c4"}, c3 |-> {"c1"}, c4 |-> {}]
TwoDownloads == [c1 |-> "download", c2 |-> "download"]
TwoFiles == [c1 |-> "f", c2 |-> "g"]
AtOnce == [c \in Clients |-> {}]
Bursts == [a \in Peers |-> IF a = "server" THEN 2 ELSE 1]

\* Clients one at a time, in every order, but for the downloads of a file that
\* comes with an upload; LongBursts leave acknowledgements of every session in
\* the buffer of the server.
InTurn ==
    [c1 |-> "download", c2 |-> "upload", c3 |-> "message", c4 |-> "download",
     c5 |-> "upload", c6 |-> "upload", c7 |-> "download"]
FilesInTurn == [c \in Clients |-> IF c \in {"c1", "c7"} THEN "g" ELSE "f"]
DownloadLater == [c \in Clients |-> IF c = "c4" THEN {"c2"} ELSE {}]
LongBursts == [a \in Peers |-> IF a = "server" THEN 4 ELSE 3]
=============================================================================
