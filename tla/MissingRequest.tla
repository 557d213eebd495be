---------------------------- MODULE MissingRequest ---------------------------
(***************************************************************************)
(* request_to_resend_missing_frame(): the loop that packs the missing      *)
(* frame numbers into packets.  send_string holds the decimal numbers,     *)
(* each followed by a comma; a packet carries it without the last comma.   *)
(* The string is modelled by the numbers in it and its length.             *)
(* Line numbers are those of src_client/udp_client.cpp.                    *)
(***************************************************************************)
EXTENDS Integers, Sequences

CONSTANTS
    DATABUFFER_SIZE, \* packet.h:9, what dataBuffer holds, the final NUL included
    Digits,          \* the length of to_string() of each frame number
    Inputs           \* the missing_frame_sequence sets to pack

ASSUME RequestAssumption ==
    /\ DATABUFFER_SIZE \in Nat
    /\ \A S \in Inputs : S # {} /\ S \subseteq Nat
    /\ \A S \in Inputs : \A f \in S : Digits[f] \in 1 .. DATABUFFER_SIZE - 1

VARIABLES
    missing, \* missing_frame_sequence
    rest,    \* what the iterator has still to visit
    held,    \* the numbers in send_string
    len,     \* send_string.length()
    sent,    \* the packets sent so far
    done

vars == <<missing, rest, held, len, sent, done>>

Init ==
    /\ missing \in Inputs
    /\ rest = missing /\ held = {} /\ len = 0 /\ sent = <<>> /\ done = FALSE

\* A std::set is visited in ascending order.
IsNext(f) == f \in rest /\ \A g \in rest : f <= g

\* pop_back() and send_packet().
SendString(type) ==
    sent' = Append(sent, [type |-> type, frames |-> held, size |-> len - 1])

\* Line 489: the comma to come is not counted.
\* Mutant: compared with the size of the buffer.
Fits_wholeBuffer(f) == len + Digits[f] <= DATABUFFER_SIZE
Fits(f) == len + Digits[f] <= DATABUFFER_SIZE - 1

\* Lines 489-491.
AppendNumber(f) ==
    /\ ~ done /\ IsNext(f) /\ Fits(f)
    /\ held' = held \cup {f}
    /\ len' = len + Digits[f] + 1
    /\ rest' = rest \ {f}
    /\ UNCHANGED <<missing, sent, done>>

\* Lines 492-497.
\* Mutant: the string restarts empty and the number at hand is forgotten.
Flush_forgets(f) ==
    /\ ~ done /\ IsNext(f) /\ ~ Fits(f)
    /\ SendString("SEND_MISSING")
    /\ held' = {} /\ len' = 0
    /\ rest' = rest \ {f}
    /\ UNCHANGED <<missing, done>>
\* Mutant: the string is sent and then extended, not restarted.
Flush_keeps(f) ==
    /\ ~ done /\ IsNext(f) /\ ~ Fits(f)
    /\ SendString("SEND_MISSING")
    /\ held' = held \cup {f}
    /\ len' = len + Digits[f] + 1
    /\ rest' = rest \ {f}
    /\ UNCHANGED <<missing, done>>
Flush(f) ==
    /\ ~ done /\ IsNext(f) /\ ~ Fits(f)
    /\ SendString("SEND_MISSING")
    /\ held' = {f}
    /\ len' = Digits[f] + 1
    /\ rest' = rest \ {f}
    /\ UNCHANGED <<missing, done>>

\* Lines 499-500.
Finish ==
    /\ ~ done /\ rest = {}
    /\ SendString("SEND_MISSING_DONE")
    /\ done' = TRUE
    /\ UNCHANGED <<missing, rest, held, len>>

Next == (\E f \in rest : AppendNumber(f) \/ Flush(f)) \/ Finish

Spec == Init /\ [][Next]_vars

Packets == [type : {"SEND_MISSING", "SEND_MISSING_DONE"}, frames : SUBSET Nat, size : Int]

\* Types of the loop's variables; send_string never grows beyond the size of
\* the buffer it will be copied to, its last comma included.
TypeOK ==
    /\ missing \in Inputs
    /\ rest \subseteq missing /\ held \subseteq missing
    /\ len \in 0 .. DATABUFFER_SIZE
    /\ sent \in Seq(Packets)
    /\ done \in BOOLEAN

\* strcpy() of the text and its NUL fits into dataBuffer, and no text is
\* empty: pop_back() is never called on an empty string, and the sender never
\* calls stoi("").
FitsBuffer ==
    \A k \in 1 .. Len(sent) :
        sent[k].size \in 1 .. DATABUFFER_SIZE - 1 /\ sent[k].frames # {}

\* Every missing frame is asked for, and in one packet only: the packets'
\* numbers ascend from one packet to the next.
AllAskedOnce ==
    /\ done => UNION {sent[k].frames : k \in 1 .. Len(sent)} = missing
    /\ \A j, k \in 1 .. Len(sent) : j < k =>
           \A f \in sent[j].frames, g \in sent[k].frames : f < g
=============================================================================
