---------------------------- MODULE MissingFrames ----------------------------
(***************************************************************************)
(* missing_frame(): the walk over the sorted receive_file_sequence that    *)
(* collects the frame numbers to ask for again.  One action per branch of  *)
(* the loop body; rfs holds repeated numbers once per time received, since *)
(* receive_file_sequence is a vector.                                      *)
(***************************************************************************)
EXTENDS FrameSets, Sequences, FiniteSets

CONSTANTS
    total_frame, \* the number of frames announced by the sender
    Inputs       \* the sorted vectors to walk

Sorted(s) == \A i, j \in 1 .. Len(s) : i <= j => s[i] <= s[j]

ASSUME InputAssumption ==
    /\ total_frame \in Nat
    /\ Inputs \subseteq Seq(Nat)
    /\ \A s \in Inputs : Sorted(s) /\ Len(s) > 0

VARIABLES
    rfs,    \* receive_file_sequence, sorted
    i,      \* position of the next element
    prev,   \* the last element handled
    result, \* missing_frame_set
    done

vars == <<rfs, i, prev, result, done>>

Init == rfs \in Inputs /\ i = 1 /\ prev = 0 /\ result = {} /\ done = FALSE

\* Line 454.
InLoop == ~ done /\ i <= Len(rfs)

\* Mutant: i is incremented in the body as well as by the for statement.
Advance_twice ==
    /\ i' = i + 2
    /\ UNCHANGED <<rfs, done>>
Advance ==
    /\ i' = i + 1
    /\ UNCHANGED <<rfs, done>>

\* Lines 455-461, i == 0 in the code: the frames before the first received one.
First ==
    /\ InLoop /\ i = 1 /\ rfs[i] > prev
    /\ result' = result \cup (prev .. rfs[i] - 1)
    /\ prev' = rfs[i]
    /\ Advance

\* Line 462.
Again ==
    /\ InLoop /\ rfs[i] = prev
    /\ UNCHANGED <<prev, result>>
    /\ Advance

\* Lines 463-469.
\* Mutant: the gap starts at the frame already received.
Gap_closed ==
    /\ InLoop /\ ~ (i = 1 /\ rfs[i] > prev) /\ prev + 1 < rfs[i]
    /\ result' = result \cup (prev .. rfs[i] - 1)
    /\ prev' = rfs[i]
    /\ Advance
Gap ==
    /\ InLoop /\ ~ (i = 1 /\ rfs[i] > prev) /\ prev + 1 < rfs[i]
    /\ result' = result \cup (prev + 1 .. rfs[i] - 1)
    /\ prev' = rfs[i]
    /\ Advance

\* Lines 470-472.
Successor ==
    /\ InLoop /\ ~ (i = 1 /\ rfs[i] > prev) /\ prev + 1 = rfs[i]
    /\ prev' = rfs[i]
    /\ UNCHANGED result
    /\ Advance

\* Lines 474-478: the frames after the last one, total_frame included.
\* Mutant: k < total_frame.
Trailing_below ==
    /\ ~ done /\ i > Len(rfs)
    /\ result' = result \cup (rfs[Len(rfs)] + 1 .. total_frame - 1)
    /\ done' = TRUE
    /\ UNCHANGED <<rfs, i, prev>>
Trailing ==
    /\ ~ done /\ i > Len(rfs)
    /\ result' = IF rfs[Len(rfs)] < total_frame
                 THEN result \cup (rfs[Len(rfs)] + 1 .. total_frame)
                 ELSE result
    /\ done' = TRUE
    /\ UNCHANGED <<rfs, i, prev>>

Next == First \/ Again \/ Gap \/ Successor \/ Trailing

Spec == Init /\ [][Next]_vars

Received == {rfs[k] : k \in 1 .. Len(rfs)}
Handled == {rfs[k] : k \in 1 .. i - 1}

\* Types of the loop's variables.
TypeOK ==
    /\ rfs \in Inputs
    /\ i \in 1 .. Len(rfs) + 1
    /\ prev \in Nat
    /\ result \subseteq Nat
    /\ done \in BOOLEAN

\* In the middle of the walk the set holds exactly the numbers below the last
\* element handled that were not received, whatever was repeated or skipped.
WalkInv ==
    ~ done => /\ i = 1 => prev = 0 /\ result = {}
              /\ i > 1 => prev = rfs[i - 1] /\ result = (0 .. prev) \ Handled

\* missing_frame() returns the set that receive_file() relies on: every frame
\* not received, and total_frame.
Correct == done => result = Lacking(total_frame, Received)
=============================================================================
