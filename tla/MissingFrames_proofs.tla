------------------------ MODULE MissingFrames_proofs -------------------------
(***************************************************************************)
(* missing_frame() is right for every sorted vector and every total_frame. *)
(***************************************************************************)
EXTENDS MissingFrames, TLAPS

USE InputAssumption

LEMMA InputFacts ==
    ASSUME NEW s \in Inputs
    PROVE  /\ Len(s) \in Nat \ {0}
           /\ \A k \in 1 .. Len(s) : s[k] \in Nat
           /\ \A j, k \in 1 .. Len(s) : j <= k => s[j] <= s[k]
    BY DEF Sorted

IInv == TypeOK /\ WalkInv /\ Correct

LEMMA InitInv == Init => IInv
<1> SUFFICES ASSUME Init PROVE IInv
    OBVIOUS
<1>1. rfs \in Inputs /\ Len(rfs) \in Nat \ {0}
    BY InputFacts DEF Init
<1>2. done \in BOOLEAN
    BY DEF Init
<1>3. TypeOK
    BY <1>1, <1>2 DEF Init, TypeOK
<1>4. WalkInv /\ Correct
    BY DEF Init, WalkInv, Correct
<1> QED
    BY <1>3, <1>4 DEF IInv

\* The step over one element: the gap below it is added, the element is not.
LEMMA ExtendGap ==
    ASSUME TypeOK, WalkInv, ~ done, i \in 1 .. Len(rfs), rfs' = rfs, i' = i + 1, done' = done,
           prev' = rfs[i],
           result' = (0 .. rfs[i]) \ {rfs[k] : k \in 1 .. i}
    PROVE  IInv'
<1>1. Handled' = {rfs[k] : k \in 1 .. i}
    BY DEF Handled, TypeOK
<1>2. rfs[i] \in Nat
    BY InputFacts DEF TypeOK
<1>3. TypeOK'
    BY <1>2, InputFacts DEF TypeOK
<1>4. WalkInv'
    BY <1>1, InputFacts DEF WalkInv, TypeOK
<1> QED
    BY <1>3, <1>4 DEF IInv, Correct

\* Elements handled so far do not exceed prev.
LEMMA HandledBelow ==
    ASSUME TypeOK, WalkInv, ~ done, i > 1, i <= Len(rfs)
    PROVE  /\ \A k \in 1 .. i - 1 : rfs[k] \in Nat /\ rfs[k] <= prev
           /\ rfs[i] \in Nat /\ prev <= rfs[i]
           /\ prev \in Handled
           /\ {rfs[k] : k \in 1 .. i} = Handled \cup {rfs[i]}
<1>1. /\ i \in 2 .. Len(rfs) /\ i - 1 \in 1 .. Len(rfs)
      /\ prev = rfs[i - 1]
    BY InputFacts DEF TypeOK, WalkInv
<1>2. \A j, k \in 1 .. Len(rfs) : j <= k => rfs[j] <= rfs[k]
    BY InputFacts DEF TypeOK
<1>3. \A k \in 1 .. Len(rfs) : rfs[k] \in Nat
    BY InputFacts DEF TypeOK
<1>4. Len(rfs) \in Nat
    BY InputFacts DEF TypeOK
<1> QED
    BY <1>1, <1>2, <1>3, <1>4 DEF Handled

LEMMA StepInv ==
    ASSUME IInv, [Next]_vars
    PROVE  IInv'
<1> USE DEF IInv
<1>f. /\ Len(rfs) \in Nat \ {0}
      /\ \A k \in 1 .. Len(rfs) : rfs[k] \in Nat
      /\ \A j, k \in 1 .. Len(rfs) : j <= k => rfs[j] <= rfs[k]
    BY InputFacts DEF TypeOK
<1>1. CASE First
    <2>1. i = 1 /\ prev = 0 /\ result = {} /\ rfs[1] \in Nat /\ rfs[1] > 0
        BY <1>1, <1>f DEF First, InLoop, WalkInv
    <2>2. {rfs[k] : k \in 1 .. i} = {rfs[1]}
        BY <2>1
    <2>3. result' = (0 .. rfs[i]) \ {rfs[k] : k \in 1 .. i}
        BY <1>1, <2>1, <2>2 DEF First
    <2> QED
        BY <1>1, <2>1, <2>3, <1>f, ExtendGap DEF First, InLoop, Advance
<1>2. CASE Again
    <2>1. CASE i = 1
        <3>1. prev = 0 /\ result = {} /\ rfs[1] = 0
            BY <1>2, <2>1 DEF Again, InLoop, WalkInv
        <3>2. result' = (0 .. rfs[i]) \ {rfs[k] : k \in 1 .. i}
            BY <1>2, <2>1, <3>1 DEF Again
        <3> QED
            BY <1>2, <2>1, <3>1, <3>2, <1>f, ExtendGap DEF Again, InLoop, Advance
    <2>2. CASE i > 1
        <3>1. result = (0 .. prev) \ Handled
            BY <1>2, <2>2 DEF Again, InLoop, WalkInv
        <3>2. result' = (0 .. rfs[i]) \ {rfs[k] : k \in 1 .. i}
            BY <1>2, <2>2, <3>1, HandledBelow DEF Again, InLoop
        <3> QED
            BY <1>2, <2>2, <3>2, <1>f, ExtendGap DEF Again, InLoop, Advance, TypeOK
    <2> QED
        BY <2>1, <2>2 DEF TypeOK
<1>3. CASE Gap \/ Successor
    <2>1. i > 1 /\ i \in 1 .. Len(rfs)
        BY <1>3, <1>f DEF Gap, Successor, InLoop, TypeOK, WalkInv
    <2>2. result = (0 .. prev) \ Handled
        BY <1>3, <2>1 DEF Gap, Successor, InLoop, WalkInv
    <2>3. prev \in Nat /\ rfs[i] \in Nat /\ prev + 1 <= rfs[i]
        BY <1>3, <1>f, <2>1 DEF Gap, Successor, TypeOK
    <2>4. result' = result \cup (prev + 1 .. rfs[i] - 1)
        BY <1>3, <2>3 DEF Gap, Successor
    <2>5. /\ \A k \in 1 .. i - 1 : rfs[k] \in Nat /\ rfs[k] <= prev
          /\ {rfs[k] : k \in 1 .. i} = Handled \cup {rfs[i]}
        BY <1>3, <2>1, HandledBelow DEF Gap, Successor, InLoop
    <2>6. \A h \in Handled : h \in Nat /\ h <= prev
        BY <2>5 DEF Handled
    <2>7. result' = (0 .. rfs[i]) \ {rfs[k] : k \in 1 .. i}
        BY <2>2, <2>3, <2>4, <2>5, <2>6
    <2> QED
        BY <1>3, <2>1, <2>7, ExtendGap DEF Gap, Successor, InLoop, Advance
<1>4. CASE Trailing
    <2> DEFINE last == rfs[Len(rfs)]
    <2>1. i = Len(rfs) + 1 /\ last \in Nat
        BY <1>4, <1>f DEF Trailing, TypeOK
    <2>2. result = (0 .. last) \ Received /\ prev = last
        BY <1>4, <1>f, <2>1 DEF Trailing, WalkInv, Handled, Received
    <2>3. \A g \in Received : g \in Nat /\ g <= last
        BY <1>f DEF Received
    <2>4. last \in Received
        BY <1>f DEF Received
    <2>5. Lacking(total_frame, Received) =
             (0 .. IF last < total_frame THEN total_frame ELSE last) \ Received
        BY <2>1, <2>3, <2>4 DEF Lacking
    <2>6. result' = Lacking(total_frame, Received)
        BY <1>4, <2>1, <2>2, <2>3, <2>5 DEF Trailing
    <2>7. result' \subseteq Nat
        BY <2>6, <2>5, <2>1
    <2> QED
        BY <1>4, <2>6, <2>7 DEF Trailing, TypeOK, WalkInv, Correct, Received
<1>5. CASE UNCHANGED vars
    BY <1>5 DEF vars, TypeOK, WalkInv, Correct, Received, Handled
<1> QED
    BY <1>1, <1>2, <1>3, <1>4, <1>5 DEF Next

\* missing_frame() returns Lacking(total_frame, received), for every input.
THEOREM MissingFrameCorrect == Spec => []Correct
<1>1. IInv => Correct
    BY DEF IInv
<1> QED
    BY <1>1, InitInv, StepInv, PTL DEF Spec
=============================================================================
