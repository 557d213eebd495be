--------------------------- MODULE ReliableDelivery --------------------------
(***************************************************************************)
(* What a transfer promises, with no protocol: the frames of the file      *)
(* reach the receiver in any order and stay there; the receiver claims to  *)
(* have the entire file (GET_ALL_FILE) only when it has every frame; the   *)
(* sender believes the transfer over only after that claim.                *)
(***************************************************************************)
CONSTANT Frames

VARIABLES
    have,     \* frames the receiver holds, with the content the sender read
    claimed,  \* the receiver has reported the file complete
    confirmed \* the sender has ended the transfer

Init == have = {} /\ claimed = FALSE /\ confirmed = FALSE

Deliver(f) ==
    /\ have' = have \cup {f}
    /\ UNCHANGED <<claimed, confirmed>>

Claim ==
    /\ have = Frames
    /\ claimed' = TRUE
    /\ UNCHANGED <<have, confirmed>>

Confirm ==
    /\ claimed
    /\ confirmed' = TRUE
    /\ UNCHANGED <<have, claimed>>

Next == (\E f \in Frames : Deliver(f)) \/ Claim \/ Confirm

Spec == Init /\ [][Next]_<<have, claimed, confirmed>>
=============================================================================
