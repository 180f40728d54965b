------------------------------ MODULE Exchange ------------------------------
(***************************************************************************)
(* What sending a message promises the page that sends it: an answer is    *)
(* shown only of an exchange that is committed, and what was said is not   *)
(* taken back.  A failure promises nothing: the exchange may be committed, *)
(* or be committed yet.                                                    *)
(***************************************************************************)
VARIABLES
    kept,       \* the API: "open", "committed" or "rolledback"
    outcome     \* the page: "pending", "resolved" or "rejected"

Keep ==
    /\ kept = "open"
    /\ kept' \in {"committed", "rolledback"}
    /\ UNCHANGED outcome

Resolve ==
    /\ outcome = "pending"
    /\ kept = "committed"
    /\ outcome' = "resolved"
    /\ UNCHANGED kept

Reject ==
    /\ outcome = "pending"
    /\ outcome' = "rejected"
    /\ UNCHANGED kept

Init ==
    /\ kept = "open"
    /\ outcome = "pending"

Next == Keep \/ Resolve \/ Reject

Spec == Init /\ [][Next]_<<kept, outcome>>
=============================================================================
