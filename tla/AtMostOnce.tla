----------------------------- MODULE AtMostOnce -----------------------------
(***************************************************************************)
(* What a command sent to the help desk promises its caller: its effect    *)
(* happens at most once, "succeeded" is said only of an effect that has    *)
(* happened, and what was said is not taken back.  "failed" promises       *)
(* nothing: the effect may have happened, or happen yet.  A command that   *)
(* only asks is "answered".                                                *)
(***************************************************************************)
CONSTANTS
    Call,       \* commands that may be sent
    Effect      \* what they may do at the help desk: e is of the command e.call

VARIABLES
    done,       \* the effects that have happened
    outcome     \* Call -> what the caller was told

Submit(c) ==
    /\ outcome[c] = "unsent"
    /\ outcome' = [outcome EXCEPT ![c] = "pending"]
    /\ UNCHANGED done

Happen(e) ==
    /\ outcome[e.call] # "unsent"
    /\ \A d \in done : d.call # e.call
    /\ done' = done \cup {e}
    /\ UNCHANGED outcome

Report(c) ==
    /\ outcome[c] = "pending"
    /\ \E o \in {"succeeded", "failed", "answered"} :
          /\ o = "succeeded" => \E d \in done : d.call = c
          /\ outcome' = [outcome EXCEPT ![c] = o]
    /\ UNCHANGED done

Init ==
    /\ done = {}
    /\ outcome = [c \in Call |-> "unsent"]

Next ==
    \/ \E c \in Call : Submit(c) \/ Report(c)
    \/ \E e \in Effect : Happen(e)

Spec == Init /\ [][Next]_<<done, outcome>>
=============================================================================
