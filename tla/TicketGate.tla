----------------------------- MODULE TicketGate -----------------------------
(***************************************************************************)
(* What the support graph promises about tickets, with everything else     *)
(* taken away.  Each turn has a gate:                                      *)
(*                                                                         *)
(*   closed   no turn runs                                                 *)
(*   open     the turn may ask for a ticket                                *)
(*   held     self-help owns the turn: no ticket                           *)
(*   cleared  the policy accepted a CreateTicket command                   *)
(*   spent    the ticket is filed; the turn files no other                 *)
(*                                                                         *)
(* A ticket is filed through a cleared gate only, one for each clearance,  *)
(* and a held gate has to be released before it can be cleared.            *)
(***************************************************************************)
EXTENDS Naturals

CONSTANT Thread

VARIABLES
    gate,       \* Thread -> position of the turn's gate
    filed       \* number of tickets filed

Begin(t) ==
    /\ gate[t] = "closed"
    /\ \E g \in {"open", "held"} : gate' = [gate EXCEPT ![t] = g]
    /\ UNCHANGED filed

\* Guidance is presented.
Hold(t) ==
    /\ gate[t] = "open"
    /\ gate' = [gate EXCEPT ![t] = "held"]
    /\ UNCHANGED filed

\* The user says it did not help, or asks for a ticket.
Release(t) ==
    /\ gate[t] = "held"
    /\ gate' = [gate EXCEPT ![t] = "open"]
    /\ UNCHANGED filed

Clear(t) ==
    /\ gate[t] = "open"
    /\ gate' = [gate EXCEPT ![t] = "cleared"]
    /\ UNCHANGED filed

File(t) ==
    /\ gate[t] = "cleared"
    /\ gate' = [gate EXCEPT ![t] = "spent"]
    /\ filed' = filed + 1

Close(t) ==
    /\ gate[t] # "closed"
    /\ gate' = [gate EXCEPT ![t] = "closed"]
    /\ UNCHANGED filed

Init ==
    /\ gate = [t \in Thread |-> "closed"]
    /\ filed = 0

Next ==
    \E t \in Thread :
        Begin(t) \/ Hold(t) \/ Release(t) \/ Clear(t) \/ File(t) \/ Close(t)

Spec == Init /\ [][Next]_<<gate, filed>>
=============================================================================
