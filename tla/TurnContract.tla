---------------------------- MODULE TurnContract ----------------------------
(***************************************************************************)
(* What a whole turn of the support graph may make of the session it was   *)
(* started for: the contract between SupportGraph, which keeps it, and     *)
(* ChatService, which relies on it.                                        *)
(*                                                                         *)
(* A turn begins with the knowledge base on or off, a troubleshoot status, *)
(* an active ticket (0: none) and the tickets that exist.  It ends with a  *)
(* status, the number of a ticket it filed (0: none), the active ticket it *)
(* reports, whether the ticket it filed has the troubleshooting record,    *)
(* and the deflection outcome it notes.                                    *)
(***************************************************************************)
EXTENDS Naturals

TsStatus == {"none", "guiding", "skipped", "resolved", "escalated"}

\* The steps a troubleshoot status may take within a turn.
TsFlow ==
    {<<s, s>> : s \in TsStatus}
    \cup {<<"none", "guiding">>, <<"none", "skipped">>, <<"none", "escalated">>,
          <<"guiding", "resolved">>, <<"guiding", "escalated">>}

Closed == {"skipped", "resolved", "escalated"}

\* The status moves forward, with the knowledge base on and no active ticket.
StatusMoves(b, e) ==
    /\ <<b.status, e.status>> \in TsFlow
    /\ b.status # e.status => b.kb /\ b.active = 0

\* An outcome is noted by the turn that reaches it, and by no other.
OutcomeNoted(b, e) ==
    e.outcome = IF b.status # e.status /\ e.status \in {"resolved", "escalated"}
                THEN e.status ELSE "None"

\* The record is in a ticket exactly if the turn that files it escalated.
RecordEnclosed(b, e) ==
    e.troubled = (e.made # 0 /\ e.outcome = "escalated")

\* Self-help comes first, and a turn it ends well or leaves open does nothing
\* at the help desk.
SelfHelpHolds(b, e) ==
    /\ (b.kb /\ b.active = 0 /\ e.made # 0) => e.status \in Closed
    /\ (b.kb /\ e.status = "guiding") \/ e.outcome = "resolved"
           => e.made = 0 /\ e.active = b.active

\* A turn that files a ticket reports it, unless the help desk's answer was
\* lost; one that asked for a ticket and got none finds no other.
OwnTicketReported(b, e) ==
    (e.made # 0 \/ e.outcome = "escalated") => e.active \in {b.active, e.made}

MayEnd(b, e) ==
    /\ StatusMoves(b, e)
    /\ OutcomeNoted(b, e)
    /\ RecordEnclosed(b, e)
    /\ SelfHelpHolds(b, e)
    /\ OwnTicketReported(b, e)

\* The ends of a turn that finds n tickets when it reaches the help desk.
TurnEnds(b, n) ==
    { e \in [ status : TsStatus, made : {0, n + 1}, active : 0..n + 1,
              troubled : BOOLEAN, outcome : {"None", "resolved", "escalated"} ] :
        /\ MayEnd(b, e)
        /\ e.active = n + 1 => e.made = n + 1 }
=============================================================================
