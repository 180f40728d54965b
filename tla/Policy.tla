------------------------------- MODULE Policy -------------------------------
(***************************************************************************)
(* The orchestration layer: the deterministic rules a structured intent    *)
(* passes before it may reach the help desk (PolicyValidator) and the      *)
(* command an accepted intent becomes (WorkflowEngine).                    *)
(*                                                                         *)
(* Text is abstracted to what the rules ask of it: a title or description  *)
(* is blank or not, an email is usable (it holds an "@" once normalised)   *)
(* or not, attachments are counted.  Confidence is in hundredths.          *)
(***************************************************************************)
EXTENDS Naturals

CONSTANT MaxAttachments   \* PolicyValidator.MAX_ATTACHMENTS

ASSUME MaxAttachmentsAssumption == MaxAttachments \in Nat

MinConfidence == 60

Unimplemented == {"UpdateTicket", "EscalateIssue", "CancelTicket"}
IntentName == {"CreateTicket", "CheckStatus", "AddAttachment"} \cup Unimplemented

\* A StructuredIntent.  "troubled" and "attempts" stand for the paragraph the
\* troubleshoot node appends to the description and the steps it lists.
Intent ==
    [ name       : IntentName \cup {"None"},
      confidence : Nat,
      titled     : BOOLEAN,
      described  : BOOLEAN,
      mailed     : BOOLEAN,
      target     : Nat,
      files      : Nat,
      troubled   : BOOLEAN,
      attempts   : Nat ]

NoIntent ==
    [ name |-> "None", confidence |-> 0, titled |-> FALSE, described |-> FALSE,
      mailed |-> FALSE, target |-> 0, files |-> 0, troubled |-> FALSE,
      attempts |-> 0 ]

-----------------------------------------------------------------------------
(***************************************************************************)
(* PolicyValidator.  The first rule that fails gives the reason code.      *)
(***************************************************************************)
ReasonCode ==
    { "LOW_CONFIDENCE", "MISSING_TITLE", "MISSING_DESCRIPTION",
      "MISSING_CUSTOMER_EMAIL", "TICKET_NOT_FOUND",
      "ATTACHMENT_COUNT_EXCEEDED" }

Verdict == ReasonCode \cup {"Approved", "None"}

ValidateAttachmentList(i) ==
    IF i.files > MaxAttachments THEN "ATTACHMENT_COUNT_EXCEEDED" ELSE "Approved"

\* Mutant: a ticket may be asked for without an address.
ValidateCreateTicket_AnyEmail(i, email) ==
    IF ~i.titled THEN "MISSING_TITLE"
    ELSE IF ~i.described THEN "MISSING_DESCRIPTION"
    ELSE ValidateAttachmentList(i)

\* The address of the session's user wins over the one in the payload.
ValidateCreateTicket(i, email) ==
    IF ~i.titled THEN "MISSING_TITLE"
    ELSE IF ~i.described THEN "MISSING_DESCRIPTION"
    ELSE IF ~email /\ ~i.mailed THEN "MISSING_CUSTOMER_EMAIL"
    ELSE ValidateAttachmentList(i)

ValidateAddAttachment(i) ==
    IF i.target = 0 THEN "TICKET_NOT_FOUND" ELSE ValidateAttachmentList(i)

\* The JSON schema rule is left out: an intent is built through the pydantic
\* models from an enumerated name, so no intent that arrives here fails it.
Validate(i, email) ==
    IF i.confidence < MinConfidence THEN "LOW_CONFIDENCE"
    ELSE IF i.name = "CreateTicket" THEN ValidateCreateTicket(i, email)
    ELSE IF i.name = "AddAttachment" THEN ValidateAddAttachment(i)
    ELSE "Approved"

-----------------------------------------------------------------------------
(***************************************************************************)
(* WorkflowEngine.  build_command raises for the intents nothing is        *)
(* implemented for, although the policy above lets them pass.              *)
(***************************************************************************)
CommandType == {"CreateTicket", "SearchTickets", "AddAttachment"}

Command ==
    [ type     : CommandType \cup {"None"},
      target   : Nat,
      files    : Nat,
      troubled : BOOLEAN,
      attempts : Nat ]

NoCommand ==
    [ type |-> "None", target |-> 0, files |-> 0, troubled |-> FALSE,
      attempts |-> 0 ]

Buildable(i) == i.name \notin Unimplemented

\* Mutant: every command is named after its intent.
BuildCommand_NamedByIntent(i) ==
    [ type |-> i.name, target |-> i.target, files |-> i.files,
      troubled |-> i.troubled, attempts |-> i.attempts ]

\* _check_status_command keeps only the query: files sent along are dropped.
BuildCommand(i) ==
    IF i.name = "CheckStatus"
    THEN [NoCommand EXCEPT !.type = "SearchTickets", !.target = i.target]
    ELSE [ type |-> i.name, target |-> i.target, files |-> i.files,
           troubled |-> i.troubled, attempts |-> i.attempts ]
=============================================================================
