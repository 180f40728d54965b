---------------------------- MODULE SupportGraph ----------------------------
(***************************************************************************)
(* One chat turn through the LangGraph support graph:                      *)
(*                                                                         *)
(*   conversation -> troubleshoot -> orchestrate -> ticket_tool -> respond *)
(*                                                                         *)
(* A thread runs one turn at a time.  state[t] is the SupportGraphState of *)
(* the turn thread t runs; a node is an action that merges the keys it     *)
(* returns into state[t] and moves pc along the conditional edge, as       *)
(* LangGraph does.  The language model, the retrieval and the help desk    *)
(* answer nondeterministically.  tickets is what the help desk holds.      *)
(*                                                                         *)
(* The session a turn belongs to is the environment: a turn starts with    *)
(* any troubleshoot progress and any active ticket a session can hold.     *)
(***************************************************************************)
EXTENDS Policy, TurnContract, Integers, Sequences

CONSTANTS
    Thread,         \* turns that may run at the same time
    FileCounts,     \* numbers of files a message may carry
    MaxSteps,       \* KB_MAX_TROUBLESHOOT_STEPS
    Confidences,    \* confidences a model may claim, in hundredths
    MaxTickets      \* bound: tickets the help desk accepts in a behaviour

ASSUME FileCountsAssumption == FileCounts \subseteq Nat
ASSUME ConfidencesAssumption == Confidences \subseteq Nat
ASSUME MaxStepsAssumption == MaxSteps \in Nat \ {0}
ASSUME MaxTicketsAssumption == MaxTickets \in Nat

VARIABLES
    state,      \* Thread -> State, the graph state of the thread's turn
    tickets     \* the tickets that exist in the help desk, in creation order

vars == <<state, tickets>>

-----------------------------------------------------------------------------
(***************************************************************************)
(* Data                                                                    *)
(***************************************************************************)
NoTicket == 0       \* a ticket number is its position in tickets

Ticket == [files : Nat, troubled : BOOLEAN, attempts : Nat]

\* The troubleshoot dictionary: steps presented, attempts recorded.
Troubleshooting == [status : TsStatus, steps : Nat, attempts : Nat]

NoTroubleshooting == [status |-> "none", steps |-> 0, attempts |-> 0]

\* The troubleshoot dictionaries a finished turn can leave behind.
SessionTroubleshooting ==
    {NoTroubleshooting, [NoTroubleshooting EXCEPT !.status = "skipped"],
     [NoTroubleshooting EXCEPT !.status = "escalated"]}
    \cup [status : {"guiding"}, steps : 1..MaxSteps, attempts : {0}]
    \cup {[status |-> r, steps |-> n, attempts |-> n] :
              r \in {"resolved", "escalated"}, n \in 1..MaxSteps}

Card == [type : {"None", "ticket_created", "ticket_status"}, number : Nat]
NoCard == [type |-> "None", number |-> NoTicket]

Deflection == [outcome : {"None", "resolved", "escalated"}, steps : Nat]
NoDeflection == [outcome |-> "None", steps |-> 0]

\* What the assistant says, by the line of code that words it.
Reply == { "None", "Clarify", "Apology", "Guidance", "Confirm", "Resolved",
           "Rejected", "Unconfigured", "Failed", "Attached", "Found", "Choose",
           "NotFound", "Created", "Status", "Default" }

Node == {"conversation", "troubleshoot", "orchestrate", "ticket_tool", "respond"}

\* The keys of SupportGraphState, and below them what the properties remember
\* of the turn: the status it began with, the ticket it made in the help desk and the files it delivered there.
State ==
    [ pc         : Node \cup {"idle", "done", "raised", "cancelled"},
      kb         : BOOLEAN,             \* kb_rag_enabled
      email      : BOOLEAN,             \* user_email is an address
      files      : Nat,                 \* pending_attachments
      ts         : Troubleshooting,     \* troubleshoot
      active     : Nat,                 \* active_ticket_number
      intent     : Intent,              \* structured_intent
      issue      : BOOLEAN,             \* is_support_issue
      clarify    : BOOLEAN,             \* needs_clarification
      reply      : Reply,               \* assistant_reply
      verdict    : Verdict,             \* orchestration_result
      command    : Command,             \* approved_command
      card       : Card,                \* ui_card
      deflection : Deflection,          \* troubleshoot_deflection
      began      : [status : TsStatus, active : Nat],
      made       : Nat,
      sent       : Nat ]

\* _initial_state: the keys a turn is invoked with, every other key absent.
FreshTurn(kb, email, files, ts, active) ==
    [ pc |-> "conversation", kb |-> kb, email |-> email, files |-> files,
      ts |-> ts, active |-> active, intent |-> NoIntent, issue |-> FALSE,
      clarify |-> FALSE, reply |-> "None", verdict |-> "None",
      command |-> NoCommand, card |-> NoCard, deflection |-> NoDeflection,
      began |-> [status |-> ts.status, active |-> active],
      made |-> NoTicket, sent |-> 0 ]

Idle == [FreshTurn(FALSE, FALSE, 0, NoTroubleshooting, NoTicket) EXCEPT !.pc = "idle"]

IsCreate(s) == s.intent.name = "CreateTicket"

-----------------------------------------------------------------------------
(***************************************************************************)
(* Conditional edges                                                       *)
(***************************************************************************)

\* Mutant: a ready intent is served before self-help is looked at.
RouteAfterConversation_ReadyFirst(s) ==
    IF ~s.clarify /\ s.intent # NoIntent THEN "orchestrate"
    ELSE IF s.kb /\ s.active = NoTicket /\ s.ts.status \in {"none", "guiding"} /\ s.issue
         THEN "troubleshoot"
    ELSE "respond"

RouteAfterConversation(s) ==
    IF s.kb /\ s.ts.status = "guiding" THEN "troubleshoot"
    ELSE IF /\ s.kb
            /\ s.active = NoTicket
            /\ s.ts.status \notin {"skipped", "resolved", "escalated"}
            /\ s.issue \/ IsCreate(s)
         THEN "troubleshoot"
    ELSE IF s.clarify \/ s.intent = NoIntent THEN "respond"
    ELSE "orchestrate"

\* Mutant: an unclear answer is asked about again in the same turn.
RouteAfterTroubleshoot_AskAgain(s) ==
    IF s.ts.status = "guiding" THEN "conversation"
    ELSE IF s.ts.status = "escalated" THEN "orchestrate"
    ELSE "respond"

RouteAfterTroubleshoot(s) ==
    IF s.ts.status \in {"guiding", "resolved"} THEN "respond"
    ELSE IF s.ts.status = "escalated" THEN "orchestrate"
    ELSE IF s.clarify \/ s.intent = NoIntent THEN "respond"
    ELSE "orchestrate"

RouteAfterOrchestrate(s) ==
    IF s.verdict = "Approved" /\ s.command.type \in CommandType
    THEN "ticket_tool"
    ELSE "respond"

\* A node returned: s holds the merged keys, the edge leads to node.
Goto(t, s, node) == state' = [state EXCEPT ![t] = [s EXCEPT !.pc = node]]

-----------------------------------------------------------------------------
(***************************************************************************)
(* conversation                                                            *)
(***************************************************************************)

\* analysis_to_result: float(analysis.confidence or 0.85), so a claimed zero
\* counts as a missing one.
Effective(claim) == IF claim = 0 THEN 85 ELSE claim

\* What a ready analysis may say.  A blank description is replaced by the
\* title, so the two are blank together; the address of the session, if there
\* is one, is in the payload.  A target is a ticket number, known or not.
Analysis(s) ==
    [name : {"CreateTicket"}, worded : BOOLEAN, target : {NoTicket},
     mailed : IF s.email THEN {TRUE} ELSE BOOLEAN]
    \cup [name : {"CheckStatus", "AddAttachment"}, worded : {FALSE},
          target : 0..Len(tickets) + 1, mailed : {FALSE}]
    \cup [name : Unimplemented, worded : {FALSE}, target : {NoTicket}, mailed : {FALSE}]

\* The intent it becomes; the files of the message are merged into its payload.
Proposal(s, claim, analysis) ==
    [NoIntent EXCEPT !.name = analysis.name, !.confidence = Effective(claim),
                     !.files = s.files, !.titled = analysis.worded,
                     !.described = analysis.worded, !.mailed = analysis.mailed,
                     !.target = analysis.target]

\* Files for a session with an active ticket need no model.
ConversationBypass(t) ==
    LET s == state[t]
        n == [s EXCEPT !.intent = [NoIntent EXCEPT !.name = "AddAttachment",
                                                   !.confidence = 95,
                                                   !.target = s.active,
                                                   !.files = s.files],
                       !.clarify = FALSE]
    IN  /\ s.pc = "conversation"
        /\ s.files > 0 /\ s.active # NoTicket
        /\ Goto(t, n, RouteAfterConversation(n))
        /\ UNCHANGED tickets

\* The model proposes an intent.
ConversationIntent(t) ==
    LET s == state[t] IN
    /\ s.pc = "conversation"
    /\ s.files = 0 \/ s.active = NoTicket
    /\ \E claim \in Confidences, issue \in BOOLEAN, analysis \in Analysis(s) :
          LET n == [s EXCEPT !.intent = Proposal(s, claim, analysis),
                             !.issue = issue, !.clarify = FALSE]
          IN  Goto(t, n, RouteAfterConversation(n))
    /\ UNCHANGED tickets

\* The model has no intent yet: it asks back (its text may be empty), or the
\* call raised and the apology stands in.  While guiding owns the turn the
\* text is dropped.
ConversationClarify(t) ==
    LET s == state[t] IN
    /\ s.pc = "conversation"
    /\ s.files = 0 \/ s.active = NoTicket
    /\ \E text \in {"Clarify", "None", "Apology"}, issue \in BOOLEAN :
          LET n == [s EXCEPT !.issue = issue,
                             !.clarify = TRUE,
                             !.reply = IF s.ts.status = "guiding" THEN @ ELSE text]
          IN  /\ text = "Apology" => ~issue
              /\ Goto(t, n, RouteAfterConversation(n))
    /\ UNCHANGED tickets

-----------------------------------------------------------------------------
(***************************************************************************)
(* troubleshoot                                                            *)
(***************************************************************************)

\* The synthesised intent has a title, a description and the user's address;
\* it does not take over the files of the message.
EnsureCreateTicketIntent(s) ==
    IF IsCreate(s) THEN s.intent
    ELSE [NoIntent EXCEPT !.name = "CreateTicket", !.confidence = 90,
                          !.titled = TRUE, !.described = TRUE, !.mailed = s.email]

\* Mutant: the steps are read before this turn's are recorded.
Escalate_EarlyRead(s, attempts) ==
    [s EXCEPT !.ts.status = "escalated", !.ts.attempts = attempts,
              !.intent = [EnsureCreateTicketIntent(s) EXCEPT
                             !.described = TRUE, !.troubled = TRUE,
                             !.attempts = s.ts.attempts],
              !.clarify = FALSE, !.reply = "None",
              !.deflection = [outcome |-> "escalated", steps |-> attempts]]

\* Mutant: the outcome is noted, the status is not moved.
Escalate_StatusKept(s, attempts) ==
    [s EXCEPT !.ts.attempts = attempts,
              !.intent = EnsureCreateTicketIntent(s),
              !.clarify = FALSE, !.reply = "None",
              !.deflection = [outcome |-> "escalated", steps |-> attempts]]

\* _escalate: the intent gets the troubleshooting paragraph, a leftover
\* clarification is cleared, the deflection outcome is noted.
Escalate(s, attempts) ==
    [s EXCEPT !.ts.status = "escalated",
              !.ts.attempts = attempts,
              !.intent = [EnsureCreateTicketIntent(s) EXCEPT
                             !.described = TRUE, !.troubled = TRUE,
                             !.attempts = attempts],
              !.clarify = FALSE,
              !.reply = "None",
              !.deflection = [outcome |-> "escalated", steps |-> attempts]]

\* The node returns nothing for a session that works on a ticket.  (The other
\* early return, no support issue and no CreateTicket intent, is cut off by
\* the edge that leads here.)
TroubleshootPass(t) ==
    LET s == state[t] IN
    /\ s.pc = "troubleshoot"
    /\ s.active # NoTicket
    /\ Goto(t, s, RouteAfterTroubleshoot(s))
    /\ UNCHANGED tickets

Engages(s, guiding) ==
    /\ s.pc = "troubleshoot"
    /\ s.active = NoTicket
    /\ (s.ts.status = "guiding") = guiding

\* _continue_guiding: the reply says it worked ...
GuideResolved(t) ==
    LET s == state[t]
        attempts == s.ts.attempts + s.ts.steps
        n == [s EXCEPT !.ts.status = "resolved",
                       !.ts.attempts = attempts,
                       !.reply = "Resolved",
                       !.clarify = TRUE,
                       !.deflection = [outcome |-> "resolved", steps |-> attempts]]
    IN  /\ Engages(s, TRUE)
        /\ Goto(t, n, RouteAfterTroubleshoot(n))
        /\ UNCHANGED tickets

\* ... or that it failed, or asks for a ticket: escalated at once ...
GuideFailed(t) ==
    LET s == state[t]
        n == Escalate(s, s.ts.attempts + s.ts.steps)
    IN  /\ Engages(s, TRUE)
        /\ Goto(t, n, RouteAfterTroubleshoot(n))
        /\ UNCHANGED tickets

\* ... or neither, and the user is asked again.
GuideUnclear(t) ==
    LET s == state[t]
        n == [s EXCEPT !.reply = "Confirm", !.clarify = TRUE]
    IN  /\ Engages(s, TRUE)
        /\ Goto(t, n, RouteAfterTroubleshoot(n))
        /\ UNCHANGED tickets

\* _begin_troubleshoot: the message asks for a ticket or a person ...
BeginEscalated(t) ==
    LET s == state[t]
        n == Escalate(s, 0)
    IN  /\ Engages(s, FALSE)
        /\ Goto(t, n, RouteAfterTroubleshoot(n))
        /\ UNCHANGED tickets

\* ... or no handbook section can be presented ...
BeginSkipped(t) ==
    LET s == state[t]
        n == [s EXCEPT !.ts.status = "skipped"]
    IN  /\ Engages(s, FALSE)
        /\ Goto(t, n, RouteAfterTroubleshoot(n))
        /\ UNCHANGED tickets

\* ... or validated guidance, or one extracted section, is.
BeginGuiding(t) ==
    LET s == state[t] IN
    /\ Engages(s, FALSE)
    /\ \E steps \in 1..MaxSteps :
          LET n == [s EXCEPT !.ts = [status |-> "guiding", steps |-> steps,
                                     attempts |-> 0],
                             !.reply = "Guidance",
                             !.clarify = TRUE]
          IN  Goto(t, n, RouteAfterTroubleshoot(n))
    /\ UNCHANGED tickets

-----------------------------------------------------------------------------
(***************************************************************************)
(* orchestrate.  OrchestrateHasIntent below says why the node's first      *)
(* test, for a missing intent, never succeeds.                             *)
(***************************************************************************)
OrchestrateReject(t) ==
    LET s == state[t]
        n == [s EXCEPT !.verdict = Validate(s.intent, s.email),
                       !.reply = "Rejected",
                       !.clarify = TRUE]
    IN  /\ s.pc = "orchestrate"
        /\ n.verdict # "Approved"
        /\ Goto(t, n, RouteAfterOrchestrate(n))
        /\ UNCHANGED tickets

OrchestrateApprove(t) ==
    LET s == state[t]
        n == [s EXCEPT !.verdict = "Approved", !.command = BuildCommand(s.intent)]
    IN  /\ s.pc = "orchestrate"
        /\ Validate(s.intent, s.email) = "Approved"
        /\ Buildable(s.intent)
        /\ Goto(t, n, RouteAfterOrchestrate(n))
        /\ UNCHANGED tickets

\* build_command raises and the exception leaves the graph.
OrchestrateRaise(t) ==
    LET s == state[t] IN
    /\ s.pc = "orchestrate"
    /\ Validate(s.intent, s.email) = "Approved"
    /\ ~Buildable(s.intent)
    /\ Goto(t, s, "raised")
    /\ UNCHANGED tickets

-----------------------------------------------------------------------------
(***************************************************************************)
(* ticket_tool.  The provider may execute a request and the answer be lost *)
(* (every retry timed out, or the response did not parse): the user is     *)
(* told it failed.  It refuses a ticket beyond MaxTickets, the bound.      *)
(***************************************************************************)
CallFailed(s) == [s EXCEPT !.reply = "Failed", !.clarify = TRUE]

ToolUnconfigured(t) ==
    LET n == [state[t] EXCEPT !.reply = "Unconfigured", !.clarify = TRUE] IN
    /\ state[t].pc = "ticket_tool"
    /\ Goto(t, n, "respond")
    /\ UNCHANGED tickets

\* The request was refused, never arrived, or names a ticket that is unknown.
ToolError(t) ==
    /\ state[t].pc = "ticket_tool"
    /\ Goto(t, CallFailed(state[t]), "respond")
    /\ UNCHANGED tickets

NewTicket(command) ==
    [files |-> command.files, troubled |-> command.troubled,
     attempts |-> command.attempts]

FileTicket(command) == Append(tickets, NewTicket(command))

\* The help desk files the ticket.  If the answer arrives, the card and the
\* active ticket are its number; what the properties remember is set anyway.
CreateTicket(t, answered) ==
    LET s == state[t]
        number == Len(tickets) + 1
        filed == [s EXCEPT !.made = number, !.sent = s.command.files]
        n == [filed EXCEPT !.active = number,
                           !.card = [type |-> "ticket_created", number |-> number]]
    IN  /\ s.pc = "ticket_tool"
        /\ s.command.type = "CreateTicket"
        /\ Len(tickets) < MaxTickets
        /\ tickets' = FileTicket(s.command)
        /\ Goto(t, IF answered THEN n ELSE CallFailed(filed), "respond")

\* The adapter finds the ticket by its number and adds an article with the files.
AddAttachment(t, answered) ==
    LET s == state[t]
        added == [s EXCEPT !.sent = s.command.files]
        n == [added EXCEPT !.active = s.command.target, !.reply = "Attached"]
    IN  /\ s.pc = "ticket_tool"
        /\ s.command.type = "AddAttachment"
        /\ s.command.target \in DOMAIN tickets
        /\ Goto(t, IF answered THEN n ELSE CallFailed(added), "respond")
        /\ UNCHANGED tickets

\* One hit becomes the active ticket, several ask back, none asks for a number.
SearchTickets(t) ==
    LET s == state[t] IN
    /\ s.pc = "ticket_tool"
    /\ s.command.type = "SearchTickets"
    /\ \/ \E hit \in DOMAIN tickets :
             /\ s.command.target \in {0, hit}
             /\ Goto(t, [s EXCEPT !.active = hit,
                                  !.card = [type |-> "ticket_status", number |-> hit],
                                  !.reply = "Found"], "respond")
       \/ /\ s.command.target = 0 /\ Len(tickets) > 1
          /\ Goto(t, [s EXCEPT !.reply = "Choose", !.clarify = TRUE], "respond")
       \/ Goto(t, [s EXCEPT !.reply = "NotFound", !.clarify = TRUE], "respond")
    /\ UNCHANGED tickets

-----------------------------------------------------------------------------
(***************************************************************************)
(* respond: a created ticket wins over any reply left by an earlier node.  *)
(***************************************************************************)

\* Mutant: a session that has a ticket is told its status.
FinalReply_StatusFirst(s) ==
    IF s.reply # "None" THEN s.reply
    ELSE IF s.active # NoTicket THEN "Status"
    ELSE "Default"

FinalReply(s) ==
    IF s.active # NoTicket /\ s.card.type = "ticket_created" THEN "Created"
    ELSE IF s.reply # "None" THEN s.reply
    ELSE IF s.active # NoTicket THEN "Status"
    ELSE "Default"

Respond(t) ==
    LET s == state[t] IN
    /\ s.pc = "respond"
    /\ Goto(t, [s EXCEPT !.reply = FinalReply(s)], "done")
    /\ UNCHANGED tickets

-----------------------------------------------------------------------------
(***************************************************************************)
(* The thread and its environment                                          *)
(***************************************************************************)
Over == {"done", "raised", "cancelled"}

StartTurn(t, kb, email, files, ts, active) ==
    /\ state[t].pc = "idle"
    /\ state' = [state EXCEPT ![t] = FreshTurn(kb, email, files, ts, active)]
    /\ UNCHANGED tickets

AnyTurn(t) ==
    \E kb, email \in BOOLEAN, files \in FileCounts,
       ts \in SessionTroubleshooting, active \in 0..Len(tickets) :
        StartTurn(t, kb, email, files, ts, active)

\* The client went away, or the process stopped, while a node was waiting.
Cancel(t) ==
    /\ state[t].pc \in Node
    /\ Goto(t, state[t], "cancelled")
    /\ UNCHANGED tickets

\* The caller has taken the result (or the exception); the state is dropped.
EndTurn(t) ==
    /\ state[t].pc \in Over
    /\ state' = [state EXCEPT ![t] = Idle]
    /\ UNCHANGED tickets

Conversation(t) ==
    ConversationBypass(t) \/ ConversationIntent(t) \/ ConversationClarify(t)

Troubleshoot(t) ==
    \/ TroubleshootPass(t)
    \/ GuideResolved(t) \/ GuideFailed(t) \/ GuideUnclear(t)
    \/ BeginEscalated(t) \/ BeginSkipped(t) \/ BeginGuiding(t)

Orchestrate(t) ==
    OrchestrateReject(t) \/ OrchestrateApprove(t) \/ OrchestrateRaise(t)

TicketTool(t) ==
    \/ ToolUnconfigured(t) \/ ToolError(t)
    \/ \E answered \in BOOLEAN : CreateTicket(t, answered) \/ AddAttachment(t, answered)
    \/ SearchTickets(t)

RunNode(t) ==
    Conversation(t) \/ Troubleshoot(t) \/ Orchestrate(t) \/ TicketTool(t) \/ Respond(t)

Init ==
    /\ state = [t \in Thread |-> Idle]
    /\ tickets = <<>>

Next == \E t \in Thread : AnyTurn(t) \/ RunNode(t) \/ Cancel(t) \/ EndTurn(t)

\* Every node ends: model and help desk calls have timeouts.
Fairness == \A t \in Thread : WF_vars(RunNode(t))

Spec == Init /\ [][Next]_vars

FairSpec == Spec /\ Fairness

-----------------------------------------------------------------------------
(***************************************************************************)
(* Properties                                                              *)
(***************************************************************************)

\* The graph state and the help desk hold values of their types.
TypeOK ==
    /\ state \in [Thread -> State]
    /\ tickets \in Seq(Ticket)

\* No edge reaches the policy node without an intent, so its early return for
\* a missing one is dead (orchestrate.py, first lines of the node).
OrchestrateHasIntent ==
    \A t \in Thread : state[t].pc = "orchestrate" => state[t].intent.name # "None"

\* Whatever the model says, nothing reaches the help desk in a turn unless the
\* policy accepted the turn's intent: a rejected turn neither files a ticket
\* nor adds files to one, and an accepted one only what its command says.
NothingWithoutApproval ==
    \A t \in Thread :
        /\ state[t].made # NoTicket =>
              /\ state[t].verdict = "Approved"
              /\ state[t].command.type = "CreateTicket"
              /\ state[t].intent.titled /\ state[t].intent.described
              /\ state[t].email \/ state[t].intent.mailed
        /\ state[t].sent > 0 =>
              /\ state[t].verdict = "Approved"
              /\ state[t].sent <= MaxAttachments

\* With the knowledge base on and no ticket in the session, a ticket is filed
\* only after self-help was ruled out, refused or failed; and a turn that
\* presents guidance, asks about it or takes a "yes" files none.
SelfHelpFirst ==
    \A t \in Thread :
        (state[t].kb /\ state[t].began.active = NoTicket /\ state[t].made # NoTicket)
            => state[t].ts.status \in {"skipped", "resolved", "escalated"}
               /\ (state[t].began.status = "guiding" => state[t].ts.status = "escalated")
               /\ (state[t].began.status = "none" => state[t].ts.status # "resolved")

\* A ticket filed by the turn that escalates carries the troubleshooting
\* record, with exactly the steps the deflection event counts.
EscalationIsEnriched ==
    \A t \in Thread :
        (state[t].made # NoTicket /\ state[t].deflection.outcome = "escalated")
            => /\ tickets[state[t].made].troubled
               /\ tickets[state[t].made].attempts = state[t].deflection.steps

\* A turn notes a deflection outcome exactly when it moved the troubleshoot
\* status there; no other turn's outcome is noted again.
DeflectionIsNews ==
    \A t \in Thread :
        /\ state[t].deflection.outcome # "None" =>
              /\ state[t].ts.status = state[t].deflection.outcome
              /\ state[t].ts.attempts = state[t].deflection.steps
        /\ state[t].pc # "idle" =>
              ((state[t].deflection.outcome # "None") =
                  (/\ state[t].began.status # state[t].ts.status
                   /\ state[t].ts.status \in {"resolved", "escalated"}))

\* The closing reply announces a ticket if and only if this very turn filed it
\* and got its number, and then nothing else is said: no clarifying question
\* left by an earlier node survives next to the card.
CreationAnnounced ==
    \A t \in Thread :
        /\ state[t].card.type = "ticket_created" =>
              /\ state[t].card.number = state[t].made
              /\ state[t].active = state[t].made
              /\ state[t].made \in DOMAIN tickets
        /\ state[t].pc = "done" =>
              (state[t].reply = "Created") = (state[t].card.type = "ticket_created")

\* A session that works on a ticket is left alone by self-help.
ActiveTicketSkipsSelfHelp ==
    \A t \in Thread :
        state[t].began.active # NoTicket =>
            /\ state[t].ts.status = state[t].began.status
            /\ state[t].deflection = NoDeflection

\* A finished turn always says something.
AlwaysAnswers == \A t \in Thread : state[t].pc = "done" => state[t].reply # "None"

\* The reply, chosen from fields that several nodes may have left, fits what the
\* turn did: it is never missing, and tells of a ticket exactly when there is one.
RepliesTruly == CreationAnnounced /\ AlwaysAnswers

\* What the turn made of its session, as its caller sees it.
TurnEnd(s) ==
    [ status |-> s.ts.status, made |-> s.made, active |-> s.active,
      troubled |-> s.made # NoTicket /\ tickets[s.made].troubled,
      outcome |-> s.deflection.outcome ]

\* A finished turn keeps the contract the chat service relies on: forward
\* moves only, one note for each outcome, self-help before tickets, and no
\* ticket number that the help desk did not give out.
KeepsTurnContract ==
    \A t \in Thread :
        state[t].pc = "done" =>
            /\ MayEnd([kb |-> state[t].kb, status |-> state[t].began.status,
                       active |-> state[t].began.active], TurnEnd(state[t]))
            /\ {state[t].made, state[t].active} \subseteq 0..Len(tickets)

\* The gate of a turn: held while self-help owns it, cleared from the approval
\* of a CreateTicket command until the ticket is filed.
GateOf(s) ==
    IF s.pc \notin Node THEN "closed"
    ELSE IF s.made # NoTicket THEN "spent"
    ELSE IF s.command.type = "CreateTicket" THEN "cleared"
    ELSE IF (s.kb /\ s.ts.status = "guiding") \/ s.deflection.outcome = "resolved"
         THEN "held"
    ELSE "open"

Gate == INSTANCE TicketGate
            WITH gate <- [t \in Thread |-> GateOf(state[t])], filed <- Len(tickets)

\* The graph implements the gate: however the model words its intents and the
\* nodes are routed, a ticket is filed at most once in a turn, after the policy
\* cleared it, and never while self-help holds the turn.
ImplementsTicketGate == Gate!Spec

\* Every turn comes to an end.
EveryTurnEnds ==
    \A t \in Thread : (state[t].pc \in Node) ~> (state[t].pc \in Over)
=============================================================================
