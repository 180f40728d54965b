------------------------- MODULE SupportGraphProofs -------------------------
(***************************************************************************)
(* Proofs about SupportGraph for every set of threads, every policy limit, *)
(* every confidence and any number of tickets.                             *)
(*                                                                         *)
(* No property of a finished turn is inductive: why a ticket could be      *)
(* filed is decided three nodes earlier.  TurnOK says for each node what   *)
(* the nodes before it have established, so that every property of a turn  *)
(* follows from it.                                                        *)
(***************************************************************************)
EXTENDS SupportGraph, TLAPS, SequenceTheorems

\* The turn has not reached the policy: nothing of it is in the help desk.
Unserved(s) ==
    /\ s.verdict = "None" /\ s.command = NoCommand /\ s.card = NoCard
    /\ s.made = NoTicket /\ s.sent = 0
    /\ s.active = s.began.active

\* There is no intent, or one with a name.
Meant(s) == s.intent = NoIntent \/ s.intent.name # "None"

\* Self-help has not spoken in this turn.
Unhelped(s) == s.deflection = NoDeflection /\ s.ts.status = s.began.status

\* The troubleshoot outcome of the turn, once there may be one.
Helped(s) ==
    /\ s.deflection.outcome # "None" =>
          /\ s.ts.status = s.deflection.outcome
          /\ s.ts.attempts = s.deflection.steps
    /\ (s.deflection.outcome # "None") <=>
          (s.began.status # s.ts.status /\ s.ts.status \in {"resolved", "escalated"})
    /\ s.began.active # NoTicket => Unhelped(s)

\* Self-help does not stand between the turn and a new ticket.
Released(s) ==
    (s.kb /\ s.began.active = NoTicket) =>
        /\ s.ts.status \in Closed
        /\ s.began.status = "guiding" => s.ts.status = "escalated"
        /\ s.began.status = "none" => s.ts.status # "resolved"

\* What an approved CreateTicket intent has.
Grounds(s) ==
    /\ s.intent.titled /\ s.intent.described
    /\ s.email \/ s.intent.mailed

\* What the escalation of this turn wrote into record (an intent, a command
\* or a ticket).
Enriched(s, record) ==
    s.deflection.outcome = "escalated" =>
        record.troubled /\ record.attempts = s.deflection.steps

\* What is known of the turn in every node, held being the help desk's tickets.
Outcome(s, held) ==
    /\ Helped(s)
    /\ s.made # NoTicket =>
          /\ s.verdict = "Approved" /\ s.command.type = "CreateTicket"
          /\ Grounds(s) /\ Released(s)
          /\ s.made \in DOMAIN held /\ Enriched(s, held[s.made])
    /\ s.sent > 0 => s.verdict = "Approved" /\ s.sent <= MaxAttachments
    /\ s.card.type = "ticket_created" =>
          s.card.number = s.made /\ s.active = s.made /\ s.made # NoTicket

TurnOK(s, held) ==
    /\ s.pc # "idle" => Outcome(s, held)
    /\ s.pc = "idle" => s = Idle
    /\ s.pc = "conversation" => Unserved(s) /\ Unhelped(s) /\ s.intent = NoIntent
    /\ s.pc = "troubleshoot" =>
          /\ Unserved(s) /\ Unhelped(s) /\ Meant(s)
          /\ s.kb
          /\ s.ts.status = "guiding" \/ (s.ts.status = "none" /\ s.active = NoTicket)
    /\ s.pc = "orchestrate" =>
          /\ Unserved(s)
          /\ s.intent.name # "None"
          /\ Enriched(s, s.intent)
          /\ IsCreate(s) => Released(s)
    /\ s.pc = "ticket_tool" =>
          /\ s.verdict = "Approved" /\ s.made = NoTicket /\ s.sent = 0
          /\ s.card = NoCard /\ s.active = s.began.active
          /\ s.command.files <= MaxAttachments
          /\ s.command.type = "CreateTicket" =>
                Grounds(s) /\ Released(s) /\ Enriched(s, s.command)
    /\ IF s.pc = "done"
       THEN /\ s.reply # "None"
            /\ (s.reply = "Created") = (s.card.type = "ticket_created")
       ELSE s.reply # "Created"

Inv == TypeOK /\ \A t \in Thread : TurnOK(state[t], tickets)

-----------------------------------------------------------------------------
(***************************************************************************)
(* Frame lemmas                                                            *)
(***************************************************************************)
PC == Node \cup {"idle", "done", "raised", "cancelled"}

\* What is known of a turn stays known when tickets are only added.
LEMMA MoreTickets ==
    ASSUME NEW s, NEW held, NEW more, TurnOK(s, held),
           \A k \in DOMAIN held : k \in DOMAIN more /\ more[k] = held[k]
    PROVE  TurnOK(s, more)
BY DEF TurnOK, Outcome

\* A step gives one thread a new state and lets the tickets only grow.
LEMMA TurnStep ==
    ASSUME Inv, NEW t \in Thread, NEW m \in State,
           state' = [state EXCEPT ![t] = m],
           TurnOK(m, tickets'),
           tickets' \in Seq(Ticket),
           \A k \in DOMAIN tickets : k \in DOMAIN tickets' /\ tickets'[k] = tickets[k]
    PROVE  Inv'
<1>1. TypeOK'
  BY DEF Inv, TypeOK
<1>2. ASSUME NEW u \in Thread PROVE TurnOK(state'[u], tickets')
  <2>1. CASE u = t
    BY <2>1 DEF Inv, TypeOK
  <2>2. CASE u # t
    <3>1. state'[u] = state[u] /\ TurnOK(state[u], tickets)
      BY <2>2 DEF Inv, TypeOK
    <3> QED BY <3>1, MoreTickets
  <2> QED BY <2>1, <2>2
<1> QED BY <1>1, <1>2 DEF Inv

LEMMA NodeStep ==
    ASSUME Inv, NEW t \in Thread, NEW n \in State, NEW node \in PC,
           Goto(t, n, node), UNCHANGED tickets,
           TurnOK([n EXCEPT !.pc = node], tickets)
    PROVE  Inv'
<1>1. [n EXCEPT !.pc = node] \in State
  BY DEF State, PC
<1>2. tickets \in Seq(Ticket)
  BY DEF Inv, TypeOK
<1>3. state' = [state EXCEPT ![t] = [n EXCEPT !.pc = node]]
  BY DEF Goto
<1> QED BY <1>1, <1>2, <1>3, TurnStep

LEMMA Routes ==
    ASSUME NEW s
    PROVE  /\ RouteAfterConversation(s) \in PC
           /\ RouteAfterTroubleshoot(s) \in PC
           /\ RouteAfterOrchestrate(s) \in PC
BY DEF RouteAfterConversation, RouteAfterTroubleshoot, RouteAfterOrchestrate, PC, Node

\* m is n somewhere else in the graph.
Moved(n, m, node) ==
    /\ m.pc = node
    /\ m.kb = n.kb /\ m.email = n.email /\ m.ts = n.ts /\ m.active = n.active
    /\ m.intent = n.intent /\ m.issue = n.issue /\ m.clarify = n.clarify
    /\ m.reply = n.reply /\ m.verdict = n.verdict /\ m.command = n.command
    /\ m.card = n.card /\ m.deflection = n.deflection /\ m.began = n.began
    /\ m.made = n.made /\ m.sent = n.sent

LEMMA MovedByPc ==
    ASSUME NEW n \in State, NEW node
    PROVE  Moved(n, [n EXCEPT !.pc = node], node)
BY DEF Moved, State

\* Before the policy there is nothing but the troubleshoot outcome to know.
LEMMA UnservedOutcome ==
    ASSUME NEW n, NEW held, Unserved(n), Helped(n)
    PROVE  Outcome(n, held)
BY DEF Outcome, Unserved, NoCard, NoTicket

LEMMA UnhelpedHelped ==
    ASSUME NEW n, Unhelped(n)
    PROVE  Helped(n) /\ \A record : Enriched(n, record)
BY DEF Unhelped, Helped, Enriched, NoDeflection

\* Nothing more is asked of a turn that leaves for the last node or ends.
LEMMA LeaveForGood ==
    ASSUME NEW n \in State, NEW held, NEW node \in {"respond", "raised", "cancelled"},
           Outcome(n, held), n.reply # "Created"
    PROVE  TurnOK([n EXCEPT !.pc = node], held)
<1> DEFINE m == [n EXCEPT !.pc = node]
<1>1. Moved(n, m, node)
  BY MovedByPc
<1> SUFFICES TurnOK(m, held)
  OBVIOUS
<1> HIDE DEF m
<1>2. Outcome(m, held)
  BY <1>1 DEF Outcome, Moved, Helped, Unhelped, Grounds, Released, Enriched
<1> QED BY <1>1, <1>2 DEF TurnOK, Moved

-----------------------------------------------------------------------------
(***************************************************************************)
(* conversation                                                            *)
(***************************************************************************)

\* What no node before the policy touches.
Carried(s, n) ==
    /\ n.kb = s.kb /\ n.email = s.email /\ n.active = s.active /\ n.began = s.began
    /\ n.verdict = s.verdict /\ n.command = s.command /\ n.card = s.card
    /\ n.made = s.made /\ n.sent = s.sent

\* However the node leaves, the edge takes the turn where it may go on.
LEMMA LeaveConversation ==
    ASSUME NEW s \in State, NEW n \in State, NEW held,
           TurnOK(s, held), s.pc = "conversation",
           Carried(s, n), n.ts = s.ts, n.deflection = s.deflection,
           n.reply # "Created", Meant(n)
    PROVE  TurnOK([n EXCEPT !.pc = RouteAfterConversation(n)], held)
<1> DEFINE node == RouteAfterConversation(n)
           m == [n EXCEPT !.pc = node]
<1>1. Moved(n, m, node)
  BY MovedByPc
<1>2. n.ts.status \in TsStatus
  BY DEF State, Troubleshooting
<1>3. Unserved(n) /\ Unhelped(n)
  BY DEF Carried, TurnOK, Unserved, Unhelped
<1>4. Helped(n) /\ Enriched(n, n.intent)
  BY <1>3, UnhelpedHelped
<1>5. Outcome(n, held)
  BY <1>3, <1>4, UnservedOutcome
<1> SUFFICES TurnOK(m, held)
  OBVIOUS
<1> HIDE DEF m
<1>6. Unserved(m) /\ Unhelped(m) /\ Meant(m) /\ Enriched(m, m.intent)
  BY <1>1, <1>3, <1>4 DEF Moved, Unserved, Unhelped, Meant, Enriched
<1>7. Outcome(m, held)
  BY <1>6, UnhelpedHelped, UnservedOutcome
<1>8. m.pc = node /\ m.reply # "Created"
  BY <1>1 DEF Moved
<1>9. node \in {"troubleshoot", "respond", "orchestrate"}
  BY DEF RouteAfterConversation
<1>10. CASE node = "troubleshoot"
  <2>1. n.kb /\ (n.ts.status = "guiding" \/ (n.ts.status = "none" /\ n.active = NoTicket))
    BY <1>2, <1>10 DEF RouteAfterConversation, TsStatus
  <2>2. m.kb /\ (m.ts.status = "guiding" \/ (m.ts.status = "none" /\ m.active = NoTicket))
    BY <1>1, <2>1 DEF Moved
  <2> QED BY <1>6, <1>7, <1>8, <1>10, <2>2 DEF TurnOK
<1>11. CASE node = "orchestrate"
  <2>1. m.intent.name # "None"
    BY <1>1, <1>11 DEF RouteAfterConversation, Meant, Moved
  <2>2. IsCreate(n) => Released(n)
    BY <1>2, <1>3, <1>11
       DEF RouteAfterConversation, IsCreate, Released, Closed, TsStatus, Unserved, Unhelped
  <2>3. IsCreate(m) => Released(m)
    BY <1>1, <2>2 DEF IsCreate, Released, Moved
  <2> QED BY <1>6, <1>7, <1>8, <1>11, <2>1, <2>3 DEF TurnOK
<1>12. CASE node = "respond"
  BY <1>7, <1>8, <1>12 DEF TurnOK
<1> QED BY <1>9, <1>10, <1>11, <1>12

LEMMA BypassStep ==
    ASSUME Inv, NEW t \in Thread, ConversationBypass(t)
    PROVE  Inv'
<1> DEFINE s == state[t]
           i == [NoIntent EXCEPT !.name = "AddAttachment", !.confidence = 95,
                                 !.target = s.active, !.files = s.files]
           n == [s EXCEPT !.intent = i, !.clarify = FALSE]
           node == RouteAfterConversation(n)
<1>1. s \in State /\ TurnOK(s, tickets) /\ s.pc = "conversation"
  BY DEF Inv, TypeOK, ConversationBypass
<1>2. i \in Intent /\ i.name = "AddAttachment"
  <2>1. s.active \in Nat /\ s.files \in Nat
    BY <1>1 DEF State
  <2> QED BY <2>1 DEF NoIntent, Intent, IntentName
<1>3. n \in State
  BY <1>1, <1>2 DEF State
<1>4. Carried(s, n) /\ n.ts = s.ts /\ n.deflection = s.deflection /\ n.reply = s.reply
      /\ n.intent = i
  BY <1>1 DEF State, Carried
<1>5. Goto(t, n, node) /\ UNCHANGED tickets /\ node \in PC
  BY Routes DEF ConversationBypass
<1> HIDE DEF n, i
<1>6. n.reply # "Created" /\ Meant(n)
  BY <1>1, <1>2, <1>4 DEF TurnOK, Meant
<1>7. TurnOK([n EXCEPT !.pc = node], tickets)
  BY <1>1, <1>3, <1>4, <1>6, LeaveConversation
<1> HIDE DEF node
<1> QED BY <1>1, <1>3, <1>5, <1>7, NodeStep

\* Every intent the model can propose is one, and has a name.
LEMMA ProposalType ==
    ASSUME NEW s \in State, NEW claim \in Confidences, NEW a \in Analysis(s),
           tickets \in Seq(Ticket)
    PROVE  Proposal(s, claim, a) \in Intent /\ Proposal(s, claim, a).name # "None"
<1>1. s.files \in Nat /\ Effective(claim) \in Nat
  BY ConfidencesAssumption DEF State, Effective
<1>2. /\ a.name \in IntentName /\ a.name # "None"
      /\ a.worded \in BOOLEAN /\ a.mailed \in BOOLEAN /\ a.target \in Nat
  <2>1. \A g \in 0..Len(tickets) + 1 : g \in Nat
    OBVIOUS
  <2>2. a.name \in IntentName /\ a.name # "None" /\ a.worded \in BOOLEAN
    BY DEF Analysis, IntentName, Unimplemented
  <2>3. a.mailed \in BOOLEAN
    BY DEF Analysis
  <2>4. a.target \in {NoTicket} \/ a.target \in 0..Len(tickets) + 1
    BY Zenon DEF Analysis
  <2> QED BY <2>1, <2>2, <2>3, <2>4 DEF NoTicket
<1> QED BY <1>1, <1>2 DEF Proposal, NoIntent, Intent

LEMMA IntentStep ==
    ASSUME Inv, NEW t \in Thread, ConversationIntent(t)
    PROVE  Inv'
<1> DEFINE s == state[t]
<1>1. s \in State /\ TurnOK(s, tickets) /\ s.pc = "conversation" /\ tickets \in Seq(Ticket)
  BY DEF Inv, TypeOK, ConversationIntent
<1>2. PICK claim \in Confidences, issue \in BOOLEAN, a \in Analysis(s) :
         LET n == [s EXCEPT !.intent = Proposal(s, claim, a), !.issue = issue, !.clarify = FALSE]
         IN  Goto(t, n, RouteAfterConversation(n))
  BY DEF ConversationIntent
<1> DEFINE i == Proposal(s, claim, a)
           n == [s EXCEPT !.intent = i, !.issue = issue,
                          !.clarify = FALSE]
           node == RouteAfterConversation(n)
<1>3. i \in Intent /\ i.name # "None"
  BY <1>1, ProposalType
<1>4. n \in State
  BY <1>1, <1>3, ConfidencesAssumption DEF State
<1>5. Carried(s, n) /\ n.ts = s.ts /\ n.deflection = s.deflection /\ n.reply = s.reply
      /\ n.intent = i
  BY <1>1 DEF State, Carried
<1>6. Goto(t, n, node) /\ UNCHANGED tickets /\ node \in PC
  BY <1>2, Routes DEF ConversationIntent
<1> HIDE DEF n, i
<1>7. n.reply # "Created" /\ Meant(n)
  BY <1>1, <1>3, <1>5 DEF TurnOK, Meant
<1>8. TurnOK([n EXCEPT !.pc = node], tickets)
  BY <1>1, <1>4, <1>5, <1>7, LeaveConversation
<1> HIDE DEF node
<1> QED BY <1>1, <1>4, <1>6, <1>8, NodeStep

LEMMA ClarifyStep ==
    ASSUME Inv, NEW t \in Thread, ConversationClarify(t)
    PROVE  Inv'
<1> DEFINE s == state[t]
<1>1. s \in State /\ TurnOK(s, tickets) /\ s.pc = "conversation"
  BY DEF Inv, TypeOK, ConversationClarify
<1>2. PICK text \in {"Clarify", "None", "Apology"}, issue \in BOOLEAN :
         LET n == [s EXCEPT !.issue = issue, !.clarify = TRUE,
                            !.reply = IF s.ts.status = "guiding" THEN @ ELSE text]
         IN  Goto(t, n, RouteAfterConversation(n))
  BY DEF ConversationClarify
<1> DEFINE n == [s EXCEPT !.issue = issue, !.clarify = TRUE,
                          !.reply = IF s.ts.status = "guiding" THEN @ ELSE text]
           node == RouteAfterConversation(n)
<1>3. n \in State
  BY <1>1 DEF State, Reply
<1>4. Carried(s, n) /\ n.ts = s.ts /\ n.deflection = s.deflection
      /\ n.reply \in {s.reply, text} /\ n.intent = s.intent
  BY <1>1 DEF State, Carried
<1>5. Goto(t, n, node) /\ UNCHANGED tickets /\ node \in PC
  BY <1>2, Routes DEF ConversationClarify
<1> HIDE DEF n
<1>6. n.reply # "Created" /\ Meant(n)
  BY <1>1, <1>4 DEF TurnOK, Meant
<1>7. TurnOK([n EXCEPT !.pc = node], tickets)
  BY <1>1, <1>3, <1>4, <1>6, LeaveConversation
<1> HIDE DEF node
<1> QED BY <1>1, <1>3, <1>5, <1>7, NodeStep

-----------------------------------------------------------------------------
(***************************************************************************)
(* troubleshoot                                                            *)
(***************************************************************************)

\* The edge out of the node takes a turn to the policy only if self-help
\* released it and it has something to ask for.
LEMMA LeaveTroubleshoot ==
    ASSUME NEW s \in State, NEW n \in State, NEW held,
           TurnOK(s, held), s.pc = "troubleshoot",
           Carried(s, n), n.reply # "Created",
           Helped(n), Enriched(n, n.intent),
           RouteAfterTroubleshoot(n) = "orchestrate" =>
              n.intent.name # "None" /\ Released(n)
    PROVE  TurnOK([n EXCEPT !.pc = RouteAfterTroubleshoot(n)], held)
<1> DEFINE node == RouteAfterTroubleshoot(n)
           m == [n EXCEPT !.pc = node]
<1>1. Moved(n, m, node)
  BY MovedByPc
<1>2. Unserved(n)
  BY DEF Carried, TurnOK, Unserved
<1> SUFFICES TurnOK(m, held)
  OBVIOUS
<1> HIDE DEF m
<1>3. Unserved(m) /\ Helped(m) /\ Enriched(m, m.intent) /\ m.reply # "Created"
  BY <1>1, <1>2 DEF Moved, Unserved, Helped, Unhelped, Enriched
<1>4. Outcome(m, held)
  BY <1>3, UnservedOutcome
<1>5. node \in {"respond", "orchestrate"}
  BY DEF RouteAfterTroubleshoot
<1>6. CASE node = "orchestrate"
  <2>1. m.pc = "orchestrate" /\ m.intent.name # "None" /\ Released(m)
    BY <1>1, <1>6 DEF Moved, Released
  <2> QED BY <1>3, <1>4, <2>1 DEF TurnOK
<1>7. CASE node = "respond"
  <2>1. m.pc = "respond"
    BY <1>1, <1>7 DEF Moved
  <2> QED BY <1>3, <1>4, <2>1 DEF TurnOK
<1> QED BY <1>5, <1>6, <1>7

\* What the turn brings to the node.
Arrived(s) ==
    /\ s \in State /\ s.pc = "troubleshoot" /\ TurnOK(s, tickets)
    /\ s.reply # "Created" /\ s.active = s.began.active
    /\ Unhelped(s) /\ Meant(s)
    /\ s.ts.status = "guiding" \/ (s.ts.status = "none" /\ s.active = NoTicket)

LEMMA Arrival ==
    ASSUME Inv, NEW t \in Thread, state[t].pc = "troubleshoot"
    PROVE  Arrived(state[t])
<1>1. state[t] \in State /\ TurnOK(state[t], tickets)
  BY DEF Inv, TypeOK
<1> QED BY <1>1 DEF Arrived, TurnOK, Unserved

\* The last step common to the actions of the node.
LEMMA TroubleshootStep ==
    ASSUME Inv, NEW t \in Thread, state[t].pc = "troubleshoot",
           NEW n \in State, Carried(state[t], n), n.reply # "Created",
           Helped(n), Enriched(n, n.intent),
           RouteAfterTroubleshoot(n) = "orchestrate" =>
              n.intent.name # "None" /\ Released(n),
           Goto(t, n, RouteAfterTroubleshoot(n)), UNCHANGED tickets
    PROVE  Inv'
<1>1. Arrived(state[t])
  BY Arrival
<1>2. TurnOK([n EXCEPT !.pc = RouteAfterTroubleshoot(n)], tickets)
  BY <1>1, LeaveTroubleshoot DEF Arrived
<1>3. RouteAfterTroubleshoot(n) \in PC
  BY Routes
<1> QED BY <1>2, <1>3, NodeStep

LEMMA PassStep ==
    ASSUME Inv, NEW t \in Thread, TroubleshootPass(t)
    PROVE  Inv'
<1> DEFINE s == state[t]
<1>1. s.pc = "troubleshoot" /\ s.active # NoTicket
      /\ Goto(t, s, RouteAfterTroubleshoot(s)) /\ UNCHANGED tickets
  BY DEF TroubleshootPass
<1>2. Arrived(s)
  BY <1>1, Arrival
<1>3. Helped(s) /\ Enriched(s, s.intent) /\ Carried(s, s)
  BY <1>2, UnhelpedHelped DEF Arrived, Carried
<1>4. RouteAfterTroubleshoot(s) # "orchestrate"
  BY <1>1, <1>2 DEF Arrived, RouteAfterTroubleshoot
<1> QED BY <1>1, <1>2, <1>3, <1>4, TroubleshootStep DEF Arrived

LEMMA ResolvedStep ==
    ASSUME Inv, NEW t \in Thread, GuideResolved(t)
    PROVE  Inv'
<1> DEFINE s == state[t]
           attempts == s.ts.attempts + s.ts.steps
           n == [s EXCEPT !.ts.status = "resolved", !.ts.attempts = attempts,
                          !.reply = "Resolved", !.clarify = TRUE,
                          !.deflection = [outcome |-> "resolved", steps |-> attempts]]
<1>1. Engages(s, TRUE) /\ Goto(t, n, RouteAfterTroubleshoot(n)) /\ UNCHANGED tickets
  BY DEF GuideResolved
<1>2. s.pc = "troubleshoot" /\ s.active = NoTicket /\ s.ts.status = "guiding"
  BY <1>1 DEF Engages
<1>3. Arrived(s)
  BY <1>2, Arrival
<1>4. s \in State /\ attempts \in Nat
  BY <1>3 DEF Arrived, State, Troubleshooting
<1> HIDE DEF attempts
<1>5. n \in State
  BY <1>4 DEF State, Troubleshooting, TsStatus, Reply, Deflection
<1>6. /\ Carried(s, n) /\ n.reply = "Resolved" /\ n.ts.status = "resolved"
      /\ n.ts.attempts = attempts
      /\ n.deflection = [outcome |-> "resolved", steps |-> attempts]
  BY <1>4 DEF State, Troubleshooting, Carried
<1> HIDE DEF n
<1>7. Helped(n) /\ Enriched(n, n.intent)
  BY <1>2, <1>3, <1>6 DEF Helped, Arrived, Unhelped, Carried, Enriched
<1>8. RouteAfterTroubleshoot(n) # "orchestrate"
  BY <1>6 DEF RouteAfterTroubleshoot
<1> QED BY <1>1, <1>2, <1>5, <1>6, <1>7, <1>8, TroubleshootStep

\* An escalated turn has an enriched CreateTicket intent and an outcome.
LEMMA EscalateTurn ==
    ASSUME NEW s \in State, NEW attempts \in Nat
    PROVE  /\ Escalate(s, attempts) \in State
           /\ Carried(s, Escalate(s, attempts))
           /\ Escalate(s, attempts).reply = "None"
           /\ Escalate(s, attempts).ts.status = "escalated"
           /\ Escalate(s, attempts).ts.attempts = attempts
           /\ Escalate(s, attempts).deflection = [outcome |-> "escalated", steps |-> attempts]
           /\ Escalate(s, attempts).intent.name = "CreateTicket"
           /\ Escalate(s, attempts).intent.troubled
           /\ Escalate(s, attempts).intent.attempts = attempts
<1> DEFINE i == EnsureCreateTicketIntent(s)
           j == [i EXCEPT !.described = TRUE, !.troubled = TRUE, !.attempts = attempts]
<1>1. s.intent \in Intent /\ s.email \in BOOLEAN
  BY DEF State
<1>2. i \in Intent /\ i.name = "CreateTicket"
  BY <1>1 DEF EnsureCreateTicketIntent, IsCreate, NoIntent, Intent, IntentName
<1> HIDE DEF i
<1>3. j \in Intent /\ j.name = "CreateTicket" /\ j.troubled /\ j.attempts = attempts
  BY <1>2 DEF Intent
<1> HIDE DEF j
<1> DEFINE n == [s EXCEPT !.ts.status = "escalated", !.ts.attempts = attempts,
                          !.intent = j,
                          !.clarify = FALSE, !.reply = "None",
                          !.deflection = [outcome |-> "escalated", steps |-> attempts]]
<1>4. Escalate(s, attempts) = n
  BY Zenon DEF Escalate, i, j
<1>5. n \in State
  BY <1>3 DEF State, Troubleshooting, TsStatus, Reply, Deflection
<1>6. /\ Carried(s, n) /\ n.reply = "None" /\ n.ts.status = "escalated"
      /\ n.ts.attempts = attempts
      /\ n.deflection = [outcome |-> "escalated", steps |-> attempts]
      /\ n.intent = j
  BY DEF State, Troubleshooting, Carried
<1> HIDE DEF n
<1> QED BY <1>3, <1>4, <1>5, <1>6

\* Escalation, from guidance or at once, releases the turn.
LEMMA EscalateStep ==
    ASSUME Inv, NEW t \in Thread, state[t].pc = "troubleshoot",
           state[t].active = NoTicket, NEW attempts \in Nat,
           Goto(t, Escalate(state[t], attempts),
                RouteAfterTroubleshoot(Escalate(state[t], attempts))),
           UNCHANGED tickets
    PROVE  Inv'
<1> DEFINE s == state[t]
           n == Escalate(s, attempts)
<1>1. Arrived(s)
  BY Arrival
<1>2. /\ n \in State /\ Carried(s, n) /\ n.reply = "None"
      /\ n.ts.status = "escalated" /\ n.ts.attempts = attempts
      /\ n.deflection = [outcome |-> "escalated", steps |-> attempts]
      /\ n.intent.name = "CreateTicket" /\ n.intent.troubled
      /\ n.intent.attempts = attempts
  BY <1>1, EscalateTurn DEF Arrived
<1>3. Goto(t, n, RouteAfterTroubleshoot(n))
  OBVIOUS
<1> HIDE DEF n
<1>4. Helped(n) /\ Enriched(n, n.intent) /\ Released(n)
  BY <1>1, <1>2 DEF Helped, Arrived, Unhelped, Carried, Enriched, Released, Closed
<1> QED BY <1>2, <1>3, <1>4, TroubleshootStep

LEMMA FailedStep ==
    ASSUME Inv, NEW t \in Thread, GuideFailed(t)
    PROVE  Inv'
<1> DEFINE attempts == state[t].ts.attempts + state[t].ts.steps
<1>1. attempts \in Nat
  BY DEF Inv, TypeOK, State, Troubleshooting
<1>2. state[t].pc = "troubleshoot" /\ state[t].active = NoTicket
  BY DEF GuideFailed, Engages
<1>3. /\ Goto(t, Escalate(state[t], attempts),
              RouteAfterTroubleshoot(Escalate(state[t], attempts)))
      /\ UNCHANGED tickets
  BY DEF GuideFailed
<1> HIDE DEF attempts
<1> QED BY <1>1, <1>2, <1>3, EscalateStep

LEMMA BeginEscalatedStep ==
    ASSUME Inv, NEW t \in Thread, BeginEscalated(t)
    PROVE  Inv'
<1>1. state[t].pc = "troubleshoot" /\ state[t].active = NoTicket
  BY DEF BeginEscalated, Engages
<1>2. /\ Goto(t, Escalate(state[t], 0), RouteAfterTroubleshoot(Escalate(state[t], 0)))
      /\ UNCHANGED tickets
  BY DEF BeginEscalated
<1> QED BY <1>1, <1>2, EscalateStep

LEMMA UnclearStep ==
    ASSUME Inv, NEW t \in Thread, GuideUnclear(t)
    PROVE  Inv'
<1> DEFINE s == state[t]
           n == [s EXCEPT !.reply = "Confirm", !.clarify = TRUE]
<1>1. Engages(s, TRUE) /\ Goto(t, n, RouteAfterTroubleshoot(n)) /\ UNCHANGED tickets
  BY DEF GuideUnclear
<1>2. s.pc = "troubleshoot" /\ s.ts.status = "guiding"
  BY <1>1 DEF Engages
<1>3. Arrived(s) /\ s \in State
  BY <1>2, Arrival DEF Arrived
<1>4. /\ n \in State /\ Carried(s, n) /\ n.reply = "Confirm" /\ n.ts = s.ts
      /\ n.deflection = s.deflection
  BY <1>3 DEF State, Carried, Reply
<1> HIDE DEF n
<1>5. Helped(n) /\ Enriched(n, n.intent)
  <2>1. Unhelped(n)
    BY <1>3, <1>4 DEF Arrived, Unhelped, Carried
  <2> QED BY <2>1, UnhelpedHelped
<1>6. RouteAfterTroubleshoot(n) # "orchestrate"
  BY <1>2, <1>4 DEF RouteAfterTroubleshoot
<1> QED BY <1>1, <1>2, <1>4, <1>5, <1>6, TroubleshootStep

LEMMA SkippedStep ==
    ASSUME Inv, NEW t \in Thread, BeginSkipped(t)
    PROVE  Inv'
<1> DEFINE s == state[t]
           n == [s EXCEPT !.ts.status = "skipped"]
<1>1. Engages(s, FALSE) /\ Goto(t, n, RouteAfterTroubleshoot(n)) /\ UNCHANGED tickets
  BY DEF BeginSkipped
<1>2. s.pc = "troubleshoot" /\ s.ts.status # "guiding"
  BY <1>1 DEF Engages
<1>3. Arrived(s) /\ s \in State
  BY <1>2, Arrival DEF Arrived
<1>4. /\ n \in State /\ Carried(s, n) /\ n.reply = s.reply
      /\ n.ts.status = "skipped" /\ n.deflection = s.deflection /\ n.intent = s.intent
  BY <1>3 DEF State, Carried, Troubleshooting, TsStatus
<1> HIDE DEF n
<1>5. Helped(n) /\ Enriched(n, n.intent)
  BY <1>2, <1>3, <1>4
     DEF Arrived, Helped, Unhelped, Carried, Enriched, NoDeflection
<1>6. Released(n)
  BY <1>2, <1>3, <1>4 DEF Arrived, Unhelped, Released, Carried, Closed
<1>7. RouteAfterTroubleshoot(n) = "orchestrate" => n.intent.name # "None"
  BY <1>3, <1>4 DEF RouteAfterTroubleshoot, Arrived, Meant
<1>8. n.reply # "Created"
  BY <1>3, <1>4 DEF Arrived
<1> QED BY <1>1, <1>2, <1>4, <1>5, <1>6, <1>7, <1>8, TroubleshootStep

LEMMA GuidingStep ==
    ASSUME Inv, NEW t \in Thread, BeginGuiding(t)
    PROVE  Inv'
<1> DEFINE s == state[t]
<1>1. Engages(s, FALSE) /\ UNCHANGED tickets
  BY DEF BeginGuiding
<1>2. PICK steps \in 1..MaxSteps :
         LET n == [s EXCEPT !.ts = [status |-> "guiding", steps |-> steps, attempts |-> 0],
                            !.reply = "Guidance", !.clarify = TRUE]
         IN  Goto(t, n, RouteAfterTroubleshoot(n))
  BY DEF BeginGuiding
<1> DEFINE ts == [status |-> "guiding", steps |-> steps, attempts |-> 0]
           n == [s EXCEPT !.ts = ts, !.reply = "Guidance", !.clarify = TRUE]
<1>3. s.pc = "troubleshoot" /\ s.ts.status # "guiding"
  BY <1>1 DEF Engages
<1>4. Arrived(s) /\ s \in State
  BY <1>3, Arrival DEF Arrived
<1>5. ts \in Troubleshooting /\ ts.status = "guiding"
  BY MaxStepsAssumption DEF Troubleshooting, TsStatus
<1>6. Goto(t, n, RouteAfterTroubleshoot(n))
  BY <1>2
<1> HIDE DEF ts
<1>7. /\ n \in State /\ Carried(s, n) /\ n.reply = "Guidance" /\ n.ts = ts
      /\ n.deflection = s.deflection
  BY <1>4, <1>5 DEF State, Carried, Reply
<1> HIDE DEF n
<1>8. Helped(n) /\ Enriched(n, n.intent)
  BY <1>3, <1>4, <1>5, <1>7
     DEF Arrived, Helped, Unhelped, Carried, Enriched, NoDeflection
<1>9. RouteAfterTroubleshoot(n) # "orchestrate"
  BY <1>5, <1>7 DEF RouteAfterTroubleshoot
<1> QED BY <1>1, <1>3, <1>6, <1>7, <1>8, <1>9, TroubleshootStep

-----------------------------------------------------------------------------
(***************************************************************************)
(* orchestrate                                                             *)
(***************************************************************************)

\* An approved intent becomes a command that asks for no more than the policy
\* allows, and for a ticket only on the grounds the policy looked at.
LEMMA ApprovedCommand ==
    ASSUME NEW i \in Intent, NEW email \in BOOLEAN,
           i.name # "None", Buildable(i), Validate(i, email) = "Approved"
    PROVE  /\ BuildCommand(i) \in Command
           /\ BuildCommand(i).type \in CommandType
           /\ BuildCommand(i).files <= MaxAttachments
           /\ BuildCommand(i).type = "CreateTicket" =>
                 /\ i.name = "CreateTicket"
                 /\ i.titled /\ i.described /\ (email \/ i.mailed)
                 /\ BuildCommand(i).troubled = i.troubled
                 /\ BuildCommand(i).attempts = i.attempts
<1>1. i.name \in {"CreateTicket", "CheckStatus", "AddAttachment"}
  BY DEF Intent, IntentName, Buildable
<1>2. i.target \in Nat /\ i.files \in Nat /\ i.troubled \in BOOLEAN /\ i.attempts \in Nat
  BY DEF Intent
<1>3. CASE i.name = "CheckStatus"
  <2>1. BuildCommand(i) = [NoCommand EXCEPT !.type = "SearchTickets", !.target = i.target]
    BY <1>3 DEF BuildCommand
  <2>2. NoCommand \in Command
    BY DEF NoCommand, Command
  <2>3. /\ BuildCommand(i) \in Command /\ BuildCommand(i).type = "SearchTickets"
        /\ BuildCommand(i).files = 0
    BY <1>2, <2>1, <2>2 DEF NoCommand, Command, CommandType
  <2> QED BY <2>3, MaxAttachmentsAssumption DEF CommandType
<1>4. CASE i.name # "CheckStatus"
  <2>1. i.files <= MaxAttachments
    BY <1>1, <1>2, <1>4, MaxAttachmentsAssumption
       DEF Validate, ValidateCreateTicket, ValidateAddAttachment, ValidateAttachmentList
  <2>2. i.name = "CreateTicket" => i.titled /\ i.described /\ (email \/ i.mailed)
    BY DEF Validate, ValidateCreateTicket
  <2> QED BY <1>1, <1>2, <1>4, <2>1, <2>2 DEF BuildCommand, Command, CommandType
<1> QED BY <1>3, <1>4

LEMMA ValidateType ==
    ASSUME NEW i, NEW email
    PROVE  Validate(i, email) \in Verdict
BY DEF Validate, ValidateCreateTicket, ValidateAddAttachment, ValidateAttachmentList,
       Verdict, ReasonCode

\* What the turn brings to the policy.
LEMMA AtOrchestrate ==
    ASSUME Inv, NEW t \in Thread, state[t].pc = "orchestrate"
    PROVE  /\ state[t] \in State /\ Unserved(state[t]) /\ Helped(state[t])
           /\ state[t].intent.name # "None" /\ state[t].reply # "Created"
           /\ Enriched(state[t], state[t].intent)
           /\ IsCreate(state[t]) => Released(state[t])
<1>1. state[t] \in State /\ TurnOK(state[t], tickets)
  BY DEF Inv, TypeOK
<1> QED BY <1>1 DEF TurnOK, Outcome

LEMMA RejectStep ==
    ASSUME Inv, NEW t \in Thread, OrchestrateReject(t)
    PROVE  Inv'
<1> DEFINE s == state[t]
           v == Validate(s.intent, s.email)
           n == [s EXCEPT !.verdict = v, !.reply = "Rejected", !.clarify = TRUE]
<1>1. s.pc = "orchestrate" /\ n.verdict # "Approved"
      /\ Goto(t, n, RouteAfterOrchestrate(n)) /\ UNCHANGED tickets
  BY DEF OrchestrateReject
<1>2. s \in State /\ Unserved(s) /\ Helped(s) /\ v \in Verdict
  BY <1>1, AtOrchestrate, ValidateType
<1> HIDE DEF v
<1>3. /\ n \in State /\ n.reply = "Rejected" /\ n.made = s.made /\ n.sent = s.sent
      /\ n.card = s.card /\ n.ts = s.ts /\ n.deflection = s.deflection /\ n.began = s.began
      /\ n.active = s.active
  BY <1>2 DEF State, Reply
<1> HIDE DEF n
<1>4. Outcome(n, tickets)
  BY <1>2, <1>3 DEF Outcome, Helped, Unhelped, Unserved, NoCard, NoTicket
<1>5. RouteAfterOrchestrate(n) = "respond"
  BY <1>1 DEF RouteAfterOrchestrate
<1>6. TurnOK([n EXCEPT !.pc = RouteAfterOrchestrate(n)], tickets)
  BY <1>3, <1>4, <1>5, LeaveForGood
<1> QED BY <1>1, <1>3, <1>6, NodeStep, Routes

LEMMA ApproveStep ==
    ASSUME Inv, NEW t \in Thread, OrchestrateApprove(t)
    PROVE  Inv'
<1> DEFINE s == state[t]
           c == BuildCommand(s.intent)
           n == [s EXCEPT !.verdict = "Approved", !.command = c]
           m == [n EXCEPT !.pc = RouteAfterOrchestrate(n)]
<1>1. s.pc = "orchestrate" /\ Validate(s.intent, s.email) = "Approved"
      /\ Buildable(s.intent)
      /\ Goto(t, n, RouteAfterOrchestrate(n)) /\ UNCHANGED tickets
  BY DEF OrchestrateApprove
<1>2. /\ s \in State /\ Unserved(s) /\ Helped(s) /\ s.reply # "Created"
      /\ s.intent.name # "None" /\ Enriched(s, s.intent)
      /\ IsCreate(s) => Released(s)
  BY <1>1, AtOrchestrate
<1>3. s.intent \in Intent /\ s.email \in BOOLEAN
  BY <1>2 DEF State
<1>4. /\ c \in Command /\ c.type \in CommandType /\ c.files <= MaxAttachments
      /\ c.type = "CreateTicket" =>
            /\ s.intent.name = "CreateTicket"
            /\ s.intent.titled /\ s.intent.described /\ (s.email \/ s.intent.mailed)
            /\ c.troubled = s.intent.troubled /\ c.attempts = s.intent.attempts
  BY <1>1, <1>2, <1>3, ApprovedCommand
<1> HIDE DEF c
<1>5. n \in State /\ n.verdict = "Approved" /\ n.command = c
  BY <1>2, <1>4 DEF State, Verdict
<1>6. RouteAfterOrchestrate(n) = "ticket_tool"
  BY <1>4, <1>5 DEF RouteAfterOrchestrate
<1>7. /\ m.pc = "ticket_tool" /\ m.verdict = "Approved" /\ m.command = c
      /\ m.kb = s.kb /\ m.email = s.email /\ m.ts = s.ts /\ m.active = s.active
      /\ m.intent = s.intent /\ m.reply = s.reply /\ m.card = s.card
      /\ m.deflection = s.deflection /\ m.began = s.began
      /\ m.made = s.made /\ m.sent = s.sent
  BY <1>2, <1>5, <1>6 DEF State
<1>8. TurnOK(m, tickets)
  <2> HIDE DEF m
  <2>1. Helped(m) /\ Unserved(s)
    BY <1>2, <1>7 DEF Helped, Unhelped
  <2>2. Outcome(m, tickets)
    BY <1>7, <2>1 DEF Outcome, Unserved, NoCard, NoTicket
  <2>3. c.type = "CreateTicket" => Grounds(m) /\ Released(m) /\ Enriched(m, c)
    BY <1>2, <1>4, <1>7 DEF Grounds, Released, Enriched, IsCreate
  <2> QED BY <1>2, <1>4, <1>7, <2>2, <2>3 DEF TurnOK, Unserved
<1> HIDE DEF n
<1> QED BY <1>1, <1>5, <1>8, NodeStep, Routes

LEMMA RaiseStep ==
    ASSUME Inv, NEW t \in Thread, OrchestrateRaise(t)
    PROVE  Inv'
<1> DEFINE s == state[t]
<1>1. s.pc = "orchestrate" /\ Goto(t, s, "raised") /\ UNCHANGED tickets
  BY DEF OrchestrateRaise
<1>2. s \in State /\ Outcome(s, tickets) /\ s.reply # "Created"
  BY <1>1, AtOrchestrate, UnservedOutcome
<1>3. TurnOK([s EXCEPT !.pc = "raised"], tickets)
  BY <1>2, LeaveForGood
<1> QED BY <1>1, <1>2, <1>3, NodeStep DEF PC

-----------------------------------------------------------------------------
(***************************************************************************)
(* ticket_tool                                                             *)
(***************************************************************************)
LEMMA AtTicketTool ==
    ASSUME Inv, NEW t \in Thread, state[t].pc = "ticket_tool"
    PROVE  /\ state[t] \in State /\ Outcome(state[t], tickets)
           /\ state[t].reply # "Created" /\ state[t].verdict = "Approved"
           /\ state[t].made = NoTicket /\ state[t].sent = 0 /\ state[t].card = NoCard
           /\ state[t].command.files <= MaxAttachments
           /\ state[t].command.type = "CreateTicket" =>
                 /\ Grounds(state[t]) /\ Released(state[t])
                 /\ Enriched(state[t], state[t].command)
           /\ tickets \in Seq(Ticket)
<1>1. state[t] \in State /\ TurnOK(state[t], tickets) /\ tickets \in Seq(Ticket)
  BY DEF Inv, TypeOK
<1> QED BY <1>1 DEF TurnOK

\* The tool may change what the turn says, which ticket it works on, the card
\* and the number of files sent; without a created ticket no more is asked.
LEMMA ToolStep ==
    ASSUME Inv, NEW t \in Thread, state[t].pc = "ticket_tool",
           NEW n \in State, n.reply # "Created",
           n.card.type # "ticket_created", n.made = NoTicket,
           n.sent <= MaxAttachments, n.verdict = state[t].verdict,
           n.ts = state[t].ts, n.deflection = state[t].deflection,
           n.began = state[t].began,
           Goto(t, n, "respond"), UNCHANGED tickets
    PROVE  Inv'
<1>1. Outcome(state[t], tickets) /\ state[t].verdict = "Approved"
  BY AtTicketTool
<1>2. Helped(n)
  BY <1>1 DEF Outcome, Helped, Unhelped
<1>3. Outcome(n, tickets)
  BY <1>1, <1>2 DEF Outcome
<1>4. TurnOK([n EXCEPT !.pc = "respond"], tickets)
  BY <1>3, LeaveForGood
<1> QED BY <1>4, NodeStep DEF PC, Node

LEMMA UnconfiguredStep ==
    ASSUME Inv, NEW t \in Thread, ToolUnconfigured(t)
    PROVE  Inv'
<1> DEFINE s == state[t]
           n == [s EXCEPT !.reply = "Unconfigured", !.clarify = TRUE]
<1>1. s.pc = "ticket_tool" /\ Goto(t, n, "respond") /\ UNCHANGED tickets
  BY DEF ToolUnconfigured
<1>2. s \in State /\ s.made = NoTicket /\ s.sent = 0 /\ s.card = NoCard
  BY <1>1, AtTicketTool
<1>3. /\ n \in State /\ n.reply = "Unconfigured" /\ n.card = s.card /\ n.made = s.made
      /\ n.sent = s.sent /\ n.verdict = s.verdict /\ n.ts = s.ts
      /\ n.deflection = s.deflection /\ n.began = s.began
  BY <1>2 DEF State, Reply
<1> HIDE DEF n
<1> QED BY <1>1, <1>2, <1>3, ToolStep, MaxAttachmentsAssumption DEF NoCard

LEMMA ErrorStep ==
    ASSUME Inv, NEW t \in Thread, ToolError(t)
    PROVE  Inv'
<1> DEFINE s == state[t]
           n == CallFailed(s)
<1>1. s.pc = "ticket_tool" /\ Goto(t, n, "respond") /\ UNCHANGED tickets
  BY DEF ToolError
<1>2. s \in State /\ s.made = NoTicket /\ s.sent = 0 /\ s.card = NoCard
  BY <1>1, AtTicketTool
<1>3. /\ n \in State /\ n.reply = "Failed" /\ n.card = s.card /\ n.made = s.made
      /\ n.sent = s.sent /\ n.verdict = s.verdict /\ n.ts = s.ts
      /\ n.deflection = s.deflection /\ n.began = s.began
  BY <1>2 DEF State, Reply, CallFailed
<1> HIDE DEF n
<1> QED BY <1>1, <1>2, <1>3, ToolStep, MaxAttachmentsAssumption DEF NoCard

LEMMA AddStep ==
    ASSUME Inv, NEW t \in Thread, NEW answered \in BOOLEAN, AddAttachment(t, answered)
    PROVE  Inv'
<1> DEFINE s == state[t]
           added == [s EXCEPT !.sent = s.command.files]
           told == [added EXCEPT !.active = s.command.target, !.reply = "Attached"]
           n == IF answered THEN told ELSE CallFailed(added)
<1>1. s.pc = "ticket_tool" /\ Goto(t, n, "respond") /\ UNCHANGED tickets
  BY DEF AddAttachment
<1>2. s \in State /\ s.made = NoTicket /\ s.card = NoCard
      /\ s.command.files <= MaxAttachments
  BY <1>1, AtTicketTool
<1>3. s.command.files \in Nat /\ s.command.target \in Nat
  BY <1>2 DEF State, Command
<1>4. /\ added \in State /\ added.card = s.card /\ added.made = s.made
      /\ added.sent = s.command.files /\ added.verdict = s.verdict /\ added.ts = s.ts
      /\ added.deflection = s.deflection /\ added.began = s.began
  BY <1>2, <1>3 DEF State
<1> HIDE DEF added
<1>5. /\ n \in State /\ n.reply \in {"Attached", "Failed"} /\ n.card = s.card
      /\ n.made = s.made /\ n.sent = s.command.files /\ n.verdict = s.verdict
      /\ n.ts = s.ts /\ n.deflection = s.deflection /\ n.began = s.began
  BY <1>3, <1>4 DEF State, Reply, CallFailed
<1> HIDE DEF n
<1> QED BY <1>1, <1>2, <1>5, ToolStep DEF NoCard

LEMMA SearchStep ==
    ASSUME Inv, NEW t \in Thread, SearchTickets(t)
    PROVE  Inv'
<1> DEFINE s == state[t]
           found(hit) == [s EXCEPT !.active = hit, !.reply = "Found",
                                   !.card = [type |-> "ticket_status", number |-> hit]]
           asked(r) == [s EXCEPT !.reply = r, !.clarify = TRUE]
<1>1. s.pc = "ticket_tool" /\ UNCHANGED tickets
  BY DEF SearchTickets
<1>2. s \in State /\ s.made = NoTicket /\ s.sent = 0 /\ s.card = NoCard
      /\ tickets \in Seq(Ticket)
  BY <1>1, AtTicketTool
<1>3. ASSUME NEW hit \in DOMAIN tickets, Goto(t, found(hit), "respond")
      PROVE  Inv'
  <2> DEFINE n == found(hit)
  <2>1. hit \in Nat
    BY <1>2
  <2>2. /\ n \in State /\ n.reply = "Found" /\ n.card.type = "ticket_status"
        /\ n.made = s.made /\ n.sent = s.sent /\ n.verdict = s.verdict /\ n.ts = s.ts
        /\ n.deflection = s.deflection /\ n.began = s.began
    BY <1>2, <2>1 DEF State, Reply, Card
  <2> HIDE DEF n
  <2>3. Goto(t, n, "respond")
    BY <1>3 DEF n
  <2> QED BY <1>1, <1>2, <2>2, <2>3, ToolStep, MaxAttachmentsAssumption
<1>4. ASSUME NEW r \in {"Choose", "NotFound"}, Goto(t, asked(r), "respond")
      PROVE  Inv'
  <2> DEFINE n == asked(r)
  <2>1. /\ n \in State /\ n.reply = r /\ n.card = s.card
        /\ n.made = s.made /\ n.sent = s.sent /\ n.verdict = s.verdict /\ n.ts = s.ts
        /\ n.deflection = s.deflection /\ n.began = s.began
    BY <1>2 DEF State, Reply
  <2> HIDE DEF n
  <2>2. Goto(t, n, "respond")
    BY <1>4 DEF n
  <2> QED BY <1>1, <1>2, <2>1, <2>2, ToolStep, MaxAttachmentsAssumption DEF NoCard
<1>5. \/ \E hit \in DOMAIN tickets : Goto(t, found(hit), "respond")
      \/ Goto(t, asked("Choose"), "respond")
      \/ Goto(t, asked("NotFound"), "respond")
  BY DEF SearchTickets
<1> QED BY <1>3, <1>4, <1>5

\* Filing a ticket: the number is new, the older tickets stay.
LEMMA CreateStep ==
    ASSUME Inv, NEW t \in Thread, NEW answered \in BOOLEAN, CreateTicket(t, answered)
    PROVE  Inv'
<1> DEFINE s == state[t]
           number == Len(tickets) + 1
           filed == [s EXCEPT !.made = number, !.sent = s.command.files]
           told == [filed EXCEPT !.active = number,
                                 !.card = [type |-> "ticket_created", number |-> number]]
           n == IF answered THEN told ELSE CallFailed(filed)
           m == [n EXCEPT !.pc = "respond"]
<1>1. s.pc = "ticket_tool" /\ s.command.type = "CreateTicket"
      /\ tickets' = Append(tickets, NewTicket(s.command)) /\ Goto(t, n, "respond")
  BY DEF CreateTicket, FileTicket
<1>2. /\ s \in State /\ Outcome(s, tickets) /\ s.reply # "Created"
      /\ s.verdict = "Approved" /\ s.card = NoCard
      /\ s.command.files <= MaxAttachments
      /\ Grounds(s) /\ Released(s) /\ Enriched(s, s.command)
      /\ tickets \in Seq(Ticket)
  BY <1>1, AtTicketTool
<1>3. s.command.files \in Nat /\ NewTicket(s.command) \in Ticket /\ number \in Nat \ {0}
  BY <1>2 DEF State, Command, NewTicket, Ticket
<1>4. /\ tickets' \in Seq(Ticket) /\ number \in DOMAIN tickets'
      /\ tickets'[number] = NewTicket(s.command)
      /\ \A k \in DOMAIN tickets : k \in DOMAIN tickets' /\ tickets'[k] = tickets[k]
  BY <1>1, <1>2, <1>3
<1> HIDE DEF number
<1>5. /\ filed \in State /\ filed.made = number /\ filed.sent = s.command.files
      /\ filed.kb = s.kb /\ filed.email = s.email /\ filed.ts = s.ts
      /\ filed.intent = s.intent /\ filed.reply = s.reply /\ filed.verdict = s.verdict
      /\ filed.command = s.command /\ filed.card = s.card
      /\ filed.deflection = s.deflection /\ filed.began = s.began
  BY <1>2, <1>3 DEF State
<1> HIDE DEF filed
<1>6. /\ n \in State /\ n.made = number /\ n.sent = s.command.files
      /\ n.kb = s.kb /\ n.email = s.email /\ n.ts = s.ts
      /\ n.intent = s.intent /\ n.reply \in {s.reply, "Failed"} /\ n.verdict = s.verdict
      /\ n.command = s.command /\ n.deflection = s.deflection /\ n.began = s.began
      /\ \/ n.card = NoCard
         \/ /\ n.card = [type |-> "ticket_created", number |-> number]
            /\ n.active = number
  <2>1. CASE answered
    BY <1>2, <1>3, <1>5, <2>1 DEF State, Card
  <2>2. CASE ~answered
    BY <1>2, <1>3, <1>5, <2>2 DEF State, CallFailed, Reply
  <2> QED BY <2>1, <2>2
<1> HIDE DEF n
<1>7. Outcome(n, tickets')
  <2>1. Helped(n)
    BY <1>2, <1>6 DEF Outcome, Helped, Unhelped
  <2>2. Grounds(n) /\ Released(n)
    BY <1>2, <1>6 DEF Grounds, Released
  <2>3. Enriched(n, tickets'[n.made])
    BY <1>2, <1>4, <1>6 DEF Enriched, NewTicket
  <2>4. n.card.type = "ticket_created" =>
           n.card.number = n.made /\ n.active = n.made /\ n.made # NoTicket
    BY <1>3, <1>6 DEF NoCard, NoTicket
  <2> QED BY <1>1, <1>2, <1>4, <1>6, <2>1, <2>2, <2>3, <2>4 DEF Outcome
<1>8. TurnOK(m, tickets')
  BY <1>2, <1>6, <1>7, LeaveForGood
<1>9. m \in State /\ state' = [state EXCEPT ![t] = m]
  BY <1>1, <1>6 DEF State, Goto, Node
<1> QED BY <1>4, <1>8, <1>9, TurnStep

-----------------------------------------------------------------------------
(***************************************************************************)
(* respond and the thread                                                  *)
(***************************************************************************)

\* The closing reply is never empty and announces exactly a created ticket.
LEMMA RespondStep ==
    ASSUME Inv, NEW t \in Thread, Respond(t)
    PROVE  Inv'
<1> DEFINE s == state[t]
           r == FinalReply(s)
           n == [s EXCEPT !.reply = r]
           m == [n EXCEPT !.pc = "done"]
<1>1. s.pc = "respond" /\ Goto(t, n, "done") /\ UNCHANGED tickets
  BY DEF Respond
<1>2. s \in State /\ Outcome(s, tickets) /\ s.reply # "Created" /\ s.reply \in Reply
  BY <1>1 DEF Inv, TypeOK, TurnOK, State
<1>3. r \in Reply /\ r # "None" /\ (r = "Created") = (s.card.type = "ticket_created")
  BY <1>2 DEF FinalReply, Outcome, Reply
<1> HIDE DEF r
<1>4. n \in State
  BY <1>2, <1>3 DEF State
<1>5. /\ m.pc = "done" /\ m.reply = r
      /\ m.kb = s.kb /\ m.email = s.email /\ m.ts = s.ts /\ m.active = s.active
      /\ m.intent = s.intent /\ m.verdict = s.verdict /\ m.command = s.command
      /\ m.card = s.card /\ m.deflection = s.deflection /\ m.began = s.began
      /\ m.made = s.made /\ m.sent = s.sent
  BY <1>2, <1>3 DEF State
<1>6. TurnOK(m, tickets)
  <2> HIDE DEF m
  <2>1. Outcome(m, tickets)
    BY <1>2, <1>5 DEF Outcome, Helped, Unhelped, Grounds, Released, Enriched
  <2> QED BY <1>3, <1>5, <2>1 DEF TurnOK
<1> HIDE DEF n
<1> QED BY <1>1, <1>4, <1>6, NodeStep DEF PC

\* Whatever the session holds, a turn starts with a clean state.
LEMMA StartStep ==
    ASSUME Inv, NEW t \in Thread, AnyTurn(t)
    PROVE  Inv'
<1>1. PICK kb \in BOOLEAN, email \in BOOLEAN, files \in FileCounts,
           ts \in SessionTroubleshooting, active \in 0..Len(tickets) :
         StartTurn(t, kb, email, files, ts, active)
  BY DEF AnyTurn
<1> DEFINE m == FreshTurn(kb, email, files, ts, active)
<1>2. tickets \in Seq(Ticket)
  BY DEF Inv, TypeOK
<1>3. ts \in Troubleshooting
  BY MaxStepsAssumption
     DEF SessionTroubleshooting, Troubleshooting, TsStatus, NoTroubleshooting
<1>4. files \in Nat /\ active \in Nat
  BY <1>2, FileCountsAssumption
<1>5. NoIntent \in Intent /\ NoCommand \in Command /\ NoCard \in Card
      /\ NoDeflection \in Deflection
  BY DEF NoIntent, Intent, NoCommand, Command, NoCard, Card, NoTicket, NoDeflection, Deflection
<1>6. m \in State
  <2>1. [status |-> ts.status, active |-> active] \in [status : TsStatus, active : Nat]
    BY <1>3, <1>4 DEF Troubleshooting
  <2> QED BY <1>3, <1>4, <1>5, <2>1 DEF FreshTurn, State, Node, Reply, Verdict, NoTicket
<1>7. /\ m.pc = "conversation" /\ m.verdict = "None" /\ m.command = NoCommand
      /\ m.card = NoCard /\ m.made = NoTicket /\ m.sent = 0 /\ m.active = active
      /\ m.began = [status |-> ts.status, active |-> active] /\ m.ts = ts
      /\ m.deflection = NoDeflection /\ m.intent = NoIntent /\ m.reply = "None"
  BY DEF FreshTurn
<1>8. state' = [state EXCEPT ![t] = m] /\ UNCHANGED tickets
  BY <1>1 DEF StartTurn
<1> HIDE DEF m
<1>9. Unserved(m) /\ Unhelped(m)
  BY <1>7 DEF Unserved, Unhelped
<1>10. Outcome(m, tickets)
  BY <1>9, UnhelpedHelped, UnservedOutcome
<1>11. TurnOK(m, tickets)
  BY <1>7, <1>9, <1>10 DEF TurnOK
<1> QED BY <1>2, <1>6, <1>8, <1>11, TurnStep

LEMMA IdleType == Idle \in State
<1>1. NoIntent \in Intent /\ NoCommand \in Command /\ NoCard \in Card
      /\ NoDeflection \in Deflection /\ NoTroubleshooting \in Troubleshooting
  BY DEF NoIntent, Intent, NoCommand, Command, NoCard, Card, NoTicket, NoDeflection,
         Deflection, NoTroubleshooting, Troubleshooting, TsStatus
<1>2. [status |-> NoTroubleshooting.status, active |-> NoTicket]
         \in [status : TsStatus, active : Nat]
  BY DEF NoTroubleshooting, TsStatus, NoTicket
<1> QED BY <1>1, <1>2 DEF Idle, FreshTurn, State, Node, Reply, Verdict, NoTicket

LEMMA IdleTurn ==
    ASSUME NEW held
    PROVE  TurnOK(Idle, held)
BY DEF TurnOK, Idle, FreshTurn

LEMMA CancelStep ==
    ASSUME Inv, NEW t \in Thread, Cancel(t)
    PROVE  Inv'
<1> DEFINE s == state[t]
<1>1. s.pc \in Node /\ Goto(t, s, "cancelled") /\ UNCHANGED tickets
  BY DEF Cancel
<1>2. s \in State /\ Outcome(s, tickets) /\ s.reply # "Created"
  BY <1>1 DEF Inv, TypeOK, TurnOK, Node
<1>3. TurnOK([s EXCEPT !.pc = "cancelled"], tickets)
  BY <1>2, LeaveForGood
<1> QED BY <1>1, <1>2, <1>3, NodeStep DEF PC

LEMMA EndStep ==
    ASSUME Inv, NEW t \in Thread, EndTurn(t)
    PROVE  Inv'
<1>1. state' = [state EXCEPT ![t] = Idle] /\ UNCHANGED tickets
  BY DEF EndTurn
<1>2. tickets \in Seq(Ticket)
  BY DEF Inv, TypeOK
<1> QED BY <1>1, <1>2, IdleType, IdleTurn, TurnStep

-----------------------------------------------------------------------------
(***************************************************************************)
(* The theorems                                                            *)
(***************************************************************************)
LEMMA InvInit == Init => Inv
<1> SUFFICES ASSUME Init PROVE Inv
  OBVIOUS
<1>1. TypeOK
  BY IdleType DEF Init, TypeOK
<1>2. \A t \in Thread : TurnOK(state[t], tickets)
  BY IdleTurn DEF Init
<1> QED BY <1>1, <1>2 DEF Inv

LEMMA InvStep == Inv /\ [Next]_vars => Inv'
<1> SUFFICES ASSUME Inv, [Next]_vars PROVE Inv'
  OBVIOUS
<1>1. CASE UNCHANGED vars
  BY <1>1 DEF vars, Inv, TypeOK
<1>2. ASSUME NEW t \in Thread, AnyTurn(t) \/ Cancel(t) \/ EndTurn(t)
      PROVE  Inv'
  BY <1>2, StartStep, CancelStep, EndStep
<1>3. ASSUME NEW t \in Thread, Conversation(t)
      PROVE  Inv'
  BY <1>3, BypassStep, IntentStep, ClarifyStep DEF Conversation
<1>4. ASSUME NEW t \in Thread, Troubleshoot(t)
      PROVE  Inv'
  BY <1>4, PassStep, ResolvedStep, FailedStep, UnclearStep, BeginEscalatedStep,
     SkippedStep, GuidingStep DEF Troubleshoot
<1>5. ASSUME NEW t \in Thread, Orchestrate(t)
      PROVE  Inv'
  BY <1>5, RejectStep, ApproveStep, RaiseStep DEF Orchestrate
<1>6. ASSUME NEW t \in Thread, TicketTool(t)
      PROVE  Inv'
  BY <1>6, UnconfiguredStep, ErrorStep, CreateStep, AddStep, SearchStep DEF TicketTool
<1>7. ASSUME NEW t \in Thread, RunNode(t)
      PROVE  Inv'
  BY <1>3, <1>4, <1>5, <1>6, <1>7, RespondStep DEF RunNode
<1> QED BY <1>1, <1>2, <1>7 DEF Next

\* TurnOK holds of every turn in every reachable state.
THEOREM Invariance == Spec => []Inv
<1>1. Init => Inv
  BY InvInit
<1>2. Inv /\ [Next]_vars => Inv'
  BY InvStep
<1> QED BY <1>1, <1>2, PTL DEF Spec

\* The graph state and the help desk hold values of their types.
THEOREM TypeCorrect == Spec => []TypeOK
<1>1. Inv => TypeOK
  BY DEF Inv
<1> QED BY <1>1, Invariance, PTL

\* The policy node always has an intent.
THEOREM IntentBeforePolicy == Spec => []OrchestrateHasIntent
<1>1. Inv => OrchestrateHasIntent
  BY DEF Inv, OrchestrateHasIntent, TurnOK
<1> QED BY <1>1, Invariance, PTL

LEMMA IdleFields ==
    /\ Idle.made = NoTicket /\ Idle.sent = 0 /\ Idle.deflection = NoDeflection
    /\ Idle.card = NoCard /\ Idle.pc = "idle" /\ Idle.began.active = NoTicket
BY DEF Idle, FreshTurn

\* Nothing reaches the help desk that the policy did not accept.
THEOREM PolicyGuardsHelpDesk == Spec => []NothingWithoutApproval
<1>1. Inv => NothingWithoutApproval
  <2> SUFFICES ASSUME Inv, NEW t \in Thread
               PROVE  /\ state[t].made # NoTicket =>
                            /\ state[t].verdict = "Approved"
                            /\ state[t].command.type = "CreateTicket"
                            /\ state[t].intent.titled /\ state[t].intent.described
                            /\ state[t].email \/ state[t].intent.mailed
                      /\ state[t].sent > 0 =>
                            state[t].verdict = "Approved" /\ state[t].sent <= MaxAttachments
    BY DEF NothingWithoutApproval
  <2>1. TurnOK(state[t], tickets)
    BY DEF Inv
  <2> QED BY <2>1, IdleFields DEF TurnOK, Outcome, Grounds
<1> QED BY <1>1, Invariance, PTL

\* No ticket before self-help is over.
THEOREM SelfHelpComesFirst == Spec => []SelfHelpFirst
<1>1. Inv => SelfHelpFirst
  BY IdleFields DEF Inv, SelfHelpFirst, TurnOK, Outcome, Released, Closed
<1> QED BY <1>1, Invariance, PTL

\* A ticket filed by the turn that escalates has that escalation's record.
THEOREM EscalationEnriches == Spec => []EscalationIsEnriched
<1>1. Inv => EscalationIsEnriched
  BY IdleFields DEF Inv, EscalationIsEnriched, TurnOK, Outcome, Enriched
<1> QED BY <1>1, Invariance, PTL

\* An outcome is noted by the turn that moved the status, and by no other.
THEOREM OutcomeIsNews == Spec => []DeflectionIsNews
<1>1. Inv => DeflectionIsNews
  <2> SUFFICES ASSUME Inv, NEW t \in Thread
               PROVE  /\ state[t].deflection.outcome # "None" =>
                            /\ state[t].ts.status = state[t].deflection.outcome
                            /\ state[t].ts.attempts = state[t].deflection.steps
                      /\ state[t].pc # "idle" =>
                            ((state[t].deflection.outcome # "None") =
                               (/\ state[t].began.status # state[t].ts.status
                                /\ state[t].ts.status \in {"resolved", "escalated"}))
    BY DEF DeflectionIsNews
  <2>1. TurnOK(state[t], tickets)
    BY DEF Inv
  <2>2. CASE state[t].pc = "idle"
    BY <2>1, <2>2, IdleFields DEF TurnOK, NoDeflection
  <2>3. CASE state[t].pc # "idle"
    BY <2>1, <2>3 DEF TurnOK, Outcome, Helped
  <2> QED BY <2>2, <2>3
<1> QED BY <1>1, Invariance, PTL

\* A ticket is announced if and only if the turn filed it and knows its number.
THEOREM TicketIsAnnounced == Spec => []CreationAnnounced
<1>1. Inv => CreationAnnounced
  BY IdleFields DEF Inv, CreationAnnounced, TurnOK, Outcome, NoCard
<1> QED BY <1>1, Invariance, PTL

\* Self-help leaves a session with a ticket alone.
THEOREM TicketEndsSelfHelp == Spec => []ActiveTicketSkipsSelfHelp
<1>1. Inv => ActiveTicketSkipsSelfHelp
  BY IdleFields DEF Inv, ActiveTicketSkipsSelfHelp, TurnOK, Outcome, Helped, Unhelped
<1> QED BY <1>1, Invariance, PTL

\* A turn that finishes has an answer.
THEOREM TurnAnswers == Spec => []AlwaysAnswers
<1>1. Inv => AlwaysAnswers
  BY DEF Inv, AlwaysAnswers, TurnOK
<1> QED BY <1>1, Invariance, PTL

\* The reply of a turn fits what the turn did.
THEOREM RepliesFit == Spec => []RepliesTruly
<1>1. CreationAnnounced /\ AlwaysAnswers <=> RepliesTruly
  BY DEF RepliesTruly
<1> QED BY <1>1, TicketIsAnnounced, TurnAnswers, PTL

-----------------------------------------------------------------------------
(***************************************************************************)
(* The contract and the gate                                               *)
(*                                                                         *)
(* A turn keeps the contract of TurnContract, which the chat service       *)
(* relies on, and the graph implements TicketGate.                         *)
(*                                                                         *)
(* TurnOK says what each node may count on; the contract is about the      *)
(* whole turn, so Kept adds what has become of the session since the turn  *)
(* began, and what has to be left in the intent and the command for the    *)
(* nodes downstream to keep it: a record of troubleshooting travels in     *)
(* three fields before it is in a ticket.                                  *)
(***************************************************************************)

\* The turn is self-help's: guidance is open, or the user said it worked.
Halted(s) == (s.kb /\ s.ts.status = "guiding") \/ s.deflection.outcome = "resolved"

\* What the turn has made of its session so far, held being the help desk's
\* tickets: the clauses of the contract, and for each of them what an earlier
\* node has to leave in the intent and the command for a later one to keep it.
Kept(s, held) ==
    /\ <<s.began.status, s.ts.status>> \in TsFlow
    /\ s.began.status # s.ts.status => s.kb /\ s.began.active = NoTicket
    /\ s.intent.troubled <=> (s.deflection.outcome = "escalated")
    /\ s.deflection.outcome = "escalated" =>
          IsCreate(s) /\ s.command.type \in {"None", "CreateTicket"}
    /\ s.command.troubled => s.deflection.outcome = "escalated"
    /\ s.made # NoTicket /\ held[s.made].troubled => s.deflection.outcome = "escalated"
    /\ Halted(s) =>
          s.made = NoTicket /\ s.command = NoCommand /\ s.active = s.began.active
    /\ s.made # NoTicket \/ s.deflection.outcome = "escalated" =>
          s.active \in {s.began.active, s.made}
    /\ {s.active, s.began.active, s.made} \subseteq 0..Len(held)
    /\ s.pc \in {"orchestrate", "ticket_tool"} => ~Halted(s)
    /\ s.pc \in {"idle", "conversation", "troubleshoot", "orchestrate"} => s.command = NoCommand

KeptInv == \A t \in Thread : Kept(state[t], tickets)

Grown ==
    /\ tickets' \in Seq(Ticket)
    /\ \A k \in DOMAIN tickets : k \in DOMAIN tickets' /\ tickets'[k] = tickets[k]

\* The gate stays, or takes a step that TicketGate has and that files nothing.
GateMoves(old, new) ==
    \/ new = old
    \/ old = "closed" /\ new \in {"open", "held"}
    \/ old = "open" /\ new \in {"held", "cleared"}
    \/ old = "held" /\ new = "open"
    \/ old # "closed" /\ new = "closed"

\* The turn of thread t goes on, and its gate with it.
Proceeds(t) ==
    \E m \in State :
        /\ state' = [state EXCEPT ![t] = m]
        /\ UNCHANGED tickets
        /\ Kept(m, tickets)
        /\ GateMoves(GateOf(state[t]), GateOf(m))

-----------------------------------------------------------------------------
(***************************************************************************)
(* Frame lemmas                                                            *)
(***************************************************************************)

\* What a turn has made of its session is not undone by other turns' tickets.
LEMMA KeptWithMore ==
    ASSUME NEW s \in State, NEW held \in Seq(Ticket), NEW more \in Seq(Ticket), Kept(s, held),
           \A k \in DOMAIN held : k \in DOMAIN more /\ more[k] = held[k]
    PROVE  Kept(s, more)
<1>1. Len(held) <= Len(more)
  <2>1. CASE Len(held) = 0
    BY <2>1
  <2>2. CASE Len(held) # 0
    <3>1. Len(held) \in DOMAIN held
      BY <2>2
    <3>2. Len(held) \in DOMAIN more
      BY <3>1
    <3> QED BY <3>2
  <2> QED BY <2>1, <2>2
<1>2. {s.active, s.began.active, s.made} \subseteq 0..Len(more)
  BY <1>1 DEF Kept
<1>3. s.made # NoTicket => s.made \in DOMAIN held /\ held[s.made] = more[s.made]
  BY DEF Kept, NoTicket
<1> QED BY <1>2, <1>3 DEF Kept

\* A step that changes one thread, and only adds tickets, needs checking for
\* this thread alone.
LEMMA KeptStep ==
    ASSUME Inv, KeptInv, NEW t \in Thread, NEW m \in State,
           state' = [state EXCEPT ![t] = m], Grown, Kept(m, tickets')
    PROVE  KeptInv'
<1> SUFFICES ASSUME NEW u \in Thread PROVE Kept(state'[u], tickets')
  BY DEF KeptInv
<1>1. state \in [Thread -> State] /\ tickets \in Seq(Ticket)
  BY DEF Inv, TypeOK
<1>2. CASE u = t
  BY <1>1, <1>2
<1>3. CASE u # t
  <2>1. state'[u] = state[u] /\ state[u] \in State /\ Kept(state[u], tickets)
    BY <1>1, <1>3 DEF KeptInv
  <2> QED BY <1>1, <2>1, KeptWithMore DEF Grown
<1> QED BY <1>2, <1>3

\* A gate's step is one of TicketGate: the other gates do not move.
LEMMA GateStep ==
    ASSUME Inv, NEW t \in Thread, NEW m \in State,
           state' = [state EXCEPT ![t] = m], UNCHANGED tickets,
           GateMoves(GateOf(state[t]), GateOf(m))
    PROVE  [Gate!Next]_<<[u \in Thread |-> GateOf(state[u])], Len(tickets)>>
<1> DEFINE gate == [u \in Thread |-> GateOf(state[u])]
           old == GateOf(state[t])
           new == GateOf(m)
<1>1. state \in [Thread -> State]
  BY DEF Inv, TypeOK
<1>2. gate' = [gate EXCEPT ![t] = new]
  BY <1>1
<1>3. gate[t] = old /\ UNCHANGED Len(tickets)
  OBVIOUS
<1>4. gate \in [Thread -> {gate[u] : u \in Thread}]
  OBVIOUS
<1>5. CASE new = old
  <2>1. gate' = gate
    BY <1>2, <1>3, <1>4, <1>5
  <2> QED BY <1>3, <2>1
<1>6. CASE old = "closed" /\ new \in {"open", "held"}
  <2>1. Gate!Begin(t)
    BY <1>2, <1>3, <1>6 DEF Gate!Begin
  <2> QED BY <2>1 DEF Gate!Next
<1>7. CASE old = "open" /\ new = "held"
  <2>1. Gate!Hold(t)
    BY <1>2, <1>3, <1>7 DEF Gate!Hold
  <2> QED BY <2>1 DEF Gate!Next
<1>8. CASE old = "open" /\ new = "cleared"
  <2>1. Gate!Clear(t)
    BY <1>2, <1>3, <1>8 DEF Gate!Clear
  <2> QED BY <2>1 DEF Gate!Next
<1>9. CASE old = "held" /\ new = "open"
  <2>1. Gate!Release(t)
    BY <1>2, <1>3, <1>9 DEF Gate!Release
  <2> QED BY <2>1 DEF Gate!Next
<1>10. CASE old # "closed" /\ new = "closed"
  <2>1. Gate!Close(t)
    BY <1>2, <1>3, <1>10 DEF Gate!Close
  <2> QED BY <2>1 DEF Gate!Next
<1> QED BY <1>5, <1>6, <1>7, <1>8, <1>9, <1>10 DEF GateMoves

\* What Proceeds is for.
LEMMA Proceeding ==
    ASSUME Inv, KeptInv, NEW t \in Thread, Proceeds(t)
    PROVE  /\ KeptInv'
           /\ [Gate!Next]_<<[u \in Thread |-> GateOf(state[u])], Len(tickets)>>
<1>1. PICK m \in State :
         /\ state' = [state EXCEPT ![t] = m]
         /\ UNCHANGED tickets
         /\ Kept(m, tickets)
         /\ GateMoves(GateOf(state[t]), GateOf(m))
  BY DEF Proceeds
<1>2. Grown /\ Kept(m, tickets')
  BY <1>1 DEF Grown, Inv, TypeOK
<1> QED BY <1>1, <1>2, KeptStep, GateStep

\* What is known of a turn that runs.
LEMMA AtHand ==
    ASSUME Inv, KeptInv, NEW t \in Thread
    PROVE  /\ state[t] \in State /\ TurnOK(state[t], tickets)
           /\ Kept(state[t], tickets) /\ tickets \in Seq(Ticket)
BY DEF Inv, TypeOK, KeptInv

-----------------------------------------------------------------------------
(***************************************************************************)
(* conversation and troubleshoot: no command yet, so the gate is open or   *)
(* held, whatever the node makes of the intent and of self-help            *)
(***************************************************************************)
LEMMA EarlyProceeds ==
    ASSUME Inv, KeptInv, NEW t \in Thread,
           state[t].pc \in {"conversation", "troubleshoot"},
           NEW n \in State, NEW node \in {"troubleshoot", "orchestrate", "respond"},
           Goto(t, n, node), UNCHANGED tickets,
           Carried(state[t], n),
           <<state[t].ts.status, n.ts.status>> \in TsFlow,
           state[t].ts.status # n.ts.status => n.kb /\ n.active = NoTicket,
           n.intent.troubled <=> (n.deflection.outcome = "escalated"),
           n.deflection.outcome = "escalated" => n.intent.name = "CreateTicket",
           node = "orchestrate" => ~Halted(n)
    PROVE  Proceeds(t)
<1> DEFINE s == state[t]
           m == [n EXCEPT !.pc = node]
<1>1. TurnOK(s, tickets) /\ Kept(s, tickets)
  BY AtHand
<1>2. /\ s.made = NoTicket /\ s.command = NoCommand /\ s.active = s.began.active
      /\ s.began.status = s.ts.status
  BY <1>1 DEF TurnOK, Unserved, Unhelped
<1>3. Moved(n, m, node)
  BY MovedByPc
<1>4. m \in State /\ state' = [state EXCEPT ![t] = m]
  BY DEF State, Goto, Node
<1> HIDE DEF m
<1>5. Halted(m) <=> Halted(n)
  BY <1>3 DEF Halted, Moved
<1>6. Kept(m, tickets)
  <2>1. /\ <<m.began.status, m.ts.status>> \in TsFlow
        /\ m.began.status # m.ts.status => m.kb /\ m.began.active = NoTicket
    BY <1>2, <1>3 DEF Moved, Carried
  <2>2. /\ m.intent.troubled <=> (m.deflection.outcome = "escalated")
        /\ m.deflection.outcome = "escalated" => IsCreate(m)
    BY <1>3 DEF Moved, IsCreate
  <2>3. m.made = NoTicket /\ m.command = NoCommand /\ m.active = m.began.active
    BY <1>2, <1>3 DEF Moved, Carried
  <2>4. ~m.command.troubled /\ m.command.type = "None"
    BY <2>3 DEF NoCommand
  <2>5. {m.active, m.began.active, m.made} \subseteq 0..Len(tickets)
    BY <1>1, <1>3 DEF Moved, Carried, Kept
  <2>6. m.pc \in {"orchestrate", "ticket_tool"} => ~Halted(m)
    BY <1>3, <1>5 DEF Moved
  <2> QED BY <2>1, <2>2, <2>3, <2>4, <2>5, <2>6 DEF Kept
<1>7. GateMoves(GateOf(s), GateOf(m))
  <2>1. GateOf(s) \in {"open", "held"}
    BY <1>2 DEF GateOf, Node, NoCommand
  <2>2. m.pc \in Node /\ m.made = NoTicket /\ m.command = NoCommand
    BY <1>2, <1>3 DEF Moved, Carried, Node
  <2>3. GateOf(m) \in {"open", "held"}
    BY <2>2 DEF GateOf, NoCommand
  <2> QED BY <2>1, <2>3 DEF GateMoves
<1> QED BY <1>4, <1>6, <1>7 DEF Proceeds

\* The model proposes, asks back or is not asked: self-help has not spoken.
LEMMA ConversationProceeds ==
    ASSUME Inv, KeptInv, NEW t \in Thread, state[t].pc = "conversation",
           NEW n \in State, Carried(state[t], n),
           n.ts = state[t].ts, n.deflection = state[t].deflection,
           ~n.intent.troubled,
           Goto(t, n, RouteAfterConversation(n)), UNCHANGED tickets
    PROVE  Proceeds(t)
<1>1. state[t] \in State /\ TurnOK(state[t], tickets)
  BY AtHand
<1>2. n.deflection.outcome = "None"
  BY <1>1 DEF TurnOK, Unhelped, NoDeflection
<1>3. <<state[t].ts.status, n.ts.status>> \in TsFlow
  BY DEF TsFlow, State, Troubleshooting
<1>4. RouteAfterConversation(n) = "orchestrate" => ~Halted(n)
  BY <1>2 DEF RouteAfterConversation, Halted
<1>5. RouteAfterConversation(n) \in {"troubleshoot", "orchestrate", "respond"}
  BY DEF RouteAfterConversation
<1> QED BY <1>1, <1>2, <1>3, <1>4, <1>5, EarlyProceeds

\* The conversation agent: it may release a held gate, or hold it.
LEMMA BypassProceeds ==
    ASSUME Inv, KeptInv, NEW t \in Thread, ConversationBypass(t)
    PROVE  Proceeds(t)
<1> DEFINE s == state[t]
           i == [NoIntent EXCEPT !.name = "AddAttachment", !.confidence = 95,
                                 !.target = s.active, !.files = s.files]
           n == [s EXCEPT !.intent = i, !.clarify = FALSE]
<1>1. s.pc = "conversation" /\ Goto(t, n, RouteAfterConversation(n)) /\ UNCHANGED tickets
  BY DEF ConversationBypass
<1>2. s \in State
  BY AtHand
<1>3. i \in Intent /\ ~i.troubled
  <2>1. s.active \in Nat /\ s.files \in Nat
    BY <1>2 DEF State
  <2> QED BY <2>1 DEF NoIntent, Intent, IntentName
<1> HIDE DEF i
<1>4. /\ n \in State /\ Carried(s, n) /\ n.ts = s.ts /\ n.deflection = s.deflection
      /\ n.intent = i
  BY <1>2, <1>3 DEF State, Carried
<1> HIDE DEF n
<1> QED BY <1>1, <1>3, <1>4, ConversationProceeds

LEMMA IntentProceeds ==
    ASSUME Inv, KeptInv, NEW t \in Thread, ConversationIntent(t)
    PROVE  Proceeds(t)
<1> DEFINE s == state[t]
<1>1. s.pc = "conversation" /\ UNCHANGED tickets
  BY DEF ConversationIntent
<1>2. PICK claim \in Confidences, issue \in BOOLEAN, a \in Analysis(s) :
         LET n == [s EXCEPT !.intent = Proposal(s, claim, a), !.issue = issue, !.clarify = FALSE]
         IN  Goto(t, n, RouteAfterConversation(n))
  BY DEF ConversationIntent
<1> DEFINE i == Proposal(s, claim, a)
           n == [s EXCEPT !.intent = i, !.issue = issue, !.clarify = FALSE]
<1>3. s \in State /\ tickets \in Seq(Ticket)
  BY AtHand
<1>4. i \in Intent /\ ~i.troubled
  <2>1. i \in Intent
    BY <1>3, ProposalType
  <2>2. ~i.troubled
    BY DEF Proposal, NoIntent
  <2> QED BY <2>1, <2>2
<1>5. Goto(t, n, RouteAfterConversation(n))
  BY <1>2
<1> HIDE DEF i
<1>6. /\ n \in State /\ Carried(s, n) /\ n.ts = s.ts /\ n.deflection = s.deflection
      /\ n.intent = i
  BY <1>3, <1>4 DEF State, Carried
<1> HIDE DEF n
<1> QED BY <1>1, <1>4, <1>5, <1>6, ConversationProceeds

LEMMA ClarifyProceeds ==
    ASSUME Inv, KeptInv, NEW t \in Thread, ConversationClarify(t)
    PROVE  Proceeds(t)
<1> DEFINE s == state[t]
<1>1. s.pc = "conversation" /\ UNCHANGED tickets
  BY DEF ConversationClarify
<1>2. PICK text \in {"Clarify", "None", "Apology"}, issue \in BOOLEAN :
         LET n == [s EXCEPT !.issue = issue, !.clarify = TRUE,
                            !.reply = IF s.ts.status = "guiding" THEN @ ELSE text]
         IN  Goto(t, n, RouteAfterConversation(n))
  BY DEF ConversationClarify
<1> DEFINE n == [s EXCEPT !.issue = issue, !.clarify = TRUE,
                          !.reply = IF s.ts.status = "guiding" THEN @ ELSE text]
<1>3. s \in State /\ TurnOK(s, tickets)
  BY AtHand
<1>4. Goto(t, n, RouteAfterConversation(n))
  BY <1>2
<1>5. /\ n \in State /\ Carried(s, n) /\ n.ts = s.ts /\ n.deflection = s.deflection
      /\ n.intent = s.intent
  BY <1>3 DEF State, Carried, Reply
<1>6. ~s.intent.troubled
  BY <1>1, <1>3 DEF TurnOK, NoIntent
<1> HIDE DEF n
<1> QED BY <1>1, <1>4, <1>5, <1>6, ConversationProceeds

\* The same for the next node: the turn moves the status itself.
LEMMA TroubleshootProceeds ==
    ASSUME Inv, KeptInv, NEW t \in Thread, state[t].pc = "troubleshoot",
           NEW n \in State, Carried(state[t], n),
           <<state[t].ts.status, n.ts.status>> \in TsFlow,
           state[t].ts.status # n.ts.status => n.active = NoTicket,
           n.intent.troubled <=> (n.deflection.outcome = "escalated"),
           n.deflection.outcome = "escalated" => n.intent.name = "CreateTicket",
           n.deflection.outcome = "resolved" => n.ts.status = "resolved",
           Goto(t, n, RouteAfterTroubleshoot(n)), UNCHANGED tickets
    PROVE  Proceeds(t)
<1>1. state[t].kb
  BY AtHand DEF TurnOK
<1>2. n.kb
  BY <1>1 DEF Carried
<1>3. RouteAfterTroubleshoot(n) = "orchestrate" => ~Halted(n)
  BY DEF RouteAfterTroubleshoot, Halted
<1>4. RouteAfterTroubleshoot(n) \in {"troubleshoot", "orchestrate", "respond"}
  BY DEF RouteAfterTroubleshoot
<1> QED BY <1>2, <1>3, <1>4, EarlyProceeds

\* Before the node the turn has noted no outcome.
LEMMA Unspoken ==
    ASSUME Inv, KeptInv, NEW t \in Thread, state[t].pc = "troubleshoot"
    PROVE  /\ state[t] \in State
           /\ state[t].deflection.outcome = "None" /\ ~state[t].intent.troubled
<1>1. state[t] \in State /\ TurnOK(state[t], tickets) /\ Kept(state[t], tickets)
  BY AtHand
<1>2. state[t].deflection.outcome = "None"
  BY <1>1 DEF TurnOK, Unhelped, NoDeflection
<1> QED BY <1>1, <1>2 DEF Kept

\* The troubleshooting agent, from its first pass to its last.
LEMMA PassProceeds ==
    ASSUME Inv, KeptInv, NEW t \in Thread, TroubleshootPass(t)
    PROVE  Proceeds(t)
<1>1. state[t].pc = "troubleshoot" /\ UNCHANGED tickets
      /\ Goto(t, state[t], RouteAfterTroubleshoot(state[t]))
  BY DEF TroubleshootPass
<1>2. /\ state[t] \in State
      /\ state[t].deflection.outcome = "None" /\ ~state[t].intent.troubled
  BY <1>1, Unspoken
<1>3. Carried(state[t], state[t]) /\ <<state[t].ts.status, state[t].ts.status>> \in TsFlow
  BY <1>2 DEF Carried, TsFlow, State, Troubleshooting
<1> QED BY <1>1, <1>2, <1>3, TroubleshootProceeds

LEMMA ResolvedProceeds ==
    ASSUME Inv, KeptInv, NEW t \in Thread, GuideResolved(t)
    PROVE  Proceeds(t)
<1> DEFINE s == state[t]
           attempts == s.ts.attempts + s.ts.steps
           n == [s EXCEPT !.ts.status = "resolved", !.ts.attempts = attempts,
                          !.reply = "Resolved", !.clarify = TRUE,
                          !.deflection = [outcome |-> "resolved", steps |-> attempts]]
<1>1. Engages(s, TRUE) /\ Goto(t, n, RouteAfterTroubleshoot(n)) /\ UNCHANGED tickets
  BY DEF GuideResolved
<1>2. s.pc = "troubleshoot" /\ s.active = NoTicket /\ s.ts.status = "guiding"
  BY <1>1 DEF Engages
<1>3. s \in State /\ ~s.intent.troubled
  BY <1>2, Unspoken
<1>4. attempts \in Nat
  BY <1>3 DEF State, Troubleshooting
<1> HIDE DEF attempts
<1>5. n \in State
  BY <1>3, <1>4 DEF State, Troubleshooting, TsStatus, Reply, Deflection
<1>6. /\ Carried(s, n) /\ n.ts.status = "resolved" /\ n.intent = s.intent
      /\ n.deflection = [outcome |-> "resolved", steps |-> attempts]
  BY <1>3 DEF State, Troubleshooting, Carried
<1> HIDE DEF n
<1>7. <<s.ts.status, n.ts.status>> \in TsFlow /\ n.active = NoTicket
  BY <1>2, <1>6 DEF TsFlow, Carried
<1> QED BY <1>1, <1>2, <1>3, <1>5, <1>6, <1>7, TroubleshootProceeds

\* Escalation, from guidance or at once, opens the gate.
LEMMA EscalateProceeds ==
    ASSUME Inv, KeptInv, NEW t \in Thread, state[t].pc = "troubleshoot",
           state[t].active = NoTicket, NEW attempts \in Nat,
           Goto(t, Escalate(state[t], attempts),
                RouteAfterTroubleshoot(Escalate(state[t], attempts))),
           UNCHANGED tickets
    PROVE  Proceeds(t)
<1> DEFINE s == state[t]
           n == Escalate(s, attempts)
<1>1. Arrived(s) /\ s \in State
  BY Arrival DEF Arrived
<1>2. /\ n \in State /\ Carried(s, n) /\ n.ts.status = "escalated"
      /\ n.deflection = [outcome |-> "escalated", steps |-> attempts]
      /\ n.intent.name = "CreateTicket" /\ n.intent.troubled
  BY <1>1, EscalateTurn
<1>3. Goto(t, n, RouteAfterTroubleshoot(n))
  OBVIOUS
<1> HIDE DEF n
<1>4. <<s.ts.status, n.ts.status>> \in TsFlow /\ n.active = NoTicket
  BY <1>1, <1>2 DEF TsFlow, Carried, Arrived
<1> QED BY <1>2, <1>3, <1>4, TroubleshootProceeds

LEMMA FailedProceeds ==
    ASSUME Inv, KeptInv, NEW t \in Thread, GuideFailed(t)
    PROVE  Proceeds(t)
<1> DEFINE attempts == state[t].ts.attempts + state[t].ts.steps
<1>1. attempts \in Nat
  BY DEF Inv, TypeOK, State, Troubleshooting
<1>2. state[t].pc = "troubleshoot" /\ state[t].active = NoTicket
  BY DEF GuideFailed, Engages
<1>3. /\ Goto(t, Escalate(state[t], attempts),
              RouteAfterTroubleshoot(Escalate(state[t], attempts)))
      /\ UNCHANGED tickets
  BY DEF GuideFailed
<1> HIDE DEF attempts
<1> QED BY <1>1, <1>2, <1>3, EscalateProceeds

LEMMA BeginEscalatedProceeds ==
    ASSUME Inv, KeptInv, NEW t \in Thread, BeginEscalated(t)
    PROVE  Proceeds(t)
<1>1. state[t].pc = "troubleshoot" /\ state[t].active = NoTicket
  BY DEF BeginEscalated, Engages
<1>2. /\ Goto(t, Escalate(state[t], 0), RouteAfterTroubleshoot(Escalate(state[t], 0)))
      /\ UNCHANGED tickets
  BY DEF BeginEscalated
<1> QED BY <1>1, <1>2, EscalateProceeds

LEMMA UnclearProceeds ==
    ASSUME Inv, KeptInv, NEW t \in Thread, GuideUnclear(t)
    PROVE  Proceeds(t)
<1> DEFINE s == state[t]
           n == [s EXCEPT !.reply = "Confirm", !.clarify = TRUE]
<1>1. s.pc = "troubleshoot" /\ Goto(t, n, RouteAfterTroubleshoot(n)) /\ UNCHANGED tickets
  BY DEF GuideUnclear, Engages
<1>2. s \in State /\ s.deflection.outcome = "None" /\ ~s.intent.troubled
  BY <1>1, Unspoken
<1>3. /\ n \in State /\ Carried(s, n) /\ n.ts = s.ts /\ n.deflection = s.deflection
      /\ n.intent = s.intent
  BY <1>2 DEF State, Carried, Reply
<1> HIDE DEF n
<1>4. <<s.ts.status, n.ts.status>> \in TsFlow
  BY <1>2, <1>3 DEF TsFlow, State, Troubleshooting
<1> QED BY <1>1, <1>2, <1>3, <1>4, TroubleshootProceeds

LEMMA SkippedProceeds ==
    ASSUME Inv, KeptInv, NEW t \in Thread, BeginSkipped(t)
    PROVE  Proceeds(t)
<1> DEFINE s == state[t]
           n == [s EXCEPT !.ts.status = "skipped"]
<1>1. Engages(s, FALSE) /\ Goto(t, n, RouteAfterTroubleshoot(n)) /\ UNCHANGED tickets
  BY DEF BeginSkipped
<1>2. s.pc = "troubleshoot" /\ s.ts.status # "guiding" /\ s.active = NoTicket
  BY <1>1 DEF Engages
<1>3. Arrived(s) /\ s \in State /\ s.deflection.outcome = "None" /\ ~s.intent.troubled
  BY <1>2, Arrival, Unspoken
<1>4. /\ n \in State /\ Carried(s, n) /\ n.ts.status = "skipped"
      /\ n.deflection = s.deflection /\ n.intent = s.intent
  BY <1>3 DEF State, Carried, Troubleshooting, TsStatus
<1> HIDE DEF n
<1>5. <<s.ts.status, n.ts.status>> \in TsFlow /\ n.active = NoTicket
  BY <1>2, <1>3, <1>4 DEF TsFlow, Carried, Arrived
<1> QED BY <1>1, <1>2, <1>3, <1>4, <1>5, TroubleshootProceeds

LEMMA GuidingProceeds ==
    ASSUME Inv, KeptInv, NEW t \in Thread, BeginGuiding(t)
    PROVE  Proceeds(t)
<1> DEFINE s == state[t]
<1>1. s.pc = "troubleshoot" /\ s.ts.status # "guiding" /\ s.active = NoTicket
      /\ UNCHANGED tickets
  BY DEF BeginGuiding, Engages
<1>2. PICK steps \in 1..MaxSteps :
         LET n == [s EXCEPT !.ts = [status |-> "guiding", steps |-> steps, attempts |-> 0],
                            !.reply = "Guidance", !.clarify = TRUE]
         IN  Goto(t, n, RouteAfterTroubleshoot(n))
  BY DEF BeginGuiding
<1> DEFINE ts == [status |-> "guiding", steps |-> steps, attempts |-> 0]
           n == [s EXCEPT !.ts = ts, !.reply = "Guidance", !.clarify = TRUE]
<1>3. Arrived(s) /\ s \in State /\ s.deflection.outcome = "None" /\ ~s.intent.troubled
  BY <1>1, Arrival, Unspoken
<1>4. ts \in Troubleshooting /\ ts.status = "guiding"
  BY MaxStepsAssumption DEF Troubleshooting, TsStatus
<1>5. Goto(t, n, RouteAfterTroubleshoot(n))
  BY <1>2
<1> HIDE DEF ts
<1>6. /\ n \in State /\ Carried(s, n) /\ n.ts = ts /\ n.deflection = s.deflection
      /\ n.intent = s.intent
  BY <1>3, <1>4 DEF State, Carried, Reply
<1> HIDE DEF n
<1>7. <<s.ts.status, n.ts.status>> \in TsFlow /\ n.active = NoTicket
  BY <1>1, <1>3, <1>4, <1>6 DEF TsFlow, Carried, Arrived
<1> QED BY <1>1, <1>3, <1>5, <1>6, <1>7, TroubleshootProceeds

-----------------------------------------------------------------------------
(***************************************************************************)
(* orchestrate and ticket_tool.  A turn that gets here is not held.        *)
(***************************************************************************)

\* Everything that the contract looks at and these nodes leave alone.
Same(s, n) ==
    /\ n.kb = s.kb /\ n.ts = s.ts /\ n.intent = s.intent
    /\ n.deflection = s.deflection /\ n.began = s.began

\* A turn that leaves one of these nodes for one after it.
LEMMA LateProceeds ==
    ASSUME Inv, KeptInv, NEW t \in Thread, state[t].pc \in {"orchestrate", "ticket_tool"},
           NEW n \in State, NEW node \in {"ticket_tool", "respond", "raised"},
           Goto(t, n, node), UNCHANGED tickets,
           Same(state[t], n), n.made = NoTicket,
           n.command.troubled => n.deflection.outcome = "escalated",
           n.deflection.outcome = "escalated" =>
              n.command.type \in {"None", "CreateTicket"} /\ n.active = state[t].active,
           n.active \in 0..Len(tickets),
           GateMoves(GateOf(state[t]), GateOf([n EXCEPT !.pc = node]))
    PROVE  Proceeds(t)
<1> DEFINE s == state[t]
           m == [n EXCEPT !.pc = node]
<1>1. TurnOK(s, tickets) /\ Kept(s, tickets)
  BY AtHand
<1>2. s.active = s.began.active
  BY <1>1 DEF TurnOK, Unserved
<1>3. Moved(n, m, node)
  BY MovedByPc
<1>4. m \in State /\ state' = [state EXCEPT ![t] = m]
  BY DEF State, Goto, Node
<1> HIDE DEF m
<1>5. ~Halted(m) /\ ~Halted(s)
  BY <1>1, <1>3 DEF Halted, Moved, Same, Kept
<1>6. Kept(m, tickets)
  <2>1. /\ <<m.began.status, m.ts.status>> \in TsFlow
        /\ m.began.status # m.ts.status => m.kb /\ m.began.active = NoTicket
        /\ m.intent.troubled <=> (m.deflection.outcome = "escalated")
        /\ m.deflection.outcome = "escalated" => IsCreate(m)
    BY <1>1, <1>3 DEF Moved, Same, Kept, IsCreate
  <2>2. /\ m.deflection.outcome = "escalated" => m.command.type \in {"None", "CreateTicket"}
        /\ m.command.troubled => m.deflection.outcome = "escalated"
        /\ m.deflection.outcome = "escalated" => m.active = m.began.active
        /\ m.made = NoTicket
    BY <1>2, <1>3 DEF Moved, Same
  <2>3. m.active \in 0..Len(tickets) /\ m.began.active \in 0..Len(tickets)
    BY <1>1, <1>3 DEF Moved, Same, Kept
  <2>4. {m.active, m.began.active, m.made} \subseteq 0..Len(tickets)
    BY <1>1, <2>2, <2>3 DEF Kept, NoTicket
  <2>5. m.pc \notin {"idle", "conversation", "troubleshoot", "orchestrate"}
    BY <1>3 DEF Moved
  <2> QED BY <1>5, <2>1, <2>2, <2>4, <2>5 DEF Kept
<1>7. GateMoves(GateOf(s), GateOf(m))
  BY DEF m
<1> QED BY <1>4, <1>6, <1>7 DEF Proceeds

\* The gate of a turn that runs and is not held shows its command.
LEMMA GateShows ==
    ASSUME NEW s, s.pc \in Node, s.made = NoTicket, ~Halted(s)
    PROVE  GateOf(s) = IF s.command.type = "CreateTicket" THEN "cleared" ELSE "open"
BY DEF GateOf, Halted

\* The policy: only what it approves clears the gate, and only an open one.
LEMMA RejectProceeds ==
    ASSUME Inv, KeptInv, NEW t \in Thread, OrchestrateReject(t)
    PROVE  Proceeds(t)
<1> DEFINE s == state[t]
           v == Validate(s.intent, s.email)
           n == [s EXCEPT !.verdict = v, !.reply = "Rejected", !.clarify = TRUE]
           m == [n EXCEPT !.pc = "respond"]
<1>1. s.pc = "orchestrate" /\ n.verdict # "Approved"
      /\ Goto(t, n, RouteAfterOrchestrate(n)) /\ UNCHANGED tickets
  BY DEF OrchestrateReject
<1>2. s \in State /\ TurnOK(s, tickets) /\ Kept(s, tickets) /\ v \in Verdict
  BY AtHand, ValidateType
<1> HIDE DEF v
<1>3. /\ n \in State /\ Same(s, n) /\ n.made = s.made /\ n.active = s.active
      /\ n.command = s.command
  BY <1>2 DEF State, Reply, Same
<1>4. RouteAfterOrchestrate(n) = "respond"
  BY <1>1 DEF RouteAfterOrchestrate
<1> HIDE DEF n
<1>5. s.made = NoTicket /\ s.command = NoCommand /\ ~Halted(s)
  BY <1>1, <1>2 DEF TurnOK, Unserved, Kept
<1>6. Moved(n, m, "respond")
  BY <1>3, MovedByPc
<1> HIDE DEF m
<1>7. GateOf(m) = GateOf(s)
  <2>1. m.pc \in Node /\ m.made = NoTicket /\ ~Halted(m) /\ m.command = s.command
    BY <1>3, <1>5, <1>6 DEF Moved, Same, Halted, Node
  <2> QED BY <1>1, <1>5, <2>1, GateShows DEF Node
<1>8. GateMoves(GateOf(s), GateOf([n EXCEPT !.pc = "respond"]))
  BY <1>7 DEF GateMoves, m
<1>9. ~n.command.troubled /\ n.command.type = "None" /\ n.active \in 0..Len(tickets)
  BY <1>2, <1>3, <1>5 DEF NoCommand, Kept
<1> QED BY <1>1, <1>3, <1>4, <1>5, <1>8, <1>9, LateProceeds

LEMMA ApproveProceeds ==
    ASSUME Inv, KeptInv, NEW t \in Thread, OrchestrateApprove(t)
    PROVE  Proceeds(t)
<1> DEFINE s == state[t]
           c == BuildCommand(s.intent)
           n == [s EXCEPT !.verdict = "Approved", !.command = c]
           m == [n EXCEPT !.pc = "ticket_tool"]
<1>1. s.pc = "orchestrate" /\ Validate(s.intent, s.email) = "Approved"
      /\ Buildable(s.intent)
      /\ Goto(t, n, RouteAfterOrchestrate(n)) /\ UNCHANGED tickets
  BY DEF OrchestrateApprove
<1>2. s \in State /\ TurnOK(s, tickets) /\ Kept(s, tickets)
  BY AtHand
<1>3. s.intent \in Intent /\ s.email \in BOOLEAN /\ s.intent.name # "None"
  BY <1>1, <1>2 DEF State, TurnOK
<1>4. c \in Command /\ c.type \in CommandType
  BY <1>1, <1>3, ApprovedCommand
<1>5. c.troubled => s.intent.troubled
  BY DEF BuildCommand, NoCommand
<1>6. s.intent.name = "CreateTicket" => c.type = "CreateTicket"
  BY DEF BuildCommand
<1> HIDE DEF c
<1>7. /\ n \in State /\ n.verdict = "Approved" /\ n.command = c /\ Same(s, n)
      /\ n.made = s.made /\ n.active = s.active
  BY <1>2, <1>4 DEF State, Verdict, Same
<1>8. RouteAfterOrchestrate(n) = "ticket_tool"
  BY <1>4, <1>7 DEF RouteAfterOrchestrate
<1> HIDE DEF n
<1>9. s.made = NoTicket /\ s.command = NoCommand /\ ~Halted(s)
  BY <1>1, <1>2 DEF TurnOK, Unserved, Kept
<1>10. Moved(n, m, "ticket_tool")
  BY <1>7, MovedByPc
<1> HIDE DEF m
<1>11. GateMoves(GateOf(s), GateOf(m))
  <2>1. m.pc \in Node /\ m.made = NoTicket /\ ~Halted(m)
    BY <1>7, <1>9, <1>10 DEF Moved, Same, Halted, Node
  <2>2. GateOf(m) \in {"cleared", "open"}
    BY <2>1, GateShows
  <2>3. GateOf(s) = "open"
    BY <1>1, <1>9, GateShows DEF Node, NoCommand
  <2> QED BY <2>2, <2>3 DEF GateMoves
<1>12. GateMoves(GateOf(s), GateOf([n EXCEPT !.pc = "ticket_tool"]))
  BY <1>11 DEF m
<1>13. n.deflection.outcome = "escalated" => n.command.type = "CreateTicket"
  BY <1>2, <1>6, <1>7 DEF Kept, IsCreate, Same
<1>14. n.command.troubled => n.deflection.outcome = "escalated"
  BY <1>2, <1>5, <1>7 DEF Kept, Same
<1>15. n.active \in 0..Len(tickets)
  BY <1>2, <1>7 DEF Kept
<1> QED BY <1>1, <1>7, <1>8, <1>9, <1>12, <1>13, <1>14, <1>15, LateProceeds

\* The exception ends the turn, and its gate closes.
LEMMA RaiseProceeds ==
    ASSUME Inv, KeptInv, NEW t \in Thread, OrchestrateRaise(t)
    PROVE  Proceeds(t)
<1> DEFINE s == state[t]
           m == [s EXCEPT !.pc = "raised"]
<1>1. s.pc = "orchestrate" /\ Goto(t, s, "raised") /\ UNCHANGED tickets
  BY DEF OrchestrateRaise
<1>2. s \in State /\ TurnOK(s, tickets) /\ Kept(s, tickets)
  BY AtHand
<1>3. s.made = NoTicket /\ s.command = NoCommand /\ ~Halted(s)
  BY <1>1, <1>2 DEF TurnOK, Unserved, Kept
<1>4. Moved(s, m, "raised")
  BY <1>2, MovedByPc
<1> HIDE DEF m
<1>5. GateMoves(GateOf(s), GateOf(m))
  <2>1. GateOf(m) = "closed"
    BY <1>4 DEF GateOf, Moved, Node
  <2>2. GateOf(s) = "open"
    BY <1>1, <1>3, GateShows DEF Node, NoCommand
  <2> QED BY <2>1, <2>2 DEF GateMoves
<1>6. GateMoves(GateOf(s), GateOf([s EXCEPT !.pc = "raised"]))
  BY <1>5 DEF m
<1>7. ~s.command.troubled /\ s.command.type = "None" /\ s.active \in 0..Len(tickets)
  BY <1>2, <1>3 DEF NoCommand, Kept
<1>8. Same(s, s)
  BY DEF Same
<1> QED BY <1>1, <1>2, <1>3, <1>6, <1>7, <1>8, LateProceeds

\* The tool answers without having filed a ticket.
LEMMA ToolProceeds ==
    ASSUME Inv, KeptInv, NEW t \in Thread, state[t].pc = "ticket_tool",
           NEW n \in State, Goto(t, n, "respond"), UNCHANGED tickets,
           Same(state[t], n), n.made = state[t].made, n.command = state[t].command,
           n.active = state[t].active \/ n.command.type \in {"SearchTickets", "AddAttachment"},
           n.active \in 0..Len(tickets)
    PROVE  Proceeds(t)
<1> DEFINE s == state[t]
           m == [n EXCEPT !.pc = "respond"]
<1>1. s \in State /\ TurnOK(s, tickets) /\ Kept(s, tickets)
  BY AtHand
<1>2. s.made = NoTicket /\ ~Halted(s)
  BY <1>1 DEF TurnOK, Kept
<1>3. Moved(n, m, "respond")
  BY MovedByPc
<1> HIDE DEF m
<1>4. GateOf(m) = GateOf(s)
  <2>1. m.pc \in Node /\ m.made = NoTicket /\ ~Halted(m) /\ m.command = s.command
    BY <1>2, <1>3 DEF Moved, Same, Halted, Node
  <2> QED BY <1>2, <2>1, GateShows DEF Node
<1>5. GateMoves(GateOf(s), GateOf([n EXCEPT !.pc = "respond"]))
  BY <1>4 DEF GateMoves, m
<1>6. /\ n.command.troubled => n.deflection.outcome = "escalated"
      /\ n.deflection.outcome = "escalated" => n.command.type \in {"None", "CreateTicket"}
  BY <1>1 DEF Kept, Same
<1> QED BY <1>2, <1>5, <1>6, LateProceeds

\* The ticket tool, where it raises no ticket.
LEMMA UnconfiguredProceeds ==
    ASSUME Inv, KeptInv, NEW t \in Thread, ToolUnconfigured(t)
    PROVE  Proceeds(t)
<1> DEFINE s == state[t]
           n == [s EXCEPT !.reply = "Unconfigured", !.clarify = TRUE]
<1>1. s.pc = "ticket_tool" /\ Goto(t, n, "respond") /\ UNCHANGED tickets
  BY DEF ToolUnconfigured
<1>2. s \in State /\ Kept(s, tickets)
  BY AtHand
<1>3. /\ n \in State /\ Same(s, n) /\ n.made = s.made /\ n.command = s.command
      /\ n.active = s.active
  BY <1>2 DEF State, Reply, Same
<1> HIDE DEF n
<1>4. n.active \in 0..Len(tickets)
  BY <1>2, <1>3 DEF Kept
<1> QED BY <1>1, <1>3, <1>4, ToolProceeds

LEMMA ErrorProceeds ==
    ASSUME Inv, KeptInv, NEW t \in Thread, ToolError(t)
    PROVE  Proceeds(t)
<1> DEFINE s == state[t]
           n == CallFailed(s)
<1>1. s.pc = "ticket_tool" /\ Goto(t, n, "respond") /\ UNCHANGED tickets
  BY DEF ToolError
<1>2. s \in State /\ Kept(s, tickets)
  BY AtHand
<1>3. /\ n \in State /\ Same(s, n) /\ n.made = s.made /\ n.command = s.command
      /\ n.active = s.active
  BY <1>2 DEF State, Reply, Same, CallFailed
<1> HIDE DEF n
<1>4. n.active \in 0..Len(tickets)
  BY <1>2, <1>3 DEF Kept
<1> QED BY <1>1, <1>3, <1>4, ToolProceeds

LEMMA AddProceeds ==
    ASSUME Inv, KeptInv, NEW t \in Thread, NEW answered \in BOOLEAN, AddAttachment(t, answered)
    PROVE  Proceeds(t)
<1> DEFINE s == state[t]
           added == [s EXCEPT !.sent = s.command.files]
           told == [added EXCEPT !.active = s.command.target, !.reply = "Attached"]
           n == IF answered THEN told ELSE CallFailed(added)
<1>1. s.pc = "ticket_tool" /\ Goto(t, n, "respond") /\ UNCHANGED tickets
      /\ s.command.type = "AddAttachment" /\ s.command.target \in DOMAIN tickets
  BY DEF AddAttachment
<1>2. s \in State /\ Kept(s, tickets) /\ tickets \in Seq(Ticket)
  BY AtHand
<1>3. s.command.files \in Nat /\ s.command.target \in Nat
  BY <1>2 DEF State, Command
<1>4. /\ added \in State /\ Same(s, added) /\ added.made = s.made
      /\ added.command = s.command /\ added.active = s.active
  BY <1>2, <1>3 DEF State, Same
<1> HIDE DEF added
<1>5. /\ n \in State /\ Same(s, n) /\ n.made = s.made /\ n.command = s.command
      /\ n.active \in {s.active, s.command.target}
  <2>1. CASE answered
    BY <1>3, <1>4, <2>1 DEF State, Same, Reply
  <2>2. CASE ~answered
    BY <1>3, <1>4, <2>2 DEF State, Same, Reply, CallFailed
  <2> QED BY <2>1, <2>2
<1> HIDE DEF n
<1>6. n.active \in 0..Len(tickets)
  BY <1>1, <1>2, <1>5 DEF Kept
<1> QED BY <1>1, <1>5, <1>6, ToolProceeds

LEMMA SearchProceeds ==
    ASSUME Inv, KeptInv, NEW t \in Thread, SearchTickets(t)
    PROVE  Proceeds(t)
<1> DEFINE s == state[t]
           found(hit) == [s EXCEPT !.active = hit, !.reply = "Found",
                                   !.card = [type |-> "ticket_status", number |-> hit]]
           asked(r) == [s EXCEPT !.reply = r, !.clarify = TRUE]
<1>1. s.pc = "ticket_tool" /\ s.command.type = "SearchTickets" /\ UNCHANGED tickets
  BY DEF SearchTickets
<1>2. s \in State /\ Kept(s, tickets) /\ tickets \in Seq(Ticket)
  BY AtHand
<1>3. ASSUME NEW hit \in DOMAIN tickets, Goto(t, found(hit), "respond")
      PROVE  Proceeds(t)
  <2> DEFINE n == found(hit)
  <2>1. hit \in Nat /\ hit \in 0..Len(tickets)
    BY <1>2
  <2>2. /\ n \in State /\ Same(s, n) /\ n.made = s.made /\ n.command = s.command
        /\ n.active = hit
    BY <1>2, <2>1 DEF State, Reply, Card, Same
  <2> HIDE DEF n
  <2>3. Goto(t, n, "respond")
    BY <1>3 DEF n
  <2> QED BY <1>1, <2>1, <2>2, <2>3, ToolProceeds
<1>4. ASSUME NEW r \in {"Choose", "NotFound"}, Goto(t, asked(r), "respond")
      PROVE  Proceeds(t)
  <2> DEFINE n == asked(r)
  <2>1. /\ n \in State /\ Same(s, n) /\ n.made = s.made /\ n.command = s.command
        /\ n.active = s.active
    BY <1>2 DEF State, Reply, Same
  <2> HIDE DEF n
  <2>2. Goto(t, n, "respond") /\ n.active \in 0..Len(tickets)
    BY <1>2, <1>4, <2>1 DEF n, Kept
  <2> QED BY <1>1, <2>1, <2>2, ToolProceeds
<1>5. \/ \E hit \in DOMAIN tickets : Goto(t, found(hit), "respond")
      \/ Goto(t, asked("Choose"), "respond")
      \/ Goto(t, asked("NotFound"), "respond")
  BY DEF SearchTickets
<1> QED BY <1>3, <1>4, <1>5

\* The one step that files a ticket: its gate is cleared, and is spent by it;
\* the ticket has the record that the escalation of this turn left.
LEMMA CreateFiles ==
    ASSUME Inv, KeptInv, NEW t \in Thread, NEW answered \in BOOLEAN, CreateTicket(t, answered)
    PROVE  /\ KeptInv'
           /\ [Gate!Next]_<<[u \in Thread |-> GateOf(state[u])], Len(tickets)>>
<1> DEFINE s == state[t]
           number == Len(tickets) + 1
           filed == [s EXCEPT !.made = number, !.sent = s.command.files]
           told == [filed EXCEPT !.active = number,
                                 !.card = [type |-> "ticket_created", number |-> number]]
           n == IF answered THEN told ELSE CallFailed(filed)
           m == [n EXCEPT !.pc = "respond"]
<1>1. s.pc = "ticket_tool" /\ s.command.type = "CreateTicket"
      /\ tickets' = Append(tickets, NewTicket(s.command)) /\ Goto(t, n, "respond")
  BY DEF CreateTicket, FileTicket
<1>2. s \in State /\ TurnOK(s, tickets) /\ Kept(s, tickets) /\ tickets \in Seq(Ticket)
  BY AtHand
<1>3. /\ s.command.files \in Nat /\ NewTicket(s.command) \in Ticket
      /\ number \in Nat \ {0}
  BY <1>2 DEF State, Command, NewTicket, Ticket
<1>4. /\ Grown /\ Len(tickets') = number /\ tickets'[number] = NewTicket(s.command)
      /\ Len(tickets') = Len(tickets) + 1
  BY <1>1, <1>2, <1>3 DEF Grown
<1> HIDE DEF number
<1>5. /\ filed \in State /\ Same(s, filed) /\ filed.made = number
      /\ filed.command = s.command /\ filed.active = s.active
  BY <1>2, <1>3 DEF State, Same
<1> HIDE DEF filed
<1>6. /\ n \in State /\ Same(s, n) /\ n.made = number /\ n.command = s.command
      /\ n.active \in {s.active, number}
  <2>1. CASE answered
    BY <1>3, <1>5, <2>1 DEF State, Same, Card
  <2>2. CASE ~answered
    BY <1>3, <1>5, <2>2 DEF State, Same, Reply, CallFailed
  <2> QED BY <2>1, <2>2
<1> HIDE DEF n
<1>7. Moved(n, m, "respond")
  BY <1>6, MovedByPc
<1>8. m \in State /\ state' = [state EXCEPT ![t] = m]
  BY <1>1, <1>6 DEF State, Goto, Node
<1> HIDE DEF m
<1>9. s.made = NoTicket /\ s.active = s.began.active /\ ~Halted(s)
  BY <1>1, <1>2 DEF TurnOK, Kept
<1>10. ~Halted(m)
  BY <1>6, <1>7, <1>9 DEF Halted, Moved, Same
<1>11. Kept(m, tickets')
  <2>1. /\ <<m.began.status, m.ts.status>> \in TsFlow
        /\ m.began.status # m.ts.status => m.kb /\ m.began.active = NoTicket
        /\ m.intent.troubled <=> (m.deflection.outcome = "escalated")
        /\ m.deflection.outcome = "escalated" => IsCreate(m)
        /\ m.command.troubled => m.deflection.outcome = "escalated"
    BY <1>2, <1>6, <1>7 DEF Moved, Same, Kept, IsCreate
  <2>2. m.command.type = "CreateTicket" /\ m.made = number
        /\ m.active \in {m.began.active, m.made}
    BY <1>1, <1>6, <1>7, <1>9 DEF Moved, Same
  <2>3. tickets'[m.made].troubled => m.deflection.outcome = "escalated"
    BY <1>4, <2>1, <1>6, <1>7, <2>2 DEF NewTicket, Moved
  <2>4. m.began.active \in 0..Len(tickets)
    BY <1>2, <1>6, <1>7 DEF Kept, Moved, Same
  <2>5. {m.active, m.began.active, m.made} \subseteq 0..Len(tickets')
    <3>1. Len(tickets) \in Nat /\ Len(tickets') \in Nat
      BY <1>2, <1>4 DEF Grown
    <3>2. 0..Len(tickets) \subseteq 0..Len(tickets')
      BY <1>4, <3>1
    <3>3. number \in 0..Len(tickets')
      BY <1>4, <3>1
    <3> QED BY <2>2, <2>4, <3>2, <3>3
  <2>6. m.pc = "respond"
    BY <1>7 DEF Moved
  <2> QED BY <1>10, <2>1, <2>2, <2>3, <2>5, <2>6 DEF Kept
<1>12. KeptInv'
  BY <1>4, <1>8, <1>11, KeptStep
<1>13. GateOf(s) = "cleared"
  BY <1>1, <1>9, GateShows DEF Node
<1>14. GateOf(m) = "spent"
  BY <1>3, <1>6, <1>7 DEF GateOf, Moved, Node, NoTicket
<1> DEFINE gate == [u \in Thread |-> GateOf(state[u])]
<1>15. Gate!File(t)
  <2>1. state \in [Thread -> State]
    BY DEF Inv, TypeOK
  <2>2. gate' = [gate EXCEPT ![t] = "spent"] /\ gate[t] = "cleared"
    BY <1>8, <1>13, <1>14, <2>1
  <2> QED BY <1>4, <2>2 DEF Gate!File
<1> QED BY <1>12, <1>15 DEF Gate!Next

-----------------------------------------------------------------------------
(***************************************************************************)
(* respond and the thread                                                  *)
(***************************************************************************)

\* A turn that ends, in whatever way, keeps what it has made.
LEMMA EndProceeds ==
    ASSUME Inv, KeptInv, NEW t \in Thread, state[t].pc \in Node,
           NEW n \in State, NEW node \in {"done", "cancelled"},
           Goto(t, n, node), UNCHANGED tickets,
           Same(state[t], n), n.made = state[t].made, n.command = state[t].command,
           n.active = state[t].active
    PROVE  Proceeds(t)
<1> DEFINE s == state[t]
           m == [n EXCEPT !.pc = node]
<1>1. s \in State /\ Kept(s, tickets)
  BY AtHand
<1>2. Moved(n, m, node)
  BY MovedByPc
<1>3. m \in State /\ state' = [state EXCEPT ![t] = m]
  BY DEF State, Goto
<1> HIDE DEF m
<1>4. Halted(m) <=> Halted(s)
  BY <1>2 DEF Halted, Moved, Same
<1>5. Kept(m, tickets)
  BY <1>1, <1>2, <1>4 DEF Kept, Moved, Same, IsCreate
<1>6. GateOf(s) # "closed"
  BY DEF GateOf
<1>7. GateOf(m) = "closed"
  BY <1>2 DEF GateOf, Moved, Node
<1> QED BY <1>3, <1>5, <1>6, <1>7 DEF Proceeds, GateMoves

\* The turn is answered, or given up.
LEMMA RespondProceeds ==
    ASSUME Inv, KeptInv, NEW t \in Thread, Respond(t)
    PROVE  Proceeds(t)
<1> DEFINE s == state[t]
           r == FinalReply(s)
           n == [s EXCEPT !.reply = r]
<1>1. s.pc = "respond" /\ Goto(t, n, "done") /\ UNCHANGED tickets
  BY DEF Respond
<1>2. s \in State
  BY AtHand
<1>3. r \in Reply
  BY <1>2 DEF FinalReply, State, Reply
<1> HIDE DEF r
<1>4. /\ n \in State /\ Same(s, n) /\ n.made = s.made /\ n.command = s.command
      /\ n.active = s.active
  BY <1>2, <1>3 DEF State, Same
<1> HIDE DEF n
<1> QED BY <1>1, <1>4, EndProceeds DEF Node

LEMMA CancelProceeds ==
    ASSUME Inv, KeptInv, NEW t \in Thread, Cancel(t)
    PROVE  Proceeds(t)
<1>1. state[t].pc \in Node /\ Goto(t, state[t], "cancelled") /\ UNCHANGED tickets
  BY DEF Cancel
<1>2. state[t] \in State /\ Same(state[t], state[t])
  BY AtHand DEF Same
<1> QED BY <1>1, <1>2, EndProceeds

\* A thread that has not begun has a closed gate.
LEMMA IdleKept ==
    ASSUME NEW held, Len(held) \in Nat
    PROVE  Kept(Idle, held) /\ GateOf(Idle) = "closed"
<1>1. /\ Idle.pc = "idle" /\ ~Idle.kb /\ Idle.ts = NoTroubleshooting
      /\ Idle.active = NoTicket /\ Idle.began = [status |-> "none", active |-> NoTicket]
      /\ Idle.intent = NoIntent /\ Idle.command = NoCommand
      /\ Idle.deflection = NoDeflection /\ Idle.made = NoTicket
  BY DEF Idle, FreshTurn, NoTroubleshooting
<1> QED BY <1>1
        DEF Kept, GateOf, Node, Halted, NoTroubleshooting, NoIntent, NoCommand, NoDeflection,
            NoTicket, TsFlow, TsStatus

\* A turn begins with the gate open, or held by the guidance of an earlier turn.
LEMMA StartProceeds ==
    ASSUME Inv, KeptInv, NEW t \in Thread, AnyTurn(t)
    PROVE  Proceeds(t)
<1>1. PICK kb \in BOOLEAN, email \in BOOLEAN, files \in FileCounts,
           ts \in SessionTroubleshooting, active \in 0..Len(tickets) :
         StartTurn(t, kb, email, files, ts, active)
  BY DEF AnyTurn
<1> DEFINE m == FreshTurn(kb, email, files, ts, active)
<1>2. tickets \in Seq(Ticket)
  BY AtHand
<1>3. ts \in Troubleshooting
  BY MaxStepsAssumption
     DEF SessionTroubleshooting, Troubleshooting, TsStatus, NoTroubleshooting
<1>4. state[t].pc = "idle" /\ state' = [state EXCEPT ![t] = m] /\ UNCHANGED tickets
  BY <1>1 DEF StartTurn
<1>5. m \in State
  <2>1. files \in Nat /\ active \in Nat
    BY <1>2, FileCountsAssumption
  <2>2. NoIntent \in Intent /\ NoCommand \in Command /\ NoCard \in Card
        /\ NoDeflection \in Deflection
    BY DEF NoIntent, Intent, NoCommand, Command, NoCard, Card, NoTicket, NoDeflection,
           Deflection
  <2>3. [status |-> ts.status, active |-> active] \in [status : TsStatus, active : Nat]
    BY <1>3, <2>1 DEF Troubleshooting
  <2> QED BY <1>3, <2>1, <2>2, <2>3 DEF FreshTurn, State, Node, Reply, Verdict, NoTicket
<1>6. /\ m.pc = "conversation" /\ m.command = NoCommand /\ m.made = NoTicket
      /\ m.active = active /\ m.began = [status |-> ts.status, active |-> active]
      /\ m.ts = ts /\ m.deflection = NoDeflection /\ m.intent = NoIntent
  BY DEF FreshTurn
<1> HIDE DEF m
<1>7. Kept(m, tickets)
  <2>1. <<ts.status, ts.status>> \in TsFlow
    BY <1>3 DEF TsFlow, Troubleshooting
  <2>2. {m.active, m.began.active, m.made} \subseteq 0..Len(tickets)
    BY <1>2, <1>6 DEF NoTicket
  <2> QED BY <1>6, <2>1, <2>2 DEF Kept, NoIntent, NoCommand, NoDeflection, Halted
<1>8. GateOf(state[t]) = "closed"
  BY <1>4 DEF GateOf, Node
<1>9. GateOf(m) \in {"open", "held"}
  BY <1>6 DEF GateOf, Node, NoCommand
<1> QED BY <1>4, <1>5, <1>7, <1>8, <1>9 DEF Proceeds, GateMoves

\* A turn that has ended leaves the gate closed.
LEMMA DropProceeds ==
    ASSUME Inv, KeptInv, NEW t \in Thread, EndTurn(t)
    PROVE  Proceeds(t)
<1>1. state[t].pc \in Over /\ state' = [state EXCEPT ![t] = Idle] /\ UNCHANGED tickets
  BY DEF EndTurn
<1>2. Idle \in State /\ Kept(Idle, tickets) /\ GateOf(Idle) = "closed"
  BY AtHand, IdleType, IdleKept
<1>3. GateOf(state[t]) = "closed"
  BY <1>1 DEF GateOf, Over, Node
<1> QED BY <1>1, <1>2, <1>3 DEF Proceeds, GateMoves

-----------------------------------------------------------------------------
(***************************************************************************)
(* The theorems                                                            *)
(***************************************************************************)
LEMMA TurnInit == Init => KeptInv /\ Gate!Init
<1> SUFFICES ASSUME Init PROVE KeptInv /\ Gate!Init
  OBVIOUS
<1>1. state = [t \in Thread |-> Idle] /\ tickets = <<>> /\ Len(tickets) = 0
  BY DEF Init
<1>2. Kept(Idle, tickets) /\ GateOf(Idle) = "closed"
  BY <1>1, IdleKept
<1> QED BY <1>1, <1>2 DEF KeptInv, Gate!Init

\* Every step of the graph is one of the gate, or none.
LEMMA TurnNext ==
    Inv /\ KeptInv /\ [Next]_vars =>
        /\ KeptInv'
        /\ [Gate!Next]_<<[t \in Thread |-> GateOf(state[t])], Len(tickets)>>
<1> DEFINE Goal == /\ KeptInv'
                   /\ [Gate!Next]_<<[t \in Thread |-> GateOf(state[t])], Len(tickets)>>
<1> SUFFICES ASSUME Inv, KeptInv, [Next]_vars PROVE Goal
  OBVIOUS
<1>1. CASE UNCHANGED vars
  BY <1>1 DEF vars, KeptInv
<1>2. ASSUME NEW t \in Thread, Proceeds(t) PROVE Goal
  BY <1>2, Proceeding
<1> HIDE DEF Goal
<1>3. ASSUME NEW t \in Thread, AnyTurn(t) \/ Cancel(t) \/ EndTurn(t)
      PROVE  Goal
  BY <1>2, <1>3, StartProceeds, CancelProceeds, DropProceeds
<1>4. ASSUME NEW t \in Thread, Conversation(t)
      PROVE  Goal
  BY <1>2, <1>4, BypassProceeds, IntentProceeds, ClarifyProceeds DEF Conversation
<1>5. ASSUME NEW t \in Thread, Troubleshoot(t)
      PROVE  Goal
  BY <1>2, <1>5, PassProceeds, ResolvedProceeds, FailedProceeds, UnclearProceeds,
     BeginEscalatedProceeds, SkippedProceeds, GuidingProceeds DEF Troubleshoot
<1>6. ASSUME NEW t \in Thread, Orchestrate(t)
      PROVE  Goal
  BY <1>2, <1>6, RejectProceeds, ApproveProceeds, RaiseProceeds DEF Orchestrate
<1>7. ASSUME NEW t \in Thread, TicketTool(t)
      PROVE  Goal
  <2>1. ASSUME NEW answered \in BOOLEAN, CreateTicket(t, answered) PROVE Goal
    BY <2>1, CreateFiles DEF Goal
  <2> QED BY <1>2, <1>7, <2>1, UnconfiguredProceeds, ErrorProceeds, AddProceeds,
             SearchProceeds DEF TicketTool
<1>8. ASSUME NEW t \in Thread, RunNode(t)
      PROVE  Goal
  BY <1>2, <1>4, <1>5, <1>6, <1>7, <1>8, RespondProceeds DEF RunNode
<1> QED BY <1>1, <1>3, <1>8 DEF Next

\* Kept holds of every turn in every reachable state.
THEOREM TurnsKept == Spec => []KeptInv
<1>1. Init => KeptInv
  BY TurnInit
<1>2. Inv /\ KeptInv /\ [Next]_vars => KeptInv'
  BY TurnNext
<1> QED BY <1>1, <1>2, Invariance, PTL DEF Spec

\* A finished turn is one of those the chat service reckons with: forward
\* moves of the troubleshoot status, one note for each outcome, the record in
\* the ticket of the turn that escalated and in no other, self-help before
\* tickets, and no number the help desk did not give out.
THEOREM ContractKept == Spec => []KeepsTurnContract
<1>1. Inv /\ KeptInv => KeepsTurnContract
  <2> SUFFICES ASSUME Inv, KeptInv, NEW t \in Thread, state[t].pc = "done"
               PROVE  /\ MayEnd([kb |-> state[t].kb, status |-> state[t].began.status,
                                 active |-> state[t].began.active], TurnEnd(state[t]))
                      /\ {state[t].made, state[t].active} \subseteq 0..Len(tickets)
    BY DEF KeepsTurnContract
  <2> DEFINE s == state[t]
             b == [kb |-> s.kb, status |-> s.began.status, active |-> s.began.active]
             e == TurnEnd(s)
  <2>1. s \in State /\ Outcome(s, tickets) /\ Kept(s, tickets) /\ tickets \in Seq(Ticket)
    BY AtHand DEF TurnOK
  <2>2. /\ e.status = s.ts.status /\ e.made = s.made /\ e.active = s.active
        /\ e.troubled = (s.made # NoTicket /\ tickets[s.made].troubled)
        /\ e.outcome = s.deflection.outcome
        /\ b.kb = s.kb /\ b.status = s.began.status /\ b.active = s.began.active
    BY DEF TurnEnd
  <2> HIDE DEF b, e
  <2>3. StatusMoves(b, e)
    BY <2>1, <2>2 DEF StatusMoves, Kept, NoTicket
  <2>4. OutcomeNoted(b, e)
    <3>1. s.deflection.outcome \in {"None", "resolved", "escalated"}
      BY <2>1 DEF State, Deflection
    <3> QED BY <2>1, <2>2, <3>1 DEF OutcomeNoted, Outcome, Helped
  <2>5. RecordEnclosed(b, e)
    <3>1. s.made # NoTicket =>
             (tickets[s.made].troubled <=> s.deflection.outcome = "escalated")
      BY <2>1 DEF Kept, Outcome, Enriched
    <3>2. s.made # NoTicket => tickets[s.made] \in Ticket
      BY <2>1, ElementOfSeq DEF Outcome
    <3>3. s.made # NoTicket => tickets[s.made].troubled \in BOOLEAN
      BY <3>2 DEF Ticket
    <3> QED BY <2>2, <3>1, <3>3 DEF RecordEnclosed, NoTicket
  <2>6. SelfHelpHolds(b, e)
    BY <2>1, <2>2 DEF SelfHelpHolds, Kept, Halted, Outcome, Released, NoTicket
  <2>7. OwnTicketReported(b, e)
    BY <2>1, <2>2 DEF OwnTicketReported, Kept, NoTicket
  <2>8. {s.made, s.active} \subseteq 0..Len(tickets)
    BY <2>1 DEF Kept
  <2>9. MayEnd(b, e)
    BY <2>3, <2>4, <2>5, <2>6, <2>7 DEF MayEnd
  <2> QED BY <2>8, <2>9 DEF b, e
<1> QED BY <1>1, Invariance, TurnsKept, PTL

\* The graph implements the gate: each turn files at most one ticket, only
\* after the policy cleared it, and never while self-help holds the turn.
THEOREM GraphImplementsGate == Spec => ImplementsTicketGate
<1>1. Init => Gate!Init
  BY TurnInit
<1>2. Inv /\ KeptInv /\ [Next]_vars =>
         [Gate!Next]_<<[t \in Thread |-> GateOf(state[t])], Len(tickets)>>
  BY TurnNext
<1> QED BY <1>1, <1>2, Invariance, TurnsKept, PTL DEF Spec, ImplementsTicketGate, Gate!Spec
=============================================================================
