------------------------- MODULE ZammadClientProofs -------------------------
(***************************************************************************)
(* Proofs about ZammadClient for any number of commands and attempts: its  *)
(* invariants, and that it implements AtMostOnce.                          *)
(*                                                                         *)
(* None of the properties is inductive.  What an answer says must already  *)
(* be known of the help desk when the answer is sent, since it may be read *)
(* much later (Answered); and what is on its way or done must never be     *)
(* ahead of the coroutine it belongs to (Sent).                            *)
(***************************************************************************)
EXTENDS ZammadClient, TLAPS

Filed(c) == \E q \in effects : q.call = c

Hit(c) ==
    \E a \in answers : a.request.call = c /\ a.request.method = "GET" /\ a.status = "success"

\* Success of a POST means that its command has had its effect; a POST that was
\* refused is not under way and has had none.
Answered ==
    \A a \in answers :
        /\ (a.request.method = "POST" /\ a.status \in {"success", "empty"})
              => Filed(a.request.call)
        /\ (a.request.method = "POST" /\ a.status = "refused")
              => a.request \notin wire \cup effects

\* A POST is of the current request of its coroutine, and of an attempt that
\* was sent.
SentBy(q, s) ==
    /\ s.method = "POST"
    /\ q.attempt < s.attempt \/ (q.attempt = s.attempt /\ s.pc # "ready")

Sent ==
    /\ \A q \in wire \cup effects : q.method = "POST" => SentBy(q, call[q.call])
    /\ \A a \in answers : a.request.method = "POST" => SentBy(a.request, call[a.request.call])

\* No request is served twice, and only POSTs have effects.
ServedOnce == wire \cap effects = {} /\ \A q \in effects : q.method = "POST"

\* What a coroutine knows by its own state.
Knows(c, s) ==
    /\ (s.pc # "idle" /\ s.command = "CreateTicket") => s.method = "POST"
    /\ (s.pc = "idle" \/ s.command = "SearchTickets") => s.method = "GET"
    /\ s.pc = "backoff" => ~LastAttempt(s)
    /\ (s.command = "AddAttachment" /\ s.method = "POST") => Hit(c)
    /\ (s.pc = "over" /\ s.error = "None" /\ s.command # "SearchTickets") => Filed(c)
    /\ s.error # "None" => s.pc = "over"
    /\ (s.error = "REFUSED" /\ s.attempt = 0)
          => \A q \in wire \cup effects : q.call = c => q.method = "GET"

Knowledge == \A c \in Call : Knows(c, call[c])

IInv == TypeOK /\ Answered /\ Sent /\ ServedOnce /\ Knowledge

-----------------------------------------------------------------------------
(***************************************************************************)
(* The client's steps                                                      *)
(***************************************************************************)

\* The attempts of s are those of the state before it, or none yet.
Follows(s, t) ==
    \/ /\ t.method = s.method
       /\ \/ t.attempt = s.attempt /\ (t.pc = "ready" => s.pc = "ready")
          \/ t.attempt > s.attempt
    \/ s.method = "GET"

\* A step of the coroutine of c that leaves the help desk alone: it suffices
\* to look at the new state of c.
LEMMA CallStep ==
    ASSUME IInv, NEW c \in Call, NEW s \in CallState, Becomes(c, s),
           Follows(call[c], s), Knows(c, s),
           UNCHANGED <<wire, answers, effects>>
    PROVE  IInv'
<1>1. /\ call' = [call EXCEPT ![c] = s]
      /\ \A d \in Call : call'[d] = IF d = c THEN s ELSE call[d]
  BY DEF Becomes, IInv, TypeOK
<1>2. TypeOK'
  BY <1>1 DEF IInv, TypeOK
<1>3. Answered' /\ ServedOnce'
  BY DEF IInv, Answered, Filed, ServedOnce
<1>4. Sent'
  <2>1. /\ \A q \in HttpRequest : q.call \in Call /\ q.attempt \in Nat
        /\ \A a \in answers : a.request \in HttpRequest
        /\ wire \cup effects \subseteq HttpRequest
        /\ s.attempt \in Nat /\ call[c].attempt \in Nat
    BY MaxRetriesAssumption DEF IInv, TypeOK, Answer, HttpRequest, CallState
  <2>2. ASSUME NEW q \in HttpRequest, SentBy(q, call[q.call])
        PROVE  SentBy(q, call'[q.call])
    <3>1. CASE q.call # c
      BY <1>1, <2>1, <2>2, <3>1
    <3>2. CASE q.call = c
      BY <1>1, <2>1, <2>2, <3>2 DEF SentBy, Follows
    <3> QED BY <3>1, <3>2
  <2>3. /\ wire' \cup effects' = wire \cup effects
        /\ answers' = answers
    OBVIOUS
  <2> QED BY <2>1, <2>2, <2>3 DEF IInv, Sent, SentBy
<1>5. Knowledge'
  <2>1. \A d \in Call : Knows(d, call'[d])
    BY <1>1 DEF IInv, Knowledge
  <2> QED BY <2>1, <1>1 DEF Knowledge, Knows, Hit, Filed, LastAttempt
<1> QED BY <1>2, <1>3, <1>4, <1>5 DEF IInv

LEMMA FirstAttempt == 0 \in 0..MaxRetries - 1
BY MaxRetriesAssumption

LEMMA ExecuteStep ==
    ASSUME IInv, NEW c \in Call, NEW command \in CommandType, Execute(c, command)
    PROVE  IInv'
<1> DEFINE m == IF command = "CreateTicket" THEN "POST" ELSE "GET"
           s == [Unused EXCEPT !.pc = "ready", !.command = command, !.method = m]
<1>1. /\ m \in Method
      /\ command = "CreateTicket" => m = "POST"
      /\ command # "CreateTicket" => m = "GET"
  BY DEF Method
<1>2. /\ call[c].pc = "idle" /\ UNCHANGED <<wire, answers, effects>>
      /\ Becomes(c, s)
  BY DEF Execute
<1> HIDE DEF m
<1>3. /\ s \in CallState /\ s.pc = "ready" /\ s.command = command /\ s.error = "None"
      /\ s.method = m
  BY <1>1, FirstAttempt DEF Unused, CallState, ErrorCode
<1> HIDE DEF s
<1>4. Follows(call[c], s)
  BY <1>2 DEF Follows, IInv, Knowledge, Knows
<1>5. Knows(c, s)
  BY <1>1, <1>3 DEF Knows
<1> QED BY <1>2, <1>3, <1>4, <1>5, CallStep

LEMMA PendingType ==
    ASSUME IInv, NEW c \in Call
    PROVE  /\ Pending(c) \in HttpRequest
           /\ Pending(c).call = c /\ Pending(c).method = call[c].method
           /\ Pending(c).attempt = call[c].attempt
BY DEF IInv, TypeOK, CallState, Pending, HttpRequest

LEMMA SendStep ==
    ASSUME IInv, NEW c \in Call, Send(c)
    PROVE  IInv'
<1> DEFINE s == [call[c] EXCEPT !.pc = "waiting"]
<1>1. call[c] \in CallState
  BY DEF IInv, TypeOK
<1>2. /\ s \in CallState /\ s.pc = "waiting" /\ s.command = call[c].command
      /\ s.method = call[c].method /\ s.attempt = call[c].attempt /\ s.error = call[c].error
  BY <1>1 DEF CallState
<1>3. /\ call[c].pc = "ready" /\ UNCHANGED <<answers, effects>>
      /\ wire' = wire \cup {Pending(c)} /\ call' = [call EXCEPT ![c] = s]
  BY DEF Send, Becomes
<1>4. \A d \in Call : call'[d] = IF d = c THEN s ELSE call[d]
  BY <1>3 DEF IInv, TypeOK
<1> HIDE DEF s
<1>5. /\ \A q \in HttpRequest : q.call \in Call /\ q.attempt \in Nat
      /\ \A a \in answers : a.request \in HttpRequest
      /\ wire \cup effects \subseteq HttpRequest
      /\ call[c].attempt \in Nat
  BY <1>1, MaxRetriesAssumption DEF IInv, TypeOK, Answer, HttpRequest, CallState
<1>6. TypeOK'
  BY <1>2, <1>3, PendingType DEF IInv, TypeOK
\* Nothing anyone knows of is the request that is sent now.
<1>7. Pending(c).method = "POST" =>
          /\ Pending(c) \notin effects
          /\ \A a \in answers : a.request # Pending(c)
  BY <1>3, <1>5, PendingType DEF IInv, Sent, SentBy
<1>8. Answered' /\ ServedOnce'
  BY <1>3, <1>7 DEF IInv, Answered, ServedOnce, Filed
<1>9. Sent'
  <2>1. ASSUME NEW q \in HttpRequest, SentBy(q, call[q.call])
        PROVE  SentBy(q, call'[q.call])
    BY <1>2, <1>3, <1>4, <1>5, <2>1 DEF SentBy
  <2>2. Pending(c).method = "POST" => SentBy(Pending(c), call'[c])
    BY <1>2, <1>4, PendingType DEF SentBy
  <2> QED BY <1>3, <1>5, <2>1, <2>2, PendingType DEF IInv, Sent, SentBy
<1>10. Knowledge'
  <2>1. ASSUME NEW d \in Call PROVE Knows(d, call[d])'
    <3>1. CASE d = c
      BY <1>2, <1>3, <1>4, <3>1 DEF IInv, Knowledge, Knows, Hit, Filed, LastAttempt
    <3>2. CASE d # c
      BY <1>3, <1>4, <3>2, PendingType DEF IInv, Knowledge, Knows, Hit, Filed, LastAttempt
    <3> QED BY <3>1, <3>2
  <2> QED BY <2>1 DEF Knowledge, Knows, Hit, Filed
<1> QED BY <1>6, <1>8, <1>9, <1>10 DEF IInv

LEMMA OverType ==
    ASSUME NEW s \in CallState, NEW e \in ErrorCode
    PROVE  /\ Over(s, e) \in CallState
           /\ Over(s, e).pc = "over" /\ Over(s, e).error = e
           /\ Over(s, e).command = s.command /\ Over(s, e).method = s.method
           /\ Over(s, e).attempt = s.attempt
BY DEF Over, CallState

\* To end with an error that is not a refusal promises nothing.
LEMMA FailStep ==
    ASSUME IInv, NEW c \in Call, NEW e \in ErrorCode \ {"None", "REFUSED"},
           call[c].pc \notin {"idle", "over"},
           Becomes(c, Over(call[c], e)), UNCHANGED <<wire, answers, effects>>
    PROVE  IInv'
<1>1. call[c] \in CallState
  BY DEF IInv, TypeOK
<1>2. Follows(call[c], Over(call[c], e)) /\ Knows(c, Over(call[c], e))
  BY <1>1, OverType DEF IInv, Knowledge, Knows, Follows
<1> QED BY <1>1, <1>2, OverType, CallStep

LEMMA TryAgainStep ==
    ASSUME IInv, NEW c \in Call, NEW e \in {"UNAVAILABLE", "TIMEOUT"},
           call[c].pc = "waiting",
           Becomes(c, TryAgain(call[c], e)), UNCHANGED <<wire, answers, effects>>
    PROVE  IInv'
<1>1. CASE LastAttempt(call[c])
  BY <1>1, FailStep DEF TryAgain, ErrorCode
<1>2. CASE ~LastAttempt(call[c])
  <2> DEFINE s == [call[c] EXCEPT !.pc = "backoff"]
  <2>1. call[c] \in CallState
    BY DEF IInv, TypeOK
  <2>2. /\ s \in CallState /\ s.pc = "backoff" /\ s.command = call[c].command
        /\ s.method = call[c].method /\ s.attempt = call[c].attempt
        /\ s.error = call[c].error
    BY <2>1 DEF CallState
  <2>3. Becomes(c, s)
    BY <1>2 DEF TryAgain
  <2> HIDE DEF s
  <2>4. Follows(call[c], s) /\ Knows(c, s)
    BY <1>2, <2>2 DEF IInv, Knowledge, Knows, Follows, LastAttempt
  <2> QED BY <2>2, <2>3, <2>4, CallStep
<1> QED BY <1>1, <1>2

LEMMA WakeStep ==
    ASSUME IInv, NEW c \in Call, Wake(c)
    PROVE  IInv'
<1> DEFINE s == [call[c] EXCEPT !.pc = "ready", !.attempt = @ + 1]
<1>1. /\ call[c] \in CallState /\ call[c].pc = "backoff" /\ ~LastAttempt(call[c])
      /\ Becomes(c, s) /\ UNCHANGED <<wire, answers, effects>>
  BY DEF IInv, TypeOK, Knowledge, Knows, Wake
<1>2. /\ s \in CallState /\ s.pc = "ready" /\ s.command = call[c].command
      /\ s.method = call[c].method /\ s.attempt = call[c].attempt + 1
      /\ s.error = call[c].error /\ call[c].attempt \in Nat
  <2>1. /\ call[c].attempt \in 0..MaxRetries - 1 /\ call[c].attempt # MaxRetries - 1
    BY <1>1 DEF CallState, LastAttempt
  <2>2. call[c].attempt + 1 \in 0..MaxRetries - 1 /\ call[c].attempt \in Nat
    BY <2>1, MaxRetriesAssumption
  <2> QED BY <1>1, <2>2 DEF CallState
<1> HIDE DEF s
<1>3. Follows(call[c], s) /\ Knows(c, s)
  BY <1>1, <1>2 DEF IInv, Knowledge, Knows, Follows
<1> QED BY <1>1, <1>2, <1>3, CallStep

LEMMA ReceiveStep ==
    ASSUME IInv, NEW c \in Call,
           NEW status \in HttpStatus, Receive(c, status)
    PROVE  IInv'
<1>1. /\ call[c] \in CallState /\ call[c].pc = "waiting"
      /\ [request |-> Pending(c), status |-> status] \in answers
      /\ UNCHANGED <<wire, answers, effects>>
  BY DEF IInv, TypeOK, Receive
<1> DEFINE answer == [request |-> Pending(c), status |-> status]
<1>2. /\ answer \in answers /\ answer.request = Pending(c) /\ answer.status = status
  BY <1>1
<1> HIDE DEF answer
<1>3. CASE status \in {"success", "empty"}
  <2>1. Becomes(c, AfterSuccess(call[c], status))
    BY <1>3 DEF Receive
  <2>2. CASE call[c].command = "AddAttachment" /\ call[c].method = "GET" /\ status = "empty"
    BY <1>1, <2>1, <2>2, FailStep DEF AfterSuccess, ErrorCode
  <2>3. CASE call[c].command = "AddAttachment" /\ call[c].method = "GET" /\ status # "empty"
    <3> DEFINE s == [call[c] EXCEPT !.pc = "ready", !.method = "POST", !.attempt = 0]
    <3>1. Becomes(c, s)
      BY <2>1, <2>3 DEF AfterSuccess
    <3>2. /\ s \in CallState /\ s.pc = "ready" /\ s.method = "POST"
          /\ s.command = "AddAttachment" /\ s.error = call[c].error
      BY <1>1, <2>3, FirstAttempt DEF CallState, Method
    <3> HIDE DEF s
    <3>3. Hit(c)
      BY <1>2, <1>3, <2>3, PendingType DEF Hit
    <3>4. Follows(call[c], s) /\ Knows(c, s)
      BY <1>1, <2>3, <3>2, <3>3 DEF IInv, Knowledge, Knows, Follows
    <3> QED BY <1>1, <3>1, <3>2, <3>4, CallStep
  <2>4. CASE ~(call[c].command = "AddAttachment" /\ call[c].method = "GET")
    <3>1. Becomes(c, Over(call[c], "None"))
      BY <2>1, <2>4 DEF AfterSuccess
    <3>2. call[c].command # "SearchTickets" => call[c].method = "POST"
      BY <1>1, <2>4 DEF IInv, Knowledge, Knows, CallState, CommandType, Method
    <3>3. call[c].command # "SearchTickets" => Filed(c)
      BY <1>2, <1>3, <3>2, PendingType DEF IInv, Answered
    <3>4. "None" \in ErrorCode
      BY DEF ErrorCode
    <3>5. Follows(call[c], Over(call[c], "None")) /\ Knows(c, Over(call[c], "None"))
      BY <1>1, <3>3, <3>4, OverType DEF IInv, Knowledge, Knows, Follows
    <3> QED BY <1>1, <3>1, <3>4, <3>5, OverType, CallStep
  <2> QED BY <2>2, <2>3, <2>4
<1>4. CASE status = "unavailable"
  <2>1. Becomes(c, TryAgain(call[c], "UNAVAILABLE"))
    BY <1>4 DEF Receive
  <2> QED BY <1>1, <2>1, TryAgainStep
<1>5. CASE status = "refused"
  <2>1. Becomes(c, Over(call[c], "REFUSED"))
    BY <1>5 DEF Receive
  <2>2. "REFUSED" \in ErrorCode
    BY DEF ErrorCode
  \* A POST known anywhere is the one that was refused, if that was the first.
  <2>3. ASSUME call[c].attempt = 0, NEW q \in wire \cup effects, q.call = c,
               q.method = "POST"
        PROVE  FALSE
    <3>1. q \in HttpRequest /\ q.attempt \in Nat
      BY MaxRetriesAssumption DEF IInv, TypeOK, HttpRequest
    <3>2. call[c].method = "POST" /\ q.attempt = 0
      BY <2>3, <3>1 DEF IInv, Sent, SentBy
    <3>3. q = Pending(c)
      BY <2>3, <3>1, <3>2 DEF Pending, HttpRequest
    <3> QED BY <1>2, <1>5, <2>3, <3>3 DEF IInv, Answered
  <2>4. \A q \in wire \cup effects : q.method \in {"GET", "POST"}
    BY DEF IInv, TypeOK, HttpRequest, Method
  <2>5. Follows(call[c], Over(call[c], "REFUSED")) /\ Knows(c, Over(call[c], "REFUSED"))
    BY <1>1, <2>2, <2>3, <2>4, OverType DEF IInv, Knowledge, Knows, Follows
  <2> QED BY <1>1, <2>1, <2>2, <2>5, OverType, CallStep
<1>6. CASE status = "failed"
  BY <1>1, <1>6, FailStep DEF Receive, ErrorCode
<1> QED BY <1>3, <1>4, <1>5, <1>6 DEF HttpStatus

-----------------------------------------------------------------------------
(***************************************************************************)
(* Steps of the network and the help desk: they only take requests off the *)
(* wire, add effects of requests that were on it, and answer them.         *)
(***************************************************************************)
LEMMA ServerStep ==
    ASSUME IInv, UNCHANGED call,
           wire' \cup effects' \subseteq wire \cup effects,
           effects \subseteq effects', answers \subseteq answers',
           NEW q \in wire, NEW status \in HttpStatus,
           answers' \subseteq answers \cup {[request |-> q, status |-> status]},
           (q.method = "POST" /\ status \in {"success", "empty"})
               => \E e \in effects' : e.call = q.call,
           status = "refused" => q \notin wire' \cup effects',
           ServedOnce'
    PROVE  IInv'
<1> DEFINE answer == [request |-> q, status |-> status]
<1>1. /\ answers' \subseteq answers \cup {answer}
      /\ answer.request = q /\ answer.status = status /\ answer \in Answer
  BY DEF IInv, TypeOK, Answer
<1> HIDE DEF answer
<1>2. TypeOK'
  BY <1>1 DEF IInv, TypeOK
<1>3. Answered'
  BY <1>1 DEF IInv, Answered, Filed
<1>4. Sent'
  BY <1>1 DEF IInv, Sent, SentBy
<1>5. Knowledge'
  BY DEF IInv, Knowledge, Knows, Hit, Filed, LastAttempt
<1> QED BY <1>2, <1>3, <1>4, <1>5 DEF IInv

LEMMA ReplyAdds ==
    ASSUME NEW q \in wire, NEW status, Reply(q, status)
    PROVE  /\ answers \subseteq answers'
           /\ answers' \subseteq answers \cup {[request |-> q, status |-> status]}
BY DEF Reply

LEMMA ServeStep ==
    ASSUME IInv, NEW q \in wire, Serve(q)
    PROVE  IInv'
<1>1. PICK status \in {"success", "failed"} \cup
                      (IF q.method = "GET" THEN {"empty"} ELSE {}) : Reply(q, status)
  BY DEF Serve
<1>2. /\ wire' = wire \ {q} /\ UNCHANGED call
      /\ effects' = IF HasEffect(q) THEN effects \cup {q} ELSE effects
  BY DEF Serve
<1>3. status \in HttpStatus /\ status # "refused"
  BY <1>1 DEF HttpStatus
<1>4. q.method = "POST" => \E e \in effects' : e.call = q.call
  <2>1. CASE HasEffect(q)
    BY <1>2, <2>1
  <2>2. CASE ~HasEffect(q) /\ q.method = "POST"
    <3>1. PICK p \in effects : Key(p) = Key(q)
      BY <2>2 DEF HasEffect
    <3>2. p.call = q.call
      BY <3>1 DEF Key
    <3> QED BY <1>2, <2>2, <3>2
  <2> QED BY <2>1, <2>2
<1>5. ServedOnce'
  BY <1>2 DEF IInv, ServedOnce, HasEffect
<1>6. wire' \cup effects' \subseteq wire \cup effects /\ effects \subseteq effects'
  BY <1>2
<1>7. answers \subseteq answers' /\ answers' \subseteq answers \cup {[request |-> q, status |-> status]}
  BY <1>1, ReplyAdds
<1> QED BY <1>2, <1>3, <1>4, <1>5, <1>6, <1>7, ServerStep

LEMMA RefuseStep ==
    ASSUME IInv, NEW q \in wire, NEW status \in {"refused", "failed"}, Refuse(q, status)
    PROVE  IInv'
<1>1. /\ wire' = wire \ {q} /\ UNCHANGED <<call, effects>> /\ status \in HttpStatus
      /\ answers \subseteq answers'
      /\ answers' \subseteq answers \cup {[request |-> q, status |-> status]}
  BY ReplyAdds DEF Refuse, HttpStatus
<1>2. q \notin wire' \cup effects' /\ ServedOnce'
  BY <1>1 DEF IInv, ServedOnce
<1> QED BY <1>1, <1>2, ServerStep

LEMMA GatewayFailsStep ==
    ASSUME IInv, NEW q \in wire, GatewayFails(q)
    PROVE  IInv'
<1>1. /\ wire' \in {wire, wire \ {q}} /\ UNCHANGED <<call, effects>>
      /\ answers \subseteq answers'
      /\ answers' \subseteq answers \cup {[request |-> q, status |-> "unavailable"]}
      /\ "unavailable" \in HttpStatus
  BY ReplyAdds DEF GatewayFails, HttpStatus
<1>2. ServedOnce' /\ wire' \cup effects' \subseteq wire \cup effects
  BY <1>1 DEF IInv, ServedOnce
<1> QED BY <1>1, <1>2, ServerStep

LEMMA LoseStep ==
    ASSUME IInv, NEW q \in wire, Lose(q)
    PROVE  IInv'
<1>1. /\ wire' = wire \ {q} /\ UNCHANGED <<call, answers, effects>>
  BY DEF Lose
<1>2. ServedOnce' /\ "unavailable" \in HttpStatus
  BY <1>1 DEF IInv, ServedOnce, HttpStatus
<1> QED BY <1>1, <1>2, ServerStep

-----------------------------------------------------------------------------
(***************************************************************************)
(* The invariant, and what follows from it                                 *)
(***************************************************************************)
LEMMA Initial == Init => IInv
<1> SUFFICES ASSUME Init PROVE IInv
  OBVIOUS
<1>1. Unused \in CallState /\ \A c \in Call : call[c] = Unused
  BY FirstAttempt DEF Init, Unused, CallState, CommandType, Method, ErrorCode
<1>2. TypeOK
  BY <1>1 DEF Init, TypeOK
<1>3. Answered /\ Sent /\ ServedOnce
  BY DEF Init, Answered, Sent, ServedOnce
<1>4. Knowledge
  <2>1. /\ Unused.pc = "idle" /\ Unused.command = "SearchTickets"
        /\ Unused.method = "GET" /\ Unused.error = "None"
    BY DEF Unused
  <2>2. \A c \in Call : Knows(c, Unused)
    BY <2>1 DEF Knows
  <2> QED BY <1>1, <2>2 DEF Knowledge
<1> QED BY <1>2, <1>3, <1>4 DEF IInv

LEMMA Step == IInv /\ [Next]_vars => IInv'
<1> SUFFICES ASSUME IInv, [Next]_vars PROVE IInv'
  OBVIOUS
<1>1. ASSUME NEW c \in Call, NEW command \in CommandType, Execute(c, command) PROVE IInv'
  BY <1>1, ExecuteStep
<1>2. ASSUME NEW c \in Call, Progress(c) PROVE IInv'
  <2>1. CASE Send(c)
    BY <2>1, SendStep
  <2>2. CASE Wake(c)
    BY <2>2, WakeStep
  <2>3. CASE Timeout(c)
    BY <2>3, TryAgainStep DEF Timeout
  <2>4. ASSUME NEW status \in HttpStatus,
               Receive(c, status)
        PROVE  IInv'
    BY <2>4, ReceiveStep
  <2> QED BY <1>2, <2>1, <2>2, <2>3, <2>4 DEF Progress
<1>3. ASSUME NEW c \in Call, Unreadable(c) \/ Disconnect(c) \/ Abandon(c) PROVE IInv'
  <2>1. CASE Unreadable(c)
    BY <2>1, FailStep DEF Unreadable, ErrorCode
  <2>2. CASE Disconnect(c)
    BY <2>2, FailStep DEF Disconnect, ErrorCode
  <2>3. CASE Abandon(c)
    BY <2>3, FailStep DEF Abandon, ErrorCode
  <2> QED BY <1>3, <2>1, <2>2, <2>3
<1>4. ASSUME NEW q \in wire, Serve(q) \/ GatewayFails(q) \/ Lose(q)
      PROVE  IInv'
  BY <1>4, ServeStep, GatewayFailsStep, LoseStep
<1>6. ASSUME NEW q \in wire, NEW status \in {"refused", "failed"}, Refuse(q, status)
      PROVE  IInv'
  BY <1>6, RefuseStep
<1>5. CASE UNCHANGED vars
  BY <1>5 DEF vars, IInv, TypeOK, Answered, Sent, SentBy, ServedOnce, Knowledge, Knows,
              Hit, Filed, LastAttempt
<1> QED BY <1>1, <1>2, <1>3, <1>4, <1>5, <1>6 DEF Next

\* The invariant holds throughout, whether or not the help desk honours keys.
THEOREM Invariance == Spec => []IInv
BY Initial, Step, PTL DEF Spec

\* TypeOK: no attempt goes beyond MaxRetries.
THEOREM TypeCorrect == Spec => []TypeOK
<1>1. IInv => TypeOK
  BY DEF IInv
<1> QED BY Invariance, <1>1, PTL

\* SuccessIsFiled: what a command reports as done has been done.
THEOREM SuccessIsTrue == Spec => []SuccessIsFiled
<1>1. IInv => SuccessIsFiled
  BY DEF IInv, Knowledge, Knows, Filed, SuccessIsFiled
<1> QED BY Invariance, <1>1, PTL

\* FirstRefusalIsFinal: a refusal of the first attempt is the whole truth.
THEOREM RefusalIsTrue == Spec => []FirstRefusalIsFinal
<1>1. IInv => FirstRefusalIsFinal
  BY DEF IInv, Knowledge, Knows, FirstRefusalIsFinal
<1> QED BY Invariance, <1>1, PTL

\* ArticleNeedsTicket: an article is only sent for a ticket that was found.
THEOREM TicketFoundFirst == Spec => []ArticleNeedsTicket
<1>1. IInv => ArticleNeedsTicket
  <2> SUFFICES ASSUME IInv, NEW q \in wire \cup effects,
                      call[q.call].command = "AddAttachment", q.method = "POST"
               PROVE  Hit(q.call)
    BY DEF ArticleNeedsTicket, Hit
  <2>1. q.call \in Call
    BY DEF IInv, TypeOK, HttpRequest
  <2>2. call[q.call].method = "POST"
    BY DEF IInv, Sent, SentBy
  <2> QED BY <2>1, <2>2 DEF IInv, Knowledge, Knows
<1> QED BY Invariance, <1>1, PTL

-----------------------------------------------------------------------------
(***************************************************************************)
(* The client implements AtMostOnce                                        *)
(***************************************************************************)
outcome == [c \in Call |-> Told(call[c])]

\* A step of one coroutine that is under way tells nothing, or reports.
LEMMA Tells ==
    ASSUME IInv, IInv', NEW c \in Call, NEW s, Becomes(c, s), UNCHANGED effects,
           Told(call[c]) = "pending", Told(s) # "unsent"
    PROVE  [Once!Next]_<<effects, outcome>>
<1>1. /\ call' = [call EXCEPT ![c] = s]
      /\ \A d \in Call : call'[d] = IF d = c THEN s ELSE call[d]
  BY DEF Becomes, IInv, TypeOK
<1>2. outcome[c] = "pending" /\ outcome' = [outcome EXCEPT ![c] = Told(s)]
  <2>1. \A d \in Call : outcome[d] = Told(call[d])
    BY DEF outcome
  <2>2. outcome' = [d \in Call |-> Told(call'[d])]
    BY DEF outcome, Told
  <2>3. \A d \in Call : outcome'[d] = IF d = c THEN Told(s) ELSE outcome[d]
    BY <1>1, <2>1, <2>2
  <2>4. outcome \in [Call -> {outcome[d] : d \in Call}] /\ outcome' = [d \in Call |-> outcome'[d]]
    BY <2>2 DEF outcome
  <2> QED BY <2>1, <2>3, <2>4
<1>3. CASE Told(s) = "pending"
  <2>1. outcome' = outcome
    BY <1>2, <1>3 DEF outcome
  <2> QED BY <2>1
<1>4. CASE Told(s) # "pending"
  <2>1. Told(s) \in {"succeeded", "failed", "answered"}
    BY <1>4 DEF Told
  <2>2. Told(s) = "succeeded" => \E d \in effects : d.call = c
    <3>1. Told(s) = "succeeded" =>
              s.pc = "over" /\ s.error = "None" /\ s.command # "SearchTickets"
      BY DEF Told
    <3>2. Knows(c, call[c])'
      BY DEF IInv, Knowledge
    <3> QED BY <1>1, <3>1, <3>2 DEF Knows, Filed
  <2>3. Once!Report(c)
    BY <1>2, <2>1, <2>2 DEF Once!Report, outcome
  <2> QED BY <2>3 DEF Once!Next
<1> QED BY <1>3, <1>4

LEMMA AfterPending ==
    ASSUME NEW s \in CallState, s.pc = "waiting"
    PROVE  /\ Told(s) = "pending"
           /\ \A e \in ErrorCode : Told(Over(s, e)) # "unsent" /\ Told(TryAgain(s, e)) # "unsent"
           /\ \A status : Told(AfterSuccess(s, status)) # "unsent"
<1>1. Told(s) = "pending"
  BY DEF Told
<1>2. ASSUME NEW e \in ErrorCode PROVE Told(Over(s, e)) # "unsent"
  BY OverType DEF Told
<1>3. [s EXCEPT !.pc = "backoff"].pc = "backoff"
      /\ [s EXCEPT !.pc = "ready", !.method = "POST", !.attempt = 0].pc = "ready"
  BY DEF CallState
<1>4. /\ Told([s EXCEPT !.pc = "backoff"]) # "unsent"
      /\ Told([s EXCEPT !.pc = "ready", !.method = "POST", !.attempt = 0]) # "unsent"
  BY <1>3 DEF Told
<1>5. {"None", "NOT_FOUND"} \subseteq ErrorCode
  BY DEF ErrorCode
<1> QED BY <1>1, <1>2, <1>4, <1>5 DEF TryAgain, AfterSuccess

LEMMA RefinesInit == Init => Once!Init
<1> SUFFICES ASSUME Init PROVE Once!Init
  OBVIOUS
<1>1. \A c \in Call : Told(call[c]) = "unsent"
  BY DEF Init, Unused, Told
<1> QED BY <1>1 DEF Init, Once!Init

LEMMA RefinesExecute ==
    ASSUME IInv, NEW c \in Call, NEW command \in CommandType, Execute(c, command)
    PROVE  [Once!Next]_<<effects, outcome>>
<1> DEFINE m == IF command = "CreateTicket" THEN "POST" ELSE "GET"
           s == [Unused EXCEPT !.pc = "ready", !.command = command, !.method = m]
<1>1. call[c].pc = "idle" /\ effects' = effects /\ call' = [call EXCEPT ![c] = s]
  BY DEF Execute, Becomes
<1>2. s.pc = "ready"
  BY DEF Unused
<1> HIDE DEF m, s
<1>3. \A d \in Call : call'[d] = IF d = c THEN s ELSE call[d]
  BY <1>1 DEF IInv, TypeOK
<1>4. Told(call[c]) = "unsent" /\ Told(s) = "pending"
  BY <1>1, <1>2 DEF Told
<1>5. \A d \in Call : outcome[d] = Told(call[d])
  BY DEF outcome
<1>6. outcome' = [d \in Call |-> Told(call'[d])]
  BY DEF outcome, Told
<1>7. outcome[c] = "unsent" /\ outcome' = [outcome EXCEPT ![c] = "pending"]
  <2>1. \A d \in Call : outcome'[d] = IF d = c THEN "pending" ELSE outcome[d]
    BY <1>3, <1>4, <1>5, <1>6
  <2>2. outcome \in [Call -> {outcome[d] : d \in Call}] /\ outcome' = [d \in Call |-> outcome'[d]]
    BY <1>6 DEF outcome
  <2> QED BY <1>4, <1>5, <2>1, <2>2
<1>8. Once!Submit(c)
  BY <1>1, <1>7 DEF Once!Submit, outcome
<1> QED BY <1>8 DEF Once!Next

LEMMA RefinesServe ==
    ASSUME IInv, HonoursKeys, NEW q \in wire, Serve(q)
    PROVE  [Once!Next]_<<effects, outcome>>
<1>1. outcome' = outcome
  BY DEF Serve, outcome, Told
<1>2. CASE ~HasEffect(q)
  BY <1>1, <1>2 DEF Serve
<1>3. CASE HasEffect(q)
  <2>1. effects' = effects \cup {q} /\ \A p \in effects : p.call # q.call
    BY <1>3 DEF Serve, HasEffect, Key
  <2>2. q \in HttpRequest /\ q.call \in Call
    BY DEF IInv, TypeOK, HttpRequest
  <2>3. call[q.call].method = "POST"
    BY <1>3 DEF HasEffect, IInv, Sent, SentBy
  <2>4. call[q.call].pc # "idle"
    BY <2>2, <2>3 DEF IInv, Knowledge, Knows
  <2>5. outcome[q.call] # "unsent"
    BY <2>2, <2>4 DEF outcome, Told
  <2>6. Once!Happen(q)
    BY <1>1, <2>1, <2>2, <2>5 DEF Once!Happen, outcome
  <2> QED BY <2>2, <2>6 DEF Once!Next
<1> QED BY <1>2, <1>3

LEMMA RefinesCall ==
    ASSUME IInv, IInv', NEW c \in Call,
           Progress(c) \/ Unreadable(c) \/ Disconnect(c) \/ Abandon(c)
    PROVE  [Once!Next]_<<effects, outcome>>
<1>1. call[c] \in CallState
  BY DEF IInv, TypeOK
<1>2. {"NOT_FOUND", "REFUSED", "UNKNOWN", "UNAVAILABLE", "TIMEOUT", "RAISED"} \subseteq ErrorCode
  BY DEF ErrorCode
<1>3. CASE Send(c)
  <2>1. /\ call[c].pc = "ready" /\ Becomes(c, [call[c] EXCEPT !.pc = "waiting"])
        /\ UNCHANGED effects
    BY <1>3 DEF Send
  <2>2. Told(call[c]) = "pending"
    BY <2>1 DEF Told
  <2>3. Told([call[c] EXCEPT !.pc = "waiting"]) # "unsent"
    BY <1>1 DEF Told, CallState
  <2> QED BY <2>1, <2>2, <2>3, Tells
<1>4. CASE Wake(c)
  <2>1. /\ call[c].pc = "backoff" /\ UNCHANGED effects
        /\ Becomes(c, [call[c] EXCEPT !.pc = "ready", !.attempt = @ + 1])
    BY <1>4 DEF Wake
  <2>2. Told(call[c]) = "pending"
    BY <2>1 DEF Told
  <2>3. Told([call[c] EXCEPT !.pc = "ready", !.attempt = @ + 1]) # "unsent"
    BY <1>1 DEF Told, CallState
  <2> QED BY <2>1, <2>2, <2>3, Tells
<1>5. CASE Timeout(c)
  BY <1>1, <1>2, <1>5, AfterPending, Tells DEF Timeout
<1>6. ASSUME NEW status \in HttpStatus, Receive(c, status)
      PROVE  [Once!Next]_<<effects, outcome>>
  <2>1. call[c].pc = "waiting" /\ UNCHANGED effects
    BY <1>6 DEF Receive
  <2>2. \/ Becomes(c, AfterSuccess(call[c], status))
        \/ Becomes(c, TryAgain(call[c], "UNAVAILABLE"))
        \/ Becomes(c, Over(call[c], "REFUSED"))
        \/ Becomes(c, Over(call[c], "UNKNOWN"))
    BY <1>6 DEF Receive, HttpStatus
  <2> QED BY <1>1, <1>2, <2>1, <2>2, AfterPending, Tells
<1>7. CASE Unreadable(c) \/ Disconnect(c)
  BY <1>1, <1>2, <1>7, AfterPending, Tells DEF Unreadable, Disconnect
<1>8. CASE Abandon(c)
  <2>1. /\ Becomes(c, Over(call[c], "RAISED")) /\ UNCHANGED effects
        /\ call[c].pc \in {"ready", "waiting", "backoff"}
    BY <1>8 DEF Abandon
  <2>2. Told(call[c]) = "pending"
    BY <2>1 DEF Told
  <2>3. Told(Over(call[c], "RAISED")) # "unsent"
    BY <1>1, <1>2, OverType DEF Told
  <2> QED BY <2>1, <2>2, <2>3, Tells
<1> QED BY <1>3, <1>4, <1>5, <1>6, <1>7, <1>8 DEF Progress

LEMMA RefinesStep ==
    ASSUME HonoursKeys
    PROVE  IInv /\ IInv' /\ [Next]_vars => [Once!Next]_<<effects, outcome>>
<1> SUFFICES ASSUME IInv, IInv', [Next]_vars PROVE [Once!Next]_<<effects, outcome>>
  OBVIOUS
<1>1. CASE UNCHANGED vars
  BY <1>1 DEF vars, outcome, Told
<1>2. ASSUME NEW q \in wire,
             GatewayFails(q) \/ Lose(q) \/ \E status \in {"refused", "failed"} : Refuse(q, status)
      PROVE  [Once!Next]_<<effects, outcome>>
  BY <1>2 DEF Refuse, GatewayFails, Lose, outcome, Told
<1> QED BY <1>1, <1>2, RefinesExecute, RefinesCall, RefinesServe DEF Next

\* ImplementsAtMostOnce: with a help desk that honours the key, a command has
\* its effect at most once and "succeeded" is only said of one that happened.
THEOREM ClientRefinesAtMostOnce == ASSUME HonoursKeys PROVE Spec => ImplementsAtMostOnce
BY Invariance, RefinesInit, RefinesStep, PTL
   DEF Spec, ImplementsAtMostOnce, Once!Spec, outcome
=============================================================================
