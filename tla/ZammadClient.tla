---------------------------- MODULE ZammadClient ----------------------------
(***************************************************************************)
(* Commands on their way to the help desk: the ZammadAdapter, which turns  *)
(* a command into one or two HTTP requests, and the ZammadClient, which    *)
(* tries each request up to MaxRetries times.                              *)
(*                                                                         *)
(* The network and the help desk are external.  A request may be lost; it  *)
(* may be executed long after the client timed out; a gateway may answer   *)
(* 502, 503 or 504 and let the request through all the same; the help desk *)
(* may answer 500 before or after it has executed the request; an answer   *)
(* may be lost.  effects are the POSTs that made a ticket or an article;   *)
(* two of one command are a duplicate.  Whether the help desk honours the  *)
(* Idempotency-Key header is HonoursKeys.                                  *)
(***************************************************************************)
EXTENDS Naturals

CONSTANTS
    Call,           \* commands that may be executed
    MaxRetries,     \* ZammadClient.MAX_RETRIES
    HonoursKeys     \* does the help desk execute a key once only?

ASSUME MaxRetriesAssumption == MaxRetries \in Nat \ {0}
ASSUME HonoursKeysAssumption == HonoursKeys \in BOOLEAN

VARIABLES
    call,       \* Call -> the state of the coroutine that executes it
    wire,       \* requests on their way, or kept by a gateway
    answers,    \* answers the client may still get
    effects     \* the help desk: the requests that made a ticket or an article

vars == <<call, wire, answers, effects>>

-----------------------------------------------------------------------------
(***************************************************************************)
(* Data                                                                    *)
(***************************************************************************)
CommandType == {"CreateTicket", "SearchTickets", "AddAttachment"}

Method == {"GET", "POST"}

\* A POST carries the key of the command: one key for all its attempts.
HttpRequest == [call : Call, method : Method, attempt : 0..MaxRetries - 1]

\* success (of a search: with or without a hit), 502 to 504, a 4xx that _map_error
\* knows, a 500 or anything else.
HttpStatus == {"success", "empty", "unavailable", "refused", "failed"}

Answer == [request : HttpRequest, status : HttpStatus]

\* REFUSED stands for AUTH_FAILED, NOT_FOUND, VALIDATION_ERROR and RATE_LIMITED of
\* _map_error; NOT_FOUND is the adapter's own, of a search without a hit.
ErrorCode == {"None", "NOT_FOUND", "REFUSED", "UNKNOWN", "UNAVAILABLE", "TIMEOUT", "RAISED"}

CallState ==
    [ pc      : {"idle", "ready", "waiting", "backoff", "over"},
      command : CommandType,
      method  : Method,
      attempt : 0..MaxRetries - 1,
      error   : ErrorCode ]

Unused ==
    [ pc |-> "idle", command |-> "SearchTickets", method |-> "GET", attempt |-> 0,
      error |-> "None" ]

Pending(c) == [call |-> c, method |-> call[c].method, attempt |-> call[c].attempt]

Becomes(c, s) == call' = [call EXCEPT ![c] = s]

-----------------------------------------------------------------------------
(***************************************************************************)
(* The client: _request                                                    *)
(***************************************************************************)

\* execute: an attachment is preceded by the search for its ticket.
Execute(c, command) ==
    /\ call[c].pc = "idle"
    /\ Becomes(c, [Unused EXCEPT !.pc = "ready",
                                 !.command = command,
                                 !.method = IF command = "CreateTicket" THEN "POST" ELSE "GET"])
    /\ UNCHANGED <<wire, answers, effects>>

Send(c) ==
    /\ call[c].pc = "ready"
    /\ wire' = wire \cup {Pending(c)}
    /\ Becomes(c, [call[c] EXCEPT !.pc = "waiting"])
    /\ UNCHANGED <<answers, effects>>

\* Mutant: off by one.
LastAttempt_OneMore(s) == s.attempt = MaxRetries

LastAttempt(s) == s.attempt = MaxRetries - 1

Over(s, error) == [s EXCEPT !.pc = "over", !.error = error]

\* A timeout and a 502 to 504 are tried again after a pause, as long as
\* attempts are left.
TryAgain(s, error) ==
    IF LastAttempt(s) THEN Over(s, error) ELSE [s EXCEPT !.pc = "backoff"]

\* Mutant: a pause does not count as an attempt.
Wake_NotCounted(c) ==
    /\ call[c].pc = "backoff"
    /\ Becomes(c, [call[c] EXCEPT !.pc = "ready"])
    /\ UNCHANGED <<wire, answers, effects>>

Wake(c) ==
    /\ call[c].pc = "backoff"
    /\ Becomes(c, [call[c] EXCEPT !.pc = "ready", !.attempt = @ + 1])
    /\ UNCHANGED <<wire, answers, effects>>

\* An attachment goes on to the article if the search had a hit.
AfterSuccess(s, status) ==
    IF s.command = "AddAttachment" /\ s.method = "GET"
    THEN IF status = "empty" THEN Over(s, "NOT_FOUND")
         ELSE [s EXCEPT !.pc = "ready", !.method = "POST", !.attempt = 0]
    ELSE Over(s, "None")

\* An answer to the attempt the client waits for.
Receive(c, status) ==
    /\ call[c].pc = "waiting"
    /\ [request |-> Pending(c), status |-> status] \in answers
    /\ Becomes(c, CASE status \in {"success", "empty"} -> AfterSuccess(call[c], status)
                    [] status = "unavailable" -> TryAgain(call[c], "UNAVAILABLE")
                    [] status = "refused" -> Over(call[c], "REFUSED")
                    [] status = "failed" -> Over(call[c], "UNKNOWN"))
    /\ UNCHANGED <<wire, answers, effects>>

\* The answer is not what the client's models expect: ValidationError is not a
\* ZammadError and leaves the adapter.
Unreadable(c) ==
    /\ call[c].pc = "waiting"
    /\ [request |-> Pending(c), status |-> "success"] \in answers
    /\ Becomes(c, Over(call[c], "RAISED"))
    /\ UNCHANGED <<wire, answers, effects>>

Timeout(c) ==
    /\ call[c].pc = "waiting"
    /\ Becomes(c, TryAgain(call[c], "TIMEOUT"))
    /\ UNCHANGED <<wire, answers, effects>>

\* Any other transport error is not tried again.
Disconnect(c) ==
    /\ call[c].pc = "waiting"
    /\ Becomes(c, Over(call[c], "UNAVAILABLE"))
    /\ UNCHANGED <<wire, answers, effects>>

\* The turn was cancelled, or the process died.
Abandon(c) ==
    /\ call[c].pc \in {"ready", "waiting", "backoff"}
    /\ Becomes(c, Over(call[c], "RAISED"))
    /\ UNCHANGED <<wire, answers, effects>>

-----------------------------------------------------------------------------
(***************************************************************************)
(* The network and the help desk                                           *)
(***************************************************************************)

\* Mutant: every attempt has a key of its own.
Key_PerAttempt(q) == <<q.call, q.attempt>>

\* The idempotency key is part of the command and sent with every attempt.
Key(q) == <<q.call>>

HasEffect(q) ==
    q.method = "POST" /\ ~(HonoursKeys /\ \E p \in effects : Key(p) = Key(q))

\* An attempt is answered once, and its connection is closed when the client has
\* given it up.
Reply(q, status) ==
    IF /\ call[q.call].pc = "waiting" /\ Pending(q.call) = q
       /\ \A a \in answers : a.request # q
    THEN answers' = answers \cup {[request |-> q, status |-> status]}
    ELSE UNCHANGED answers

\* A request that was executed may still be answered with a 500.
Serve(q) ==
    /\ q \in wire
    /\ wire' = wire \ {q}
    /\ effects' = IF HasEffect(q) THEN effects \cup {q} ELSE effects
    /\ \E status \in {"success", "failed"} \cup (IF q.method = "GET" THEN {"empty"} ELSE {}) :
          Reply(q, status)
    /\ UNCHANGED call

\* A 4xx, or a 500 of a request that was not executed.
Refuse(q, status) ==
    /\ q \in wire
    /\ wire' = wire \ {q}
    /\ Reply(q, status)
    /\ UNCHANGED <<call, effects>>

\* A gateway gives up waiting: the request may still be served.
GatewayFails(q) ==
    /\ q \in wire
    /\ wire' \in {wire, wire \ {q}}
    /\ Reply(q, "unavailable")
    /\ UNCHANGED <<call, effects>>

Lose(q) ==
    /\ q \in wire
    /\ wire' = wire \ {q}
    /\ UNCHANGED <<call, answers, effects>>

-----------------------------------------------------------------------------
Progress(c) ==
    \/ Send(c) \/ Wake(c) \/ Timeout(c)
    \/ \E status \in HttpStatus : Receive(c, status)

Init ==
    /\ call = [c \in Call |-> Unused]
    /\ wire = {}
    /\ answers = {}
    /\ effects = {}

Next ==
    \/ \E c \in Call :
          \/ \E command \in CommandType : Execute(c, command)
          \/ Progress(c) \/ Unreadable(c) \/ Disconnect(c) \/ Abandon(c)
    \/ \E q \in wire :
          \/ Serve(q) \/ GatewayFails(q) \/ Lose(q)
          \/ \E status \in {"refused", "failed"} : Refuse(q, status)

Spec == Init /\ [][Next]_vars

\* httpx raises after the timeout, if nothing came before; a pause ends.
Fairness == \A c \in Call : WF_vars(Progress(c))

FairSpec == Spec /\ Fairness

-----------------------------------------------------------------------------
(***************************************************************************)
(* Properties                                                              *)
(***************************************************************************)

\* Coroutines, requests and answers are what they should be; in particular no
\* attempt goes beyond MaxRetries.
TypeOK ==
    /\ call \in [Call -> CallState]
    /\ wire \subseteq HttpRequest
    /\ answers \subseteq Answer
    /\ effects \subseteq HttpRequest

\* A command that reports success has made its ticket or article, however many
\* attempts it took and whichever of them was served.
SuccessIsFiled ==
    \A c \in Call :
        (/\ call[c].pc = "over" /\ call[c].error = "None"
         /\ call[c].command # "SearchTickets")
            => \E q \in effects : q.call = c

\* A refusal of the first attempt is the whole truth: the command made nothing
\* and nothing of it is left that could.  (A later refusal says nothing of the
\* attempts before it, and a 500 says nothing at all.)
FirstRefusalIsFinal ==
    \A c \in Call :
        (call[c].error = "REFUSED" /\ call[c].attempt = 0)
            => \A q \in wire \cup effects : q.call = c => q.method = "GET"

\* An article is only sent after a search has found the ticket it is for.
ArticleNeedsTicket ==
    \A q \in wire \cup effects :
        (call[q.call].command = "AddAttachment" /\ q.method = "POST")
            => \E a \in answers : /\ a.request.call = q.call
                                  /\ a.request.method = "GET"
                                  /\ a.status = "success"

Told(s) ==
    CASE s.pc = "idle" -> "unsent"
      [] s.pc = "over" /\ s.error # "None" -> "failed"
      [] s.pc = "over" /\ s.error = "None" ->
            IF s.command = "SearchTickets" THEN "answered" ELSE "succeeded"
      [] OTHER -> "pending"

Once == INSTANCE AtMostOnce
            WITH Effect <- HttpRequest, done <- effects,
                 outcome <- [c \in Call |-> Told(call[c])]

\* The client keeps the promise of AtMostOnce.
ImplementsAtMostOnce == Once!Spec

\* Every command comes to an end.
EveryCallEnds == \A c \in Call : (call[c].pc = "ready") ~> (call[c].pc = "over")
=============================================================================
