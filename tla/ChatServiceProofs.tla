------------------------- MODULE ChatServiceProofs -------------------------
(***************************************************************************)
(* Proofs about ChatService for every set of requests, every number of     *)
(* sends and tickets, and every length of the window in Redis.             *)
(*                                                                         *)
(* IInv is what holds however requests overlap, fail, or lose Redis.  The  *)
(* properties compare Postgres, Redis and what one request has read, and   *)
(* are not inductive, because the reading happens long before the use; so  *)
(* IInv follows each message through its request: that a send has a number *)
(* of its own and has its rows in the log as far as it has come (SendsOK), *)
(* that the window, and every copy of it on its way back to Redis, holds   *)
(* committed turns in order (WindowsOK), that the history is older than    *)
(* the question (HistoryOK), and that a ticket once linked is in every row *)
(* that may be written over it (TicketsOK).                                *)
(*                                                                         *)
(* CInv adds what holds as long as nothing upset the session: requests do  *)
(* not overlap (Alone), nothing is known of a session before it exists     *)
(* (Unborn), and then log, window and context move together (CalmInv,      *)
(* GuideInv), which is what the coherence of a session and the counting of *)
(* deflections rest on.                                                    *)
(***************************************************************************)
EXTENDS ChatService, SelectionProofs

-----------------------------------------------------------------------------
(***************************************************************************)
(* The invariant: requests in any order, failing anywhere                  *)
(***************************************************************************)

\* Phases of a request that sends a message.
Sending ==
    {"context", "history", "save", "link", "graph", "commit"} \cup Recording

TurnOf(r, role) == [send |-> req[r].send, role |-> role]

LoggedTurns == {m.turn : m \in ToSet(session.log)}

CommittedTurns == {m.turn : m \in ToSet(session.log) \cap CommittedRows}

\* A message is sent by one request, which has its rows in the log as far as it
\* has come.
SendOf(r) ==
    /\ IF req[r].pc \in Sending THEN req[r].send \in 1..sends
       ELSE req[r] = [Fresh EXCEPT !.pc = req[r].pc]
    /\ req[r].pc \notin Recording => req[r].role = "user"

Distinct(r, s) ==
    (req[r].pc \in Sending /\ req[s].pc \in Sending) => req[r].send # req[s].send

RowsIn(r) ==
    /\ req[r].pc \in {"context", "history", "save"} =>
          \A t \in LoggedTurns : t.send # req[r].send
    /\ req[r].pc \in {"link", "graph", "commit"} => TurnOf(r, "user") \in LoggedTurns
    /\ req[r].pc \in Recording =>
          {TurnOf(r, "user"), TurnOf(r, "assistant")} \subseteq CommittedTurns

SendsOK ==
    /\ \A t \in LoggedTurns : t.send <= sends
    /\ \A r \in Request : SendOf(r) /\ RowsIn(r)
    /\ \A r, s \in Request : r # s => Distinct(r, s)

\* The window in Redis, and those that have been read to be written back.
Windows ==
    {redis.memory} \cup {req[r].recent : r \in {s \in Request : req[s].pc = "write_memory"}}

Ordered(q) ==
    \A i, j \in DOMAIN q :
        i < j /\ q[i].send = q[j].send => q[i].role = "user" /\ q[j].role = "assistant"

\* A window holds of a request's messages at most the question, and this only
\* while the request is recording the answer.
Awaits(q, r) ==
    req[r].pc \in Sending =>
        \A t \in ToSet(q) : t.send = req[r].send => req[r].role = "assistant" /\ t.role = "user"

WindowsOK ==
    \A q \in Windows :
        /\ ToSet(q) \subseteq CommittedTurns /\ Ordered(q)
        /\ \A r \in Request : Awaits(q, r)

\* What the request has read as history is older than its question.
HistoryIn(r) ==
    req[r].pc \in {"save", "link", "graph"} => \A t \in ToSet(req[r].recent) : t.send # req[r].send

HistoryOK == \A r \in Request : HistoryIn(r)

\* A row that has a ticket was loaded with it or is about to give it to the
\* session.
TicketOf(r) ==
    /\ {req[r].base, req[r].row} \subseteq 0..Len(tickets)
    /\ req[r].base # 0 => req[r].row # 0 /\ session.active # 0
    /\ req[r].pc \in Recording /\ req[r].row # 0 => session.active # 0

TicketsOK ==
    /\ {session.active, redis.context.active} \subseteq 0..Len(tickets)
    /\ redis.context.active # 0 => session.active # 0
    /\ \A r \in Request : TicketOf(r)

IInv == TypeOK /\ SendsOK /\ WindowsOK /\ HistoryOK /\ TicketsOK

-----------------------------------------------------------------------------
(***************************************************************************)
(* The invariant: a session that nothing has disturbed                     *)
(***************************************************************************)
Alone == "overlap" \notin past.upset =>
    \A r, s \in Request : req[r].pc # "idle" /\ req[s].pc # "idle" => r = s

Unborn == ~session.exists =>
    /\ session.active = 0 /\ session.log = <<>> /\ session.events = <<>>
    /\ redis = Empty /\ past.status = "none" /\ Quiet

NoneRecords == \A r \in Request : req[r].pc \notin Recording

ContextAgrees ==
    \/ redis.context = [status |-> past.status, active |-> session.active]
    \/ redis.context = Missing /\ past.status = "none" /\ session.active = 0
       /\ Answered(session.log) = <<>>

Saved(turn) == [turn |-> turn, committed |-> TRUE]

Newest(r) ==
    \E log \in Seq(Message) : \E m \in Message :
        /\ session.log = Append(log, m) /\ m.turn = TurnOf(r, "user")
        /\ \A k \in ToSet(log) : k.turn.send # req[r].send

Answering(r) ==
    \E turns \in Seq(Turn) :
        /\ Answered(session.log) = Append(Append(turns, TurnOf(r, "user")), TurnOf(r, "assistant"))
        /\ redis.memory = Window(IF req[r].role = "user" THEN turns
                                 ELSE Append(turns, TurnOf(r, "user")))
        /\ req[r].pc = "write_memory" => req[r].recent = redis.memory

CalmRequest(r) ==
    /\ req[r].pc \in {"create_context", "welcome"} =>
          session.log = <<>> /\ session.active = 0 /\ past.status = "none" /\ session.events = <<>>
    /\ req[r].pc \in Sending => session.exists
    /\ req[r].pc \in {"context", "history", "save", "link", "graph", "commit"} =>
          req[r].base = session.active
    /\ req[r].pc \in {"history", "save", "link", "graph"} => req[r].status = past.status
    /\ req[r].pc = "commit" =>
          /\ <<past.status, req[r].status>> \in TsFlow
          /\ req[r].outcome = IF past.status # req[r].status /\ req[r].status \in {"resolved", "escalated"}
                              THEN req[r].status ELSE "None"
    /\ req[r].pc \in {"link", "graph", "commit"} => Newest(r)
    /\ req[r].pc \in Recording =>
          /\ req[r].status = past.status
          /\ req[r].row = session.active
          /\ Answering(r)
          /\ req[r].pc # "record_context" \/ req[r].role = "assistant" =>
                redis.context = [status |-> req[r].status, active |-> req[r].row]

CalmInv == Calm =>
    /\ Len(session.events) <= 1
    /\ session.events # <<>> => past.status \in {"resolved", "escalated"}
    /\ NoneRecords => ContextAgrees /\ redis.memory = Window(Answered(session.log))
    /\ \A r \in Request : CalmRequest(r)

GuideRequest(r) ==
    /\ req[r].pc \in Sending \ Recording => req[r].base = session.active
    /\ req[r].pc \in {"context", "history", "save", "link", "graph"} => req[r].row = req[r].base
    /\ req[r].pc \in Sending \ {"context"} => ~(req[r].status = "guiding" /\ req[r].row # 0)
    /\ req[r].pc \in Recording => req[r].row = session.active
    /\ req[r].pc \in Recording /\ (req[r].pc # "record_context" \/ req[r].role = "assistant")
          => redis.context.status \in {"missing", req[r].status}

GuideInv == (past.upset \subseteq {"lost"} /\ FALSE \notin KbSettings) =>
    /\ NoneRecords => ~(redis.context.status = "guiding" /\ session.active # 0)
    /\ \A r \in Request : GuideRequest(r)

CInv == Alone /\ Unborn /\ CalmInv /\ GuideInv

-----------------------------------------------------------------------------
(***************************************************************************)
(* Logs and turns                                                          *)
(***************************************************************************)
LEMMA LogRange ==
    ASSUME NEW log \in Seq(Message), NEW keep
    PROVE  /\ Select(log, keep) \in Seq(Message)
           /\ ToSet(Select(log, keep)) = ToSet(log) \cap keep
           /\ ToSet(log) \subseteq Message
<1>1. ToSet(log) \subseteq Message
    BY ElementOfSeq, LenProperties DEF ToSet
<1> QED
    BY <1>1, SelectType, SelectRange

\* Turns drops nothing of a log but the commit marks.
LEMMA TurnsType ==
    ASSUME NEW log \in Seq(Message)
    PROVE  /\ Turns(log) \in Seq(Turn)
           /\ Len(Turns(log)) = Len(log)
           /\ \A i \in 1..Len(log) : Turns(log)[i] = log[i].turn
           /\ ToSet(Turns(log)) = {m.turn : m \in ToSet(log)}
<1>1. /\ Len(log) \in Nat /\ DOMAIN log = 1..Len(log)
      /\ \A i \in 1..Len(log) : log[i] \in Message
    BY LenProperties, ElementOfSeq
<1>2. Turns(log) = [i \in 1..Len(log) |-> log[i].turn]
    BY <1>1 DEF Turns
<1>3. \A i \in 1..Len(log) : log[i].turn \in Turn
    BY <1>1 DEF Message
<1>4. Turns(log) \in Seq(Turn)
    BY <1>1, <1>2, <1>3
<1>5. Len(Turns(log)) = Len(log)
    BY <1>1, <1>2, <1>4, LenProperties
<1>6. ToSet(Turns(log)) = {m.turn : m \in ToSet(log)}
    BY <1>1, <1>2, Zenon DEF ToSet
<1> QED
    BY <1>2, <1>4, <1>5, <1>6

\* Committed keeps the rows that are committed, and no other.
LEMMA CommittedRange ==
    ASSUME NEW log \in Seq(Message)
    PROVE  /\ Committed(log) \in Seq(Turn)
           /\ ToSet(Committed(log)) = {m.turn : m \in ToSet(log) \cap CommittedRows}
BY LogRange, TurnsType DEF Committed

\* What the rows of a log are once those of a send are committed.
LEMMA CommitRowsRange ==
    ASSUME NEW log \in Seq(Message), NEW send
    PROVE  /\ CommitRows(send, log) \in Seq(Message)
           /\ Len(CommitRows(send, log)) = Len(log)
           /\ \A i \in 1..Len(log) : /\ CommitRows(send, log)[i].turn = log[i].turn
                                     /\ CommitRows(send, log)[i].committed =
                                          (log[i].committed \/ log[i].turn.send = send)
           /\ \A m \in ToSet(CommitRows(send, log)) :
                 \E k \in ToSet(log) : /\ k.turn = m.turn
                                       /\ m.committed = (k.committed \/ k.turn.send = send)
           /\ \A k \in ToSet(log) :
                 \E m \in ToSet(CommitRows(send, log)) :
                    /\ k.turn = m.turn
                    /\ m.committed = (k.committed \/ k.turn.send = send)
<1> DEFINE c == CommitRows(send, log)
           row(i) == [log[i] EXCEPT !.committed = log[i].committed \/ log[i].turn.send = send]
<1>1. /\ Len(log) \in Nat /\ DOMAIN log = 1..Len(log)
      /\ \A i \in 1..Len(log) : log[i] \in Message
    BY LenProperties, ElementOfSeq
<1>2. c = [i \in 1..Len(log) |-> row(i)]
    BY <1>1 DEF CommitRows
<1>3. ASSUME NEW i \in 1..Len(log)
      PROVE  /\ row(i) \in Message
             /\ row(i).turn = log[i].turn
             /\ row(i).committed = (log[i].committed \/ log[i].turn.send = send)
  <2>1. PICK b \in BOOLEAN : b = (log[i].committed \/ log[i].turn.send = send)
      OBVIOUS
  <2>2. row(i) = [log[i] EXCEPT !.committed = b]
      BY <2>1
  <2>3. log[i] \in Message
      BY <1>1
  <2> HIDE DEF row
  <2> QED
      BY <2>1, <2>2, <2>3 DEF Message
<1> HIDE DEF row
<1>4. c \in Seq(Message)
    BY <1>1, <1>2, <1>3
<1>5. DOMAIN c = 1..Len(log) /\ Len(c) = Len(log)
    BY <1>1, <1>2, <1>4, LenProperties
<1>6. \A i \in 1..Len(log) : c[i].turn = log[i].turn
                             /\ c[i].committed = (log[i].committed \/ log[i].turn.send = send)
    BY <1>2, <1>3
<1> HIDE DEF c
<1>7. \A m \in ToSet(c) : \E k \in ToSet(log) :
          /\ k.turn = m.turn
          /\ m.committed = (k.committed \/ k.turn.send = send)
    BY <1>1, <1>5, <1>6 DEF ToSet
<1>8. \A k \in ToSet(log) : \E m \in ToSet(c) :
          /\ k.turn = m.turn
          /\ m.committed = (k.committed \/ k.turn.send = send)
    BY <1>1, <1>5, <1>6 DEF ToSet
<1> QED
    BY <1>4, <1>5, <1>6, <1>7, <1>8 DEF c

\* Where a window of at most max turns begins.
LEMMA WindowStart ==
    ASSUME NEW n \in Nat, NEW max \in Nat, max # 0,
           NEW a, a = IF n > max THEN n - max + 1 ELSE 1
    PROVE  /\ a \in Nat /\ a # 0 /\ a <= n + 1
           /\ n - a + 1 = IF n < max THEN n ELSE max
OBVIOUS

\* A window is the end of the turns, and not longer than Redis keeps it.
LEMMA WindowType ==
    ASSUME NEW turns \in Seq(Turn)
    PROVE  /\ Window(turns) \in Seq(Turn)
           /\ Len(Window(turns)) <= MaxRecentTurns
           /\ Len(Window(turns)) = IF Len(turns) < MaxRecentTurns THEN Len(turns) ELSE MaxRecentTurns
           /\ \A i \in 1..Len(Window(turns)) :
                 Window(turns)[i] = turns[i + (Len(turns) - Len(Window(turns)))]
<1> DEFINE n == Len(turns)
           a == IF n > MaxRecentTurns THEN n - MaxRecentTurns + 1 ELSE 1
<1>1. n \in Nat /\ MaxRecentTurns \in Nat \ {0}
    BY MaxRecentTurnsAssumption, LenProperties
<1>2. a \in Int /\ n \in Int /\ \A i \in a..n : turns[i] \in Turn
    BY <1>1, ElementOfSeq
<1>3. /\ Window(turns) = SubSeq(turns, a, n)
      /\ SubSeq(turns, a, n) \in Seq(Turn)
      /\ Len(SubSeq(turns, a, n)) = IF a <= n THEN n - a + 1 ELSE 0
      /\ \A i \in 1..n - a + 1 : SubSeq(turns, a, n)[i] = turns[a + i - 1]
  <2> HIDE DEF a, n
  <2>1. Window(turns) = SubSeq(turns, a, n)
      BY DEF Window, a, n
  <2> QED
      BY <1>2, <2>1, SubSeqProperties
<1>4. /\ a \in Nat /\ a # 0 /\ a <= n + 1
      /\ n - a + 1 = IF n < MaxRecentTurns THEN n ELSE MaxRecentTurns
  <2> HIDE DEF n
  <2> QED
      BY <1>1, WindowStart
<1> HIDE DEF a
<1>5. Len(Window(turns)) = n - a + 1
    BY <1>1, <1>3, <1>4
<1>6. \A i \in 1..n - a + 1 : a + i - 1 = i + (n - (n - a + 1))
    BY <1>1, <1>4
<1>7. \A i \in 1..Len(Window(turns)) :
          Window(turns)[i] = turns[i + (n - Len(Window(turns)))]
  <2> SUFFICES ASSUME NEW i \in 1..n - a + 1
               PROVE  Window(turns)[i] = turns[i + (n - (n - a + 1))]
      BY <1>5
  <2>1. a + i - 1 = i + (n - (n - a + 1))
      BY <1>6
  <2> QED
      BY <1>3, <2>1
<1>8. Len(Window(turns)) = IF n < MaxRecentTurns THEN n ELSE MaxRecentTurns
    BY <1>4, <1>5
<1>9. Len(Window(turns)) <= MaxRecentTurns
    BY <1>1, <1>8
<1> QED
    BY <1>3, <1>7, <1>8, <1>9

\* A window makes no turn up.
LEMMA WindowRange ==
    ASSUME NEW turns \in Seq(Turn)
    PROVE  ToSet(Window(turns)) \subseteq ToSet(turns)
<1> DEFINE w == Window(turns)
           d == Len(turns) - Len(w)
<1>1. /\ Len(w) \in Nat /\ Len(turns) \in Nat /\ d \in Nat
      /\ DOMAIN w = 1..Len(w) /\ DOMAIN turns = 1..Len(turns)
    BY WindowType, MaxRecentTurnsAssumption, LenProperties
<1>2. \A i \in 1..Len(w) : w[i] = turns[i + d] /\ i + d \in 1..Len(turns)
  <2>1. \A i \in 1..Len(w) : w[i] = turns[i + d]
      BY WindowType
  <2> HIDE DEF w
  <2> QED
      BY <1>1, <2>1
<1> QED
    BY <1>1, <1>2 DEF ToSet

\* A window of turns in order is in order.
LEMMA WindowOrdered ==
    ASSUME NEW turns \in Seq(Turn), Ordered(turns)
    PROVE  Ordered(Window(turns))
<1> DEFINE w == Window(turns)
           d == Len(turns) - Len(w)
<1>1. /\ Len(w) \in Nat /\ Len(turns) \in Nat /\ d \in Nat
      /\ DOMAIN w = 1..Len(w) /\ DOMAIN turns = 1..Len(turns)
    BY WindowType, MaxRecentTurnsAssumption, LenProperties
<1>2. \A i \in 1..Len(w) : w[i] = turns[i + d] /\ i + d \in 1..Len(turns)
  <2>1. \A i \in 1..Len(w) : w[i] = turns[i + d]
      BY WindowType
  <2> HIDE DEF w
  <2> QED
      BY <1>1, <2>1
<1> HIDE DEF w, d
<1>3. ASSUME NEW i \in DOMAIN w, NEW j \in DOMAIN w, i < j, w[i].send = w[j].send
      PROVE  w[i].role = "user" /\ w[j].role = "assistant"
  <2>1. i + d \in DOMAIN turns /\ j + d \in DOMAIN turns /\ i + d < j + d
      BY <1>1, <1>2, <1>3
  <2> QED
      BY <1>1, <1>2, <1>3, <2>1 DEF Ordered
<1> QED
    BY <1>3 DEF Ordered, w

-----------------------------------------------------------------------------
(***************************************************************************)
(* Type correctness                                                        *)
(***************************************************************************)
LEMMA FreshType == Fresh \in RequestState
<1>1. <<>> \in Seq(Turn) /\ 0 \in 0..MaxSends
    BY EmptySeq, MaxSendsAssumption
<1> QED
    BY <1>1 DEF Fresh, RequestState, Phase, TsStatus

\* What is known of the graph's answer before it is there.
LEMMA EndFacts ==
    ASSUME NEW b, NEW n \in Nat, NEW e \in TurnEnds(b, n)
    PROVE  /\ e.status \in TsStatus
           /\ e.made \in {0, n + 1}
           /\ e.active \in 0..n + 1
           /\ e.troubled \in BOOLEAN
           /\ e.outcome \in {"None", "resolved", "escalated"}
           /\ e.active = n + 1 => e.made = n + 1
           /\ MayEnd(b, e)
BY DEF TurnEnds

\* A row of the log.
LEMMA RowType ==
    ASSUME NEW s \in 0..MaxSends, NEW role \in {"user", "assistant"}, NEW c \in BOOLEAN
    PROVE  [turn |-> [send |-> s, role |-> role], committed |-> c] \in Message
BY DEF Message, Turn

\* TypeOK, field by field.
LEMMA TypeFacts ==
    ASSUME TypeOK
    PROVE  /\ session.exists \in BOOLEAN
           /\ session.active \in Nat
           /\ session.log \in Seq(Message)
           /\ session.events \in Seq({"resolved", "escalated"})
           /\ redis.context \in Context
           /\ redis.memory \in Seq(Turn)
           /\ Len(tickets) \in Nat
           /\ \A r \in Request : /\ req[r] \in RequestState
                                 /\ req[r].send \in 0..MaxSends
                                 /\ req[r].recent \in Seq(Turn)
                                 /\ req[r].role \in {"user", "assistant"}
           /\ sends \in Nat /\ sends <= MaxSends
BY MaxSendsAssumption DEF TypeOK, RequestState

\* One request moves: the others stay as they are.
LEMMA RequestMoves ==
    ASSUME NEW f \in [Request -> RequestState], NEW r \in Request, NEW p \in Phase
    PROVE  /\ [f EXCEPT ![r].pc = p] \in [Request -> RequestState]
           /\ [f EXCEPT ![r] = Fresh] \in [Request -> RequestState]
           /\ \A turns \in Seq(Turn) :
                 [f EXCEPT ![r].pc = p, ![r].recent = turns] \in [Request -> RequestState]
           /\ \A s \in TsStatus :
                 [f EXCEPT ![r].pc = p, ![r].status = s] \in [Request -> RequestState]
BY FreshType DEF RequestState

\* The phases there are.
LEMMA PhaseType ==
    /\ {"create_context", "welcome", "context", "history", "save", "link", "graph", "commit"}
           \subseteq Phase
    /\ {"idle", "record_context", "read_memory", "write_memory"} \subseteq Phase
BY DEF Phase

\* Each step of a request keeps the types.
LEMMA StepTypes ==
    ASSUME TypeOK, NEW r \in Request, Continue(r)
    PROVE  TypeOK'
<1> req \in [Request -> RequestState]
    BY DEF TypeOK
<1>1. CASE CreateContext(r)
  <2>1. req' \in [Request -> RequestState]
      BY <1>1, RequestMoves, PhaseType DEF CreateContext
  <2>2. redis' \in [context : Context, memory : Seq(Turn)] /\ redis'.memory = redis.memory
      BY <1>1 DEF CreateContext, TypeOK, Context, TsStatus, Missing
  <2> QED
      BY <1>1, <2>1, <2>2 DEF CreateContext, TypeOK
<1>2. CASE Welcome(r)
  <2>1. [turn |-> [send |-> 0, role |-> "assistant"], committed |-> TRUE] \in Message
    <3>1. 0 \in 0..MaxSends
        BY MaxSendsAssumption
    <3> QED
        BY <3>1, RowType
  <2>2. session.log' \in Seq(Message)
      BY <1>2, <2>1, TypeFacts, AppendProperties DEF Welcome, TypeOK
  <2>3. req' \in [Request -> RequestState]
      BY <1>2, RequestMoves, PhaseType DEF Welcome
  <2> QED
      BY <1>2, <2>2, <2>3 DEF Welcome, TypeOK
<1>3. CASE ReadContext(r)
  <2>1. (IF redis.context = Missing THEN "none" ELSE redis.context.status) \in TsStatus
      BY DEF TypeOK, Context, TsStatus
  <2>2. req' \in [Request -> RequestState]
      BY <1>3, <2>1, RequestMoves, PhaseType DEF ReadContext
  <2> QED
      BY <1>3, <2>2 DEF ReadContext, TypeOK
<1>4. CASE LoadHistory(r)
  <2>1. (IF redis.memory # <<>> THEN redis.memory ELSE Visible(req[r].send, session.log)) \in Seq(Turn)
      BY TypeFacts, LogRange, TurnsType DEF Visible
  <2>2. req' \in [Request -> RequestState]
      BY <1>4, <2>1, RequestMoves, PhaseType DEF LoadHistory
  <2> QED
      BY <1>4, <2>2 DEF LoadHistory, TypeOK
<1>5. CASE SaveUserMessage(r)
  <2>1. [turn |-> [send |-> req[r].send, role |-> "user"], committed |-> FALSE] \in Message
      BY RowType, TypeFacts
  <2>2. session.log' \in Seq(Message)
      BY <1>5, <2>1, TypeFacts, AppendProperties DEF SaveUserMessage, TypeOK
  <2>3. req' \in [Request -> RequestState]
    <3>1. (IF req[r].files THEN "link" ELSE "graph") \in Phase
        BY PhaseType
    <3> QED
        BY <1>5, <3>1, RequestMoves DEF SaveUserMessage
  <2> QED
      BY <1>5, <2>2, <2>3 DEF SaveUserMessage, TypeOK
<1>6. CASE LinkAttachments(r)
  <2>1. session.log' \in Seq(Message)
      BY <1>6, TypeFacts, CommitRowsRange DEF LinkAttachments, TypeOK
  <2>2. req' \in [Request -> RequestState]
      BY <1>6, RequestMoves, PhaseType DEF LinkAttachments
  <2> QED
      BY <1>6, <2>1, <2>2 DEF LinkAttachments, TypeOK
<1>7. CASE RunGraph(r)
  <2>1. PICK kb \in KbSettings :
            \E e \in TurnEnds([kb |-> kb, status |-> req[r].status, active |-> req[r].row], Len(tickets)) :
               /\ tickets' = IF e.made # 0 THEN Append(tickets, e.troubled) ELSE tickets
               /\ req' = [req EXCEPT ![r].pc = "commit",
                                     ![r].status = e.status,
                                     ![r].outcome = e.outcome,
                                     ![r].row = IF e.active # 0 THEN e.active ELSE @]
      BY <1>7 DEF RunGraph
  <2>2. PICK e \in TurnEnds([kb |-> kb, status |-> req[r].status, active |-> req[r].row], Len(tickets)) :
               /\ tickets' = IF e.made # 0 THEN Append(tickets, e.troubled) ELSE tickets
               /\ req' = [req EXCEPT ![r].pc = "commit",
                                     ![r].status = e.status,
                                     ![r].outcome = e.outcome,
                                     ![r].row = IF e.active # 0 THEN e.active ELSE @]
      BY <2>1
  <2>3. /\ e.status \in TsStatus /\ e.active \in Nat /\ e.troubled \in BOOLEAN
        /\ e.outcome \in {"None", "resolved", "escalated"}
      BY EndFacts, TypeFacts
  <2>4. req' \in [Request -> RequestState]
    <3>1. (IF e.active # 0 THEN e.active ELSE req[r].row) \in Nat
        BY <2>3 DEF RequestState
    <3>2. [req[r] EXCEPT !.pc = "commit", !.status = e.status, !.outcome = e.outcome,
                         !.row = IF e.active # 0 THEN e.active ELSE req[r].row] \in RequestState
      <4>1. \A n \in Nat :
                [req[r] EXCEPT !.pc = "commit", !.status = e.status, !.outcome = e.outcome, !.row = n]
                    \in RequestState
          BY <2>3, PhaseType DEF RequestState
      <4> QED
          BY <3>1, <4>1
    <3>3. req' = [req EXCEPT ![r] =
              [req[r] EXCEPT !.pc = "commit", !.status = e.status, !.outcome = e.outcome,
                             !.row = IF e.active # 0 THEN e.active ELSE req[r].row]]
        BY <2>2
    <3> QED
        BY <3>2, <3>3
  <2>5. tickets' \in Seq(BOOLEAN)
    <3>1. tickets \in Seq(BOOLEAN)
        BY DEF TypeOK
    <3> QED
        BY <2>2, <2>3, <3>1, AppendProperties
  <2> QED
      BY <1>7, <2>4, <2>5 DEF RunGraph, TypeOK
<1>8. CASE CommitExchange(r)
  <2>1. session.log' \in Seq(Message)
    <3>1. Append(session.log, [turn |-> [send |-> req[r].send, role |-> "assistant"],
                               committed |-> FALSE]) \in Seq(Message)
        BY RowType, TypeFacts, AppendProperties
    <3>2. Exchange(r) \in Seq(Message)
        BY <3>1, CommitRowsRange DEF Exchange
    <3> QED
        BY <1>8, <3>2 DEF CommitExchange, TypeOK
  <2>2. session.active' \in Nat
      BY <1>8 DEF CommitExchange, TypeOK, ActiveAfter, RequestState
  <2>3. session.events' \in Seq({"resolved", "escalated"})
    <3>1. req[r].outcome # "None" => req[r].outcome \in {"resolved", "escalated"}
        BY DEF RequestState
    <3> QED
        BY <1>8, <3>1, TypeFacts, AppendProperties DEF CommitExchange, TypeOK
  <2>4. session' \in [exists : BOOLEAN, active : Nat, log : Seq(Message),
                      events : Seq({"resolved", "escalated"})]
      BY <1>8, <2>1, <2>2, <2>3 DEF CommitExchange, TypeOK
  <2>5. req' \in [Request -> RequestState]
      BY <1>8, RequestMoves, PhaseType DEF CommitExchange
  <2>6. past' \in [status : TsStatus, upset : SUBSET Disturbance]
      BY <1>8 DEF CommitExchange, TypeOK, RequestState
  <2> QED
      BY <1>8, <2>4, <2>5, <2>6 DEF CommitExchange, TypeOK
<1>9. CASE RecordContext(r)
  <2>1. req' \in [Request -> RequestState]
      BY <1>9, RequestMoves, PhaseType DEF RecordContext
  <2>2. RecordedContext(r) \in Context
      BY DEF RecordedContext, RequestState, Context
  <2>3. redis' \in [context : Context, memory : Seq(Turn)] /\ redis'.memory = redis.memory
      BY <1>9, <2>2 DEF RecordContext, TypeOK
  <2> QED
      BY <1>9, <2>1, <2>3 DEF RecordContext, TypeOK
<1>10. CASE ReadMemory(r)
  <2>1. req' \in [Request -> RequestState]
      BY <1>10, TypeFacts, RequestMoves, PhaseType DEF ReadMemory
  <2> QED
      BY <1>10, <2>1 DEF ReadMemory, TypeOK
<1>11. CASE WriteMemory(r)
  <2>1. Append(req[r].recent, Recorded(r)) \in Seq(Turn)
      BY TypeFacts, AppendProperties DEF Recorded, Turn
  <2>2. redis.memory' \in Seq(Turn) /\ Len(redis.memory') <= MaxRecentTurns
      BY <1>11, <2>1, WindowType DEF WriteMemory, TypeOK
  <2>3. redis' \in [context : Context, memory : Seq(Turn)]
      BY <1>11, <2>2 DEF WriteMemory, TypeOK
  <2>4. AfterRecord(r) \in RequestState
      BY FreshType, PhaseType DEF AfterRecord, RequestState
  <2>5. req' \in [Request -> RequestState]
      BY <1>11, <2>4 DEF WriteMemory
  <2> QED
      BY <1>11, <2>2, <2>3, <2>5 DEF WriteMemory, TypeOK
<1> QED
    BY <1>1, <1>2, <1>3, <1>4, <1>5, <1>6, <1>7, <1>8, <1>9, <1>10, <1>11 DEF Continue

\* So does every step.
LEMMA NextTypes ==
    ASSUME TypeOK, [Next]_vars
    PROVE  TypeOK'
<1> req \in [Request -> RequestState]
    BY DEF TypeOK
<1>1. ASSUME NEW r \in Request, CreateSession(r)
      PROVE  TypeOK'
  <2>1. req' \in [Request -> RequestState]
      BY <1>1, RequestMoves, PhaseType DEF CreateSession
  <2>2. past' \in [status : TsStatus, upset : SUBSET Disturbance]
      BY <1>1 DEF CreateSession, Arrive, TypeOK, Disturbance
  <2> QED
      BY <1>1, <2>1, <2>2 DEF CreateSession, TypeOK
<1>2. ASSUME NEW r \in Request, NEW files \in BOOLEAN, LoadSession(r, files)
      PROVE  TypeOK'
  <2>1. sends' \in 0..MaxSends
      BY <1>2, TypeFacts, MaxSendsAssumption DEF LoadSession
  <2>2. req' \in [Request -> RequestState]
    <3>1. [Fresh EXCEPT !.pc = "context", !.send = sends + 1, !.files = files,
                        !.base = session.active, !.row = session.active] \in RequestState
      <4>1. sends + 1 \in 0..MaxSends /\ session.active \in Nat
          BY <1>2, <2>1, TypeFacts DEF LoadSession
      <4> QED
          BY <4>1, FreshType, PhaseType DEF RequestState
    <3> QED
        BY <1>2, <3>1 DEF LoadSession
  <2>3. past' \in [status : TsStatus, upset : SUBSET Disturbance]
      BY <1>2 DEF LoadSession, Arrive, TypeOK, Disturbance
  <2> QED
      BY <1>2, <2>1, <2>2, <2>3 DEF LoadSession, TypeOK
<1>3. ASSUME NEW r \in Request, Abort(r)
      PROVE  TypeOK'
  <2>1. session.log' \in Seq(Message)
      BY <1>3, TypeFacts, LogRange DEF Abort, TypeOK
  <2>2. past' \in [status : TsStatus, upset : SUBSET Disturbance]
      BY <1>3 DEF Abort, TypeOK, Disturbance
  <2>3. req' \in [Request -> RequestState]
      BY <1>3, RequestMoves, PhaseType DEF Abort
  <2> QED
      BY <1>3, <2>1, <2>2, <2>3 DEF Abort, TypeOK
<1>4. CASE LoseRedis
  <2>1. /\ Missing \in Context /\ <<>> \in Seq(Turn) /\ Len(<<>>) = 0
        /\ MaxRecentTurns >= 0
      BY EmptySeq, MaxRecentTurnsAssumption DEF Missing, Context
  <2>2. redis' \in [context : Context, memory : Seq(Turn)] /\ Len(redis'.memory) <= MaxRecentTurns
    <3>1. CASE redis' = Empty
        BY <2>1, <3>1 DEF Empty
    <3>2. CASE redis' = [redis EXCEPT !.context = Missing]
        BY <2>1, <3>2 DEF TypeOK
    <3>3. CASE redis' = [redis EXCEPT !.memory = <<>>]
        BY <2>1, <3>3 DEF TypeOK
    <3> QED
        BY <1>4, <3>1, <3>2, <3>3 DEF LoseRedis
  <2>3. past' \in [status : TsStatus, upset : SUBSET Disturbance]
      BY <1>4 DEF LoseRedis, TypeOK, Disturbance
  <2> QED
      BY <1>4, <2>2, <2>3 DEF LoseRedis, TypeOK
<1>5. CASE UNCHANGED vars
    BY <1>5 DEF vars, TypeOK
<1> QED
    BY <1>1, <1>2, <1>3, <1>4, <1>5, StepTypes DEF Next, Begin

\* The types hold.
THEOREM TypeCorrect == Spec => []TypeOK
<1>1. Init => TypeOK
    BY EmptySeq, FreshType, MaxSendsAssumption, MaxRecentTurnsAssumption
    DEF Init, TypeOK, Empty, Missing, Context, TsStatus, Disturbance
<1>2. TypeOK /\ [Next]_vars => TypeOK'
    BY NextTypes
<1> QED
    BY <1>1, <1>2, PTL DEF Spec

-----------------------------------------------------------------------------
(***************************************************************************)
(* What the actions make of the log                                        *)
(***************************************************************************)
LEMMA AppendTurns ==
    ASSUME TypeOK, NEW m \in Message, session.log' = Append(session.log, m)
    PROVE  /\ LoggedTurns' = LoggedTurns \cup {m.turn}
           /\ CommittedTurns' = IF m.committed THEN CommittedTurns \cup {m.turn} ELSE CommittedTurns
<1>1. ToSet(session.log') = ToSet(session.log) \cup {m}
    BY TypeFacts, AppendRange
<1>2. m \in CommittedRows <=> m.committed
    BY DEF CommittedRows
<1> QED
    BY <1>1, <1>2 DEF LoggedTurns, CommittedTurns

\* A commit changes which rows count, not which there are.
LEMMA CommitTurns ==
    ASSUME TypeOK, NEW log \in Seq(Message), NEW send, session.log' = CommitRows(send, log)
    PROVE  /\ LoggedTurns' = {m.turn : m \in ToSet(log)}
           /\ CommittedTurns' = {m.turn : m \in {k \in ToSet(log) : k.committed \/ k.turn.send = send}}
<1> DEFINE c == CommitRows(send, log)
<1>1. /\ \A m \in ToSet(c) :
            \E k \in ToSet(log) : /\ k.turn = m.turn
                                  /\ m.committed = (k.committed \/ k.turn.send = send)
      /\ \A k \in ToSet(log) :
            \E m \in ToSet(c) : /\ k.turn = m.turn
                                /\ m.committed = (k.committed \/ k.turn.send = send)
      /\ c \in Seq(Message)
    BY CommitRowsRange
<1>2. ToSet(c) \subseteq Message
    BY <1>1, LogRange
<1>3. LoggedTurns' = {m.turn : m \in ToSet(c)} /\ CommittedTurns' = {m.turn : m \in ToSet(c) \cap CommittedRows}
    BY DEF LoggedTurns, CommittedTurns
<1> HIDE DEF c
<1>4. \A m \in ToSet(c) : m \in CommittedRows <=> m.committed
    BY <1>2 DEF CommittedRows
<1>5. {m.turn : m \in ToSet(c)} = {m.turn : m \in ToSet(log)}
    BY <1>1
<1>6. {m.turn : m \in ToSet(c) \cap CommittedRows} =
         {m.turn : m \in {k \in ToSet(log) : k.committed \/ k.turn.send = send}}
  <2>1. ASSUME NEW m \in ToSet(c), m.committed
        PROVE  \E k \in ToSet(log) : (k.committed \/ k.turn.send = send) /\ k.turn = m.turn
      BY <1>1, <2>1
  <2>2. ASSUME NEW k \in ToSet(log), k.committed \/ k.turn.send = send
        PROVE  \E m \in ToSet(c) : m.committed /\ k.turn = m.turn
      BY <1>1, <2>2
  <2> QED
      BY <1>4, <2>1, <2>2
<1> QED
    BY <1>3, <1>5, <1>6

\* Every step keeps what is committed, and leaves out only rows of the request
\* that takes it.
LEMMA LogSteps ==
    ASSUME TypeOK
    PROVE  /\ session.log' = session.log =>
                 LoggedTurns' = LoggedTurns /\ CommittedTurns' = CommittedTurns
           /\ \A r \in Request :
              /\ SaveUserMessage(r) => /\ LoggedTurns' = LoggedTurns \cup {TurnOf(r, "user")}
                                       /\ CommittedTurns' = CommittedTurns
              /\ LinkAttachments(r) => /\ LoggedTurns' = LoggedTurns
                                       /\ CommittedTurns \subseteq CommittedTurns'
              /\ CommitExchange(r) =>
                   /\ LoggedTurns' = LoggedTurns \cup {TurnOf(r, "assistant")}
                   /\ CommittedTurns \subseteq CommittedTurns'
                   /\ \A t \in LoggedTurns' : t.send = req[r].send => t \in CommittedTurns'
              /\ Welcome(r) =>
                   /\ LoggedTurns' = LoggedTurns \cup {[send |-> 0, role |-> "assistant"]}
                   /\ CommittedTurns \subseteq CommittedTurns'
              /\ Abort(r) => /\ LoggedTurns' \subseteq LoggedTurns
                             /\ \A t \in LoggedTurns : t.send # req[r].send => t \in LoggedTurns'
                             /\ CommittedTurns' = CommittedTurns
<1> USE TypeFacts
<1>1. ASSUME session.log' = session.log
      PROVE  LoggedTurns' = LoggedTurns /\ CommittedTurns' = CommittedTurns
    BY <1>1 DEF LoggedTurns, CommittedTurns
<1>2. ASSUME NEW r \in Request, SaveUserMessage(r)
      PROVE  /\ LoggedTurns' = LoggedTurns \cup {TurnOf(r, "user")}
             /\ CommittedTurns' = CommittedTurns
  <2> DEFINE m == [turn |-> [send |-> req[r].send, role |-> "user"], committed |-> FALSE]
  <2>1. m \in Message /\ m.turn = TurnOf(r, "user") /\ ~m.committed
      BY RowType DEF TurnOf
  <2>2. session.log' = Append(session.log, m)
      BY <1>2 DEF SaveUserMessage, TypeOK
  <2> HIDE DEF m
  <2> QED
      BY <2>1, <2>2, AppendTurns
<1>3. ASSUME NEW r \in Request, LinkAttachments(r)
      PROVE  /\ LoggedTurns' = LoggedTurns
             /\ CommittedTurns \subseteq CommittedTurns'
  <2>1. session.log' = CommitRows(req[r].send, session.log)
      BY <1>3 DEF LinkAttachments, TypeOK
  <2>2. /\ LoggedTurns' = LoggedTurns
        /\ CommittedTurns' = {m.turn : m \in {k \in ToSet(session.log) : k.committed \/ k.turn.send = req[r].send}}
      BY <2>1, CommitTurns DEF LoggedTurns
  <2> QED
      BY <2>2 DEF CommittedTurns, CommittedRows
<1>4. ASSUME NEW r \in Request, CommitExchange(r)
      PROVE  /\ LoggedTurns' = LoggedTurns \cup {TurnOf(r, "assistant")}
             /\ CommittedTurns \subseteq CommittedTurns'
             /\ \A t \in LoggedTurns' : t.send = req[r].send => t \in CommittedTurns'
  <2> DEFINE m == [turn |-> [send |-> req[r].send, role |-> "assistant"], committed |-> FALSE]
             log == Append(session.log, m)
  <2>1. m \in Message /\ m.turn = TurnOf(r, "assistant")
      BY RowType DEF TurnOf
  <2>2. session.log' = CommitRows(req[r].send, log)
      BY <1>4 DEF CommitExchange, Exchange, TypeOK
  <2> HIDE DEF m
  <2>3. log \in Seq(Message) /\ ToSet(log) = ToSet(session.log) \cup {m}
      BY <2>1, AppendProperties, AppendRange
  <2> HIDE DEF log
  <2>4. /\ LoggedTurns' = {k.turn : k \in ToSet(log)}
        /\ CommittedTurns' = {k.turn : k \in {h \in ToSet(log) : h.committed \/ h.turn.send = req[r].send}}
      BY <2>2, <2>3, CommitTurns
  <2>5. LoggedTurns' = LoggedTurns \cup {TurnOf(r, "assistant")}
      BY <2>1, <2>3, <2>4 DEF LoggedTurns
  <2>6. CommittedTurns \subseteq CommittedTurns'
      BY <2>3, <2>4 DEF CommittedTurns, CommittedRows
  <2>7. \A t \in LoggedTurns' : t.send = req[r].send => t \in CommittedTurns'
      BY <2>4
  <2> QED
      BY <2>5, <2>6, <2>7
<1>5. ASSUME NEW r \in Request, Welcome(r)
      PROVE  /\ LoggedTurns' = LoggedTurns \cup {[send |-> 0, role |-> "assistant"]}
             /\ CommittedTurns \subseteq CommittedTurns'
  <2> DEFINE m == [turn |-> [send |-> 0, role |-> "assistant"], committed |-> TRUE]
  <2>1. m \in Message /\ m.turn = [send |-> 0, role |-> "assistant"]
    <3>1. 0 \in 0..MaxSends
        BY MaxSendsAssumption
    <3> QED
        BY <3>1, RowType
  <2>2. session.log' = Append(session.log, m)
      BY <1>5 DEF Welcome, TypeOK
  <2> HIDE DEF m
  <2> QED
      BY <2>1, <2>2, AppendTurns
<1>6. ASSUME NEW r \in Request, Abort(r)
      PROVE  /\ LoggedTurns' \subseteq LoggedTurns
             /\ \A t \in LoggedTurns : t.send # req[r].send => t \in LoggedTurns'
             /\ CommittedTurns' = CommittedTurns
  <2>1. session.log' = Select(session.log, CommittedRows \cup (Message \ RowsOf(req[r].send)))
      BY <1>6 DEF Abort, TypeOK
  <2>2. /\ ToSet(session.log') = ToSet(session.log) \cap (CommittedRows \cup (Message \ RowsOf(req[r].send)))
        /\ ToSet(session.log) \subseteq Message
      BY <2>1, LogRange
  <2>3. \A m \in ToSet(session.log) : m.turn.send # req[r].send => m \in ToSet(session.log')
      BY <2>2 DEF RowsOf
  <2> QED
      BY <2>2, <2>3 DEF LoggedTurns, CommittedTurns
<1> QED
    BY <1>1, <1>2, <1>3, <1>4, <1>5, <1>6

-----------------------------------------------------------------------------
(***************************************************************************)
(* One request moves: what this leaves alone                               *)
(***************************************************************************)
Moves(r) ==
    /\ TypeOK'
    /\ \A s \in Request : s # r => req'[s] = req[s]
    /\ sends' >= sends
    /\ CommittedTurns \subseteq CommittedTurns'
    /\ \A t \in LoggedTurns : t.send # req[r].send => t \in LoggedTurns'
    /\ \A t \in LoggedTurns' : t \in LoggedTurns \/ t.send = 0 \/ t.send = req[r].send
    /\ Len(tickets') >= Len(tickets)
    /\ session.active # 0 => session.active' # 0

\* A request that sends has a number of its own.
LEMMA SendFacts ==
    ASSUME IInv, NEW r \in Request
    PROVE  /\ req[r].send \in Nat
           /\ req[r].send # 0 <=> req[r].pc \in Sending
           /\ req[r].send <= sends
           /\ \A s \in Request : (s # r /\ req[s].pc \in Sending) => req[s].send # req[r].send
<1>1. req[r].send \in 0..MaxSends /\ sends \in Nat /\ MaxSends \in Nat
    BY TypeFacts, MaxSendsAssumption DEF IInv
<1>2. CASE req[r].pc \in Sending
  <2>1. req[r].send \in 1..sends
      BY <1>2 DEF IInv, SendsOK, SendOf
  <2>2. \A s \in Request : (s # r /\ req[s].pc \in Sending) => req[s].send # req[r].send
      BY <1>2 DEF IInv, SendsOK, Distinct
  <2> QED
      BY <1>1, <1>2, <2>1, <2>2
<1>3. CASE req[r].pc \notin Sending
  <2>1. req[r].send = 0
      BY <1>3 DEF IInv, SendsOK, SendOf, Fresh
  <2>2. \A s \in Request : req[s].pc \in Sending => req[s].send \in 1..sends
      BY DEF IInv, SendsOK, SendOf
  <2> QED
      BY <1>1, <1>3, <2>1, <2>2
<1> QED
    BY <1>2, <1>3

\* A step of one request keeps what is known of another.
LEMMA OthersKeep ==
    ASSUME IInv, NEW r \in Request, Moves(r), NEW s \in Request, s # r
    PROVE  /\ SendOf(s)' /\ RowsIn(s)' /\ HistoryIn(s)' /\ TicketOf(s)'
           /\ \A u \in Request : u # r /\ u # s => Distinct(s, u)'
           /\ \A q \in Windows : Awaits(q, s)'
<1>1. req'[s] = req[s]
    BY DEF Moves
<1>2. SendOf(s)'
  <2>1. SendOf(s) /\ sends \in Nat /\ sends' \in Nat /\ sends' >= sends
      BY TypeFacts, MaxSendsAssumption DEF IInv, SendsOK, Moves, TypeOK
  <2> QED
      BY <1>1, <2>1 DEF SendOf
<1>3. RowsIn(s)'
  <2>1. req[s].pc \in Sending => req[s].send # req[r].send /\ req[s].send # 0
      BY SendFacts
  <2>2. RowsIn(s)
      BY DEF IInv, SendsOK
  <2>3. ASSUME req[s].pc \in {"context", "history", "save"}
        PROVE  \A t \in LoggedTurns' : t.send # req[s].send
      BY <2>1, <2>2, <2>3 DEF RowsIn, Moves, Sending
  <2>4. ASSUME req[s].pc \in {"link", "graph", "commit"}
        PROVE  TurnOf(s, "user")' \in LoggedTurns'
    <3>1. TurnOf(s, "user")' = TurnOf(s, "user") /\ TurnOf(s, "user").send = req[s].send
        BY <1>1 DEF TurnOf
    <3> QED
        BY <2>1, <2>2, <2>4, <3>1 DEF RowsIn, Moves, Sending
  <2>5. ASSUME req[s].pc \in Recording
        PROVE  {TurnOf(s, "user"), TurnOf(s, "assistant")}' \subseteq CommittedTurns'
      BY <1>1, <2>2, <2>5 DEF RowsIn, TurnOf, Moves
  <2> QED
      BY <1>1, <2>3, <2>4, <2>5 DEF RowsIn
<1>4. HistoryIn(s)'
    BY <1>1 DEF IInv, HistoryOK, HistoryIn
<1>5. TicketOf(s)'
  <2>1. Len(tickets) \in Nat /\ Len(tickets)' \in Nat /\ Len(tickets)' >= Len(tickets)
      BY TypeFacts DEF IInv, Moves, TypeOK
  <2>2. TicketOf(s) /\ (session.active # 0 => session.active' # 0)
      BY DEF IInv, TicketsOK, Moves
  <2> QED
      BY <1>1, <2>1, <2>2 DEF TicketOf
<1>6. \A u \in Request : u # r /\ u # s => Distinct(s, u)'
    BY <1>1 DEF IInv, SendsOK, Distinct, Moves
<1>7. \A q \in Windows : Awaits(q, s)'
    BY <1>1 DEF IInv, WindowsOK, Awaits
<1> QED
    BY <1>2, <1>3, <1>4, <1>5, <1>6, <1>7

\* What is left to show of a step.
LEMMA StepKeeps ==
    ASSUME IInv, NEW r \in Request, Moves(r),
           \A t \in LoggedTurns' : t.send <= sends',
           SendOf(r)', RowsIn(r)', HistoryIn(r)', TicketOf(r)',
           \A s \in Request : s # r => Distinct(r, s)',
           \A q \in Windows' : /\ Awaits(q, r)'
                               /\ q \in Windows
                                  \/ /\ ToSet(q) \subseteq CommittedTurns' /\ Ordered(q)
                                     /\ \A s \in Request : s # r => Awaits(q, s)',
           {session.active, redis.context.active}' \subseteq 0..Len(tickets'),
           redis.context.active' # 0 => session.active' # 0
    PROVE  IInv'
<1>1. \A s \in Request : s # r =>
          /\ SendOf(s)' /\ RowsIn(s)' /\ HistoryIn(s)' /\ TicketOf(s)'
          /\ \A u \in Request : u # r /\ u # s => Distinct(s, u)'
          /\ \A q \in Windows : Awaits(q, s)'
    BY OthersKeep
<1>2. \A s \in Request : s # r => Distinct(s, r)'
    BY DEF Distinct
<1>3. SendsOK'
    BY <1>1, <1>2 DEF SendsOK
<1>4. WindowsOK'
  <2> SUFFICES ASSUME NEW q \in Windows'
               PROVE  /\ ToSet(q) \subseteq CommittedTurns' /\ Ordered(q)
                      /\ \A s \in Request : Awaits(q, s)'
      BY DEF WindowsOK
  <2>1. CASE q \in Windows
    <3>1. ToSet(q) \subseteq CommittedTurns' /\ Ordered(q)
        BY <2>1 DEF IInv, WindowsOK, Moves
    <3> QED
        BY <1>1, <2>1, <3>1
  <2>2. CASE q \notin Windows
      BY <2>2
  <2> QED
      BY <2>1, <2>2
<1>5. HistoryOK'
    BY <1>1 DEF HistoryOK
<1>6. TicketsOK'
    BY <1>1 DEF TicketsOK
<1> QED
    BY <1>3, <1>4, <1>5, <1>6 DEF IInv, Moves

\* A request that goes on with the same message keeps its place.
LEMMA GoesOn ==
    ASSUME IInv, NEW r \in Request, Moves(r),
           req[r].pc \in Sending, req'[r].pc \in Sending,
           req[r].pc \in Recording => req'[r].pc \in Recording,
           req'[r].send = req[r].send, req'[r].role = req[r].role
    PROVE  /\ SendOf(r)'
           /\ \A s \in Request : s # r => Distinct(r, s)'
           /\ \A q \in Windows : Awaits(q, r)'
<1>1. SendOf(r) /\ sends \in Nat /\ sends' \in Nat /\ sends' >= sends
    BY TypeFacts, MaxSendsAssumption DEF IInv, SendsOK, Moves, TypeOK
<1>2. SendOf(r)'
    BY <1>1 DEF SendOf
<1>3. \A s \in Request : s # r => Distinct(r, s)'
    BY DEF IInv, SendsOK, Distinct, Moves
<1>4. \A q \in Windows : Awaits(q, r)'
    BY DEF IInv, WindowsOK, Awaits
<1> QED
    BY <1>2, <1>3, <1>4

\* A step that writes no window adds none.
LEMMA WindowsKept ==
    ASSUME NEW r \in Request, redis'.memory = redis.memory,
           \A s \in Request : s # r => req'[s] = req[s],
           req'[r].pc = "write_memory" => req'[r].recent = redis.memory
    PROVE  Windows' \subseteq Windows
<1> SUFFICES ASSUME NEW s \in Request, req'[s].pc = "write_memory"
             PROVE  req'[s].recent \in Windows
    BY DEF Windows
<1>1. CASE s = r
    BY <1>1 DEF Windows
<1>2. CASE s # r
    BY <1>2 DEF Windows
<1> QED
    BY <1>1, <1>2

\* Which phases belong to a send, and which of them record it.
LEMMA PhaseFacts ==
    /\ {"context", "history", "save", "link", "graph", "commit"} \subseteq Sending
    /\ Recording \subseteq Sending
    /\ {"idle", "create_context", "welcome"} \cap Sending = {}
    /\ {"context", "history", "save", "link", "graph", "commit", "idle", "create_context", "welcome"}
          \cap Recording = {}
    /\ {"record_context", "read_memory", "write_memory"} \subseteq Recording
BY DEF Sending, Recording

-----------------------------------------------------------------------------
(***************************************************************************)
(* Every step of a request keeps the invariant                             *)
(***************************************************************************)
LEMMA ContinueTypes ==
    ASSUME IInv, NEW r \in Request, Continue(r)
    PROVE  TypeOK'
BY StepTypes DEF IInv

\* The three reads: context, history, memory.
LEMMA ReadKeeps ==
    ASSUME IInv, NEW r \in Request,
           ReadContext(r) \/ LoadHistory(r) \/ ReadMemory(r)
    PROVE  IInv'
<1> USE PhaseFacts
<1>1. /\ UNCHANGED <<session, redis, tickets, sends>>
      /\ \A s \in Request : s # r => req'[s] = req[s]
      /\ req'[r].send = req[r].send /\ req'[r].role = req[r].role
      /\ req'[r].base = req[r].base /\ req'[r].row = req[r].row
      /\ \/ req[r].pc = "context" /\ req'[r].pc = "history"
         \/ req[r].pc = "history" /\ req'[r].pc = "save"
         \/ req[r].pc = "read_memory" /\ req'[r].pc = "write_memory" /\ req'[r].recent = redis.memory
    BY DEF ReadContext, LoadHistory, ReadMemory, IInv, TypeOK, RequestState
<1>2. TypeOK'
    BY ContinueTypes DEF Continue
<1>3. LoggedTurns' = LoggedTurns /\ CommittedTurns' = CommittedTurns
    BY <1>1, LogSteps DEF IInv
<1>4. Moves(r)
    BY <1>1, <1>2, <1>3, TypeFacts DEF Moves, IInv
<1>5. /\ SendOf(r)'
      /\ \A s \in Request : s # r => Distinct(r, s)'
      /\ \A q \in Windows : Awaits(q, r)'
    BY <1>1, <1>4, GoesOn
<1>6. RowsIn(r)'
  <2>1. RowsIn(r)
      BY DEF IInv, SendsOK
  <2>2. TurnOf(r, "user")' = TurnOf(r, "user") /\ TurnOf(r, "assistant")' = TurnOf(r, "assistant")
      BY <1>1 DEF TurnOf
  <2> QED
      BY <1>1, <1>3, <2>1, <2>2 DEF RowsIn
<1>7. HistoryIn(r)'
  <2>1. ASSUME LoadHistory(r), NEW t \in ToSet(req'[r].recent)
        PROVE  t \in LoggedTurns
    <3>1. req'[r].recent = IF redis.memory # <<>> THEN redis.memory ELSE Visible(req[r].send, session.log)
        BY <2>1 DEF LoadHistory, IInv, TypeOK, RequestState
    <3>2. ToSet(redis.memory) \subseteq LoggedTurns
        BY DEF IInv, WindowsOK, Windows, LoggedTurns, CommittedTurns
    <3>3. ToSet(Visible(req[r].send, session.log)) \subseteq LoggedTurns
      <4> DEFINE rows == Select(session.log, CommittedRows \cup RowsOf(req[r].send))
      <4>1. rows \in Seq(Message) /\ ToSet(rows) \subseteq ToSet(session.log)
          BY LogRange, TypeFacts DEF IInv
      <4>2. Visible(req[r].send, session.log) = Turns(rows)
          BY DEF Visible
      <4> HIDE DEF rows
      <4>3. ToSet(Turns(rows)) = {m.turn : m \in ToSet(rows)}
          BY <4>1, TurnsType
      <4> QED
          BY <4>1, <4>2, <4>3 DEF LoggedTurns
    <3> QED
        BY <2>1, <3>1, <3>2, <3>3
  <2>2. ASSUME LoadHistory(r)
        PROVE  \A t \in LoggedTurns : t.send # req[r].send
      BY <2>2 DEF LoadHistory, IInv, SendsOK, RowsIn
  <2>3. CASE LoadHistory(r)
      BY <1>1, <2>1, <2>2, <2>3 DEF HistoryIn
  <2>4. CASE ReadContext(r) \/ ReadMemory(r)
    <3>1. req'[r].pc \in {"history", "write_memory"}
        BY <1>1, <2>4 DEF ReadContext, ReadMemory
    <3> QED
        BY <3>1 DEF HistoryIn
  <2> QED
      BY <2>3, <2>4
<1>8. TicketOf(r)'
    BY <1>1 DEF IInv, TicketsOK, TicketOf
<1>9. Windows' \subseteq Windows
    BY <1>1, WindowsKept
<1>10. /\ {session.active, redis.context.active}' \subseteq 0..Len(tickets')
       /\ redis.context.active' # 0 => session.active' # 0
       /\ \A t \in LoggedTurns' : t.send <= sends'
    BY <1>1, <1>3 DEF IInv, TicketsOK, SendsOK
<1> QED
    BY <1>4, <1>5, <1>6, <1>7, <1>8, <1>9, <1>10, StepKeeps

\* The question is saved, not yet committed.
LEMMA SaveKeeps ==
    ASSUME IInv, NEW r \in Request, SaveUserMessage(r)
    PROVE  IInv'
<1> USE PhaseFacts
<1>1. /\ UNCHANGED <<redis, tickets, sends>> /\ session.active' = session.active
      /\ \A s \in Request : s # r => req'[s] = req[s]
      /\ req'[r].send = req[r].send /\ req'[r].role = req[r].role
      /\ req'[r].base = req[r].base /\ req'[r].row = req[r].row
      /\ req'[r].recent = req[r].recent
      /\ req[r].pc = "save" /\ req'[r].pc \in {"link", "graph"}
    BY DEF SaveUserMessage, IInv, TypeOK, RequestState
<1>2. TypeOK'
    BY ContinueTypes DEF Continue
<1>3. LoggedTurns' = LoggedTurns \cup {TurnOf(r, "user")} /\ CommittedTurns' = CommittedTurns
    BY LogSteps DEF IInv
<1>4. TurnOf(r, "user").send = req[r].send /\ TurnOf(r, "user")' = TurnOf(r, "user")
    BY <1>1 DEF TurnOf
<1>5. Moves(r)
    BY <1>1, <1>2, <1>3, <1>4, TypeFacts DEF Moves, IInv
<1>6. /\ SendOf(r)'
      /\ \A s \in Request : s # r => Distinct(r, s)'
      /\ \A q \in Windows : Awaits(q, r)'
    BY <1>1, <1>5, GoesOn
<1>7. RowsIn(r)'
    BY <1>1, <1>3, <1>4 DEF RowsIn
<1>8. HistoryIn(r)'
    BY <1>1 DEF IInv, HistoryOK, HistoryIn
<1>9. TicketOf(r)'
    BY <1>1 DEF IInv, TicketsOK, TicketOf
<1>10. Windows' \subseteq Windows
    BY <1>1, WindowsKept
<1>11. \A t \in LoggedTurns' : t.send <= sends'
    BY <1>1, <1>3, <1>4, SendFacts DEF IInv, SendsOK
<1>12. /\ {session.active, redis.context.active}' \subseteq 0..Len(tickets')
       /\ redis.context.active' # 0 => session.active' # 0
    BY <1>1 DEF IInv, TicketsOK
<1> QED
    BY <1>5, <1>6, <1>7, <1>8, <1>9, <1>10, <1>11, <1>12, StepKeeps

\* The attachments are linked, which commits the question.
LEMMA LinkKeeps ==
    ASSUME IInv, NEW r \in Request, LinkAttachments(r)
    PROVE  IInv'
<1> USE PhaseFacts
<1>1. /\ UNCHANGED <<redis, tickets, sends>> /\ session.active' = session.active
      /\ \A s \in Request : s # r => req'[s] = req[s]
      /\ req'[r].send = req[r].send /\ req'[r].role = req[r].role
      /\ req'[r].base = req[r].base /\ req'[r].row = req[r].row
      /\ req'[r].recent = req[r].recent
      /\ req[r].pc = "link" /\ req'[r].pc = "graph"
    BY DEF LinkAttachments, IInv, TypeOK, RequestState
<1>2. TypeOK'
    BY ContinueTypes DEF Continue
<1>3. LoggedTurns' = LoggedTurns /\ CommittedTurns \subseteq CommittedTurns'
    BY LogSteps DEF IInv
<1>4. Moves(r)
    BY <1>1, <1>2, <1>3, TypeFacts DEF Moves, IInv
<1>5. /\ SendOf(r)'
      /\ \A s \in Request : s # r => Distinct(r, s)'
      /\ \A q \in Windows : Awaits(q, r)'
    BY <1>1, <1>4, GoesOn
<1>6. RowsIn(r)'
  <2>1. TurnOf(r, "user") \in LoggedTurns /\ TurnOf(r, "user")' = TurnOf(r, "user")
      BY <1>1 DEF IInv, SendsOK, RowsIn, TurnOf
  <2> QED
      BY <1>1, <1>3, <2>1 DEF RowsIn
<1>7. HistoryIn(r)'
    BY <1>1 DEF IInv, HistoryOK, HistoryIn
<1>8. TicketOf(r)'
    BY <1>1 DEF IInv, TicketsOK, TicketOf
<1>9. Windows' \subseteq Windows
    BY <1>1, WindowsKept
<1>10. /\ {session.active, redis.context.active}' \subseteq 0..Len(tickets')
       /\ redis.context.active' # 0 => session.active' # 0
       /\ \A t \in LoggedTurns' : t.send <= sends'
    BY <1>1, <1>3 DEF IInv, TicketsOK, SendsOK
<1> QED
    BY <1>4, <1>5, <1>6, <1>7, <1>8, <1>9, <1>10, StepKeeps

\* The graph has run.
LEMMA GraphKeeps ==
    ASSUME IInv, NEW r \in Request, RunGraph(r)
    PROVE  IInv'
<1> USE PhaseFacts
<1>1. PICK kb \in KbSettings :
          \E e \in TurnEnds([kb |-> kb, status |-> req[r].status, active |-> req[r].row], Len(tickets)) :
             /\ tickets' = IF e.made # 0 THEN Append(tickets, e.troubled) ELSE tickets
             /\ req' = [req EXCEPT ![r].pc = "commit",
                                   ![r].status = e.status,
                                   ![r].outcome = e.outcome,
                                   ![r].row = IF e.active # 0 THEN e.active ELSE @]
    BY DEF RunGraph
<1>2. PICK e \in TurnEnds([kb |-> kb, status |-> req[r].status, active |-> req[r].row], Len(tickets)) :
             /\ tickets' = IF e.made # 0 THEN Append(tickets, e.troubled) ELSE tickets
             /\ req' = [req EXCEPT ![r].pc = "commit",
                                   ![r].status = e.status,
                                   ![r].outcome = e.outcome,
                                   ![r].row = IF e.active # 0 THEN e.active ELSE @]
    BY <1>1
<1>3. req[r].pc = "graph" /\ UNCHANGED <<session, redis, sends, past>>
    BY DEF RunGraph
<1>4. /\ \A s \in Request : s # r => req'[s] = req[s]
      /\ req'[r].send = req[r].send /\ req'[r].role = req[r].role
      /\ req'[r].base = req[r].base
      /\ req'[r].row = IF e.active # 0 THEN e.active ELSE req[r].row
      /\ req'[r].pc = "commit"
    BY <1>2 DEF IInv, TypeOK, RequestState
<1>5. TypeOK'
    BY ContinueTypes DEF Continue
<1>6. LoggedTurns' = LoggedTurns /\ CommittedTurns' = CommittedTurns
    BY <1>3, LogSteps DEF IInv
<1>7. /\ Len(tickets) \in Nat
      /\ Len(tickets') = IF e.made # 0 THEN Len(tickets) + 1 ELSE Len(tickets)
  <2>1. tickets \in Seq(BOOLEAN) /\ e.troubled \in BOOLEAN
      BY EndFacts, TypeFacts DEF IInv, TypeOK
  <2> QED
      BY <1>2, <2>1, AppendProperties, LenProperties
<1>8. Moves(r)
    BY <1>3, <1>4, <1>5, <1>6, <1>7, TypeFacts DEF Moves, IInv
<1>9. /\ SendOf(r)'
      /\ \A s \in Request : s # r => Distinct(r, s)'
      /\ \A q \in Windows : Awaits(q, r)'
    BY <1>3, <1>4, <1>8, GoesOn
<1>10. RowsIn(r)'
  <2>1. TurnOf(r, "user") \in LoggedTurns /\ TurnOf(r, "user")' = TurnOf(r, "user")
      BY <1>3, <1>4 DEF IInv, SendsOK, RowsIn, TurnOf
  <2> QED
      BY <1>4, <1>6, <2>1 DEF RowsIn
<1>11. HistoryIn(r)'
    BY <1>4 DEF HistoryIn
<1>12. TicketOf(r)'
  <2>1. /\ e.active \in 0..Len(tickets) + 1 /\ e.made \in {0, Len(tickets) + 1}
        /\ e.active = Len(tickets) + 1 => e.made = Len(tickets) + 1
      BY <1>7, EndFacts
  <2>2. TicketOf(r)
      BY DEF IInv, TicketsOK
  <2>3. req'[r].row \in 0..Len(tickets') /\ 0..Len(tickets) \subseteq 0..Len(tickets')
      BY <1>4, <1>7, <2>1, <2>2 DEF TicketOf
  <2> QED
      BY <1>3, <1>4, <2>2, <2>3 DEF TicketOf
<1>13. Windows' \subseteq Windows
    BY <1>3, <1>4, WindowsKept
<1>14. /\ {session.active, redis.context.active}' \subseteq 0..Len(tickets')
       /\ redis.context.active' # 0 => session.active' # 0
       /\ \A t \in LoggedTurns' : t.send <= sends'
    BY <1>3, <1>6, <1>7 DEF IInv, TicketsOK, SendsOK
<1> QED
    BY <1>8, <1>9, <1>10, <1>11, <1>12, <1>13, <1>14, StepKeeps

\* Question and answer are committed together.
LEMMA CommitKeeps ==
    ASSUME IInv, NEW r \in Request, CommitExchange(r)
    PROVE  IInv'
<1> USE PhaseFacts
<1>1. /\ UNCHANGED <<redis, tickets, sends>> /\ session.active' = ActiveAfter(r)
      /\ \A s \in Request : s # r => req'[s] = req[s]
      /\ req'[r].send = req[r].send /\ req'[r].role = req[r].role
      /\ req'[r].base = req[r].base /\ req'[r].row = req[r].row
      /\ req[r].pc = "commit" /\ req'[r].pc = "record_context"
    BY DEF CommitExchange, IInv, TypeOK, RequestState
<1>2. TypeOK'
    BY ContinueTypes DEF Continue
<1>3. /\ LoggedTurns' = LoggedTurns \cup {TurnOf(r, "assistant")}
      /\ CommittedTurns \subseteq CommittedTurns'
      /\ \A t \in LoggedTurns' : t.send = req[r].send => t \in CommittedTurns'
    BY LogSteps DEF IInv
<1>4. /\ \A role : TurnOf(r, role).send = req[r].send /\ TurnOf(r, role)' = TurnOf(r, role)
    BY <1>1 DEF TurnOf
<1>5. TicketOf(r)
    BY DEF IInv, TicketsOK
<1>6. /\ session.active' \in 0..Len(tickets')
      /\ session.active # 0 => session.active' # 0
      /\ req[r].row # 0 => session.active' # 0
    BY <1>1, <1>5 DEF ActiveAfter, TicketOf, IInv, TicketsOK
<1>7. Moves(r)
    BY <1>1, <1>2, <1>3, <1>4, <1>6, TypeFacts DEF Moves, IInv
<1>8. /\ SendOf(r)'
      /\ \A s \in Request : s # r => Distinct(r, s)'
      /\ \A q \in Windows : Awaits(q, r)'
    BY <1>1, <1>7, GoesOn
<1>9. RowsIn(r)'
  <2>1. TurnOf(r, "user") \in LoggedTurns
      BY <1>1 DEF IInv, SendsOK, RowsIn
  <2>2. TurnOf(r, "user") \in CommittedTurns' /\ TurnOf(r, "assistant") \in CommittedTurns'
      BY <1>3, <1>4, <2>1
  <2> QED
      BY <1>1, <1>4, <2>2 DEF RowsIn
<1>10. HistoryIn(r)'
    BY <1>1 DEF HistoryIn
<1>11. TicketOf(r)'
    BY <1>1, <1>5, <1>6 DEF TicketOf
<1>12. Windows' \subseteq Windows
    BY <1>1, WindowsKept
<1>13. \A t \in LoggedTurns' : t.send <= sends'
    BY <1>1, <1>3, <1>4, SendFacts DEF IInv, SendsOK
<1>14. /\ {session.active, redis.context.active}' \subseteq 0..Len(tickets')
       /\ redis.context.active' # 0 => session.active' # 0
    BY <1>1, <1>6 DEF IInv, TicketsOK
<1> QED
    BY <1>7, <1>8, <1>9, <1>10, <1>11, <1>12, <1>13, <1>14, StepKeeps

\* The context is written to Redis, after the commit.
LEMMA RecordKeeps ==
    ASSUME IInv, NEW r \in Request, RecordContext(r)
    PROVE  IInv'
<1> USE PhaseFacts
<1>1. /\ UNCHANGED <<session, tickets, sends>>
      /\ redis'.memory = redis.memory /\ redis'.context.active = req[r].row
      /\ \A s \in Request : s # r => req'[s] = req[s]
      /\ req'[r].send = req[r].send /\ req'[r].role = req[r].role
      /\ req'[r].base = req[r].base /\ req'[r].row = req[r].row
      /\ req[r].pc = "record_context" /\ req'[r].pc = "read_memory"
    BY DEF RecordContext, RecordedContext, IInv, TypeOK, RequestState
<1>2. TypeOK'
    BY ContinueTypes DEF Continue
<1>3. LoggedTurns' = LoggedTurns /\ CommittedTurns' = CommittedTurns
    BY <1>1, LogSteps DEF IInv
<1>4. Moves(r)
    BY <1>1, <1>2, <1>3, TypeFacts DEF Moves, IInv
<1>5. /\ SendOf(r)'
      /\ \A s \in Request : s # r => Distinct(r, s)'
      /\ \A q \in Windows : Awaits(q, r)'
    BY <1>1, <1>4, GoesOn
<1>6. RowsIn(r)'
  <2>1. RowsIn(r)
      BY DEF IInv, SendsOK
  <2>2. TurnOf(r, "user")' = TurnOf(r, "user") /\ TurnOf(r, "assistant")' = TurnOf(r, "assistant")
      BY <1>1 DEF TurnOf
  <2> QED
      BY <1>1, <1>3, <2>1, <2>2 DEF RowsIn
<1>7. HistoryIn(r)'
    BY <1>1 DEF HistoryIn
<1>8. TicketOf(r) /\ TicketOf(r)'
    BY <1>1 DEF IInv, TicketsOK, TicketOf
<1>9. Windows' \subseteq Windows
    BY <1>1, WindowsKept
<1>10. /\ {session.active, redis.context.active}' \subseteq 0..Len(tickets')
       /\ redis.context.active' # 0 => session.active' # 0
       /\ \A t \in LoggedTurns' : t.send <= sends'
    BY <1>1, <1>3, <1>8 DEF IInv, TicketsOK, SendsOK, TicketOf
<1> QED
    BY <1>4, <1>5, <1>6, <1>7, <1>8, <1>9, <1>10, StepKeeps

\* A turn appended to its question's keeps the order.
LEMMA OrderedAppend ==
    ASSUME NEW q \in Seq(Turn), NEW t \in Turn, Ordered(q),
           \A u \in ToSet(q) : u.send = t.send => u.role = "user" /\ t.role = "assistant"
    PROVE  Ordered(Append(q, t))
<1> DEFINE w == Append(q, t)
           n == Len(q)
<1>1. /\ n \in Nat /\ DOMAIN q = 1..n /\ DOMAIN w = 1..n + 1
      /\ w[n + 1] = t /\ \A i \in 1..n : w[i] = q[i]
    BY AppendProperties, LenProperties
<1>2. \A i \in 1..n : q[i] \in ToSet(q)
    BY <1>1 DEF ToSet
<1> HIDE DEF w, n
<1>3. ASSUME NEW i \in DOMAIN w, NEW j \in DOMAIN w, i < j, w[i].send = w[j].send
      PROVE  w[i].role = "user" /\ w[j].role = "assistant"
  <2>1. i \in 1..n /\ w[i] = q[i]
      BY <1>1, <1>3
  <2>2. CASE j \in 1..n
      BY <1>1, <1>3, <2>1, <2>2 DEF Ordered
  <2>3. CASE j = n + 1
      BY <1>1, <1>2, <1>3, <2>1, <2>3
  <2> QED
      BY <1>1, <2>2, <2>3
<1> QED
    BY <1>3 DEF Ordered, w

\* A request that sends no message, or no more.
LEMMA IsFresh ==
    ASSUME IInv, NEW r \in Request, req'[r].pc \notin Sending,
           req'[r] = [Fresh EXCEPT !.pc = req'[r].pc], Len(tickets') \in Nat
    PROVE  /\ SendOf(r)' /\ RowsIn(r)' /\ HistoryIn(r)' /\ TicketOf(r)'
           /\ \A s \in Request : Distinct(r, s)'
           /\ \A q : Awaits(q, r)'
<1>1. /\ req'[r].role = "user" /\ req'[r].base = 0 /\ req'[r].row = 0
    BY Zenon DEF Fresh
<1>2. SendOf(r)'
    BY <1>1 DEF SendOf
<1>3. RowsIn(r)' /\ HistoryIn(r)'
    BY PhaseFacts DEF RowsIn, HistoryIn
<1>4. TicketOf(r)'
    BY <1>1 DEF TicketOf
<1>5. /\ \A s \in Request : Distinct(r, s)'
      /\ \A q : Awaits(q, r)'
    BY DEF Distinct, Awaits
<1> QED
    BY <1>2, <1>3, <1>4, <1>5

\* The window is written back with one more turn: the only place where the
\* order in which requests read it matters.
LEMMA WriteKeeps ==
    ASSUME IInv, NEW r \in Request, WriteMemory(r)
    PROVE  IInv'
<1> USE PhaseFacts
<1> DEFINE q == req[r].recent
           t == Recorded(r)
           new == Window(Append(q, t))
<1>1. /\ UNCHANGED <<session, tickets, sends>>
      /\ redis'.memory = new /\ redis'.context = redis.context
      /\ \A s \in Request : s # r => req'[s] = req[s]
      /\ req'[r] = AfterRecord(r)
      /\ req[r].pc = "write_memory"
    BY DEF WriteMemory, IInv, TypeOK
<1>2. /\ t = TurnOf(r, req[r].role) /\ t \in Turn /\ q \in Seq(Turn)
      /\ t.send = req[r].send /\ t.role = req[r].role /\ t.role \in {"user", "assistant"}
    BY TypeFacts DEF Recorded, TurnOf, Turn, IInv
<1> HIDE DEF q, t
<1>3. /\ q \in Windows /\ ToSet(q) \subseteq CommittedTurns /\ Ordered(q)
      /\ \A s \in Request : Awaits(q, s)
    BY <1>1 DEF IInv, WindowsOK, Windows, q
<1>4. t \in CommittedTurns
    BY <1>1, <1>2 DEF IInv, SendsOK, RowsIn
<1>5. Ordered(new) /\ ToSet(new) \subseteq ToSet(q) \cup {t}
  <2>1. Ordered(Append(q, t))
      BY <1>1, <1>2, <1>3, OrderedAppend DEF Awaits
  <2>2. Append(q, t) \in Seq(Turn) /\ ToSet(Append(q, t)) = ToSet(q) \cup {t}
      BY <1>2, AppendProperties, AppendRange
  <2> QED
      BY <2>1, <2>2, WindowOrdered, WindowRange
<1> HIDE DEF new
<1>6. LoggedTurns' = LoggedTurns /\ CommittedTurns' = CommittedTurns
    BY <1>1, LogSteps DEF IInv
<1>7. TypeOK'
    BY ContinueTypes DEF Continue
<1>8. Moves(r)
    BY <1>1, <1>6, <1>7, TypeFacts DEF Moves, IInv
<1>9. Windows' \subseteq Windows \cup {new}
  <2>1. req'[r].pc # "write_memory"
      BY <1>1 DEF AfterRecord, Fresh, IInv, TypeOK, RequestState
  <2>2. ASSUME NEW s \in Request, req'[s].pc = "write_memory"
        PROVE  req'[s].recent \in Windows
      BY <1>1, <2>1, <2>2 DEF Windows
  <2> QED
      BY <1>1, <2>2 DEF Windows
<1>10. \A w \in {new} : \A s \in Request : s # r => Awaits(w, s)'
  <2> SUFFICES ASSUME NEW s \in Request, s # r, req[s].pc \in Sending,
                      NEW u \in ToSet(new), u.send = req[s].send
               PROVE  req[s].role = "assistant" /\ u.role = "user"
      BY <1>1 DEF Awaits
  <2>1. u # t
      BY <1>1, <1>2, SendFacts
  <2> QED
      BY <1>3, <1>5, <2>1 DEF Awaits
<1>11. /\ SendOf(r)' /\ RowsIn(r)' /\ HistoryIn(r)' /\ TicketOf(r)'
       /\ \A s \in Request : s # r => Distinct(r, s)'
       /\ \A w \in Windows \cup {new} : Awaits(w, r)'
  <2>1. CASE req[r].role = "user"
    <3>1. /\ req'[r].pc = "record_context" /\ req'[r].role = "assistant"
          /\ req'[r].send = req[r].send
          /\ req'[r].base = req[r].base /\ req'[r].row = req[r].row
        BY <1>1, <2>1 DEF AfterRecord, IInv, TypeOK, RequestState
    <3>2. SendOf(r)'
        BY <1>1, <3>1 DEF IInv, SendsOK, SendOf
    <3>3. RowsIn(r)'
      <4>1. /\ TurnOf(r, "user")' = TurnOf(r, "user") /\ TurnOf(r, "assistant")' = TurnOf(r, "assistant")
            /\ RowsIn(r)
          BY <3>1 DEF TurnOf, IInv, SendsOK
      <4> QED
          BY <1>1, <1>6, <3>1, <4>1 DEF RowsIn
    <3>4. HistoryIn(r)'
        BY <3>1 DEF HistoryIn
    <3>5. TicketOf(r)'
        BY <1>1, <3>1 DEF IInv, TicketsOK, TicketOf
    <3>6. \A s \in Request : s # r => Distinct(r, s)'
        BY <1>1, <3>1 DEF IInv, SendsOK, Distinct
    <3>7. \A w \in Windows : \A u \in ToSet(w) : u.send # req[r].send
        BY <1>1, <2>1 DEF IInv, WindowsOK, Awaits
    <3>8. \A w \in Windows \cup {new} : \A u \in ToSet(w) : u.send = req[r].send => u.role = "user"
        BY <1>2, <1>3, <1>5, <2>1, <3>7
    <3>9. \A w \in Windows \cup {new} : Awaits(w, r)'
        BY <3>1, <3>8 DEF Awaits
    <3> QED
        BY <3>2, <3>3, <3>4, <3>5, <3>6, <3>9
  <2>2. CASE req[r].role # "user"
    <3>1. req'[r] = Fresh /\ Fresh = [Fresh EXCEPT !.pc = "idle"] /\ Fresh.pc = "idle"
        BY <1>1, <2>2 DEF AfterRecord, Fresh
    <3>2. Len(tickets') \in Nat
        BY <1>7, TypeFacts DEF TypeOK
    <3> QED
        BY <3>1, <3>2, IsFresh
  <2> QED
      BY <2>1, <2>2
<1>12. /\ {session.active, redis.context.active}' \subseteq 0..Len(tickets')
       /\ redis.context.active' # 0 => session.active' # 0
       /\ \A u \in LoggedTurns' : u.send <= sends'
    BY <1>1, <1>6 DEF IInv, TicketsOK, SendsOK
<1>13. ToSet(new) \subseteq CommittedTurns'
    BY <1>3, <1>4, <1>5, <1>6
<1>14. \A w \in Windows' : /\ Awaits(w, r)'
                           /\ w \in Windows
                              \/ /\ ToSet(w) \subseteq CommittedTurns' /\ Ordered(w)
                                 /\ \A s \in Request : s # r => Awaits(w, s)'
  <2> SUFFICES ASSUME NEW w \in Windows', w \notin Windows
               PROVE  /\ ToSet(w) \subseteq CommittedTurns' /\ Ordered(w)
                      /\ \A s \in Request : s # r => Awaits(w, s)'
      BY <1>9, <1>11
  <2>1. w = new
      BY <1>9
  <2> QED
      BY <1>5, <1>10, <1>13, <2>1
<1> QED
    BY <1>8, <1>11, <1>12, <1>14, StepKeeps

\* Steps of a request that has no message, and the end of one that has.
LEMMA FreshKeeps ==
    ASSUME IInv, TypeOK', NEW r \in Request,
           CreateSession(r) \/ CreateContext(r) \/ Welcome(r) \/ Abort(r)
    PROVE  IInv'
<1> USE PhaseFacts
<1>1. /\ UNCHANGED <<tickets, sends>> /\ session.active' = session.active
      /\ redis'.memory = redis.memory
      /\ redis'.context.active \in {0, redis.context.active}
      /\ \A s \in Request : s # r => req'[s] = req[s]
      /\ req'[r].pc \in {"create_context", "welcome", "idle"}
  <2>1. CASE CreateSession(r)
      BY <2>1 DEF CreateSession, IInv, TypeOK, RequestState
  <2>2. CASE CreateContext(r)
      BY <2>2 DEF CreateContext, IInv, TypeOK, RequestState
  <2>3. Fresh.pc = "idle"
      BY DEF Fresh
  <2>4. CASE Welcome(r)
      BY <2>3, <2>4 DEF Welcome, IInv, TypeOK
  <2>5. CASE Abort(r)
      BY <2>3, <2>5 DEF Abort, IInv, TypeOK
  <2> QED
      BY <2>1, <2>2, <2>4, <2>5
<1>2. req'[r] = [Fresh EXCEPT !.pc = req'[r].pc]
  <2>1. CASE Welcome(r) \/ Abort(r)
    <3>1. req'[r] = Fresh
        BY <2>1 DEF Welcome, Abort, IInv, TypeOK
    <3> QED
        BY <3>1 DEF Fresh
  <2>2. CASE CreateSession(r) \/ CreateContext(r)
    <3>1. req[r].pc \notin Sending
        BY <2>2 DEF CreateSession, CreateContext
    <3>2. req[r] = [Fresh EXCEPT !.pc = req[r].pc]
        BY <3>1 DEF IInv, SendsOK, SendOf
    <3>3. PICK p : req' = [req EXCEPT ![r].pc = p]
        BY <2>2 DEF CreateSession, CreateContext
    <3>4. req'[r] = [req[r] EXCEPT !.pc = p]
        BY <3>3 DEF IInv, TypeOK
    <3> QED
        BY <3>2, <3>4 DEF Fresh
  <2> QED
      BY <2>1, <2>2
<1>3. req'[r].pc \notin Sending /\ Len(tickets') \in Nat
    BY <1>1, TypeFacts DEF IInv
<1>4. /\ SendOf(r)' /\ RowsIn(r)' /\ HistoryIn(r)' /\ TicketOf(r)'
      /\ \A s \in Request : Distinct(r, s)'
      /\ \A q : Awaits(q, r)'
    BY <1>2, <1>3, IsFresh
<1>5. /\ CommittedTurns \subseteq CommittedTurns'
      /\ \A t \in LoggedTurns : t.send # req[r].send => t \in LoggedTurns'
      /\ \A t \in LoggedTurns' : t \in LoggedTurns \/ t.send = 0
  <2>1. CASE CreateSession(r) \/ CreateContext(r)
    <3>1. session.log' = session.log
        BY <2>1 DEF CreateSession, CreateContext, IInv, TypeOK
    <3> QED
        BY <3>1, LogSteps DEF IInv
  <2>2. CASE Welcome(r)
      BY <2>2, LogSteps DEF IInv
  <2>3. CASE Abort(r)
      BY <2>3, LogSteps DEF IInv
  <2> QED
      BY <2>1, <2>2, <2>3
<1>6. Moves(r)
    BY <1>1, <1>5, TypeFacts DEF Moves, IInv
<1>7. Windows' \subseteq Windows
    BY <1>1, WindowsKept
<1>8. /\ {session.active, redis.context.active}' \subseteq 0..Len(tickets')
      /\ redis.context.active' # 0 => session.active' # 0
      /\ \A t \in LoggedTurns' : t.send <= sends'
    BY <1>1, <1>5, TypeFacts DEF IInv, TicketsOK, SendsOK
<1> QED
    BY <1>4, <1>6, <1>7, <1>8, StepKeeps

\* A request loads the session, or finds none.
LEMMA LoadKeeps ==
    ASSUME IInv, TypeOK', NEW r \in Request, NEW files \in BOOLEAN, LoadSession(r, files)
    PROVE  IInv'
<1> USE PhaseFacts
<1>1. /\ UNCHANGED <<session, redis, tickets>> /\ sends' = sends + 1
      /\ \A s \in Request : s # r => req'[s] = req[s]
      /\ req'[r].pc = "context" /\ req'[r].send = sends + 1 /\ req'[r].role = "user"
      /\ req'[r].base = session.active /\ req'[r].row = session.active
      /\ req[r].pc = "idle"
    BY DEF LoadSession, Fresh, IInv, TypeOK
<1>2. LoggedTurns' = LoggedTurns /\ CommittedTurns' = CommittedTurns
    BY <1>1, LogSteps DEF IInv
<1>3. sends \in Nat
    BY TypeFacts DEF IInv
<1>4. Moves(r)
    BY <1>1, <1>2, <1>3, TypeFacts DEF Moves, IInv
<1>5. \A t \in LoggedTurns : t.send <= sends /\ t.send \in Nat
  <2>1. ToSet(session.log) \subseteq Message
      BY TypeFacts, LogRange DEF IInv
  <2>2. \A m \in Message : m.turn.send \in Nat
      BY MaxSendsAssumption DEF Message, Turn
  <2> QED
      BY <2>1, <2>2 DEF IInv, SendsOK, LoggedTurns
<1>6. SendOf(r)'
    BY <1>1, <1>3 DEF SendOf
<1>7. RowsIn(r)'
    BY <1>1, <1>2, <1>3, <1>5 DEF RowsIn
<1>8. HistoryIn(r)'
    BY <1>1 DEF HistoryIn
<1>9. TicketOf(r)'
    BY <1>1 DEF IInv, TicketsOK, TicketOf
<1>10. ASSUME NEW s \in Request, s # r
       PROVE  Distinct(r, s)'
  <2>1. req[s].send <= sends /\ req[s].send \in Nat
      BY SendFacts
  <2> QED
      BY <1>1, <1>3, <1>10, <2>1 DEF Distinct
<1>11. Windows' \subseteq Windows
    BY <1>1, WindowsKept
<1>12. ASSUME NEW q \in Windows
       PROVE  Awaits(q, r)'
  <2>1. ToSet(q) \subseteq LoggedTurns
      BY DEF IInv, WindowsOK, LoggedTurns, CommittedTurns
  <2> QED
      BY <1>1, <1>3, <1>5, <2>1 DEF Awaits
<1>13. /\ {session.active, redis.context.active}' \subseteq 0..Len(tickets')
       /\ redis.context.active' # 0 => session.active' # 0
       /\ \A t \in LoggedTurns' : t.send <= sends'
    BY <1>1, <1>2, <1>3, <1>5 DEF IInv, TicketsOK, SendsOK
<1> QED
    BY <1>4, <1>6, <1>7, <1>8, <1>9, <1>10, <1>11, <1>12, <1>13, StepKeeps

\* Redis loses everything it holds.
LEMMA LoseKeeps ==
    ASSUME IInv, TypeOK', LoseRedis
    PROVE  IInv'
<1>1. /\ UNCHANGED <<session, tickets, req, sends>>
      /\ redis'.memory \in {redis.memory, <<>>}
      /\ redis'.context.active \in {0, redis.context.active}
    BY DEF LoseRedis, Empty, Missing, IInv, TypeOK
<1>2. LoggedTurns' = LoggedTurns /\ CommittedTurns' = CommittedTurns
    BY <1>1, LogSteps DEF IInv
<1>3. SendsOK'
    BY <1>1, <1>2 DEF IInv, SendsOK, SendOf, RowsIn, Distinct, TurnOf
<1>4. Windows' \subseteq Windows \cup {<<>>}
    BY <1>1 DEF Windows
<1>5. ToSet(<<>>) = {} /\ Ordered(<<>>)
    BY DEF ToSet, Ordered
<1>6. WindowsOK'
  <2> SUFFICES ASSUME NEW q \in Windows \cup {<<>>}
               PROVE  /\ ToSet(q) \subseteq CommittedTurns /\ Ordered(q)
                      /\ \A r \in Request : Awaits(q, r)
      BY <1>1, <1>2, <1>4 DEF WindowsOK, Awaits
  <2>1. CASE q \in Windows
      BY <2>1 DEF IInv, WindowsOK
  <2>2. CASE q = <<>>
      BY <1>5, <2>2 DEF Awaits
  <2> QED
      BY <2>1, <2>2
<1>7. HistoryOK'
    BY <1>1 DEF IInv, HistoryOK, HistoryIn
<1>8. TicketsOK'
    BY <1>1, TypeFacts DEF IInv, TicketsOK, TicketOf
<1> QED
    BY <1>3, <1>6, <1>7, <1>8 DEF IInv

\* Every step keeps the invariant.
LEMMA NextKeeps == IInv /\ [Next]_vars => IInv'
<1> SUFFICES ASSUME IInv, [Next]_vars
             PROVE  IInv'
    OBVIOUS
<1>1. TypeOK'
    BY NextTypes DEF IInv
<1>2. ASSUME NEW r \in Request, Continue(r)
      PROVE  IInv'
    BY <1>1, <1>2, ReadKeeps, SaveKeeps, LinkKeeps, GraphKeeps, CommitKeeps, RecordKeeps,
       WriteKeeps, FreshKeeps DEF Continue
<1>3. CASE UNCHANGED vars
  <2>1. UNCHANGED <<session, redis, tickets, req, sends>>
      BY <1>3 DEF vars
  <2>2. LoggedTurns' = LoggedTurns /\ CommittedTurns' = CommittedTurns /\ Windows' = Windows
      BY <2>1 DEF LoggedTurns, CommittedTurns, Windows
  <2> QED
      BY <1>1, <2>1, <2>2
      DEF IInv, SendsOK, SendOf, RowsIn, Distinct, TurnOf, WindowsOK, Awaits, HistoryOK, HistoryIn,
          TicketsOK, TicketOf
<1> QED
    BY <1>1, <1>2, <1>3, FreshKeeps, LoadKeeps, LoseKeeps DEF Next, Begin

\* It holds before the first request.
LEMMA InitKeeps == Init => IInv
<1> SUFFICES ASSUME Init
             PROVE  IInv
    OBVIOUS
<1>1. TypeOK
    BY EmptySeq, FreshType, MaxSendsAssumption, MaxRecentTurnsAssumption
    DEF Init, TypeOK, Empty, Missing, Context, TsStatus, Disturbance
<1>2. /\ session.log = <<>> /\ session.active = 0 /\ tickets = <<>> /\ sends = 0
      /\ redis.memory = <<>> /\ redis.context.active = 0
      /\ \A r \in Request : req[r] = Fresh /\ req[r].pc = "idle" /\ req[r].role = "user"
                            /\ req[r].base = 0 /\ req[r].row = 0
      /\ Fresh = [Fresh EXCEPT !.pc = "idle"]
    BY DEF Init, Empty, Missing, Fresh
<1>3. ToSet(<<>>) = {} /\ Ordered(<<>>) /\ Len(<<>>) = 0
    BY DEF ToSet, Ordered
<1>4. LoggedTurns = {} /\ CommittedTurns = {} /\ Windows = {<<>>}
    BY <1>2, <1>3 DEF LoggedTurns, CommittedTurns, Windows
<1>5. SendsOK
    BY <1>2, <1>4, PhaseFacts DEF SendsOK, SendOf, RowsIn, Distinct
<1>6. WindowsOK
    BY <1>3, <1>4 DEF WindowsOK, Awaits
<1>7. HistoryOK /\ TicketsOK
    BY <1>2, <1>3, PhaseFacts DEF HistoryOK, HistoryIn, TicketsOK, TicketOf
<1> QED
    BY <1>1, <1>5, <1>6, <1>7 DEF IInv

\* The invariant holds however requests overlap, fail, or lose Redis
\* (chat_service.py, post_message).
THEOREM Invariance == Spec => []IInv
BY InitKeeps, NextKeeps, PTL DEF Spec

\* Whatever requests crossed or died, Redis holds nothing that is ahead of
\* Postgres, doubled or out of order.
THEOREM RedisNeverAhead == Spec => []RedisFollowsPostgres
<1>1. IInv => RedisFollowsPostgres
  <2> SUFFICES ASSUME IInv
               PROVE  RedisFollowsPostgres
      OBVIOUS
  <2>1. ToSet(redis.memory) \subseteq CommittedTurns /\ Ordered(redis.memory)
      BY DEF IInv, WindowsOK, Windows
  <2>2. ToSet(Committed(session.log)) = CommittedTurns
      BY CommittedRange, TypeFacts DEF IInv, CommittedTurns
  <2>3. MemoryIsCommitted
      BY <2>1, <2>2 DEF MemoryIsCommitted
  <2>4. MemoryIsOrdered
      BY <2>1 DEF MemoryIsOrdered, Ordered
  <2>5. RedisTicketIsCommitted
      BY DEF RedisTicketIsCommitted, IInv, TicketsOK
  <2> QED
      BY <2>3, <2>4, <2>5 DEF RedisFollowsPostgres
<1> QED
    BY <1>1, Invariance, PTL

\* No turn is given its own question as history.
THEOREM HistoryPrecedesQuestion == Spec => []QuestionIsNotHistory
<1>1. IInv => QuestionIsNotHistory
  <2> SUFFICES ASSUME IInv, NEW r \in Request, req[r].pc = "graph"
               PROVE  \A i \in DOMAIN req[r].recent : req[r].recent[i].send # req[r].send
      BY DEF QuestionIsNotHistory
  <2>1. \A t \in ToSet(req[r].recent) : t.send # req[r].send
      BY DEF IInv, HistoryOK, HistoryIn
  <2> QED
      BY <2>1 DEF ToSet
<1> QED
    BY <1>1, Invariance, PTL

\* A ticket the session has got is never taken from it again.
THEOREM TicketStays == Spec => ActiveTicketKept
<1>1. IInv /\ [Next]_vars => [session.active # 0 => session.active' # 0]_vars
  <2> SUFFICES ASSUME IInv, Next
               PROVE  session.active # 0 => session.active' # 0
      BY DEF vars
  <2>1. ASSUME NEW r \in Request, CommitExchange(r)
        PROVE  session.active # 0 => session.active' # 0
    <3>1. session.active' = ActiveAfter(r) /\ TicketOf(r)
        BY <2>1 DEF CommitExchange, IInv, TypeOK, TicketsOK
    <3> QED
        BY <3>1 DEF ActiveAfter, TicketOf
  <2>2. ASSUME NEW r \in Request, Continue(r), ~CommitExchange(r)
        PROVE  session.active' = session.active
      BY <2>2 DEF Continue, CreateContext, Welcome, ReadContext, LoadHistory, SaveUserMessage,
                  LinkAttachments, RunGraph, RecordContext, ReadMemory, WriteMemory, IInv, TypeOK
  <2>3. ASSUME NEW r \in Request, CreateSession(r) \/ Begin(r) \/ Abort(r)
        PROVE  session.active' = session.active
      BY <2>3 DEF CreateSession, Begin, LoadSession, Abort, IInv, TypeOK
  <2>4. CASE LoseRedis
      BY <2>4 DEF LoseRedis
  <2> QED
      BY <2>1, <2>2, <2>3, <2>4 DEF Next
<1> QED
    BY <1>1, Invariance, PTL DEF Spec, ActiveTicketKept

-----------------------------------------------------------------------------
(***************************************************************************)
(* Without overlap there is one request at a time                          *)
(***************************************************************************)
Step(r) == CreateSession(r) \/ Begin(r) \/ Continue(r) \/ Abort(r)

\* A step changes the local state of one request, and forgets no disturbance.
LEMMA StepFrame ==
    ASSUME TypeOK, NEW r \in Request, Step(r)
    PROVE  /\ \A s \in Request : s # r => req'[s] = req[s]
           /\ past.upset \subseteq past'.upset
           /\ CreateSession(r) \/ Begin(r) => req[r].pc = "idle" /\ Arrive
           /\ Continue(r) \/ Abort(r) => req[r].pc # "idle"
           /\ session.exists => session'.exists
<1>1. ASSUME CreateSession(r) \/ Begin(r)
      PROVE  /\ \A s \in Request : s # r => req'[s] = req[s]
             /\ req[r].pc = "idle" /\ Arrive
             /\ session.exists => session'.exists
    BY <1>1 DEF CreateSession, Begin, LoadSession, TypeOK
<1>2. ASSUME Arrive
      PROVE  past.upset \subseteq past'.upset
    BY <1>2 DEF Arrive, TypeOK
<1>3. ASSUME Continue(r)
      PROVE  /\ \A s \in Request : s # r => req'[s] = req[s]
             /\ past.upset \subseteq past'.upset
             /\ req[r].pc # "idle"
             /\ session.exists => session'.exists
  <2>1. CASE CreateContext(r) \/ Welcome(r) \/ ReadContext(r) \/ LoadHistory(r)
      BY <2>1 DEF CreateContext, Welcome, ReadContext, LoadHistory, TypeOK
  <2>2. CASE SaveUserMessage(r) \/ LinkAttachments(r) \/ RunGraph(r) \/ CommitExchange(r)
      BY <2>2 DEF SaveUserMessage, LinkAttachments, RunGraph, CommitExchange, TypeOK
  <2>3. CASE RecordContext(r) \/ ReadMemory(r) \/ WriteMemory(r)
      BY <2>3 DEF RecordContext, ReadMemory, WriteMemory, TypeOK
  <2> QED
      BY <1>3, <2>1, <2>2, <2>3 DEF Continue
<1>4. ASSUME Abort(r)
      PROVE  /\ \A s \in Request : s # r => req'[s] = req[s]
             /\ past.upset \subseteq past'.upset
             /\ req[r].pc # "idle"
             /\ session.exists => session'.exists
    BY <1>4 DEF Abort, TypeOK
<1> QED
    BY <1>1, <1>2, <1>3, <1>4 DEF Step

\* A step that overlaps nothing is taken by the only request under way.
LEMMA SoloStep ==
    ASSUME TypeOK, Alone, NEW r \in Request, Step(r), "overlap" \notin past'.upset
    PROVE  /\ "overlap" \notin past.upset
           /\ \A s \in Request : s # r => req[s].pc = "idle" /\ req'[s] = req[s]
           /\ CreateSession(r) \/ Begin(r) => Quiet /\ past' = past
<1>1. "overlap" \notin past.upset
    BY StepFrame
<1>2. ASSUME Arrive
      PROVE  Quiet /\ past' = past
    BY <1>2 DEF Arrive, TypeOK
<1>3. \A s \in Request : s # r => req[s].pc = "idle"
  <2>1. CASE Arrive
      BY <1>2, <2>1 DEF Quiet
  <2>2. CASE req[r].pc # "idle"
      BY <1>1, <2>2 DEF Alone
  <2> QED
      BY <2>1, <2>2, StepFrame DEF Step
<1> QED
    BY <1>1, <1>2, <1>3, StepFrame

\* As long as there was no overlap, one request is under way at most.
LEMMA AloneKept ==
    ASSUME TypeOK, Alone, [Next]_vars
    PROVE  Alone'
<1>1. ASSUME NEW r \in Request, Step(r)
      PROVE  Alone'
    BY <1>1, SoloStep DEF Alone
<1>2. CASE LoseRedis
    BY <1>2 DEF LoseRedis, Alone, TypeOK
<1>3. CASE UNCHANGED vars
    BY <1>3 DEF vars, Alone
<1> QED
    BY <1>1, <1>2, <1>3 DEF Next, Step

-----------------------------------------------------------------------------
(***************************************************************************)
(* Self-help and a ticket exclude each other                               *)
(***************************************************************************)
Guided == past.upset \subseteq {"lost"} /\ FALSE \notin KbSettings

\* A step of the only request keeps a guided session without a ticket.
LEMMA GuideKept ==
    ASSUME IInv, Alone, GuideInv, NEW r \in Request, Step(r), Guided'
    PROVE  /\ NoneRecords' => ~(redis'.context.status = "guiding" /\ session'.active # 0)
           /\ GuideRequest(r)'
<1> USE PhaseFacts
<1>1. TypeOK
    BY DEF IInv
<1>2. /\ Guided /\ "overlap" \notin past'.upset
      /\ \A s \in Request : s # r => req[s].pc = "idle" /\ req'[s] = req[s]
  <2>1. Guided /\ "overlap" \notin past'.upset
      BY <1>1, StepFrame DEF Guided
  <2> QED
      BY <1>1, <2>1, SoloStep
<1>3. /\ NoneRecords => ~(redis.context.status = "guiding" /\ session.active # 0)
      /\ GuideRequest(r)
    BY <1>2 DEF GuideInv, Guided
<1>4. /\ NoneRecords <=> req[r].pc \notin Recording
      /\ NoneRecords' <=> req'[r].pc \notin Recording
    BY <1>2 DEF NoneRecords
<1>5. CASE CreateSession(r)
  <2>1. /\ req[r].pc = "idle" /\ req'[r].pc = "create_context"
        /\ redis' = redis /\ session'.active = session.active
      BY <1>1, <1>5 DEF CreateSession, TypeOK, RequestState
  <2> QED
      BY <1>3, <1>4, <2>1 DEF GuideRequest
<1>6. CASE CreateContext(r)
  <2>1. req'[r].pc = "welcome" /\ redis'.context.status = "none"
      BY <1>1, <1>6 DEF CreateContext, TypeOK, RequestState
  <2> QED
      BY <2>1 DEF GuideRequest
<1>7. CASE Welcome(r) \/ (Abort(r) /\ req[r].pc \notin Recording)
  <2>1. /\ req[r].pc \notin Recording /\ req'[r].pc = "idle"
        /\ redis' = redis /\ session'.active = session.active
      BY <1>1, <1>7 DEF Welcome, Abort, TypeOK, Fresh
  <2> QED
      BY <1>3, <1>4, <2>1 DEF GuideRequest
<1>8. CASE Begin(r)
  <2>1. /\ req[r].pc = "idle" /\ req'[r].pc = "context"
        /\ req'[r].base = session.active /\ req'[r].row = session.active
        /\ redis' = redis /\ session' = session
      BY <1>1, <1>8 DEF Begin, LoadSession, TypeOK, Fresh
  <2> QED
      BY <1>3, <1>4, <2>1 DEF GuideRequest
<1>9. CASE ReadContext(r)
  <2>1. /\ req[r].pc = "context" /\ req'[r].pc = "history"
        /\ req'[r].base = req[r].base /\ req'[r].row = req[r].row
        /\ req'[r].status \in {"none", redis.context.status}
        /\ redis' = redis /\ session' = session
      BY <1>1, <1>9 DEF ReadContext, TypeOK, RequestState
  <2> QED
      BY <1>3, <1>4, <2>1 DEF GuideRequest
<1>10. CASE LoadHistory(r) \/ SaveUserMessage(r) \/ LinkAttachments(r)
  <2>1. /\ req[r].pc \in {"history", "save", "link"} /\ req'[r].pc \in {"save", "link", "graph"}
        /\ req'[r].base = req[r].base /\ req'[r].row = req[r].row
        /\ req'[r].status = req[r].status
        /\ redis' = redis /\ session'.active = session.active
      BY <1>1, <1>10 DEF LoadHistory, SaveUserMessage, LinkAttachments, TypeOK, RequestState
  <2> QED
      BY <1>3, <1>4, <2>1 DEF GuideRequest
<1>11. CASE RunGraph(r)
  <2>1. PICK kb \in KbSettings :
          \E e \in TurnEnds([kb |-> kb, status |-> req[r].status, active |-> req[r].row], Len(tickets)) :
             req' = [req EXCEPT ![r].pc = "commit",
                                ![r].status = e.status,
                                ![r].outcome = e.outcome,
                                ![r].row = IF e.active # 0 THEN e.active ELSE @]
      BY <1>11 DEF RunGraph
  <2>2. PICK e \in TurnEnds([kb |-> kb, status |-> req[r].status, active |-> req[r].row], Len(tickets)) :
             req' = [req EXCEPT ![r].pc = "commit",
                                ![r].status = e.status,
                                ![r].outcome = e.outcome,
                                ![r].row = IF e.active # 0 THEN e.active ELSE @]
      BY <2>1
  <2>3. /\ req[r].pc = "graph" /\ redis' = redis /\ session' = session
        /\ req'[r].pc = "commit" /\ req'[r].status = e.status /\ req'[r].base = req[r].base
        /\ req'[r].row = IF e.active # 0 THEN e.active ELSE req[r].row
      BY <1>1, <1>11, <2>2 DEF RunGraph, TypeOK, RequestState
  <2>4. kb = TRUE
      BY <1>2, KbSettingsAssumption DEF Guided
  <2>5. ASSUME e.status = "guiding"
        PROVE  req[r].row = 0 /\ e.active = req[r].row
    <3>1. MayEnd([kb |-> kb, status |-> req[r].status, active |-> req[r].row], e)
        BY <1>1, TypeFacts, EndFacts
    <3>2. /\ req[r].status # e.status => req[r].row = 0
          /\ e.active = req[r].row
        BY <2>4, <2>5, <3>1 DEF MayEnd, StatusMoves, SelfHelpHolds
    <3>3. ~(req[r].status = "guiding" /\ req[r].row # 0)
        BY <1>3, <2>3 DEF GuideRequest
    <3> QED
        BY <2>5, <3>2, <3>3
  <2> QED
      BY <1>3, <1>4, <2>3, <2>5 DEF GuideRequest
<1>12. CASE CommitExchange(r)
  <2>1. /\ req[r].pc = "commit" /\ req'[r].pc = "record_context" /\ req'[r].role = req[r].role
        /\ req'[r].row = req[r].row /\ req'[r].status = req[r].status
        /\ redis' = redis /\ session'.active = ActiveAfter(r)
      BY <1>1, <1>12 DEF CommitExchange, TypeOK, RequestState
  <2>2. req[r].role = "user" /\ req[r].base = session.active
      BY <1>3, <2>1 DEF GuideRequest, IInv, SendsOK, SendOf
  <2>3. session'.active = req[r].row
      BY <2>1, <2>2 DEF ActiveAfter
  <2> QED
      BY <1>3, <1>4, <2>1, <2>2, <2>3 DEF GuideRequest
<1>13. CASE RecordContext(r)
  <2>1. /\ req[r].pc = "record_context" /\ req'[r].pc = "read_memory"
        /\ req'[r].row = req[r].row /\ req'[r].status = req[r].status
        /\ redis'.context.status = req[r].status /\ session' = session
      BY <1>1, <1>13 DEF RecordContext, RecordedContext, TypeOK, RequestState
  <2> QED
      BY <1>3, <1>4, <2>1 DEF GuideRequest
<1>14. CASE ReadMemory(r)
  <2>1. /\ req[r].pc = "read_memory" /\ req'[r].pc = "write_memory"
        /\ req'[r].row = req[r].row /\ req'[r].status = req[r].status
        /\ redis' = redis /\ session' = session
      BY <1>1, <1>14 DEF ReadMemory, TypeOK, RequestState
  <2> QED
      BY <1>3, <1>4, <2>1 DEF GuideRequest
<1>15. CASE WriteMemory(r)
  <2>1. /\ req[r].pc = "write_memory" /\ session' = session
        /\ redis'.context = redis.context
        /\ \/ /\ req'[r].pc = "record_context"
              /\ req'[r].row = req[r].row /\ req'[r].status = req[r].status
           \/ req'[r].pc = "idle"
      BY <1>1, <1>15 DEF WriteMemory, AfterRecord, TypeOK, RequestState, Fresh
  <2>2. ~(redis.context.status = "guiding" /\ session.active # 0)
      BY <1>3, <2>1 DEF GuideRequest
  <2>3. GuideRequest(r)'
      BY <1>3, <2>1 DEF GuideRequest
  <2> QED
      BY <2>1, <2>2, <2>3
<1>16. CASE Abort(r) /\ req[r].pc \in Recording
  <2>1. "unrecorded" \in past'.upset
      BY <1>1, <1>16 DEF Abort, TypeOK
  <2> QED
      BY <2>1 DEF Guided
<1> QED
    BY <1>5, <1>6, <1>7, <1>8, <1>9, <1>10, <1>11, <1>12, <1>13, <1>14, <1>15, <1>16
    DEF Step, Continue

\* Every step does.
LEMMA GuideInvKept ==
    ASSUME IInv, Alone, GuideInv, [Next]_vars
    PROVE  GuideInv'
<1>1. ASSUME NEW r \in Request, Step(r), Guided'
      PROVE  /\ NoneRecords' => ~(redis'.context.status = "guiding" /\ session'.active # 0)
             /\ \A s \in Request : GuideRequest(s)'
  <2>1. \A s \in Request : s # r => req'[s].pc = "idle"
      BY <1>1, SoloStep DEF IInv, Guided
  <2>2. \A s \in Request : s # r => GuideRequest(s)'
      BY <2>1, PhaseFacts DEF GuideRequest
  <2> QED
      BY <1>1, <2>2, GuideKept
<1>2. CASE LoseRedis
  <2>1. /\ past.upset \subseteq past'.upset
        /\ session' = session /\ req' = req
        /\ redis'.context.status \in {"missing", redis.context.status}
      BY <1>2 DEF LoseRedis, Empty, Missing, IInv, TypeOK
  <2> QED
      BY <2>1 DEF GuideInv, GuideRequest, NoneRecords
<1>3. CASE UNCHANGED vars
    BY <1>3 DEF vars, GuideInv, GuideRequest, NoneRecords
<1>4. (Guided' => /\ NoneRecords' => ~(redis'.context.status = "guiding" /\ session'.active # 0)
                  /\ \A s \in Request : GuideRequest(s)') => GuideInv'
    BY DEF GuideInv, Guided
<1> QED
    BY <1>1, <1>2, <1>3, <1>4 DEF Next, Step

-----------------------------------------------------------------------------
(***************************************************************************)
(* What one exchange makes of the messages answered, and of the window     *)
(***************************************************************************)
LEMMA TurnsAppend ==
    ASSUME NEW log \in Seq(Message), NEW m \in Message
    PROVE  Turns(Append(log, m)) = Append(Turns(log), m.turn)
<1> DEFINE n == Len(log)
           l == Turns(Append(log, m))
           e == Append(Turns(log), m.turn)
<1>1. /\ n \in Nat /\ Append(log, m) \in Seq(Message) /\ Len(Append(log, m)) = n + 1
      /\ Append(log, m)[n + 1] = m
      /\ \A i \in 1..n : Append(log, m)[i] = log[i]
    BY AppendProperties, LenProperties
<1>2. /\ l \in Seq(Turn) /\ Len(l) = n + 1
      /\ \A i \in 1..n + 1 : l[i] = Append(log, m)[i].turn
    BY <1>1, TurnsType
<1>3. /\ Turns(log) \in Seq(Turn) /\ Len(Turns(log)) = n
      /\ \A i \in 1..n : Turns(log)[i] = log[i].turn
    BY TurnsType
<1>4. m.turn \in Turn
    BY DEF Message
<1>5. /\ e \in Seq(Turn) /\ Len(e) = n + 1
      /\ e[n + 1] = m.turn /\ \A i \in 1..n : e[i] = log[i].turn
    BY <1>1, <1>3, <1>4, AppendProperties
<1> HIDE DEF l, e, n
<1>6. \A i \in 1..Len(l) : l[i] = e[i]
    BY <1>1, <1>2, <1>5
<1>7. l = e
    BY <1>2, <1>5, <1>6, SeqEqual
<1> QED
    BY <1>7 DEF l, e

\* What one more row adds to the committed turns.
LEMMA CommittedAppend ==
    ASSUME NEW log \in Seq(Message), NEW m \in Message
    PROVE  Committed(Append(log, m)) =
               IF m.committed THEN Append(Committed(log), m.turn) ELSE Committed(log)
<1>1. Select(Append(log, m), CommittedRows) =
          IF m.committed THEN Append(Select(log, CommittedRows), m) ELSE Select(log, CommittedRows)
    BY SelectAppend DEF CommittedRows
<1>2. Select(log, CommittedRows) \in Seq(Message)
    BY LogRange
<1> QED
    BY <1>1, <1>2, TurnsAppend DEF Committed

Complete(turns) ==
    {t \in Turn : t.send # 0 /\ [send |-> t.send, role |-> "assistant"] \in ToSet(turns)}

\* Answered, by the selection it is.
LEMMA AnsweredIs ==
    ASSUME NEW log
    PROVE  Answered(log) = Select(Committed(log), Complete(Committed(log)))
BY DEF Answered, Complete

\* Answered and committed turns are turns.
LEMMA AnsweredType ==
    ASSUME NEW log \in Seq(Message)
    PROVE  Answered(log) \in Seq(Turn) /\ Committed(log) \in Seq(Turn)
<1>1. Committed(log) \in Seq(Turn)
    BY CommittedRange
<1> QED
    BY <1>1, SelectType DEF Answered

\* A turn that is not an answer leaves what is complete as it was.
LEMMA CompleteSame ==
    ASSUME NEW turns \in Seq(Turn), NEW t \in Turn, t.send = 0 \/ t.role = "user"
    PROVE  Complete(Append(turns, t)) = Complete(turns)
<1>1. ToSet(Append(turns, t)) = ToSet(turns) \cup {t}
    BY AppendRange
<1>2. \A u \in Turn : u.send # 0 => [send |-> u.send, role |-> "assistant"] # t
    OBVIOUS
<1> QED
    BY <1>1, <1>2 DEF Complete

\* An answer completes the turns of its send.
LEMMA CompleteMore ==
    ASSUME NEW turns \in Seq(Turn), NEW t \in Turn, t.send # 0, t.role = "assistant"
    PROVE  Complete(Append(turns, t)) = Complete(turns) \cup {u \in Turn : u.send = t.send}
<1>1. ToSet(Append(turns, t)) = ToSet(turns) \cup {t}
    BY AppendRange
<1>2. \A u \in Turn : [send |-> u.send, role |-> "assistant"] = t <=> u.send = t.send
  <2> SUFFICES ASSUME NEW u \in Turn, u.send = t.send
               PROVE  [send |-> u.send, role |-> "assistant"] = t
      OBVIOUS
  <2> QED
      BY DEF Turn
<1> QED
    BY <1>1, <1>2 DEF Complete

\* A question alone, an uncommitted row or the welcome adds no exchange.
LEMMA AnsweredQuestion ==
    ASSUME NEW log \in Seq(Message), NEW m \in Message,
           \/ m.turn.send = 0
           \/ ~m.committed
           \/ m.turn.role = "user" /\ \A k \in ToSet(log) : k.turn.send # m.turn.send
    PROVE  Answered(Append(log, m)) = Answered(log)
<1>1. Committed(Append(log, m)) =
          IF m.committed THEN Append(Committed(log), m.turn) ELSE Committed(log)
    BY CommittedAppend
<1>2. CASE ~m.committed
    BY <1>1, <1>2 DEF Answered
<1>3. CASE m.committed
  <2> DEFINE turns == Committed(log)
             t == m.turn
  <2>1. /\ turns \in Seq(Turn) /\ ToSet(turns) = {k.turn : k \in ToSet(log) \cap CommittedRows}
        /\ t \in Turn
      BY CommittedRange DEF Message
  <2>2. Committed(Append(log, m)) = Append(turns, t)
      BY <1>1, <1>3
  <2>3. t.send = 0 \/ (t.role = "user" /\ \A u \in ToSet(turns) : u.send # t.send)
      BY <1>3, <2>1
  <2> HIDE DEF turns, t
  <2>4. Complete(Append(turns, t)) = Complete(turns)
      BY <2>1, <2>3, CompleteSame
  <2>5. t \notin Complete(turns)
      BY <2>1, <2>3 DEF Complete
  <2>6. Select(Append(turns, t), Complete(turns)) = Select(turns, Complete(turns))
      BY <2>1, <2>5, SelectAppend
  <2> QED
      BY <2>2, <2>4, <2>6, AnsweredIs DEF turns
<1> QED
    BY <1>2, <1>3

\* A question and its answer add one.
LEMMA AnsweredExchange ==
    ASSUME NEW log \in Seq(Message), NEW u \in Turn, NEW a \in Turn,
           u.send = a.send, u.send # 0, u.role = "user", a.role = "assistant",
           \A m \in ToSet(log) : m.turn.send # u.send
    PROVE  Answered(Append(Append(log, Saved(u)), Saved(a))) =
               Append(Append(Answered(log), u), a)
<1> DEFINE turns == Committed(log)
           mine == {t \in Turn : t.send = a.send}
           done == Complete(turns) \cup mine
<1>1. /\ Saved(u) \in Message /\ Saved(u).turn = u /\ Saved(u).committed = TRUE
      /\ Saved(a) \in Message /\ Saved(a).turn = a /\ Saved(a).committed = TRUE
      /\ Append(log, Saved(u)) \in Seq(Message)
    BY AppendProperties DEF Message, Saved
<1>2. turns \in Seq(Turn) /\ ToSet(turns) = {m.turn : m \in ToSet(log) \cap CommittedRows}
    BY CommittedRange
<1>3. Committed(Append(Append(log, Saved(u)), Saved(a))) = Append(Append(turns, u), a)
  <2> DEFINE asked == Append(log, Saved(u))
  <2>1. asked \in Seq(Message) /\ Committed(asked) = Append(turns, u)
      BY <1>1, CommittedAppend
  <2> HIDE DEF asked
  <2>2. Committed(Append(asked, Saved(a))) = Append(Committed(asked), a)
      BY <1>1, <2>1, CommittedAppend
  <2> QED
      BY <2>1, <2>2 DEF asked
<1>4. \A t \in ToSet(turns) : t.send # a.send
    BY <1>2
<1> HIDE DEF turns
<1>5. Append(turns, u) \in Seq(Turn)
    BY <1>2, AppendProperties
<1>6. Complete(Append(Append(turns, u), a)) = done
    BY <1>2, <1>5, CompleteSame, CompleteMore
<1>7. u \in done /\ a \in done
    OBVIOUS
<1> HIDE DEF done
<1>8. Select(turns, done) = Select(turns, Complete(turns))
    BY <1>2, <1>4, SelectSame DEF done
<1>9. Select(Append(Append(turns, u), a), done) = Append(Append(Select(turns, done), u), a)
  <2> DEFINE asked == Append(turns, u)
  <2>1. asked \in Seq(Turn) /\ Select(asked, done) = Append(Select(turns, done), u)
      BY <1>2, <1>5, <1>7, SelectAppend
  <2> HIDE DEF asked
  <2>2. Select(Append(asked, a), done) = Append(Select(asked, done), a)
      BY <1>7, <2>1, SelectAppend
  <2> QED
      BY <2>1, <2>2 DEF asked
<1> QED
    BY <1>3, <1>6, <1>8, <1>9, AnsweredIs DEF turns

\* A commit reaches only the rows of its send.
LEMMA CommitOthers ==
    ASSUME NEW log \in Seq(Message), NEW s, \A m \in ToSet(log) : m.turn.send # s
    PROVE  CommitRows(s, log) = log
<1> DEFINE c == CommitRows(s, log)
<1>1. /\ c \in Seq(Message) /\ Len(c) = Len(log)
      /\ \A i \in 1..Len(log) : /\ c[i].turn = log[i].turn
                                /\ c[i].committed = (log[i].committed \/ log[i].turn.send = s)
    BY CommitRowsRange
<1> HIDE DEF c
<1>2. ASSUME NEW i \in 1..Len(log)
      PROVE  c[i] = log[i]
  <2>1. log[i] \in Message /\ c[i] \in Message
      BY <1>1, ElementOfSeq
  <2>2. log[i].turn.send # s
      BY LenProperties DEF ToSet
  <2>3. c[i].turn = log[i].turn /\ c[i].committed = log[i].committed
      BY <1>1, <2>1, <2>2, Zenon DEF Message
  <2> QED
      BY <2>1, <2>3 DEF Message
<1>3. c = log
    BY <1>1, <1>2, SeqEqual
<1> QED
    BY <1>3 DEF c

\* Committing a row of one's own is appending it committed.
LEMMA CommitAppend ==
    ASSUME NEW log \in Seq(Message), NEW s, NEW m \in Message, m.turn.send = s
    PROVE  CommitRows(s, Append(log, m)) = Append(CommitRows(s, log), Saved(m.turn))
<1> DEFINE n == Len(log)
           full == Append(log, m)
           old == CommitRows(s, log)
           l == CommitRows(s, full)
           k == Saved(m.turn)
           e == Append(old, k)
<1>1. k \in Message /\ k.turn = m.turn /\ k.committed = TRUE
    BY DEF Message, Saved
<1> HIDE DEF k
<1>2. /\ n \in Nat /\ full \in Seq(Message) /\ Len(full) = n + 1
      /\ full[n + 1] = m
      /\ \A i \in 1..n : full[i] = log[i]
    BY <1>1, AppendProperties, LenProperties
<1>3. /\ l \in Seq(Message) /\ Len(l) = n + 1
      /\ \A i \in 1..n + 1 : /\ l[i].turn = full[i].turn
                             /\ l[i].committed = (full[i].committed \/ full[i].turn.send = s)
  <2> HIDE DEF full
  <2> QED
      BY <1>2, CommitRowsRange
<1>4. /\ old \in Seq(Message) /\ Len(old) = n
      /\ \A i \in 1..n : /\ old[i].turn = log[i].turn
                         /\ old[i].committed = (log[i].committed \/ log[i].turn.send = s)
    BY CommitRowsRange
<1> HIDE DEF old
<1>5. /\ e \in Seq(Message) /\ Len(e) = n + 1
      /\ e[n + 1] = k /\ \A i \in 1..n : e[i] = old[i]
  <2> HIDE DEF n, l, full
  <2>1. /\ e \in Seq(Message) /\ Len(e) = Len(old) + 1
        /\ e[Len(old) + 1] = k /\ \A i \in 1..Len(old) : e[i] = old[i]
      BY <1>1, <1>4, AppendProperties
  <2> HIDE DEF e
  <2> QED
      BY <1>4, <2>1
<1> HIDE DEF n, full, l, e
<1>6. ASSUME NEW i \in 1..n + 1
      PROVE  l[i] = e[i]
  <2>1. l[i] \in Message /\ e[i] \in Message
      BY <1>3, <1>5, ElementOfSeq
  <2>2. CASE i = n + 1
    <3>1. full[i].turn.send = s /\ l[i].turn = m.turn
        BY <1>1, <1>2, <1>3, <2>2
    <3>2. l[i].committed = TRUE
        BY <1>3, <3>1
    <3> QED
        BY <1>1, <1>5, <2>1, <2>2, <3>1, <3>2 DEF Message
  <2>3. CASE i # n + 1
    <3>1. i \in 1..n
        BY <1>2, <2>3
    <3>2. /\ l[i].turn = full[i].turn
          /\ l[i].committed = (full[i].committed \/ full[i].turn.send = s)
          /\ full[i] = log[i] /\ e[i] = old[i]
        BY <1>2, <1>3, <1>5, <3>1
    <3>3. l[i].turn = e[i].turn /\ l[i].committed = e[i].committed
        BY <1>4, <3>1, <3>2
    <3> QED
        BY <2>1, <3>3 DEF Message
  <2> QED
      BY <2>2, <2>3
<1>7. l = e
    BY <1>3, <1>5, <1>6, SeqEqual
<1> QED
    BY <1>7 DEF l, e, full, old, k

\* To cut the window before a turn is added makes no difference after it.
LEMMA WindowAgain ==
    ASSUME NEW q \in Seq(Turn), NEW t \in Turn
    PROVE  Window(Append(Window(q), t)) = Window(Append(q, t))
<1> DEFINE n == Len(q)
           w == Window(q)
           max == MaxRecentTurns
<1>1. /\ n \in Nat /\ max \in Nat /\ max # 0
      /\ w \in Seq(Turn) /\ Len(w) \in Nat
      /\ Len(w) = IF n < max THEN n ELSE max
      /\ \A i \in 1..Len(w) : w[i] = q[i + (n - Len(w))]
    BY WindowType, MaxRecentTurnsAssumption, LenProperties
<1> HIDE DEF w
<1> DEFINE qt == Append(q, t)
           wt == Append(w, t)
           e == Window(qt)
           l == Window(wt)
<1>2. /\ qt \in Seq(Turn) /\ Len(qt) = n + 1
      /\ qt[n + 1] = t
      /\ \A i \in 1..n : qt[i] = q[i]
    BY AppendProperties
<1>3. /\ wt \in Seq(Turn) /\ Len(wt) = Len(w) + 1
      /\ wt[Len(w) + 1] = t
      /\ \A i \in 1..Len(w) : wt[i] = w[i]
    BY <1>1, AppendProperties
<1> HIDE DEF qt, wt
<1>4. /\ l \in Seq(Turn)
      /\ Len(l) = IF Len(w) + 1 < max THEN Len(w) + 1 ELSE max
      /\ \A i \in 1..Len(l) : l[i] = wt[i + (Len(w) + 1 - Len(l))]
  <2>1. /\ l \in Seq(Turn)
        /\ Len(l) = IF Len(wt) < max THEN Len(wt) ELSE max
        /\ \A i \in 1..Len(l) : l[i] = wt[i + (Len(wt) - Len(l))]
      BY <1>3, WindowType
  <2> HIDE DEF l, n, max
  <2> QED
      BY <1>3, <2>1
<1>5. /\ e \in Seq(Turn)
      /\ Len(e) = IF n + 1 < max THEN n + 1 ELSE max
      /\ \A i \in 1..Len(e) : e[i] = qt[i + (n + 1 - Len(e))]
  <2>1. /\ e \in Seq(Turn)
        /\ Len(e) = IF Len(qt) < max THEN Len(qt) ELSE max
        /\ \A i \in 1..Len(e) : e[i] = qt[i + (Len(qt) - Len(e))]
      BY <1>2, WindowType
  <2> HIDE DEF e, l, n, max
  <2> QED
      BY <1>1, <1>2, <2>1
<1> HIDE DEF n, l, e, max
<1>6. Len(l) = Len(e) /\ Len(e) \in Nat /\ Len(e) <= Len(w) + 1
    BY <1>1, <1>4, <1>5
<1>7. ASSUME NEW i \in 1..Len(l)
      PROVE  l[i] = e[i]
  <2> DEFINE k == i + (Len(w) + 1 - Len(e))
  <2>1. /\ k \in 1..Len(w) + 1
        /\ i + (n + 1 - Len(e)) = k + (n - Len(w))
      BY <1>1, <1>6
  <2>2. l[i] = wt[k] /\ e[i] = qt[k + (n - Len(w))]
      BY <1>4, <1>5, <1>6, <2>1
  <2> HIDE DEF k
  <2>3. CASE k = Len(w) + 1
    <3>1. k + (n - Len(w)) = n + 1
        BY <1>1, <2>3
    <3> QED
        BY <1>2, <1>3, <2>2, <2>3, <3>1
  <2>4. CASE k # Len(w) + 1
    <3>1. k \in 1..Len(w) /\ k + (n - Len(w)) \in 1..n
        BY <1>1, <2>1, <2>4
    <3> QED
        BY <1>1, <1>2, <1>3, <2>2, <3>1
  <2> QED
      BY <2>3, <2>4
<1>8. l = e
    BY <1>4, <1>5, <1>6, <1>7, SeqEqual
<1> QED
    BY <1>8 DEF l, e, w, qt, wt

-----------------------------------------------------------------------------
(***************************************************************************)
(* A session that nothing has disturbed                                    *)
(***************************************************************************)
LEMMA TurnTypes ==
    ASSUME TypeOK, NEW r \in Request
    PROVE  /\ TurnOf(r, "user") \in Turn /\ TurnOf(r, "assistant") \in Turn
           /\ TurnOf(r, "user").send = req[r].send /\ TurnOf(r, "user").role = "user"
           /\ TurnOf(r, "assistant").send = req[r].send /\ TurnOf(r, "assistant").role = "assistant"
BY TypeFacts DEF TurnOf, Turn

\* A committed row.
LEMMA SavedType ==
    ASSUME NEW t \in Turn
    PROVE  Saved(t) \in Message /\ Saved(t).turn = t
BY DEF Saved, Message

\* Answered is what it was until the answer is committed.
LEMMA NewestAnswered ==
    ASSUME TypeOK, NEW r \in Request, NEW log \in Seq(Message), NEW m \in Message,
           m.turn = TurnOf(r, "user"), \A k \in ToSet(log) : k.turn.send # req[r].send
    PROVE  Answered(Append(log, m)) = Answered(log)
<1>1. m.turn.role = "user" /\ m.turn.send = req[r].send
    BY TurnTypes
<1> QED
    BY <1>1, AnsweredQuestion

\* A saved question is the newest row, and no exchange yet.
LEMMA SaveNewest ==
    ASSUME IInv, NEW r \in Request, SaveUserMessage(r)
    PROVE  Newest(r)' /\ Answered(session.log') = Answered(session.log)
<1> DEFINE m == [turn |-> TurnOf(r, "user"), committed |-> FALSE]
<1>1. TypeOK /\ session.log \in Seq(Message)
    BY TypeFacts DEF IInv
<1>2. /\ session.log' = Append(session.log, m)
      /\ req'[r].send = req[r].send /\ TurnOf(r, "user")' = TurnOf(r, "user")
    BY <1>1 DEF SaveUserMessage, TypeOK, RequestState, TurnOf
<1>3. m \in Message /\ m.turn = TurnOf(r, "user")
    BY <1>1, TurnTypes DEF Message
<1>4. \A k \in ToSet(session.log) : k.turn.send # req[r].send
    BY DEF SaveUserMessage, IInv, SendsOK, RowsIn, LoggedTurns
<1> HIDE DEF m
<1>5. Answered(session.log') = Answered(session.log)
    BY <1>1, <1>2, <1>3, <1>4, NewestAnswered
<1>6. Newest(r)'
  <2>1. PICK k \in Message : k = m
      BY <1>3
  <2> QED
      BY <1>1, <1>2, <1>3, <1>4, <2>1 DEF Newest
<1> QED
    BY <1>5, <1>6

\* Committing a request whose only row is the newest one changes that row alone.
LEMMA CommitNewest ==
    ASSUME TypeOK, NEW r \in Request, NEW log \in Seq(Message), NEW m \in Message,
           m.turn = TurnOf(r, "user"), \A k \in ToSet(log) : k.turn.send # req[r].send
    PROVE  CommitRows(req[r].send, Append(log, m)) = Append(log, Saved(m.turn))
<1>1. m.turn.send = req[r].send
    BY TurnTypes
<1>2. CommitRows(req[r].send, log) = log
    BY CommitOthers
<1> QED
    BY <1>1, <1>2, CommitAppend

\* Linking files changes at most the newest row.
LEMMA LinkNewest ==
    ASSUME IInv, NEW r \in Request, LinkAttachments(r), Newest(r)
    PROVE  Newest(r)' /\ Answered(session.log') = Answered(session.log)
<1>1. PICK log \in Seq(Message) : \E m \in Message :
        /\ session.log = Append(log, m) /\ m.turn = TurnOf(r, "user")
        /\ \A k \in ToSet(log) : k.turn.send # req[r].send
    BY DEF Newest
<1>2. PICK m \in Message :
        /\ session.log = Append(log, m) /\ m.turn = TurnOf(r, "user")
        /\ \A k \in ToSet(log) : k.turn.send # req[r].send
    BY <1>1
<1>3. TypeOK
    BY DEF IInv
<1>4. session.log' = CommitRows(req[r].send, session.log) /\ req'[r].send = req[r].send
    BY <1>3 DEF LinkAttachments, TypeOK, RequestState
<1>5. TurnOf(r, "user")' = TurnOf(r, "user")
    BY <1>4 DEF TurnOf
<1>6. PICK k \in Message : k = Saved(m.turn) /\ k.turn = TurnOf(r, "user")
    BY <1>2, <1>3, SavedType, TurnTypes
<1>7. session.log' = Append(log, k)
    BY <1>2, <1>3, <1>4, <1>6, CommitNewest
<1>8. Answered(session.log') = Answered(session.log)
  <2>1. Answered(Append(log, k)) = Answered(log) /\ Answered(Append(log, m)) = Answered(log)
      BY <1>2, <1>3, <1>6, NewestAnswered
  <2> QED
      BY <1>2, <1>7, <2>1
<1>9. Newest(r)'
    BY <1>2, <1>4, <1>5, <1>6, <1>7 DEF Newest
<1> QED
    BY <1>8, <1>9

\* The commit adds the exchange of the request, at the end.
LEMMA CommitAnswers ==
    ASSUME IInv, NEW r \in Request, CommitExchange(r), Newest(r)
    PROVE  Answered(session.log') =
               Append(Append(Answered(session.log), TurnOf(r, "user")), TurnOf(r, "assistant"))
<1> DEFINE u == TurnOf(r, "user")
           a == TurnOf(r, "assistant")
           s == req[r].send
           n == [turn |-> a, committed |-> FALSE]
<1>1. PICK log \in Seq(Message) : \E m \in Message :
        /\ session.log = Append(log, m) /\ m.turn = TurnOf(r, "user")
        /\ \A k \in ToSet(log) : k.turn.send # req[r].send
    BY DEF Newest
<1>2. PICK m \in Message :
        /\ session.log = Append(log, m) /\ m.turn = TurnOf(r, "user")
        /\ \A k \in ToSet(log) : k.turn.send # req[r].send
    BY <1>1
<1>3. TypeOK /\ session.log \in Seq(Message)
    BY TypeFacts DEF IInv
<1>4. /\ u \in Turn /\ a \in Turn /\ u.send = s /\ a.send = s
      /\ u.role = "user" /\ a.role = "assistant"
    BY <1>3, TurnTypes
<1>5. session.log' = CommitRows(s, Append(session.log, n))
    BY <1>3 DEF CommitExchange, Exchange, TypeOK, TurnOf
<1>6. n \in Message /\ n.turn = a
    BY <1>4 DEF Message
<1>7. s # 0
    BY SendFacts DEF CommitExchange, Sending
<1> HIDE DEF n
<1>8. CommitRows(s, Append(session.log, n)) = Append(CommitRows(s, session.log), Saved(a))
    BY <1>3, <1>4, <1>6, CommitAppend
<1>9. CommitRows(s, session.log) = Append(log, Saved(u))
    BY <1>2, <1>3, CommitNewest
<1>10. Answered(session.log) = Answered(log)
    BY <1>2, <1>3, NewestAnswered
<1> HIDE DEF u, a
<1>11. \A k \in ToSet(log) : k.turn.send # u.send
    BY <1>2, <1>4
<1> HIDE DEF s
<1>12. Answered(Append(Append(log, Saved(u)), Saved(a))) = Append(Append(Answered(log), u), a)
    BY <1>4, <1>7, <1>11, AnsweredExchange
<1> QED
    BY <1>5, <1>8, <1>9, <1>10, <1>12 DEF u, a

\* A request that fails before it records adds no exchange.
LEMMA AbortAnswered ==
    ASSUME IInv, NEW r \in Request, Abort(r), CalmRequest(r), req[r].pc \notin Recording
    PROVE  Answered(session.log') = Answered(session.log)
<1> DEFINE s == req[r].send
           keep == CommittedRows \cup (Message \ RowsOf(s))
<1>1. /\ session.log' = Select(session.log, keep)
      /\ session.log \in Seq(Message) /\ TypeOK /\ req[r].pc # "idle" /\ req[r].pc \in Phase
    BY TypeFacts DEF Abort, IInv, TypeOK, RequestState
<1>2. CASE req[r].pc \in {"create_context", "welcome"}
  <2>1. session.log = <<>>
      BY <1>2 DEF CalmRequest
  <2> QED
      BY <1>1, <2>1, SelectEmpty
<1>3. ASSUME NEW log \in Seq(Message), \A m \in ToSet(log) : m.turn.send # s
      PROVE  Select(log, keep) = log
  <2>1. ToSet(log) \subseteq Message
      BY LogRange
  <2>2. ToSet(log) \subseteq keep
      BY <1>3, <2>1 DEF RowsOf
  <2> HIDE DEF keep
  <2> QED
      BY <2>2, SelectAll
<1>4. CASE req[r].pc \in {"context", "history", "save"}
  <2>1. \A m \in ToSet(session.log) : m.turn.send # s
      BY <1>4 DEF IInv, SendsOK, RowsIn, LoggedTurns
  <2> QED
      BY <1>1, <1>3, <2>1
<1>5. CASE req[r].pc \in {"link", "graph", "commit"}
  <2>1. PICK log \in Seq(Message) : \E m \in Message :
          /\ session.log = Append(log, m) /\ m.turn = TurnOf(r, "user")
          /\ \A k \in ToSet(log) : k.turn.send # s
      BY <1>5 DEF CalmRequest, Newest
  <2>2. PICK m \in Message :
          /\ session.log = Append(log, m) /\ m.turn = TurnOf(r, "user")
          /\ \A k \in ToSet(log) : k.turn.send # s
      BY <2>1
  <2>3. Select(log, keep) = log
      BY <1>3, <2>2
  <2>4. Answered(session.log) = Answered(log)
      BY <1>1, <2>2, NewestAnswered
  <2> HIDE DEF keep
  <2>5. session.log' = session.log \/ session.log' = log
      BY <1>1, <2>2, <2>3, SelectAppend
  <2> QED
      BY <2>4, <2>5
<1> QED
    BY <1>1, <1>2, <1>4, <1>5 DEF Phase, Recording

\* What CalmInv says of the session as a whole.
CalmSession ==
    /\ Len(session.events) <= 1
    /\ session.events # <<>> => past.status \in {"resolved", "escalated"}
    /\ NoneRecords => ContextAgrees /\ redis.memory = Window(Answered(session.log))

\* Steps that change neither what Redis and the database say of the session nor
\* the messages answered.
LEMMA SameSession ==
    ASSUME CalmSession, redis' = redis, past' = past,
           session'.active = session.active, session'.events = session.events,
           Answered(session'.log) = Answered(session.log), NoneRecords
    PROVE  CalmSession'
BY DEF CalmSession, ContextAgrees

\* A calm step keeps window, context and log together.
LEMMA CalmKept ==
    ASSUME IInv, Alone, Unborn, CalmInv, NEW r \in Request, Step(r), Calm'
    PROVE  CalmSession' /\ CalmRequest(r)'
<1> USE PhaseFacts
<1>1. TypeOK /\ session.log \in Seq(Message)
    BY TypeFacts DEF IInv
<1>2. /\ Calm
      /\ \A s \in Request : s # r => req[s].pc = "idle" /\ req'[s] = req[s]
      /\ CreateSession(r) \/ Begin(r) => past' = past
  <2>1. Calm /\ "overlap" \notin past'.upset
      BY <1>1, StepFrame DEF Calm
  <2> QED
      BY <1>1, <2>1, SoloStep
<1>3. CalmSession /\ CalmRequest(r)
    BY <1>2 DEF CalmInv, CalmSession
<1>4. /\ NoneRecords <=> req[r].pc \notin Recording
      /\ NoneRecords' <=> req'[r].pc \notin Recording
    BY <1>2 DEF NoneRecords
<1>5. CASE CreateSession(r)
  <2>1. /\ req[r].pc = "idle" /\ req'[r].pc = "create_context" /\ ~session.exists
        /\ redis' = redis /\ session'.active = session.active
        /\ session'.log = session.log /\ session'.events = session.events
      BY <1>1, <1>5 DEF CreateSession, TypeOK, RequestState
  <2>2. CalmRequest(r)'
      BY <1>2, <1>5, <2>1 DEF CalmRequest, Unborn
  <2>3. CalmSession'
      BY <1>2, <1>3, <1>4, <1>5, <2>1, SameSession
  <2> QED
      BY <2>2, <2>3
<1>6. CASE CreateContext(r)
  <2>1. /\ req[r].pc = "create_context" /\ req'[r].pc = "welcome"
        /\ redis'.context = [status |-> "none", active |-> 0] /\ redis'.memory = redis.memory
        /\ session' = session /\ past' = past
      BY <1>1, <1>6 DEF CreateContext, TypeOK, RequestState
  <2>2. session.active = 0 /\ past.status = "none"
      BY <1>3, <2>1 DEF CalmRequest
  <2>3. CalmRequest(r)'
      BY <1>3, <2>1 DEF CalmRequest
  <2>4. CalmSession'
      BY <1>3, <1>4, <2>1, <2>2 DEF CalmSession, ContextAgrees
  <2> QED
      BY <2>3, <2>4
<1>7. CASE Welcome(r)
  <2> DEFINE m == [turn |-> [send |-> 0, role |-> "assistant"], committed |-> TRUE]
  <2>1. /\ req[r].pc = "welcome" /\ req'[r].pc = "idle"
        /\ redis' = redis /\ past' = past
        /\ session'.active = session.active /\ session'.events = session.events
        /\ session'.log = Append(session.log, m)
      BY <1>1, <1>7 DEF Welcome, TypeOK, Fresh
  <2>2. m \in Message /\ m.turn.send = 0
    <3>1. 0 \in 0..MaxSends
        BY MaxSendsAssumption
    <3> QED
        BY <3>1, RowType
  <2> HIDE DEF m
  <2>3. Answered(session'.log) = Answered(session.log)
      BY <1>1, <2>1, <2>2, AnsweredQuestion
  <2>4. CalmSession'
      BY <1>3, <1>4, <2>1, <2>3, SameSession
  <2>5. CalmRequest(r)'
      BY <2>1 DEF CalmRequest
  <2> QED
      BY <2>4, <2>5
<1>8. CASE Begin(r)
  <2>1. /\ req[r].pc = "idle" /\ req'[r].pc = "context" /\ session.exists
        /\ req'[r].base = session.active
        /\ redis' = redis /\ session' = session
      BY <1>1, <1>8 DEF Begin, LoadSession, TypeOK, Fresh
  <2>2. CalmRequest(r)'
      BY <2>1 DEF CalmRequest
  <2>3. CalmSession'
      BY <1>2, <1>3, <1>4, <1>8, <2>1, SameSession
  <2> QED
      BY <2>2, <2>3
<1>9. CASE ReadContext(r)
  <2>1. /\ req[r].pc = "context" /\ req'[r].pc = "history" /\ req'[r].base = req[r].base
        /\ req'[r].status = IF redis.context = Missing THEN "none" ELSE redis.context.status
        /\ redis' = redis /\ session' = session /\ past' = past
      BY <1>1, <1>9 DEF ReadContext, TypeOK, RequestState
  <2>2. req'[r].status = past.status
    <3>1. ContextAgrees /\ past.status \in TsStatus
        BY <1>1, <1>3, <1>4, <2>1 DEF CalmSession, TypeOK
    <3>2. CASE redis.context = Missing
      <4>1. redis.context.status = "missing" /\ past.status # "missing"
          BY <3>1, <3>2 DEF Missing, TsStatus
      <4> QED
          BY <2>1, <3>1, <3>2, <4>1 DEF ContextAgrees
    <3>3. CASE redis.context # Missing
        BY <2>1, <3>1, <3>3 DEF ContextAgrees
    <3> QED
        BY <3>2, <3>3
  <2>3. CalmRequest(r)'
      BY <1>3, <2>1, <2>2 DEF CalmRequest
  <2>4. CalmSession'
      BY <1>3, <1>4, <2>1, SameSession
  <2> QED
      BY <2>3, <2>4
<1>10. CASE LoadHistory(r)
  <2>1. /\ req[r].pc = "history" /\ req'[r].pc = "save" /\ req'[r].base = req[r].base
        /\ req'[r].status = req[r].status
        /\ redis' = redis /\ session' = session /\ past' = past
      BY <1>1, <1>10 DEF LoadHistory, TypeOK, RequestState
  <2>2. CalmRequest(r)'
      BY <1>3, <2>1 DEF CalmRequest
  <2>3. CalmSession'
      BY <1>3, <1>4, <2>1, SameSession
  <2> QED
      BY <2>2, <2>3
<1>11. CASE SaveUserMessage(r) \/ LinkAttachments(r)
  <2>1. /\ req[r].pc \in {"save", "link"} /\ req'[r].pc \in {"link", "graph"}
        /\ req'[r].base = req[r].base /\ req'[r].status = req[r].status
        /\ redis' = redis /\ past' = past
        /\ session'.active = session.active /\ session'.events = session.events
        /\ session'.exists = session.exists
      BY <1>1, <1>11 DEF SaveUserMessage, LinkAttachments, TypeOK, RequestState
  <2>2. Newest(r)' /\ Answered(session.log') = Answered(session.log)
    <3>1. LinkAttachments(r) => Newest(r)
        BY <1>3 DEF LinkAttachments, CalmRequest
    <3> QED
        BY <1>11, <3>1, SaveNewest, LinkNewest
  <2>3. CalmRequest(r)'
      BY <1>3, <2>1, <2>2 DEF CalmRequest
  <2>4. CalmSession'
      BY <1>3, <1>4, <2>1, <2>2, SameSession
  <2> QED
      BY <2>3, <2>4
<1>12. CASE RunGraph(r)
  <2>1. PICK kb \in KbSettings :
          \E e \in TurnEnds([kb |-> kb, status |-> req[r].status, active |-> req[r].row], Len(tickets)) :
             req' = [req EXCEPT ![r].pc = "commit",
                                ![r].status = e.status,
                                ![r].outcome = e.outcome,
                                ![r].row = IF e.active # 0 THEN e.active ELSE @]
      BY <1>12 DEF RunGraph
  <2>2. PICK e \in TurnEnds([kb |-> kb, status |-> req[r].status, active |-> req[r].row], Len(tickets)) :
             req' = [req EXCEPT ![r].pc = "commit",
                                ![r].status = e.status,
                                ![r].outcome = e.outcome,
                                ![r].row = IF e.active # 0 THEN e.active ELSE @]
      BY <2>1
  <2>3. /\ req[r].pc = "graph" /\ redis' = redis /\ session' = session /\ past' = past
        /\ req'[r].pc = "commit" /\ req'[r].status = e.status /\ req'[r].base = req[r].base
        /\ req'[r].outcome = e.outcome /\ req'[r].send = req[r].send
      BY <1>1, <1>12, <2>2 DEF RunGraph, TypeOK, RequestState
  <2>4. /\ <<req[r].status, e.status>> \in TsFlow
        /\ e.outcome = IF req[r].status # e.status /\ e.status \in {"resolved", "escalated"}
                       THEN e.status ELSE "None"
    <3>1. MayEnd([kb |-> kb, status |-> req[r].status, active |-> req[r].row], e)
        BY <1>1, TypeFacts, EndFacts
    <3> QED
        BY <3>1 DEF MayEnd, StatusMoves, OutcomeNoted
  <2>5. req[r].status = past.status /\ Newest(r) /\ req[r].base = session.active /\ session.exists
      BY <1>3, <2>3 DEF CalmRequest
  <2>6. Newest(r)'
    <3>1. TurnOf(r, "user")' = TurnOf(r, "user")
        BY <2>3 DEF TurnOf
    <3> QED
        BY <2>3, <2>5, <3>1 DEF Newest
  <2>7. CalmRequest(r)'
      BY <2>3, <2>4, <2>5, <2>6 DEF CalmRequest
  <2>8. CalmSession'
      BY <1>3, <1>4, <2>3, SameSession
  <2> QED
      BY <2>7, <2>8
<1>13. CASE CommitExchange(r)
  <2>1. /\ req[r].pc = "commit" /\ req'[r].pc = "record_context" /\ req'[r].role = req[r].role
        /\ req'[r].send = req[r].send /\ req'[r].row = req[r].row /\ req'[r].status = req[r].status
        /\ redis' = redis /\ session'.active = ActiveAfter(r)
        /\ session'.events = IF req[r].outcome = "None" THEN session.events
                             ELSE Append(session.events, req[r].outcome)
        /\ past'.status = req[r].status
        /\ session'.exists = session.exists
      BY <1>1, <1>13 DEF CommitExchange, TypeOK, RequestState
  <2>2. /\ req[r].role = "user" /\ req[r].base = session.active /\ Newest(r)
        /\ <<past.status, req[r].status>> \in TsFlow
        /\ req[r].outcome = IF past.status # req[r].status /\ req[r].status \in {"resolved", "escalated"}
                            THEN req[r].status ELSE "None"
        /\ session.exists
      BY <1>3, <2>1 DEF CalmRequest, IInv, SendsOK, SendOf
  <2>3. session'.active = req[r].row
      BY <2>1, <2>2 DEF ActiveAfter
  <2>4. Answered(session.log') =
            Append(Append(Answered(session.log), TurnOf(r, "user")), TurnOf(r, "assistant"))
      BY <1>13, <2>2, CommitAnswers
  <2>5. Answering(r)'
    <3>1. PICK turns \in Seq(Turn) : turns = Answered(session.log)
        BY <1>1, AnsweredType
    <3>2. redis.memory = Window(turns)
        BY <1>3, <1>4, <2>1, <3>1 DEF CalmSession
    <3>3. TurnOf(r, "user")' = TurnOf(r, "user") /\ TurnOf(r, "assistant")' = TurnOf(r, "assistant")
        BY <2>1 DEF TurnOf
    <3>4. Answered(session.log') = Append(Append(turns, TurnOf(r, "user")'), TurnOf(r, "assistant")')
        BY <2>4, <3>1, <3>3
    <3> QED
        BY <2>1, <2>2, <3>2, <3>4 DEF Answering
  <2>6. CalmRequest(r)'
      BY <2>1, <2>2, <2>3, <2>5 DEF CalmRequest
  <2>7. /\ Len(session'.events) <= 1
        /\ session'.events # <<>> => past'.status \in {"resolved", "escalated"}
    <3>1. /\ session.events \in Seq({"resolved", "escalated"})
          /\ Len(session.events) <= 1
          /\ session.events # <<>> => past.status \in {"resolved", "escalated"}
        BY <1>1, <1>3, TypeFacts DEF CalmSession
    <3>2. CASE req[r].outcome = "None"
      <4>1. session'.events = session.events
          BY <2>1, <3>2
      <4>2. past.status \in {"resolved", "escalated"} => req[r].status = past.status
          BY <2>2 DEF TsFlow
      <4> QED
          BY <2>1, <3>1, <4>1, <4>2
    <3>3. CASE req[r].outcome # "None"
      <4>1. /\ past.status # req[r].status /\ req[r].status \in {"resolved", "escalated"}
            /\ req[r].outcome = req[r].status
          BY <2>2, <3>3
      <4>2. past.status \notin {"resolved", "escalated"}
          BY <2>2, <4>1 DEF TsFlow
      <4>3. session.events = <<>>
          BY <3>1, <4>2
      <4>4. Len(session'.events) = 1
          BY <2>1, <3>3, <4>3
      <4> QED
          BY <2>1, <4>1, <4>4
    <3> QED
        BY <3>2, <3>3
  <2>8. CalmSession'
      BY <1>4, <2>1, <2>7 DEF CalmSession
  <2> QED
      BY <2>6, <2>8
<1>14. CASE RecordContext(r) \/ ReadMemory(r)
  <2>1. /\ session' = session /\ past' = past
        /\ redis'.memory = redis.memory
        /\ req'[r].send = req[r].send /\ req'[r].role = req[r].role
        /\ req'[r].row = req[r].row /\ req'[r].status = req[r].status
        /\ \/ /\ req[r].pc = "record_context" /\ req'[r].pc = "read_memory"
              /\ redis'.context = [status |-> req[r].status, active |-> req[r].row]
           \/ /\ req[r].pc = "read_memory" /\ req'[r].pc = "write_memory"
              /\ redis' = redis /\ req'[r].recent = redis.memory
      BY <1>1, <1>14 DEF RecordContext, ReadMemory, RecordedContext, TypeOK, RequestState
  <2>2. /\ req[r].status = past.status /\ req[r].row = session.active /\ Answering(r)
        /\ req[r].pc # "record_context" =>
              redis.context = [status |-> req[r].status, active |-> req[r].row]
        /\ session.exists
      BY <1>3, <2>1 DEF CalmRequest
  <2>3. Answering(r)'
    <3>1. TurnOf(r, "user")' = TurnOf(r, "user") /\ TurnOf(r, "assistant")' = TurnOf(r, "assistant")
        BY <2>1 DEF TurnOf
    <3>2. req'[r].pc = "write_memory" => req'[r].recent = redis'.memory
        BY <2>1
    <3> QED
        BY <2>1, <2>2, <3>1, <3>2 DEF Answering
  <2>4. CalmRequest(r)'
      BY <2>1, <2>2, <2>3 DEF CalmRequest
  <2>5. CalmSession'
      BY <1>3, <1>4, <2>1 DEF CalmSession
  <2> QED
      BY <2>4, <2>5
<1>15. CASE WriteMemory(r)
  <2> DEFINE u == TurnOf(r, "user")
             a == TurnOf(r, "assistant")
  <2>1. /\ req[r].pc = "write_memory" /\ session' = session /\ past' = past
        /\ redis'.context = redis.context
        /\ redis'.memory = Window(Append(req[r].recent, TurnOf(r, req[r].role)))
        /\ req'[r] = AfterRecord(r)
      BY <1>1, <1>15 DEF WriteMemory, Recorded, TurnOf, TypeOK
  <2>2. /\ req[r].status = past.status /\ req[r].row = session.active /\ Answering(r)
        /\ redis.context = [status |-> req[r].status, active |-> req[r].row]
        /\ session.exists
      BY <1>3, <2>1 DEF CalmRequest
  <2>3. PICK turns \in Seq(Turn) :
          /\ Answered(session.log) = Append(Append(turns, u), a)
          /\ redis.memory = Window(IF req[r].role = "user" THEN turns ELSE Append(turns, u))
          /\ req[r].recent = redis.memory
      BY <2>1, <2>2 DEF Answering
  <2>4. u \in Turn /\ a \in Turn
      BY <1>1, TurnTypes
  <2>5. CASE req[r].role = "user"
    <3>1. /\ req'[r].pc = "record_context" /\ req'[r].role = "assistant"
          /\ req'[r].send = req[r].send
          /\ req'[r].row = req[r].row /\ req'[r].status = req[r].status
        BY <1>1, <2>1, <2>5 DEF AfterRecord, TypeOK, RequestState
    <3>2. u' = u /\ a' = a
        BY <3>1 DEF TurnOf
    <3> HIDE DEF a
    <3>3. redis'.memory = Window(Append(turns, u))
      <4> HIDE DEF u
      <4>1. TurnOf(r, req[r].role) = u
          BY <2>5 DEF u
      <4> QED
          BY <2>1, <2>3, <2>4, <2>5, <4>1, WindowAgain
    <3>4. Answering(r)'
      <4>1. Answered(session'.log) = Append(Append(turns, u'), a')
          BY <2>1, <2>3, <3>2
      <4>2. redis'.memory = Window(Append(turns, u'))
          BY <3>2, <3>3
      <4> QED
          BY <3>1, <4>1, <4>2 DEF Answering, a
    <3>5. CalmRequest(r)'
        BY <2>1, <2>2, <3>1, <3>4 DEF CalmRequest
    <3>6. CalmSession'
        BY <1>3, <1>4, <2>1, <3>1 DEF CalmSession
    <3> QED
        BY <3>5, <3>6
  <2>6. CASE req[r].role # "user"
    <3>1. req'[r].pc = "idle"
        BY <2>1, <2>6 DEF AfterRecord, Fresh
    <3>2. TurnOf(r, req[r].role) = a
        BY <1>1, <2>6, TypeFacts DEF TurnOf
    <3> HIDE DEF u, a
    <3>3. Append(turns, u) \in Seq(Turn)
        BY <2>4, AppendProperties
    <3>4. redis'.memory = Window(Append(Append(turns, u), a))
        BY <2>1, <2>3, <2>4, <2>6, <3>2, <3>3, WindowAgain
    <3>5. CalmSession'
        BY <1>3, <2>1, <2>2, <2>3, <3>4 DEF CalmSession, ContextAgrees
    <3>6. CalmRequest(r)'
        BY <3>1 DEF CalmRequest
    <3> QED
        BY <3>5, <3>6
  <2> QED
      BY <2>5, <2>6
<1>16. CASE Abort(r)
  <2>1. /\ req'[r].pc = "idle" /\ redis' = redis
        /\ session'.active = session.active /\ session'.events = session.events
      BY <1>1, <1>16 DEF Abort, TypeOK, Fresh
  <2>2. req[r].pc \notin Recording /\ past' = past
      BY <1>1, <1>16 DEF Abort, Calm, TypeOK
  <2>3. Answered(session'.log) = Answered(session.log)
      BY <1>3, <1>16, <2>2, AbortAnswered
  <2>4. CalmSession'
      BY <1>3, <1>4, <2>1, <2>2, <2>3, SameSession
  <2>5. CalmRequest(r)'
      BY <2>1 DEF CalmRequest
  <2> QED
      BY <2>4, <2>5
<1> QED
    BY <1>5, <1>6, <1>7, <1>8, <1>9, <1>10, <1>11, <1>12, <1>13, <1>14, <1>15, <1>16
    DEF Step, Continue

\* Nothing is known of a session that does not exist.
LEMMA UnbornKept ==
    ASSUME IInv, Unborn, [Next]_vars
    PROVE  Unborn'
<1> SUFFICES ASSUME ~session'.exists
             PROVE  session'.active = 0 /\ session'.log = <<>> /\ session'.events = <<>>
                    /\ redis' = Empty /\ past'.status = "none" /\ Quiet'
    BY DEF Unborn
<1>1. TypeOK
    BY DEF IInv
<1>2. ASSUME NEW r \in Request, Step(r)
      PROVE  FALSE
  <2>1. ~session.exists
      BY <1>1, <1>2, StepFrame
  <2>2. req[r].pc = "idle"
      BY <2>1 DEF Unborn, Quiet
  <2>3. CASE CreateSession(r)
      BY <1>1, <2>3 DEF CreateSession, TypeOK
  <2>4. CASE Begin(r)
      BY <2>1, <2>4 DEF Begin, LoadSession
  <2> QED
      BY <1>1, <1>2, <2>2, <2>3, <2>4, StepFrame DEF Step
<1>3. CASE LoseRedis
    BY <1>3 DEF LoseRedis
<1>4. CASE UNCHANGED vars
    BY <1>4 DEF vars, Unborn, Quiet
<1> QED
    BY <1>2, <1>3, <1>4 DEF Next, Step

\* Every step keeps the calm invariant.
LEMMA CalmInvKept ==
    ASSUME IInv, Alone, Unborn, CalmInv, [Next]_vars
    PROVE  CalmInv'
<1>1. CalmInv <=> (Calm => CalmSession /\ \A r \in Request : CalmRequest(r))
    BY DEF CalmInv, CalmSession
<1>2. CalmInv' <=> (Calm' => CalmSession' /\ \A r \in Request : CalmRequest(r)')
    BY DEF CalmInv, CalmSession
<1>3. ASSUME NEW r \in Request, Step(r), Calm'
      PROVE  CalmSession' /\ \A s \in Request : CalmRequest(s)'
  <2>1. \A s \in Request : s # r => req'[s].pc = "idle"
      BY <1>3, SoloStep DEF IInv, Calm
  <2>2. \A s \in Request : s # r => CalmRequest(s)'
      BY <2>1, PhaseFacts DEF CalmRequest
  <2> QED
      BY <1>3, <2>2, CalmKept
<1>4. CASE LoseRedis
  <2>1. "lost" \in past'.upset
      BY <1>4 DEF LoseRedis, IInv, TypeOK
  <2> QED
      BY <1>2, <2>1 DEF Calm
<1>5. CASE UNCHANGED vars
  <2>1. Calm' = Calm /\ CalmSession' = CalmSession
      BY <1>5 DEF vars, Calm, CalmSession, NoneRecords, ContextAgrees
  <2>2. \A r \in Request : CalmRequest(r)' = CalmRequest(r)
      BY <1>5 DEF vars, CalmRequest, Newest, Answering, TurnOf
  <2> QED
      BY <1>1, <1>2, <2>1, <2>2
<1> QED
    BY <1>2, <1>3, <1>4, <1>5 DEF Next, Step

\* And it holds before the first request.
LEMMA InitCalm == Init => CInv
<1> SUFFICES ASSUME Init
             PROVE  CInv
    OBVIOUS
<1>1. /\ session.log = <<>> /\ session.active = 0 /\ session.events = <<>>
      /\ redis = Empty /\ redis.memory = <<>> /\ redis.context = Missing
      /\ redis.context.status # "guiding"
      /\ past.status = "none" /\ past.upset = {}
      /\ \A r \in Request : req[r].pc = "idle"
    BY DEF Init, Empty, Missing, Fresh
<1>2. Alone /\ Unborn
    BY <1>1 DEF Alone, Unborn, Quiet
<1>3. GuideInv
    BY <1>1, PhaseFacts DEF GuideInv, GuideRequest
<1>4. Answered(<<>>) = <<>> /\ Window(<<>>) = <<>>
  <2>1. Turns(<<>>) = <<>>
      BY DEF Turns
  <2>2. Committed(<<>>) = <<>>
      BY <2>1, SelectEmpty DEF Committed
  <2>3. Answered(<<>>) = <<>>
      BY <2>2, SelectEmpty DEF Answered
  <2>4. PICK q \in Seq(Turn) : q = <<>> /\ Len(q) = 0
      BY EmptySeq
  <2>5. /\ Window(q) \in Seq(Turn)
        /\ Len(Window(q)) = IF Len(q) < MaxRecentTurns THEN Len(q) ELSE MaxRecentTurns
      BY WindowType
  <2>6. Len(Window(q)) = 0
      BY <2>4, <2>5, MaxRecentTurnsAssumption
  <2> QED
      BY <2>3, <2>4, <2>5, <2>6, EmptySeq
<1>5. CalmInv
  <2>1. CalmSession
      BY <1>1, <1>4 DEF CalmSession, ContextAgrees
  <2>2. \A r \in Request : CalmRequest(r)
      BY <1>1, PhaseFacts DEF CalmRequest
  <2> QED
      BY <2>1, <2>2 DEF CalmInv, CalmSession
<1> QED
    BY <1>2, <1>3, <1>5 DEF CInv

\* The invariant of a session whose requests neither overlap nor die while they
\* record.
THEOREM CalmInvariance == Spec => []CInv
<1>1. IInv /\ CInv /\ [Next]_vars => CInv'
    BY AloneKept, UnbornKept, CalmInvKept, GuideInvKept DEF CInv, IInv
<1> QED
    BY <1>1, InitCalm, Invariance, PTL DEF Spec

\* Between requests, a session nothing has disturbed is what Postgres says in
\* Redis too: the window is the tail of its completed exchanges, the context
\* has its ticket and status; and one that still is guided has no ticket.
THEOREM CalmSessionsCohere == Spec => []CoherentSession
<1>1. IInv /\ CInv => CoherentSession
  <2> SUFFICES ASSUME IInv, CInv, Quiet
               PROVE  CoherentSession
      BY DEF CoherentSession, CalmSessionAgrees, GuidingHasNoTicket
  <2>1. NoneRecords
      BY PhaseFacts DEF NoneRecords, Quiet
  <2>2. GuidingHasNoTicket
      BY <2>1 DEF GuidingHasNoTicket, CInv, GuideInv
  <2>3. ASSUME Calm
        PROVE  LET answered == Answered(session.log)
                   old == IF Len(answered) < MaxRecentTurns THEN 0 ELSE Len(answered) - MaxRecentTurns
               IN  /\ redis.memory = SubSeq(answered, old + 1, Len(answered))
                   /\ answered # <<>> =>
                          redis.context = [status |-> past.status, active |-> session.active]
    <3>1. ContextAgrees /\ redis.memory = Window(Answered(session.log))
        BY <2>1, <2>3 DEF CInv, CalmInv
    <3>2. Len(Answered(session.log)) \in Nat
        BY AnsweredType, TypeFacts, LenProperties DEF IInv
    <3> DEFINE n == Len(Answered(session.log))
    <3>3. (IF n < MaxRecentTurns THEN 0 ELSE n - MaxRecentTurns) + 1 =
              IF n > MaxRecentTurns THEN n - MaxRecentTurns + 1 ELSE 1
      <4> HIDE DEF n
      <4>1. n \in Nat
          BY <3>2 DEF n
      <4> QED
          BY <4>1, MaxRecentTurnsAssumption
    <3>4. redis.memory = SubSeq(Answered(session.log),
                                (IF n < MaxRecentTurns THEN 0 ELSE n - MaxRecentTurns) + 1, n)
        BY <3>1, <3>3 DEF Window
    <3> QED
        BY <3>1, <3>4 DEF ContextAgrees
  <2> QED
      BY <2>2, <2>3 DEF CoherentSession, CalmSessionAgrees
<1> QED
    BY <1>1, Invariance, CalmInvariance, PTL

\* A calm session ends self-help once, in the figures too.
THEOREM DeflectionCounted == Spec => []DeflectionCountedOnce
<1>1. CInv => DeflectionCountedOnce
    BY DEF CInv, CalmInv, DeflectionCountedOnce
<1> QED
    BY <1>1, CalmInvariance, PTL
=============================================================================
