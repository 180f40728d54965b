---------------------------- MODULE ChatService ----------------------------
(***************************************************************************)
(* The API's chat service: one chat session, and the requests that create  *)
(* it and send messages to it, whichever tab or retry they come from.      *)
(*                                                                         *)
(* A request is a coroutine.  It can be overtaken, cancelled or die at     *)
(* each await, and nothing serialises two requests of one session; an      *)
(* action is the code between two awaits that change or read shared state. *)
(* Postgres is session (a request's own uncommitted rows included), Redis  *)
(* is redis, the help desk is tickets.  A turn of the support graph is one *)
(* action, bounded by TurnContract, which SupportGraph keeps.              *)
(*                                                                         *)
(* A message is the number of the send it belongs to and a role; status    *)
(* labels, cards, counters and time stamps are left out.                   *)
(***************************************************************************)
EXTENDS TurnContract, Selection, SequencesExt

CONSTANTS
    Request,            \* requests that may be in flight at the same time
    KbSettings,         \* the values kb_rag_enabled takes over restarts
    MaxRecentTurns,     \* RedisSessionStore.MAX_RECENT_TURNS
    MaxSends,           \* bound: messages sent in a behaviour
    MaxTickets          \* bound: tickets the help desk accepts in a behaviour

ASSUME KbSettingsAssumption == KbSettings \subseteq BOOLEAN
ASSUME MaxRecentTurnsAssumption == MaxRecentTurns \in Nat \ {0}
ASSUME MaxSendsAssumption == MaxSends \in Nat
ASSUME MaxTicketsAssumption == MaxTickets \in Nat

VARIABLES
    session,    \* Postgres: the ChatSession row, its messages and events
    redis,      \* Redis: the context and memory keys of the session
    tickets,    \* the tickets the help desk holds: do they have the record?
    req,        \* Request -> the local state of the request
    sends,      \* messages sent so far
    past        \* for the properties: the status the last turn committed left,
                \* and what has disturbed the session

vars == <<session, redis, tickets, req, sends, past>>

-----------------------------------------------------------------------------
(***************************************************************************)
(* Data                                                                    *)
(***************************************************************************)
Turn == [send : 0..MaxSends, role : {"user", "assistant"}]

\* Rows are numbered when they are inserted, not when they are committed, so
\* log, in the order of seq, holds both.
Message == [turn : Turn, committed : BOOLEAN]

\* SessionContext: what Redis keeps of the session; Missing when the key is.
Missing == [status |-> "missing", active |-> 0]

Context == [status : TsStatus, active : Nat] \cup {Missing}

Empty == [context |-> Missing, memory |-> <<>>]

Phase ==
    { "idle", "create_context", "welcome",
      "context", "history", "save", "link", "graph", "commit",
      "record_context", "read_memory", "write_memory" }

\* row is the request's ChatSession object, loaded once and never refreshed;
\* base what the row had when it was loaded.
Fresh ==
    [ pc |-> "idle", send |-> 0, files |-> FALSE, base |-> 0, row |-> 0,
      status |-> "none", recent |-> <<>>, role |-> "user", outcome |-> "None" ]

RequestState ==
    [ pc : Phase, send : 0..MaxSends, files : BOOLEAN, base : Nat, row : Nat,
      status : TsStatus, recent : Seq(Turn), role : {"user", "assistant"},
      outcome : {"None", "resolved", "escalated"} ]

Disturbance == {"overlap", "unrecorded", "lost"}

Turns(log) == [i \in DOMAIN log |-> log[i].turn]

CommittedRows == {m \in Message : m.committed}
RowsOf(send) == {m \in Message : m.turn.send = send}

\* What a query of the request sees: committed rows and its own.
Visible(send, log) == Turns(Select(log, CommittedRows \cup RowsOf(send)))

Committed(log) == Turns(Select(log, CommittedRows))

Quiet == \A r \in Request : req[r].pc = "idle"

\* Mutant: the window keeps the oldest entries.
Window_KeepsOldest(turns) ==
    SubSeq(turns, 1, IF Len(turns) < MaxRecentTurns THEN Len(turns) ELSE MaxRecentTurns)

\* Mutant: there is no window.
Window_All(turns) == turns

\* recent_turns[-MAX_RECENT_TURNS:]
Window(turns) ==
    SubSeq(turns, IF Len(turns) > MaxRecentTurns THEN Len(turns) - MaxRecentTurns + 1 ELSE 1,
           Len(turns))

-----------------------------------------------------------------------------
(***************************************************************************)
(* create_session: three awaits.  The session can be listed, and written   *)
(* to, from the first commit on.                                           *)
(***************************************************************************)
Arrive ==
    past' = IF Quiet THEN past ELSE [past EXCEPT !.upset = @ \cup {"overlap"}]

CreateSession(r) ==
    /\ req[r].pc = "idle"
    /\ ~session.exists
    /\ session' = [session EXCEPT !.exists = TRUE]
    /\ req' = [req EXCEPT ![r].pc = "create_context"]
    /\ Arrive
    /\ UNCHANGED <<redis, tickets, sends>>

CreateContext(r) ==
    /\ req[r].pc = "create_context"
    /\ redis' = [redis EXCEPT !.context = [status |-> "none", active |-> 0]]
    /\ req' = [req EXCEPT ![r].pc = "welcome"]
    /\ UNCHANGED <<session, tickets, sends, past>>

Welcome(r) ==
    /\ req[r].pc = "welcome"
    /\ session' = [session EXCEPT
                      !.log = Append(@, [turn |-> [send |-> 0, role |-> "assistant"],
                                         committed |-> TRUE])]
    /\ req' = [req EXCEPT ![r] = Fresh]
    /\ UNCHANGED <<redis, tickets, sends, past>>

-----------------------------------------------------------------------------
(***************************************************************************)
(* send_message and send_message_stream                                    *)
(***************************************************************************)

\* _get_owned_session.
LoadSession(r, files) ==
    /\ req[r].pc = "idle"
    /\ session.exists
    /\ sends < MaxSends
    /\ sends' = sends + 1
    /\ req' = [req EXCEPT ![r] = [Fresh EXCEPT !.pc = "context",
                                               !.send = sends + 1,
                                               !.files = files,
                                               !.base = session.active,
                                               !.row = session.active]]
    /\ Arrive
    /\ UNCHANGED <<session, redis, tickets>>

\* get_context: without the key there is no troubleshoot progress.
ReadContext(r) ==
    /\ req[r].pc = "context"
    /\ req' = [req EXCEPT ![r].pc = "history",
                          ![r].status = IF redis.context = Missing THEN "none"
                                        ELSE redis.context.status]
    /\ UNCHANGED <<session, redis, tickets, sends, past>>

\* _load_graph_history: Redis if it has any turn, else the database.
LoadHistory(r) ==
    /\ req[r].pc = "history"
    /\ req' = [req EXCEPT ![r].pc = "save",
                          ![r].recent = IF redis.memory # <<>> THEN redis.memory
                                        ELSE Visible(req[r].send, session.log)]
    /\ UNCHANGED <<session, redis, tickets, sends, past>>

\* Mutant: the history is read again after the flush.
SaveUserMessage_ThenHistory(r) ==
    LET log == Append(session.log, [turn |-> [send |-> req[r].send, role |-> "user"],
                                    committed |-> FALSE])
    IN  /\ req[r].pc = "save"
        /\ session' = [session EXCEPT !.log = log]
        /\ req' = [req EXCEPT ![r].pc = IF req[r].files THEN "link" ELSE "graph",
                              ![r].recent = Visible(req[r].send, log)]
        /\ UNCHANGED <<redis, tickets, sends, past>>

\* The user's message is flushed: it has its seq and is not committed.
SaveUserMessage(r) ==
    /\ req[r].pc = "save"
    /\ session' = [session EXCEPT
                      !.log = Append(@, [turn |-> [send |-> req[r].send, role |-> "user"],
                                         committed |-> FALSE])]
    /\ req' = [req EXCEPT ![r].pc = IF req[r].files THEN "link" ELSE "graph"]
    /\ UNCHANGED <<redis, tickets, sends, past>>

\* A commit makes every row of the request's transaction permanent.
CommitRows(send, log) ==
    [i \in DOMAIN log |-> [log[i] EXCEPT !.committed = @ \/ log[i].turn.send = send]]

\* link_to_message commits, and the user's message with the links.
LinkAttachments(r) ==
    /\ req[r].pc = "link"
    /\ session' = [session EXCEPT !.log = CommitRows(req[r].send, @)]
    /\ req' = [req EXCEPT ![r].pc = "graph"]
    /\ UNCHANGED <<redis, tickets, sends, past>>

-----------------------------------------------------------------------------
(***************************************************************************)
(* The turn of the graph.  What it did at the help desk stays done,        *)
(* whatever becomes of the request.  An exception of the graph is Abort.   *)
(***************************************************************************)
RunGraph(r) ==
    /\ req[r].pc = "graph"
    /\ \E kb \in KbSettings :
       \E e \in TurnEnds([kb |-> kb, status |-> req[r].status, active |-> req[r].row],
                        Len(tickets)) :
          /\ e.made # 0 => Len(tickets) < MaxTickets
          /\ tickets' = IF e.made # 0 THEN Append(tickets, e.troubled) ELSE tickets
          /\ req' = [req EXCEPT ![r].pc = "commit",
                                ![r].status = e.status,
                                ![r].outcome = e.outcome,
                                ![r].row = IF e.active # 0 THEN e.active ELSE @]
    /\ UNCHANGED <<session, redis, sends, past>>

-----------------------------------------------------------------------------
(***************************************************************************)
(* _finalize_message_exchange: one commit, then four calls of Redis, each  *)
(* an await.                                                               *)
(***************************************************************************)

\* Mutant: the ticket of the request's row is written whether it changed or not.
ActiveAfter_Always(r) == req[r].row

\* The UPDATE names active_ticket_number only if the object's differs from
\* what was loaded.
ActiveAfter(r) ==
    IF req[r].row # req[r].base THEN req[r].row ELSE session.active

\* Mutant: the exchange is flushed and not committed.
Exchange_Flushed(r) ==
    Append(session.log, [turn |-> [send |-> req[r].send, role |-> "assistant"],
                         committed |-> FALSE])

Exchange(r) ==
    CommitRows(req[r].send,
               Append(session.log, [turn |-> [send |-> req[r].send, role |-> "assistant"],
                                    committed |-> FALSE]))

CommitExchange(r) ==
    /\ req[r].pc = "commit"
    /\ session' = [session EXCEPT
                      !.active = ActiveAfter(r),
                      !.log = Exchange(r),
                      !.events = IF req[r].outcome = "None" THEN @
                                 ELSE Append(@, req[r].outcome)]
    /\ req' = [req EXCEPT ![r].pc = "record_context"]
    /\ past' = [past EXCEPT !.status = req[r].status]
    /\ UNCHANGED <<redis, tickets, sends>>

\* Mutant: the answer's record_turn is not given the troubleshoot progress.
RecordedContext_Partial(r) ==
    [status |-> IF req[r].role = "user" THEN req[r].status ELSE "none",
     active |-> req[r].row]

RecordedContext(r) == [status |-> req[r].status, active |-> req[r].row]

\* record_turn, once for the user's message and once for the answer.
RecordContext(r) ==
    /\ req[r].pc = "record_context"
    /\ redis' = [redis EXCEPT !.context = RecordedContext(r)]
    /\ req' = [req EXCEPT ![r].pc = "read_memory"]
    /\ UNCHANGED <<session, tickets, sends, past>>

ReadMemory(r) ==
    /\ req[r].pc = "read_memory"
    /\ req' = [req EXCEPT ![r].pc = "write_memory", ![r].recent = redis.memory]
    /\ UNCHANGED <<session, redis, tickets, sends, past>>

Recorded(r) == [send |-> req[r].send, role |-> req[r].role]

AfterRecord(r) ==
    IF req[r].role = "user"
    THEN [req[r] EXCEPT !.pc = "record_context", !.role = "assistant"]
    ELSE Fresh

WriteMemory(r) ==
    /\ req[r].pc = "write_memory"
    /\ redis' = [redis EXCEPT !.memory = Window(Append(req[r].recent, Recorded(r)))]
    /\ req' = [req EXCEPT ![r] = AfterRecord(r)]
    /\ UNCHANGED <<session, tickets, sends, past>>

-----------------------------------------------------------------------------
(***************************************************************************)
(* Failures                                                                *)
(***************************************************************************)
Recording == {"record_context", "read_memory", "write_memory"}

\* The request ends at an await: an exception (Postgres, Redis, the graph, a
\* refused attachment), a client that went away, a process that died.  What
\* its transaction has not committed is rolled back.
Abort(r) ==
    /\ req[r].pc # "idle"
    /\ session' = [session EXCEPT
                      !.log = Select(@, CommittedRows \cup (Message \ RowsOf(req[r].send)))]
    /\ req' = [req EXCEPT ![r] = Fresh]
    /\ past' = IF req[r].pc \in Recording
               THEN [past EXCEPT !.upset = @ \cup {"unrecorded"}] ELSE past
    /\ UNCHANGED <<redis, tickets, sends>>

\* Redis is flushed or restarted, or a key outlives its TTL: the keys expire
\* each on its own.
LoseRedis ==
    /\ session.exists
    /\ redis' \in {Empty, [redis EXCEPT !.context = Missing], [redis EXCEPT !.memory = <<>>]}
    /\ redis' # redis
    /\ past' = [past EXCEPT !.upset = @ \cup {"lost"}]
    /\ UNCHANGED <<session, tickets, req, sends>>

-----------------------------------------------------------------------------
Begin(r) == \E files \in BOOLEAN : LoadSession(r, files)

Continue(r) ==
    \/ CreateContext(r) \/ Welcome(r)
    \/ ReadContext(r) \/ LoadHistory(r) \/ SaveUserMessage(r) \/ LinkAttachments(r)
    \/ RunGraph(r) \/ CommitExchange(r)
    \/ RecordContext(r) \/ ReadMemory(r) \/ WriteMemory(r)

Init ==
    /\ session = [exists |-> FALSE, active |-> 0, log |-> <<>>, events |-> <<>>]
    /\ redis = Empty
    /\ tickets = <<>>
    /\ req = [r \in Request |-> Fresh]
    /\ sends = 0
    /\ past = [status |-> "none", upset |-> {}]

Next ==
    \/ \E r \in Request : CreateSession(r) \/ Begin(r) \/ Continue(r) \/ Abort(r)
    \/ LoseRedis

Spec == Init /\ [][Next]_vars

-----------------------------------------------------------------------------
(***************************************************************************)
(* Properties                                                              *)
(***************************************************************************)

\* The database, Redis and the requests hold values of their types.
TypeOK ==
    /\ session \in [exists : BOOLEAN, active : Nat, log : Seq(Message),
                    events : Seq({"resolved", "escalated"})]
    /\ redis \in [context : Context, memory : Seq(Turn)]
    /\ Len(redis.memory) <= MaxRecentTurns
    /\ tickets \in Seq(BOOLEAN)
    /\ req \in [Request -> RequestState]
    /\ sends \in 0..MaxSends
    /\ past \in [status : TsStatus, upset : SUBSET Disturbance]

\* Redis never runs ahead of Postgres: the window holds no message that is not
\* committed, so nothing rolled back can reach a later turn (record_turn comes
\* after the commit).
MemoryIsCommitted ==
    ToSet(redis.memory) \subseteq ToSet(Committed(session.log))

\* However requests interleave, the window holds a message at most once, and a
\* question before its answer: an update may be lost, never doubled.
MemoryIsOrdered ==
    \A i, j \in DOMAIN redis.memory :
        i < j /\ redis.memory[i].send = redis.memory[j].send
            => redis.memory[i].role = "user" /\ redis.memory[j].role = "assistant"

\* Nor does Redis name a ticket before Postgres has one for the session, and
\* both name only tickets the help desk gave out.
RedisTicketIsCommitted ==
    /\ redis.context.active # 0 => session.active # 0
    /\ {session.active, redis.context.active} \subseteq 0..Len(tickets)

\* What Redis holds can be trusted as far as it goes, whatever requests crossed
\* or died: nothing in it is ahead of Postgres, doubled or out of order.
RedisFollowsPostgres == MemoryIsCommitted /\ MemoryIsOrdered /\ RedisTicketIsCommitted

\* The graph is never shown the message it is to answer as history: the
\* history is read before the message is flushed.
QuestionIsNotHistory ==
    \A r \in Request :
        req[r].pc = "graph" =>
            \A i \in DOMAIN req[r].recent : req[r].recent[i].send # req[r].send

\* A session that got a ticket never loses it again, whatever a request that
\* loaded the row before knows.
ActiveTicketKept == [][session.active # 0 => session.active' # 0]_vars

Calm == past.upset = {}

\* The messages of exchanges that were completed, in the order of seq.
Answered(log) ==
    Select(Committed(log),
           {t \in Turn : t.send # 0 /\ [send |-> t.send, role |-> "assistant"] \in ToSet(Committed(log))})

\* Unless requests overlapped, Redis lost a key or a request died between its
\* commit and its last write, Redis is what Postgres says between requests:
\* the window is the tail of the completed exchanges, the context has the
\* session's ticket and the status of its last turn.
CalmSessionAgrees ==
    LET answered == Answered(session.log)
        old == IF Len(answered) < MaxRecentTurns THEN 0 ELSE Len(answered) - MaxRecentTurns
    IN  (Calm /\ Quiet) =>
            /\ redis.memory = SubSeq(answered, old + 1, Len(answered))
            /\ answered # <<>> =>
                   redis.context = [status |-> past.status, active |-> session.active]

\* As long as requests do not overlap and finish what they committed, self-help
\* and a ticket exclude each other, even when Redis forgets.
GuidingHasNoTicket ==
    (past.upset \subseteq {"lost"} /\ Quiet /\ FALSE \notin KbSettings) =>
        ~(redis.context.status = "guiding" /\ session.active # 0)

\* What a session is between requests, as far as nothing disturbed it.
CoherentSession == CalmSessionAgrees /\ GuidingHasNoTicket

\* A calm session is counted in the deflection figures once at most.
DeflectionCountedOnce == Calm => Len(session.events) <= 1

-----------------------------------------------------------------------------
(***************************************************************************)
(* What the documents say and the code does not keep                       *)
(***************************************************************************)

\* "Sessions with an active ticket skip L1 troubleshoot (attachment / status
\* flows continue normally)" (solution architecture): no turn of a session
\* with a ticket is run while the knowledge base still guides it.
TicketSessionsServed ==
    \A r \in Request :
        req[r].pc = "graph" => ~(req[r].status = "guiding" /\ req[r].row # 0)
=============================================================================
