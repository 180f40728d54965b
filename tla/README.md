# A verification project for tech_support_ai

tech_support_ai is a support assistant: a chat in which a language model
understands what the user wants, a knowledge base lets the user help
themselves, and a policy decides whether a ticket may be filed at the help
desk (Zammad). Administrators keep the handbooks of the knowledge base. This
directory holds TLA+ modules of the system, the TLC runs that check them and
proofs checked by TLAPS. Paths below are relative to the repository's root
(`src/` there).

## 1. Inventory

| component | where | state it keeps | operations |
|---|---|---|---|
| support graph | `packages/agents`: `graph.py`, `runner.py`, `nodes/` | the state of a turn; the session's troubleshoot status and steps | a turn: conversation, troubleshoot, orchestrate, ticket_tool, respond |
| orchestration | `packages/orchestration` | none | validate, build_command |
| chat service | `apps/api/.../chat_service.py`, `redis_store.py`, `db/models.py` | Postgres: session, messages, deflection events; Redis: context and memory of a session | create_session, send_message, send_message_stream, listing |
| attachments | `attachment_service.py`, `packages/storage` | rows in Postgres, objects in the store | upload, link_to_message |
| help desk adapter, Zammad client | `packages/ticketing`, `packages/zammad-client` | the attempts of a request; at the help desk: tickets, articles | execute, _request |
| handbook administration, ingestion, store | `kb_service.py`, `packages/knowledge` | document and job rows, objects, chunks in the vector store | upload, update, publish, reindex, delete |
| web chat client | `apps/web/src/hooks/useChatSession.ts`, `api/`, `components/` | session, messages and flags of the screen, files to send, the stored session id | bootstrap, handleSend, startNewSession, uploads |
| admin console | `apps/admin/src` | the tab; the dashboard's period, page and drawer; the list of handbooks, operations under way, drawer | sign in and out, load, openTranscript, upload, publish, reindex, remove, search, preview |
| language models, retrieval | `packages/agents`: `llm*.py`, `providers/`, `kb.py`, `rag_guidance.py` | none | analyse, retrieve, guide |
| routers, analytics, scripts, generated documentation site | `apps/api/.../routers`, `scripts`, `site` | none of their own | parsing, reading, set-up |

**How they interact.** The web client sends a message, plainly or as a stream of
events; the chat service reads the session's context and history from Redis,
inserts the message, runs one turn of the graph, commits the exchange to Postgres
and then writes context and memory to Redis; the page then asks for messages,
context and session again. The graph asks the model, retrieval and, if the policy
accepts, the help desk through the adapter and the client. Nothing but the rows
and keys of the session connects two turns; there is no lock per session.
Administrators change handbooks through the console; retrieval reads the chunks
of those that the vector store calls published.

**What is hard.** Everything on the server is a coroutine that may be overtaken,
cancelled or killed at each `await`, and everything in the pages a chain of
fetches that overlap. Postgres, Redis, the help desk, the object store and the
vector store are written one after the other with no common transaction. Redis
may forget. Requests to the help desk are retried after timeouts, when they may
have been executed already. The status that decides between self-help and ticket
is moved by three nodes and kept in a store that is written last. What a page
shows comes from several answers that may cross. PROJECT.json lists 40 such
hazards, each at its line; 36 have a property that would catch them.

**What makes each component correct.**

- Graph: no ticket without the policy's approval; self-help before a ticket;
  the engineer gets the troubleshooting record; the user is told of a ticket
  exactly if there is one; each turn ends with an answer, and as its caller expects.
- Chat service: Redis never runs ahead of Postgres; a session that has a ticket
  keeps it; window and context agree with Postgres when nothing went wrong.
- Zammad client: one effect per command; "done" is only said of what was done.
- Handbooks: what is retrieved is what is published, or becomes so when an
  operation succeeds undisturbed; requests do not wait for each other in a circle.
- Web client: the screen belongs to one session, which a reload comes back to; a
  message is shown or an error is; the stream's reader hears what was said, however
  it was cut.
- Admin console: what is on the screen belongs to the title over it; spinners
  stand for work.

## 2. Modules

| module | models | about |
|---|---|---|
| `Policy` | `policy.py`, `engine.py`, `workflow.py`, `models.py` | intents, validation and commands, as operators |
| `SupportGraph` | `graph.py`, `runner.py`, `nodes/` | concurrent turns, an action per node and per way through it |
| `TicketGate` | abstract | what the graph promises the help desk: ask, approve, file, or end |
| `TurnContract` | what a turn may leave behind, as seen by its caller | used by both neighbours: SupportGraph keeps it, ChatService assumes it |
| `ChatService` | `chat_service.py`, `redis_store.py`, `link_to_message` | requests of one session, Postgres, Redis, the help desk's tickets |
| `ZammadClient` | `zammad_adapter.py`, `client.py` | commands, attempts, the network, the help desk |
| `AtMostOnce` | abstract | what a command promises its caller |
| `ThoughtStream` | `send_message_stream`, `create_message_stream`, `streamParser.ts`, `sendMessageStream` | one streamed message, from the generator of the API to the promise in the page |
| `Exchange` | abstract | what sending a message promises the page |
| `ChatClient` | `useChatSession.ts`, `Composer.tsx`, `ChatShell.tsx`, `sessionStorage.ts` and the API's sessions | the chat page: entering a session, sending, uploading, other tabs |
| `AdminShell`, `Dashboard`, `Configuration` | `App.tsx` and `auth.ts`, `DashboardTab.tsx`, `ConfigurationTab.tsx` | the admin console's parts |
| `AdminConsole` | `App.tsx` | their composition: one tab is mounted at a time |
| `KbLifecycle` | `kb_service.py`, `ingest.py`, `store.py` | requests on one handbook: row, source, chunks, locks |
| `Selection` | the queries' `where` and `filter` | the rows of a sequence that are in a set; used by `ChatService`, `ChatClient` and `ThoughtStream` |
| `MC...` | | symmetry and sets of constants for TLC |
| `...Proofs` | | theorems: one module for each component, and `SelectionProofs` about selections |

The composition is assume/guarantee. ChatService does not contain the graph:
its action `RunGraph` takes any end of a turn that `TurnContract!TurnEnds`
admits, and the invariant `KeepsTurnContract` of SupportGraph says that each turn
of the graph ends in one of them. Likewise SupportGraph takes any outcome of a
command, and `ImplementsAtMostOnce` of ZammadClient says what an outcome means;
ChatClient takes an answer only of a committed exchange and a failure of any,
which is what `ImplementsExchange` of ThoughtStream shows of a streamed message
(an ordinary one is answered after the commit); and Configuration knows a handbook
by its status, what happens to it inside the API being KbLifecycle's. The admin
console is composed outright: `AdminConsole` extends its three parts.

### Correspondence to the code

*SupportGraph.* `state[t]` is the `SupportGraphState` of the turn thread `t` runs,
its `pc` the node to run next. One action runs one node whole, because LangGraph commits the update
of a node when it returns; the edges (`RouteAfter...`) are evaluated with it.
`Cancel` may end a turn before any node: the client went away, the process died,
an exception left the graph. What the model says, what retrieval finds and how
the guidance is judged are chosen freely from what the schemas admit. The number
of attachments, the confidence (in hundredths) and the number of steps come from
small sets. A ticket is a record of what the properties ask: which turn filed it,
with how many files, whether it carries the escalation's record.

*ChatService.* One action is the code between two awaits that touch something
shared. A request's `ChatSession` object is `row`, loaded once and never
refreshed, and `base` what it was at that time: SQLAlchemy's UPDATE names a column
only if it differs. Messages are numbered when they are inserted (`seq`) and may
be rolled back, so the log holds committed and uncommitted rows and a query sees
the committed ones and the request's own. `Abort` may happen at each await.
`LoseRedis` drops either key or both: they expire separately. `past` exists for
the properties only.

*ZammadClient.* A coroutine per command; its requests travel in `wire`, its
answers in `answers`; `effects` are the POSTs that the help desk executed. A 4xx
(`Refuse`, "refused") has no effect; a 500 may come before the effect or after it
(`Refuse` or `Serve`, "failed"), and the client repeats neither. The network is external and does what networks do: it loses requests and answers,
and delays a request beyond the client's timeout or a gateway's 502 to 504.

*ThoughtStream.* The text on the wire is a sequence of symbols, five to an event,
so that a read may end anywhere: in the mark, in the middle of the JSON, between
the two ends of line. `Block`, `Rest` and `ParseEventBlock` are the parser;
`Receive(n)` is one turn of its loop with everything the page does with the
events. The API's side is `send_message_stream` from its answer's header to its
last event, with each of its ways to fail: before the response, after it (the
status is sent already), inside `try`, and after the commit. The connection may
break, or be ended early in good order by a proxy.

*ChatClient.* One action is one fetch with its answer and all the page does until
its next: JavaScript runs to the next `await`. `entering`, `send` and `upload` are
the three chains that may be under way at the same time, `page` and `composer` are
the React state, `store` is localStorage. A fetch may fail with or without its
effect. The turn of a message runs at the API by itself (`turns`): it inserts the
question, which has its place in the listing from then on (`seq` is an identity,
given at the flush), commits it early if files are linked to it, and at the end
commits status rows and answer, or fails. A session is therefore its rows in the
order of their numbers (`log`) and which of them are committed (`kept`), and two
turns may number their rows in one order and commit them in another. The status
rows are messages like the others: they count for the limit of a listing and keep
the typing notice away (`StatusesShown`). A reload, like a failed fetch, abandons
the page's chain and not the turn. Another tab (`other`) runs the same entry
chains step by step: it forgets the stored session first, then creates one, which
may fail, then stores it, or writes back the one it had read.

*Admin console.* In Dashboard an action is what happens between two awaits, except
that the three answers of a load, which arrive together, are one action when they
all can be read and another (`LoadFailed`) when one cannot: then those before it
are on the screen already. `reading` counts the requests for each transcript,
since one conversation may be opened, closed and opened again while the first
answer is on its way. In Configuration an operation `op[o]` is one call of an
async function, its `pc` the await it is at; several run at a time because the
buttons of a row are never disabled. `seen` is the `previewDoc` a call closed over.
Flags are cleared by whoever ends first, as in the code.

*KbLifecycle.* `row` is the committed status, `object` the source in the object
store, `chunks` the set of statuses the vector store has chunks of the document
with. A request is a coroutine with its transaction: `loaded` is the status it read,
and an UPDATE leaves out what has not changed since (`Written`). In one process the
calls of the stores are not interrupted; the documents plan for replicas, so every
call and every statement is a step of its own and requests may come between any
two. `lock` is what a transaction holds of the document's row until its end:
that of a job that refers to it, of an UPDATE or of a DELETE; `Needs`, `Against` and
`Blockers` say which statement waits for whom. A transaction may lock twice, first
for its job and then for its UPDATE.

## 3. Runs

Run one with `tlc -config X.cfg M`; PROJECT.json names the module and the
properties of each; the `TypeOK` of every module is an invariant of its first run.
A property marked *proved* is also a theorem.

### SupportGraph

`graph` (`SupportGraph.cfg`) runs one turn at a time from every session state,
with every wording of the model and a cancellation at each node:

- `NothingWithoutApproval` (proved), `SelfHelpFirst` (proved): why a ticket may be
  filed is decided three nodes before it is filed.
- `EscalationIsEnriched` (proved): record, deflection event and ticket count the
  same steps although the state they are read from is being replaced.
- `DeflectionIsNews` (proved): an outcome is noted by the turn that reaches it.
- `RepliesTruly` (proved): the turn ends with an answer, chosen from what several
  nodes left, and it speaks of a ticket exactly if the turn filed it.
- `KeepsTurnContract` (proved): what the caller relies on.

`graph_flow` (`SupportGraphFlow.cfg`) checks that the graph implements
`TicketGate` (`ImplementsTicketGate`, proved), and that every turn ends (`EveryTurnEnds`).

*Bounds.* One thread: turns share only the help desk's tickets, and the proofs
hold for any number of threads. File counts 0, 1 and 2 around a limit of 1;
confidences 0, 59 and 60 around the threshold of 60; up to two steps, so that one
and several differ; one ticket, or two where a search has to ask back.

### ChatService

`chat` (`ChatService.cfg`): two requests of one session interleave at every await,
each may fail or die there, Redis may lose either key at any time.
`RedisFollowsPostgres`: what Redis remembers was committed before, in its order (an
update may be lost, never doubled), and so was its ticket. `QuestionIsNotHistory`:
history is read before the flush. `ActiveTicketKept`: a stale session object does
not overwrite what another request committed. All three and the types are *proved*.

`chat_calm` (`ChatServiceCalm.cfg`): three messages one after the other, with
failures and a forgetful Redis. `CoherentSession` says what the two stores have in
common when nothing disturbed the session, and that self-help never continues
beside a ticket; `DeflectionCountedOnce`; both are *proved*. That requests end is
not claimed: the clients of Postgres and Redis set no timeout.

*Bounds.* A window of 2 or 3 where an exchange is two entries, so that it
overflows in its middle; 2 or 3 messages; 1 or 2 tickets. Two requests are the
least that interleave, and each action is of one request. Requests are
interchangeable, so they are symmetric in `chat`.
The knowledge base is off in `chat`, whose properties do not speak of the
troubleshoot status, and on in `chat_calm`.

### ZammadClient

`client` (`ZammadClient.cfg`): `FirstRefusalIsFinal` (proved: a 4xx to the first
attempt means that nothing was and nothing will be made; a 500 means nothing), the refinement of
`AtMostOnce` (proved: one effect at most, success only of one that happened) and
`EveryCallEnds`. The help desk honours keys here; the theorems that do not need it
do not assume it.

*Bounds.* `MaxRetries = 3` is the code's value. One command: commands share
nothing, and the proofs hold for any number.

### ThoughtStream

`stream` (`ThoughtStream.cfg`): `ReaderIsFaithful` (the page handles the events that
arrived whole, each once and in order, wherever the reads cut the text; over an
undisturbed connection the promise resolves exactly if the turn ended well; proved),
`ImplementsExchange` (an answer is only shown of a committed exchange, whatever the
connection does; proved), `EverySendSettles`.

*Bounds.* Up to three thoughts of two kinds: a repetition, a change, and both in
any order; four or five events of five symbols, cut anywhere.

### ChatClient

`web` (`ChatClient.cfg`):

- `ScreenAgrees`: at rest and without an error, messages, ticket, context and
  intent on the screen are of its session; every message shown is committed; and
  they are all the API lists, in its order, unless a turn that is not the page's own
  committed since (`behind`): its rows may belong between those shown.
- `SessionIsKnown`: a reload comes back to that session, and "Continuing your
  conversation" is only said of one that existed before the page did.
- `SentIsShownOrError`: a message is among the messages afterwards with its answer,
  or there is an error, or its session has outgrown one listing; the one shown before
  it was sent is gone.
- `WorkIsVisible`: the notices stand for work and no timer survives it; and work
  has a notice.
- `FilesStayInSession`: files chosen in one session and sent in the next are refused.
- `ComesToRest`: every way through every chain gives the controls back.

All but the last are *proved*, and so are the types.

The exceptions in these properties are behaviour of the code a reader should know: a
"New chat" that fails leaves the old session usable and unknown to the browser
(`stranded`); any doing of another tab may make the browser come back to another
session, or to none while that tab is creating one (`"store" \in behind`); a failed
fetch after a committed exchange takes the message back under an error although it was
answered; and while a streamed message waits for its first thought in a session that
was answered before, nothing on the page says that it is being worked on, since the
typing notice is not shown once a status row is.

*Bounds.* Two sessions, two messages, two files, two loads, one doing of another
tab: each kind of overlap happens. `Together` says which of loads, files and doings
of other tabs are tried in one behaviour: other tabs are tried with and without a
second load, files with one load and no other tab, since files and the
stored session have nothing to do with each other. A turn leaves one status row and a
ticket (`StatusRows`, `Tickets`; the proofs are for all), so that a session has at most
seven rows: the list limit does not bind here (7) and does in `web_history` (2).

### AdminConsole

`admin` (`AdminConsole.cfg`):

- `ScreenIsHonest`: figures, chart, conversations and dates are of one period, the
  selector names it, the page is the one the footer counts; a drawer shows what its
  title says. Excepted, and recorded where they happen: figures and chart after a load
  that failed between its answers (`half`), the selector after a choice whose load
  failed (`unheard`: it names a period that is not shown), and a text that was on its
  way already when the drawer was opened (`crossed`). What was answered before, and
  what was never asked for, is not excepted.
- `QuietListIsCurrent`: when nothing is under way the list is what the API has,
  unless somebody else changed it, an answer or list was lost, or a change came
  between the reading of another's list and its showing.
- `SpinnersMeanWork`: no flag outlives the operations that set it, although each
  is cleared by whichever ends first.

The three and the types are *proved*.

*Bounds.* One preset (the proof is for all, and the own dates of the user are tried
too), two days, two conversations, a page of one and two transcripts on
their way at once, of one conversation or of two; two documents and two operations,
which are the least that overlap. One user, who may publish: an editor
has fewer buttons. Documents and operations are symmetric. Nothing here is checked
for liveness: the page sets no timeout, and an operation that never returns keeps
its flag, as `SpinnersMeanWork` says.

### KbLifecycle

`kb` (`KbLifecycle.cfg`): `AloneHeals` (a request that runs alone, succeeds and
swallowed no failure leaves row, source and chunks in agreement, whatever those
before it left), `ReindexKeepsStatus` (a reindex does not take back a status
committed while it ran), `NobodyWaitsInCircle` (of any requests under way one waits for
none of the others, although transactions lock the row more than once and keep what
they have until they end). The three and the types are *proved*.

*Bounds.* Three requests: two that cross and one that comes afterwards, or waits
for both; they are symmetric. One document: documents share nothing but slugs.

### Disagreements

Three runs end in a violation, each of one statement of the repository's
documents. PROJECT.json quotes them under "findings".

| run | property | what the code does |
|---|---|---|
| `chat_served` (`ChatServiceServed.cfg`) | `TicketSessionsServed` | a request that dies between commit and `record_turn` leaves a session that has a ticket and is routed to self-help, which ignores it |
| `web_history` (`ChatClientHistory.cfg`) | `HistoryIsShown` | the page asks for messages without a limit and the API lists the oldest 100: a longer session resumes without its latest messages |
| `kb_retrieval` (`KbRetrieval.cfg`) | `OnlyPublishedRetrieved` | chunks are marked as published before the row is committed: when the commit fails, a draft is retrieved |

The models show more that no run is spent on:

- a ticket filed by an escalation without a ready intent lacks the message's files
  (`EnsureCreateTicketIntent`, `troubleshoot.py:138`);
- a confidence of 0 counts as 0.85 (`Effective`, `conversation_analysis.py:245`);
- three supported intents pass the policy and raise in the workflow
  (`OrchestrateRaise`, `workflow.py:34`);
- an escalation whose ticket could not be filed has moved the status all the same:
  the next message files a ticket without its record (`Escalate`,
  `troubleshoot.py:433`);
- after Redis lost the memory, the next turn records into an empty window and
  later turns see only that (`Recorded`, `redis_store.py:125`).

### Fairness

- `SupportGraph`: each node ends (`WF` of `RunNode`). Calls of the model and the
  help desk have timeouts; the Zammad client's loop is bounded. Starting,
  cancelling and ending a turn are not fair.
- `ZammadClient`: a coroutine's own next step (`WF` of `Progress`), which holds
  because httpx raises a timeout and a sleep ends. The network and the help desk
  owe nothing.
- `ThoughtStream`, `ChatClient`: the generator goes on, and a fetch returns or fails
  (`WF`). The pages set no timeout; that browser and proxy give up in the end is an
  assumption about them. Users and other tabs owe nothing.
- `ChatService`, `KbLifecycle` and the console state none: the clients of Postgres
  and Redis and the console's fetches set no timeout, and a request may wait for ever.

Deadlock is not checked in the runs whose system stops when the bounded number of
messages, commands, loads or thoughts is used up; in `admin` and `kb` because a
console that waits for nothing and a deleted handbook are at their end.

## 4. Proofs

`SupportGraphProofs`, for every set of threads, every limit, every confidence and
any number of tickets. The properties of a finished turn are not inductive. The
invariant `TurnOK` says for each node what the nodes before it established: in
`troubleshoot`, that the turn has not touched the help desk and self-help has not
spoken; in `orchestrate`, that there is an intent, that it is enriched if the turn
escalated, and that self-help does not stand in the way of a CreateTicket; in
`ticket_tool`, that the policy approved the command and on which grounds; from
then on, what is known of a ticket the turn filed (`Outcome`). There is one lemma
per action, a frame lemma for the other turns (tickets only grow), and each
property follows from the invariant. Eleven theorems, from the assumptions on the
constants alone.

Its second half builds on that invariant. The contract compares the end of a turn
with its beginning, so `Kept` says at each node what has become of the session since
(`began`), and what an earlier node must have left in intent and command for a later
one to keep the contract: the record of troubleshooting travels through three fields
before it is in a ticket. `ContractKept` follows. For the refinement, `Proceeds(t)`
says that thread t goes on and its gate moves as the abstract specification lets it;
there is a lemma per action, and the one action that files a ticket is looked at by
itself.

`ChatServiceProofs`, for any number of requests, sends and tickets and every length
of the window. The reading of the context, the history and the memory happens long
before their use, and the requests overlap: `IInv` therefore follows each message
through its request. A send has a number of its own, and its rows are in the log as
far as it has come (`SendsOK`); the window in Redis, and every copy of it that a
request is about to write back, holds committed turns in order (`WindowsOK`): a stale
copy may lose turns, but none that it holds can be rolled back. What a request has
read as history is older than its question (`HistoryOK`); a ticket that a row was
loaded with or was given is in the session when the row is written (`TicketsOK`).
`ActiveTicketKept` is an action property from the same invariant. The properties of a
calm session need more, `CInv`: with no overlap at most one request is under way
(`Alone`), nothing is known of a session that does not exist (`Unborn`), and then log,
window and context move together: the window is the end of the answered exchanges of
the log (`CalmInv`), whose rows the request under way adds at the end.

`ChatClientProofs`, for any number of sessions, messages, files, status rows and
reloads, and every limit of a listing. Three chains of fetches overlap each other and
the turns of the API, and the screen is only right when they rest; the invariant says
of each fetch under way what its answer may be put over. `Held` and `Turning` are about
the API: no answer is committed without its question, a turn's question is committed
from its early or final commit on and not before, and what is committed has its place
among the rows (`Sound`), whatever order turns insert and commit in. `Going` says
which session each chain is about, `View` from which fetch on each piece of the screen is
right. A session only grows (`Grown`), so a message shown stays one of its session, and
what was listed and answered is still among the rows (`ListedFacts`), unless the
listing ends before it. The bound on page loads is at least 1, since a page that was
never loaded is none (`BoundsAssumption`).

`ThoughtStreamProofs`, for every set of thoughts and every number of them. The
argument counts symbols. What has been read and what is on the wire are the beginning
of one text, the events sent at five symbols each; `WireInv` says that the buffer is
the part of an event that has been read beyond the first q (`Carries`), and, while
nothing has disturbed the connection, that read and unread symbols together are the
whole text. `CutEvents` and `CutRest` say what the parser makes of such a text:
exactly the events that are whole in it, and the rest. `SentInv` is the API's side:
"done" or "error" is the last event, "done" only of a committed exchange, and a stream
that the API itself ends, ends with one of them. From the two follows what each read
hands to the page (`Handled`), what the end of the stream finds in the buffer
(`BlockLeft`), and with them `ReaderFaithful`. For the refinement, "done" among the
events handled was sent, so the exchange is committed. `ReaderIsFaithful` is itself a
conjunct of the invariant: what the page handles next is only right after what it has
handled. A page that was told of an error has settled while the connection may still be
open; `PageInv` says that it has then read everything.

`AdminConsoleProofs`, for any number of documents, operations at a time, days and
conversations. For the dashboard the invariant says which page of which period the
load under way may put on the screen, and that an offset other than 0 is one the list
is known to have (`PageKnown`). For the configuration tab it says which kind of
operation may be where (`Placed`); that an undisturbed list is the API's or another
is on its way (`ListOK`); and that a text on its way is the open drawer's, and no
document is being removed behind it (`TextOK`). Of the transcripts on their way it
says that each is the open drawer's or was on its way when that was opened
(`TranscriptOK`): requests for one conversation are counted, so one that is answered
leaves the other on its way.

`SelectionProofs` is about the recursive function several of those proofs need, the
rows of a sequence that are in a set. An induction theorem of the library takes the predicate it
proves as an operator, which no prover here can instantiate; where the predicate can
be written as a set of numbers, the induction is first order (`InductionInSet`, from
the well-founded order of the natural numbers). Its facts are lemmas for the other
proofs and say nothing about the program by themselves.

`ZammadClientProofs`, for any number of commands and attempts. An answer may be
read long after it was sent, so what it says must be true when it is sent and
stay true (`Answered`); a POST on the wire or executed must belong to the current
request of its coroutine and to an attempt already sent (`Sent`), which is what
makes the refusal of a first attempt final; `Knowledge` is what a coroutine may
conclude from its own state. A step of a coroutine needs a look at that
coroutine only (`CallStep`), and a step of the network or the help desk at one
request (`ServerStep`). Only the refinement of `AtMostOnce` assumes
that the help desk honours the key.

`KbLifecycleProofs`, for any number of requests, with and without text. That the
stores agree when `clean` holds is not inductive: a request changes the stores long
before it commits, in several steps. `IInv` says of a request under way which steps its
operation has (`Stage`), what it holds of the row there (`Locks`) and, if it is
alone, that nobody else is under way, that the row is still as it loaded it
(`Alone`) and what it has done to the stores so far (`Found`), which before the commit
is all it has to do (`Prepared`). A request that begins takes `alone` from all others, so
that a step of one request says nothing about another. `AloneRepairs` follows.
`ReindexIsHarmless` needs only the types: what a reindex writes is what it has loaded, so
its UPDATE leaves the status out. `NoCircle` follows from `Locks`: whoever holds the lock
of an UPDATE or DELETE is about to commit and waits for nobody; where there is none, one
that has inserted its job waits for nobody but such; and where there is none of these
either, nobody holds anything. The only assumption is `HasTextAssumption`.

The theorems, by the module they are about, with the property of a run each states,
if it states one:

| module | theorem | property | what it says |
|---|---|---|---|
| `SupportGraph` | `Invariance` |  | TurnOK, what each node has established about the turn, is inductive: it holds in every node of every turn, for any number of concurrent turns. |
| `SupportGraph` | `TypeCorrect` | `TypeOK` | The graph state and the help desk keep their types. |
| `SupportGraph` | `IntentBeforePolicy` |  | No edge reaches the policy node without an intent. |
| `SupportGraph` | `PolicyGuardsHelpDesk` | `NothingWithoutApproval` | Nothing reaches the help desk in a turn whose intent the policy did not accept. |
| `SupportGraph` | `SelfHelpComesFirst` | `SelfHelpFirst` | With the knowledge base on and no ticket in the session, no ticket is filed before self-help is over. |
| `SupportGraph` | `EscalationEnriches` | `EscalationIsEnriched` | A ticket filed by the turn that escalates carries that escalation's record. |
| `SupportGraph` | `OutcomeIsNews` | `DeflectionIsNews` | A turn notes a deflection outcome exactly when it moved the status there. |
| `SupportGraph` | `TicketIsAnnounced` |  | The reply announces a ticket if and only if the turn filed it and knows its number. |
| `SupportGraph` | `TicketEndsSelfHelp` |  | Self-help leaves a session with an active ticket alone. |
| `SupportGraph` | `TurnAnswers` |  | A finished turn has an answer. |
| `SupportGraph` | `RepliesFit` | `RepliesTruly` | A finished turn answers, and its reply announces a ticket if and only if the turn filed it and knows its number. |
| `SupportGraph` | `TurnsKept` |  | What a turn has made of its session so far is inductive: what an earlier node has to leave in intent and command for a later one to keep the contract. |
| `SupportGraph` | `ContractKept` | `KeepsTurnContract` | Every turn ends as TurnContract says, which is what the chat service relies on. |
| `SupportGraph` | `GraphImplementsGate` | `ImplementsTicketGate` | The graph implements TicketGate: a ticket is filed through a cleared gate only, once for each clearance, for any number of threads and tickets. |
| `ChatService` | `TypeCorrect` | `TypeOK` | Session, keys and requests keep their types, and the window in Redis its length. |
| `ChatService` | `Invariance` |  | What is known of sends, windows, histories and tickets is inductive, however requests overlap, fail or lose Redis. |
| `ChatService` | `RedisNeverAhead` | `RedisFollowsPostgres` | The window in Redis holds committed turns in their order, and its context a ticket only if Postgres has one, for any number of overlapping requests. |
| `ChatService` | `HistoryPrecedesQuestion` | `QuestionIsNotHistory` | What a request shows the model as history never holds its own question. |
| `ChatService` | `TicketStays` | `ActiveTicketKept` | No request takes the session's ticket away by writing back what it had loaded before. |
| `ChatService` | `CalmInvariance` |  | As long as nothing upset the session, log, window and context move together. |
| `ChatService` | `CalmSessionsCohere` | `CoherentSession` | In an undisturbed session window and context are what Postgres has, and self-help never continues beside a ticket. |
| `ChatService` | `DeflectionCounted` | `DeflectionCountedOnce` | In an undisturbed session at most one deflection outcome is counted. |
| `ThoughtStream` | `TypeCorrect` | `TypeOK` | The API, the connection and the reader keep their types, and the buffer never keeps a whole event, wherever the text is cut. |
| `ThoughtStream` | `CutEvents` |  | Cutting the beginning of a text of events at its blank lines gives exactly the events it holds whole, for texts of any length. |
| `ThoughtStream` | `ReaderFaithful` | `ReaderIsFaithful` | The page handles the events that arrived, each once and in order, wherever reads cut the text, and settles as the turn ended if nothing disturbed the stream, for any number of events. |
| `ThoughtStream` | `ExchangeImplemented` | `ImplementsExchange` | The stream implements Exchange: an answer is shown only of a committed exchange, whatever the connection does. |
| `ChatClient` | `Invariance` |  | What is known of the page, of each chain of fetches under way, of the API's sessions and of the other tabs is inductive. |
| `ChatClient` | `TypeCorrect` | `TypeOK` | The page, its chains and the API's sessions keep their types. |
| `ChatClient` | `ScreenIsOfItsSession` | `ScreenAgrees` | Messages, ticket and context on the screen belong to its session and were committed, and are what the API lists unless a turn was committed since, however the answers overlap and in whatever order rows are numbered and committed. |
| `ChatClient` | `RemembersItsSession` | `SessionIsKnown` | A reload comes back to the session of the screen, except after a "New chat" that failed and after another tab has written the stored session. |
| `ChatClient` | `ShowsItsWork` | `WorkIsVisible` | The notices stand for work and no timer survives it; work is without a sign only before the first thought of a turn in a session that has status rows. |
| `ChatClient` | `FilesKeepToTheirSession` | `FilesStayInSession` | Files are only ever sent in the session they were uploaded to. |
| `ChatClient` | `SentIsShown` | `SentIsShownOrError` | A message sent is on the screen with its answer afterwards, or an error is, or its session has outgrown one listing, status rows counted, for any limit and any number of messages. |
| `AdminConsole` | `Invariance` |  | What is known of each load, transcript and operation under way is inductive, for any number of documents, operations and requests for transcripts at a time. |
| `AdminConsole` | `TypeCorrect` | `TypeOK` | Frame, tabs and operations keep their types, and the dashboard's controls are disabled exactly while it loads. |
| `AdminConsole` | `ScreenIsAlwaysHonest` | `ScreenIsHonest` | List, dates and page on the screen are always of one period, and figures, selector and drawers are unless a load was torn, a period could not be loaded, or an answer was overtaken by another drawer. |
| `AdminConsole` | `QuietListIsAlwaysCurrent` | `QuietListIsCurrent` | When nothing is under way the list of handbooks is the API's. |
| `AdminConsole` | `SpinnersAlwaysMeanWork` | `SpinnersMeanWork` | No flag outlives the operations that set it, although whichever ends first clears it. |
| `ZammadClient` | `TypeCorrect` | `TypeOK` | Coroutines, requests and answers keep their types; no attempt goes beyond MaxRetries. |
| `ZammadClient` | `SuccessIsTrue` |  | A command that reports success has had its effect, whichever attempt had it. |
| `ZammadClient` | `RefusalIsTrue` | `FirstRefusalIsFinal` | A refusal (4xx, not a 500) of the first attempt means that nothing was and nothing will be made. |
| `ZammadClient` | `TicketFoundFirst` |  | An article is only under way if a search of its command found the ticket. |
| `ZammadClient` | `ClientRefinesAtMostOnce` | `ImplementsAtMostOnce` | If the help desk honours the key, the client implements AtMostOnce, for any number of commands and attempts. |
| `KbLifecycle` | `TypeCorrect` | `TypeOK` | The row, the stores and the requests keep their types, whatever requests cross each other, fail half way or die. |
| `KbLifecycle` | `ReindexIsHarmless` | `ReindexKeepsStatus` | A reindex never takes back the status another request has committed while it ran, for any number of requests. |
| `KbLifecycle` | `AloneRepairs` | `AloneHeals` | A request that runs alone and succeeds without having swallowed a failure leaves the stores in agreement with the row, whatever was left behind before it. |
| `KbLifecycle` | `NoCircle` | `NobodyWaitsInCircle` | Of any requests that meet on a handbook's row one waits for none of the others, so that Postgres has no deadlock to break, for any number of requests. |

*Only model-checked:* liveness (`EveryTurnEnds`, `EveryCallEnds`, `EverySendSettles`,
`ComesToRest`), which is out of the prover's reach. Every other
property of a passing run is a theorem, or part of one.

## 5. What the models assume and leave out

- In SupportGraph a command is executed at most once. ZammadClient shows when
  that is so: if the help desk honours `Idempotency-Key`. The repository does not
  say whether it does.
- ChatService has one session. Sessions share nothing but the help desk.
- Authentication and ownership are taken as passed; wording, cards, time stamps
  and counters are left out, and in ChatService the status rows. `made`, `began`, `sent` in
  SupportGraph, `past` in ChatService, `behind` and `stranded` in ChatClient, `half`,
  `unheard`, `crossed` and `disturbed` in the console, `clean`, `alone` and
  `swallowed` in KbLifecycle exist for the properties; no guard reads them.
- ThoughtStream: JSON is a payload in two halves; a byte order or a split inside a
  UTF-8 character is the decoder's affair.
- ChatClient: what was typed, upload errors, the online badge and the number of turns in the context are left out, as is the
  bootstrap that React's StrictMode starts twice in development. An answer of the
  API is an instant view of its sessions.
- Admin console: error banners, search hits, figures and the profile menu are left
  out; `/me` is known at once or never; the API's handbook is chosen when the tab
  is mounted; an operation whose tab has gone is somebody else's change; the list is
  taken to fit into the API's default limit of 50; of the administrators' other
  operations only deletion is shown to the console.
- KbLifecycle: titles, tags, the derived Markdown, job rows and the search for a
  free slug (two uploads of one title may both find it free; the loser fails on the
  unique key and leaves an object no row names) are left out, as is a failure
  that leaves some chunks of a document. Postgres' queue of those who wait for one
  row lock is not modelled: any of them may be next. It adds no circle, since
  a newcomer to the queue either holds nothing or passes it as a holder.

## Not modelled

- The path without the graph (`graph_enabled` off), and the optional checkpointer,
  off by default: with it, fields a turn does not set survive from the turn before.
- Language models and embeddings are external: any answer of the right shape. The
  repair of generated steps, the context budget and chunking are pure text
  algorithms without state; what the other modules need of them is a number.
- Upload as object and row: a failure between the two leaves an object that no row
  names. The reading of attachments for the model.
- A message that the user sends again after an error is a new message with a new
  command and a new key, so it may file a second ticket. Nothing in the documents
  promises otherwise; it is listed as a hazard.
- ServiceNow is a stub; routers other than the streaming one, analytics, audit log,
  migrations and scripts keep no state of the core.
- `site/` is the built documentation with the third-party code of its search
  (`wordcut.js` and `tinyseg.js`, word segmenters for Thai and Japanese, and minified
  bundles). They make up most of the repository's JavaScript by lines, are not
  called by the system, and nothing in it depends on what they do.
