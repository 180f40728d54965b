----------------------------- MODULE ChatClient -----------------------------
(***************************************************************************)
(* The chat page in the browser: useChatSession, the composer and what the *)
(* shell lets the user do, against the API's sessions.                     *)
(*                                                                         *)
(* The page has up to three things under way: entering a session (at the   *)
(* start, or by "New chat"), a message being sent, and an upload.  Each is *)
(* a chain of fetches; one action is one fetch with its answer and all the *)
(* page does until its next.  What it does at once is one action because   *)
(* nothing else runs in the page meanwhile.  A fetch may fail with or      *)
(* without its effect.  The turn of a message runs at the API by itself:   *)
(* a page that gives up or goes away does not stop it.  Other tabs of the  *)
(* user share localStorage and the sessions.                               *)
(*                                                                         *)
(* Sessions are numbered as they are created, 0 is none; so are messages   *)
(* (0 is the welcome) and files.  What was typed is left out.              *)
(***************************************************************************)
EXTENDS Selection, SequencesExt

CONSTANTS
    Streaming,      \* the values thought_streaming_enabled may have
    ListLimit,      \* messages the API lists if not told otherwise
    StatusRows,     \* the numbers of status rows a turn may leave
    Tickets,        \* whether it may leave a ticket, and may leave none
    MaxSessions,    \* bound: sessions created
    MaxSends,       \* bound: messages sent
    MaxFiles,       \* bound: files uploaded
    MaxLoads,       \* bound: times the page is loaded
    MaxElsewhere,   \* bound: what the other tabs do
    Together        \* bound: loads, files and doings of other tabs tried together

ASSUME StreamingAssumption == Streaming \subseteq BOOLEAN
ASSUME ListLimitAssumption == ListLimit \in Nat \ {0}
ASSUME TurnAssumption == StatusRows \subseteq Nat /\ Tickets \subseteq BOOLEAN
ASSUME BoundsAssumption ==
    /\ {MaxSessions, MaxSends, MaxFiles, MaxElsewhere} \subseteq Nat
    /\ MaxLoads \in Nat \ {0}     \* the first load is one of them

VARIABLES
    sessions,   \* the API's sessions: rows, ticket, who created it
    files,      \* uploaded files: the session and the message of each
    store,      \* localStorage: the session the browser comes back to
    page,       \* the state of useChatSession
    composer,   \* the state of the composer
    entering,   \* bootstrap or startNewSession
    send,       \* handleSend
    upload,     \* handleFileChange
    turns,      \* for each message the turn the API runs of it
    other,      \* another tab: what it does to the stored session
    used        \* counters for the bounds

vars == <<sessions, files, store, page, composer, entering, send, upload, turns, other, used>>

-----------------------------------------------------------------------------
(***************************************************************************)
(* Data                                                                    *)
(***************************************************************************)
SessionId == 1..MaxSessions
FileId == 1..MaxFiles

Message == [n : 0..MaxSends, role : {"user", "assistant", "system"}, optimistic : BOOLEAN]

Row(n, role) == [n |-> n, role |-> role, optimistic |-> FALSE]

Optimistic(n) == [n |-> n, role |-> "user", optimistic |-> TRUE]

\* The rows of a session in the order of their numbers (seq), which a row takes
\* when it is inserted and keeps for good; kept are those that are committed.  A
\* new session has its welcome.
NewSession(by) ==
    [log |-> <<Row(0, "assistant")>>, kept |-> {Row(0, "assistant")},
     ticket |-> FALSE, by |-> by]

\* The page as it is when it has been loaded.  For the properties: behind, what
\* others have changed since the page read or wrote it; stranded, that its last
\* attempt to create a session failed.
NewPage ==
    [ session |-> 0, ticket |-> FALSE, messages |-> <<>>, context |-> 0,
      intent |-> 0, loading |-> TRUE, sending |-> FALSE,
      resumed |-> FALSE, error |-> FALSE, streaming |-> FALSE,
      thoughts |-> FALSE, label |-> FALSE, timer |-> FALSE, behind |-> {},
      stranded |-> FALSE ]

NewComposer == [pending |-> {}, uploading |-> FALSE]

NotEntering == [pc |-> "off"]
NotSending == [pc |-> "off", n |-> 0, session |-> 0]
NotUploading == [pc |-> "off", session |-> 0, left |-> 0, done |-> {}]
NoTurn == [stage |-> "none", session |-> 0, files |-> {}]
NotElsewhere == [pc |-> "off", stored |-> 0]

\* What is tried at most: so many more loads, files and doings of other tabs.
InBounds(loads, uploads, elsewhere) ==
    <<used.loads + loads, Len(files) + upload.left + uploads, used.elsewhere + elsewhere>>
        \in Together

-----------------------------------------------------------------------------
(***************************************************************************)
(* What the page shows and lets the user do                                *)
(***************************************************************************)

\* ChatShell: the composer is disabled without a session and during work.
Disabled == page.session = 0 \/ page.sending \/ page.loading

\* Mutant: "New chat" is only disabled while a session is being entered.
CanStartNew_WhileSending == ~page.loading

CanStartNew == ~page.loading /\ ~page.sending

\* A message may be submitted as soon as there is text or a file.
CanSubmit == ~Disabled /\ ~composer.uploading

CanAttach == ~Disabled /\ ~composer.uploading

\* SystemStatusLine, and when ChatShell makes it visible.
StatusLineShown ==
    page.sending /\ (~page.streaming \/ page.label) /\ page.label

\* The messages shown hold status rows of an earlier turn.
StatusesShown == \E m \in ToSet(page.messages) : m.role = "system"

\* The notices of MessageStream around the messages.
Notices ==
    { note \in {"starting", "continuing", "thoughts", "typing"} :
        CASE note = "starting"   -> page.loading
          [] note = "continuing" -> page.resumed /\ ~page.loading
          [] note = "thoughts"   -> page.sending /\ page.thoughts
          [] note = "typing"     -> page.sending /\ ~page.thoughts /\ ~StatusesShown }

-----------------------------------------------------------------------------
(***************************************************************************)
(* The API                                                                 *)
(***************************************************************************)

\* The committed rows of a session, by their numbers.
Visible(s) == Select(sessions[s].log, sessions[s].kept)

\* list_messages without limit and offset: the oldest ListLimit of the session.
Listed(s) ==
    SubSeq(Visible(s), 1, IF Len(Visible(s)) < ListLimit THEN Len(Visible(s)) ELSE ListLimit)

\* A turn that is not this page's own goes on: the page does not know.
LookBehind(n) ==
    page' = IF page.session = turns[n].session /\ ~(send.pc = "post" /\ send.n = n)
            THEN [page EXCEPT !.behind = @ \cup {"messages", "ticket"}] ELSE page

\* A message arrives at the API; it may also be lost (FailTurn).
StartTurn(n, s, fs) ==
    turns' = [turns EXCEPT ![n] = [stage |-> "sent", session |-> s, files |-> fs]]

\* The flush: the question has its number, and is not committed.
StoreQuestion(n) ==
    /\ turns[n].stage = "sent"
    /\ turns' = [turns EXCEPT ![n].stage = "stored"]
    /\ sessions' = [sessions EXCEPT ![turns[n].session].log = Append(@, Row(n, "user"))]
    /\ UNCHANGED <<files, store, page, composer, entering, send, upload, other, used>>

\* Mutant: the files are looked up by their ids only.
CanLink_Any(s, fs) == \A f \in fs : f \in DOMAIN files

\* link_to_message finds files of the message's session only.
CanLink(s, fs) == \A f \in fs : f \in DOMAIN files /\ files[f].session = s

\* It commits, and with the files the question.
LinkAttachments(n) ==
    LET turn == turns[n]
    IN  /\ turn.stage = "stored"
        /\ turn.files # {}
        /\ CanLink(turn.session, turn.files)
        /\ turns' = [turns EXCEPT ![n].stage = "linked"]
        /\ files' = [f \in DOMAIN files |-> IF f \in turn.files
                                            THEN [files[f] EXCEPT !.message = n] ELSE files[f]]
        /\ sessions' = [sessions EXCEPT ![turn.session].kept = @ \cup {Row(n, "user")}]
        /\ LookBehind(n)
        /\ UNCHANGED <<store, composer, entering, send, upload, other, used>>

\* _finalize_message_exchange: the status rows, the answer, and the commit.
Answer(n, statuses) == [i \in 1..statuses |-> Row(n, "system")] \o <<Row(n, "assistant")>>

AnswerTurn(n, statuses, ticket) ==
    LET turn == turns[n]
    IN  /\ turn.stage = IF turn.files = {} THEN "stored" ELSE "linked"
        /\ turns' = [turns EXCEPT ![n] = NoTurn]
        /\ sessions' = [sessions EXCEPT
                          ![turn.session].log = @ \o Answer(n, statuses),
                          ![turn.session].kept =
                              @ \cup {Row(n, role) : role \in {"user", "system", "assistant"}},
                          ![turn.session].ticket = @ \/ ticket]
        /\ LookBehind(n)
        /\ UNCHANGED <<files, store, composer, entering, send, upload, other, used>>

\* An error anywhere: what is not committed is rolled back, its numbers are spent.
FailTurn(n) ==
    /\ turns[n].stage # "none"
    /\ turns' = [turns EXCEPT ![n] = NoTurn]
    /\ UNCHANGED <<sessions, files, store, page, composer, entering, send, upload, other, used>>

\* create_session, by this load of the page or by another tab (0).
Create(by) ==
    /\ Len(sessions) < MaxSessions
    /\ sessions' = Append(sessions, NewSession(by))

-----------------------------------------------------------------------------
(***************************************************************************)
(* Entering a session                                                      *)
(***************************************************************************)

\* Mutant: after a failure it starts again.
EnterFailed_Again ==
    /\ entering' = [pc |-> "health"]
    /\ page' = [page EXCEPT !.error = TRUE]

EnterFailed ==
    /\ entering' = NotEntering
    /\ page' = [page EXCEPT !.error = TRUE, !.loading = FALSE,
                            !.stranded = @ \/ entering.pc = "create"]

CheckApiHealth(healthy) ==
    /\ entering.pc = "health"
    /\ IF healthy THEN entering' = [pc |-> "config"] /\ UNCHANGED page
       ELSE EnterFailed
    /\ UNCHANGED <<sessions, files, store, composer, send, upload, turns, other, used>>

\* The stored session is read as soon as the configuration is known, or is not
\* to be had: then there is no streaming.
GetPublicConfig(streaming) ==
    /\ entering.pc = "config"
    /\ page' = [page EXCEPT !.streaming = streaming]
    /\ entering' = IF store # 0 THEN [pc |-> "resume", stored |-> store] ELSE [pc |-> "create"]
    /\ UNCHANGED <<sessions, files, store, composer, send, upload, turns, other, used>>

\* Mutant: the session is not stored again.
Stored_Unchanged(s) == store

Stored(s) == s

\* setSession and setStoredSessionId, then the messages.
Enter(s, resumed) ==
    /\ page' = [page EXCEPT !.session = s, !.ticket = sessions'[s].ticket,
                            !.resumed = resumed, !.behind = {}, !.stranded = FALSE]
    /\ store' = Stored(s)
    /\ entering' = [pc |-> "list"]

\* Whatever the reason, a session that cannot be fetched is forgotten.
ResumeSession(ok) ==
    /\ entering.pc = "resume"
    /\ UNCHANGED sessions
    /\ IF ok
       THEN Enter(entering.stored, TRUE)
       ELSE /\ store' = 0
            /\ entering' = [pc |-> "create"]
            /\ UNCHANGED page
    /\ UNCHANGED <<files, composer, send, upload, turns, other, used>>

\* created: did the API create a session?  ok: was the answer received?
CreateSession(created, ok) ==
    /\ entering.pc = "create"
    /\ ok => created
    /\ IF created THEN Create(used.loads) ELSE UNCHANGED sessions
    /\ IF ok THEN Enter(Len(sessions'), page.resumed)
       ELSE EnterFailed /\ UNCHANGED store
    /\ UNCHANGED <<files, composer, send, upload, turns, other, used>>

\* loadMessages: the messages, then the context, which may fail quietly.
ShowMessages == [page EXCEPT !.messages = Listed(page.session), !.behind = @ \ {"messages"}]

ListOnEntering(ok) ==
    /\ entering.pc = "list"
    /\ IF ok THEN /\ page' = ShowMessages
                  /\ entering' = [pc |-> "context"]
       ELSE EnterFailed
    /\ UNCHANGED <<sessions, files, store, composer, send, upload, turns, other, used>>

\* The key in Redis may have expired, and the fetch may fail.
SessionContext(s, known) == IF known THEN s ELSE 0

GetContextOnEntering(known) ==
    /\ entering.pc = "context"
    /\ page' = [page EXCEPT !.context = SessionContext(page.session, known),
                            !.loading = FALSE]
    /\ entering' = NotEntering
    /\ UNCHANGED <<sessions, files, store, composer, send, upload, turns, other, used>>

StartNewSession ==
    /\ CanStartNew
    /\ page' = [page EXCEPT !.loading = TRUE, !.error = FALSE, !.resumed = FALSE,
                            !.intent = 0]
    /\ store' = 0
    /\ entering' = [pc |-> "create"]
    /\ UNCHANGED <<sessions, files, composer, send, upload, turns, other, used>>

-----------------------------------------------------------------------------
(***************************************************************************)
(* Sending a message                                                       *)
(***************************************************************************)
\* handleSubmit calls handleSend, which shows the message before it is sent.
Submit ==
    /\ CanSubmit
    /\ used.sends < MaxSends
    /\ used' = [used EXCEPT !.sends = @ + 1]
    /\ page' = [page EXCEPT !.sending = TRUE, !.error = FALSE, !.thoughts = FALSE,
                            !.timer = ~page.streaming,
                            !.label = @ \/ ~page.streaming,
                            !.messages = Append(@, Optimistic(used.sends + 1))]
    /\ send' = [pc |-> "post", n |-> used.sends + 1, session |-> page.session]
    /\ StartTurn(used.sends + 1, page.session, composer.pending)
    /\ UNCHANGED <<sessions, files, store, composer, entering, upload, other>>

\* A thought of the stream (ThoughtStream).
ShowThought ==
    /\ send.pc = "post"
    /\ page.streaming
    /\ page' = [page EXCEPT !.thoughts = TRUE, !.label = TRUE]
    /\ UNCHANGED <<sessions, files, store, composer, entering, send, upload, turns, other, used>>

\* Mutant: the timer runs on after a failure.
SendOver_Ticking(p, failed) ==
    /\ page' = [p EXCEPT !.sending = FALSE, !.label = FALSE, !.thoughts = FALSE,
                            !.timer = @ /\ failed,
                            !.error = failed,
                            !.messages = Select(@, Message \ {Optimistic(send.n)})]
    /\ composer' = [composer EXCEPT !.pending = {}]
    /\ send' = NotSending

\* Mutant: the message shown before it was sent stays after a failure.
SendOver_KeepsOptimistic(p, failed) ==
    /\ page' = [p EXCEPT !.sending = FALSE, !.label = FALSE, !.thoughts = FALSE,
                            !.timer = FALSE, !.error = failed]
    /\ composer' = [composer EXCEPT !.pending = {}]
    /\ send' = NotSending

\* handleSend's catch and finally, and the rest of handleSubmit: what was typed
\* and attached is cleared, sent or not.
SendOver(p, failed) ==
    /\ page' = [p EXCEPT !.sending = FALSE, !.label = FALSE, !.thoughts = FALSE,
                            !.timer = FALSE,
                            !.error = failed,
                            !.messages = Select(@, Message \ {Optimistic(send.n)})]
    /\ composer' = [composer EXCEPT !.pending = {}]
    /\ send' = NotSending

\* The answer comes only of an exchange that is committed (Exchange).
PostAnswered ==
    /\ send.pc = "post"
    /\ Row(send.n, "assistant") \in sessions[send.session].kept
    /\ page' = [page EXCEPT !.intent = send.session, !.timer = FALSE]
    /\ send' = [send EXCEPT !.pc = "list"]
    /\ UNCHANGED <<sessions, files, store, composer, entering, upload, turns, other, used>>

\* A failure may come of any: the turn may be over, fail, or go on.
PostFailed ==
    /\ send.pc = "post"
    /\ SendOver(page, TRUE)
    /\ UNCHANGED <<sessions, files, store, entering, upload, turns, other, used>>

ListAfterSend(ok) ==
    /\ send.pc = "list"
    /\ IF ok
       THEN /\ page' = [page EXCEPT !.messages = Listed(send.session), !.behind = @ \ {"messages"}]
            /\ send' = [send EXCEPT !.pc = "context"]
            /\ UNCHANGED composer
       ELSE SendOver(page, TRUE)
    /\ UNCHANGED <<sessions, files, store, entering, upload, turns, other, used>>

GetContextAfterSend(known) ==
    /\ send.pc = "context"
    /\ page' = [page EXCEPT !.context = SessionContext(send.session, known),
                            !.thoughts = FALSE]
    /\ send' = [send EXCEPT !.pc = "refresh"]
    /\ UNCHANGED <<sessions, files, store, composer, entering, upload, turns, other, used>>

RefreshSession(ok) ==
    /\ send.pc = "refresh"
    /\ SendOver(IF ok THEN [page EXCEPT !.session = send.session,
                                        !.ticket = sessions[send.session].ticket,
                                        !.behind = @ \ {"ticket"}]
                ELSE page, ~ok)
    /\ UNCHANGED <<sessions, files, store, entering, upload, turns, other, used>>

-----------------------------------------------------------------------------
(***************************************************************************)
(* Attachments                                                             *)
(***************************************************************************)
ChooseFiles(n) ==
    /\ CanAttach
    /\ Len(files) + n <= MaxFiles
    /\ InBounds(0, n, 0)
    /\ composer' = [composer EXCEPT !.uploading = TRUE]
    /\ upload' = [pc |-> "post", session |-> page.session, left |-> n, done |-> {}]
    /\ UNCHANGED <<sessions, files, store, page, entering, send, turns, other, used>>

\* Mutant: it goes on for one more.
UploadAttachment_OneMore(ok) ==
    LET done == upload.done \cup {Len(files')}
    IN  /\ upload.pc = "post"
        /\ files' = IF ok THEN Append(files, [session |-> upload.session, message |-> 0])
                    ELSE files
        /\ IF ok /\ upload.left > 0
           THEN /\ upload' = [upload EXCEPT !.left = @ - 1, !.done = done]
                /\ UNCHANGED composer
           ELSE /\ upload' = NotUploading
                /\ composer' = [composer EXCEPT !.uploading = FALSE,
                                                !.pending = IF ok THEN @ \cup done ELSE @]
        /\ UNCHANGED <<sessions, store, page, entering, send, turns, other, used>>

\* One file after the other: only if all succeed are they attached.  A file that
\* was stored and not reported is as good as none: nothing names it.
UploadAttachment(ok) ==
    LET done == upload.done \cup {Len(files')}
    IN  /\ upload.pc = "post"
        /\ files' = IF ok THEN Append(files, [session |-> upload.session, message |-> 0])
                    ELSE files
        /\ IF ok /\ upload.left > 1
           THEN /\ upload' = [upload EXCEPT !.left = @ - 1, !.done = done]
                /\ UNCHANGED composer
           ELSE /\ upload' = NotUploading
                /\ composer' = [composer EXCEPT !.uploading = FALSE,
                                                !.pending = IF ok THEN @ \cup done ELSE @]
        /\ UNCHANGED <<sessions, store, page, entering, send, turns, other, used>>

RemovePending(f) ==
    /\ f \in composer.pending
    /\ composer' = [composer EXCEPT !.pending = @ \ {f}]
    /\ UNCHANGED <<sessions, files, store, page, entering, send, upload, turns, other, used>>

-----------------------------------------------------------------------------
(***************************************************************************)
(* What happens around the page                                            *)
(***************************************************************************)

\* The page is loaded anew; the API may still be at work on its message.
Reload ==
    /\ used.loads < MaxLoads
    /\ InBounds(1, 0, 0)
    /\ used' = [used EXCEPT !.loads = @ + 1]
    /\ page' = NewPage
    /\ composer' = NewComposer
    /\ entering' = [pc |-> "health"]
    /\ send' = NotSending
    /\ upload' = NotUploading
    /\ UNCHANGED <<sessions, files, store, turns, other>>

\* Another tab sends a message, in whichever session it is.
SendElsewhere(s) ==
    /\ s \in DOMAIN sessions
    /\ used.elsewhere < MaxElsewhere
    /\ InBounds(0, 0, 1)
    /\ used.sends < MaxSends
    /\ used' = [used EXCEPT !.sends = @ + 1, !.elsewhere = @ + 1]
    /\ StartTurn(used.sends + 1, s, {})
    /\ UNCHANGED <<sessions, files, store, page, composer, entering, send, upload, other>>

\* Another tab enters a session: it runs bootstrap or startNewSession, too.
BeginElsewhere ==
    /\ other.pc = "off"
    /\ used.elsewhere < MaxElsewhere
    /\ InBounds(0, 0, 1)
    /\ used' = [used EXCEPT !.elsewhere = @ + 1]
    /\ UNCHANGED <<sessions, files, composer, entering, send, upload, turns>>

\* What it does to the stored session.
StoreElsewhere(s) ==
    /\ store' = s
    /\ page' = [page EXCEPT !.behind = @ \cup {"store"}]

LoadElsewhere ==
    /\ BeginElsewhere
    /\ other' = [pc |-> IF store # 0 THEN "resume" ELSE "create", stored |-> store]
    /\ UNCHANGED <<store, page>>

StartElsewhere ==
    /\ BeginElsewhere
    /\ StoreElsewhere(0)
    /\ other' = [pc |-> "create", stored |-> 0]

ResumeElsewhere(ok) ==
    /\ other.pc = "resume"
    /\ StoreElsewhere(IF ok THEN other.stored ELSE 0)
    /\ other' = IF ok THEN NotElsewhere ELSE [pc |-> "create", stored |-> 0]
    /\ UNCHANGED <<sessions, files, composer, entering, send, upload, turns, used>>

CreateElsewhere(created, ok) ==
    /\ other.pc = "create"
    /\ ok => created
    /\ IF created THEN Create(0) ELSE UNCHANGED sessions
    /\ IF ok THEN StoreElsewhere(Len(sessions')) ELSE UNCHANGED <<store, page>>
    /\ other' = NotElsewhere
    /\ UNCHANGED <<files, composer, entering, send, upload, turns, used>>

-----------------------------------------------------------------------------
EnterStep ==
    \/ \E ok \in BOOLEAN : CheckApiHealth(ok) \/ ResumeSession(ok) \/ ListOnEntering(ok)
    \/ \E streaming \in Streaming \cup {FALSE} : GetPublicConfig(streaming)
    \/ \E created, ok \in BOOLEAN : CreateSession(created, ok)
    \/ \E known \in BOOLEAN : GetContextOnEntering(known)

SendStep ==
    \/ PostAnswered \/ PostFailed
    \/ \E ok \in BOOLEAN : ListAfterSend(ok) \/ RefreshSession(ok)
    \/ \E known \in BOOLEAN : GetContextAfterSend(known)

UploadStep == \E ok \in BOOLEAN : UploadAttachment(ok)

UserStep ==
    \/ StartNewSession \/ Submit \/ Reload
    \/ \E n \in 1..2 : ChooseFiles(n)
    \/ \E f \in FileId : RemovePending(f)

TurnStep ==
    \E n \in 1..MaxSends :
        \/ StoreQuestion(n) \/ LinkAttachments(n) \/ FailTurn(n)
        \/ \E statuses \in StatusRows, ticket \in Tickets : AnswerTurn(n, statuses, ticket)

Elsewhere ==
    \/ LoadElsewhere \/ StartElsewhere
    \/ \E s \in SessionId : SendElsewhere(s)
    \/ \E ok \in BOOLEAN : ResumeElsewhere(ok)
    \/ \E created, ok \in BOOLEAN : CreateElsewhere(created, ok)

Init ==
    /\ sessions = <<>> /\ files = <<>> /\ store = 0
    /\ page = NewPage /\ composer = NewComposer
    /\ entering = [pc |-> "health"] /\ send = NotSending /\ upload = NotUploading
    /\ turns = [n \in 1..MaxSends |-> NoTurn] /\ other = NotElsewhere
    /\ used = [sends |-> 0, loads |-> 1, elsewhere |-> 0]

Next ==
    \/ EnterStep \/ SendStep \/ ShowThought \/ UploadStep \/ UserStep
    \/ TurnStep \/ Elsewhere

Spec == Init /\ [][Next]_vars

\* A fetch returns or fails.  The page sets no timeout: that browser and proxy
\* give up in the end is an assumption.
Fairness == WF_vars(EnterStep) /\ WF_vars(SendStep)

FairSpec == Spec /\ Fairness

-----------------------------------------------------------------------------
(***************************************************************************)
(* Properties                                                              *)
(***************************************************************************)

\* Everything has values of its type, files and messages are of sessions there are.
TypeOK ==
    /\ sessions \in Seq([log : Seq(Message), kept : SUBSET Message,
                         ticket : BOOLEAN, by : 0..MaxLoads])
    /\ Len(sessions) <= MaxSessions
    /\ files \in Seq([session : SessionId, message : 0..MaxSends])
    /\ store \in 0..Len(sessions)
    /\ page \in [session : 0..Len(sessions), ticket : BOOLEAN, messages : Seq(Message),
                 context : 0..MaxSessions, intent : 0..MaxSessions,
                 loading : BOOLEAN, sending : BOOLEAN, resumed : BOOLEAN,
                 error : BOOLEAN, streaming : BOOLEAN, thoughts : BOOLEAN, label : BOOLEAN,
                 timer : BOOLEAN, behind : SUBSET {"messages", "ticket", "store"},
                 stranded : BOOLEAN]
    /\ composer \in [pending : SUBSET FileId, uploading : BOOLEAN]
    /\ entering \in [pc : {"off", "health", "config", "create", "list", "context"}]
                    \cup [pc : {"resume"}, stored : SessionId]
    /\ send \in [pc : {"off", "post", "list", "context", "refresh"}, n : 0..MaxSends,
                 session : 0..MaxSessions]
    /\ upload \in [pc : {"off", "post"}, session : 0..MaxSessions, left : 0..2, done : SUBSET FileId]
    /\ turns \in [1..MaxSends -> [stage : {"none", "sent", "stored", "linked"},
                                  session : 0..MaxSessions, files : SUBSET FileId]]
    /\ other \in [pc : {"off", "resume", "create"}, stored : 0..Len(sessions)]

AtRest == entering.pc = "off" /\ send.pc = "off"

\* At rest and without an error, messages, context, ticket and intent on the
\* screen are of the session on the screen: "New chat" and a message under way
\* exclude each other.  Every message shown is one that was committed, and what
\* is shown is all the API lists, in its order, unless a turn has been committed
\* since of which the page does not know; its rows may belong before others.
ScreenAgrees ==
    (AtRest /\ ~page.error) =>
        LET s == sessions[page.session]
        IN  /\ page.session # 0
            /\ ToSet(page.messages) \subseteq s.kept
            /\ "messages" \in page.behind \/ page.messages = Listed(page.session)
            /\ "ticket" \in page.behind \/ page.ticket = s.ticket
            /\ page.context \in {0, page.session}
            /\ page.intent \in {0, page.session}

\* A message shown before it was sent is replaced or taken back, and one that
\* does not appear among the messages afterwards is answered by an error, as long
\* as the session fits into one listing.
SentIsShownOrError ==
    [][ (send.pc # "off" /\ send'.pc = "off" /\ page' # NewPage) =>
            /\ Optimistic(send.n) \notin ToSet(page'.messages)
            /\ \/ page'.error
               \/ {Row(send.n, "user"), Row(send.n, "assistant")} \subseteq ToSet(page'.messages)
               \/ Len(Visible(send.session)) > ListLimit ]_vars

\* At rest and without an error, the session on the screen is the one a reload
\* comes back to, unless another tab has written the stored session since, or a
\* "New chat" failed after it had forgotten the session the user then went on with.
StoredIsShown ==
    (AtRest /\ ~page.error) =>
        \/ store = page.session
        \/ "store" \in page.behind
        \/ store = 0 /\ page.stranded

\* "Continuing your conversation from earlier" is not said of a session that
\* this page has started.
ResumedIsFromEarlier ==
    (AtRest /\ page.resumed) => sessions[page.session].by # used.loads

\* What page and browser remember of the session is what it is.
SessionIsKnown == StoredIsShown /\ ResumedIsFromEarlier

\* The page says that it is entering a session exactly while it is; nothing on
\* it speaks of a message under way, and no timer runs, when there is none; and
\* while there is one something does, but for the wait for the first thought in
\* a session that has had an answer before.
WorkIsVisible ==
    LET signs == (Notices \cap {"typing", "thoughts"})
                   \cup {sign \in {"status"} : StatusLineShown}
    IN  /\ (entering.pc # "off") <=> ("starting" \in Notices)
        /\ signs # {} \/ page.timer => send.pc # "off"
        /\ send.pc # "off" =>
              signs # {} \/ (page.streaming /\ ~page.label /\ StatusesShown)

\* A file goes to a message of the session it was uploaded to: one that was
\* attached when the user started a new chat is refused.
FilesStayInSession ==
    \A f \in DOMAIN files :
        files[f].message # 0 =>
            Row(files[f].message, "user") \in sessions[files[f].session].kept

\* The page always comes to rest again: every way through entering a session
\* and sending a message, failures included, gives the controls back.
ComesToRest == []<>AtRest

-----------------------------------------------------------------------------
(***************************************************************************)
(* What the documents say and the code does not keep                       *)
(***************************************************************************)

\* "Refresh page | Same session resumes with history" (test and acceptance).
HistoryIsShown ==
    (AtRest /\ ~page.error /\ page.resumed /\ "messages" \notin page.behind) =>
        page.messages = Visible(page.session)
=============================================================================
