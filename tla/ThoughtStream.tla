--------------------------- MODULE ThoughtStream ---------------------------
(***************************************************************************)
(* One message sent with thought streaming: the generator of the API that  *)
(* runs the turn and yields events, the connection, and the page's reader  *)
(* that cuts the text into events again (streamParser.ts, chatClient.ts).  *)
(*                                                                         *)
(* The text is a sequence of symbols, five to an event: the mark "data:",  *)
(* the JSON in two halves, and the two ends of line that close the event   *)
(* (json.dumps leaves none in the payload).  A read returns any part of    *)
(* what is on the wire.                                                    *)
(***************************************************************************)
EXTENDS Naturals, Sequences, SequencesExt, Selection

CONSTANTS
    Thought,        \* thoughts the graph may have
    MaxThoughts     \* bound: thoughts in a turn

ASSUME ThoughtAssumption == Thought \cap {"done", "error", "null", "throws"} = {}
ASSUME MaxThoughtsAssumption == MaxThoughts \in Nat

VARIABLES
    api,        \* where send_message_stream is
    kept,       \* the exchange in Postgres: open, committed or rolled back
    sent,       \* the events yielded
    conn,       \* the connection, as the page sees it
    wire,       \* symbols on their way
    buffer,     \* readThoughtStream's buffer
    got,        \* for the properties: symbols read so far
    handled,    \* the events given to onEvent
    shown,      \* streamedThoughts of the page
    outcome     \* the promise of sendMessageStream

apiVars == <<api, kept, sent>>
readerVars == <<buffer, got, handled, shown>>
vars == <<api, kept, sent, conn, wire, buffer, got, handled, shown, outcome>>

-----------------------------------------------------------------------------
(***************************************************************************)
(* The text                                                                *)
(***************************************************************************)
Event == Thought \cup {"done", "error"}

Symbol ==
    {<<"mark", "">>, <<"nl", "">>} \cup ({"open", "close"} \X Event)

\* _format_sse.
FormatSse(e) ==
    << <<"mark", "">>, <<"open", e>>, <<"close", e>>, <<"nl", "">>, <<"nl", "">> >>

\* The places where a blank line ends.
BlankLines(text) ==
    {i \in 2..Len(text) : text[i][1] = "nl" /\ text[i-1][1] = "nl"}

\* buffer.split("\n\n"): the block that ends with the blank line at i ...
Block(text, i) ==
    SubSeq(text, Max({j \in BlankLines(text) : j < i} \cup {0}) + 1, i - 2)

\* Mutant: what comes after the last blank line is thrown away.
Rest_Dropped(text) == <<>>

\* Mutant: the buffer is not cut.
Rest_Kept(text) == text

\* ... and what is left after the last.
Rest(text) == SubSeq(text, Max(BlankLines(text) \cup {0}) + 1, Len(text))

\* parseEventBlock: a block without "data:" or without payload is no event, and
\* JSON.parse throws on half of one.
ParseEventBlock(block) ==
    LET payload == {i \in DOMAIN block : block[i][1] \in {"open", "close"}}
    IN  IF payload = {} THEN "null"
        ELSE IF \E i \in payload : payload = {i} THEN "throws"
        ELSE block[Min(payload)][2]

\* The blocks that are events, or half of one.
Yielded(results) == Select(results, Event \cup {"throws"})

\* What the whole blocks of the buffer yield, in their order.
Parsed(text) ==
    LET ends == BlankLines(text)
    IN  Yielded([i \in DOMAIN text |->
                    IF i \in ends THEN ParseEventBlock(Block(text, i)) ELSE "null"])

-----------------------------------------------------------------------------
(***************************************************************************)
(* The API: send_message_stream                                            *)
(***************************************************************************)
OnWire(e) == IF conn = "open" THEN wire \o FormatSse(e) ELSE wire

RollBack == IF kept = "open" THEN "rolledback" ELSE kept

\* The route answers before the generator runs: with 200, or with 404 if the
\* feature is off.
Accept ==
    /\ conn = "connecting"
    /\ api = "starting"
    /\ conn' = "open"
    /\ UNCHANGED <<apiVars, wire, readerVars, outcome>>

Refuse ==
    /\ conn = "connecting"
    /\ api = "starting"
    /\ api' = "over"
    /\ kept' = RollBack
    /\ conn' = "refused"
    /\ UNCHANGED <<sent, wire, readerVars, outcome>>

\* The message is flushed and its attachments are linked.
SaveMessage ==
    /\ conn # "connecting"
    /\ api = "starting"
    /\ api' = "thinking"
    /\ UNCHANGED <<kept, sent, conn, wire, readerVars, outcome>>

Think(t) ==
    /\ api = "thinking"
    /\ Len(sent) < MaxThoughts
    /\ sent' = Append(sent, t)
    /\ wire' = OnWire(t)
    /\ UNCHANGED <<api, kept, conn, readerVars, outcome>>

\* _finalize_message_exchange commits, and goes on to Redis.
Commit ==
    /\ api = "thinking"
    /\ api' = "recording"
    /\ kept' = "committed"
    /\ UNCHANGED <<sent, conn, wire, readerVars, outcome>>

Finish ==
    /\ api = "recording"
    /\ api' = "over"
    /\ sent' = Append(sent, "done")
    /\ wire' = OnWire("done")
    /\ UNCHANGED <<kept, conn, readerVars, outcome>>

\* Any exception after the message was saved is rolled back and reported: one
\* of Redis too, which comes after the commit.
Fail ==
    /\ api \in {"thinking", "recording"}
    /\ api' = "over"
    /\ kept' = RollBack
    /\ sent' = Append(sent, "error")
    /\ wire' = OnWire("error")
    /\ UNCHANGED <<conn, readerVars, outcome>>

\* An exception before that (no such session, a refused attachment), or the end
\* of the process, breaks the response off: its status was sent already.
Die ==
    /\ api # "over"
    /\ api' = "over"
    /\ kept' = RollBack
    /\ IF conn \in {"connecting", "open"}
       THEN conn' = "broken" /\ wire' = <<>>
       ELSE UNCHANGED <<conn, wire>>
    /\ UNCHANGED <<sent, readerVars, outcome>>

Close ==
    /\ api = "over"
    /\ conn = "open"
    /\ conn' = "closed"
    /\ UNCHANGED <<apiVars, wire, readerVars, outcome>>

-----------------------------------------------------------------------------
(***************************************************************************)
(* The network: it breaks the connection off, or a proxy ends the response *)
(* in an orderly way wherever it has got to.                               *)
(***************************************************************************)
Break ==
    /\ outcome = "pending"
    /\ conn \in {"connecting", "open", "closed"}
    /\ conn' = "broken"
    /\ wire' = <<>>
    /\ UNCHANGED <<apiVars, readerVars, outcome>>

CutShort ==
    /\ conn = "open"
    /\ conn' = "cut"
    /\ \E n \in 0..Len(wire) : wire' = SubSeq(wire, 1, n)
    /\ UNCHANGED <<apiVars, readerVars, outcome>>

-----------------------------------------------------------------------------
(***************************************************************************)
(* The page: readThoughtStream, sendMessageStream and handleSend's onEvent *)
(***************************************************************************)

\* What ends the loop early: an error event, or half an event.
Stops(events) == {i \in DOMAIN events : events[i] \in {"error", "throws"}}

\* The events given to onEvent before it does.
Heard(events) ==
    IF Stops(events) = {} THEN events
    ELSE Select(SubSeq(events, 1, Min(Stops(events))), Event)

\* A thought that repeats the one before it is not shown again.
ShowThought(thoughts, e) ==
    IF e \in Thought /\ (thoughts = <<>> \/ Last(thoughts) # e)
    THEN Append(thoughts, e) ELSE thoughts

Show(thoughts, events) ==
    LET upTo[i \in 0..Len(events)] ==
            IF i = 0 THEN thoughts ELSE ShowThought(upTo[i - 1], events[i])
    IN  upTo[Len(events)]

Handle(events) ==
    /\ handled' = handled \o Heard(events)
    /\ shown' = Show(shown, Heard(events))

\* reader.read() returns the first n symbols.
Receive(n) ==
    LET text   == buffer \o SubSeq(wire, 1, n)
    IN  /\ outcome = "pending"
        /\ conn \in {"open", "closed", "cut"}
        /\ n \in 1..Len(wire)
        /\ wire' = SubSeq(wire, n + 1, Len(wire))
        /\ buffer' = Rest(text)
        /\ got' = got + n
        /\ \E events \in {Parsed(text)} :
              /\ Handle(events)
              /\ outcome' = IF Stops(events) # {} THEN "rejected" ELSE outcome
        /\ UNCHANGED <<apiVars, conn>>

\* Mutant: the end of the stream is taken for an answer.
Settled_Always(events, all) == IF Stops(events) # {} THEN "rejected" ELSE "resolved"

\* Without a "done" the stream "ended without a final response".
Settled(events, all) ==
    IF Stops(events) # {} \/ "done" \notin ToSet(all) THEN "rejected" ELSE "resolved"

\* The end of the stream: what is left in the buffer is a block too.
EndOfStream ==
    LET events == Yielded(<<ParseEventBlock(buffer)>>)
    IN  /\ outcome = "pending"
        /\ conn \in {"closed", "cut"}
        /\ wire = <<>>
        /\ Handle(events)
        /\ outcome' = Settled(events, handled \o Heard(events))
        /\ UNCHANGED <<apiVars, conn, wire, buffer, got>>

\* Mutant: only the status of the response is looked at.
Reject_StatusOnly ==
    /\ outcome = "pending"
    /\ conn = "refused"
    /\ outcome' = "rejected"
    /\ UNCHANGED <<apiVars, conn, wire, readerVars>>

\* A response that is not ok, or a connection that broke, rejects: also after
\* "done" was read.
Reject ==
    /\ outcome = "pending"
    /\ conn \in {"refused", "broken"}
    /\ outcome' = "rejected"
    /\ UNCHANGED <<apiVars, conn, wire, readerVars>>

-----------------------------------------------------------------------------
ApiStep ==
    \/ Accept \/ Refuse \/ SaveMessage \/ Commit \/ Finish \/ Fail \/ Die \/ Close
    \/ \E t \in Thought : Think(t)

PageStep ==
    \/ \E n \in 1..Len(wire) : Receive(n)
    \/ EndOfStream
    \/ Reject

Init ==
    /\ api = "starting" /\ kept = "open" /\ sent = <<>>
    /\ conn = "connecting" /\ wire = <<>>
    /\ buffer = <<>> /\ got = 0 /\ handled = <<>> /\ shown = <<>>
    /\ outcome = "pending"

Next == ApiStep \/ PageStep \/ Break \/ CutShort

Spec == Init /\ [][Next]_vars

\* The generator goes on (its awaits return or raise, and the graph ends), and a
\* read returns.  A connection that delivers nothing for ever is not excluded by
\* the code, which sets no timeout: this is an assumption about browser and
\* proxy.
Fairness == WF_vars(ApiStep) /\ WF_vars(PageStep)

FairSpec == Spec /\ Fairness

-----------------------------------------------------------------------------
(***************************************************************************)
(* Properties                                                              *)
(***************************************************************************)

\* The API, the connection and the reader hold values of their types, and the
\* buffer never keeps a whole event.
TypeOK ==
    /\ api \in {"starting", "thinking", "recording", "over"}
    /\ kept \in {"open", "committed", "rolledback"}
    /\ sent \in Seq(Event) /\ handled \in Seq(Event) /\ shown \in Seq(Thought)
    /\ conn \in {"connecting", "refused", "open", "closed", "cut", "broken"}
    /\ wire \in Seq(Symbol) /\ buffer \in Seq(Symbol)
    /\ Len(buffer) < 5
    /\ got \in Nat
    /\ outcome \in {"pending", "resolved", "rejected"}

\* Events that have arrived whole.  The blank line of the last may be missing
\* when the stream has ended.
Arrived ==
    got \div 5 + (IF outcome # "pending" /\ conn \in {"closed", "cut"} /\ got % 5 >= 3
                  THEN 1 ELSE 0)

WithoutRepeats(thoughts) ==
    LET news == {i \in DOMAIN thoughts : i = 1 \/ thoughts[i] # thoughts[i-1]}
        at   == Select([i \in DOMAIN thoughts |-> i], news)
    IN  [i \in DOMAIN at |-> thoughts[at[i]]]

\* Where the text is cut into reads makes no difference: the page handles the
\* events that arrived, each once and in order, and shows their thoughts.
ChunksAreInvisible ==
    /\ handled = SubSeq(sent, 1, Arrived)
    /\ shown = WithoutRepeats(Select(handled, Thought))

\* If the connection delivered everything and ended as the API ended it, the
\* promise says what became of the turn: resolved exactly if it got to the end.
UndisturbedIsTrue ==
    (outcome # "pending" /\ conn = "closed") =>
        (outcome = "resolved" <=> Last(sent) = "done")

\* The page knows of the stream what the stream said.
ReaderIsFaithful == ChunksAreInvisible /\ UndisturbedIsTrue

Abstract == INSTANCE Exchange

\* Whatever the connection does, an answer is shown only of an exchange that is
\* committed.
ImplementsExchange == Abstract!Spec

\* Every send settles.
EverySendSettles == <>(outcome # "pending")
=============================================================================
