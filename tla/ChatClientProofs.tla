-------------------------- MODULE ChatClientProofs --------------------------
(***************************************************************************)
(* Proofs about ChatClient for every number of sessions, messages, files,  *)
(* status rows, loads of the page and doings of other tabs: its types, and *)
(* that what the page shows, says and remembers is so.                     *)
(*                                                                         *)
(* Held and Turning are what is known of the API, its sessions and turns;  *)
(* Going what the chains of fetches count on.  View is about the screen.   *)
(* What it promises at rest is not inductive: a chain of fetches replaces  *)
(* the screen piece by piece, so View says of each piece from which fetch  *)
(* on it is right.                                                         *)
(***************************************************************************)
EXTENDS ChatClient, SelectionProofs

Session == [log : Seq(Message), kept : SUBSET Message, ticket : BOOLEAN, by : 0..MaxLoads]
File == [session : SessionId, message : 0..MaxSends]
Sent == [pc : {"off", "post", "list", "context", "refresh"}, n : 0..MaxSends,
         session : 0..MaxSessions]
Upload == [pc : {"off", "post"}, session : 0..MaxSessions, left : 0..2, done : SUBSET FileId]
Page(k) ==
    [session : 0..k, ticket : BOOLEAN, messages : Seq(Message),
     context : 0..MaxSessions, intent : 0..MaxSessions,
     loading : BOOLEAN, sending : BOOLEAN, resumed : BOOLEAN,
     error : BOOLEAN, streaming : BOOLEAN, thoughts : BOOLEAN, label : BOOLEAN,
     timer : BOOLEAN, behind : SUBSET {"messages", "ticket", "store"}, stranded : BOOLEAN]
Composer == [pending : SUBSET FileId, uploading : BOOLEAN]
Turn(k) == [stage : {"none", "sent", "stored", "linked"}, session : 0..k,
            files : SUBSET FileId]
Other(k) == [pc : {"off", "resume", "create"}, stored : 0..k]
Used == [sends : 0..MaxSends, loads : 1..MaxLoads, elsewhere : Nat]

Exchanged(n) == {Row(n, "user"), Row(n, "assistant")}

\* What the rows of a session x are: only the page has messages that are not
\* sent yet, no answer is kept without its question, and what is kept of an
\* exchange has its place.
Sound(x) ==
    /\ x \in Session
    /\ \A m \in x.kept : ~m.optimistic
    /\ \A n \in 1..MaxSends :
          /\ Row(n, "assistant") \in x.kept => Row(n, "user") \in x.kept
          /\ Exchanged(n) \cap x.kept \subseteq ToSet(x.log)

\* A file that went to a message went to one of its session.
Filed(f) ==
    /\ files[f].session \in DOMAIN sessions
    /\ files[f].message # 0 =>
          Row(files[f].message, "user") \in sessions[files[f].session].kept

Held ==
    /\ sessions \in Seq(Session) /\ Len(sessions) <= MaxSessions
    /\ files \in Seq(File)
    /\ \A f \in DOMAIN files : Filed(f)
    /\ used \in Used
    /\ \A s \in DOMAIN sessions : sessions[s].by <= used.loads /\ Sound(sessions[s])

\* A turn is of a message that was sent, and its question is kept from its
\* commit on, not before.
Turning ==
    /\ turns \in [1..MaxSends -> Turn(Len(sessions))]
    /\ \A n \in 1..MaxSends :
          /\ turns[n].stage # "none" => n <= used.sends /\ turns[n].session # 0
          /\ turns[n].stage \in {"stored", "linked"} =>
                Row(n, "user") \in ToSet(sessions[turns[n].session].log)
          /\ n > used.sends \/ turns[n].stage \in {"sent", "stored"} =>
                \A s \in DOMAIN sessions : Row(n, "user") \notin sessions[s].kept

Going ==
    /\ store \in 0..Len(sessions)
    /\ page \in Page(Len(sessions))
    /\ composer \in Composer
    /\ \/ entering \in [pc : {"off", "health", "config", "create", "list", "context"}]
       \/ entering \in [pc : {"resume"}, stored : 1..Len(sessions)]
    /\ send \in Sent
    /\ send.pc # "off" => send.n # 0 /\ send.session # 0 /\ send.session = page.session
    /\ upload \in Upload
    /\ upload.pc = "post" =>
          /\ upload.session \in 1..Len(sessions) /\ upload.left # 0
          /\ Len(files) + upload.left <= MaxFiles
    /\ other \in Other(Len(sessions))

Boot == {"health", "config", "resume"}

\* The page does one thing at a time, and shows which.
WorkOK ==
    /\ page.loading <=> (entering.pc # "off")
    /\ page.sending <=> (send.pc # "off")
    /\ entering.pc = "off" \/ send.pc = "off"
    /\ page.timer => page.sending
    /\ page.sending => page.streaming \/ page.label
    /\ entering.pc # "off" => page.intent = 0
    /\ entering.pc \in Boot => page.session = 0
    /\ entering.pc \in Boot \cup {"create"} => ~page.resumed

Settled == AtRest /\ ~page.error

\* The messages are of the session and, unless others were at work, all that
\* the API lists; m being the messages, behind what others have changed.
MessagesOf(m, behind, s) ==
    /\ ToSet(m) \subseteq sessions[s].kept
    /\ "messages" \in behind \/ m = Listed(s)

\* Each piece of the screen is right from the fetch that brings it on.
ScreenOK ==
    /\ entering.pc \in {"list", "context"} \/ Settled => page.session # 0
    /\ send.pc \in {"context", "refresh"} \/ entering.pc = "context" \/ Settled =>
          MessagesOf(page.messages, page.behind, page.session)
    /\ entering.pc \in {"list", "context"} \/ Settled =>
          "ticket" \in page.behind \/ page.ticket = sessions[page.session].ticket
    /\ send.pc = "refresh" \/ Settled => page.context \in {0, page.session}
    /\ send.pc \in {"list", "context", "refresh"} \/ Settled =>
          page.intent \in {0, page.session}

\* The browser comes back to what the page shows, error or not.
StoreOK ==
    /\ page.session # 0 /\ entering.pc \in {"off", "list", "context"} =>
          \/ store = page.session
          \/ "store" \in page.behind
          \/ store = 0 /\ page.stranded
    /\ entering.pc = "create" => store = 0 \/ "store" \in page.behind

\* A page that is being loaded has found all sessions, not created them.
ResumedOK ==
    /\ entering.pc \in Boot => \A s \in DOMAIN sessions : sessions[s].by # used.loads
    /\ page.resumed => page.session # 0 /\ sessions[page.session].by # used.loads

\* A message that was answered is committed, and then shown, if the API lists it.
Answered ==
    /\ send.pc \in {"list", "context", "refresh"} =>
          Exchanged(send.n) \subseteq sessions[send.session].kept
    /\ send.pc \in {"context", "refresh"} =>
          \/ Exchanged(send.n) \subseteq ToSet(page.messages)
          \/ Len(Visible(send.session)) > ListLimit

View == WorkOK /\ ScreenOK /\ StoreOK /\ ResumedOK /\ Answered

IInv == Held /\ Turning /\ Going /\ View

-----------------------------------------------------------------------------
(***************************************************************************)
(* Rows                                                                    *)
(***************************************************************************)

\* Session y is x with rows added.
Grown(x, y) ==
    /\ y.by = x.by
    /\ x.kept \subseteq y.kept
    /\ \E rows \in Seq(Message) : y.log = x.log \o rows

\* A row has its number and its role.
LEMMA RowFacts ==
    ASSUME NEW n \in 0..MaxSends, NEW role \in {"user", "assistant", "system"}
    PROVE  /\ Row(n, role) \in Message /\ ~Row(n, role).optimistic
           /\ Row(n, role).n = n /\ Row(n, role).role = role
BY DEF Row, Message

\* Rows that are added at the end leave the others where they are.
LEMMA AddedRows ==
    ASSUME NEW log \in Seq(Message), NEW rows \in Seq(Message)
    PROVE  /\ log \o rows \in Seq(Message)
           /\ ToSet(log \o rows) = ToSet(log) \cup ToSet(rows)
<1> DEFINE more == log \o rows
<1>1. Len(log) \in Nat /\ Len(rows) \in Nat /\ DOMAIN log = 1..Len(log)
      /\ DOMAIN rows = 1..Len(rows)
  BY LenProperties
<1>2. /\ more \in Seq(Message)
      /\ Len(more) = Len(log) + Len(rows)
      /\ \A i \in 1..Len(log) + Len(rows) :
            more[i] = IF i <= Len(log) THEN log[i] ELSE rows[i - Len(log)]
  BY ConcatProperties
<1>3. DOMAIN more = 1..Len(log) + Len(rows)
  BY <1>2, LenProperties
<1> HIDE DEF more
<1>4. \A i \in DOMAIN more : more[i] \in ToSet(log) \cup ToSet(rows)
  <2> SUFFICES ASSUME NEW i \in DOMAIN more
               PROVE  more[i] \in ToSet(log) \cup ToSet(rows)
    OBVIOUS
  <2>1. CASE i <= Len(log)
    BY <1>1, <1>2, <1>3, <2>1 DEF ToSet
  <2>2. CASE ~(i <= Len(log))
    <3>1. i - Len(log) \in DOMAIN rows /\ more[i] = rows[i - Len(log)]
      BY <1>1, <1>2, <1>3, <2>2
    <3> QED BY <3>1 DEF ToSet
  <2> QED BY <2>1, <2>2
<1>5. \A i \in DOMAIN log : log[i] \in ToSet(more)
  BY <1>1, <1>2, <1>3 DEF ToSet
<1>6. \A i \in DOMAIN rows : rows[i] \in ToSet(more)
  <2> SUFFICES ASSUME NEW i \in DOMAIN rows PROVE rows[i] \in ToSet(more)
    OBVIOUS
  <2>1. i + Len(log) \in DOMAIN more /\ (i + Len(log)) - Len(log) = i
        /\ ~(i + Len(log) <= Len(log))
    BY <1>1, <1>3
  <2>2. more[i + Len(log)] = rows[i]
    BY <1>1, <1>2, <1>3, <2>1
  <2> QED BY <2>1, <2>2 DEF ToSet
<1>7. ToSet(more) = ToSet(log) \cup ToSet(rows)
  BY <1>4, <1>5, <1>6 DEF ToSet
<1> QED BY <1>2, <1>7 DEF more

\* A row by itself.
LEMMA OneRow ==
    ASSUME NEW m \in Message
    PROVE  <<m>> \in Seq(Message) /\ ToSet(<<m>>) = {m}
<1> DEFINE c == <<m>>
<1>1. c \in Seq(Message) /\ Len(c) = 1 /\ c[1] = m
  OBVIOUS
<1>2. DOMAIN c = {1}
  BY <1>1
<1> HIDE DEF c
<1> QED BY <1>1, <1>2 DEF ToSet, c

\* The smaller of two numbers.
LEMMA AtMost ==
    ASSUME NEW j \in Nat, NEW k \in Nat
    PROVE  \E n \in Nat : /\ n = (IF j < k THEN j ELSE k)
                          /\ n <= j /\ (j <= k => n = j)
                          /\ \A i \in 1..n : i \in 1..j
OBVIOUS

\* The first rows of a listing, all of them if they are few.
LEMMA FirstRows ==
    ASSUME NEW v \in Seq(Message), NEW k \in Nat,
           NEW first, first = SubSeq(v, 1, IF Len(v) < k THEN Len(v) ELSE k)
    PROVE  /\ first \in Seq(Message)
           /\ ToSet(first) \subseteq ToSet(v)
           /\ Len(v) <= k => first = v
<1>1. Len(v) \in Nat /\ DOMAIN v = 1..Len(v)
  BY LenProperties
<1>2. PICK n \in Nat : /\ n = (IF Len(v) < k THEN Len(v) ELSE k)
                       /\ n <= Len(v) /\ (Len(v) <= k => n = Len(v))
                       /\ \A i \in 1..n : i \in 1..Len(v)
  BY <1>1, AtMost
<1> DEFINE l == SubSeq(v, 1, n)
<1>3. first = l
  BY <1>2
<1>4. \A i \in 1..n : v[i] \in Message /\ i \in DOMAIN v
  BY <1>1, <1>2, ElementOfSeq
<1>5. /\ l \in Seq(Message)
      /\ Len(l) = IF 1 <= n THEN n - 1 + 1 ELSE 0
      /\ \A i \in 1..n - 1 + 1 : l[i] = v[1 + i - 1]
  BY <1>4, SubSeqProperties
<1>6. n = Len(v) => l = v
  BY SubSeqFull
<1> HIDE DEF l
<1>7. Len(l) = n /\ \A i \in 1..n : l[i] = v[i]
  BY <1>5
<1>8. DOMAIN l = 1..n
  BY <1>5, <1>7, LenProperties
<1>9. ToSet(l) \subseteq ToSet(v)
  BY <1>4, <1>7, <1>8 DEF ToSet
<1> QED BY <1>2, <1>3, <1>5, <1>6, <1>9

\* What is committed of a session, and what the API lists of it.
LEMMA ListedFacts ==
    ASSUME NEW s, Sound(sessions[s])
    PROVE  /\ Visible(s) \in Seq(Message) /\ Len(Visible(s)) \in Nat /\ ListLimit \in Nat
           /\ \A n \in 1..MaxSends : Exchanged(n) \subseteq sessions[s].kept =>
                                        Exchanged(n) \subseteq ToSet(Visible(s))
           /\ Listed(s) \in Seq(Message)
           /\ ToSet(Listed(s)) \subseteq sessions[s].kept
           /\ Len(Visible(s)) <= ListLimit => Listed(s) = Visible(s)
<1>1. sessions[s].log \in Seq(Message)
  BY DEF Sound, Session
<1>2. Visible(s) \in Seq(Message)
      /\ ToSet(Visible(s)) = ToSet(sessions[s].log) \cap sessions[s].kept
  BY <1>1, SelectType, SelectRange DEF Visible
<1>3. \A k \in 1..MaxSends : Exchanged(k) \subseteq sessions[s].kept =>
                                Exchanged(k) \subseteq ToSet(Visible(s))
  BY <1>2 DEF Sound
<1>4. Len(Visible(s)) \in Nat /\ ListLimit \in Nat
  BY <1>2, ListLimitAssumption, LenProperties
<1>5. PICK first : first = SubSeq(Visible(s), 1, IF Len(Visible(s)) < ListLimit
                                                 THEN Len(Visible(s)) ELSE ListLimit)
  OBVIOUS
<1>6. Listed(s) = first
  BY <1>5 DEF Listed
<1>7. /\ Listed(s) \in Seq(Message) /\ ToSet(Listed(s)) \subseteq ToSet(Visible(s))
      /\ Len(Visible(s)) <= ListLimit => Listed(s) = Visible(s)
  BY <1>2, <1>4, <1>5, <1>6, FirstRows
<1> QED BY <1>2, <1>3, <1>4, <1>7

\* Of a session that has grown no fewer rows are committed.
LEMMA GrownFacts ==
    ASSUME NEW x, NEW y, Sound(x), Sound(y), Grown(x, y)
    PROVE  /\ ToSet(x.log) \subseteq ToSet(y.log)
           /\ Len(Select(x.log, x.kept)) \in Nat /\ Len(Select(y.log, y.kept)) \in Nat
           /\ Len(Select(x.log, x.kept)) <= Len(Select(y.log, y.kept))
<1>1. PICK rows \in Seq(Message) : y.log = x.log \o rows
  BY DEF Grown
<1> DEFINE log == x.log
           more == y.log
           kept == x.kept
           wide == y.kept
<1>2. log \in Seq(Message) /\ more \in Seq(Message) /\ kept \subseteq wide
  BY DEF Sound, Session, Grown
<1>3. more = log \o rows
  BY <1>1
<1> HIDE DEF log, more, kept, wide
<1>4. ToSet(log) \subseteq ToSet(more)
  BY <1>2, <1>3, AddedRows
<1>5. Len(Select(log, kept)) <= Len(Select(more, kept))
  BY <1>2, <1>3, SelectLonger
<1>6. Len(Select(more, kept)) <= Len(Select(more, wide))
  BY <1>2, SelectMore
<1>7. /\ Len(Select(log, kept)) \in Nat /\ Len(Select(more, kept)) \in Nat
      /\ Len(Select(more, wide)) \in Nat
  BY <1>2, SelectType, LenProperties
<1>8. Len(Select(log, kept)) <= Len(Select(more, wide))
  BY <1>5, <1>6, <1>7
<1> QED BY <1>4, <1>7, <1>8 DEF log, more, kept, wide

\* A session that does not change has grown by nothing.
LEMMA GrownSame ==
    ASSUME NEW x, Sound(x)
    PROVE  Grown(x, x)
<1>1. x.log \in Seq(Message)
  BY DEF Sound, Session
<1>2. x.log \o <<>> = x.log /\ <<>> \in Seq(Message)
  BY <1>1, EmptySeq
<1> QED BY <1>2 DEF Grown

-----------------------------------------------------------------------------
(***************************************************************************)
(* What the API does: sessions are created, rows are added and committed   *)
(***************************************************************************)
SessionsKept ==
    /\ sessions' \in Seq(Session) /\ Len(sessions') <= MaxSessions
    /\ Len(sessions) <= Len(sessions')
    /\ \A s \in DOMAIN sessions' : Sound(sessions'[s])
    /\ \A s \in DOMAIN sessions :
          s \in DOMAIN sessions' /\ Grown(sessions[s], sessions'[s])

\* What is known of the API's sessions and files.
LEMMA HeldFacts ==
    ASSUME Held
    PROVE  /\ Len(sessions) \in Nat /\ DOMAIN sessions = 1..Len(sessions)
           /\ Len(files) \in Nat /\ DOMAIN files = 1..Len(files)
           /\ \A s \in DOMAIN sessions : sessions[s] \in Session /\ s \in SessionId
           /\ \A f \in DOMAIN files : files[f] \in File
<1>1. /\ Len(sessions) \in Nat /\ DOMAIN sessions = 1..Len(sessions)
      /\ Len(files) \in Nat /\ DOMAIN files = 1..Len(files)
  BY LenProperties DEF Held
<1>2. \A s \in DOMAIN sessions : sessions[s] \in Session
  BY <1>1, ElementOfSeq DEF Held
<1>3. \A f \in DOMAIN files : files[f] \in File
  BY <1>1, ElementOfSeq DEF Held
<1>4. MaxSessions \in Nat /\ Len(sessions) <= MaxSessions
  BY BoundsAssumption DEF Held
<1>5. \A s \in DOMAIN sessions : s \in SessionId
  BY <1>1, <1>4 DEF SessionId
<1> QED BY <1>1, <1>2, <1>3, <1>5

\* Sessions that do not change are kept.
LEMMA SameIsKept ==
    ASSUME Held, UNCHANGED sessions
    PROVE  SessionsKept
<1>1. \A s \in DOMAIN sessions : Sound(sessions[s]) /\ Grown(sessions[s], sessions[s])
  BY GrownSame DEF Held
<1>2. Len(sessions) \in Nat
  BY HeldFacts
<1> QED BY <1>1, <1>2 DEF SessionsKept, Held

\* A file stays with its message when sessions grow.
LEMMA FiledGoesOn ==
    ASSUME Held, SessionsKept, UNCHANGED files
    PROVE  \A f \in DOMAIN files' : Filed(f)'
BY DEF Held, Filed, SessionsKept, Grown

\* A turn of a message n at the API: it changes one session, which becomes x, and
\* goes on as t; what it commits are rows of its message.
LEMMA TurnHeld ==
    ASSUME Held, Turning, NEW n \in 1..MaxSends, NEW s \in DOMAIN sessions, NEW x,
           sessions' = [sessions EXCEPT ![s] = x],
           Sound(x), Grown(sessions[s], x),
           \A m \in x.kept \ sessions[s].kept : m.n = n,
           files' \in Seq(File), Len(files') = Len(files),
           SessionsKept => \A f \in DOMAIN files' : Filed(f)',
           NEW t \in Turn(Len(sessions)),
           turns' = [turns EXCEPT ![n] = t],
           t.stage # "none" => n <= used.sends /\ t.session = s,
           t.stage \in {"stored", "linked"} => Row(n, "user") \in ToSet(x.log),
           t.stage \in {"sent", "stored"} =>
              /\ turns[n].stage \in {"sent", "stored"} /\ x.kept = sessions[s].kept,
           n <= used.sends,
           UNCHANGED used
    PROVE  /\ Held' /\ Turning' /\ SessionsKept /\ Len(sessions') = Len(sessions)
           /\ \A u \in DOMAIN sessions : sessions'[u] = IF u = s THEN x ELSE sessions[u]
<1>1. /\ Len(sessions) \in Nat /\ DOMAIN sessions = 1..Len(sessions)
      /\ \A u \in DOMAIN sessions : sessions[u] \in Session
      /\ sessions \in Seq(Session) /\ Len(sessions) <= MaxSessions
      /\ \A u \in DOMAIN sessions : sessions[u].by <= used.loads /\ Sound(sessions[u])
      /\ used \in Used
  BY HeldFacts DEF Held
<1>2. x \in Session /\ x.by = sessions[s].by
  BY DEF Sound, Grown
<1>3. /\ sessions' \in Seq(Session) /\ Len(sessions') = Len(sessions)
      /\ \A u \in DOMAIN sessions : sessions'[u] = IF u = s THEN x ELSE sessions[u]
  BY <1>1, <1>2, ExceptSeq
<1>4. DOMAIN sessions' = DOMAIN sessions
  BY <1>1, <1>3, LenProperties
<1>5. SessionsKept
  <2>1. \A u \in DOMAIN sessions : Grown(sessions[u], sessions'[u])
    BY <1>1, <1>3, GrownSame
  <2> QED BY <1>1, <1>3, <1>4, <2>1 DEF SessionsKept
<1>6. Held'
  BY <1>1, <1>2, <1>3, <1>4, <1>5 DEF Held
<1>7. Turning'
  <2>1. /\ turns' \in [1..MaxSends -> Turn(Len(sessions'))]
        /\ turns'[n] = t
        /\ \A k \in 1..MaxSends \ {n} : turns'[k] = turns[k]
    BY <1>3 DEF Turning
  <2>2. ASSUME NEW k \in 1..MaxSends
        PROVE  /\ turns'[k].stage # "none" => k <= used'.sends /\ turns'[k].session # 0
               /\ turns'[k].stage \in {"stored", "linked"} =>
                     Row(k, "user") \in ToSet(sessions'[turns'[k].session].log)
               /\ k > used'.sends \/ turns'[k].stage \in {"sent", "stored"} =>
                     \A u \in DOMAIN sessions' : Row(k, "user") \notin sessions'[u].kept
    <3>1. CASE k = n
      <4>1. t.stage # "none" => k <= used'.sends /\ t.session # 0
        BY <1>1, <3>1
      <4>2. t.stage \in {"stored", "linked"} => Row(k, "user") \in ToSet(sessions'[t.session].log)
        BY <1>3, <3>1
      <4>3. ~(k > used'.sends)
        <5>1. used.sends \in 0..MaxSends
          BY <1>1 DEF Used
        <5> QED BY <3>1, <5>1
      <4>4. t.stage \in {"sent", "stored"} =>
               \A u \in DOMAIN sessions' : Row(k, "user") \notin sessions'[u].kept
        BY <1>3, <1>4, <3>1 DEF Turning
      <4> QED BY <2>1, <3>1, <4>1, <4>2, <4>3, <4>4
    <3>2. CASE k # n
      <4>1. turns'[k] = turns[k]
        BY <2>1, <3>2
      <4>2. turns[k].stage # "none" => k <= used.sends /\ turns[k].session # 0
        BY DEF Turning
      <4>3. ASSUME turns[k].stage \in {"stored", "linked"}
            PROVE  Row(k, "user") \in ToSet(sessions'[turns[k].session].log)
        <5>1. Row(k, "user") \in ToSet(sessions[turns[k].session].log)
          BY <4>3 DEF Turning
        <5>2. turns[k].session \in DOMAIN sessions
          <6>1. turns[k].session # 0 /\ turns[k].session \in 0..Len(sessions)
            BY <4>2, <4>3 DEF Turning, Turn
          <6> QED BY <1>1, <6>1
        <5>3. ToSet(sessions[turns[k].session].log) \subseteq ToSet(sessions'[turns[k].session].log)
          BY <1>1, <1>5, <5>2, GrownFacts DEF SessionsKept
        <5> QED BY <5>1, <5>3
      <4>4. ASSUME k > used.sends \/ turns[k].stage \in {"sent", "stored"},
                   NEW u \in DOMAIN sessions
            PROVE  Row(k, "user") \notin sessions'[u].kept
        <5>1. Row(k, "user") \notin sessions[u].kept
          BY <4>4 DEF Turning
        <5>2. Row(k, "user").n # n
          BY <3>2 DEF Row
        <5> QED BY <1>3, <5>1, <5>2
      <4> QED BY <1>4, <4>1, <4>2, <4>3, <4>4
    <3> QED BY <3>1, <3>2
  <2> QED BY <2>1, <2>2 DEF Turning
<1> QED BY <1>3, <1>5, <1>6, <1>7

\* A message arrives at the API and begins its turn.
LEMMA StartTurnFacts ==
    ASSUME Held, Turning, NEW s \in DOMAIN sessions, NEW fs \in SUBSET FileId,
           used.sends < MaxSends, StartTurn(used.sends + 1, s, fs),
           UNCHANGED sessions, used' \in Used, used'.sends = used.sends + 1
    PROVE  Turning'
<1> DEFINE n == used.sends + 1
           t == [stage |-> "sent", session |-> s, files |-> fs]
<1>1. /\ used.sends \in Nat /\ MaxSends \in Nat /\ Len(sessions) \in Nat
      /\ DOMAIN sessions = 1..Len(sessions)
  BY HeldFacts, BoundsAssumption DEF Held, Used
<1>2. n \in 1..MaxSends
  BY <1>1
<1>3. turns' = [turns EXCEPT ![n] = t]
  BY DEF StartTurn
<1>4. t \in Turn(Len(sessions)) /\ t.stage = "sent" /\ t.session = s /\ s # 0
  BY <1>1 DEF Turn
<1> HIDE DEF n, t
<1>5. /\ turns' \in [1..MaxSends -> Turn(Len(sessions'))]
      /\ turns'[n] = t
      /\ \A k \in 1..MaxSends \ {n} : turns'[k] = turns[k]
  BY <1>2, <1>3, <1>4 DEF Turning
<1>6. n > used.sends /\ n <= used'.sends
  BY <1>1 DEF n
<1>7. ASSUME NEW k \in 1..MaxSends
      PROVE  /\ turns'[k].stage # "none" => k <= used'.sends /\ turns'[k].session # 0
             /\ turns'[k].stage \in {"stored", "linked"} =>
                   Row(k, "user") \in ToSet(sessions'[turns'[k].session].log)
             /\ k > used'.sends \/ turns'[k].stage \in {"sent", "stored"} =>
                   \A u \in DOMAIN sessions' : Row(k, "user") \notin sessions'[u].kept
  <2>1. CASE k = n
    <3>1. \A u \in DOMAIN sessions : Row(k, "user") \notin sessions[u].kept
      BY <1>6, <2>1 DEF Turning
    <3> QED BY <1>4, <1>5, <1>6, <2>1, <3>1
  <2>2. CASE k # n
    <3>1. turns'[k] = turns[k]
      BY <1>5, <2>2
    <3>2. k <= used.sends => k <= used'.sends
      BY <1>1
    <3>3. k > used'.sends => k > used.sends
      BY <1>1
    <3> QED BY <3>1, <3>2, <3>3 DEF Turning
  <2> QED BY <2>1, <2>2
<1> QED BY <1>5, <1>7 DEF Turning

\* What a new session is at the API.
LEMMA CreateFacts ==
    ASSUME Held, Turning, NEW by \in 0..used.loads, Create(by), UNCHANGED files,
           UNCHANGED turns, used' \in Used, used'.loads = used.loads, used'.sends = used.sends
    PROVE  /\ Held' /\ Turning' /\ SessionsKept /\ Len(sessions') = Len(sessions) + 1
           /\ \A u \in DOMAIN sessions : sessions'[u] = sessions[u]
           /\ Len(sessions') \in DOMAIN sessions'
           /\ sessions'[Len(sessions')].by = by
           /\ \A u \in DOMAIN sessions' : u \in DOMAIN sessions \/ u = Len(sessions')
<1> DEFINE new == NewSession(by)
<1>1. /\ Len(sessions) \in Nat /\ DOMAIN sessions = 1..Len(sessions)
      /\ \A u \in DOMAIN sessions : sessions[u] \in Session
      /\ sessions \in Seq(Session) /\ files \in Seq(File)
      /\ \A u \in DOMAIN sessions : sessions[u].by <= used.loads /\ Sound(sessions[u])
      /\ used \in Used
  BY HeldFacts DEF Held
<1>2. Len(sessions) < MaxSessions /\ sessions' = Append(sessions, new) /\ MaxSessions \in Nat
  BY BoundsAssumption DEF Create
<1>3. used.loads \in 1..MaxLoads /\ MaxLoads \in Nat
  BY <1>1, BoundsAssumption DEF Used
<1>4. /\ Sound(new) /\ new.by = by
      /\ \A n \in 1..MaxSends : Row(n, "user") \notin new.kept
  <2> DEFINE m == Row(0, "assistant")
             c == <<m>>
  <2>1. 0 \in 0..MaxSends
    BY BoundsAssumption
  <2>2. m \in Message /\ ~m.optimistic /\ m.n = 0
    BY <2>1, RowFacts
  <2>3. c \in Seq(Message) /\ ToSet(c) = {m}
    <3> HIDE DEF m
    <3> QED BY <2>2, OneRow
  <2>4. new = [log |-> c, kept |-> {m}, ticket |-> FALSE, by |-> by]
    BY DEF NewSession
  <2>5. \A n \in 1..MaxSends : Row(n, "user") # m /\ Row(n, "assistant") # m
    BY <2>2 DEF Row
  <2>6. by \in 0..MaxLoads
    BY <1>3
  <2> HIDE DEF m, c, new
  <2>7. new \in Session /\ new.kept = {m} /\ new.log = c /\ new.by = by
    BY <2>2, <2>3, <2>4, <2>6 DEF Session
  <2> QED BY <2>2, <2>3, <2>5, <2>7 DEF Sound, Exchanged
<1> HIDE DEF new
<1>5. new \in Session
  BY <1>4 DEF Sound
<1>6. /\ sessions' \in Seq(Session) /\ Len(sessions') = Len(sessions) + 1
      /\ \A u \in 1..Len(sessions) : sessions'[u] = sessions[u]
      /\ sessions'[Len(sessions) + 1] = new
  BY <1>1, <1>2, <1>5, AppendProperties
<1>7. DOMAIN sessions' = 1..Len(sessions) + 1
  BY <1>6, LenProperties
<1>8. Len(sessions') \in DOMAIN sessions' /\ Len(sessions') <= MaxSessions
      /\ \A u \in DOMAIN sessions' : u \in DOMAIN sessions \/ u = Len(sessions')
  BY <1>1, <1>2, <1>6, <1>7
<1>9. \A u \in DOMAIN sessions' : /\ sessions'[u].by <= used'.loads /\ Sound(sessions'[u])
                                  /\ u \in DOMAIN sessions \/ sessions'[u] = new
  <2>1. by <= used.loads
    BY <1>3
  <2> QED BY <1>1, <1>4, <1>6, <1>8, <2>1
<1>10. SessionsKept
  BY <1>1, <1>6, <1>7, <1>8, <1>9, GrownSame DEF SessionsKept
<1>11. Held'
  <2>1. \A f \in DOMAIN files' : Filed(f)'
    BY <1>10, FiledGoesOn
  <2> QED BY <1>1, <1>6, <1>8, <1>9, <2>1 DEF Held
<1>12. Turning'
  <2>1. turns \in [1..MaxSends -> Turn(Len(sessions))]
    BY DEF Turning
  <2>2. 0..Len(sessions) \subseteq 0..Len(sessions')
    BY <1>1, <1>6
  <2>3. Turn(Len(sessions)) \subseteq Turn(Len(sessions'))
    BY <2>2 DEF Turn
  <2>4. turns' \in [1..MaxSends -> Turn(Len(sessions'))]
    BY <2>1, <2>3
  <2>5. ASSUME NEW n \in 1..MaxSends, turns[n].stage \in {"stored", "linked"}
        PROVE  Row(n, "user") \in ToSet(sessions'[turns[n].session].log)
    <3>1. turns[n].session # 0 /\ turns[n].session \in 0..Len(sessions)
      BY <2>1, <2>5 DEF Turning, Turn
    <3>2. turns[n].session \in DOMAIN sessions
      BY <1>1, <3>1
    <3> QED BY <1>1, <1>6, <2>5, <3>2 DEF Turning
  <2>6. ASSUME NEW n \in 1..MaxSends, NEW u \in DOMAIN sessions',
               n > used.sends \/ turns[n].stage \in {"sent", "stored"}
        PROVE  Row(n, "user") \notin sessions'[u].kept
    BY <1>1, <1>4, <1>6, <1>9, <2>6 DEF Turning
  <2> QED BY <2>4, <2>5, <2>6 DEF Turning
<1> QED BY <1>1, <1>4, <1>6, <1>8, <1>10, <1>11, <1>12

-----------------------------------------------------------------------------
(***************************************************************************)
(* Frame lemmas                                                            *)
(***************************************************************************)
LEMMA PageGrows ==
    ASSUME NEW k \in Nat, NEW m \in Nat, k <= m
    PROVE  Page(k) \subseteq Page(m) /\ Other(k) \subseteq Other(m) /\ 0..k \subseteq 0..m
<1>1. 0..k \subseteq 0..m
  OBVIOUS
<1>2. Page(k) \subseteq Page(m)
  BY <1>1 DEF Page
<1>3. Other(k) \subseteq Other(m)
  BY <1>1 DEF Other
<1> QED BY <1>1, <1>2, <1>3

\* A step of the page that asks nothing new of the API.
LEMMA PageStep ==
    ASSUME IInv, UNCHANGED <<sessions, files, upload, turns, other, used>>,
           store' \in 0..Len(sessions),
           page' \in Page(Len(sessions)),
           composer' \in Composer,
           \/ entering' \in [pc : {"off", "health", "config", "create", "list", "context"}]
           \/ entering' \in [pc : {"resume"}, stored : 1..Len(sessions)],
           send' \in Sent,
           send'.pc # "off" => send'.n # 0 /\ send'.session # 0 /\ send'.session = page'.session,
           View'
    PROVE  IInv'
<1>1. Held'
  BY DEF IInv, Held, Filed
<1>2. Turning'
  BY DEF IInv, Turning
<1>3. Going'
  BY DEF IInv, Going
<1> QED BY <1>1, <1>2, <1>3 DEF IInv

\* A step of the page that the API answers: what it knows grows.
LEMMA ApiStep ==
    ASSUME IInv, Held', Turning', Len(sessions) <= Len(sessions'), Len(files') = Len(files),
           UNCHANGED <<upload, other>>,
           store' \in 0..Len(sessions'),
           page' \in Page(Len(sessions')),
           composer' \in Composer,
           \/ entering' \in [pc : {"off", "health", "config", "create", "list", "context"}]
           \/ entering' \in [pc : {"resume"}, stored : 1..Len(sessions')],
           send' \in Sent,
           send'.pc # "off" => send'.n # 0 /\ send'.session # 0 /\ send'.session = page'.session,
           View'
    PROVE  IInv'
<1>1. Len(sessions) \in Nat /\ Len(sessions') \in Nat
  BY LenProperties DEF IInv, Held
<1>2. /\ upload \in Upload /\ other \in Other(Len(sessions))
      /\ upload.pc = "post" =>
            /\ upload.session \in 1..Len(sessions) /\ upload.left # 0
            /\ Len(files) + upload.left <= MaxFiles
  BY DEF IInv, Going
<1>3. /\ upload' \in Upload
      /\ upload'.pc = "post" =>
            /\ upload'.session \in 1..Len(sessions') /\ upload'.left # 0
            /\ Len(files') + upload'.left <= MaxFiles
  BY <1>1, <1>2
<1>4. other' \in Other(Len(sessions'))
  BY <1>1, <1>2, PageGrows
<1>5. Going'
  BY <1>3, <1>4 DEF Going
<1> QED BY <1>5 DEF IInv

\* What others do leaves the page right, or behind: b is what it is behind in.
LEMMA ViewGoesOn ==
    ASSUME IInv, SessionsKept, Len(sessions') \in Nat, NEW b,
           page.behind \subseteq b, b \subseteq {"messages", "ticket", "store"},
           page' = [page EXCEPT !.behind = b],
           UNCHANGED <<entering, send>>, used'.loads = used.loads,
           store' = store \/ "store" \in b,
           \A u \in DOMAIN sessions' \ DOMAIN sessions : sessions'[u].by = 0,
           page.session # 0 =>
              \/ send.pc = "post"
              \/ {"messages", "ticket"} \subseteq b
              \/ /\ Listed(page.session)' = Listed(page.session)
                 /\ sessions'[page.session].ticket = sessions[page.session].ticket
    PROVE  page' \in Page(Len(sessions')) /\ page'.session = page.session /\ View'
<1>1. /\ Held /\ page \in Page(Len(sessions)) /\ store \in 0..Len(sessions)
      /\ Len(sessions) \in Nat /\ DOMAIN sessions = 1..Len(sessions)
      /\ page.session \in 0..Len(sessions)
      /\ used.loads \in 1..MaxLoads /\ MaxLoads \in Nat
  BY HeldFacts, BoundsAssumption DEF IInv, Going, Page, Held, Used
<1>2. /\ page' \in Page(Len(sessions))
      /\ page'.session = page.session /\ page'.ticket = page.ticket
      /\ page'.messages = page.messages /\ page'.context = page.context
      /\ page'.intent = page.intent /\ page'.loading = page.loading
      /\ page'.sending = page.sending /\ page'.resumed = page.resumed
      /\ page'.error = page.error /\ page'.timer = page.timer
      /\ page'.streaming = page.streaming /\ page'.label = page.label
      /\ page'.stranded = page.stranded /\ page'.behind = b
  BY <1>1 DEF Page
<1>3. page' \in Page(Len(sessions'))
  BY <1>1, <1>2, PageGrows DEF SessionsKept
<1>4. page.session # 0 => page.session \in DOMAIN sessions
  BY <1>1
<1>5. ASSUME NEW u \in DOMAIN sessions
      PROVE  /\ u \in DOMAIN sessions'
             /\ sessions'[u].by = sessions[u].by /\ sessions[u].kept \subseteq sessions'[u].kept
             /\ Sound(sessions[u]) /\ Sound(sessions'[u]) /\ Grown(sessions[u], sessions'[u])
  BY <1>1 DEF SessionsKept, Held, Grown
<1>6. WorkOK'
  BY <1>2 DEF IInv, View, WorkOK, Boot
<1>7. ScreenOK'
  <2>1. ScreenOK /\ (send.pc # "off" => page.session # 0) /\ WorkOK
    BY DEF IInv, View, Going
  <2>2. Settled' <=> Settled
    BY <1>2 DEF Settled, AtRest
  <2>3. ASSUME page.session # 0, send.pc # "post",
               MessagesOf(page.messages, page.behind, page.session)
        PROVE  MessagesOf(page.messages, page.behind, page.session)'
    <3>1. ToSet(page'.messages) \subseteq sessions'[page'.session].kept
      BY <1>2, <1>4, <1>5, <2>3 DEF MessagesOf
    <3>2. "messages" \in b \/ page.messages = Listed(page.session)'
      BY <2>3 DEF MessagesOf
    <3> QED BY <1>2, <3>1, <3>2 DEF MessagesOf
  <2>4. ASSUME page.session # 0, send.pc # "post",
               "ticket" \in page.behind \/ page.ticket = sessions[page.session].ticket
        PROVE  "ticket" \in page'.behind \/ page'.ticket = sessions'[page'.session].ticket
    BY <1>2, <2>4
  <2>5. send.pc = "post" => ~Settled /\ entering.pc = "off"
    BY <2>1 DEF Settled, AtRest, WorkOK
  <2>6. entering.pc \in {"list", "context"} \/ Settled => page.session # 0
    BY <2>1 DEF ScreenOK
  <2>7. send.pc \in {"context", "refresh"} \/ entering.pc = "context" \/ Settled =>
          MessagesOf(page.messages, page.behind, page.session)'
    BY <2>1, <2>3, <2>5, <2>6 DEF ScreenOK
  <2>8. entering.pc \in {"list", "context"} \/ Settled =>
          "ticket" \in page'.behind \/ page'.ticket = sessions'[page'.session].ticket
    BY <2>1, <2>4, <2>5, <2>6 DEF ScreenOK
  <2> QED BY <1>2, <2>1, <2>2, <2>6, <2>7, <2>8 DEF ScreenOK
<1>8. StoreOK'
  BY <1>2 DEF IInv, View, StoreOK
<1>9. ResumedOK'
  <2>1. ASSUME entering.pc \in Boot, NEW u \in DOMAIN sessions'
        PROVE  sessions'[u].by # used'.loads
    <3>1. CASE u \in DOMAIN sessions
      BY <1>5, <2>1, <3>1 DEF IInv, View, ResumedOK
    <3>2. CASE u \notin DOMAIN sessions
      BY <1>1, <3>2
    <3> QED BY <3>1, <3>2
  <2>2. page.resumed => page.session # 0 /\ sessions'[page.session].by # used'.loads
    BY <1>4, <1>5 DEF IInv, View, ResumedOK
  <2> QED BY <1>2, <2>1, <2>2 DEF ResumedOK
<1>10. Answered'
  <2>1. CASE send.pc = "off"
    BY <2>1 DEF Answered
  <2>2. CASE send.pc # "off"
    <3>1. Answered /\ send.session \in DOMAIN sessions
      BY <1>4, <2>2 DEF IInv, View, Going
    <3>2. sessions[send.session].kept \subseteq sessions'[send.session].kept
      BY <1>5, <3>1
    <3>3. /\ Len(Visible(send.session)) <= Len(Visible(send.session))'
          /\ Len(Visible(send.session)) \in Nat /\ Len(Visible(send.session))' \in Nat
          /\ ListLimit \in Nat
      BY <1>5, <3>1, GrownFacts, ListLimitAssumption DEF Visible
    <3>4. Len(Visible(send.session)) > ListLimit => Len(Visible(send.session))' > ListLimit
      BY <3>3
    <3> QED BY <1>2, <3>1, <3>2, <3>4 DEF Answered
  <2> QED BY <2>1, <2>2
<1> QED BY <1>2, <1>3, <1>6, <1>7, <1>8, <1>9, <1>10 DEF View

\* A page that has failed to enter a session, or to send, is left with what
\* it had.
LEMMA FailedEntering ==
    ASSUME IInv, entering.pc # "off", EnterFailed, UNCHANGED <<store, send, used>>,
           \A u \in DOMAIN sessions : sessions'[u].by = sessions[u].by
    PROVE  /\ page' \in Page(Len(sessions))
           /\ entering' \in [pc : {"off"}]
           /\ View'
<1>1. entering' = [pc |-> "off"]
      /\ page' = [page EXCEPT !.error = TRUE, !.loading = FALSE,
                              !.stranded = @ \/ entering.pc = "create"]
  BY DEF EnterFailed, NotEntering
<1>2. page \in Page(Len(sessions))
  BY DEF IInv, Going
<1>3. PICK b \in BOOLEAN : b = (page.stranded \/ entering.pc = "create")
  OBVIOUS
<1>4. page' = [page EXCEPT !.error = TRUE, !.loading = FALSE, !.stranded = b]
  BY <1>1, <1>3
<1>5. page' \in Page(Len(sessions))
  BY <1>2, <1>4 DEF Page
<1>6. /\ page'.session = page.session /\ page'.intent = page.intent /\ ~page'.loading
      /\ page'.sending = page.sending /\ page'.resumed = page.resumed
      /\ page'.error /\ page'.timer = page.timer /\ page'.stranded = b
      /\ page'.behind = page.behind
  BY <1>2, <1>4 DEF Page
<1>7. entering'.pc = "off" /\ entering' \in [pc : {"off"}]
  BY <1>1
<1>8. /\ entering.pc \in {"health", "config", "create", "list", "context", "resume"}
  BY DEF IInv, Going
<1>9. send.pc = "off" /\ ~page.sending /\ ~page.timer
  BY DEF IInv, View, WorkOK
<1>10. View'
  <2>1. WorkOK'
    BY <1>6, <1>7, <1>9 DEF WorkOK, Boot
  <2>2. ScreenOK'
    BY <1>6, <1>7, <1>9 DEF ScreenOK, Settled
  <2>3. /\ store # 0 => sessions'[store].by = sessions[store].by
        /\ page.session # 0 => sessions'[page.session].by = sessions[page.session].by
    <3>1. /\ store \in 0..Len(sessions) /\ page.session \in 0..Len(sessions)
          /\ Len(sessions) \in Nat /\ DOMAIN sessions = 1..Len(sessions)
      BY <1>2, HeldFacts DEF IInv, Going, Page
    <3> QED BY <3>1
  <2>4. StoreOK'
    BY <1>3, <1>6, <1>7, <1>8, <2>3 DEF IInv, View, WorkOK, StoreOK, Boot
  <2>5. ResumedOK'
    BY <1>6, <1>7, <2>3 DEF IInv, View, ResumedOK, Boot
  <2>6. Answered'
    BY <1>6, <1>9 DEF Answered
  <2> QED BY <2>1, <2>2, <2>4, <2>5, <2>6 DEF View
<1> QED BY <1>5, <1>7, <1>10

-----------------------------------------------------------------------------
(***************************************************************************)
(* Entering a session                                                      *)
(***************************************************************************)
LEMMA HealthStep ==
    ASSUME IInv, NEW healthy \in BOOLEAN, CheckApiHealth(healthy)
    PROVE  IInv'
<1>1. entering.pc = "health"
      /\ UNCHANGED <<sessions, files, store, composer, send, upload, turns, other, used>>
  BY DEF CheckApiHealth
<1>2. CASE healthy
  <2>1. entering' = [pc |-> "config"] /\ UNCHANGED page
    BY <1>2 DEF CheckApiHealth
  <2>2. View'
    BY <1>1, <2>1
       DEF IInv, View, WorkOK, ScreenOK, StoreOK, ResumedOK, Settled, AtRest, Boot, Answered
  <2> QED BY <1>1, <2>1, <2>2, PageStep DEF IInv, Going
<1>3. CASE ~healthy
  <2>1. EnterFailed
    BY <1>3 DEF CheckApiHealth
  <2>2. page' \in Page(Len(sessions)) /\ entering' \in [pc : {"off"}] /\ View'
    BY <1>1, <2>1, FailedEntering
  <2>3. send.pc = "off"
    BY <1>1 DEF IInv, View, WorkOK
  <2> QED BY <1>1, <2>2, <2>3, PageStep DEF IInv, Going
<1> QED BY <1>2, <1>3

\* The page learns how it is to stream, and whether it has a session.
LEMMA ConfigStep ==
    ASSUME IInv, NEW streaming \in Streaming \cup {FALSE}, GetPublicConfig(streaming)
    PROVE  IInv'
<1>1. /\ entering.pc = "config" /\ page' = [page EXCEPT !.streaming = streaming]
      /\ entering' = IF store # 0 THEN [pc |-> "resume", stored |-> store] ELSE [pc |-> "create"]
      /\ UNCHANGED <<sessions, files, store, composer, send, upload, turns, other, used>>
  BY DEF GetPublicConfig
<1>2. page \in Page(Len(sessions)) /\ store \in 0..Len(sessions) /\ Len(sessions) \in Nat
  BY HeldFacts DEF IInv, Going
<1>3. streaming \in BOOLEAN
  BY StreamingAssumption
<1>4. /\ page' \in Page(Len(sessions))
      /\ page'.session = page.session /\ page'.ticket = page.ticket
      /\ page'.messages = page.messages /\ page'.context = page.context
      /\ page'.intent = page.intent /\ page'.loading = page.loading
      /\ page'.sending = page.sending /\ page'.resumed = page.resumed
      /\ page'.error = page.error /\ page'.timer = page.timer
      /\ page'.behind = page.behind /\ page'.stranded = page.stranded
  BY <1>1, <1>2, <1>3 DEF Page
<1>5. /\ entering'.pc \in {"resume", "create"}
      /\ entering'.pc = "create" => store = 0
      /\ \/ entering' \in [pc : {"off", "health", "config", "create", "list", "context"}]
         \/ entering' \in [pc : {"resume"}, stored : 1..Len(sessions)]
  BY <1>1, <1>2
<1>6. send.pc = "off" /\ page.session = 0
  BY <1>1 DEF IInv, View, WorkOK, Boot
<1>7. View'
  BY <1>1, <1>4, <1>5, <1>6
     DEF IInv, View, WorkOK, ScreenOK, StoreOK, ResumedOK, Settled, AtRest, Boot, Answered
<1> QED BY <1>1, <1>2, <1>4, <1>5, <1>6, <1>7, PageStep DEF IInv, Going

\* setSession: the page has its session, and the browser will come back to it.
LEMMA Entering ==
    ASSUME Held', page \in Page(Len(sessions)), send.pc = "off", UNCHANGED send,
           WorkOK, entering.pc # "off", Len(sessions) <= Len(sessions'),
           NEW s \in DOMAIN sessions', NEW resumed \in BOOLEAN,
           page' = [page EXCEPT !.session = s, !.ticket = sessions'[s].ticket,
                                !.resumed = resumed, !.behind = {}, !.stranded = FALSE],
           store' = s, entering' = [pc |-> "list"],
           resumed => sessions'[s].by # used'.loads
    PROVE  /\ page' \in Page(Len(sessions')) /\ store' \in 0..Len(sessions')
           /\ entering' \in [pc : {"list"}]
           /\ View'
<1>1. /\ page' = [page EXCEPT !.session = s, !.ticket = sessions'[s].ticket,
                              !.resumed = resumed, !.behind = {}, !.stranded = FALSE]
      /\ store' = s
      /\ entering' = [pc |-> "list"]
  OBVIOUS
<1>2. /\ sessions' \in Seq(Session) /\ Len(sessions') \in Nat
      /\ DOMAIN sessions' = 1..Len(sessions') /\ sessions'[s] \in Session
  BY LenProperties, ElementOfSeq DEF Held
<1>3. s \in 0..Len(sessions') /\ s # 0
  BY <1>2
<1>4. page \in Page(Len(sessions'))
  <2>1. 0..Len(sessions) \subseteq 0..Len(sessions')
    BY <1>2
  <2> QED BY <2>1 DEF Page
<1>5. page' \in Page(Len(sessions'))
  <2>1. sessions'[s].ticket \in BOOLEAN
    BY <1>2 DEF Session
  <2> QED BY <1>1, <1>3, <1>4, <2>1 DEF Page
<1>6. /\ page'.session = s /\ page'.ticket = sessions'[s].ticket /\ page'.behind = {}
      /\ page'.resumed = resumed /\ page'.intent = page.intent
      /\ page'.loading = page.loading /\ page'.sending = page.sending
      /\ page'.error = page.error /\ page'.timer = page.timer
  BY <1>1, <1>4 DEF Page
<1>7. entering'.pc = "list" /\ entering' \in [pc : {"list"}]
  BY <1>1
<1>8. WorkOK'
  BY <1>6, <1>7 DEF WorkOK, Boot
<1>9. ScreenOK'
  BY <1>3, <1>6, <1>7 DEF ScreenOK, Settled, AtRest
<1>10. StoreOK' /\ ResumedOK' /\ Answered'
  BY <1>1, <1>3, <1>6, <1>7 DEF StoreOK, ResumedOK, Boot, Answered
<1> QED BY <1>1, <1>3, <1>5, <1>7, <1>8, <1>9, <1>10 DEF View

\* The stored session is looked for.
LEMMA ResumeStep ==
    ASSUME IInv, NEW ok \in BOOLEAN, ResumeSession(ok)
    PROVE  IInv'
<1>1. entering.pc = "resume"
      /\ UNCHANGED <<sessions, files, composer, send, upload, turns, other, used>>
  BY DEF ResumeSession
<1>2. /\ Held /\ page \in Page(Len(sessions)) /\ Len(sessions) \in Nat
      /\ DOMAIN sessions = 1..Len(sessions)
      /\ send.pc = "off" /\ page.session = 0 /\ WorkOK
      /\ entering.stored \in DOMAIN sessions
  <2>1. Held /\ Len(sessions) \in Nat /\ DOMAIN sessions = 1..Len(sessions)
    BY HeldFacts DEF IInv
  <2>2. page \in Page(Len(sessions)) /\ WorkOK
    BY DEF IInv, Going, View
  <2>3. send.pc = "off" /\ page.session = 0
    BY <1>1, <2>2 DEF WorkOK, Boot
  <2>4. entering \in [pc : {"resume"}, stored : 1..Len(sessions)]
    BY <1>1 DEF IInv, Going
  <2> QED BY <2>1, <2>2, <2>3, <2>4
<1>3. CASE ok
  <2>1. /\ page' = [page EXCEPT !.session = entering.stored,
                                !.ticket = sessions'[entering.stored].ticket,
                                !.resumed = TRUE, !.behind = {}, !.stranded = FALSE]
        /\ store' = entering.stored /\ entering' = [pc |-> "list"]
    BY <1>3 DEF ResumeSession, Enter, Stored
  <2>2. Held'
    BY <1>1, <1>2 DEF Held, Filed
  <2>3. sessions'[entering.stored].by # used'.loads
    BY <1>1, <1>2 DEF IInv, View, ResumedOK, Boot
  <2>4. /\ page' \in Page(Len(sessions')) /\ store' \in 0..Len(sessions')
        /\ entering' \in [pc : {"list"}]
        /\ View'
    <3> DEFINE s == entering.stored
    <3>1. /\ s \in DOMAIN sessions' /\ sessions'[s].by # used'.loads
          /\ page' = [page EXCEPT !.session = s, !.ticket = sessions'[s].ticket,
                                  !.resumed = TRUE, !.behind = {}, !.stranded = FALSE]
          /\ store' = s /\ entering' = [pc |-> "list"]
          /\ Len(sessions) <= Len(sessions') /\ entering.pc # "off" /\ UNCHANGED send
      BY <1>1, <1>2, <2>1, <2>3
    <3> HIDE DEF s
    <3> QED BY <1>2, <2>2, <3>1, Entering
  <2> QED BY <1>1, <1>2, <2>4, PageStep DEF IInv, Going
<1>4. CASE ~ok
  <2>1. store' = 0 /\ entering' = [pc |-> "create"] /\ UNCHANGED page
    BY <1>4 DEF ResumeSession
  <2>2. View'
    BY <1>1, <1>2, <2>1
       DEF IInv, View, WorkOK, ScreenOK, StoreOK, ResumedOK, Settled, AtRest, Boot, Answered
  <2> QED BY <1>1, <1>2, <2>1, <2>2, PageStep DEF IInv, Going
<1> QED BY <1>3, <1>4

\* Its messages are shown, or an error.
LEMMA ListOnEnteringStep ==
    ASSUME IInv, NEW ok \in BOOLEAN, ListOnEntering(ok)
    PROVE  IInv'
<1>1. entering.pc = "list"
      /\ UNCHANGED <<sessions, files, store, composer, send, upload, turns, other, used>>
  BY DEF ListOnEntering
<1>2. /\ page \in Page(Len(sessions)) /\ send.pc = "off" /\ page.session \in DOMAIN sessions
      /\ Sound(sessions[page.session])
  <2>1. page \in Page(Len(sessions)) /\ WorkOK /\ page.session # 0
    BY <1>1 DEF IInv, Going, View, ScreenOK
  <2>2. page.session \in 0..Len(sessions) /\ DOMAIN sessions = 1..Len(sessions)
        /\ Len(sessions) \in Nat
    BY <2>1, HeldFacts DEF Page, IInv
  <2>3. page.session \in DOMAIN sessions
    BY <2>1, <2>2
  <2>4. Sound(sessions[page.session])
    BY <2>3 DEF IInv, Held
  <2> QED BY <1>1, <2>1, <2>3, <2>4 DEF WorkOK
<1>3. CASE ok
  <2> DEFINE l == Listed(page.session)
  <2>1. page' = [page EXCEPT !.messages = l, !.behind = @ \ {"messages"}]
        /\ entering' = [pc |-> "context"]
    BY <1>3 DEF ListOnEntering, ShowMessages
  <2>2. l \in Seq(Message) /\ ToSet(l) \subseteq sessions[page.session].kept
    BY <1>2, ListedFacts
  <2> HIDE DEF l
  <2>4. page' \in Page(Len(sessions))
    BY <1>2, <2>1, <2>2 DEF Page
  <2>5. /\ page'.session = page.session /\ page'.ticket = page.ticket
        /\ page'.messages = l /\ page'.context = page.context
        /\ page'.intent = page.intent /\ page'.loading = page.loading
        /\ page'.sending = page.sending /\ page'.resumed = page.resumed
        /\ page'.error = page.error /\ page'.timer = page.timer
        /\ page'.behind = page.behind \ {"messages"} /\ page'.stranded = page.stranded
    BY <1>2, <2>1 DEF Page
  <2>6. entering'.pc = "context"
    BY <2>1
  <2>7. WorkOK'
    BY <1>1, <1>2, <2>5, <2>6 DEF IInv, View, WorkOK, Boot
  <2>8. ScreenOK'
    <3>1. page'.messages = Listed(page.session)'
      BY <1>1, <2>5 DEF Listed, Visible, l
    <3>2. MessagesOf(page.messages, page.behind, page.session)'
      BY <1>1, <2>2, <2>5, <3>1 DEF MessagesOf
    <3> QED BY <1>1, <1>2, <2>5, <2>6, <3>2 DEF IInv, View, ScreenOK, Settled, AtRest
  <2>9. StoreOK' /\ ResumedOK' /\ Answered'
    BY <1>1, <1>2, <2>5, <2>6 DEF IInv, View, StoreOK, ResumedOK, Boot, Answered
  <2>10. View'
    BY <2>7, <2>8, <2>9 DEF View
  <2> QED BY <1>1, <1>2, <2>1, <2>4, <2>10, PageStep DEF IInv, Going
<1>4. CASE ~ok
  <2>1. EnterFailed
    BY <1>4 DEF ListOnEntering
  <2>2. page' \in Page(Len(sessions)) /\ entering' \in [pc : {"off"}] /\ View'
    BY <1>1, <2>1, FailedEntering
  <2> QED BY <1>1, <1>2, <2>2, PageStep DEF IInv, Going
<1> QED BY <1>3, <1>4

\* Its support context is shown.
LEMMA ContextOnEnteringStep ==
    ASSUME IInv, NEW known \in BOOLEAN, GetContextOnEntering(known)
    PROVE  IInv'
<1> DEFINE c == SessionContext(page.session, known)
<1>1. /\ entering.pc = "context"
      /\ page' = [page EXCEPT !.context = c, !.loading = FALSE]
      /\ entering' = [pc |-> "off"]
      /\ UNCHANGED <<sessions, files, store, composer, send, upload, turns, other, used>>
  BY DEF GetContextOnEntering, NotEntering
<1>2. page \in Page(Len(sessions)) /\ send.pc = "off" /\ c \in {0, page.session}
      /\ c \in 0..MaxSessions
  <2>1. /\ page \in Page(Len(sessions)) /\ Len(sessions) \in Nat /\ Len(sessions) <= MaxSessions
        /\ MaxSessions \in Nat
    BY HeldFacts, BoundsAssumption DEF IInv, Going, Held
  <2>2. page.session \in 0..Len(sessions)
    BY <2>1 DEF Page
  <2>3. c \in {0, page.session}
    BY DEF SessionContext
  <2>4. send.pc = "off"
    BY <1>1 DEF IInv, View, WorkOK
  <2> HIDE DEF c
  <2> QED BY <2>1, <2>2, <2>3, <2>4
<1> HIDE DEF c
<1>3. page' \in Page(Len(sessions))
  BY <1>1, <1>2 DEF Page
<1>4. /\ page'.session = page.session /\ page'.ticket = page.ticket
      /\ page'.messages = page.messages /\ page'.context = c
      /\ page'.intent = page.intent /\ ~page'.loading
      /\ page'.sending = page.sending /\ page'.resumed = page.resumed
      /\ page'.error = page.error /\ page'.timer = page.timer
      /\ page'.behind = page.behind /\ page'.stranded = page.stranded
  BY <1>1, <1>2 DEF Page
<1>5. entering'.pc = "off"
  BY <1>1
<1>6. View'
  <2>1. WorkOK'
    BY <1>1, <1>2, <1>4, <1>5 DEF IInv, View, WorkOK, Boot
  <2>2. ScreenOK'
    BY <1>1, <1>2, <1>4, <1>5
       DEF IInv, View, WorkOK, ScreenOK, Settled, AtRest, MessagesOf, Listed, Visible
  <2>3. StoreOK' /\ ResumedOK' /\ Answered'
    BY <1>1, <1>2, <1>4, <1>5 DEF IInv, View, StoreOK, ResumedOK, Boot, Answered
  <2> QED BY <2>1, <2>2, <2>3 DEF View
<1> QED BY <1>1, <1>2, <1>3, <1>6, PageStep DEF IInv, Going

\* The user starts a new session.
LEMMA StartNewStep ==
    ASSUME IInv, StartNewSession
    PROVE  IInv'
<1>1. /\ ~page.loading /\ ~page.sending
      /\ page' = [page EXCEPT !.loading = TRUE, !.error = FALSE, !.resumed = FALSE,
                              !.intent = 0]
      /\ store' = 0
      /\ entering' = [pc |-> "create"]
      /\ UNCHANGED <<sessions, files, composer, send, upload, turns, other, used>>
  BY DEF StartNewSession, CanStartNew
<1>2. page \in Page(Len(sessions)) /\ send.pc = "off" /\ entering.pc = "off"
      /\ Len(sessions) \in Nat
  BY <1>1, HeldFacts DEF IInv, Going, View, WorkOK
<1>3. page' \in Page(Len(sessions))
  <2>1. 0 \in 0..MaxSessions
    BY BoundsAssumption
  <2> QED BY <1>1, <1>2, <2>1 DEF Page
<1>4. /\ page'.session = page.session /\ page'.intent = 0 /\ page'.loading
      /\ page'.sending = page.sending /\ ~page'.resumed
      /\ page'.error = FALSE /\ page'.timer = page.timer
  BY <1>1, <1>2 DEF Page
<1>5. entering'.pc = "create"
  BY <1>1
<1>6. View'
  <2>1. WorkOK'
    BY <1>1, <1>2, <1>4, <1>5 DEF IInv, View, WorkOK, Boot
  <2>2. ScreenOK'
    BY <1>1, <1>2, <1>4, <1>5 DEF ScreenOK, Settled, AtRest
  <2>3. StoreOK' /\ ResumedOK' /\ Answered'
    BY <1>1, <1>2, <1>4, <1>5 DEF StoreOK, ResumedOK, Boot, Answered
  <2> QED BY <2>1, <2>2, <2>3 DEF View
<1> QED BY <1>1, <1>2, <1>3, <1>6, PageStep DEF IInv, Going

\* The API has made it, and the answer arrives or is lost.
LEMMA CreateStep ==
    ASSUME IInv, NEW created \in BOOLEAN, NEW ok \in BOOLEAN, CreateSession(created, ok)
    PROVE  IInv'
<1>1. /\ entering.pc = "create"
      /\ ok => created
      /\ created => Create(used.loads)
      /\ ~created => UNCHANGED sessions
      /\ UNCHANGED <<files, composer, send, upload, turns, other, used>>
  BY DEF CreateSession
<1>2. /\ Held /\ Turning /\ page \in Page(Len(sessions)) /\ WorkOK
      /\ composer \in Composer /\ send \in Sent /\ store \in 0..Len(sessions)
      /\ Len(sessions) \in Nat /\ used \in Used
  BY HeldFacts DEF IInv, Going, View, Held
<1>3. send.pc = "off" /\ ~page.resumed
  BY <1>1, <1>2 DEF WorkOK
<1>4. /\ Held' /\ Turning' /\ Len(sessions) <= Len(sessions') /\ Len(sessions') \in Nat
      /\ \A u \in DOMAIN sessions : sessions'[u].by = sessions[u].by
      /\ created => Len(sessions') \in DOMAIN sessions'
  <2>1. CASE created
    <3>1. used.loads \in 0..used.loads
      BY <1>2, BoundsAssumption DEF Used
    <3>2. /\ Held' /\ Turning' /\ SessionsKept
          /\ Len(sessions') \in DOMAIN sessions'
      BY <1>1, <1>2, <2>1, <3>1, CreateFacts
    <3>3. Len(sessions') \in Nat
      BY <3>2, LenProperties DEF Held
    <3> QED BY <3>2, <3>3 DEF SessionsKept, Grown
  <2>2. CASE ~created
    <3>1. Held'
      BY <1>1, <1>2, <2>2 DEF Held, Filed
    <3>2. Turning'
      BY <1>1, <1>2, <2>2 DEF Turning
    <3> QED BY <1>1, <1>2, <2>2, <3>1, <3>2
  <2> QED BY <2>1, <2>2
<1>5. Page(Len(sessions)) \subseteq Page(Len(sessions')) /\ store \in 0..Len(sessions')
  <2>1. /\ Page(Len(sessions)) \subseteq Page(Len(sessions'))
        /\ 0..Len(sessions) \subseteq 0..Len(sessions')
    BY <1>2, <1>4, PageGrows
  <2> QED BY <1>2, <2>1
<1>6. CASE ok
  <2> DEFINE s == Len(sessions')
             resumed == page.resumed
  <2>1. /\ page' = [page EXCEPT !.session = s, !.ticket = sessions'[s].ticket,
                                !.resumed = resumed, !.behind = {}, !.stranded = FALSE]
        /\ store' = s
        /\ entering' = [pc |-> "list"]
    BY <1>6 DEF CreateSession, Enter, Stored
  <2>2. s \in DOMAIN sessions' /\ resumed \in BOOLEAN /\ ~resumed
    BY <1>1, <1>2, <1>3, <1>4, <1>6 DEF Page
  <2> HIDE DEF s, resumed
  <2>3. /\ page' \in Page(Len(sessions')) /\ store' \in 0..Len(sessions')
        /\ entering' \in [pc : {"list"}]
        /\ View'
    BY <1>1, <1>2, <1>3, <1>4, <2>1, <2>2, Entering
  <2> QED BY <1>1, <1>2, <1>3, <1>4, <1>5, <2>3, ApiStep
<1>7. CASE ~ok
  <2>1. EnterFailed /\ UNCHANGED store
    BY <1>7 DEF CreateSession
  <2>2. page' \in Page(Len(sessions)) /\ entering' \in [pc : {"off"}] /\ View'
    BY <1>1, <1>4, <2>1, FailedEntering
  <2>3. page' \in Page(Len(sessions'))
    BY <1>5, <2>2
  <2> QED BY <1>1, <1>2, <1>3, <1>4, <1>5, <2>1, <2>2, <2>3, ApiStep
<1> QED BY <1>6, <1>7

-----------------------------------------------------------------------------
(***************************************************************************)
(* Sending a message                                                       *)
(***************************************************************************)

\* What a page and its composer are left with once a message is over.
LEMMA SentOver ==
    ASSUME NEW p \in Page(Len(sessions)), NEW failed \in BOOLEAN, composer \in Composer,
           send \in Sent, SendOver(p, failed)
    PROVE  /\ page' \in Page(Len(sessions))
           /\ page'.session = p.session /\ page'.ticket = p.ticket
           /\ page'.messages = Select(p.messages, Message \ {Optimistic(send.n)})
           /\ page'.context = p.context /\ page'.intent = p.intent
           /\ page'.loading = p.loading /\ ~page'.sending /\ page'.resumed = p.resumed
           /\ page'.error = failed /\ ~page'.timer /\ ~page'.label
           /\ page'.behind = p.behind /\ page'.stranded = p.stranded
           /\ composer' \in Composer
           /\ send' \in Sent /\ send'.pc = "off"
<1> DEFINE l == Select(p.messages, Message \ {Optimistic(send.n)})
<1>1. /\ page' = [p EXCEPT !.sending = FALSE, !.label = FALSE, !.thoughts = FALSE,
                           !.timer = FALSE, !.error = failed, !.messages = l]
      /\ composer' = [composer EXCEPT !.pending = {}]
      /\ send' = [pc |-> "off", n |-> 0, session |-> 0]
  BY DEF SendOver, NotSending
<1>2. l \in Seq(Message)
  <2>1. p.messages \in Seq(Message)
    BY DEF Page
  <2> QED BY <2>1, SelectType
<1> HIDE DEF l
<1>3. page' \in Page(Len(sessions))
  BY <1>1, <1>2 DEF Page
<1>4. /\ page'.session = p.session /\ page'.ticket = p.ticket
      /\ page'.messages = l
      /\ page'.context = p.context /\ page'.intent = p.intent
      /\ page'.loading = p.loading /\ ~page'.sending /\ page'.resumed = p.resumed
      /\ page'.error = failed /\ ~page'.timer /\ ~page'.label
      /\ page'.behind = p.behind /\ page'.stranded = p.stranded
  BY <1>1 DEF Page
<1>5. composer' \in Composer
  BY <1>1 DEF Composer
<1>6. send' \in Sent /\ send'.pc = "off"
  <2>1. 0 \in 0..MaxSends /\ 0 \in 0..MaxSessions
    BY BoundsAssumption
  <2> QED BY <1>1, <2>1 DEF Sent
<1> QED BY <1>3, <1>4, <1>5, <1>6 DEF l

\* A page that has failed to send shows the error, and the session it had.
LEMMA FailedSending ==
    ASSUME IInv, send.pc # "off", NEW failed \in BOOLEAN, failed, SendOver(page, failed),
           UNCHANGED <<store, entering, used>>,
           \A u \in DOMAIN sessions : sessions'[u].by = sessions[u].by
    PROVE  /\ page' \in Page(Len(sessions))
           /\ composer' \in Composer
           /\ send' \in Sent /\ send'.pc = "off"
           /\ View'
<1>1. /\ page \in Page(Len(sessions)) /\ composer \in Composer /\ send \in Sent
      /\ store \in 0..Len(sessions) /\ Len(sessions) \in Nat
      /\ DOMAIN sessions = 1..Len(sessions)
  BY HeldFacts DEF IInv, Going
<1>2. /\ page' \in Page(Len(sessions))
      /\ page'.session = page.session /\ page'.intent = page.intent
      /\ page'.loading = page.loading /\ ~page'.sending /\ page'.resumed = page.resumed
      /\ page'.error /\ ~page'.timer
      /\ page'.stranded = page.stranded /\ page'.behind = page.behind
      /\ composer' \in Composer
      /\ send' \in Sent /\ send'.pc = "off"
  BY <1>1, SentOver
<1>3. entering.pc = "off" /\ ~page.loading
  BY DEF IInv, View, WorkOK
<1>4. /\ store # 0 => sessions'[store].by = sessions[store].by
      /\ page.session # 0 => sessions'[page.session].by = sessions[page.session].by
  <2>1. page.session \in 0..Len(sessions)
    BY <1>1 DEF Page
  <2> QED BY <1>1, <2>1
<1>5. WorkOK'
  BY <1>2, <1>3 DEF WorkOK, Boot
<1>6. ScreenOK'
  BY <1>2, <1>3 DEF ScreenOK, Settled
<1>7. StoreOK' /\ ResumedOK' /\ Answered'
  BY <1>2, <1>3, <1>4 DEF IInv, View, StoreOK, ResumedOK, Boot, Answered
<1> QED BY <1>2, <1>5, <1>6, <1>7 DEF View

\* The user sends a message.
LEMMA SubmitStep ==
    ASSUME IInv, Submit
    PROVE  IInv'
<1> DEFINE n == used.sends + 1
           l == Append(page.messages, Optimistic(n))
<1>1. /\ page.session # 0 /\ ~page.sending /\ ~page.loading /\ used.sends < MaxSends
      /\ used' = [used EXCEPT !.sends = n]
      /\ page' = [page EXCEPT !.sending = TRUE, !.error = FALSE, !.thoughts = FALSE,
                              !.timer = ~page.streaming,
                              !.label = page.label \/ ~page.streaming,
                              !.messages = l]
      /\ send' = [pc |-> "post", n |-> n, session |-> page.session]
      /\ StartTurn(n, page.session, composer.pending)
      /\ UNCHANGED <<sessions, files, store, composer, entering, upload, other>>
  BY DEF Submit, CanSubmit, Disabled
<1>2. /\ Held /\ page \in Page(Len(sessions)) /\ used \in Used /\ composer \in Composer
      /\ Turning /\ store \in 0..Len(sessions) /\ DOMAIN sessions = 1..Len(sessions)
      /\ Len(sessions) \in Nat /\ Len(sessions) <= MaxSessions /\ MaxSessions \in Nat
      /\ MaxSends \in Nat
  BY HeldFacts, BoundsAssumption DEF IInv, Going, Held
<1>3. n \in 1..MaxSends /\ used.sends \in Nat
  <2>1. used.sends \in 0..MaxSends
    BY <1>2 DEF Used
  <2> QED BY <1>1, <1>2, <2>1
<1>4. l \in Seq(Message)
  <2>1. n \in 0..MaxSends
    BY <1>2, <1>3
  <2> HIDE DEF n
  <2>2. Optimistic(n) \in Message
    BY <2>1 DEF Optimistic, Message
  <2>3. page.messages \in Seq(Message)
    BY <1>2 DEF Page
  <2> QED BY <2>2, <2>3, AppendProperties
<1>5. PICK b \in BOOLEAN : b = (page.label \/ ~page.streaming)
  OBVIOUS
<1>6. PICK c \in BOOLEAN : c = ~page.streaming
  OBVIOUS
<1> HIDE DEF n, l
<1>7. page' = [page EXCEPT !.sending = TRUE, !.error = FALSE, !.thoughts = FALSE,
                           !.timer = c, !.label = b, !.messages = l]
  BY <1>1, <1>5, <1>6
<1>8. page' \in Page(Len(sessions))
  BY <1>2, <1>4, <1>7 DEF Page
<1>9. /\ page'.session = page.session /\ page'.sending /\ page'.loading = page.loading
      /\ page'.intent = page.intent /\ page'.resumed = page.resumed
      /\ page'.stranded = page.stranded /\ page'.behind = page.behind
      /\ page'.streaming \/ page'.label
  BY <1>2, <1>5, <1>7 DEF Page
<1>10. send' \in Sent /\ send'.pc = "post" /\ send'.n = n /\ send'.session = page.session
  <2>1. n \in 0..MaxSends
    BY <1>2, <1>3
  <2>2. page.session \in 0..MaxSessions
    <3>1. page.session \in 0..Len(sessions)
      BY <1>2 DEF Page
    <3> QED BY <1>2, <3>1
  <2> QED BY <1>1, <2>1, <2>2 DEF Sent
<1>11. used' \in Used /\ used'.loads = used.loads /\ used'.sends = n
  <2>1. n \in 0..MaxSends
    BY <1>2, <1>3
  <2> QED BY <1>1, <1>2, <2>1 DEF Used
<1>12. Held' /\ Turning'
  <2>1. Held'
    BY <1>1, <1>2, <1>11 DEF Held, Filed
  <2>2. page.session \in DOMAIN sessions /\ composer.pending \in SUBSET FileId
    BY <1>1, <1>2 DEF Page, Composer
  <2>3. Turning'
    BY <1>1, <1>2, <1>11, <2>2, StartTurnFacts DEF n
  <2> QED BY <2>1, <2>3
<1>13. entering.pc = "off" /\ send.pc = "off"
  BY <1>1 DEF IInv, View, WorkOK
<1>14. View'
  <2>1. WorkOK'
    BY <1>1, <1>9, <1>10, <1>13 DEF WorkOK, Boot
  <2>2. ScreenOK'
    BY <1>1, <1>9, <1>10, <1>13 DEF ScreenOK, Settled, AtRest
  <2>3. StoreOK' /\ ResumedOK' /\ Answered'
    BY <1>1, <1>9, <1>10, <1>11, <1>13 DEF IInv, View, StoreOK, ResumedOK, Boot, Answered
  <2> QED BY <2>1, <2>2, <2>3 DEF View
<1>15. n # 0
  BY <1>3
<1> QED BY <1>1, <1>2, <1>8, <1>9, <1>10, <1>12, <1>14, <1>15, ApiStep DEF IInv, Going

\* A thought of the graph arrives.
LEMMA ShowThoughtStep ==
    ASSUME IInv, ShowThought
    PROVE  IInv'
<1>1. /\ send.pc = "post"
      /\ page' = [page EXCEPT !.thoughts = TRUE, !.label = TRUE]
      /\ UNCHANGED <<sessions, files, store, composer, entering, send, upload, turns, other, used>>
  BY DEF ShowThought
<1>2. page \in Page(Len(sessions)) /\ entering.pc = "off"
  BY <1>1 DEF IInv, Going, View, WorkOK
<1>3. page' \in Page(Len(sessions))
  BY <1>1, <1>2 DEF Page
<1>4. /\ page'.session = page.session /\ page'.loading = page.loading
      /\ page'.sending = page.sending /\ page'.resumed = page.resumed
      /\ page'.intent = page.intent /\ page'.timer = page.timer
      /\ page'.stranded = page.stranded /\ page'.behind = page.behind /\ page'.label
  BY <1>1, <1>2 DEF Page
<1>5. View'
  <2>1. WorkOK' /\ ScreenOK'
    BY <1>1, <1>2, <1>4 DEF IInv, View, WorkOK, ScreenOK, Settled, AtRest, Boot
  <2>2. StoreOK' /\ ResumedOK' /\ Answered'
    BY <1>1, <1>4 DEF IInv, View, StoreOK, ResumedOK, Boot, Answered
  <2> QED BY <2>1, <2>2 DEF View
<1> QED BY <1>1, <1>3, <1>4, <1>5, PageStep DEF IInv, Going

\* What a message under way refers to.
LEMMA SendFacts ==
    ASSUME IInv, send.pc # "off"
    PROVE  /\ page \in Page(Len(sessions)) /\ composer \in Composer /\ send \in Sent
           /\ send.session = page.session /\ page.session \in DOMAIN sessions
           /\ send.n \in 1..MaxSends
           /\ entering.pc = "off" /\ ~page.loading /\ page.sending
           /\ Sound(sessions[page.session])
<1>1. /\ page \in Page(Len(sessions)) /\ composer \in Composer /\ send \in Sent
      /\ send.session = page.session /\ send.session # 0 /\ send.n # 0
      /\ Len(sessions) \in Nat /\ DOMAIN sessions = 1..Len(sessions) /\ WorkOK
  BY HeldFacts DEF IInv, Going, View
<1>2. page.session \in DOMAIN sessions
  <2>1. page.session \in 0..Len(sessions)
    BY <1>1 DEF Page
  <2> QED BY <1>1, <2>1
<1>3. send.n \in 1..MaxSends
  <2>1. send.n \in 0..MaxSends
    BY <1>1 DEF Sent
  <2> QED BY <1>1, <2>1
<1>4. Sound(sessions[page.session])
  BY <1>2 DEF IInv, Held
<1> QED BY <1>1, <1>2, <1>3, <1>4 DEF WorkOK

\* The answer arrives.
LEMMA PostAnsweredStep ==
    ASSUME IInv, PostAnswered
    PROVE  IInv'
<1>1. /\ send.pc = "post"
      /\ Row(send.n, "assistant") \in sessions[send.session].kept
      /\ page' = [page EXCEPT !.intent = send.session, !.timer = FALSE]
      /\ send' = [send EXCEPT !.pc = "list"]
      /\ UNCHANGED <<sessions, files, store, composer, entering, upload, turns, other, used>>
  BY DEF PostAnswered
<1>2. /\ page \in Page(Len(sessions)) /\ send \in Sent
      /\ send.session = page.session /\ page.session \in DOMAIN sessions
      /\ send.n \in 1..MaxSends
      /\ entering.pc = "off" /\ ~page.loading /\ page.sending
      /\ Sound(sessions[page.session])
  BY <1>1, SendFacts
<1>3. page' \in Page(Len(sessions))
  <2>1. send.session \in 0..MaxSessions
    BY <1>2 DEF Sent
  <2> QED BY <1>1, <1>2, <2>1 DEF Page
<1>4. /\ page'.session = page.session /\ page'.loading = page.loading
      /\ page'.sending = page.sending /\ page'.resumed = page.resumed
      /\ page'.intent = send.session /\ ~page'.timer
      /\ page'.streaming = page.streaming /\ page'.label = page.label
      /\ page'.stranded = page.stranded /\ page'.behind = page.behind
  BY <1>1, <1>2 DEF Page
<1>5. /\ send' \in Sent /\ send'.pc = "list" /\ send'.n = send.n
      /\ send'.session = send.session
  BY <1>1, <1>2 DEF Sent
<1>6. View'
  <2>1. WorkOK' /\ ScreenOK'
    BY <1>1, <1>2, <1>4, <1>5 DEF IInv, View, WorkOK, ScreenOK, Settled, AtRest, Boot
  <2>2. StoreOK' /\ ResumedOK'
    BY <1>1, <1>4 DEF IInv, View, StoreOK, ResumedOK, Boot
  <2>3. Answered'
    <3>1. Exchanged(send.n) \subseteq sessions[send.session].kept
      BY <1>1, <1>2 DEF Sound, Exchanged
    <3> QED BY <1>1, <1>5, <3>1 DEF Answered
  <2> QED BY <2>1, <2>2, <2>3 DEF View
<1>7. send'.n # 0 /\ send'.session # 0
  BY <1>1, <1>5 DEF IInv, Going
<1> QED BY <1>1, <1>2, <1>3, <1>4, <1>5, <1>6, <1>7, PageStep DEF IInv, Going

\* It does not arrive.
LEMMA PostFailedStep ==
    ASSUME IInv, PostFailed
    PROVE  IInv'
<1>1. /\ send.pc = "post" /\ SendOver(page, TRUE)
      /\ UNCHANGED <<sessions, files, store, entering, upload, turns, other, used>>
  BY DEF PostFailed
<1>2. /\ page' \in Page(Len(sessions)) /\ composer' \in Composer
      /\ send' \in Sent /\ send'.pc = "off" /\ View'
  BY <1>1, FailedSending
<1> QED BY <1>1, <1>2, PageStep DEF IInv, Going

\* The messages after a send are shown, or an error.
LEMMA ListAfterSendStep ==
    ASSUME IInv, NEW ok \in BOOLEAN, ListAfterSend(ok)
    PROVE  IInv'
<1>1. /\ send.pc = "list"
      /\ UNCHANGED <<sessions, files, store, entering, upload, turns, other, used>>
  BY DEF ListAfterSend
<1>2. /\ page \in Page(Len(sessions)) /\ composer \in Composer /\ send \in Sent
      /\ send.session = page.session /\ page.session \in DOMAIN sessions
      /\ send.n \in 1..MaxSends
      /\ entering.pc = "off" /\ ~page.loading /\ page.sending
      /\ Sound(sessions[page.session])
  BY <1>1, SendFacts
<1>3. CASE ok
  <2> DEFINE l == Listed(page.session)
  <2>1. /\ page' = [page EXCEPT !.messages = l, !.behind = @ \ {"messages"}]
        /\ send' = [send EXCEPT !.pc = "context"]
        /\ UNCHANGED composer
    BY <1>2, <1>3 DEF ListAfterSend
  <2>2. l \in Seq(Message) /\ ToSet(l) \subseteq sessions[page.session].kept
    BY <1>2, ListedFacts
  <2> HIDE DEF l
  <2>3. page' \in Page(Len(sessions))
    BY <1>2, <2>1, <2>2 DEF Page
  <2>4. /\ page'.session = page.session /\ page'.messages = l
        /\ page'.intent = page.intent /\ page'.loading = page.loading
        /\ page'.sending = page.sending /\ page'.resumed = page.resumed
        /\ page'.timer = page.timer /\ page'.stranded = page.stranded
        /\ page'.streaming = page.streaming /\ page'.label = page.label
        /\ page'.behind = page.behind \ {"messages"}
    BY <1>2, <2>1 DEF Page
  <2>5. /\ send' \in Sent /\ send'.pc = "context" /\ send'.n = send.n
        /\ send'.session = send.session
    BY <1>2, <2>1 DEF Sent
  <2>6. WorkOK'
    BY <1>1, <1>2, <2>4, <2>5 DEF IInv, View, WorkOK, Boot
  <2>7. ScreenOK'
    <3>1. page'.intent \in {0, page'.session}
      BY <1>1, <2>4 DEF IInv, View, ScreenOK
    <3>2. ToSet(page'.messages) \subseteq sessions'[page'.session].kept
      BY <1>1, <2>2, <2>4
    <3>3. page'.messages = Listed(page.session)'
      BY <1>1, <2>4 DEF Listed, Visible, l
    <3>4. MessagesOf(page.messages, page.behind, page.session)'
      BY <3>2, <3>3 DEF MessagesOf
    <3> QED BY <1>1, <1>2, <2>5, <3>1, <3>4 DEF ScreenOK, Settled, AtRest
  <2>8. StoreOK' /\ ResumedOK'
    BY <1>1, <2>4 DEF IInv, View, StoreOK, ResumedOK, Boot
  <2>9. Answered'
    <3>1. Exchanged(send.n) \subseteq sessions[send.session].kept
      BY <1>1 DEF IInv, View, Answered
    <3>2. \/ Exchanged(send.n) \subseteq ToSet(l)
          \/ Len(Visible(send.session)) > ListLimit
      <4>1. /\ Len(Visible(page.session)) \in Nat /\ ListLimit \in Nat
            /\ Len(Visible(page.session)) <= ListLimit => l = Visible(page.session)
            /\ Exchanged(send.n) \subseteq sessions[page.session].kept =>
                  Exchanged(send.n) \subseteq ToSet(Visible(page.session))
        BY <1>2, ListedFacts DEF l
      <4> QED BY <1>2, <3>1, <4>1
    <3>3. Visible(send.session)' = Visible(send.session)
      BY <1>1, <2>5 DEF Visible
    <3> QED BY <1>1, <2>4, <2>5, <3>1, <3>2, <3>3 DEF Answered
  <2>10. View'
    BY <2>6, <2>7, <2>8, <2>9 DEF View
  <2> QED BY <1>1, <1>2, <2>1, <2>3, <2>4, <2>5, <2>10, PageStep DEF IInv, Going
<1>4. CASE ~ok
  <2>1. SendOver(page, TRUE)
    BY <1>4 DEF ListAfterSend
  <2>2. /\ page' \in Page(Len(sessions)) /\ composer' \in Composer
        /\ send' \in Sent /\ send'.pc = "off" /\ View'
    BY <1>1, <2>1, FailedSending
  <2> QED BY <1>1, <2>2, PageStep DEF IInv, Going
<1> QED BY <1>3, <1>4

\* The support context after a send is shown.
LEMMA ContextAfterSendStep ==
    ASSUME IInv, NEW known \in BOOLEAN, GetContextAfterSend(known)
    PROVE  IInv'
<1> DEFINE c == SessionContext(send.session, known)
<1>1. /\ send.pc = "context"
      /\ page' = [page EXCEPT !.context = c, !.thoughts = FALSE]
      /\ send' = [send EXCEPT !.pc = "refresh"]
      /\ UNCHANGED <<sessions, files, store, composer, entering, upload, turns, other, used>>
  BY DEF GetContextAfterSend
<1>2. /\ page \in Page(Len(sessions)) /\ send \in Sent
      /\ send.session = page.session /\ page.session \in DOMAIN sessions
      /\ send.n \in 1..MaxSends
      /\ entering.pc = "off" /\ ~page.loading /\ page.sending
  BY <1>1, SendFacts
<1>3. c \in {0, page.session} /\ c \in 0..MaxSessions
  <2>1. send.session \in 0..MaxSessions /\ 0 \in 0..MaxSessions
    BY <1>2, BoundsAssumption DEF Sent
  <2> QED BY <1>2, <2>1 DEF SessionContext
<1> HIDE DEF c
<1>4. page' \in Page(Len(sessions))
  BY <1>1, <1>2, <1>3 DEF Page
<1>5. /\ page'.session = page.session /\ page'.messages = page.messages
      /\ page'.context = c /\ page'.behind = page.behind
      /\ page'.intent = page.intent /\ page'.loading = page.loading
      /\ page'.sending = page.sending /\ page'.resumed = page.resumed
      /\ page'.timer = page.timer /\ page'.stranded = page.stranded
      /\ page'.streaming = page.streaming /\ page'.label = page.label
  BY <1>1, <1>2 DEF Page
<1>6. /\ send' \in Sent /\ send'.pc = "refresh" /\ send'.n = send.n
      /\ send'.session = send.session
  BY <1>1, <1>2 DEF Sent
<1>7. WorkOK'
  BY <1>1, <1>2, <1>5, <1>6 DEF IInv, View, WorkOK, Boot
<1>8. ScreenOK'
  BY <1>1, <1>2, <1>3, <1>5, <1>6
     DEF IInv, View, ScreenOK, Settled, AtRest, MessagesOf, Listed, Visible
<1>9. StoreOK' /\ ResumedOK'
  BY <1>1, <1>5 DEF IInv, View, StoreOK, ResumedOK, Boot
<1>10. Answered'
  BY <1>1, <1>5, <1>6 DEF IInv, View, Answered, Visible
<1>11. View'
  BY <1>7, <1>8, <1>9, <1>10 DEF View
<1> QED BY <1>1, <1>2, <1>4, <1>5, <1>6, <1>11, PageStep DEF IInv, Going

\* Taking back the message that was shown before it was sent changes nothing
\* once the messages are those of the API.
LEMMA NothingToTakeBack ==
    ASSUME NEW m \in Seq(Message), NEW x, Sound(x), ToSet(m) \subseteq x.kept, NEW n
    PROVE  Select(m, Message \ {Optimistic(n)}) = m
<1>1. x.kept \subseteq Message /\ \A e \in x.kept : ~e.optimistic
  BY DEF Sound, Session
<1>2. Optimistic(n).optimistic
  BY DEF Optimistic
<1>3. ToSet(m) \subseteq Message \ {Optimistic(n)}
  BY <1>1, <1>2
<1> QED BY <1>3, SelectAll

\* The page asks for the session again.
LEMMA RefreshStep ==
    ASSUME IInv, NEW ok \in BOOLEAN, RefreshSession(ok)
    PROVE  IInv'
<1>1. /\ send.pc = "refresh"
      /\ UNCHANGED <<sessions, files, store, entering, upload, turns, other, used>>
  BY DEF RefreshSession
<1>2. /\ page \in Page(Len(sessions)) /\ composer \in Composer /\ send \in Sent
      /\ send.session = page.session /\ page.session \in DOMAIN sessions
      /\ entering.pc = "off" /\ ~page.loading /\ page.sending
      /\ Sound(sessions[page.session]) /\ sessions[page.session] \in Session
  BY <1>1, SendFacts DEF Sound
<1>3. CASE ok
  <2> DEFINE p == [page EXCEPT !.session = page.session,
                               !.ticket = sessions[page.session].ticket,
                               !.behind = page.behind \ {"ticket"}]
  <2>1. PICK failed \in BOOLEAN : failed = ~ok
    OBVIOUS
  <2>2. SendOver(p, failed)
    BY <1>2, <1>3, <2>1 DEF RefreshSession, SendOver
  <2>3. p \in Page(Len(sessions))
    BY <1>2 DEF Page, Session
  <2>4. /\ p.session = page.session /\ p.ticket = sessions[page.session].ticket
        /\ p.messages = page.messages /\ p.context = page.context
        /\ p.intent = page.intent /\ p.loading = page.loading /\ p.resumed = page.resumed
        /\ p.behind = page.behind \ {"ticket"} /\ p.stranded = page.stranded
    BY <1>2 DEF Page
  <2> HIDE DEF p
  <2>5. /\ page' \in Page(Len(sessions))
        /\ page'.session = p.session /\ page'.ticket = p.ticket
        /\ page'.messages = Select(p.messages, Message \ {Optimistic(send.n)})
        /\ page'.context = p.context /\ page'.intent = p.intent
        /\ page'.loading = p.loading /\ ~page'.sending /\ page'.resumed = p.resumed
        /\ page'.error = failed /\ ~page'.timer /\ ~page'.label
        /\ page'.behind = p.behind /\ page'.stranded = p.stranded
        /\ composer' \in Composer
        /\ send' \in Sent /\ send'.pc = "off"
    BY <1>2, <2>2, <2>3, SentOver
  <2>6. MessagesOf(page.messages, page.behind, page.session)
        /\ page.context \in {0, page.session} /\ page.intent \in {0, page.session}
    BY <1>1 DEF IInv, View, ScreenOK
  <2>7. page'.messages = page.messages
    <3>1. page.messages \in Seq(Message)
      BY <1>2 DEF Page
    <3>2. ToSet(page.messages) \subseteq sessions[page.session].kept
      BY <2>6 DEF MessagesOf
    <3> QED BY <1>2, <2>4, <2>5, <3>1, <3>2, NothingToTakeBack
  <2>8. WorkOK'
    BY <1>1, <1>2, <2>4, <2>5 DEF WorkOK, Boot
  <2>9. ScreenOK'
    <3>1. "messages" \in page'.behind <=> "messages" \in page.behind
      BY <2>4, <2>5
    <3>2. MessagesOf(page.messages, page.behind, page.session)'
      BY <1>1, <2>4, <2>5, <2>6, <2>7, <3>1 DEF MessagesOf, Listed, Visible
    <3>3. page.session # 0
      BY <1>1, <1>2 DEF IInv, Going
    <3>4. page'.session = page.session /\ page'.ticket = sessions'[page.session].ticket
          /\ page'.context = page.context /\ page'.intent = page.intent
      BY <1>1, <2>4, <2>5
    <3> QED BY <2>6, <3>2, <3>3, <3>4 DEF ScreenOK
  <2>10. StoreOK' /\ ResumedOK' /\ Answered'
    BY <1>1, <2>4, <2>5 DEF IInv, View, StoreOK, ResumedOK, Boot, Answered
  <2>11. View'
    BY <2>8, <2>9, <2>10 DEF View
  <2> QED BY <1>1, <2>5, <2>11, PageStep DEF IInv, Going
<1>4. CASE ~ok
  <2>1. PICK failed \in BOOLEAN : failed = ~ok
    OBVIOUS
  <2>2. SendOver(page, failed) /\ failed
    BY <1>4, <2>1 DEF RefreshSession, SendOver
  <2>3. /\ page' \in Page(Len(sessions)) /\ composer' \in Composer
        /\ send' \in Sent /\ send'.pc = "off" /\ View'
    BY <1>1, <2>2, FailedSending
  <2> QED BY <1>1, <2>3, PageStep DEF IInv, Going
<1> QED BY <1>3, <1>4

-----------------------------------------------------------------------------
(***************************************************************************)
(* Attachments                                                             *)
(***************************************************************************)

\* What the page shows is right as long as it and the sessions do not change.
LEMMA SameView ==
    ASSUME View, UNCHANGED <<sessions, store, page, entering, send, used>>
    PROVE  View'
<1>1. \A s : Listed(s)' = Listed(s) /\ Visible(s)' = Visible(s)
  BY DEF Listed, Visible
<1>2. WorkOK' /\ StoreOK' /\ ResumedOK'
  BY DEF View, WorkOK, StoreOK, ResumedOK
<1>3. ScreenOK'
  BY <1>1 DEF View, ScreenOK, Settled, AtRest, MessagesOf
<1>4. Answered'
  BY <1>1 DEF View, Answered
<1> QED BY <1>2, <1>3, <1>4 DEF View

\* A step of the composer or of an upload, which the screen does not show.
LEMMA UploadStepKeeps ==
    ASSUME IInv, UNCHANGED <<sessions, store, page, entering, send, turns, other, used>>,
           files' \in Seq(File), \A f \in DOMAIN files' : Filed(f)',
           composer' \in Composer,
           upload' \in Upload,
           upload'.pc = "post" =>
              /\ upload'.session \in 1..Len(sessions) /\ upload'.left # 0
              /\ Len(files') + upload'.left <= MaxFiles
    PROVE  IInv'
<1>1. Held'
  BY DEF IInv, Held
<1>2. Going'
  BY DEF IInv, Going
<1>3. View'
  BY SameView DEF IInv
<1>4. Turning'
  BY DEF IInv, Turning
<1> QED BY <1>1, <1>2, <1>3, <1>4 DEF IInv

\* Files are chosen.
LEMMA ChooseFilesStep ==
    ASSUME IInv, NEW n \in 1..2, ChooseFiles(n)
    PROVE  IInv'
<1>1. /\ page.session # 0
      /\ Len(files) + n <= MaxFiles
      /\ composer' = [composer EXCEPT !.uploading = TRUE]
      /\ upload' = [pc |-> "post", session |-> page.session, left |-> n, done |-> {}]
      /\ UNCHANGED <<sessions, files, store, page, entering, send, turns, other, used>>
  BY DEF ChooseFiles, CanAttach, Disabled
<1>2. /\ page \in Page(Len(sessions)) /\ composer \in Composer /\ Len(sessions) \in Nat
      /\ Len(sessions) <= MaxSessions /\ MaxSessions \in Nat
      /\ files \in Seq(File) /\ \A f \in DOMAIN files : Filed(f)
  BY HeldFacts, BoundsAssumption DEF IInv, Going, Held
<1>3. page.session \in 1..Len(sessions) /\ page.session \in 0..MaxSessions
  <2>1. page.session \in 0..Len(sessions)
    BY <1>2 DEF Page
  <2> QED BY <1>1, <1>2, <2>1
<1>4. composer' \in Composer
  BY <1>1, <1>2 DEF Composer
<1>5. /\ upload' \in Upload /\ upload'.session = page.session /\ upload'.left = n /\ n # 0
  BY <1>1, <1>3 DEF Upload
<1>6. files' \in Seq(File) /\ \A f \in DOMAIN files' : Filed(f)'
  BY <1>1, <1>2 DEF Filed
<1> QED BY <1>1, <1>3, <1>4, <1>5, <1>6, UploadStepKeeps

\* A file is taken back before it is sent.
LEMMA RemovePendingStep ==
    ASSUME IInv, NEW f \in FileId, RemovePending(f)
    PROVE  IInv'
<1>1. /\ composer' = [composer EXCEPT !.pending = composer.pending \ {f}]
      /\ UNCHANGED <<sessions, files, store, page, entering, send, upload, turns, other, used>>
  BY DEF RemovePending
<1>2. composer' \in Composer
  <2>1. composer \in Composer
    BY DEF IInv, Going
  <2> QED BY <1>1, <2>1 DEF Composer
<1>3. View'
  BY <1>1, SameView DEF IInv
<1> QED BY <1>1, <1>2, <1>3, PageStep DEF IInv, Going

\* A file is uploaded to the session it was chosen in.
LEMMA UploadAttachmentStep ==
    ASSUME IInv, NEW ok \in BOOLEAN, UploadAttachment(ok)
    PROVE  IInv'
<1> DEFINE done == upload.done \cup {Len(files')}
           new == [session |-> upload.session, message |-> 0]
           pending == IF ok THEN composer.pending \cup done ELSE composer.pending
<1>1. /\ upload.pc = "post"
      /\ files' = IF ok THEN Append(files, new) ELSE files
      /\ IF ok /\ upload.left > 1
         THEN /\ upload' = [upload EXCEPT !.left = upload.left - 1, !.done = done]
              /\ UNCHANGED composer
         ELSE /\ upload' = [pc |-> "off", session |-> 0, left |-> 0, done |-> {}]
              /\ composer' = [composer EXCEPT !.uploading = FALSE, !.pending = pending]
      /\ UNCHANGED <<sessions, store, page, entering, send, turns, other, used>>
  BY DEF UploadAttachment, NotUploading
<1>2. /\ composer \in Composer /\ upload \in Upload
      /\ upload.session \in 1..Len(sessions) /\ upload.left # 0
      /\ Len(files) + upload.left <= MaxFiles
      /\ files \in Seq(File) /\ \A f \in DOMAIN files : Filed(f)
      /\ Len(files) \in Nat /\ MaxFiles \in Nat /\ MaxSends \in Nat
      /\ DOMAIN files = 1..Len(files)
      /\ DOMAIN sessions = 1..Len(sessions) /\ MaxSessions \in Nat /\ Len(sessions) \in Nat
      /\ Len(sessions) <= MaxSessions
  BY <1>1, HeldFacts, BoundsAssumption DEF IInv, Going, Held
<1>3. upload.left \in {1, 2} /\ upload.done \in SUBSET FileId
  BY <1>2 DEF Upload
<1>4. /\ files' \in Seq(File) /\ \A f \in DOMAIN files' : Filed(f)'
      /\ Len(files') = IF ok THEN Len(files) + 1 ELSE Len(files)
  <2>1. CASE ok
    <3>1. new \in File /\ new.session = upload.session /\ new.message = 0
      <4>1. upload.session \in SessionId
        BY <1>2 DEF SessionId
      <4>2. 0 \in 0..MaxSends
        BY <1>2
      <4> QED BY <4>1, <4>2 DEF File
    <3> HIDE DEF new
    <3>2. /\ files' \in Seq(File) /\ Len(files') = Len(files) + 1
          /\ \A f \in 1..Len(files) : files'[f] = files[f]
          /\ files'[Len(files) + 1] = new
      BY <1>1, <1>2, <2>1, <3>1, AppendProperties
    <3>3. DOMAIN files' = 1..Len(files) + 1
      BY <3>2, LenProperties
    <3>4. \A f \in DOMAIN files' : Filed(f)'
      <4> SUFFICES ASSUME NEW f \in DOMAIN files'
                   PROVE  /\ files'[f].session \in DOMAIN sessions'
                          /\ files'[f].message # 0 =>
                                Row(files'[f].message, "user")
                                   \in sessions'[files'[f].session].kept
        BY DEF Filed
      <4>1. CASE f \in 1..Len(files)
        BY <1>1, <1>2, <3>2, <4>1 DEF Filed
      <4>2. CASE f = Len(files) + 1
        BY <1>1, <1>2, <3>1, <3>2, <4>2
      <4> QED BY <1>2, <3>3, <4>1, <4>2
    <3> QED BY <2>1, <3>2, <3>4
  <2>2. CASE ~ok
    <3>1. files' = files
      BY <1>1, <2>2
    <3> QED BY <1>1, <1>2, <2>2, <3>1 DEF Filed
  <2> QED BY <2>1, <2>2
<1>5. ok => done \in SUBSET FileId
  <2> SUFFICES ASSUME ok PROVE done \in SUBSET FileId
    OBVIOUS
  <2>1. Len(files') = Len(files) + 1
    BY <1>4
  <2>2. Len(files') \in 1..MaxFiles
    BY <1>2, <1>3, <2>1
  <2> QED BY <1>3, <2>2 DEF FileId
<1>6. pending \in SUBSET FileId
  <2>1. composer.pending \in SUBSET FileId
    BY <1>2 DEF Composer
  <2> QED BY <1>5, <2>1
<1> HIDE DEF done, pending, new
<1>7. CASE ok /\ upload.left > 1
  <2>1. upload' = [upload EXCEPT !.left = upload.left - 1, !.done = done]
        /\ UNCHANGED composer
    BY <1>1, <1>7
  <2>2. upload.left - 1 \in 0..2 /\ upload.left - 1 # 0
    BY <1>3, <1>7
  <2>3. upload' \in Upload
    BY <1>2, <1>5, <1>7, <2>1, <2>2 DEF Upload
  <2>4. upload'.session = upload.session /\ upload'.left = upload.left - 1
    BY <1>2, <2>1 DEF Upload
  <2>5. Len(files') + upload'.left <= MaxFiles
    BY <1>2, <1>3, <1>4, <1>7, <2>4
  <2> QED BY <1>1, <1>2, <1>4, <2>1, <2>2, <2>3, <2>4, <2>5, UploadStepKeeps
<1>8. CASE ~(ok /\ upload.left > 1)
  <2>1. /\ upload' = [pc |-> "off", session |-> 0, left |-> 0, done |-> {}]
        /\ composer' = [composer EXCEPT !.uploading = FALSE, !.pending = pending]
    BY <1>1, <1>8
  <2>2. upload' \in Upload /\ upload'.pc = "off"
    <3>1. 0 \in 0..MaxSessions
      BY <1>2
    <3> QED BY <2>1, <3>1 DEF Upload
  <2>3. composer' \in Composer
    BY <1>2, <1>6, <2>1 DEF Composer
  <2> QED BY <1>1, <1>4, <2>2, <2>3, UploadStepKeeps
<1> QED BY <1>7, <1>8


-----------------------------------------------------------------------------
(***************************************************************************)
(* The turns at the API                                                    *)
(***************************************************************************)

\* A turn that the page knows nothing of leaves it right, or behind.
LEMMA TurnGoesOn ==
    ASSUME IInv, Held', Turning', SessionsKept, Len(sessions') = Len(sessions),
           Len(files') = Len(files),
           UNCHANGED <<store, composer, entering, send, upload, other, used>>,
           NEW s \in DOMAIN sessions,
           \A u \in DOMAIN sessions \ {s} : sessions'[u] = sessions[u],
           \/ /\ page' = page
              /\ \/ Visible(s)' = Visible(s) /\ sessions'[s].ticket = sessions[s].ticket
                 \/ page.session # s
                 \/ send.pc = "post"
           \/ page' = [page EXCEPT !.behind = page.behind \cup {"messages", "ticket"}]
    PROVE  IInv'
<1>1. /\ page \in Page(Len(sessions)) /\ store \in 0..Len(sessions)
      /\ composer \in Composer /\ send \in Sent
      /\ Len(sessions) \in Nat /\ DOMAIN sessions = 1..Len(sessions)
      /\ page.session \in 0..Len(sessions)
      /\ page.behind \subseteq {"messages", "ticket", "store"}
  BY HeldFacts DEF IInv, Going, Page
<1>2. DOMAIN sessions' = DOMAIN sessions /\ Len(sessions') \in Nat
  <2>1. DOMAIN sessions' = 1..Len(sessions')
    BY LenProperties DEF SessionsKept
  <2> QED BY <1>1, <2>1
<1>3. page' \in Page(Len(sessions')) /\ page'.session = page.session /\ View'
  <2>1. CASE page' = page /\ ~({"messages", "ticket"} \subseteq page.behind)
    <3>1. page' = [page EXCEPT !.behind = page.behind]
      <4>1. page = [page EXCEPT !.behind = page.behind]
        BY <1>1 DEF Page
      <4> QED BY <2>1, <4>1
    <3>2. page.session # 0 =>
             \/ send.pc = "post"
             \/ {"messages", "ticket"} \subseteq page.behind
             \/ /\ Listed(page.session)' = Listed(page.session)
                /\ sessions'[page.session].ticket = sessions[page.session].ticket
      <4> SUFFICES ASSUME page.session # 0, send.pc # "post"
                   PROVE  /\ Listed(page.session)' = Listed(page.session)
                          /\ sessions'[page.session].ticket = sessions[page.session].ticket
        OBVIOUS
      <4>1. page.session \in DOMAIN sessions
        BY <1>1
      <4>2. /\ Visible(page.session)' = Visible(page.session)
            /\ sessions'[page.session].ticket = sessions[page.session].ticket
        <5>1. CASE page.session = s
          <6>1. Visible(s)' = Visible(s) /\ sessions'[s].ticket = sessions[s].ticket
            <7>1. page' # [page EXCEPT !.behind = page.behind \cup {"messages", "ticket"}]
              <8>1. [page EXCEPT !.behind = page.behind \cup {"messages", "ticket"}].behind
                       = page.behind \cup {"messages", "ticket"}
                BY <1>1 DEF Page
              <8> QED BY <2>1, <8>1
            <7> QED BY <5>1, <7>1
          <6>2. page'.session = page.session
            BY <2>1
          <6> QED BY <5>1, <6>1, <6>2 DEF Visible
        <5>2. CASE page.session # s
          <6>1. sessions'[page.session] = sessions[page.session] /\ page' = page
            BY <2>1, <4>1, <5>2
          <6> QED BY <6>1 DEF Visible
        <5> QED BY <5>1, <5>2
      <4> QED BY <4>2 DEF Listed
    <3>3. store' = store /\ used'.loads = used.loads
          /\ \A u \in DOMAIN sessions' \ DOMAIN sessions : sessions'[u].by = 0
      BY <1>2
    <3> QED BY <1>1, <1>2, <3>1, <3>2, <3>3, ViewGoesOn
  <2>2. CASE page' = [page EXCEPT !.behind = page.behind \cup {"messages", "ticket"}]
    <3> DEFINE b == page.behind \cup {"messages", "ticket"}
    <3>1. /\ page.behind \subseteq b /\ b \subseteq {"messages", "ticket", "store"}
          /\ {"messages", "ticket"} \subseteq b
      BY <1>1
    <3>2. store' = store /\ used'.loads = used.loads
          /\ \A u \in DOMAIN sessions' \ DOMAIN sessions : sessions'[u].by = 0
      BY <1>2
    <3>3. page' = [page EXCEPT !.behind = b]
      BY <2>2
    <3> HIDE DEF b
    <3> QED BY <1>2, <3>1, <3>2, <3>3, ViewGoesOn
  <2>3. CASE page' = page /\ {"messages", "ticket"} \subseteq page.behind
    <3>1. page = [page EXCEPT !.behind = page.behind \cup {"messages", "ticket"}]
      <4>1. page.behind \cup {"messages", "ticket"} = page.behind
        BY <2>3
      <4>2. page = [page EXCEPT !.behind = page.behind]
        BY <1>1 DEF Page
      <4> QED BY <4>1, <4>2
    <3> QED BY <2>2, <2>3, <3>1
  <2> QED BY <2>1, <2>2, <2>3
<1>4. send.pc # "off" => send.n # 0 /\ send.session # 0 /\ send.session = page.session
  BY DEF IInv, Going
<1>5. /\ store' \in 0..Len(sessions') /\ composer' \in Composer /\ send' \in Sent
      /\ \/ entering' \in [pc : {"off", "health", "config", "create", "list", "context"}]
         \/ entering' \in [pc : {"resume"}, stored : 1..Len(sessions')]
  BY <1>1 DEF IInv, Going
<1> QED BY <1>1, <1>2, <1>3, <1>4, <1>5, ApiStep

\* What is known of a turn under way.
LEMMA TurnFacts ==
    ASSUME IInv, NEW n \in 1..MaxSends, turns[n].stage # "none"
    PROVE  /\ n <= used.sends /\ turns[n] \in Turn(Len(sessions))
           /\ turns[n].session \in DOMAIN sessions
           /\ sessions[turns[n].session] \in Session /\ Sound(sessions[turns[n].session])
           /\ n \in 0..MaxSends
<1>1. /\ turns[n] \in Turn(Len(sessions)) /\ turns[n].session # 0 /\ n <= used.sends
      /\ Len(sessions) \in Nat /\ DOMAIN sessions = 1..Len(sessions)
      /\ MaxSends \in Nat
  BY HeldFacts, BoundsAssumption DEF IInv, Turning
<1>2. turns[n].session \in 0..Len(sessions)
  BY <1>1 DEF Turn
<1>3. turns[n].session \in DOMAIN sessions
  BY <1>1, <1>2
<1>4. n \in 0..MaxSends
  BY <1>1
<1>5. Sound(sessions[turns[n].session])
  BY <1>3 DEF IInv, Held
<1> QED BY <1>1, <1>3, <1>4, <1>5 DEF Sound

\* A turn that has ended.
LEMMA NoTurnFacts == \A k \in Nat : NoTurn \in Turn(k) /\ NoTurn.stage = "none"
BY DEF NoTurn, Turn

\* A question is stored, and not committed: nothing of it is seen.
LEMMA StoreQuestionStep ==
    ASSUME IInv, NEW n \in 1..MaxSends, StoreQuestion(n)
    PROVE  IInv'
<1>0. PICK s : s = turns[n].session
  OBVIOUS
<1> DEFINE log == Append(sessions[s].log, Row(n, "user"))
           x == [sessions[s] EXCEPT !.log = log]
           t == [turns[n] EXCEPT !.stage = "stored"]
<1>1. /\ turns[n].stage = "sent"
      /\ turns' = [turns EXCEPT ![n].stage = "stored"]
      /\ sessions' = [sessions EXCEPT ![s].log = log]
      /\ UNCHANGED <<files, store, page, composer, entering, send, upload, other, used>>
  BY <1>0 DEF StoreQuestion
<1>2. /\ n <= used.sends /\ turns[n] \in Turn(Len(sessions)) /\ s \in DOMAIN sessions
      /\ sessions[s] \in Session /\ Sound(sessions[s]) /\ n \in 0..MaxSends
      /\ Held /\ Turning
  BY <1>0, <1>1, TurnFacts DEF IInv
<1>3. Row(n, "user") \notin sessions[s].kept
  BY <1>1, <1>2 DEF Turning
<1>4. sessions[s].log \in Seq(Message) /\ Row(n, "user") \in Message
  BY <1>2, RowFacts DEF Session
<1>5. /\ log \in Seq(Message)
      /\ ToSet(log) = ToSet(sessions[s].log) \cup {Row(n, "user")}
      /\ Select(log, sessions[s].kept) = Select(sessions[s].log, sessions[s].kept)
  BY <1>3, <1>4, AppendRange, SelectAppend, AppendProperties
<1>6. log = sessions[s].log \o <<Row(n, "user")>> /\ <<Row(n, "user")>> \in Seq(Message)
  BY <1>4, AppendIsConcat, OneRow
<1> HIDE DEF log
<1>7. /\ sessions' = [sessions EXCEPT ![s] = x] /\ turns' = [turns EXCEPT ![n] = t]
  BY <1>1
<1>8. /\ x \in Session /\ x.log = log /\ x.kept = sessions[s].kept
      /\ x.ticket = sessions[s].ticket /\ x.by = sessions[s].by
  BY <1>2, <1>5 DEF Session
<1>9. t \in Turn(Len(sessions)) /\ t.stage = "stored" /\ t.session = s
  BY <1>0, <1>2 DEF Turn
<1> HIDE DEF x, t
<1>10. Sound(x)
  BY <1>2, <1>5, <1>8 DEF Sound
<1>11. Grown(sessions[s], x)
  BY <1>6, <1>8 DEF Grown
<1>12. /\ files' \in Seq(File) /\ Len(files') = Len(files)
       /\ SessionsKept => \A f \in DOMAIN files' : Filed(f)'
  BY <1>1, <1>2, FiledGoesOn DEF Held
<1>13. Row(n, "user") \in ToSet(x.log)
  BY <1>5, <1>8
<1>14. /\ Held' /\ Turning' /\ SessionsKept /\ Len(sessions') = Len(sessions)
       /\ \A u \in DOMAIN sessions : sessions'[u] = IF u = s THEN x ELSE sessions[u]
  <2>1. \A m \in x.kept \ sessions[s].kept : m.n = n
    BY <1>8
  <2>2. UNCHANGED used
    BY <1>1
  <2>3. turns[n].stage \in {"sent", "stored"}
    BY <1>1
  <2> QED BY <1>2, <1>7, <1>8, <1>9, <1>10, <1>11, <1>12, <1>13, <2>1, <2>2, <2>3, TurnHeld
<1>15. Visible(s)' = Visible(s) /\ sessions'[s].ticket = sessions[s].ticket
  <2>1. sessions'[s] = x
    BY <1>2, <1>14
  <2>2. Select(sessions'[s].log, sessions'[s].kept) = Select(sessions[s].log, sessions[s].kept)
    BY <1>5, <1>8, <2>1
  <2> QED BY <1>8, <2>1, <2>2 DEF Visible
<1> QED BY <1>1, <1>2, <1>12, <1>14, <1>15, TurnGoesOn

\* The files of a question are linked to it, and both are committed.
LEMMA LinkAttachmentsStep ==
    ASSUME IInv, NEW n \in 1..MaxSends, LinkAttachments(n)
    PROVE  IInv'
<1>0. PICK s : s = turns[n].session
  OBVIOUS
<1>00. PICK fs : fs = turns[n].files
  OBVIOUS
<1> DEFINE row == Row(n, "user")
           kept == sessions[s].kept \cup {row}
           x == [sessions[s] EXCEPT !.kept = kept]
           t == [turns[n] EXCEPT !.stage = "linked"]
<1>1. /\ turns[n].stage = "stored"
      /\ CanLink(s, fs)
      /\ turns' = [turns EXCEPT ![n].stage = "linked"]
      /\ files' = [f \in DOMAIN files |-> IF f \in fs THEN [files[f] EXCEPT !.message = n]
                                                      ELSE files[f]]
      /\ sessions' = [sessions EXCEPT ![s].kept = kept]
      /\ LookBehind(n)
      /\ UNCHANGED <<store, composer, entering, send, upload, other, used>>
  BY <1>0, <1>00 DEF LinkAttachments
<1>2. /\ n <= used.sends /\ turns[n] \in Turn(Len(sessions)) /\ s \in DOMAIN sessions
      /\ sessions[s] \in Session /\ Sound(sessions[s]) /\ n \in 0..MaxSends
      /\ Held /\ Turning
  BY <1>0, <1>1, TurnFacts DEF IInv
<1>3. row \in ToSet(sessions[s].log)
  BY <1>0, <1>1, <1>2 DEF Turning
<1>4. row \in Message /\ ~row.optimistic /\ row.n = n
  BY <1>2, RowFacts
<1>5. /\ sessions' = [sessions EXCEPT ![s] = x] /\ turns' = [turns EXCEPT ![n] = t]
  BY <1>1
<1>6. /\ x \in Session /\ x.log = sessions[s].log /\ x.kept = kept /\ x.by = sessions[s].by
      /\ x.ticket = sessions[s].ticket
  <2>1. kept \in SUBSET Message
    BY <1>2, <1>4 DEF Session
  <2> HIDE DEF kept, row
  <2> QED BY <1>2, <2>1 DEF Session
<1>7. t \in Turn(Len(sessions)) /\ t.stage = "linked" /\ t.session = s
  BY <1>0, <1>2 DEF Turn
<1>8. \A k \in 1..MaxSends : Row(k, "assistant") # row /\ (Row(k, "user") = row => k = n)
  BY DEF Row
<1> HIDE DEF x, t, row
<1>9. Sound(x)
  <2>1. \A m \in x.kept : ~m.optimistic
    BY <1>2, <1>4, <1>6 DEF Sound
  <2>2. ASSUME NEW k \in 1..MaxSends
        PROVE  /\ Row(k, "assistant") \in x.kept => Row(k, "user") \in x.kept
               /\ Exchanged(k) \cap x.kept \subseteq ToSet(x.log)
    BY <1>2, <1>3, <1>6, <1>8 DEF Sound, Exchanged
  <2> QED BY <1>6, <2>1, <2>2 DEF Sound
<1>10. Grown(sessions[s], x)
  BY <1>2, <1>6, GrownSame DEF Grown
<1>11. files' \in Seq(File) /\ Len(files') = Len(files) /\ DOMAIN files' = DOMAIN files
  <2>1. /\ Len(files) \in Nat /\ DOMAIN files = 1..Len(files)
        /\ \A f \in DOMAIN files : files[f] \in File
    BY <1>2, HeldFacts
  <2>2. \A f \in DOMAIN files : files'[f] \in File
    BY <1>1, <1>2, <2>1 DEF File
  <2>3. DOMAIN files' = 1..Len(files)
    BY <1>1, <2>1
  <2>4. files' \in [1..Len(files) -> File]
    <3>1. files' = [f \in 1..Len(files) |-> files'[f]]
      BY <1>1, <2>1
    <3> QED BY <2>1, <2>2, <3>1
  <2>5. files' \in Seq(File)
    BY <2>1, <2>4, SeqDef
  <2> QED BY <2>1, <2>3, <2>5, LenProperties
<1>12. ASSUME SessionsKept, NEW f \in DOMAIN files'
       PROVE  Filed(f)'
  <2>1. /\ f \in DOMAIN files /\ files[f] \in File /\ Filed(f)
    BY <1>2, <1>11, HeldFacts DEF Held
  <2>2. /\ files[f].session \in DOMAIN sessions'
        /\ sessions[files[f].session].kept \subseteq sessions'[files[f].session].kept
    BY <1>12, <2>1 DEF Filed, SessionsKept, Grown
  <2>3. CASE f \in fs
    <3>1. files'[f].session = s /\ files'[f].message = n
      BY <1>1, <2>1, <2>3 DEF File, CanLink
    <3>2. row \in sessions'[s].kept
      BY <1>2, <1>5, <1>6
    <3>3. files[f].session = s
      BY <1>1, <2>3 DEF CanLink
    <3> QED BY <2>2, <3>1, <3>2, <3>3 DEF Filed, row
  <2>4. CASE f \notin fs
    <3>1. files'[f] = files[f]
      BY <1>1, <2>1, <2>4
    <3> QED BY <2>1, <2>2, <3>1 DEF Filed
  <2> QED BY <2>3, <2>4
<1>13. /\ Held' /\ Turning' /\ SessionsKept /\ Len(sessions') = Len(sessions)
       /\ \A u \in DOMAIN sessions : sessions'[u] = IF u = s THEN x ELSE sessions[u]
  <2>1. \A m \in x.kept \ sessions[s].kept : m.n = n
    BY <1>4, <1>6
  <2>2. UNCHANGED used
    BY <1>1
  <2>3. row \in ToSet(x.log)
    BY <1>3, <1>6
  <2> QED BY <1>2, <1>5, <1>7, <1>9, <1>10, <1>11, <1>12, <2>1, <2>2, <2>3, TurnHeld DEF row
<1> QED BY <1>0, <1>1, <1>2, <1>11, <1>13, TurnGoesOn DEF LookBehind

\* The rows of an answer.
LEMMA AnswerFacts ==
    ASSUME NEW n \in 0..MaxSends, NEW k \in Nat
    PROVE  Answer(n, k) \in Seq(Message) /\ Row(n, "assistant") \in ToSet(Answer(n, k))
<1> DEFINE rows == [i \in 1..k |-> Row(n, "system")]
           last == <<Row(n, "assistant")>>
<1>1. rows \in Seq(Message)
  <2>1. Row(n, "system") \in Message
    BY RowFacts
  <2>2. rows \in [1..k -> Message]
    BY <2>1
  <2> HIDE DEF rows
  <2> QED BY <2>2, SeqDef
<1>2. last \in Seq(Message) /\ ToSet(last) = {Row(n, "assistant")}
  BY RowFacts, OneRow
<1>3. Answer(n, k) = rows \o last
  BY DEF Answer
<1> HIDE DEF rows, last
<1> QED BY <1>1, <1>2, <1>3, AddedRows

\* A turn is answered, and committed.
LEMMA AnswerTurnStep ==
    ASSUME IInv, NEW n \in 1..MaxSends, NEW statuses \in StatusRows, NEW ticket \in Tickets,
           AnswerTurn(n, statuses, ticket)
    PROVE  IInv'
<1>0. PICK s : s = turns[n].session
  OBVIOUS
<1> DEFINE rows == {Row(n, role) : role \in {"user", "system", "assistant"}}
           kept == sessions[s].kept \cup rows
           log == sessions[s].log \o Answer(n, statuses)
           x == [sessions[s] EXCEPT !.log = log, !.kept = kept,
                                    !.ticket = sessions[s].ticket \/ ticket]
<1>1. /\ turns[n].stage \in {"stored", "linked"}
      /\ turns' = [turns EXCEPT ![n] = NoTurn]
      /\ sessions' = [sessions EXCEPT ![s].log = log, ![s].kept = kept,
                                      ![s].ticket = @ \/ ticket]
      /\ LookBehind(n)
      /\ UNCHANGED <<files, store, composer, entering, send, upload, other, used>>
  BY <1>0 DEF AnswerTurn
<1>2. /\ n <= used.sends /\ s \in DOMAIN sessions
      /\ sessions[s] \in Session /\ Sound(sessions[s]) /\ n \in 0..MaxSends
      /\ Held /\ Turning /\ Len(sessions) \in Nat
      /\ statuses \in Nat /\ ticket \in BOOLEAN
  BY <1>0, <1>1, TurnFacts, HeldFacts, TurnAssumption DEF IInv
<1>3. Row(n, "user") \in ToSet(sessions[s].log)
  BY <1>0, <1>1, <1>2 DEF Turning
<1>4. /\ rows \in SUBSET Message
      /\ \A m \in rows : ~m.optimistic /\ m.n = n
      /\ \A k \in 1..MaxSends, role \in {"user", "assistant"} :
            Row(k, role) \in rows => k = n
      /\ \A role \in {"user", "assistant"} : Row(n, role) \in rows
  <2>1. \A role \in {"user", "system", "assistant"} :
           Row(n, role) \in Message /\ ~Row(n, role).optimistic /\ Row(n, role).n = n
    BY <1>2, RowFacts
  <2>2. \A k \in 1..MaxSends, role \in {"user", "assistant"} : Row(k, role).n = k
    BY DEF Row
  <2> QED BY <2>1, <2>2
<1>5. /\ Answer(n, statuses) \in Seq(Message)
      /\ Row(n, "assistant") \in ToSet(Answer(n, statuses))
  BY <1>2, AnswerFacts
<1>6. log \in Seq(Message)
      /\ ToSet(log) = ToSet(sessions[s].log) \cup ToSet(Answer(n, statuses))
  <2>1. sessions[s].log \in Seq(Message)
    BY <1>2 DEF Session
  <2> QED BY <1>5, <2>1, AddedRows
<1>7. PICK b \in BOOLEAN : b = (sessions[s].ticket \/ ticket)
  OBVIOUS
<1>8. sessions' = [sessions EXCEPT ![s] = x]
  <2> HIDE DEF log, kept
  <2> QED BY <1>1
<1>9. kept \in SUBSET Message
  <2> HIDE DEF rows
  <2> QED BY <1>2, <1>4 DEF Session
<1>10. /\ x \in Session /\ x.log = log /\ x.kept = kept /\ x.by = sessions[s].by
  <2> HIDE DEF log, kept, rows
  <2>1. x = [sessions[s] EXCEPT !.log = log, !.kept = kept, !.ticket = b]
    BY <1>7
  <2> HIDE DEF x
  <2> QED BY <1>2, <1>6, <1>9, <2>1 DEF Session
<1>11. NoTurn \in Turn(Len(sessions)) /\ NoTurn.stage = "none"
  BY <1>2, NoTurnFacts
<1> HIDE DEF x, rows
<1>12. Sound(x)
  <2>1. \A m \in x.kept : ~m.optimistic
    BY <1>2, <1>4, <1>10 DEF Sound
  <2>2. ASSUME NEW k \in 1..MaxSends
        PROVE  /\ Row(k, "assistant") \in x.kept => Row(k, "user") \in x.kept
               /\ Exchanged(k) \cap x.kept \subseteq ToSet(x.log)
    <3>1. CASE k = n
      BY <1>3, <1>4, <1>5, <1>6, <1>10, <3>1 DEF Exchanged
    <3>2. CASE k # n
      <4>1. \A role \in {"user", "assistant"} :
               Row(k, role) \in x.kept => Row(k, role) \in sessions[s].kept
        BY <1>4, <1>10, <3>2
      <4>2. sessions[s].kept \subseteq x.kept /\ ToSet(sessions[s].log) \subseteq ToSet(x.log)
        BY <1>6, <1>10
      <4> QED BY <1>2, <4>1, <4>2 DEF Sound, Exchanged
    <3> QED BY <3>1, <3>2
  <2> QED BY <1>10, <2>1, <2>2 DEF Sound
<1>13. Grown(sessions[s], x)
  BY <1>5, <1>10 DEF Grown
<1>14. /\ files' \in Seq(File) /\ Len(files') = Len(files)
       /\ SessionsKept => \A f \in DOMAIN files' : Filed(f)'
  BY <1>1, <1>2, FiledGoesOn DEF Held
<1>15. /\ Held' /\ Turning' /\ SessionsKept /\ Len(sessions') = Len(sessions)
       /\ \A u \in DOMAIN sessions : sessions'[u] = IF u = s THEN x ELSE sessions[u]
  <2>1. \A m \in x.kept \ sessions[s].kept : m.n = n
    BY <1>4, <1>10
  <2>2. UNCHANGED used /\ turns' = [turns EXCEPT ![n] = NoTurn]
    BY <1>1
  <2> QED BY <1>2, <1>8, <1>11, <1>12, <1>13, <1>14, <2>1, <2>2, TurnHeld
<1> QED BY <1>0, <1>1, <1>2, <1>14, <1>15, TurnGoesOn DEF LookBehind

\* A turn fails, and nothing else comes of it.
LEMMA FailTurnStep ==
    ASSUME IInv, NEW n \in 1..MaxSends, FailTurn(n)
    PROVE  IInv'
<1>0. PICK s : s = turns[n].session
  OBVIOUS
<1>1. /\ turns[n].stage # "none" /\ turns' = [turns EXCEPT ![n] = NoTurn]
      /\ UNCHANGED <<sessions, files, store, page, composer, entering, send, upload, other, used>>
  BY DEF FailTurn
<1>2. /\ n <= used.sends /\ s \in DOMAIN sessions /\ Sound(sessions[s])
      /\ Held /\ Turning /\ Len(sessions) \in Nat
  BY <1>0, <1>1, TurnFacts, HeldFacts DEF IInv
<1>3. NoTurn \in Turn(Len(sessions)) /\ NoTurn.stage = "none"
  BY <1>2, NoTurnFacts
<1>4. SessionsKept
  BY <1>1, <1>2, SameIsKept
<1>5. Held'
  BY <1>1, <1>2 DEF Held, Filed
<1>6. Turning'
  BY <1>1, <1>3 DEF IInv, Turning
<1>7. Visible(s)' = Visible(s) /\ sessions'[s].ticket = sessions[s].ticket
  BY <1>1 DEF Visible
<1>8. /\ Len(sessions') = Len(sessions) /\ Len(files') = Len(files) /\ page' = page
      /\ UNCHANGED <<store, composer, entering, send, upload, other, used>>
      /\ \A u \in DOMAIN sessions \ {s} : sessions'[u] = sessions[u]
  BY <1>1
<1> QED BY <1>2, <1>4, <1>5, <1>6, <1>7, <1>8, TurnGoesOn

-----------------------------------------------------------------------------
(***************************************************************************)
(* What happens around the page                                            *)
(***************************************************************************)
LEMMA NewPageFacts ==
    /\ \A k \in Nat : NewPage \in Page(k)
    /\ NewComposer \in Composer /\ NotSending \in Sent /\ NotUploading \in Upload
    /\ NotSending.pc = "off" /\ NotUploading.pc = "off"
    /\ NewPage.session = 0 /\ NewPage.loading /\ ~NewPage.sending /\ ~NewPage.timer
    /\ ~NewPage.resumed /\ NewPage.intent = 0
<1>1. 0 \in 0..MaxSends /\ 0 \in 0..MaxSessions
  BY BoundsAssumption
<1>2. <<>> \in Seq(Message)
  BY EmptySeq
<1>3. ASSUME NEW k \in Nat PROVE NewPage \in Page(k)
  <2>1. 0 \in 0..k
    OBVIOUS
  <2> QED BY <1>1, <1>2, <2>1 DEF NewPage, Page
<1>4. NewComposer \in Composer
  BY DEF NewComposer, Composer
<1>5. NotSending \in Sent
  BY <1>1 DEF NotSending, Sent
<1>6. NotUploading \in Upload
  BY <1>1 DEF NotUploading, Upload
<1>7. NotSending.pc = "off" /\ NotUploading.pc = "off"
  BY DEF NotSending, NotUploading
<1>8. /\ NewPage.session = 0 /\ NewPage.loading /\ ~NewPage.sending /\ ~NewPage.timer
      /\ ~NewPage.resumed /\ NewPage.intent = 0
  BY DEF NewPage
<1> QED BY <1>3, <1>4, <1>5, <1>6, <1>7, <1>8

\* The page is loaded again, whatever was under way; the turns go on.
LEMMA ReloadStep ==
    ASSUME IInv, Reload
    PROVE  IInv'
<1>1. /\ used.loads < MaxLoads
      /\ used' = [used EXCEPT !.loads = used.loads + 1]
      /\ page' = NewPage /\ composer' = NewComposer
      /\ entering' = [pc |-> "health"] /\ send' = NotSending /\ upload' = NotUploading
      /\ UNCHANGED <<sessions, files, store, turns, other>>
  BY DEF Reload
<1>2. /\ Held /\ used \in Used /\ other \in Other(Len(sessions))
      /\ store \in 0..Len(sessions)
      /\ Len(sessions) \in Nat /\ DOMAIN sessions = 1..Len(sessions)
      /\ MaxLoads \in Nat
      /\ \A s \in DOMAIN sessions : sessions[s] \in Session
  BY HeldFacts, BoundsAssumption DEF IInv, Going, Held
<1>3. used.loads \in 1..MaxLoads
  BY <1>2 DEF Used
<1>4. used' \in Used /\ used'.loads = used.loads + 1 /\ used'.sends = used.sends
  <2>1. used.loads + 1 \in 1..MaxLoads
    BY <1>1, <1>2, <1>3
  <2> QED BY <1>1, <1>2, <2>1 DEF Used
<1>5. \A s \in DOMAIN sessions : sessions[s].by \in Nat /\ sessions[s].by <= used.loads
  <2>1. \A s \in DOMAIN sessions : sessions[s].by \in 0..MaxLoads
    BY <1>2 DEF Session
  <2> QED BY <1>2, <2>1 DEF Held
<1>6. \A s \in DOMAIN sessions' : /\ sessions'[s].by <= used'.loads
                                  /\ sessions'[s].by # used'.loads
  BY <1>1, <1>3, <1>4, <1>5
<1>7. Held'
  BY <1>1, <1>2, <1>4, <1>6 DEF Held, Filed
<1>8. Turning'
  BY <1>1, <1>4 DEF IInv, Turning
<1>9. /\ page' \in Page(Len(sessions')) /\ composer' \in Composer
      /\ send' \in Sent /\ send'.pc = "off" /\ upload' \in Upload /\ upload'.pc = "off"
      /\ page'.session = 0 /\ page'.loading /\ ~page'.sending /\ ~page'.timer
      /\ ~page'.resumed /\ page'.intent = 0
  BY <1>1, <1>2, NewPageFacts
<1>10. entering'.pc = "health"
       /\ entering' \in [pc : {"off", "health", "config", "create", "list", "context"}]
  BY <1>1
<1>11. Going'
  BY <1>1, <1>2, <1>9, <1>10 DEF Going
<1>12. View'
  <2>1. WorkOK' /\ StoreOK' /\ Answered'
    BY <1>9, <1>10 DEF WorkOK, StoreOK, Answered, Boot
  <2>2. ScreenOK'
    BY <1>9, <1>10 DEF ScreenOK, Settled, AtRest
  <2>3. ResumedOK'
    BY <1>6, <1>9, <1>10 DEF ResumedOK, Boot
  <2> QED BY <2>1, <2>2, <2>3 DEF View
<1> QED BY <1>7, <1>8, <1>11, <1>12 DEF IInv

\* What another tab does leaves the page right, but for the stored session.
LEMMA ElsewhereKeeps ==
    ASSUME IInv, Held', Turning', SessionsKept,
           UNCHANGED <<files, composer, entering, send, upload>>, used'.loads = used.loads,
           \A u \in DOMAIN sessions : sessions'[u] = sessions[u],
           \A u \in DOMAIN sessions' \ DOMAIN sessions : sessions'[u].by = 0,
           \/ page' = page /\ store' = store
           \/ page' = [page EXCEPT !.behind = page.behind \cup {"store"}],
           store' \in 0..Len(sessions'),
           other' \in Other(Len(sessions'))
    PROVE  IInv'
<1>1. /\ page \in Page(Len(sessions))
      /\ Len(sessions) \in Nat /\ DOMAIN sessions = 1..Len(sessions)
      /\ page.session \in 0..Len(sessions)
      /\ page.behind \subseteq {"messages", "ticket", "store"}
      /\ Len(sessions') \in Nat /\ Len(sessions) <= Len(sessions')
  BY HeldFacts, LenProperties DEF IInv, Going, Page, SessionsKept
<1>2. PICK b : /\ page.behind \subseteq b /\ b \subseteq {"messages", "ticket", "store"}
               /\ page' = [page EXCEPT !.behind = b]
               /\ store' = store \/ "store" \in b
  <2>1. CASE page' = page /\ store' = store
    <3>1. page = [page EXCEPT !.behind = page.behind]
      BY <1>1 DEF Page
    <3> QED BY <1>1, <2>1, <3>1
  <2>2. CASE page' = [page EXCEPT !.behind = page.behind \cup {"store"}]
    <3> DEFINE c == page.behind \cup {"store"}
    <3>1. page.behind \subseteq c /\ c \subseteq {"messages", "ticket", "store"} /\ "store" \in c
      BY <1>1
    <3>2. page' = [page EXCEPT !.behind = c]
      BY <2>2
    <3> HIDE DEF c
    <3> QED BY <3>1, <3>2
  <2> QED BY <2>1, <2>2
<1>3. page.session # 0 =>
         /\ Listed(page.session)' = Listed(page.session)
         /\ sessions'[page.session].ticket = sessions[page.session].ticket
  <2> SUFFICES ASSUME page.session # 0
               PROVE  /\ Listed(page.session)' = Listed(page.session)
                      /\ sessions'[page.session].ticket = sessions[page.session].ticket
    OBVIOUS
  <2>1. sessions'[page.session] = sessions[page.session]
    BY <1>1
  <2>2. page'.session = page.session
    BY <1>1, <1>2 DEF Page
  <2> QED BY <2>1, <2>2 DEF Listed, Visible
<1>4. page' \in Page(Len(sessions')) /\ page'.session = page.session /\ View'
  BY <1>1, <1>2, <1>3, ViewGoesOn
<1>5. Going'
  <2>1. /\ composer \in Composer /\ send \in Sent /\ upload \in Upload
        /\ send.pc # "off" => send.n # 0 /\ send.session # 0 /\ send.session = page.session
    BY DEF IInv, Going
  <2>2. upload.pc = "post" =>
          /\ upload.session \in 1..Len(sessions') /\ upload.left # 0
          /\ Len(files) + upload.left <= MaxFiles
    BY <1>1 DEF IInv, Going
  <2>3. \/ entering \in [pc : {"off", "health", "config", "create", "list", "context"}]
        \/ entering \in [pc : {"resume"}, stored : 1..Len(sessions')]
    <3>1. 1..Len(sessions) \subseteq 1..Len(sessions')
      BY <1>1
    <3> QED BY <3>1 DEF IInv, Going
  <2> QED BY <1>4, <2>1, <2>2, <2>3 DEF Going
<1> QED BY <1>4, <1>5 DEF IInv

\* Another tab sends a message.
LEMMA SendElsewhereStep ==
    ASSUME IInv, NEW s, SendElsewhere(s)
    PROVE  IInv'
<1>1. /\ s \in DOMAIN sessions /\ used.sends < MaxSends
      /\ used' = [used EXCEPT !.sends = used.sends + 1, !.elsewhere = used.elsewhere + 1]
      /\ StartTurn(used.sends + 1, s, {})
      /\ UNCHANGED <<sessions, files, store, page, composer, entering, send, upload, other>>
  BY DEF SendElsewhere
<1>2. Held /\ Turning /\ used \in Used /\ MaxSends \in Nat
      /\ store \in 0..Len(sessions) /\ other \in Other(Len(sessions))
  BY BoundsAssumption DEF IInv, Held, Going
<1>3. used' \in Used /\ used'.sends = used.sends + 1 /\ used'.loads = used.loads
  <2>1. used.elsewhere + 1 \in Nat /\ used.sends + 1 \in 0..MaxSends
    BY <1>1, <1>2 DEF Used
  <2> QED BY <1>1, <1>2, <2>1 DEF Used
<1>4. Turning'
  BY <1>1, <1>2, <1>3, StartTurnFacts
<1>5. Held'
  BY <1>1, <1>2, <1>3 DEF Held, Filed
<1>6. SessionsKept
  BY <1>1, <1>2, SameIsKept
<1> QED BY <1>1, <1>2, <1>3, <1>4, <1>5, <1>6, ElsewhereKeeps

\* Another tab begins to enter a session: what it does not touch.
LEMMA BeginElsewhereFacts ==
    ASSUME IInv, BeginElsewhere
    PROVE  /\ Held' /\ Turning' /\ SessionsKept
           /\ used'.loads = used.loads
           /\ UNCHANGED <<sessions, files, composer, entering, send, upload>>
           /\ store \in 0..Len(sessions) /\ Len(sessions) \in Nat
           /\ 0 \in 0..Len(sessions)
<1>1. /\ used' = [used EXCEPT !.elsewhere = used.elsewhere + 1]
      /\ UNCHANGED <<sessions, files, composer, entering, send, upload, turns>>
  BY DEF BeginElsewhere
<1>2. Held /\ Turning /\ used \in Used /\ store \in 0..Len(sessions) /\ Len(sessions) \in Nat
  BY HeldFacts DEF IInv, Held, Going
<1>3. used' \in Used /\ used'.sends = used.sends /\ used'.loads = used.loads
  <2>1. used.elsewhere + 1 \in Nat
    BY <1>2 DEF Used
  <2> QED BY <1>1, <1>2, <2>1 DEF Used
<1>4. Turning'
  BY <1>1, <1>2, <1>3 DEF Turning
<1>5. Held'
  BY <1>1, <1>2, <1>3 DEF Held, Filed
<1>6. SessionsKept
  BY <1>1, <1>2, SameIsKept
<1> QED BY <1>1, <1>2, <1>3, <1>4, <1>5, <1>6

LEMMA LoadElsewhereStep ==
    ASSUME IInv, LoadElsewhere
    PROVE  IInv'
<1>1. /\ BeginElsewhere
      /\ other' = [pc |-> IF store # 0 THEN "resume" ELSE "create", stored |-> store]
      /\ UNCHANGED <<store, page>>
  BY DEF LoadElsewhere
<1>2. other' \in Other(Len(sessions'))
  BY <1>1, BeginElsewhereFacts DEF Other
<1> QED BY <1>1, <1>2, BeginElsewhereFacts, ElsewhereKeeps

LEMMA StartElsewhereStep ==
    ASSUME IInv, StartElsewhere
    PROVE  IInv'
<1>1. /\ BeginElsewhere
      /\ store' = 0 /\ page' = [page EXCEPT !.behind = page.behind \cup {"store"}]
      /\ other' = [pc |-> "create", stored |-> 0]
  BY DEF StartElsewhere, StoreElsewhere
<1>2. other' \in Other(Len(sessions'))
  BY <1>1, BeginElsewhereFacts DEF Other
<1> QED BY <1>1, <1>2, BeginElsewhereFacts, ElsewhereKeeps

\* It comes back to the session that was stored, or forgets it.
LEMMA ResumeElsewhereStep ==
    ASSUME IInv, NEW ok \in BOOLEAN, ResumeElsewhere(ok)
    PROVE  IInv'
<1>1. /\ store' = IF ok THEN other.stored ELSE 0
      /\ page' = [page EXCEPT !.behind = page.behind \cup {"store"}]
      /\ other' = IF ok THEN [pc |-> "off", stored |-> 0] ELSE [pc |-> "create", stored |-> 0]
      /\ UNCHANGED <<sessions, files, composer, entering, send, upload, turns, used>>
  BY DEF ResumeElsewhere, StoreElsewhere, NotElsewhere
<1>2. Held /\ Turning /\ other \in Other(Len(sessions)) /\ Len(sessions) \in Nat
  BY HeldFacts DEF IInv, Going
<1>3. Held' /\ Turning'
  BY <1>1, <1>2 DEF Held, Turning, Filed
<1>4. SessionsKept
  BY <1>1, <1>2, SameIsKept
<1>5. store' \in 0..Len(sessions') /\ other' \in Other(Len(sessions'))
  BY <1>1, <1>2 DEF Other
<1> QED BY <1>1, <1>3, <1>4, <1>5, ElsewhereKeeps

\* It creates a session, or fails.
LEMMA CreateElsewhereStep ==
    ASSUME IInv, NEW created \in BOOLEAN, NEW ok \in BOOLEAN, CreateElsewhere(created, ok)
    PROVE  IInv'
<1>1. /\ ok => created
      /\ IF created THEN Create(0) ELSE UNCHANGED sessions
      /\ IF ok THEN /\ store' = Len(sessions')
                    /\ page' = [page EXCEPT !.behind = page.behind \cup {"store"}]
               ELSE UNCHANGED <<store, page>>
      /\ other' = [pc |-> "off", stored |-> 0]
      /\ UNCHANGED <<files, composer, entering, send, upload, turns, used>>
  BY DEF CreateElsewhere, StoreElsewhere, NotElsewhere
<1>2. /\ Held /\ Turning /\ used \in Used /\ Len(sessions) \in Nat
      /\ store \in 0..Len(sessions)
  BY HeldFacts DEF IInv, Held, Going
<1>3. 0 \in 0..used.loads
  <2>1. used.loads \in 1..MaxLoads /\ MaxLoads \in Nat
    BY <1>2, BoundsAssumption DEF Used
  <2> QED BY <2>1
<1>4. /\ Held' /\ Turning' /\ SessionsKept /\ Len(sessions) <= Len(sessions')
      /\ Len(sessions') \in Nat
      /\ \A u \in DOMAIN sessions : sessions'[u] = sessions[u]
      /\ \A u \in DOMAIN sessions' \ DOMAIN sessions : sessions'[u].by = 0
  <2>1. CASE created
    <3>1. Create(0) /\ UNCHANGED <<files, turns>> /\ used' \in Used
          /\ used'.loads = used.loads /\ used'.sends = used.sends
      BY <1>1, <1>2, <2>1
    <3>2. /\ Held' /\ Turning' /\ SessionsKept /\ Len(sessions') = Len(sessions) + 1
          /\ \A u \in DOMAIN sessions : sessions'[u] = sessions[u]
          /\ sessions'[Len(sessions')].by = 0
          /\ \A u \in DOMAIN sessions' : u \in DOMAIN sessions \/ u = Len(sessions')
      BY <1>2, <1>3, <3>1, CreateFacts
    <3> QED BY <1>2, <3>2
  <2>2. CASE ~created
    <3>1. UNCHANGED sessions
      BY <1>1, <2>2
    <3>2. Held' /\ Turning'
      BY <1>1, <1>2, <3>1 DEF Held, Turning, Filed
    <3>3. SessionsKept
      BY <1>2, <3>1, SameIsKept
    <3> QED BY <1>2, <3>1, <3>2, <3>3
  <2> QED BY <2>1, <2>2
<1>5. store' \in 0..Len(sessions') /\ other' \in Other(Len(sessions'))
  BY <1>1, <1>2, <1>4 DEF Other
<1> QED BY <1>1, <1>4, <1>5, ElsewhereKeeps

-----------------------------------------------------------------------------
(***************************************************************************)
(* The invariant, and what follows from it                                 *)
(***************************************************************************)
LEMMA InitKeeps ==
    ASSUME Init
    PROVE  IInv
<1>1. /\ sessions = <<>> /\ files = <<>> /\ store = 0
      /\ page = NewPage /\ composer = NewComposer
      /\ entering = [pc |-> "health"] /\ send = NotSending /\ upload = NotUploading
      /\ turns = [n \in 1..MaxSends |-> NoTurn] /\ other = [pc |-> "off", stored |-> 0]
      /\ used = [sends |-> 0, loads |-> 1, elsewhere |-> 0]
  BY DEF Init, NotElsewhere
<1>2. /\ sessions \in Seq(Session) /\ Len(sessions) = 0 /\ DOMAIN sessions = {}
      /\ files \in Seq(File) /\ Len(files) = 0 /\ DOMAIN files = {}
  BY <1>1, EmptySeq
<1>3. /\ page \in Page(0) /\ composer \in Composer /\ send \in Sent /\ upload \in Upload
      /\ send.pc = "off" /\ upload.pc = "off"
      /\ page.session = 0 /\ page.loading /\ ~page.sending /\ ~page.timer
      /\ ~page.resumed /\ page.intent = 0
  <2>1. 0 \in Nat
    OBVIOUS
  <2> QED BY <1>1, <2>1, NewPageFacts
<1>4. used \in Used
  <2>1. 0 \in 0..MaxSends /\ 1 \in 1..MaxLoads
    BY BoundsAssumption
  <2> QED BY <1>1, <2>1 DEF Used
<1>5. Held
  <2>1. 0 <= MaxSessions
    BY BoundsAssumption
  <2> QED BY <1>2, <1>4, <2>1 DEF Held
<1>6. Turning
  <2>1. NoTurn \in Turn(Len(sessions)) /\ NoTurn.stage = "none"
    BY <1>2, NoTurnFacts
  <2> QED BY <1>1, <1>2, <2>1 DEF Turning
<1>7. entering.pc = "health"
      /\ entering \in [pc : {"off", "health", "config", "create", "list", "context"}]
  BY <1>1
<1>8. Going
  BY <1>1, <1>2, <1>3, <1>7 DEF Going, Other
<1>9. View
  <2>1. WorkOK /\ StoreOK /\ Answered
    BY <1>3, <1>7 DEF WorkOK, StoreOK, Answered, Boot
  <2>2. ScreenOK
    BY <1>3, <1>7 DEF ScreenOK, Settled, AtRest
  <2>3. ResumedOK
    BY <1>2, <1>3, <1>7 DEF ResumedOK, Boot
  <2> QED BY <2>1, <2>2, <2>3 DEF View
<1> QED BY <1>5, <1>6, <1>8, <1>9 DEF IInv

\* Every step keeps the invariant.
LEMMA NextKeeps ==
    ASSUME IInv, [Next]_vars
    PROVE  IInv'
<1>1. CASE EnterStep
  <2>1. ASSUME NEW ok \in BOOLEAN,
               CheckApiHealth(ok) \/ ResumeSession(ok) \/ ListOnEntering(ok)
        PROVE  IInv'
    BY <2>1, HealthStep, ResumeStep, ListOnEnteringStep
  <2>2. ASSUME NEW streaming \in Streaming \cup {FALSE}, GetPublicConfig(streaming)
        PROVE  IInv'
    BY <2>2, ConfigStep
  <2>3. ASSUME NEW created \in BOOLEAN, NEW ok \in BOOLEAN, CreateSession(created, ok)
        PROVE  IInv'
    BY <2>3, CreateStep
  <2>4. ASSUME NEW known \in BOOLEAN, GetContextOnEntering(known)
        PROVE  IInv'
    BY <2>4, ContextOnEnteringStep
  <2> QED BY <1>1, <2>1, <2>2, <2>3, <2>4 DEF EnterStep
<1>2. CASE SendStep
  <2>1. CASE PostAnswered \/ PostFailed
    BY <2>1, PostAnsweredStep, PostFailedStep
  <2>2. ASSUME NEW ok \in BOOLEAN, ListAfterSend(ok) \/ RefreshSession(ok)
        PROVE  IInv'
    BY <2>2, ListAfterSendStep, RefreshStep
  <2>3. ASSUME NEW known \in BOOLEAN, GetContextAfterSend(known)
        PROVE  IInv'
    BY <2>3, ContextAfterSendStep
  <2> QED BY <1>2, <2>1, <2>2, <2>3 DEF SendStep
<1>3. CASE ShowThought
  BY <1>3, ShowThoughtStep
<1>4. CASE UploadStep
  BY <1>4, UploadAttachmentStep DEF UploadStep
<1>5. CASE UserStep
  BY <1>5, StartNewStep, SubmitStep, ReloadStep, ChooseFilesStep, RemovePendingStep
     DEF UserStep
<1>6. CASE TurnStep
  <2>1. PICK n \in 1..MaxSends :
          \/ StoreQuestion(n) \/ LinkAttachments(n) \/ FailTurn(n)
          \/ \E statuses \in StatusRows, ticket \in Tickets : AnswerTurn(n, statuses, ticket)
    BY <1>6 DEF TurnStep
  <2> QED BY <2>1, StoreQuestionStep, LinkAttachmentsStep, FailTurnStep, AnswerTurnStep
<1>7. CASE Elsewhere
  BY <1>7, LoadElsewhereStep, StartElsewhereStep, SendElsewhereStep, ResumeElsewhereStep,
     CreateElsewhereStep DEF Elsewhere
<1>8. CASE UNCHANGED vars
  <2>1. UNCHANGED <<sessions, files, store, page, composer, entering, send, upload, turns,
                    other, used>>
    BY <1>8 DEF vars
  <2>2. View'
    BY <2>1, SameView DEF IInv
  <2> QED BY <2>1, <2>2, PageStep DEF IInv, Going
<1> QED BY <1>1, <1>2, <1>3, <1>4, <1>5, <1>6, <1>7, <1>8 DEF Next

\* Whatever the page, the API and the other tabs do: what the API has, what the
\* chains of fetches refer to and each piece of the screen fit together.
THEOREM Invariance == Spec => []IInv
<1>1. Init => IInv
  BY InitKeeps
<1>2. IInv /\ [Next]_vars => IInv'
  BY NextKeeps
<1> QED BY <1>1, <1>2, PTL DEF Spec

\* Every variable keeps its type, and files and messages are of sessions there are.
THEOREM TypeCorrect == Spec => []TypeOK
<1>1. IInv => TypeOK
  <2> SUFFICES ASSUME IInv PROVE TypeOK
    OBVIOUS
  <2>1. /\ Held /\ Len(sessions) \in Nat /\ Len(sessions) <= MaxSessions /\ MaxSessions \in Nat
    BY HeldFacts, BoundsAssumption DEF IInv, Held
  <2>2. /\ sessions \in Seq([log : Seq(Message), kept : SUBSET Message,
                             ticket : BOOLEAN, by : 0..MaxLoads])
        /\ Len(sessions) <= MaxSessions
        /\ files \in Seq([session : SessionId, message : 0..MaxSends])
    BY <2>1 DEF Held, Session, File
  <2>3. store \in 0..Len(sessions)
    BY DEF IInv, Going
  <2>4. page \in [session : 0..Len(sessions), ticket : BOOLEAN, messages : Seq(Message),
                  context : 0..MaxSessions, intent : 0..MaxSessions,
                  loading : BOOLEAN, sending : BOOLEAN, resumed : BOOLEAN,
                  error : BOOLEAN, streaming : BOOLEAN, thoughts : BOOLEAN, label : BOOLEAN,
                  timer : BOOLEAN, behind : SUBSET {"messages", "ticket", "store"},
                  stranded : BOOLEAN]
    BY DEF IInv, Going, Page
  <2>5. /\ composer \in [pending : SUBSET FileId, uploading : BOOLEAN]
        /\ send \in [pc : {"off", "post", "list", "context", "refresh"}, n : 0..MaxSends,
                     session : 0..MaxSessions]
        /\ upload \in [pc : {"off", "post"}, session : 0..MaxSessions, left : 0..2,
                       done : SUBSET FileId]
        /\ other \in [pc : {"off", "resume", "create"}, stored : 0..Len(sessions)]
    BY DEF IInv, Going, Composer, Sent, Upload, Other
  <2>6. entering \in [pc : {"off", "health", "config", "create", "list", "context"}]
                     \cup [pc : {"resume"}, stored : SessionId]
    <3>1. 1..Len(sessions) \subseteq SessionId
      BY <2>1 DEF SessionId
    <3> QED BY <3>1 DEF IInv, Going
  <2>7. turns \in [1..MaxSends -> [stage : {"none", "sent", "stored", "linked"},
                                   session : 0..MaxSessions, files : SUBSET FileId]]
    <3>1. 0..Len(sessions) \subseteq 0..MaxSessions
      BY <2>1
    <3>2. Turn(Len(sessions)) \subseteq [stage : {"none", "sent", "stored", "linked"},
                                         session : 0..MaxSessions, files : SUBSET FileId]
      BY <3>1 DEF Turn
    <3> QED BY <3>2 DEF IInv, Turning
  <2> QED BY <2>2, <2>3, <2>4, <2>5, <2>6, <2>7 DEF TypeOK
<1> QED BY <1>1, Invariance, PTL

\* At rest and without an error everything on the screen is of the session on
\* the screen, committed, and what the API lists unless others were at work:
\* useChatSession's loadMessages, refreshSession and startNewSession do not mix
\* two sessions, and no row that is rolled back is shown.
THEOREM ScreenIsOfItsSession == Spec => []ScreenAgrees
<1>1. IInv => ScreenAgrees
  BY DEF IInv, View, ScreenOK, MessagesOf, Settled, ScreenAgrees
<1> QED BY <1>1, Invariance, PTL

\* What localStorage and "Continuing your conversation from earlier" say of the
\* session is so, whichever fetch of bootstrap or startNewSession has failed,
\* here or in another tab.
THEOREM RemembersItsSession == Spec => []SessionIsKnown
<1>1. IInv => SessionIsKnown
  <2> SUFFICES ASSUME IInv PROVE SessionIsKnown
    OBVIOUS
  <2>1. StoredIsShown
    BY DEF IInv, View, ScreenOK, StoreOK, Settled, AtRest, StoredIsShown
  <2>2. ResumedIsFromEarlier
    BY DEF IInv, View, ResumedOK, ResumedIsFromEarlier
  <2> QED BY <2>1, <2>2 DEF SessionIsKnown
<1> QED BY <1>1, Invariance, PTL

\* The notices, the status line and its timer are there only while the page is
\* at work, and then, but for the wait for the first thought in a session that
\* has status rows: no way through handleSend leaves one of them on.
THEOREM ShowsItsWork == Spec => []WorkIsVisible
<1>1. IInv => WorkIsVisible
  <2> SUFFICES ASSUME IInv PROVE WorkIsVisible
    OBVIOUS
  <2>1. WorkOK
    BY DEF IInv, View
  <2> DEFINE signs == (Notices \cap {"typing", "thoughts"})
                         \cup {sign \in {"status"} : StatusLineShown}
  <2>2. (entering.pc # "off") <=> ("starting" \in Notices)
    BY <2>1 DEF WorkOK, Notices
  <2>3. /\ "typing" \in Notices <=> page.sending /\ ~page.thoughts /\ ~StatusesShown
        /\ "thoughts" \in Notices <=> page.sending /\ page.thoughts
    BY DEF Notices
  <2>4. signs # {} \/ page.timer => send.pc # "off"
    BY <2>1, <2>3 DEF WorkOK, StatusLineShown
  <2>5. send.pc # "off" =>
           signs # {} \/ (page.streaming /\ ~page.label /\ StatusesShown)
    <3> SUFFICES ASSUME send.pc # "off", ~(page.streaming /\ ~page.label /\ StatusesShown)
                 PROVE  signs # {}
      OBVIOUS
    <3>1. page.sending /\ (page.streaming \/ page.label)
      BY <2>1 DEF WorkOK
    <3>2. CASE page.label
      <4>1. StatusLineShown
        BY <3>1, <3>2 DEF StatusLineShown
      <4> QED BY <4>1
    <3>3. CASE ~page.label
      <4>1. ~StatusesShown
        BY <3>1, <3>3
      <4>2. "typing" \in Notices \/ "thoughts" \in Notices
        BY <2>3, <3>1, <4>1
      <4> QED BY <4>2
    <3> QED BY <3>2, <3>3
  <2> QED BY <2>2, <2>4, <2>5 DEF WorkIsVisible
<1> QED BY <1>1, Invariance, PTL

\* A file of one session never goes to a message of another, however uploads,
\* "New chat" and turns that outlive their page are interleaved.
THEOREM FilesKeepToTheirSession == Spec => []FilesStayInSession
<1>1. IInv => FilesStayInSession
  BY DEF IInv, Held, Filed, FilesStayInSession
<1> QED BY <1>1, Invariance, PTL

-----------------------------------------------------------------------------
(***************************************************************************)
(* A message is answered, or its failure is shown                          *)
(***************************************************************************)

\* What the user sees once a message is over.
OverIs(n, s) ==
    /\ Optimistic(n) \notin ToSet(page'.messages)
    /\ \/ page'.error
       \/ Exchanged(n) \subseteq ToSet(page'.messages)
       \/ Len(Visible(s)) > ListLimit

\* A message that failed is taken back, and the error is shown.
LEMMA FailureIsShown ==
    ASSUME IInv, NEW failed \in BOOLEAN, failed, SendOver(page, failed), NEW n, n = send.n
    PROVE  page'.error /\ Optimistic(n) \notin ToSet(page'.messages)
<1>1. page \in Page(Len(sessions)) /\ composer \in Composer /\ send \in Sent
  BY DEF IInv, Going
<1>2. /\ page'.messages = Select(page.messages, Message \ {Optimistic(send.n)})
      /\ page'.error = failed
  BY <1>1, SentOver
<1>3. page.messages \in Seq(Message)
  BY <1>1 DEF Page
<1>4. ToSet(page'.messages) = ToSet(page.messages) \cap (Message \ {Optimistic(send.n)})
  BY <1>2, <1>3, SelectRange
<1> QED BY <1>2, <1>4

\* A message that was answered is over when the page has asked for the session.
LEMMA RefreshIsShown ==
    ASSUME IInv, NEW ok \in BOOLEAN, RefreshSession(ok), NEW n, n = send.n,
           NEW s, s = send.session
    PROVE  OverIs(n, s)
<1>1. send.pc = "refresh"
  BY DEF RefreshSession
<1>2. PICK failed \in BOOLEAN : failed = ~ok
  OBVIOUS
<1>3. CASE failed
  <2>1. SendOver(page, failed)
    BY <1>2, <1>3 DEF RefreshSession, SendOver
  <2> QED BY <1>3, <2>1, FailureIsShown DEF OverIs
<1>4. CASE ~failed
  <2>1. /\ page \in Page(Len(sessions)) /\ composer \in Composer /\ send \in Sent
        /\ page.session \in DOMAIN sessions /\ send.session = page.session
        /\ send.n \in 1..MaxSends /\ Sound(sessions[page.session])
    BY <1>1, SendFacts
  <2> DEFINE p == [page EXCEPT !.session = page.session,
                               !.ticket = sessions[page.session].ticket,
                               !.behind = page.behind \ {"ticket"}]
  <2>2. SendOver(p, failed)
    BY <1>2, <1>4, <2>1 DEF RefreshSession, SendOver
  <2>3. p \in Page(Len(sessions)) /\ p.messages = page.messages
    BY <2>1 DEF Page, Sound, Session
  <2> HIDE DEF p
  <2>4. page'.messages = Select(page.messages, Message \ {Optimistic(send.n)})
    BY <2>1, <2>2, <2>3, SentOver
  <2>5. page.messages \in Seq(Message)
    BY <2>1 DEF Page
  <2>6. ToSet(page'.messages) = ToSet(page.messages) \cap (Message \ {Optimistic(send.n)})
    BY <2>4, <2>5, SelectRange
  <2>7. Exchanged(send.n) \subseteq ToSet(page.messages) \/ Len(Visible(send.session)) > ListLimit
    BY <1>1 DEF IInv, View, Answered
  <2>8. Exchanged(send.n) \subseteq Message \ {Optimistic(send.n)}
    <3>1. send.n \in 0..MaxSends
      BY <2>1
    <3>2. \A role \in {"user", "assistant"} :
             Row(send.n, role) \in Message /\ ~Row(send.n, role).optimistic
      BY <3>1, RowFacts
    <3>3. Optimistic(send.n).optimistic
      BY DEF Optimistic
    <3> QED BY <3>2, <3>3 DEF Exchanged
  <2> QED BY <2>6, <2>7, <2>8 DEF OverIs
<1> QED BY <1>3, <1>4

\* However a message ends, the user is told.
LEMMA OverIsShown ==
    ASSUME IInv, Next, send.pc # "off", send'.pc = "off", page' # NewPage,
           NEW n, n = send.n, NEW s, s = send.session
    PROVE  OverIs(n, s)
<1>1. CASE PostFailed
  <2>1. PICK failed \in BOOLEAN : failed
    OBVIOUS
  <2>2. SendOver(page, failed)
    BY <1>1, <2>1 DEF PostFailed, SendOver
  <2> QED BY <2>1, <2>2, FailureIsShown DEF OverIs
<1>2. CASE \E ok \in BOOLEAN : ListAfterSend(ok)
  <2>1. PICK ok \in BOOLEAN : ListAfterSend(ok)
    BY <1>2
  <2>2. ~ok
    <3> SUFFICES ASSUME ok PROVE FALSE
      OBVIOUS
    <3>1. send' = [send EXCEPT !.pc = "context"] /\ send \in Sent
      BY <2>1 DEF ListAfterSend, IInv, Going
    <3> QED BY <3>1 DEF Sent
  <2>3. PICK failed \in BOOLEAN : failed
    OBVIOUS
  <2>4. SendOver(page, failed)
    BY <2>1, <2>2, <2>3 DEF ListAfterSend, SendOver
  <2> QED BY <2>3, <2>4, FailureIsShown DEF OverIs
<1>3. CASE \E ok \in BOOLEAN : RefreshSession(ok)
  BY <1>3, RefreshIsShown
<1>4. CASE PostAnswered \/ \E known \in BOOLEAN : GetContextAfterSend(known)
  <2>1. send \in Sent
    BY DEF IInv, Going
  <2>2. send' = [send EXCEPT !.pc = "list"] \/ send' = [send EXCEPT !.pc = "refresh"]
    BY <1>4 DEF PostAnswered, GetContextAfterSend
  <2> QED BY <2>1, <2>2 DEF Sent
<1>5. CASE UserStep
  <2>1. CASE StartNewSession \/ (\E k \in 1..2 : ChooseFiles(k)) \/ \E f \in FileId : RemovePending(f)
    BY <2>1 DEF StartNewSession, ChooseFiles, RemovePending
  <2>2. CASE Submit
    BY <2>2 DEF Submit
  <2>3. CASE Reload
    BY <2>3 DEF Reload
  <2> QED BY <1>5, <2>1, <2>2, <2>3 DEF UserStep
<1>6. CASE EnterStep
  BY <1>6 DEF EnterStep, CheckApiHealth, ResumeSession, ListOnEntering, GetPublicConfig,
              CreateSession, GetContextOnEntering
<1>7. CASE ShowThought \/ UploadStep
  BY <1>7 DEF ShowThought, UploadStep, UploadAttachment
<1>8. CASE TurnStep
  BY <1>8 DEF TurnStep, StoreQuestion, LinkAttachments, FailTurn, AnswerTurn
<1>9. CASE Elsewhere
  BY <1>9 DEF Elsewhere, LoadElsewhere, StartElsewhere, BeginElsewhere, SendElsewhere,
              ResumeElsewhere, CreateElsewhere
<1> QED BY <1>1, <1>2, <1>3, <1>4, <1>5, <1>6, <1>7, <1>8, <1>9 DEF Next, SendStep

\* A message ends on the screen as it was answered, or with an error, or beyond
\* what the API lists of a long session, and never as the page showed it before
\* it was sent: whichever fetch of handleSend fails, and whatever other tabs send.
THEOREM SentIsShown == Spec => SentIsShownOrError
<1>1. IInv /\ [Next]_vars =>
         [ (send.pc # "off" /\ send'.pc = "off" /\ page' # NewPage) =>
            /\ Optimistic(send.n) \notin ToSet(page'.messages)
            /\ \/ page'.error
               \/ {Row(send.n, "user"), Row(send.n, "assistant")} \subseteq ToSet(page'.messages)
               \/ Len(Visible(send.session)) > ListLimit ]_vars
  <2> SUFFICES ASSUME IInv, Next, send.pc # "off", send'.pc = "off", page' # NewPage
               PROVE  /\ Optimistic(send.n) \notin ToSet(page'.messages)
                      /\ \/ page'.error
                         \/ {Row(send.n, "user"), Row(send.n, "assistant")}
                               \subseteq ToSet(page'.messages)
                         \/ Len(Visible(send.session)) > ListLimit
    OBVIOUS
  <2>1. PICK n, s : n = send.n /\ s = send.session
    OBVIOUS
  <2>2. OverIs(n, s)
    BY <2>1, OverIsShown
  <2> QED BY <2>1, <2>2 DEF OverIs, Exchanged
<1> QED BY <1>1, Invariance, PTL DEF Spec, SentIsShownOrError
=============================================================================
