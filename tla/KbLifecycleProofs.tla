------------------------- MODULE KbLifecycleProofs -------------------------
(***************************************************************************)
(* Proofs about KbLifecycle for any number of requests, of documents with  *)
(* and without text.                                                       *)
(*                                                                         *)
(* That the stores agree after a request that ran alone is not inductive:  *)
(* the stores agree only when it commits, long after it has changed them.  *)
(* The invariant says how far a request under way has come (Stage), which  *)
(* locks it holds there, and what it has established in the stores         *)
(* (Found), which, if it is alone, nobody else can disturb.                *)
(***************************************************************************)
EXTENDS KbLifecycle, TLAPS

\* The chunks of a document published as it should be.
InFull == IF HasText THEN {"published"} ELSE {}

\* What a request that may commit has done to the stores.
Prepared(r) ==
    /\ req[r].op = "delete" => chunks = {} /\ ~object
    /\ req[r].op = "archive" => chunks = {}
    /\ req[r].op \in {"draft", "upload"} => "published" \notin chunks
    /\ req[r].op \in {"publish", "reindex"} =>
          IF Publishing(r) THEN chunks = InFull ELSE "published" \notin chunks

Found(r) ==
    /\ req[r].pc \in {"upsert", "source"} => chunks = {}
    /\ req[r].pc = "mark" => chunks # {}
    /\ req[r].pc \in {"flush", "commit"} /\ ~req[r].swallowed => Prepared(r)

\* What holds while a request is under way and no other has been.
Alone(r) ==
    /\ \A s \in Req : s # r => req[s].pc = "idle"
    /\ req[r].op # "upload" => row = req[r].loaded
    /\ Found(r)

\* An UPDATE and a DELETE lock until the commit, which comes next.
Locks(r) ==
    /\ req[r].lock \in {"update", "delete"} => req[r].pc = "commit"
    /\ req[r].lock = "share" =>
          /\ req[r].op \in {"publish", "reindex"}
          /\ req[r].pc \in {"read", "clear", "upsert", "flush", "commit"}

Stage(r) ==
    /\ req[r].op # "upload" => req[r].loaded # None
    /\ req[r].pc = "job" => req[r].op \in {"publish", "reindex"}
    /\ req[r].pc \in {"read", "clear", "upsert"} => req[r].op \in {"upload", "publish", "reindex"}
    /\ req[r].pc = "mark" => req[r].op \in {"publish", "draft"}
    /\ req[r].pc \in {"mark", "upsert"} => HasText
    /\ req[r].pc = "source" => req[r].op = "delete"
    /\ Locks(r)

OnItsWay(r) == Stage(r) /\ (req[r].alone => Alone(r))

IInv ==
    /\ TypeOK
    /\ ~HasText => chunks = {}
    /\ \A r \in Req : req[r].pc # "idle" => OnItsWay(r)
    /\ AloneHeals

-----------------------------------------------------------------------------
(***************************************************************************)
(* Type correctness                                                        *)
(***************************************************************************)
LEMMA IdleIsRequest == Idle \in Request
BY DEF Idle, Request, Operation, None

\* The flags of a request are Booleans.
LEMMA Negation == \A ok \in BOOLEAN : \E no \in BOOLEAN : no = ~ok
BY Zenon

\* What a request needs is a lock.
LEMMA NeedsType == \A r : Needs(r) \in Lock \cup {None}
BY DEF Needs, Lock

\* Where no chunk was marked, only unpublishing swallows the failure.
LEMMA UnmarkedMoves ==
    ASSUME TypeOK, NEW r \in Req, NEW ok \in BOOLEAN, Unmarked(r, ok)
    PROVE  \E flag \in BOOLEAN :
             /\ req' = [req EXCEPT ![r].pc = IF req[r].op = "publish" THEN "job" ELSE "flush",
                                   ![r].swallowed = flag]
             /\ req[r].op = "draft" /\ ~ok => flag
<1>1. PICK flag \in BOOLEAN : flag = (req[r].op = "draft" /\ ~ok)
    BY Zenon
<1> QED
    BY <1>1, Zenon DEF Unmarked

Place == {"idle", "loaded", "mark", "job", "read", "clear", "upsert", "source", "flush", "commit"}

LEMMA MoveTypes ==
    ASSUME TypeOK, NEW r \in Req, NEW pc \in Place, NEW flag \in BOOLEAN
    PROVE  /\ [req EXCEPT ![r].pc = pc] \in [Req -> Request]
           /\ [req EXCEPT ![r].pc = pc, ![r].swallowed = flag] \in [Req -> Request]
<1>1. req[r] \in Request
    BY DEF TypeOK
<1>2. [req[r] EXCEPT !.pc = pc] \in Request
    BY <1>1 DEF Request, Place
<1>3. [req[r] EXCEPT !.pc = pc, !.swallowed = flag] \in Request
    BY <1>1 DEF Request, Place
<1> QED
    BY <1>2, <1>3 DEF TypeOK

LEMMA GotoTypes ==
    ASSUME TypeOK, NEW r \in Req, NEW pc \in Place, Goto(r, pc)
    PROVE  req' \in [Req -> Request]
BY MoveTypes DEF Goto

\* Every step of a request keeps the types.
LEMMA StepTypes ==
    ASSUME TypeOK, NEW r \in Req, Step(r)
    PROVE  TypeOK'
<1> USE DEF TypeOK, End, Status, None
<1>1. CASE StoreSource(r)
    BY <1>1, GotoTypes DEF StoreSource, Place
<1>2. CASE InsertJob(r)
  <2>1. CASE row = None
      BY <1>2, <2>1, IdleIsRequest DEF InsertJob
  <2>2. CASE row # None
    <3>1. req' \in [Req -> Request]
        BY <1>2, <2>2 DEF InsertJob, Request, Lock
    <3> QED
        BY <1>2, <3>1 DEF InsertJob
  <2> QED
      BY <2>1, <2>2
<1>3. CASE Archive(r)
    BY <1>3, GotoTypes DEF Archive, Place
<1>4. CASE Commit(r)
  <2>1. Written(r) \in Status \cup {None}
      BY DEF Written, Set, Request
  <2>2. row' \in Status \cup {None}
      BY <1>4, <2>1 DEF Commit
  <2>3. clean' \in BOOLEAN
      BY <1>4 DEF Commit, Request
  <2> QED
      BY <1>4, <2>2, <2>3, IdleIsRequest DEF Commit
<1>5. CASE ReadSource(r)
    BY <1>5, IdleIsRequest, GotoTypes DEF ReadSource, Place
<1>6. CASE ClearChunks(r)
  <2>1. PICK pc \in Place : pc = IF req[r].op = "delete" THEN "source"
                             ELSE IF HasText THEN "upsert" ELSE "flush"
      BY HasTextAssumption DEF Place
  <2>2. Goto(r, pc)
      BY <1>6, <2>1, Zenon DEF ClearChunks
  <2>3. req' \in [Req -> Request]
      BY <2>2, GotoTypes
  <2> QED
      BY <1>6, <2>3 DEF ClearChunks
<1>7. CASE UpsertChunks(r)
  <2>1. req' \in [Req -> Request]
      BY <1>7, GotoTypes DEF UpsertChunks, Place
  <2> QED
      BY <1>7, <2>1 DEF UpsertChunks, ChunkStatus
<1>8. CASE Flush(r)
  <2>1. req' \in [Req -> Request]
      BY <1>8, IdleIsRequest, NeedsType DEF Flush, Request
  <2> QED
      BY <1>8, <2>1 DEF Flush
<1>9. CASE FlushNothing(r)
    BY <1>9, GotoTypes DEF FlushNothing, Place
<1>10. ASSUME NEW ok \in BOOLEAN, Unmarked(r, ok)
       PROVE  req' \in [Req -> Request]
  <2>1. PICK pc \in Place : pc = IF req[r].op = "publish" THEN "job" ELSE "flush"
      BY DEF Place
  <2>2. PICK flag \in BOOLEAN : req' = [req EXCEPT ![r].pc = pc, ![r].swallowed = flag]
      BY <1>10, <2>1, UnmarkedMoves
  <2> QED
      BY <2>2, MoveTypes
<1>11. ASSUME NEW ok \in BOOLEAN, CountChunks(r, ok)
       PROVE  TypeOK'
  <2>1. CASE Goto(r, "mark")
      BY <1>11, <2>1, GotoTypes DEF CountChunks, Place
  <2>2. CASE Unmarked(r, ok)
      BY <1>10, <1>11, <2>2 DEF CountChunks
  <2> QED
      BY <1>11, <2>1, <2>2 DEF CountChunks
<1>12. ASSUME NEW ok \in BOOLEAN, NEW done \in BOOLEAN, MarkChunks(r, done, ok)
       PROVE  TypeOK'
  <2>1. chunks' \subseteq {"draft", "published"} /\ clean' = FALSE
      BY <1>12 DEF MarkChunks, ChunkStatus
  <2>2. CASE Goto(r, "flush")
      BY <1>12, <2>1, <2>2, GotoTypes DEF MarkChunks, Place
  <2>3. CASE Unmarked(r, FALSE)
      BY <1>10, <1>12, <2>1, <2>3 DEF MarkChunks
  <2> QED
      BY <1>12, <2>2, <2>3 DEF MarkChunks
<1>13. ASSUME NEW ok \in BOOLEAN, NEW done \in BOOLEAN, DeleteSource(r, done, ok)
       PROVE  TypeOK'
  <2>1. PICK no \in BOOLEAN : no = ~ok
      BY Negation
  <2>2. req' = [req EXCEPT ![r].pc = "flush", ![r].swallowed = no]
      BY <1>13, <2>1, Zenon DEF DeleteSource
  <2>3. req' \in [Req -> Request]
      BY <2>2, MoveTypes DEF Place
  <2>4. object' \in BOOLEAN
      BY <1>13 DEF DeleteSource
  <2> QED
      BY <1>13, <2>3, <2>4 DEF DeleteSource
<1> QED
    BY <1>1, <1>2, <1>3, <1>4, <1>5, <1>6, <1>7, <1>8, <1>9, <1>11, <1>12, <1>13 DEF Step

LEMMA BeginTypes ==
    ASSUME TypeOK, NEW r \in Req, NEW op \in Operation, Begin(r, op)
    PROVE  TypeOK'
<1>1. ASSUME NEW s \in Req
      PROVE  req'[s] \in Request
  <2>1. CASE s = r
      BY <2>1 DEF Begin, TypeOK, Idle, Request, Status, None, Operation
  <2>2. CASE s # r
      BY <2>2 DEF Begin, TypeOK, Request
  <2> QED
      BY <2>1, <2>2
<1>2. req' \in [Req -> Request]
    BY <1>1 DEF Begin
<1> QED
    BY <1>2 DEF Begin, TypeOK

LEMMA NextTypes ==
    ASSUME TypeOK, [Next]_vars
    PROVE  TypeOK'
<1>1. ASSUME NEW r \in Req, Die(r)
      PROVE  TypeOK'
    BY <1>1, IdleIsRequest DEF Die, End, TypeOK
<1>2. CASE UNCHANGED vars
    BY <1>2 DEF vars, TypeOK
<1> QED
    BY <1>1, <1>2, StepTypes, BeginTypes DEF Next

LEMMA InitTypes == Init => TypeOK
BY IdleIsRequest DEF Init, TypeOK

\* Every reachable state of a handbook is well formed, whatever requests cross
\* each other, fail half way or die.
THEOREM TypeCorrect == Spec => []TypeOK
<1> QED
    BY InitTypes, NextTypes, PTL DEF Spec

-----------------------------------------------------------------------------
(***************************************************************************)
(* A reindex keeps the status                                              *)
(***************************************************************************)
\* What a reindex writes is what it has loaded, so that its UPDATE leaves the
\* status out.
LEMMA ReindexWritesNothing ==
    ASSUME NEW r \in Req, req[r].op = "reindex"
    PROVE  Written(r) = row
BY DEF Written, Set, Publishing

\* Only a request that commits changes the row, and no other request moves then.
LEMMA OnlyCommitChangesRow ==
    ASSUME [Next]_vars, row' # row
    PROVE  \E r \in Req : Commit(r)
BY DEF Next, Step, vars, Begin, StoreSource, InsertJob, Archive, ReadSource, ClearChunks,
       UpsertChunks, Flush, FlushNothing, CountChunks, MarkChunks, DeleteSource, Die

LEMMA ReindexStep ==
    ASSUME TypeOK, [Next]_vars, NEW r \in Req, req[r].op = "reindex", row' # row
    PROVE  req'[r].pc = req[r].pc
<1>1. PICK s \in Req : Commit(s)
    BY OnlyCommitChangesRow
<1>2. s # r
    BY <1>1, ReindexWritesNothing DEF Commit
<1> QED
    BY <1>1, <1>2 DEF Commit, End, TypeOK

\* A reindex (kb_service.reindex) never takes back the status that another
\* administrator's request has committed while it ran: at a change of the row no
\* reindex moves.
THEOREM ReindexIsHarmless == Spec => ReindexKeepsStatus
<1>1. TypeOK /\ [Next]_vars =>
        [\A r \in Req : req[r].op = "reindex" /\ row' # row => req'[r].pc = req[r].pc]_vars
    BY ReindexStep
<1> QED
    BY <1>1, TypeCorrect, PTL DEF Spec, ReindexKeepsStatus

-----------------------------------------------------------------------------
(***************************************************************************)
(* What a request that runs alone leaves behind                            *)
(***************************************************************************)
\* While a request is under way nobody else is alone, so that its steps disturb
\* nobody's hopes.
LEMMA OthersKeepWay ==
    ASSUME IInv, NEW r \in Req, req[r].pc # "idle",
           \A s \in Req : s # r => req'[s] = req[s],
           NEW s \in Req, s # r, req'[s].pc # "idle"
    PROVE  OnItsWay(s)'
<1>1. OnItsWay(s)
    BY DEF IInv
<1>2. ~req[s].alone
    BY <1>1 DEF OnItsWay, Alone
<1> QED
    BY <1>1, <1>2 DEF OnItsWay, Stage, Locks

\* So it is enough that the request that moves stays on its way.
LEMMA WayFromOne ==
    ASSUME IInv, NEW r \in Req, req[r].pc # "idle",
           \A s \in Req : s # r => req'[s] = req[s],
           req'[r].pc # "idle" => OnItsWay(r)'
    PROVE  \A s \in Req : req'[s].pc # "idle" => OnItsWay(s)'
BY OthersKeepWay

LEMMA BeginKeepsInv ==
    ASSUME IInv, NEW r \in Req, NEW op \in Operation, Begin(r, op)
    PROVE  IInv'
<1>1. TypeOK'
    BY BeginTypes DEF IInv
<1>2. (~HasText => chunks = {})' /\ AloneHeals'
    BY DEF IInv, Begin, AloneHeals, Agree
<1>3. ASSUME NEW s \in Req, s # r, req'[s].pc # "idle"
      PROVE  OnItsWay(s)'
  <2>1. req'[s] = [req[s] EXCEPT !.alone = FALSE]
      BY <1>3 DEF Begin
  <2>2. req[s] \in Request
      BY DEF IInv, TypeOK
  <2>3. OnItsWay(s) /\ ~req'[s].alone
      BY <1>3, <2>1, <2>2 DEF IInv, Request
  <2> QED
      BY <2>1, <2>2, <2>3 DEF OnItsWay, Stage, Locks, Request
<1>4. OnItsWay(r)'
  <2>1. req'[r] = [Idle EXCEPT !.op = op, !.loaded = row, !.alone = UnderWay = {},
                               !.pc = IF op = "reindex" THEN "job" ELSE "loaded"]
      BY DEF Begin
  <2>2. /\ req'[r].op = op
        /\ req'[r].loaded = row
        /\ req'[r].lock = None
        /\ req'[r].alone <=> UnderWay = {}
        /\ req'[r].pc = IF op = "reindex" THEN "job" ELSE "loaded"
      BY <2>1 DEF Idle
  <2>3. op # "upload" => row # None
      BY DEF Begin
  <2>4. Stage(r)'
      BY <2>2, <2>3 DEF Stage, Locks, None
  <2>5. ASSUME req'[r].alone
        PROVE  Alone(r)'
    <3>1. \A s \in Req : s # r => req'[s].pc = "idle"
      <4>1. \A s \in Req : req[s].pc = "idle"
          BY <2>2, <2>5 DEF UnderWay
      <4>2. ASSUME NEW s \in Req, s # r
            PROVE  req'[s].pc = "idle"
          BY <4>1, <4>2 DEF Begin, IInv, TypeOK, Request
      <4> QED
          BY <4>2
    <3>2. Found(r)'
        BY <2>2 DEF Found
    <3>3. row' = req'[r].loaded
        BY <2>2 DEF Begin
    <3> QED
        BY <3>1, <3>2, <3>3 DEF Alone
  <2> QED
      BY <2>4, <2>5 DEF OnItsWay
<1> QED
    BY <1>1, <1>2, <1>3, <1>4 DEF IInv

\* A request that ends without a commit leaves the stores as they are.
LEMMA EndKeepsInv ==
    ASSUME IInv, NEW r \in Req, req[r].pc # "idle", End(r),
           UNCHANGED <<row, object, chunks, uploaded, clean>>
    PROVE  IInv'
<1>1. TypeOK'
    BY IdleIsRequest DEF IInv, TypeOK, End
<1>2. req'[r].pc = "idle" /\ \A s \in Req : s # r => req'[s] = req[s]
    BY DEF End, IInv, TypeOK, Idle
<1>3. (~HasText => chunks = {})' /\ AloneHeals'
    BY DEF IInv, AloneHeals, Agree
<1> QED
    BY <1>1, <1>2, <1>3, WayFromOne DEF IInv

\* A step that goes on: the operation, what was loaded and whether it is alone
\* stay, and nobody commits.
LEMMA GoingOnKeepsInv ==
    ASSUME IInv, NEW r \in Req, Step(r), req[r].pc # "idle",
           \A s \in Req : s # r => req'[s] = req[s],
           req'[r].op = req[r].op, req'[r].loaded = req[r].loaded,
           req'[r].alone = req[r].alone,
           row' = row, clean' => clean /\ UNCHANGED <<object, chunks>>,
           ~HasText => chunks' = {},
           Stage(r)', req[r].alone => Found(r)'
    PROVE  IInv'
<1>1. AloneHeals'
    BY DEF IInv, AloneHeals, Agree
<1>2. OnItsWay(r)
    BY DEF IInv
<1>3. req[r].alone => Alone(r)'
    BY <1>2 DEF OnItsWay, Alone
<1>4. OnItsWay(r)'
    BY <1>3 DEF OnItsWay
<1>5. TypeOK'
    BY StepTypes DEF IInv
<1> QED
    BY <1>1, <1>4, <1>5, WayFromOne DEF IInv

\* What is known of a request that moves.
LEMMA Mover ==
    ASSUME IInv, NEW r \in Req, req[r].pc # "idle"
    PROVE  /\ req[r] \in Request /\ Stage(r)
           /\ req[r].alone => Found(r)
           /\ ~HasText => chunks = {}
           /\ chunks \subseteq {"draft", "published"}
BY DEF IInv, TypeOK, OnItsWay, Alone

LEMMA GotoMoves ==
    ASSUME IInv, NEW r \in Req, req[r].pc # "idle", NEW pc, Goto(r, pc)
    PROVE  /\ \A s \in Req : s # r => req'[s] = req[s]
           /\ req'[r].op = req[r].op /\ req'[r].loaded = req[r].loaded
           /\ req'[r].alone = req[r].alone /\ req'[r].lock = req[r].lock
           /\ req'[r].swallowed = req[r].swallowed
           /\ req'[r].pc = pc
<1>1. req[r] \in Request /\ req' = [req EXCEPT ![r].pc = pc]
    BY DEF IInv, TypeOK, Goto
<1> QED
    BY <1>1 DEF IInv, TypeOK, Request

LEMMA StoreSourceKeepsInv ==
    ASSUME IInv, NEW r \in Req, StoreSource(r)
    PROVE  IInv'
<1>1. /\ req[r].pc = "loaded" /\ req[r].op = "upload" /\ Goto(r, "read")
      /\ row' = row /\ chunks' = chunks /\ clean' = FALSE
    BY DEF StoreSource
<1>2. Stage(r)' /\ Found(r)'
    BY <1>1, GotoMoves, Mover DEF Stage, Locks, Found
<1>3. Step(r)
    BY DEF Step
<1> QED
    BY <1>1, <1>2, <1>3, GotoMoves, Mover, GoingOnKeepsInv

LEMMA ReadSourceKeepsInv ==
    ASSUME IInv, NEW r \in Req, ReadSource(r)
    PROVE  IInv'
<1>1. CASE ~object
    BY <1>1, EndKeepsInv DEF ReadSource
<1>2. CASE object
  <2>1. /\ req[r].pc = "read" /\ Goto(r, "clear")
        /\ UNCHANGED <<row, object, chunks, clean>>
      BY <1>2 DEF ReadSource
  <2>2. Stage(r)' /\ Found(r)'
      BY <2>1, GotoMoves, Mover DEF Stage, Locks, Found
  <2>3. Step(r)
      BY DEF Step
  <2> QED
      BY <2>1, <2>2, <2>3, GotoMoves, Mover, GoingOnKeepsInv
<1> QED
    BY <1>1, <1>2

LEMMA InsertJobKeepsInv ==
    ASSUME IInv, NEW r \in Req, InsertJob(r)
    PROVE  IInv'
<1>1. CASE row = None
    BY <1>1, EndKeepsInv DEF InsertJob
<1>2. CASE row # None
  <2> DEFINE pc == IF req[r].pc = "job" THEN "read" ELSE req[r].pc
  <2>1. /\ req[r].pc = "job" \/ (req[r].pc = "flush" /\ req[r].op = "publish")
        /\ UNCHANGED <<row, object, chunks, clean>>
        /\ req' = [req EXCEPT ![r].pc = pc, ![r].lock = "share"]
      BY <1>2 DEF InsertJob
  <2>2. /\ req[r] \in Request /\ Stage(r) /\ (req[r].alone => Found(r))
        /\ ~HasText => chunks = {}
      BY <2>1, Mover
  <2> HIDE DEF pc
  <2>3. /\ \A s \in Req : s # r => req'[s] = req[s]
        /\ req'[r].op = req[r].op /\ req'[r].loaded = req[r].loaded
        /\ req'[r].alone = req[r].alone /\ req'[r].lock = "share"
        /\ req'[r].swallowed = req[r].swallowed
        /\ req'[r].pc = pc
      BY <2>1, <2>2 DEF IInv, TypeOK, Request
  <2>4. Stage(r)'
      BY <2>1, <2>2, <2>3 DEF Stage, Locks, pc
  <2>5. req[r].alone => Found(r)'
    <3>1. Publishing(r)' <=> Publishing(r)
        BY <2>3 DEF Publishing
    <3>2. Prepared(r) => Prepared(r)'
        BY <2>1, <2>3, <3>1 DEF Prepared
    <3> QED
        BY <2>1, <2>2, <2>3, <3>2 DEF Found, pc
  <2>6. Step(r)
      BY DEF Step
  <2> QED
      BY <2>1, <2>2, <2>3, <2>4, <2>5, <2>6, GoingOnKeepsInv
<1> QED
    BY <1>1, <1>2

LEMMA ClearChunksKeepsInv ==
    ASSUME IInv, NEW r \in Req, ClearChunks(r)
    PROVE  IInv'
<1>1. PICK pc \in {"source", "upsert", "flush"} :
             pc = IF req[r].op = "delete" THEN "source" ELSE IF HasText THEN "upsert" ELSE "flush"
    BY HasTextAssumption
<1>2. /\ req[r].pc = "clear" \/ (req[r].op = "delete" /\ req[r].pc = "loaded")
      /\ row' = row /\ chunks' = {} /\ clean' = FALSE /\ Goto(r, pc)
    BY <1>1, Zenon DEF ClearChunks
<1>3. /\ pc = "source" => req[r].op = "delete"
      /\ pc = "upsert" => HasText /\ req[r].op # "delete"
      /\ pc = "flush" => ~HasText /\ req[r].op # "delete"
      /\ pc \in {"source", "upsert", "flush"}
    BY <1>1
<1>4. /\ Stage(r)
      /\ req'[r].op = req[r].op /\ req'[r].loaded = req[r].loaded
      /\ req'[r].lock = req[r].lock /\ req'[r].pc = pc
      /\ req[r] \in Request
    BY <1>2, GotoMoves, Mover
<1>5. Stage(r)'
    BY <1>2, <1>3, <1>4 DEF Stage, Locks
<1>6. Found(r)'
    BY <1>2, <1>3, <1>4 DEF Found, Prepared, InFull
<1>7. Step(r)
    BY DEF Step
<1> QED
    BY <1>2, <1>5, <1>6, <1>7, GotoMoves, Mover, GoingOnKeepsInv

LEMMA UpsertChunksKeepsInv ==
    ASSUME IInv, NEW r \in Req, UpsertChunks(r)
    PROVE  IInv'
<1>1. /\ req[r].pc = "upsert" /\ row' = row /\ clean' = FALSE /\ Goto(r, "flush")
      /\ chunks' = chunks \cup {ChunkStatus(r)}
    BY DEF UpsertChunks
<1>2. /\ Stage(r) /\ (req[r].alone => Found(r))
      /\ req'[r].op = req[r].op /\ req'[r].loaded = req[r].loaded
      /\ req'[r].lock = req[r].lock /\ req'[r].pc = "flush"
      /\ req[r] \in Request
    BY <1>1, GotoMoves, Mover
<1>3. HasText /\ req[r].op \in {"upload", "publish", "reindex"}
    BY <1>1, <1>2 DEF Stage
<1>4. Stage(r)'
    BY <1>1, <1>2, <1>3 DEF Stage, Locks
<1>5. req[r].alone => Found(r)'
  <2> SUFFICES ASSUME req[r].alone PROVE Prepared(r)'
      BY <1>2 DEF Found
  <2>1. chunks' = {ChunkStatus(r)}
      BY <1>1, <1>2 DEF Found
  <2>2. Publishing(r)' <=> Publishing(r)
      BY <1>2 DEF Publishing
  <2>3. req[r].op = "upload" => ~Publishing(r)
      BY DEF Publishing
  <2> QED
      BY <1>2, <1>3, <2>1, <2>2, <2>3 DEF Prepared, ChunkStatus, InFull
<1>6. Step(r)
    BY DEF Step
<1> QED
    BY <1>1, <1>3, <1>4, <1>5, <1>6, GotoMoves, Mover, GoingOnKeepsInv

LEMMA ArchiveKeepsInv ==
    ASSUME IInv, NEW r \in Req, Archive(r)
    PROVE  IInv'
<1>1. /\ req[r].op = "archive" /\ req[r].pc = "loaded"
      /\ row' = row /\ clean' = FALSE /\ Goto(r, "flush") /\ chunks' = {}
    BY DEF Archive
<1>2. /\ Stage(r)
      /\ req'[r].op = req[r].op /\ req'[r].loaded = req[r].loaded
      /\ req'[r].lock = req[r].lock /\ req'[r].pc = "flush"
    BY <1>1, GotoMoves, Mover
<1>3. Stage(r)'
    BY <1>1, <1>2 DEF Stage, Locks
<1>4. Found(r)'
    BY <1>1, <1>2 DEF Found, Prepared
<1>5. Step(r)
    BY DEF Step
<1> QED
    BY <1>1, <1>3, <1>4, <1>5, GotoMoves, Mover, GoingOnKeepsInv

LEMMA FlushKeepsInv ==
    ASSUME IInv, NEW r \in Req, Flush(r)
    PROVE  IInv'
<1>1. CASE row = None /\ Needs(r) = "update"
    BY <1>1, EndKeepsInv DEF Flush
<1>2. CASE ~(row = None /\ Needs(r) = "update")
  <2>1. PICK lock \in Lock \cup {None} : lock = Needs(r)
      BY NeedsType
  <2>2. /\ req[r].pc = "flush" /\ UNCHANGED <<row, object, chunks, clean>>
        /\ req' = [req EXCEPT ![r].pc = "commit", ![r].lock = lock]
      BY <1>2, <2>1 DEF Flush
  <2>3. /\ req[r] \in Request /\ Stage(r) /\ (req[r].alone => Found(r))
        /\ ~HasText => chunks = {}
      BY <2>2, Mover
  <2>4. /\ \A s \in Req : s # r => req'[s] = req[s]
        /\ req'[r].op = req[r].op /\ req'[r].loaded = req[r].loaded
        /\ req'[r].alone = req[r].alone /\ req'[r].lock = lock
        /\ req'[r].swallowed = req[r].swallowed
        /\ req'[r].pc = "commit"
      BY <2>2, <2>3 DEF IInv, TypeOK, Request
  <2>5. lock # "share"
      BY <2>1, <2>2 DEF Needs, None
  <2>6. Stage(r)'
      BY <2>2, <2>3, <2>4, <2>5 DEF Stage, Locks
  <2>7. req[r].alone => Found(r)'
    <3>1. Publishing(r)' <=> Publishing(r)
        BY <2>4 DEF Publishing
    <3>2. Prepared(r) => Prepared(r)'
        BY <2>2, <2>4, <3>1 DEF Prepared
    <3> QED
        BY <2>2, <2>3, <2>4, <3>2 DEF Found
  <2>8. Step(r)
      BY DEF Step
  <2> QED
      BY <2>2, <2>3, <2>4, <2>6, <2>7, <2>8, GoingOnKeepsInv
<1> QED
    BY <1>1, <1>2

LEMMA FlushNothingKeepsInv ==
    ASSUME IInv, NEW r \in Req, FlushNothing(r)
    PROVE  IInv'
<1>1. /\ req[r].pc = "flush" /\ UNCHANGED <<row, object, chunks, clean>>
      /\ Goto(r, "commit")
    BY DEF FlushNothing
<1>2. /\ Stage(r) /\ (req[r].alone => Found(r))
      /\ req'[r].op = req[r].op /\ req'[r].loaded = req[r].loaded
      /\ req'[r].lock = req[r].lock /\ req'[r].pc = "commit"
      /\ req'[r].swallowed = req[r].swallowed
    BY <1>1, GotoMoves, Mover
<1>3. Stage(r)'
    BY <1>1, <1>2 DEF Stage, Locks
<1>4. req[r].alone => Found(r)'
  <2>1. Publishing(r)' <=> Publishing(r)
      BY <1>2 DEF Publishing
  <2>2. Prepared(r) => Prepared(r)'
      BY <1>1, <1>2, <2>1 DEF Prepared
  <2> QED
      BY <1>1, <1>2, <2>2 DEF Found
<1>5. Step(r)
    BY DEF Step
<1> QED
    BY <1>1, <1>3, <1>4, <1>5, GotoMoves, Mover, GoingOnKeepsInv

\* Where no chunk was marked, the request goes on, to ingest or to its UPDATE.
LEMMA UnmarkedKeepsInv ==
    ASSUME IInv, NEW r \in Req, Step(r), req[r].op \in {"publish", "draft"},
           req[r].pc \in {"loaded", "mark"}, NEW ok \in BOOLEAN, Unmarked(r, ok),
           row' = row, clean' => clean /\ UNCHANGED <<object, chunks>>,
           ~HasText => chunks' = {}, ok => "published" \notin chunks'
    PROVE  IInv'
<1>1. /\ req[r] \in Request /\ Stage(r)
    BY Mover
<1>2. TypeOK
    BY DEF IInv
<1>3. PICK flag \in BOOLEAN :
             /\ req' = [req EXCEPT ![r].pc = IF req[r].op = "publish" THEN "job" ELSE "flush",
                                   ![r].swallowed = flag]
             /\ req[r].op = "draft" /\ ~ok => flag
    BY <1>2, UnmarkedMoves
<1>4. /\ \A s \in Req : s # r => req'[s] = req[s]
      /\ req'[r].op = req[r].op /\ req'[r].loaded = req[r].loaded
      /\ req'[r].alone = req[r].alone /\ req'[r].lock = req[r].lock
      /\ req'[r].swallowed = flag
      /\ req'[r].pc = IF req[r].op = "publish" THEN "job" ELSE "flush"
    BY <1>1, <1>2, <1>3 DEF TypeOK, Request
<1>5. Stage(r)'
    BY <1>1, <1>4 DEF Stage, Locks
<1>6. Found(r)'
    BY <1>3, <1>4 DEF Found, Prepared
<1> QED
    BY <1>4, <1>5, <1>6, GoingOnKeepsInv

LEMMA CountChunksKeepsInv ==
    ASSUME IInv, NEW r \in Req, NEW ok \in BOOLEAN, CountChunks(r, ok)
    PROVE  IInv'
<1>1. /\ req[r].op \in {"publish", "draft"} /\ req[r].pc = "loaded"
      /\ UNCHANGED <<row, object, chunks, clean>> /\ Step(r)
    BY DEF CountChunks, Step
<1>2. CASE HasText /\ ok /\ chunks # {}
  <2>1. Goto(r, "mark")
      BY <1>2 DEF CountChunks
  <2>2. Stage(r)' /\ Found(r)'
      BY <1>1, <1>2, <2>1, GotoMoves, Mover DEF Stage, Locks, Found
  <2> QED
      BY <1>1, <2>1, <2>2, GotoMoves, Mover, GoingOnKeepsInv
<1>3. CASE ~(HasText /\ ok /\ chunks # {})
  <2>1. Unmarked(r, ok)
      BY <1>3 DEF CountChunks
  <2>2. ~HasText => chunks = {}
      BY <1>1, Mover
  <2>3. ok => chunks' = {}
      BY <1>1, <1>3, <2>2
  <2> QED
      BY <1>1, <2>1, <2>2, <2>3, UnmarkedKeepsInv
<1> QED
    BY <1>2, <1>3

LEMMA MarkChunksKeepsInv ==
    ASSUME IInv, NEW r \in Req, NEW done \in BOOLEAN, NEW ok \in BOOLEAN, MarkChunks(r, done, ok)
    PROVE  IInv'
<1>1. /\ req[r].pc = "mark" /\ row' = row /\ clean' = FALSE
      /\ chunks' = IF done /\ chunks # {} THEN {ChunkStatus(r)} ELSE chunks
      /\ Step(r)
    BY DEF MarkChunks, Step
<1>2. /\ Stage(r) /\ (req[r].alone => Found(r))
      /\ req[r].op \in {"publish", "draft"} /\ HasText
    BY <1>1, Mover DEF Stage
<1>3. CASE ok
  <2>1. done /\ Goto(r, "flush")
      BY <1>3 DEF MarkChunks
  <2>2. /\ req'[r].op = req[r].op /\ req'[r].loaded = req[r].loaded
        /\ req'[r].lock = req[r].lock /\ req'[r].pc = "flush"
      BY <1>1, <2>1, GotoMoves
  <2>3. Stage(r)'
      BY <1>1, <1>2, <2>2 DEF Stage, Locks
  <2>4. req[r].alone => Found(r)'
    <3> SUFFICES ASSUME req[r].alone PROVE Prepared(r)'
        BY <2>2 DEF Found
    <3>1. chunks' = {ChunkStatus(r)}
        BY <1>1, <1>2, <2>1 DEF Found
    <3>2. Publishing(r)' <=> Publishing(r)
        BY <2>2 DEF Publishing
    <3>3. Publishing(r) <=> req[r].op = "publish"
        BY <1>2 DEF Publishing
    <3> QED
        BY <1>2, <2>2, <3>1, <3>2, <3>3 DEF Prepared, ChunkStatus, InFull
  <2> QED
      BY <1>1, <1>2, <2>1, <2>3, <2>4, GotoMoves, GoingOnKeepsInv
<1>4. CASE ~ok
  <2>1. Unmarked(r, FALSE)
      BY <1>4 DEF MarkChunks
  <2> QED
      BY <1>1, <1>2, <2>1, UnmarkedKeepsInv
<1> QED
    BY <1>3, <1>4

LEMMA DeleteSourceKeepsInv ==
    ASSUME IInv, NEW r \in Req, NEW done \in BOOLEAN, NEW ok \in BOOLEAN, DeleteSource(r, done, ok)
    PROVE  IInv'
<1>1. /\ req[r].pc = "source" /\ row' = row /\ clean' = FALSE /\ chunks' = chunks
      /\ object' = (object /\ ~done) /\ (ok => done) /\ Step(r)
    BY DEF DeleteSource, Step
<1>2. PICK no \in BOOLEAN : no = ~ok
    BY Negation
<1>3. req' = [req EXCEPT ![r].pc = "flush", ![r].swallowed = no]
    BY <1>2, Zenon DEF DeleteSource
<1>4. /\ req[r] \in Request /\ Stage(r) /\ (req[r].alone => Found(r))
      /\ ~HasText => chunks = {}
    BY <1>1, Mover
<1>5. /\ \A s \in Req : s # r => req'[s] = req[s]
      /\ req'[r].op = req[r].op /\ req'[r].loaded = req[r].loaded
      /\ req'[r].alone = req[r].alone /\ req'[r].lock = req[r].lock
      /\ req'[r].swallowed = no
      /\ req'[r].pc = "flush"
    BY <1>3, <1>4 DEF IInv, TypeOK, Request
<1>6. Stage(r)'
    BY <1>1, <1>4, <1>5 DEF Stage, Locks
<1>7. ~no => ~object'
    BY <1>1, <1>2
<1>8. req[r].alone => Found(r)'
    BY <1>1, <1>4, <1>5, <1>7 DEF Found, Prepared, Stage
<1> QED
    BY <1>1, <1>4, <1>5, <1>6, <1>8, GoingOnKeepsInv

\* A request that was alone and swallowed nothing has prepared the stores for the
\* row it now writes.
LEMMA CommitHeals ==
    ASSUME IInv, NEW r \in Req, Commit(r)
    PROVE  AloneHeals'
<1> SUFFICES ASSUME req[r].alone, ~req[r].swallowed
             PROVE  Agree'
    BY DEF AloneHeals, Commit
<1>1. req[r] \in Request /\ OnItsWay(r)
    BY DEF IInv, TypeOK, Commit
<1>2. Prepared(r)
    BY <1>1 DEF OnItsWay, Alone, Found, Commit
<1>3. req[r].op # "upload" => row = req[r].loaded /\ row # None
    BY <1>1 DEF OnItsWay, Stage, Alone
<1>4. CASE req[r].op = "delete"
  <2>1. chunks = {} /\ ~object
      BY <1>2, <1>4 DEF Prepared
  <2>2. row' = None /\ chunks' = chunks /\ object' = object
      BY <1>4 DEF Commit
  <2>3. ~object'
      BY <2>1, <2>2
  <2> QED
      BY <2>1, <2>2, <2>3 DEF Agree, None
<1>5. CASE req[r].op = "upload"
    BY <1>2, <1>5 DEF Commit, Prepared, Agree, None
<1>6. CASE req[r].op \notin {"delete", "upload"}
  <2>1. row' = Written(r) /\ chunks' = chunks
      BY <1>3, <1>6 DEF Commit
  <2>2. CASE req[r].op = "draft"
    <3>1. row' = "draft"
        BY <1>3, <2>1, <2>2 DEF Written, Set, Publishing
    <3> QED
        BY <1>2, <2>1, <2>2, <3>1 DEF Prepared, Agree, None
  <2>3. CASE req[r].op = "archive"
    <3>1. row' = "archived"
        BY <1>3, <2>1, <2>3 DEF Written, Set, Publishing
    <3> QED
        BY <1>2, <2>1, <2>3, <3>1 DEF Prepared, Agree, None
  <2>4. CASE req[r].op \in {"publish", "reindex"} /\ Publishing(r)
    <3>1. row' = "published"
        BY <1>3, <2>1, <2>4 DEF Written, Set
    <3> QED
        BY <1>2, <2>1, <2>4, <3>1 DEF Prepared, Agree, None, InFull
  <2>5. CASE req[r].op \in {"publish", "reindex"} /\ ~Publishing(r)
    <3>1. row' = row /\ row # "published" /\ row # None
        BY <1>3, <2>1, <2>5 DEF Written, Set, Publishing
    <3> QED
        BY <1>2, <2>1, <2>5, <3>1 DEF Prepared, Agree
  <2> QED
      BY <1>1, <1>6, <2>2, <2>3, <2>4, <2>5 DEF Request, Operation
<1> QED
    BY <1>4, <1>5, <1>6

LEMMA CommitKeepsInv ==
    ASSUME IInv, NEW r \in Req, Commit(r)
    PROVE  IInv'
<1>1. TypeOK'
    BY StepTypes DEF IInv, Step
<1>2. req'[r].pc = "idle" /\ \A s \in Req : s # r => req'[s] = req[s]
    BY DEF Commit, End, IInv, TypeOK, Idle
<1>3. \A s \in Req : req'[s].pc # "idle" => OnItsWay(s)'
    BY <1>2, WayFromOne DEF Commit
<1>4. (~HasText => chunks = {})'
    BY DEF Commit, IInv
<1> QED
    BY <1>1, <1>3, <1>4, CommitHeals DEF IInv

LEMMA NextKeepsInv ==
    ASSUME IInv, [Next]_vars
    PROVE  IInv'
<1>1. ASSUME NEW r \in Req, Die(r)
      PROVE  IInv'
    BY <1>1, EndKeepsInv DEF Die
<1>2. ASSUME NEW r \in Req, Step(r)
      PROVE  IInv'
    BY <1>2, StoreSourceKeepsInv, InsertJobKeepsInv, ReadSourceKeepsInv, ClearChunksKeepsInv,
       UpsertChunksKeepsInv, ArchiveKeepsInv, FlushKeepsInv, FlushNothingKeepsInv,
       CommitKeepsInv, CountChunksKeepsInv, MarkChunksKeepsInv, DeleteSourceKeepsInv DEF Step
<1>3. CASE UNCHANGED vars
    BY <1>3 DEF vars, IInv, TypeOK, OnItsWay, Stage, Locks, Alone, Found, Prepared, Publishing,
                AloneHeals, Agree
<1> QED
    BY <1>1, <1>2, <1>3, BeginKeepsInv DEF Next

LEMMA InitInv == Init => IInv
<1> SUFFICES ASSUME Init PROVE IInv
    OBVIOUS
<1>1. row = None /\ chunks = {} /\ object = FALSE
    BY DEF Init
<1>2. AloneHeals
    BY <1>1 DEF AloneHeals, Agree, None
<1>3. \A r \in Req : req[r].pc = "idle"
    BY DEF Init, Idle
<1> QED
    BY <1>1, <1>2, <1>3, InitTypes DEF IInv

\* The invariant holds throughout.
THEOREM Invariance == Spec => []IInv
BY InitInv, NextKeepsInv, PTL DEF Spec

\* A request on a handbook that runs alone, and succeeds without having
\* swallowed a failure (kb_service.py logs those of unpublish and delete and goes
\* on), leaves the vector store and the object store in agreement with the row,
\* whatever the requests before it have left.
THEOREM AloneRepairs == Spec => []AloneHeals
<1>1. IInv => AloneHeals
    BY DEF IInv
<1> QED
    BY <1>1, Invariance, PTL

-----------------------------------------------------------------------------
(***************************************************************************)
(* Nobody waits in a circle                                                *)
(***************************************************************************)

\* Among the requests, one that is about to commit waits for nobody; one that
\* has inserted its job waits only for such; and if there is neither, nobody
\* holds a lock.
LEMMA OneIsFree ==
    ASSUME IInv, NEW S \in SUBSET UnderWay, S # {}
    PROVE  \E r \in S : Blockers(r) \cap S = {}
<1>1. \A r \in S : r \in Req /\ Locks(r) /\ req[r] \in Request
    BY DEF UnderWay, IInv, TypeOK, OnItsWay, Stage
<1>2. CASE \E r \in S : req[r].pc = "commit"
    BY <1>2 DEF Blockers, Needs, Against, None
<1>3. ASSUME \A r \in S : req[r].pc # "commit", NEW r \in S, req[r].lock = "share"
      PROVE  Blockers(r) \cap S = {}
  <2>1. Needs(r) \in {"update", None}
      BY <1>1, <1>3 DEF Locks, Needs
  <2>2. Against(Needs(r)) \subseteq {"update", "delete"}
      BY <2>1 DEF Against, None
  <2> QED
      BY <1>1, <1>3, <2>2 DEF Blockers, Locks
<1>4. ASSUME \A r \in S : req[r].pc # "commit" /\ req[r].lock # "share", NEW r \in S
      PROVE  Blockers(r) \cap S = {}
  <2>1. \A s \in S : req[s].lock = None
      BY <1>1, <1>4 DEF Locks, Request, Lock
  <2>2. None \notin Against(Needs(r))
      BY DEF Against, Lock, None
  <2> QED
      BY <2>1, <2>2 DEF Blockers
<1> QED
    BY <1>2, <1>3, <1>4

\* Whatever requests meet on the row of a handbook, Postgres finds no deadlock
\* among them (_run_ingest, _update_status and delete_document lock it): of any
\* of them, one waits for none of the others.
THEOREM NoCircle == Spec => []NobodyWaitsInCircle
<1>1. IInv => NobodyWaitsInCircle
    BY OneIsFree DEF NobodyWaitsInCircle
<1> QED
    BY <1>1, Invariance, PTL
=============================================================================
