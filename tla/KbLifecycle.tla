---------------------------- MODULE KbLifecycle ----------------------------
(***************************************************************************)
(* A handbook's life (kb_service.py, ingest.py, store.py): its row in      *)
(* Postgres, its source in the object store and its chunks in the vector   *)
(* store, changed by requests of several administrators, in any process of *)
(* the API: every call of a store and every statement is a step.           *)
(*                                                                         *)
(* Documents share nothing, so the model has one; what concerns several,   *)
(* the search for a free slug, is left out.  A transaction is seen by      *)
(* others when it commits; a request that raises or dies before that       *)
(* leaves the row as it was, and the two stores as they are.               *)
(*                                                                         *)
(* An upload commits nothing before the text is ingested, so that          *)
(* chunk_count > 0 says no more than that the document has text.  Titles,  *)
(* tags, the derived Markdown (it shares the fate of the source) and the   *)
(* contents of jobs are left out.                                          *)
(***************************************************************************)
EXTENDS Naturals, FiniteSets

CONSTANTS
    Req,        \* requests that may be under way at the same time
    HasText     \* whether chunking the document gives any chunk

ASSUME HasTextAssumption == HasText \in BOOLEAN

VARIABLES
    row,        \* the status in Postgres, as committed, or None
    object,     \* whether the source is in the object store
    chunks,     \* which status the chunks in the vector store carry
    uploaded,   \* the upload has begun
    req,        \* Req -> a request
    clean       \* for the properties: see Agree

vars == <<row, object, chunks, uploaded, req, clean>>

-----------------------------------------------------------------------------
(***************************************************************************)
(* Data                                                                    *)
(***************************************************************************)
None == "none"
Status == {"draft", "published", "archived"}

\* PATCH to published is a publish; to draft and archived are operations here.
Operation == {"upload", "publish", "reindex", "draft", "archive", "delete"}

\* Of the document's row: that of a job that refers to it (FOR KEY SHARE), of an
\* UPDATE, of a DELETE.
Lock == {"share", "update", "delete"}

Idle ==
    [ op |-> "publish", pc |-> "idle", loaded |-> None, lock |-> None,
      alone |-> FALSE, swallowed |-> FALSE ]

\* loaded is the status read at the beginning; lock, what its transaction holds;
\* alone, that no other request was under way since its beginning; swallowed,
\* that it went on after a failure.
Request ==
    [ op : Operation,
      pc : {"idle", "loaded", "mark", "job", "read", "clear", "upsert", "source",
            "flush", "commit"},
      loaded : Status \cup {None}, lock : Lock \cup {None},
      alone : BOOLEAN, swallowed : BOOLEAN ]

UnderWay == {r \in Req : req[r].pc # "idle"}

\* The status that the request sets, and its chunks get.
Publishing(r) ==
    req[r].op = "publish" \/ (req[r].op = "reindex" /\ req[r].loaded = "published")

Set(r) ==
    CASE req[r].op = "draft" -> "draft"
      [] req[r].op = "archive" -> "archived"
      [] Publishing(r) -> "published"
      [] OTHER -> req[r].loaded

ChunkStatus(r) == IF Publishing(r) THEN "published" ELSE "draft"

-----------------------------------------------------------------------------
(***************************************************************************)
(* The row's locks                                                         *)
(***************************************************************************)

\* What the next statement of the request locks.  An upload's row is seen by
\* nobody else.
Needs(r) ==
    CASE req[r].pc = "job" -> "share"
      [] req[r].pc = "flush" /\ req[r].op = "delete" -> "delete"
      [] req[r].pc = "flush" /\ req[r].op \notin {"delete", "upload"} -> "update"
      [] OTHER -> None

Against(lock) ==
    CASE lock = "share" -> {"delete"}
      [] lock = "update" -> {"update", "delete"}
      [] lock = "delete" -> Lock
      [] OTHER -> {}

\* The requests whose end its next statement waits for.
Blockers(r) == {s \in Req \ {r} : req[s].lock \in Against(Needs(r))}

-----------------------------------------------------------------------------
(***************************************************************************)
(* Steps of a request                                                      *)
(***************************************************************************)
Goto(r, pc) == req' = [req EXCEPT ![r].pc = pc]
End(r) == req' = [req EXCEPT ![r] = Idle]

\* Mutant: the row is locked against deletion from the beginning.
Begin_Locks(r, op) ==
    /\ req[r].pc = "idle"
    /\ IF op = "upload" THEN ~uploaded ELSE row # None
    /\ uploaded' = TRUE
    /\ req' = [s \in Req |->
                 IF s = r
                 THEN [Idle EXCEPT !.op = op, !.loaded = row, !.alone = UnderWay = {},
                                   !.lock = IF op = "upload" THEN None ELSE "share",
                                   !.pc = IF op = "reindex" THEN "job" ELSE "loaded"]
                 ELSE [req[s] EXCEPT !.alone = FALSE]]
    /\ UNCHANGED <<row, object, chunks, clean>>

\* The document is read; without one the request is refused and nothing happens.
\* An upload reads slugs.
Begin(r, op) ==
    /\ req[r].pc = "idle"
    /\ IF op = "upload" THEN ~uploaded ELSE row # None
    /\ uploaded' = TRUE
    /\ req' = [s \in Req |->
                 IF s = r
                 THEN [Idle EXCEPT !.op = op, !.loaded = row, !.alone = UnderWay = {},
                                   !.pc = IF op = "reindex" THEN "job" ELSE "loaded"]
                 ELSE [req[s] EXCEPT !.alone = FALSE]]
    /\ UNCHANGED <<row, object, chunks, clean>>

\* create_from_upload: the source is stored, the row and the job are inserted.
StoreSource(r) ==
    /\ req[r].op = "upload" /\ req[r].pc = "loaded"
    /\ object' = TRUE
    /\ clean' = FALSE
    /\ Goto(r, "read")
    /\ UNCHANGED <<row, chunks, uploaded>>

\* No chunk was marked: a publish falls back to ingesting the document, and
\* unpublishing goes on, after a failure of the vector store too.
Unmarked(r, ok) ==
    req' = [req EXCEPT ![r].pc = IF req[r].op = "publish" THEN "job" ELSE "flush",
                       ![r].swallowed = req[r].op = "draft" /\ ~ok]

\* Mutant: that no chunk was found goes unnoticed.
CountChunks_Unnoticed(r, ok) ==
    /\ req[r].op \in {"publish", "draft"} /\ req[r].pc = "loaded"
    /\ IF HasText /\ ok THEN Goto(r, "mark") ELSE Unmarked(r, ok)
    /\ UNCHANGED <<row, object, chunks, uploaded, clean>>

\* set_document_status counts the chunks, and then marks them.
CountChunks(r, ok) ==
    /\ req[r].op \in {"publish", "draft"} /\ req[r].pc = "loaded"
    /\ IF HasText /\ ok /\ chunks # {} THEN Goto(r, "mark") ELSE Unmarked(r, ok)
    /\ UNCHANGED <<row, object, chunks, uploaded, clean>>

\* done, that the vector store has marked them; ok, that it says so.
MarkChunks(r, done, ok) ==
    /\ req[r].pc = "mark"
    /\ ok => done
    /\ clean' = FALSE
    /\ chunks' = IF done /\ chunks # {} THEN {ChunkStatus(r)} ELSE chunks
    /\ IF ok THEN Goto(r, "flush") ELSE Unmarked(r, FALSE)
    /\ UNCHANGED <<row, object, uploaded>>

\* The job refers to the row, and cannot be inserted when that is deleted.  The
\* job of a publish that has marked its chunks is inserted before the UPDATE or
\* after it.
InsertJob(r) ==
    /\ \/ req[r].pc = "job"
       \/ req[r].pc = "flush" /\ req[r].op = "publish" /\ req[r].lock = None
    /\ \A s \in Req \ {r} : req[s].lock \notin Against("share")
    /\ IF row = None THEN End(r)
       ELSE req' = [req EXCEPT ![r].pc = IF @ = "job" THEN "read" ELSE @,
                               ![r].lock = "share"]
    /\ UNCHANGED <<row, object, chunks, uploaded, clean>>

\* _run_ingest, from here to UpsertChunks: without its source it fails.
ReadSource(r) ==
    /\ req[r].pc = "read"
    /\ IF object THEN Goto(r, "clear") ELSE End(r)
    /\ UNCHANGED <<row, object, chunks, uploaded, clean>>

\* The old chunks are deleted, by an ingest and by a delete.
ClearChunks(r) ==
    /\ req[r].pc = "clear" \/ (req[r].op = "delete" /\ req[r].pc = "loaded")
    /\ clean' = FALSE
    /\ chunks' = {}
    /\ Goto(r, IF req[r].op = "delete" THEN "source"
               ELSE IF HasText THEN "upsert" ELSE "flush")
    /\ UNCHANGED <<row, object, uploaded>>

\* The new ones are stored beside any there are: their ids are new.
UpsertChunks(r) ==
    /\ req[r].pc = "upsert"
    /\ clean' = FALSE
    /\ chunks' = chunks \cup {ChunkStatus(r)}
    /\ Goto(r, "flush")
    /\ UNCHANGED <<row, object, uploaded>>

\* Mutant: an archived document's chunks are marked instead of deleted.
Archive_Marks(r) ==
    /\ req[r].op = "archive" /\ req[r].pc = "loaded"
    /\ clean' = FALSE
    /\ chunks' = {"archived"}
    /\ Goto(r, "flush")
    /\ UNCHANGED <<row, object, uploaded>>

Archive(r) ==
    /\ req[r].op = "archive" /\ req[r].pc = "loaded"
    /\ clean' = FALSE
    /\ chunks' = {}
    /\ Goto(r, "flush")
    /\ UNCHANGED <<row, object, uploaded>>

\* A failure of the object store does not keep a document from being deleted.
DeleteSource(r, done, ok) ==
    /\ req[r].pc = "source"
    /\ ok => done
    /\ clean' = FALSE
    /\ object' = (object /\ ~done)
    /\ req' = [req EXCEPT ![r].pc = "flush", ![r].swallowed = ~ok]
    /\ UNCHANGED <<row, chunks, uploaded>>

\* The UPDATE or DELETE.  An UPDATE that finds no row is an error; a DELETE that
\* finds none is not.
Flush(r) ==
    /\ req[r].pc = "flush"
    /\ Blockers(r) = {}
    /\ IF row = None /\ Needs(r) = "update" THEN End(r)
       ELSE req' = [req EXCEPT ![r].pc = "commit", ![r].lock = Needs(r)]
    /\ UNCHANGED <<row, object, chunks, uploaded, clean>>

\* There is no UPDATE when no attribute has another value than was loaded.
FlushNothing(r) ==
    /\ req[r].pc = "flush"
    /\ req[r].op \in {"draft", "archive", "reindex"}
    /\ Set(r) = req[r].loaded /\ ~Publishing(r)
    /\ Goto(r, "commit")
    /\ UNCHANGED <<row, object, chunks, uploaded, clean>>

\* Mutant: every attribute is written, changed or not.
Written_Always(r) == Set(r)

\* The status after the UPDATE, which has the attributes that are not as loaded.
Written(r) == IF Set(r) = req[r].loaded THEN row ELSE Set(r)

Commit(r) ==
    /\ req[r].pc = "commit"
    /\ row' = CASE req[r].op = "delete" -> None
                [] req[r].op = "upload" -> "draft"
                [] OTHER -> Written(r)
    /\ clean' = (req[r].alone /\ ~req[r].swallowed)
    /\ End(r)
    /\ UNCHANGED <<object, chunks, uploaded>>

\* The request raises, or the process dies: the session ends without a commit.
Die(r) ==
    /\ req[r].pc # "idle"
    /\ End(r)
    /\ UNCHANGED <<row, object, chunks, uploaded, clean>>

Step(r) ==
    \/ StoreSource(r)
    \/ InsertJob(r)
    \/ ReadSource(r)
    \/ ClearChunks(r)
    \/ UpsertChunks(r)
    \/ Archive(r)
    \/ Flush(r)
    \/ FlushNothing(r)
    \/ Commit(r)
    \/ \E ok \in BOOLEAN : \/ CountChunks(r, ok)
                           \/ \E done \in BOOLEAN : \/ MarkChunks(r, done, ok)
                                                    \/ DeleteSource(r, done, ok)

Init ==
    /\ row = None
    /\ object = FALSE
    /\ chunks = {}
    /\ uploaded = FALSE
    /\ req = [r \in Req |-> Idle]
    /\ clean = TRUE

Next == \E r \in Req : \/ \E op \in Operation : Begin(r, op)
                       \/ Step(r)
                       \/ Die(r)

Spec == Init /\ [][Next]_vars

-----------------------------------------------------------------------------
(***************************************************************************)
(* Properties                                                              *)
(***************************************************************************)
TypeOK ==
    /\ row \in Status \cup {None}
    /\ object \in BOOLEAN
    /\ chunks \subseteq {"draft", "published"}
    /\ uploaded \in BOOLEAN
    /\ req \in [Req -> Request]
    /\ clean \in BOOLEAN

\* The vector store serves of the document what the row promises: all of a
\* published one, nothing of any other; and nothing is kept of a deleted one.  A
\* draft may lack chunks and an archived one have them: neither is served.
Agree ==
    CASE row = None -> chunks = {} /\ ~object
      [] row = "published" -> chunks = (IF HasText THEN {"published"} ELSE {})
      [] OTHER -> "published" \notin chunks

\* A request that runs alone and succeeds without having swallowed a failure
\* leaves the stores in agreement, whatever requests that died or crossed each
\* other before it have left: the same button pressed again repairs.
AloneHeals == clean => Agree

\* A reindex never takes back the status that another request has committed
\* while it ran, for the UPDATE leaves out what has not changed since it was
\* loaded.
ReindexKeepsStatus ==
    [][\A r \in Req : req[r].op = "reindex" /\ row' # row =>
          req'[r].pc = req[r].pc]_vars

\* Requests never wait for each other in a circle, so that Postgres need not
\* abort one as deadlocked: of any of them, one waits for none of the others.  A
\* transaction that inserts a job locks the row twice, first weakly and then for
\* its UPDATE, while a delete waits for it (kb_service.py, _run_ingest and
\* delete_document).
NobodyWaitsInCircle ==
    \A S \in (SUBSET UnderWay) \ {{}} : \E r \in S : Blockers(r) \cap S = {}

\* With no request under way, only a published document is retrieved.
OnlyPublishedRetrieved == UnderWay = {} => ("published" \in chunks => row = "published")
=====
