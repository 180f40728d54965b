--------------------------- MODULE Configuration ---------------------------
(***************************************************************************)
(* The configuration tab of the admin console (ConfigurationTab.tsx): the  *)
(* list of handbooks, the operations on them, and the drawer with the text *)
(* of one.                                                                 *)
(*                                                                         *)
(* An operation is a function that awaits the API once, twice (its answer, *)
(* then the list) or three times (an upload opens the new document).  They *)
(* share the flags loading and busy, and the buttons of a row are disabled *)
(* by neither, so that several may be under way.  The API's side is a      *)
(* handbook and its status; what it does inside is KbLifecycle's.  Titles, *)
(* tags, search hits, the text itself and error banners are left out.      *)
(***************************************************************************)
EXTENDS AdminShell

CONSTANTS
    Doc,        \* documents
    NoDoc,      \* none of them
    Op          \* operations that may be under way at the same time

ASSUME DocAssumption == NoDoc \notin Doc

VARIABLES
    handbook,   \* what the API has: Doc -> status
    config,     \* the state of the tab
    op          \* Op -> an operation under way

configVars == <<handbook, config, op>>

-----------------------------------------------------------------------------
(***************************************************************************)
(* Data                                                                    *)
(***************************************************************************)
Listed == {"draft", "published"}
DocStatus == Listed \cup {"unknown", "gone"}

Kind == {"load", "upload", "publish", "reindex", "remove", "search", "preview"}

\* Those that name what they do in the header.
Busy == Kind \ {"load", "preview"}

NotAsked == <<>>

\* For the properties: disturbed, that the API's handbook may have changed since
\* the list was asked for; crossed, that the drawer was opened while another
\* text was on its way or a document was being removed, or that a document
\* changed since unseen.
NewConfig ==
    [ docs |-> NotAsked, loading |-> FALSE, busy |-> "", file |-> FALSE,
      preview |-> NoDoc, markdown |-> NoDoc,
      disturbed |-> FALSE, crossed |-> FALSE ]

NoOp == [kind |-> "load", doc |-> NoDoc, pc |-> "off", seen |-> NoDoc, got |-> NotAsked]

UnderWay == {o \in Op : op[o].pc # "off"}

\* Operations that hold the flag loading.
Holding == {o \in UnderWay : op[o].kind # "preview"}

Reads == {o \in UnderWay : op[o].pc = "markdown"}
ListsOnTheWay == {o \in UnderWay : op[o].pc = "listed"}

-----------------------------------------------------------------------------
(***************************************************************************)
(* Starting                                                                *)
(***************************************************************************)
Begin(o, kind, d) ==
    /\ op[o].pc = "off"
    /\ op' = [op EXCEPT ![o] = [NoOp EXCEPT !.kind = kind, !.doc = d,
                                            !.seen = IF kind = "remove" THEN config.preview ELSE @,
                                            !.pc = IF kind = "load" THEN "list" ELSE "asked"]]
    /\ config' = [config EXCEPT !.loading = TRUE,
                                !.busy = IF kind \in Busy THEN kind ELSE @,
                                !.disturbed = @ /\ ~(kind = "load" /\ UnderWay = {})]
    /\ UNCHANGED handbook

RefreshList(o) == ~config.loading /\ Begin(o, "load", NoDoc)

\* A file of an accepted type is dropped or chosen.
AcceptFile ==
    /\ config' = [config EXCEPT !.file = TRUE]
    /\ UNCHANGED <<handbook, op>>

RemoveFile ==
    /\ config.file
    /\ config' = [config EXCEPT !.file = FALSE]
    /\ UNCHANGED <<handbook, op>>

\* d is the document that the API will make of the file.
Upload(o, d) ==
    /\ ~config.loading
    /\ config.file
    /\ handbook[d] = "unknown"
    /\ \A p \in UnderWay : op[p].doc # d
    /\ Begin(o, "upload", d)

Search(o) == ~config.loading /\ Begin(o, "search", NoDoc)

Row(d) == config.docs # NotAsked /\ config.docs[d] \in Listed

Publish(o, d) ==
    /\ app.me = "admin"
    /\ Row(d)
    /\ config.docs[d] # "published"
    /\ Begin(o, "publish", d)

Reindex(o, d) == Row(d) /\ Begin(o, "reindex", d)

\* The question whether to delete blocks the page, and is answered with yes.
Remove(o, d) ==
    /\ app.me = "admin"
    /\ Row(d)
    /\ Begin(o, "remove", d)

\* The beginning of openMarkdown, up to its await.
OpenDrawer(c, d) ==
    [c EXCEPT !.preview = d, !.markdown = NoDoc,
              !.crossed = Reads # {} \/ \E o \in UnderWay : op[o].kind = "remove"]

Preview(o, d) ==
    /\ Row(d)
    /\ op[o].pc = "off"
    /\ op' = [op EXCEPT ![o] = [NoOp EXCEPT !.kind = "preview", !.doc = d, !.pc = "markdown"]]
    /\ config' = OpenDrawer(config, d)
    /\ UNCHANGED handbook

ClosePreview ==
    /\ config.preview # NoDoc
    /\ config' = [config EXCEPT !.preview = NoDoc, !.markdown = NoDoc, !.crossed = FALSE]
    /\ UNCHANGED <<handbook, op>>

-----------------------------------------------------------------------------
(***************************************************************************)
(* Answers                                                                 *)
(***************************************************************************)

\* Mutant: the header goes on to say what is being done.
Ended_StillBusy(o, c) == [c EXCEPT !.loading = FALSE]

\* The flags after the finally of an operation, and of the list within one.
Ended(o, c) ==
    [c EXCEPT !.loading = FALSE, !.busy = IF op[o].kind \in Busy THEN "" ELSE @]

End(o) == op' = [op EXCEPT ![o] = NoOp]

\* The handbook after the API has done what operation x asks; a document that
\* is gone is refused.
Effect(x) ==
    CASE x.kind = "upload" -> [handbook EXCEPT ![x.doc] = "draft"]
      [] x.kind = "publish" -> [handbook EXCEPT ![x.doc] = "published"]
      [] x.kind = "remove" -> [handbook EXCEPT ![x.doc] = "gone"]
      [] OTHER -> handbook

Allowed(x) == x.doc \in {d \in Doc : handbook[d] \in Listed \/ x.kind = "upload"} \cup {NoDoc}

\* The API has done it and the answer arrives (ok), or is lost; or it refuses.
Answer(o, done, ok) ==
    /\ op[o].pc = "asked"
    /\ done => AuthHeaders /\ Allowed(op[o])
    /\ ok => done
    /\ LET changes == done /\ Effect(op[o]) # handbook
           cleared == op[o].kind = "remove" /\ op[o].seen = op[o].doc
           c == [config EXCEPT
                    !.disturbed = @ \/ (changes /\ (~ok \/ ListsOnTheWay # {})),
                    !.crossed = @ \/ (changes /\ ~ok /\ config.preview # NoDoc),
                    !.file = @ /\ ~(ok /\ op[o].kind = "upload")]
       IN  /\ handbook' = IF done THEN Effect(op[o]) ELSE handbook
           /\ IF ok /\ op[o].kind # "search"
              THEN /\ op' = [op EXCEPT ![o].pc = "list"]
                   /\ config' = [c EXCEPT !.loading = TRUE,
                                          !.preview = IF cleared THEN NoDoc ELSE @,
                                          !.markdown = IF cleared THEN NoDoc ELSE @,
                                          !.crossed = @ /\ ~cleared]
              ELSE /\ End(o)
                   /\ config' = Ended(o, c)

\* The list is read at the API.
ServeList(o) ==
    /\ op[o].pc = "list"
    /\ op' = [op EXCEPT ![o].pc = "listed", ![o].got = handbook]
    /\ UNCHANGED <<handbook, config>>

\* After the list an upload opens its document; the other operations end.
Listing(o, c) ==
    IF op[o].kind = "upload"
    THEN /\ op' = [op EXCEPT ![o].pc = "markdown", ![o].got = NotAsked]
         /\ config' = OpenDrawer([c EXCEPT !.loading = FALSE], op[o].doc)
    ELSE /\ End(o)
         /\ config' = Ended(o, c)

\* Mutant: the list is shown only if there is none yet.
ShowList_Once(o, ok) ==
    /\ op[o].pc = "listed"
    /\ ok => AuthHeaders
    /\ Listing(o, IF ok
                  THEN [config EXCEPT !.docs = IF @ = NotAsked THEN op[o].got ELSE @]
                  ELSE [config EXCEPT !.disturbed = TRUE])
    /\ UNCHANGED handbook

ShowList(o, ok) ==
    /\ op[o].pc = "listed"
    /\ ok => AuthHeaders
    /\ Listing(o, IF ok THEN [config EXCEPT !.docs = op[o].got]
                        ELSE [config EXCEPT !.disturbed = TRUE])
    /\ UNCHANGED handbook

ShowMarkdown(o, ok) ==
    /\ op[o].pc = "markdown"
    /\ ok => AuthHeaders /\ handbook[op[o].doc] \in Listed
    /\ LET c == IF ok THEN [config EXCEPT !.markdown = op[o].doc]
                      ELSE [config EXCEPT !.preview = NoDoc, !.crossed = FALSE]
       IN  config' = IF op[o].kind = "upload" THEN Ended(o, c) ELSE c
    /\ End(o)
    /\ UNCHANGED handbook

-----------------------------------------------------------------------------
(***************************************************************************)
(* The tab as a whole                                                      *)
(***************************************************************************)

\* Another administrator, or an operation whose tab is no longer mounted,
\* deletes a document.
Elsewhere(d) ==
    /\ handbook[d] \in Listed
    /\ handbook' = [handbook EXCEPT ![d] = "gone"]
    /\ config' = [config EXCEPT !.disturbed = TRUE, !.crossed = config.preview # NoDoc]
    /\ UNCHANGED op

ConfigurationUnmounted ==
    /\ handbook = [d \in Doc |-> "unknown"]
    /\ config = NewConfig
    /\ op = [o \in Op |-> NoOp]

\* The state of the component, and the load of its first effect.
MountConfiguration(o) ==
    /\ handbook' \in [Doc -> DocStatus \ {"gone"}]
    /\ config' = [NewConfig EXCEPT !.loading = TRUE]
    /\ op' = [p \in Op |-> IF p = o THEN [NoOp EXCEPT !.pc = "list"] ELSE NoOp]

UnmountConfiguration ==
    /\ handbook' = [d \in Doc |-> "unknown"]
    /\ config' = NewConfig
    /\ op' = [o \in Op |-> NoOp]

OpStep(o) ==
    \/ ServeList(o)
    \/ \E ok \in BOOLEAN : \/ \E done \in BOOLEAN : Answer(o, done, ok)
                         \/ ShowList(o, ok)
                         \/ ShowMarkdown(o, ok)

ConfigurationNext ==
    \/ \E o \in Op : \/ OpStep(o)
                     \/ RefreshList(o)
                     \/ Search(o)
                     \/ \E d \in Doc : \/ Upload(o, d)
                                       \/ Publish(o, d)
                                       \/ Reindex(o, d)
                                       \/ Remove(o, d)
                                       \/ Preview(o, d)
    \/ AcceptFile
    \/ RemoveFile
    \/ ClosePreview
    \/ \E d \in Doc : Elsewhere(d)

-----------------------------------------------------------------------------
(***************************************************************************)
(* Properties                                                              *)
(***************************************************************************)
ConfigurationType ==
    /\ handbook \in [Doc -> DocStatus]
    /\ config \in [ docs : [Doc -> DocStatus] \cup {NotAsked}, loading : BOOLEAN,
                    busy : Busy \cup {""}, file : BOOLEAN,
                    preview : Doc \cup {NoDoc}, markdown : Doc \cup {NoDoc},
                    disturbed : BOOLEAN, crossed : BOOLEAN ]
    /\ op \in [Op -> [ kind : Kind, doc : Doc \cup {NoDoc},
                       pc : {"off", "asked", "list", "listed", "markdown"},
                       seen : Doc \cup {NoDoc}, got : [Doc -> DocStatus] \cup {NotAsked} ]]

\* When nothing is under way the list shows the handbook as the API has it:
\* each operation lists after it has been answered.  Excepted are a change of
\* somebody else, a lost answer or list, and a change of one operation that came
\* between the reading and the showing of the list of another.
QuietListIsCurrent ==
    UnderWay = {} /\ ~config.disturbed /\ config.docs # NotAsked => config.docs = handbook

\* The drawer shows the text of the document it is titled with, and of none
\* that this administrator has deleted, unless two were crossed.
PreviewIsOfDrawer ==
    config.preview # NoDoc /\ ~config.crossed =>
        /\ config.markdown \in {NoDoc, config.preview}
        /\ UnderWay = {} => handbook[config.preview] \in Listed

\* A spinner turns only while there is something to wait for: the flag that
\* disables the forms, the name of the operation in the header, the empty drawer.
SpinnersMeanWork ==
    /\ config.loading => Holding # {}
    /\ config.busy # "" => \E o \in UnderWay : op[o].kind \in Busy
    /\ config.preview # NoDoc /\ config.markdown = NoDoc => Reads # {}
=============================================================================
