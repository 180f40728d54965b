-------------------------- MODULE AdminConsoleProofs --------------------------
(***************************************************************************)
(* Proofs about AdminConsole for every number of documents, operations at  *)
(* a time, conversations and days: its types, that the list and the flags  *)
(* of the configuration tab are right although its operations overlap, and *)
(* that what the dashboard and the two drawers show belongs together.      *)
(*                                                                         *)
(* The properties speak of the screen at rest; the invariant adds what is  *)
(* known of each request under way: of a load, which page of which period  *)
(* it may put on the screen (SelectorOK, PageOK); of an operation, which   *)
(* kind may be where (Placed), that an undisturbed list is the API's or is *)
(* on its way (ListOK), and that any text or transcript on its way is the  *)
(* open drawer's or was asked for before it (TextOK, TranscriptOK).        *)
(***************************************************************************)
EXTENDS AdminConsole, TLAPS

-----------------------------------------------------------------------------
(***************************************************************************)
(* The dashboard                                                           *)
(***************************************************************************)
Span == Int \X Int

SessionList == [range : Span \cup {NoRange}, offset : Nat, total : Nat, items : Nat]

DashState ==
    [ period : Preset \cup {"custom"}, range : Span, offset : Nat,
      summary : Span \cup {NoRange}, trends : Span \cup {NoRange}, sessions : SessionList,
      loading : BOOLEAN, drawer : Session \cup {0}, transcript : Session \cup {0},
      transcriptLoading : BOOLEAN, half : BOOLEAN, unheard : BOOLEAN, crossed : SUBSET Session ]

Load == [range : Span, offset : Nat, choice : BOOLEAN]

DashTyped ==
    /\ today \in Date
    /\ dash \in DashState
    /\ load \in Load \cup {NotLoading}
    /\ dash.loading <=> load \in Load
    /\ reading \in [Session -> Nat]

\* The range is as long as the selector says.
OfPeriod(range, period) ==
    period # "custom" => range[2] - range[1] + 1 = PresetDays(period)

\* A page that the list of the screen is known to have.
PageKnown(range, offset) ==
    offset = 0 \/ (dash.sessions.range = range /\ offset < dash.sessions.total)

PeriodOK ==
    /\ dash.sessions.range \in {NoRange, dash.range}
    /\ ~dash.half => dash.summary = dash.sessions.range /\ dash.trends = dash.sessions.range

SelectorOK ==
    /\ load \in Load /\ load.choice => OfPeriod(load.range, dash.period)
    /\ load \in Load /\ ~load.choice => load.range = dash.range
    /\ ~(load \in Load /\ load.choice) /\ ~dash.unheard => OfPeriod(dash.range, dash.period)

PageOK ==
    /\ PageKnown(dash.range, dash.offset)
    /\ load \in Load => PageKnown(load.range, load.offset)
    /\ dash.sessions.total > 0 =>
          /\ dash.sessions.range = dash.range
          /\ dash.offset < dash.sessions.total
          /\ dash.sessions.offset = dash.offset
          /\ dash.sessions.items = Smaller(PageSize, dash.sessions.total - dash.offset)

TranscriptOK ==
    dash.drawer # 0 =>
        /\ dash.transcript = 0 => dash.transcriptLoading /\ dash.drawer \in Awaited
        /\ dash.transcript \in {0, dash.drawer} \cup dash.crossed
        /\ Awaited \subseteq {dash.drawer} \cup dash.crossed

DashInv == DashTyped /\ PeriodOK /\ SelectorOK /\ PageOK /\ TranscriptOK

-----------------------------------------------------------------------------
(***************************************************************************)
(* The configuration tab                                                   *)
(***************************************************************************)
Handbook == [Doc -> DocStatus]

ConfigState ==
    [ docs : Handbook \cup {NotAsked}, loading : BOOLEAN,
      busy : Busy \cup {""}, file : BOOLEAN,
      preview : Doc \cup {NoDoc}, markdown : Doc \cup {NoDoc},
      disturbed : BOOLEAN, crossed : BOOLEAN ]

Operation ==
    [ kind : Kind, doc : Doc \cup {NoDoc},
      pc : {"off", "asked", "list", "listed", "markdown"},
      seen : Doc \cup {NoDoc}, got : Handbook \cup {NotAsked} ]

\* Which kind of operation gets where, and which have a document.
Placed(x) ==
    /\ x.pc = "asked" => x.kind \notin {"load", "preview"}
    /\ x.kind = "preview" => x.pc \in {"off", "markdown"}
    /\ x.pc = "markdown" => x.kind \in {"upload", "preview"}
    /\ x.kind \notin {"load", "search"} => x.doc \in Doc

ConfigTyped ==
    /\ handbook \in Handbook
    /\ config \in ConfigState
    /\ op \in [Op -> Operation]
    /\ \A o \in Op : Placed(op[o])

\* Unless the list was disturbed, what has been read is the handbook, and so is
\* what is shown, or its list is still to come.
ListOK ==
    ~config.disturbed =>
        /\ \A o \in Op : op[o].pc = "listed" => op[o].got = handbook
        /\ \/ config.docs \in {NotAsked, handbook}
           \/ \E o \in Op : op[o].pc \in {"list", "listed"}

SpinnerOK ==
    /\ config.loading => \E o \in Op : op[o].pc # "off" /\ op[o].kind # "preview"
    /\ config.busy # "" => \E o \in Op : op[o].pc # "off" /\ op[o].kind \in Busy
    /\ config.preview # NoDoc /\ config.markdown = NoDoc => \E o \in Op : op[o].pc = "markdown"

TextOK ==
    config.preview # NoDoc /\ ~config.crossed =>
        /\ config.markdown \in {NoDoc, config.preview}
        /\ config.markdown # NoDoc => handbook[config.preview] \in Listed
        /\ \A o \in Op : op[o].pc = "markdown" => op[o].doc = config.preview
        /\ \A o \in Op : op[o].kind = "remove" /\ op[o].pc = "asked"
                         /\ op[o].doc = config.preview => op[o].seen = op[o].doc

ConfigInv == ConfigTyped /\ ListOK /\ SpinnerOK /\ TextOK

IInv == AppType /\ DashInv /\ ConfigInv

-----------------------------------------------------------------------------
(***************************************************************************)
(* The dashboard keeps its invariant                                       *)
(***************************************************************************)
LEMMA LoadIsSome == NotLoading \notin Load
<1>1. \A x \in Load : "range" \in DOMAIN x
  BY DEF Load
<1>2. "range" \notin DOMAIN NotLoading
  BY DEF NotLoading
<1> QED BY <1>1, <1>2

\* A preset is a period that ends today, as long as its name says.
LEMMA PresetFacts ==
    /\ \A period : PresetDays(period) \in {1, 7, 30}
    /\ \A period : \A day \in Int :
          /\ RangeForPreset(period, day) \in Span
          /\ OfPeriod(RangeForPreset(period, day), period)
          /\ RangeForPreset(period, day)[1] <= RangeForPreset(period, day)[2]
<1>1. \A period : PresetDays(period) \in {1, 7, 30}
  BY DEF PresetDays
<1>2. ASSUME NEW period, NEW day \in Int
      PROVE  /\ RangeForPreset(period, day) \in Span
             /\ OfPeriod(RangeForPreset(period, day), period)
             /\ RangeForPreset(period, day)[1] <= RangeForPreset(period, day)[2]
  <2>1. PICK n \in {1, 7, 30} : n = PresetDays(period)
    BY <1>1
  <2>2. RangeForPreset(period, day) = <<day - n + 1, day>>
    BY <2>1 DEF RangeForPreset
  <2>3. day - n + 1 \in Int /\ day - (day - n + 1) + 1 = n /\ day - n + 1 <= day
    OBVIOUS
  <2> QED BY <2>1, <2>2, <2>3 DEF Span, OfPeriod
<1> QED BY <1>1, <1>2

\* What the API may answer when it is asked for a page.
LEMMA SessionListFacts ==
    ASSUME dash \in DashState, NEW range \in Span, NEW offset \in Nat,
           NEW got \in SessionLists(range, offset)
    PROVE  /\ got \in SessionList
           /\ got.range = range /\ got.offset = offset
           /\ offset < got.total => got.items = Smaller(PageSize, got.total - offset)
           /\ dash.sessions.range = range => dash.sessions.total <= got.total
<1> DEFINE known == IF dash.sessions.range = range THEN dash.sessions.total ELSE 0
<1>1. known \in Nat /\ MaxChats \in Nat /\ PageSize \in Nat
  BY DayAssumption, PageSizeAssumption DEF DashState, SessionList
<1>2. PICK total \in known..MaxChats :
         got = [ range |-> range, offset |-> offset, total |-> total,
                 items |-> IF offset >= total THEN 0 ELSE Smaller(PageSize, total - offset) ]
  BY DEF SessionLists
<1>3. total \in Nat /\ known <= total
  BY <1>1, <1>2
<1>4. (IF offset >= total THEN 0 ELSE Smaller(PageSize, total - offset)) \in Nat
  BY <1>1, <1>3 DEF Smaller
<1>5. got \in SessionList
  BY <1>2, <1>3, <1>4 DEF SessionList
<1>6. /\ got.range = range /\ got.offset = offset /\ got.total = total
      /\ offset < total => got.items = Smaller(PageSize, total - offset)
  BY <1>2, <1>3
<1> QED BY <1>3, <1>5, <1>6

\* A load that begins may be shown, whatever it is a load of.
LEMMA StartLoadKeeps ==
    ASSUME DashInv, ~dash.loading, UNCHANGED <<today, reading>>,
           NEW d \in DashState, NEW range \in Span, NEW offset \in Nat, NEW choice \in BOOLEAN,
           d = [dash EXCEPT !.period = d.period],
           d.period = dash.period \/ (choice /\ range[1] <= range[2]),
           choice => OfPeriod(range, d.period),
           ~choice => range = dash.range,
           PageKnown(range, offset),
           \/ range[2] < range[1] /\ dash' = d /\ UNCHANGED load
           \/ dash' = [d EXCEPT !.loading = TRUE]
              /\ load' = [range |-> range, offset |-> offset, choice |-> choice]
    PROVE  DashInv'
<1>1. /\ DashTyped /\ dash \in DashState /\ today \in Date /\ reading \in [Session -> Nat]
      /\ load \notin Load /\ load = NotLoading
  BY DEF DashInv, DashTyped
<1>2. /\ d.range = dash.range /\ d.offset = dash.offset
      /\ d.summary = dash.summary /\ d.trends = dash.trends /\ d.sessions = dash.sessions
      /\ d.loading = dash.loading /\ d.drawer = dash.drawer
      /\ d.transcript = dash.transcript
      /\ d.transcriptLoading = dash.transcriptLoading
      /\ d.half = dash.half /\ d.unheard = dash.unheard /\ d.crossed = dash.crossed
  BY <1>1 DEF DashState
<1>3. CASE range[2] < range[1] /\ dash' = d /\ UNCHANGED load
  <2>1. d.period = dash.period
    <3>1. range[1] \in Int /\ range[2] \in Int
      BY DEF Span
    <3> QED BY <1>3, <3>1
  <2>2. dash' = dash
    BY <1>1, <1>3, <2>1 DEF DashState
  <2> QED BY <1>3, <2>2
       DEF DashInv, DashTyped, PeriodOK, SelectorOK, PageOK, TranscriptOK, Awaited, PageKnown
<1>4. CASE /\ dash' = [d EXCEPT !.loading = TRUE]
           /\ load' = [range |-> range, offset |-> offset, choice |-> choice]
  <2>1. /\ dash' \in DashState
        /\ dash'.period = d.period
        /\ dash'.range = dash.range /\ dash'.offset = dash.offset
        /\ dash'.summary = dash.summary /\ dash'.trends = dash.trends
        /\ dash'.sessions = dash.sessions
        /\ dash'.loading /\ dash'.drawer = dash.drawer
        /\ dash'.transcript = dash.transcript
        /\ dash'.transcriptLoading = dash.transcriptLoading
        /\ dash'.half = dash.half /\ dash'.unheard = dash.unheard
        /\ dash'.crossed = dash.crossed
    BY <1>2, <1>4 DEF DashState
  <2>2. /\ load' \in Load /\ load'.range = range /\ load'.offset = offset
        /\ load'.choice = choice
    BY <1>4 DEF Load
  <2>3. DashTyped'
    BY <1>1, <2>1, <2>2 DEF DashTyped
  <2>4. PeriodOK' /\ TranscriptOK'
    BY <2>1 DEF DashInv, PeriodOK, TranscriptOK, Awaited
  <2>5. SelectorOK'
    BY <1>1, <2>1, <2>2 DEF DashInv, SelectorOK
  <2>6. PageOK'
    BY <2>1, <2>2 DEF DashInv, PageOK, PageKnown
  <2> QED BY <2>3, <2>4, <2>5, <2>6 DEF DashInv
<1> QED BY <1>3, <1>4

\* The answers arrive, and fit each other.
LEMMA ShowAnswersKeeps ==
    ASSUME DashInv, NEW got \in SessionLists(load.range, load.offset), ShowAnswers(got)
    PROVE  DashInv'
<1>1. /\ load # NotLoading
      /\ dash' = [dash EXCEPT !.summary = load.range, !.trends = load.range, !.sessions = got,
                              !.offset = load.offset, !.range = load.range, !.loading = FALSE,
                              !.half = FALSE, !.unheard = dash.unheard /\ ~load.choice]
      /\ load' = NotLoading
      /\ UNCHANGED <<today, reading>>
  BY DEF ShowAnswers, Shown
<1>2. /\ dash \in DashState /\ today \in Date /\ reading \in [Session -> Nat]
      /\ load \in Load
      /\ load.range \in Span /\ load.offset \in Nat /\ load.choice \in BOOLEAN
  BY <1>1 DEF DashInv, DashTyped, Load
<1>3. /\ got \in SessionList
      /\ got.range = load.range /\ got.offset = load.offset
      /\ load.offset < got.total => got.items = Smaller(PageSize, got.total - load.offset)
      /\ dash.sessions.range = load.range => dash.sessions.total <= got.total
      /\ got.total \in Nat /\ dash.sessions.total \in Nat
  <2>1. got.total \in Nat /\ dash.sessions.total \in Nat
    BY <1>2, SessionListFacts DEF DashState, SessionList
  <2> QED BY <1>2, <2>1, SessionListFacts
<1>4. PICK b \in BOOLEAN : b = (dash.unheard /\ ~load.choice)
  OBVIOUS
<1>5. dash' = [dash EXCEPT !.summary = load.range, !.trends = load.range, !.sessions = got,
                           !.offset = load.offset, !.range = load.range, !.loading = FALSE,
                           !.half = FALSE, !.unheard = b]
  BY <1>1, <1>4
<1>6. dash' \in DashState
  BY <1>2, <1>3, <1>5 DEF DashState
<1>7. /\ dash'.period = dash.period
      /\ dash'.range = load.range /\ dash'.offset = load.offset
      /\ dash'.summary = load.range /\ dash'.trends = load.range
      /\ dash'.sessions = got
      /\ ~dash'.loading /\ dash'.drawer = dash.drawer
      /\ dash'.transcript = dash.transcript
      /\ dash'.transcriptLoading = dash.transcriptLoading
      /\ ~dash'.half /\ dash'.unheard = b
      /\ dash'.crossed = dash.crossed
  BY <1>2, <1>5 DEF DashState
<1>8. load' \notin Load
  BY <1>1, LoadIsSome
<1>9. DashTyped'
  BY <1>1, <1>2, <1>6, <1>7, <1>8 DEF DashTyped
<1>10. PeriodOK' /\ TranscriptOK'
  BY <1>1, <1>3, <1>7 DEF DashInv, PeriodOK, TranscriptOK, Awaited
<1>11. SelectorOK'
  <2>1. CASE load.choice
    BY <1>2, <1>7, <1>8, <2>1 DEF DashInv, SelectorOK
  <2>2. CASE ~load.choice
    <3>1. b <=> dash.unheard
      BY <1>4, <2>2
    <3> QED BY <1>2, <1>7, <1>8, <2>2, <3>1 DEF DashInv, SelectorOK
  <2> QED BY <2>1, <2>2
<1>12. PageOK'
  <2>1. PageKnown(load.range, load.offset)
    BY <1>2 DEF DashInv, PageOK
  <2>2. load.offset = 0 \/ load.offset < got.total
    BY <1>2, <1>3, <2>1 DEF PageKnown
  <2>3. got.total > 0 => load.offset < got.total
    BY <1>2, <1>3, <2>2
  <2>4. PageKnown(dash.range, dash.offset)'
    BY <1>3, <1>7, <2>2 DEF PageKnown
  <2> QED BY <1>3, <1>7, <1>8, <2>3, <2>4 DEF PageOK
<1> QED BY <1>9, <1>10, <1>11, <1>12 DEF DashInv

\* A load fails, before, between or after its first answers.
LEMMA LoadFailedKeeps ==
    ASSUME DashInv, NEW shown \in 0..2, LoadFailed(shown)
    PROVE  DashInv'
<1> DEFINE summary == IF shown > 0 THEN load.range ELSE dash.summary
           trends == IF shown > 1 THEN load.range ELSE dash.trends
<1>1. /\ load # NotLoading
      /\ dash' = [dash EXCEPT !.summary = summary, !.trends = trends, !.loading = FALSE,
                              !.half = dash.half \/ shown > 0,
                              !.unheard = dash.unheard
                                          \/ (load.choice /\ dash.period # "custom")]
      /\ load' = NotLoading
      /\ UNCHANGED <<today, reading>>
  BY DEF LoadFailed
<1>2. /\ dash \in DashState /\ today \in Date /\ reading \in [Session -> Nat]
      /\ load \in Load /\ load.range \in Span /\ load.choice \in BOOLEAN
  BY <1>1 DEF DashInv, DashTyped, Load
<1>3. /\ summary \in Span \cup {NoRange} /\ trends \in Span \cup {NoRange}
      /\ ~(shown > 0) => summary = dash.summary /\ trends = dash.trends
  BY <1>2 DEF DashState
<1>4. PICK h \in BOOLEAN : h = (dash.half \/ shown > 0)
  OBVIOUS
<1>5. PICK u \in BOOLEAN : u = (dash.unheard \/ (load.choice /\ dash.period # "custom"))
  OBVIOUS
<1> HIDE DEF summary, trends
<1>6. dash' = [dash EXCEPT !.summary = summary, !.trends = trends, !.loading = FALSE,
                           !.half = h, !.unheard = u]
  BY <1>1, <1>4, <1>5
<1>7. dash' \in DashState
  <2> DEFINE Shape == Span \cup {NoRange}
  <2>1. dash \in [ period : Preset \cup {"custom"}, range : Span, offset : Nat,
                   summary : Shape, trends : Shape, sessions : SessionList,
                   loading : BOOLEAN, drawer : Session \cup {0},
                   transcript : Session \cup {0}, transcriptLoading : BOOLEAN,
                   half : BOOLEAN, unheard : BOOLEAN, crossed : SUBSET Session ]
    BY <1>2 DEF DashState
  <2>2. summary \in Shape /\ trends \in Shape
    BY <1>3
  <2> HIDE DEF Shape
  <2>3. dash' \in [ period : Preset \cup {"custom"}, range : Span, offset : Nat,
                    summary : Shape, trends : Shape, sessions : SessionList,
                    loading : BOOLEAN, drawer : Session \cup {0},
                    transcript : Session \cup {0}, transcriptLoading : BOOLEAN,
                    half : BOOLEAN, unheard : BOOLEAN, crossed : SUBSET Session ]
    BY <1>6, <2>1, <2>2
  <2> QED BY <2>3 DEF Shape, DashState
<1>8. /\ dash'.period = dash.period
      /\ dash'.range = dash.range /\ dash'.offset = dash.offset
      /\ dash'.summary = summary /\ dash'.trends = trends
      /\ dash'.sessions = dash.sessions
      /\ ~dash'.loading /\ dash'.drawer = dash.drawer
      /\ dash'.transcript = dash.transcript
      /\ dash'.transcriptLoading = dash.transcriptLoading
      /\ dash'.half = h /\ dash'.unheard = u
      /\ dash'.crossed = dash.crossed
  BY <1>2, <1>6 DEF DashState
<1>9. load' \notin Load
  BY <1>1, LoadIsSome
<1>10. DashTyped'
  BY <1>1, <1>2, <1>7, <1>8, <1>9 DEF DashTyped
<1>11. PeriodOK' /\ TranscriptOK'
  BY <1>1, <1>3, <1>4, <1>8 DEF DashInv, PeriodOK, TranscriptOK, Awaited
<1>12. SelectorOK'
  <2>1. CASE load.choice /\ dash.period # "custom"
    BY <1>5, <1>8, <1>9, <2>1 DEF SelectorOK
  <2>2. CASE load.choice /\ dash.period = "custom"
    BY <1>8, <1>9, <2>2 DEF SelectorOK, OfPeriod
  <2>3. CASE ~load.choice
    BY <1>2, <1>5, <1>8, <1>9, <2>3 DEF DashInv, SelectorOK
  <2> QED BY <2>1, <2>2, <2>3
<1>13. PageOK'
  BY <1>8, <1>9 DEF DashInv, PageOK, PageKnown
<1> QED BY <1>10, <1>11, <1>12, <1>13 DEF DashInv

\* The transcript and its drawer: the rest of the screen stays.
LEMMA DrawerKeeps ==
    ASSUME DashInv, NEW drawer \in Session \cup {0}, NEW transcript \in Session \cup {0},
           NEW waiting \in BOOLEAN, NEW crossed \in SUBSET Session,
           dash' = [dash EXCEPT !.drawer = drawer, !.transcript = transcript,
                                !.transcriptLoading = waiting, !.crossed = crossed],
           UNCHANGED <<today, load>>, reading' \in [Session -> Nat],
           drawer # 0 =>
              /\ transcript = 0 => waiting /\ drawer \in Awaited'
              /\ transcript \in {0, drawer} \cup crossed
              /\ Awaited' \subseteq {drawer} \cup crossed
    PROVE  DashInv'
<1>1. dash \in DashState
  BY DEF DashInv, DashTyped
<1>2. /\ dash' \in DashState
      /\ dash'.period = dash.period
      /\ dash'.range = dash.range /\ dash'.offset = dash.offset
      /\ dash'.summary = dash.summary /\ dash'.trends = dash.trends
      /\ dash'.sessions = dash.sessions
      /\ dash'.loading = dash.loading /\ dash'.drawer = drawer
      /\ dash'.transcript = transcript
      /\ dash'.transcriptLoading = waiting
      /\ dash'.half = dash.half /\ dash'.unheard = dash.unheard
      /\ dash'.crossed = crossed
  BY <1>1 DEF DashState
<1>3. DashTyped'
  BY <1>2 DEF DashInv, DashTyped
<1>4. PeriodOK' /\ SelectorOK'
  BY <1>2 DEF DashInv, PeriodOK, SelectorOK
<1>5. PageOK'
  BY <1>2 DEF DashInv, PageOK, PageKnown
<1>6. TranscriptOK'
  BY <1>2 DEF TranscriptOK
<1> QED BY <1>3, <1>4, <1>5, <1>6 DEF DashInv

\* 0 stands for no conversation.
LEMMA SessionFacts == 0 \notin Session
BY DayAssumption DEF Session

\* The drawer is opened, filled, given up or closed.
LEMMA TranscriptStepsKeep ==
    ASSUME DashInv
    PROVE  /\ \A s \in Session : OpenTranscript(s) \/ TranscriptStep(s) => DashInv'
           /\ CloseTranscript => DashInv'
<1>1. /\ dash \in DashState /\ reading \in [Session -> Nat]
      /\ dash.drawer \in Session \cup {0} /\ dash.transcript \in Session \cup {0}
      /\ dash.transcriptLoading \in BOOLEAN /\ dash.crossed \in SUBSET Session
      /\ Awaited \in SUBSET Session
  BY DEF DashInv, DashTyped, DashState, Awaited
<1>2. ASSUME NEW s \in Session, OpenTranscript(s)
      PROVE  DashInv'
  <2>1. PICK c \in SUBSET Session : c = Awaited
    BY <1>1
  <2>2. /\ reading' = [reading EXCEPT ![s] = reading[s] + 1]
        /\ dash' = [dash EXCEPT !.drawer = s, !.transcript = 0, !.transcriptLoading = TRUE,
                                !.crossed = c]
        /\ UNCHANGED <<today, load>>
    BY <1>2, <2>1 DEF OpenTranscript
  <2>3. /\ reading' \in [Session -> Nat]
        /\ s \in Awaited' /\ Awaited' \subseteq {s} \cup c
    <3>1. reading[s] \in Nat
      BY <1>1
    <3>2. reading' \in [Session -> Nat] /\ reading'[s] > 0
      BY <1>1, <2>2, <3>1
    <3>3. \A t \in Session : t # s => reading'[t] = reading[t]
      BY <1>1, <2>2
    <3> QED BY <2>1, <3>2, <3>3 DEF Awaited
  <2>4. PICK t \in Session \cup {0} : t = 0
    OBVIOUS
  <2>5. PICK w \in BOOLEAN : w = TRUE
    OBVIOUS
  <2>6. dash' = [dash EXCEPT !.drawer = s, !.transcript = t, !.transcriptLoading = w,
                             !.crossed = c]
    BY <2>2, <2>4, <2>5
  <2>7. /\ t = 0 => w /\ s \in Awaited'
        /\ t \in {0, s} \cup c
        /\ Awaited' \subseteq {s} \cup c
    BY <2>3, <2>4, <2>5
  <2>8. s \in Session \cup {0} /\ UNCHANGED <<today, load>>
    BY <2>2
  <2> QED BY <2>3, <2>6, <2>7, <2>8, DrawerKeeps
<1>3. \A s \in Session :
         s \in Awaited /\ reading' = [reading EXCEPT ![s] = reading[s] - 1] =>
            reading' \in [Session -> Nat] /\ Awaited' \subseteq Awaited
  <2> SUFFICES ASSUME NEW s \in Session, s \in Awaited,
                      reading' = [reading EXCEPT ![s] = reading[s] - 1]
               PROVE  reading' \in [Session -> Nat] /\ Awaited' \subseteq Awaited
    OBVIOUS
  <2>1. reading[s] \in Nat /\ reading[s] > 0
    BY <1>1 DEF Awaited
  <2>2. reading[s] - 1 \in Nat
    BY <2>1
  <2>3. \A t \in Session : t # s => reading'[t] = reading[t]
    BY <1>1
  <2> QED BY <1>1, <2>2, <2>3 DEF Awaited
<1>4. ASSUME NEW s \in Session, GetTranscript(s)
      PROVE  DashInv'
  <2>1. /\ s \in Awaited /\ reading' = [reading EXCEPT ![s] = reading[s] - 1]
        /\ dash' = [dash EXCEPT !.transcript = s, !.transcriptLoading = FALSE]
        /\ UNCHANGED <<today, load>>
    BY <1>4 DEF GetTranscript
  <2>2. PICK w \in BOOLEAN : w = FALSE
    OBVIOUS
  <2>3. PICK d \in Session \cup {0}, c \in SUBSET Session : d = dash.drawer /\ c = dash.crossed
    BY <1>1
  <2>4. dash' = [dash EXCEPT !.drawer = d, !.transcript = s, !.transcriptLoading = w,
                             !.crossed = c]
    BY <1>1, <2>1, <2>2, <2>3 DEF DashState
  <2>5. reading' \in [Session -> Nat] /\ Awaited' \subseteq Awaited
    BY <1>3, <2>1
  <2>6. d # 0 => s \in {0, d} \cup c /\ Awaited' \subseteq {d} \cup c
    BY <2>1, <2>3, <2>5 DEF DashInv, TranscriptOK
  <2>7. s # 0
    BY SessionFacts
  <2>8. s \in Session \cup {0} /\ UNCHANGED <<today, load>>
    BY <2>1
  <2> QED BY <2>4, <2>5, <2>6, <2>7, <2>8, DrawerKeeps
<1>5. ASSUME NEW s \in Session, TranscriptFailed(s)
      PROVE  DashInv'
  <2>1. /\ s \in Awaited /\ reading' = [reading EXCEPT ![s] = reading[s] - 1]
        /\ dash' = [dash EXCEPT !.drawer = 0, !.transcriptLoading = FALSE, !.crossed = {}]
        /\ UNCHANGED <<today, load>>
    BY <1>5 DEF TranscriptFailed
  <2>2. PICK d \in Session \cup {0}, t \in Session \cup {0}, w \in BOOLEAN,
             c \in SUBSET Session :
           d = 0 /\ t = dash.transcript /\ w = FALSE /\ c = {}
    BY <1>1
  <2>3. dash' = [dash EXCEPT !.drawer = d, !.transcript = t, !.transcriptLoading = w,
                             !.crossed = c]
    BY <1>1, <2>1, <2>2 DEF DashState
  <2>4. reading' \in [Session -> Nat]
    BY <1>3, <2>1
  <2> QED BY <2>1, <2>2, <2>3, <2>4, DrawerKeeps
<1>6. ASSUME CloseTranscript
      PROVE  DashInv'
  <2>1. /\ dash' = [dash EXCEPT !.drawer = 0, !.transcript = 0, !.crossed = {}]
        /\ UNCHANGED <<today, load, reading>>
    BY <1>6 DEF CloseTranscript
  <2>2. PICK d \in Session \cup {0}, t \in Session \cup {0}, w \in BOOLEAN,
             c \in SUBSET Session :
           d = 0 /\ t = 0 /\ w = dash.transcriptLoading /\ c = {}
    BY <1>1
  <2>3. dash' = [dash EXCEPT !.drawer = d, !.transcript = t, !.transcriptLoading = w,
                             !.crossed = c]
    BY <1>1, <2>1, <2>2 DEF DashState
  <2>4. reading' \in [Session -> Nat] /\ UNCHANGED <<today, load>> /\ d = 0
    BY <1>1, <2>1, <2>2
  <2> QED BY <2>3, <2>4, DrawerKeeps
<1> QED BY <1>2, <1>4, <1>5, <1>6 DEF TranscriptStep

\* The controls that begin a load, each for the page it asks for.
LEMMA ControlsKeep ==
    ASSUME DashInv
    PROVE  /\ \A period \in Preset : ApplyPreset(period) => DashInv'
           /\ OpenCustomDates => DashInv'
           /\ \A range \in Date \X Date : ApplyCustomRange(range) => DashInv'
           /\ RefreshDashboard \/ Previous \/ NextPage => DashInv'
<1>1. /\ dash \in DashState /\ today \in Int
      /\ dash.range \in Span /\ dash.offset \in Nat
      /\ dash.sessions.total \in Nat
      /\ PageSize \in Nat /\ PageSize # 0
  <2>1. dash \in DashState /\ today \in Date
    BY DEF DashInv, DashTyped
  <2>2. today \in Int
    BY <2>1, DayAssumption DEF Date
  <2> QED BY <2>1, <2>2, PageSizeAssumption DEF DashState, SessionList
<1>2. ASSUME NEW period \in Preset, ApplyPreset(period)
      PROVE  DashInv'
  <2> DEFINE range == RangeForPreset(period, today)
             d == [dash EXCEPT !.period = period]
  <2>1. /\ ~dash.loading /\ UNCHANGED <<today, reading>>
        /\ \/ range[2] < range[1] /\ dash' = d /\ UNCHANGED load
           \/ /\ dash' = [d EXCEPT !.loading = TRUE]
              /\ load' = [range |-> range, offset |-> 0, choice |-> TRUE]
    BY <1>2 DEF ApplyPreset, StartLoad
  <2>2. range \in Span /\ OfPeriod(range, period) /\ range[1] <= range[2]
    BY <1>1, PresetFacts
  <2>3. d \in DashState /\ d.period = period /\ d = [dash EXCEPT !.period = d.period]
    BY <1>1 DEF DashState
  <2> HIDE DEF range, d
  <2>4. PICK offset \in Nat, choice \in BOOLEAN : offset = 0 /\ choice = TRUE
    OBVIOUS
  <2>5. PageKnown(range, offset)
    BY <2>4 DEF PageKnown
  <2>6. \/ range[2] < range[1] /\ dash' = d /\ UNCHANGED load
        \/ /\ dash' = [d EXCEPT !.loading = TRUE]
           /\ load' = [range |-> range, offset |-> offset, choice |-> choice]
    BY <2>1, <2>4
  <2>7. OfPeriod(range, d.period)
    BY <2>2, <2>3
  <2> QED BY <2>1, <2>2, <2>3, <2>4, <2>5, <2>6, <2>7, StartLoadKeeps
<1>3. ASSUME OpenCustomDates
      PROVE  DashInv'
  <2>1. /\ ~dash.loading
        /\ dash' = [dash EXCEPT !.period = "custom", !.unheard = FALSE]
        /\ UNCHANGED <<today, load, reading>>
    BY <1>3 DEF OpenCustomDates
  <2>2. /\ dash' \in DashState
        /\ dash'.period = "custom"
        /\ dash'.range = dash.range /\ dash'.offset = dash.offset
        /\ dash'.summary = dash.summary /\ dash'.trends = dash.trends
        /\ dash'.sessions = dash.sessions
        /\ dash'.loading = dash.loading /\ dash'.drawer = dash.drawer
        /\ dash'.transcript = dash.transcript
        /\ dash'.transcriptLoading = dash.transcriptLoading
        /\ dash'.half = dash.half /\ dash'.unheard = FALSE
        /\ dash'.crossed = dash.crossed
    BY <1>1, <2>1 DEF DashState
  <2>3. load \notin Load
    BY <2>1 DEF DashInv, DashTyped
  <2>4. DashTyped'
    BY <2>1, <2>2 DEF DashInv, DashTyped
  <2>5. PeriodOK' /\ TranscriptOK'
    BY <2>1, <2>2 DEF DashInv, PeriodOK, TranscriptOK, Awaited
  <2>6. SelectorOK'
    BY <2>1, <2>2, <2>3 DEF SelectorOK, OfPeriod
  <2>7. PageOK'
    BY <2>1, <2>2 DEF DashInv, PageOK, PageKnown
  <2> QED BY <2>4, <2>5, <2>6, <2>7 DEF DashInv
<1>4. ASSUME NEW range \in Date \X Date, ApplyCustomRange(range)
      PROVE  DashInv'
  <2>1. /\ ~dash.loading /\ UNCHANGED <<today, reading>> /\ dash.period = "custom"
        /\ \/ range[2] < range[1] /\ dash' = dash /\ UNCHANGED load
           \/ /\ dash' = [dash EXCEPT !.loading = TRUE]
              /\ load' = [range |-> range, offset |-> 0, choice |-> TRUE]
    BY <1>4 DEF ApplyCustomRange, StartLoad
  <2>2. range \in Span
    <3>1. Date \subseteq Int
      BY DayAssumption DEF Date
    <3> QED BY <3>1 DEF Span
  <2>3. PICK offset \in Nat, choice \in BOOLEAN : offset = 0 /\ choice = TRUE
    OBVIOUS
  <2>4. PICK d \in DashState : d = dash
    BY <1>1
  <2>5. d.period = dash.period /\ d = [dash EXCEPT !.period = d.period]
    BY <1>1, <2>4 DEF DashState
  <2>6. PageKnown(range, offset) /\ OfPeriod(range, d.period)
    BY <2>1, <2>3, <2>5 DEF PageKnown, OfPeriod
  <2>7. \/ range[2] < range[1] /\ dash' = d /\ UNCHANGED load
        \/ /\ dash' = [d EXCEPT !.loading = TRUE]
           /\ load' = [range |-> range, offset |-> offset, choice |-> choice]
    BY <2>1, <2>3, <2>4
  <2> QED BY <2>1, <2>2, <2>3, <2>5, <2>6, <2>7, StartLoadKeeps
<1>5. ASSUME NEW offset \in Nat, ~dash.loading, UNCHANGED <<today, reading>>,
             PageKnown(dash.range, offset),
             \/ dash.range[2] < dash.range[1] /\ dash' = dash /\ UNCHANGED load
             \/ /\ dash' = [dash EXCEPT !.loading = TRUE]
                /\ load' = [range |-> dash.range, offset |-> offset, choice |-> FALSE]
      PROVE  DashInv'
  <2>1. PICK choice \in BOOLEAN : choice = FALSE
    OBVIOUS
  <2>2. PICK d \in DashState, range \in Span : d = dash /\ range = dash.range
    BY <1>1
  <2>3. d.period = dash.period /\ d = [dash EXCEPT !.period = d.period]
    BY <1>1, <2>2 DEF DashState
  <2>4. \/ range[2] < range[1] /\ dash' = d /\ UNCHANGED load
        \/ /\ dash' = [d EXCEPT !.loading = TRUE]
           /\ load' = [range |-> range, offset |-> offset, choice |-> choice]
    BY <1>5, <2>1, <2>2
  <2> QED BY <1>5, <2>1, <2>2, <2>3, <2>4, StartLoadKeeps
<1>6. PageKnown(dash.range, dash.offset)
      /\ (dash.sessions.total > 0 =>
             /\ dash.offset < dash.sessions.total
             /\ dash.sessions.items = Smaller(PageSize, dash.sessions.total - dash.offset))
  BY DEF DashInv, PageOK
<1>7. dash.sessions.total > 0 => dash.sessions.range = dash.range
  BY DEF DashInv, PageOK
<1>8. RefreshDashboard => DashInv'
  BY <1>1, <1>5, <1>6 DEF RefreshDashboard, StartLoad
<1>9. ASSUME Previous PROVE DashInv'
  <2> DEFINE offset == IF dash.offset > PageSize THEN dash.offset - PageSize ELSE 0
  <2>1. /\ ~dash.loading /\ UNCHANGED <<today, reading>>
        /\ \/ dash.range[2] < dash.range[1] /\ dash' = dash /\ UNCHANGED load
           \/ /\ dash' = [dash EXCEPT !.loading = TRUE]
              /\ load' = [range |-> dash.range, offset |-> offset, choice |-> FALSE]
    BY <1>9 DEF Previous, StartLoad
  <2>2. offset \in Nat
    BY <1>1
  <2>3. PageKnown(dash.range, offset)
    BY <1>1, <1>6 DEF PageKnown
  <2> HIDE DEF offset
  <2> QED BY <1>5, <2>1, <2>2, <2>3
<1>10. ASSUME NextPage PROVE DashInv'
  <2> DEFINE offset == dash.offset + PageSize
  <2>1. /\ ~dash.loading /\ UNCHANGED <<today, reading>>
        /\ dash.sessions.total # 0 /\ PageEnd < dash.sessions.total
        /\ \/ dash.range[2] < dash.range[1] /\ dash' = dash /\ UNCHANGED load
           \/ /\ dash' = [dash EXCEPT !.loading = TRUE]
              /\ load' = [range |-> dash.range, offset |-> offset, choice |-> FALSE]
    BY <1>10 DEF NextPage, StartLoad
  <2>2. offset \in Nat
    BY <1>1
  <2>3. dash.sessions.items \in Nat
    BY <1>1 DEF DashState, SessionList
  <2>4. offset < dash.sessions.total
    <3>1. PICK t \in Nat, i \in Nat, k \in Nat, n \in Nat :
             /\ t = dash.sessions.total /\ i = dash.sessions.items
             /\ k = dash.offset /\ n = PageSize
      BY <1>1, <2>3
    <3>2. t > 0 /\ k < t /\ i = Smaller(n, t - k)
      BY <1>6, <2>1, <3>1
    <3>3. Smaller(k + i, t) < t
      BY <2>1, <3>1 DEF PageEnd
    <3>4. k + n < t
      BY <3>2, <3>3 DEF Smaller
    <3> QED BY <3>1, <3>4
  <2>5. PageKnown(dash.range, offset)
    <3>1. dash.sessions.range = dash.range
      BY <1>1, <1>7, <2>1
    <3> QED BY <2>4, <3>1 DEF PageKnown
  <2> HIDE DEF offset
  <2> QED BY <1>5, <2>1, <2>2, <2>5
<1> QED BY <1>2, <1>3, <1>4, <1>8, <1>9, <1>10

\* The tab as it is before its first answer, with or without a load under way.
LEMMA FreshDashboard ==
    ASSUME NEW day \in Date, NEW period \in Preset, period = "30d"
    PROVE  LET range == RangeForPreset(period, day)
               d == NewDash(range)
           IN  /\ today' = day /\ reading' = NoReading
               /\ \/ dash' = d /\ load' = NotLoading
                  \/ /\ dash' = [d EXCEPT !.loading = TRUE]
                     /\ load' = [range |-> range, offset |-> 0, choice |-> FALSE]
               => DashInv'
<1> DEFINE range == RangeForPreset(period, day)
           d == NewDash(range)
<1> SUFFICES ASSUME today' = day, reading' = NoReading,
                    \/ dash' = d /\ load' = NotLoading
                    \/ /\ dash' = [d EXCEPT !.loading = TRUE]
                       /\ load' = [range |-> range, offset |-> 0, choice |-> FALSE]
             PROVE  DashInv'
  OBVIOUS
<1>1. range \in Span /\ OfPeriod(range, period)
  BY PresetFacts, DayAssumption DEF Date
<1> HIDE DEF range
<1>2. NoSessions \in SessionList /\ NoSessions.total = 0 /\ NoSessions.range = NoRange
  BY DEF NoSessions, SessionList
<1>3. /\ d \in DashState
      /\ d.period = period /\ d.range = range /\ d.offset = 0
      /\ d.summary = NoRange /\ d.trends = NoRange /\ d.sessions = NoSessions
      /\ ~d.loading /\ d.drawer = 0
  BY <1>1, <1>2 DEF NewDash, DashState
<1> HIDE DEF d
<1>4. /\ dash' \in DashState
      /\ dash'.period = period /\ dash'.range = range /\ dash'.offset = 0
      /\ dash'.summary = NoRange /\ dash'.trends = NoRange /\ dash'.sessions = NoSessions
      /\ dash'.drawer = 0
      /\ load' = NotLoading => ~dash'.loading
      /\ load' # NotLoading => dash'.loading
  <2>1. CASE dash' = d /\ load' = NotLoading
    BY <1>3, <2>1
  <2>2. CASE /\ dash' = [d EXCEPT !.loading = TRUE]
             /\ load' = [range |-> range, offset |-> 0, choice |-> FALSE]
    <3>1. load' \in Load
      BY <1>1, <2>2 DEF Load
    <3> QED BY <1>3, <2>2, <3>1, LoadIsSome DEF DashState
  <2> QED BY <2>1, <2>2
<1>5. \/ load' = NotLoading /\ load' \notin Load
      \/ load' \in Load /\ load'.range = range /\ load'.offset = 0 /\ ~load'.choice
  <2>1. CASE load' = NotLoading
    BY <2>1, LoadIsSome
  <2>2. CASE load' = [range |-> range, offset |-> 0, choice |-> FALSE]
    BY <1>1, <2>2 DEF Load
  <2> QED BY <2>1, <2>2
<1>6. DashTyped'
  BY <1>4, <1>5, LoadIsSome DEF DashTyped, NoReading
<1>7. PeriodOK' /\ TranscriptOK'
  BY <1>2, <1>4 DEF PeriodOK, TranscriptOK
<1>8. SelectorOK'
  BY <1>1, <1>4, <1>5 DEF SelectorOK
<1>9. PageOK'
  BY <1>2, <1>4, <1>5 DEF PageOK, PageKnown
<1> QED BY <1>6, <1>7, <1>8, <1>9 DEF DashInv

\* The tab is mounted, or no longer.
LEMMA MountKeeps == MountDashboard \/ UnmountDashboard => DashInv'
<1>1. PICK period \in Preset : period = "30d"
  BY PresetAssumption
<1>2. 1 \in Date
  BY DayAssumption DEF Date
<1>3. ASSUME MountDashboard PROVE DashInv'
  <2>1. today' \in Date
    BY <1>3 DEF MountDashboard
  <2>2. LET range == RangeForPreset(period, today')
            d == NewDash(range)
        IN  /\ reading' = NoReading
            /\ dash' = [d EXCEPT !.loading = TRUE]
            /\ load' = [range |-> range, offset |-> 0, choice |-> FALSE]
    BY <1>1, <1>3 DEF MountDashboard
  <2>3. PICK day \in Date : day = today'
    BY <2>1
  <2> QED BY <1>1, <2>2, <2>3, FreshDashboard
<1>4. ASSUME UnmountDashboard PROVE DashInv'
  <2>1. LET range == RangeForPreset(period, 1)
        IN  today' = 1 /\ reading' = NoReading /\ dash' = NewDash(range) /\ load' = NotLoading
    BY <1>1, <1>4 DEF UnmountDashboard
  <2>2. PICK day \in Date : day = 1
    BY <1>2
  <2> QED BY <1>1, <2>1, <2>2, FreshDashboard
<1> QED BY <1>3, <1>4

\* Before the first time.
LEMMA DashboardInit == DashboardUnmounted => DashInv
<1> SUFFICES ASSUME DashboardUnmounted PROVE DashInv
  OBVIOUS
<1>1. PICK period \in Preset : period = "30d"
  BY PresetAssumption
<1>2. 1 \in Date
  BY DayAssumption DEF Date
<1> DEFINE range == RangeForPreset(period, 1)
<1>3. today = 1 /\ dash = NewDash(range) /\ load = NotLoading /\ reading = NoReading
  BY <1>1 DEF DashboardUnmounted
<1>4. range \in Span /\ OfPeriod(range, period)
  BY PresetFacts
<1> HIDE DEF range
<1>5. NoSessions \in SessionList /\ NoSessions.total = 0 /\ NoSessions.range = NoRange
  BY DEF NoSessions, SessionList
<1>6. /\ dash \in DashState
      /\ dash.period = period /\ dash.range = range /\ dash.offset = 0
      /\ dash.summary = NoRange /\ dash.trends = NoRange /\ dash.sessions = NoSessions
      /\ ~dash.loading /\ dash.drawer = 0
  BY <1>1, <1>3, <1>4, <1>5 DEF NewDash, DashState
<1>7. load \notin Load
  BY <1>3, LoadIsSome
<1>8. DashTyped
  BY <1>2, <1>3, <1>6, <1>7 DEF DashTyped, NoReading
<1>9. PeriodOK /\ TranscriptOK
  BY <1>5, <1>6 DEF PeriodOK, TranscriptOK
<1>10. SelectorOK
  BY <1>4, <1>6, <1>7 DEF SelectorOK
<1>11. PageOK
  BY <1>5, <1>6, <1>7 DEF PageOK, PageKnown
<1> QED BY <1>8, <1>9, <1>10, <1>11 DEF DashInv

\* Every step of the dashboard.
LEMMA DashboardStep ==
    ASSUME DashInv, DashboardNext
    PROVE  DashInv'
<1>1. ASSUME LoadStep PROVE DashInv'
  BY <1>1, ShowAnswersKeeps, LoadFailedKeeps DEF LoadStep
<1>2. ASSUME NextDay PROVE DashInv'
  <2>1. MaxDay \in Nat
    BY DayAssumption
  <2>2. today' \in Date
    BY <1>2, <2>1 DEF NextDay, Date, DashInv, DashTyped
  <2>3. UNCHANGED <<dash, load, reading>>
    BY <1>2 DEF NextDay
  <2> QED BY <2>2, <2>3
       DEF DashInv, DashTyped, PeriodOK, SelectorOK, PageOK, PageKnown, TranscriptOK, Awaited
<1> QED BY <1>1, <1>2, TranscriptStepsKeep, ControlsKeep DEF DashboardNext

\* And every step of the other tab.
LEMMA DashboardStays == DashInv /\ UNCHANGED dashVars => DashInv'
BY DEF dashVars, DashInv, DashTyped, PeriodOK, SelectorOK, PageOK, PageKnown, TranscriptOK, Awaited

-----------------------------------------------------------------------------
(***************************************************************************)
(* The configuration tab keeps its invariant                               *)
(***************************************************************************)
LEMMA NoOpFacts ==
    /\ NoOp \in Operation /\ Placed(NoOp)
    /\ NoOp.pc = "off" /\ NoOp.kind = "load" /\ NoOp.doc = NoDoc /\ NoOp.seen = NoDoc
    /\ NoOp.got = NotAsked
BY DEF NoOp, Operation, Placed, Kind

\* The types, field by field.
LEMMA TypedFacts ==
    ASSUME ConfigTyped
    PROVE  /\ handbook \in Handbook /\ config \in ConfigState /\ op \in [Op -> Operation]
           /\ config.docs \in Handbook \cup {NotAsked}
           /\ config.busy \in Busy \cup {""}
           /\ config.preview \in Doc \cup {NoDoc} /\ config.markdown \in Doc \cup {NoDoc}
           /\ config.loading \in BOOLEAN /\ config.file \in BOOLEAN
           /\ config.disturbed \in BOOLEAN /\ config.crossed \in BOOLEAN
           /\ \A o \in Op :
                 /\ op[o] \in Operation /\ Placed(op[o])
                 /\ op[o].kind \in Kind /\ op[o].doc \in Doc \cup {NoDoc}
                 /\ op[o].pc \in {"off", "asked", "list", "listed", "markdown"}
                 /\ op[o].seen \in Doc \cup {NoDoc}
                 /\ op[o].got \in Handbook \cup {NotAsked}
<1>1. /\ handbook \in Handbook /\ config \in ConfigState /\ op \in [Op -> Operation]
      /\ \A o \in Op : Placed(op[o])
  BY DEF ConfigTyped
<1>2. /\ config.docs \in Handbook \cup {NotAsked}
      /\ config.busy \in Busy \cup {""}
      /\ config.preview \in Doc \cup {NoDoc} /\ config.markdown \in Doc \cup {NoDoc}
      /\ config.loading \in BOOLEAN /\ config.file \in BOOLEAN
      /\ config.disturbed \in BOOLEAN /\ config.crossed \in BOOLEAN
  BY <1>1 DEF ConfigState
<1>3. \A o \in Op : op[o] \in Operation
  BY <1>1
<1>4. \A x \in Operation :
         /\ x.kind \in Kind /\ x.doc \in Doc \cup {NoDoc}
         /\ x.pc \in {"off", "asked", "list", "listed", "markdown"}
         /\ x.seen \in Doc \cup {NoDoc}
         /\ x.got \in Handbook \cup {NotAsked}
  BY DEF Operation
<1> QED BY <1>1, <1>2, <1>3, <1>4

\* One operation moves.
LEMMA OneMoves ==
    ASSUME ConfigTyped, NEW o \in Op, NEW x \in Operation, Placed(x),
           op' = [op EXCEPT ![o] = x]
    PROVE  /\ op' \in [Op -> Operation]
           /\ op'[o] = x
           /\ \A p \in Op : p # o => op'[p] = op[p]
           /\ \A p \in Op : Placed(op'[p])
BY DEF ConfigTyped

\* An operation begins.
LEMMA BeginKeeps ==
    ASSUME ConfigInv, NEW o \in Op, NEW kind \in Kind \ {"preview"}, NEW d \in Doc \cup {NoDoc},
           kind \notin {"load", "search"} => d \in Doc,
           Begin(o, kind, d)
    PROVE  ConfigInv'
<1> DEFINE x == [NoOp EXCEPT !.kind = kind, !.doc = d,
                             !.seen = IF kind = "remove" THEN config.preview ELSE NoOp.seen,
                             !.pc = IF kind = "load" THEN "list" ELSE "asked"]
<1>1. ConfigTyped /\ ListOK /\ SpinnerOK /\ TextOK
  BY DEF ConfigInv
<1>2. /\ op[o].pc = "off"
      /\ op' = [op EXCEPT ![o] = x]
      /\ UNCHANGED handbook
  BY DEF Begin
<1>3. /\ x \in Operation
      /\ x.kind = kind /\ x.doc = d /\ x.pc = (IF kind = "load" THEN "list" ELSE "asked")
      /\ kind = "remove" => x.seen = config.preview
  <2>1. config.preview \in Doc \cup {NoDoc}
    BY <1>1, TypedFacts
  <2>2. kind \in Kind
    OBVIOUS
  <2> QED BY <2>1, <2>2, NoOpFacts DEF NoOp, Operation
<1> HIDE DEF x
<1>4. Placed(x)
  BY <1>3 DEF Placed
<1>5. /\ op' \in [Op -> Operation] /\ op'[o] = x
      /\ \A p \in Op : p # o => op'[p] = op[p]
      /\ \A p \in Op : Placed(op'[p])
  BY <1>1, <1>2, <1>3, <1>4, OneMoves
<1>6. /\ config' \in ConfigState
      /\ config'.docs = config.docs /\ config'.loading
      /\ config'.busy = IF kind \in Busy THEN kind ELSE config.busy
      /\ config'.preview = config.preview /\ config'.markdown = config.markdown
      /\ config'.disturbed = (config.disturbed /\ ~(kind = "load" /\ UnderWay = {}))
      /\ config'.crossed = config.crossed
  <2>1. PICK b \in BOOLEAN : b = (config.disturbed /\ ~(kind = "load" /\ UnderWay = {}))
    OBVIOUS
  <2>2. PICK n \in Busy \cup {""} : n = IF kind \in Busy THEN kind ELSE config.busy
    BY <1>1, TypedFacts
  <2>3. config' = [config EXCEPT !.loading = TRUE, !.busy = n, !.disturbed = b]
    BY <2>1, <2>2 DEF Begin
  <2>4. config \in ConfigState
    BY <1>1, TypedFacts
  <2>5. /\ config' \in ConfigState
        /\ config'.docs = config.docs /\ config'.loading
        /\ config'.busy = n
        /\ config'.preview = config.preview /\ config'.markdown = config.markdown
        /\ config'.disturbed = b
        /\ config'.crossed = config.crossed
    BY <2>3, <2>4 DEF ConfigState
  <2> QED BY <2>1, <2>2, <2>5
<1>7. ConfigTyped'
  BY <1>1, <1>2, <1>5, <1>6 DEF ConfigTyped
<1>8. ListOK'
  <2>1. CASE config.disturbed /\ config'.disturbed
    BY <2>1 DEF ListOK
  <2>2. CASE ~config.disturbed
    <3>1. \A p \in Op : op'[p].pc = "listed" => op'[p].got = handbook'
      BY <1>1, <1>2, <1>3, <1>5, <2>2 DEF ListOK
    <3>2. ASSUME NEW p \in Op, op[p].pc \in {"list", "listed"}
          PROVE  op'[p].pc \in {"list", "listed"}
      BY <1>2, <1>5, <3>2
    <3> QED BY <1>1, <1>2, <1>6, <2>2, <3>1, <3>2 DEF ListOK
  <2>3. CASE kind = "load" /\ UnderWay = {}
    <3>1. \A p \in Op : p # o => op'[p].pc = "off"
      BY <1>5, <2>3 DEF UnderWay
    <3>2. op'[o].pc = "list"
      BY <1>3, <1>5, <2>3
    <3> QED BY <3>1, <3>2 DEF ListOK
  <2> QED BY <1>6, <2>1, <2>2, <2>3
<1>9. SpinnerOK'
  <2>1. op'[o].pc # "off" /\ op'[o].kind = kind /\ kind # "preview"
    BY <1>3, <1>5
  <2>2. \A p \in Op : op[p].pc # "off" => op'[p] = op[p]
    BY <1>2, <1>5
  <2> QED BY <1>1, <1>6, <2>1, <2>2 DEF SpinnerOK
<1>10. TextOK'
  BY <1>1, <1>2, <1>3, <1>5, <1>6 DEF TextOK
<1> QED BY <1>7, <1>8, <1>9, <1>10 DEF ConfigInv

\* The file of the form.
LEMMA FileKeeps ==
    ASSUME ConfigInv, AcceptFile \/ RemoveFile
    PROVE  ConfigInv'
<1>1. ConfigTyped /\ config \in ConfigState
  BY TypedFacts DEF ConfigInv
<1>2. PICK b \in BOOLEAN :
         config' = [config EXCEPT !.file = b] /\ UNCHANGED <<handbook, op>>
  BY DEF AcceptFile, RemoveFile
<1>3. /\ config' \in ConfigState
      /\ config'.docs = config.docs /\ config'.loading = config.loading
      /\ config'.busy = config.busy
      /\ config'.preview = config.preview /\ config'.markdown = config.markdown
      /\ config'.disturbed = config.disturbed
      /\ config'.crossed = config.crossed
  BY <1>1, <1>2 DEF ConfigState
<1>4. ConfigTyped' /\ ListOK'
  BY <1>2, <1>3 DEF ConfigInv, ConfigTyped, ListOK
<1>5. SpinnerOK'
  BY <1>2, <1>3 DEF ConfigInv, SpinnerOK
<1>6. TextOK'
  BY <1>2, <1>3 DEF ConfigInv, TextOK
<1> QED BY <1>4, <1>5, <1>6 DEF ConfigInv

\* The drawer is opened for a document whose text is on its way.
LEMMA DrawerOpens ==
    ASSUME ConfigInv, NEW o \in Op, NEW x \in Operation, Placed(x),
           x.pc = "markdown", x.doc \in Doc,
           op' = [op EXCEPT ![o] = x], UNCHANGED handbook,
           op[o].pc # "asked", op[o].pc # "markdown",
           config' \in ConfigState,
           config'.preview = x.doc, config'.markdown = NoDoc,
           ~config'.crossed =>
              Reads = {} /\ ~ \E p \in UnderWay : op[p].kind = "remove"
    PROVE  TextOK'
<1>1. /\ op'[o] = x
      /\ \A p \in Op : p # o => op'[p] = op[p]
  BY OneMoves DEF ConfigInv
<1>2. ASSUME ~config'.crossed
      PROVE  /\ \A p \in Op : op'[p].pc = "markdown" => p = o
             /\ \A p \in Op : ~(op'[p].kind = "remove" /\ op'[p].pc = "asked")
  BY <1>1, <1>2 DEF Reads, UnderWay
<1> QED BY <1>1, <1>2 DEF TextOK

\* The drawer is opened from a row of the list.
LEMMA PreviewKeeps ==
    ASSUME ConfigInv, NEW o \in Op, NEW d \in Doc, Preview(o, d)
    PROVE  ConfigInv'
<1> DEFINE x == [NoOp EXCEPT !.kind = "preview", !.doc = d, !.pc = "markdown"]
<1>1. ConfigTyped /\ ListOK /\ SpinnerOK /\ TextOK /\ config \in ConfigState
  BY TypedFacts DEF ConfigInv
<1>2. /\ op[o].pc = "off" /\ op' = [op EXCEPT ![o] = x] /\ UNCHANGED handbook
  BY DEF Preview
<1>3. x \in Operation /\ x.kind = "preview" /\ x.doc = d /\ x.pc = "markdown"
  BY DEF NoOp, Operation, Kind
<1> HIDE DEF x
<1>4. Placed(x)
  BY <1>3 DEF Placed
<1>5. /\ op' \in [Op -> Operation] /\ op'[o] = x
      /\ \A p \in Op : p # o => op'[p] = op[p]
      /\ \A p \in Op : Placed(op'[p])
  BY <1>1, <1>2, <1>3, <1>4, OneMoves
<1>6. PICK b \in BOOLEAN :
         b = (Reads # {} \/ \E p \in UnderWay : op[p].kind = "remove")
  OBVIOUS
<1>7. config' = [config EXCEPT !.preview = d, !.markdown = NoDoc, !.crossed = b]
  BY <1>6 DEF Preview, OpenDrawer
<1>8. /\ config' \in ConfigState
      /\ config'.docs = config.docs /\ config'.loading = config.loading
      /\ config'.busy = config.busy
      /\ config'.preview = d /\ config'.markdown = NoDoc
      /\ config'.disturbed = config.disturbed
      /\ config'.crossed = b
  BY <1>1, <1>7 DEF ConfigState
<1>9. ConfigTyped'
  BY <1>1, <1>2, <1>5, <1>8 DEF ConfigTyped
<1>10. \A p \in Op : op[p].pc # "off" => op'[p] = op[p]
  BY <1>2, <1>5
<1>11. ListOK'
  BY <1>1, <1>2, <1>3, <1>5, <1>8, <1>10 DEF ListOK
<1>12. SpinnerOK'
  BY <1>1, <1>3, <1>5, <1>8, <1>10 DEF SpinnerOK
<1>13. TextOK'
  <2>1. ~config'.crossed => Reads = {} /\ ~ \E p \in UnderWay : op[p].kind = "remove"
    BY <1>6, <1>8
  <2>2. x.doc \in Doc /\ config'.preview = x.doc
    BY <1>3, <1>8
  <2> QED BY <1>2, <1>3, <1>4, <1>8, <2>1, <2>2, DrawerOpens
<1> QED BY <1>9, <1>11, <1>12, <1>13 DEF ConfigInv

\* The drawer is closed, or what it shows is another administrator's doing.
LEMMA OutsideKeeps ==
    ASSUME ConfigInv, ClosePreview \/ \E d \in Doc : Elsewhere(d)
    PROVE  ConfigInv'
<1>1. ConfigTyped /\ ListOK /\ SpinnerOK /\ config \in ConfigState
  BY TypedFacts DEF ConfigInv
<1>2. UNCHANGED op
  BY DEF ClosePreview, Elsewhere
<1>3. CASE ClosePreview
  <2>1. /\ config' = [config EXCEPT !.preview = NoDoc, !.markdown = NoDoc, !.crossed = FALSE]
        /\ UNCHANGED handbook
    BY <1>3 DEF ClosePreview
  <2>2. /\ config' \in ConfigState
        /\ config'.docs = config.docs /\ config'.loading = config.loading
        /\ config'.busy = config.busy /\ config'.preview = NoDoc
        /\ config'.disturbed = config.disturbed
    BY <1>1, <2>1 DEF ConfigState
  <2> QED BY <1>1, <1>2, <2>1, <2>2
       DEF ConfigInv, ConfigTyped, ListOK, SpinnerOK, TextOK
<1>4. ASSUME NEW d \in Doc, Elsewhere(d)
      PROVE  ConfigInv'
  <2>1. PICK b \in BOOLEAN : b = (config.preview # NoDoc)
    OBVIOUS
  <2>2. /\ config' = [config EXCEPT !.disturbed = TRUE, !.crossed = b]
        /\ handbook' = [handbook EXCEPT ![d] = "gone"]
    BY <1>4, <2>1 DEF Elsewhere
  <2>3. /\ config' \in ConfigState
        /\ config'.loading = config.loading /\ config'.busy = config.busy
        /\ config'.preview = config.preview /\ config'.markdown = config.markdown
        /\ config'.disturbed
        /\ config'.crossed = b
    BY <1>1, <2>2 DEF ConfigState
  <2>4. handbook' \in Handbook
    BY <1>1, <2>2 DEF ConfigTyped, Handbook, DocStatus
  <2>5. ConfigTyped'
    BY <1>1, <1>2, <2>3, <2>4 DEF ConfigTyped
  <2>6. ListOK' /\ TextOK'
    BY <2>1, <2>3 DEF ListOK, TextOK
  <2>7. SpinnerOK'
    BY <1>1, <1>2, <2>3 DEF SpinnerOK
  <2> QED BY <2>5, <2>6, <2>7 DEF ConfigInv
<1> QED BY <1>3, <1>4

\* The API has read the list.
LEMMA ServeListKeeps ==
    ASSUME ConfigInv, NEW o \in Op, ServeList(o)
    PROVE  ConfigInv'
<1> DEFINE x == [op[o] EXCEPT !.pc = "listed", !.got = handbook]
<1>1. ConfigTyped /\ ListOK /\ SpinnerOK /\ TextOK
  BY DEF ConfigInv
<1>2. /\ op[o] \in Operation /\ Placed(op[o]) /\ handbook \in Handbook
      /\ op \in [Op -> Operation]
  BY <1>1, TypedFacts
<1>3. /\ op[o].pc = "list" /\ op' = [op EXCEPT ![o] = x] /\ UNCHANGED <<handbook, config>>
  BY <1>2 DEF ServeList
<1>4. /\ x \in Operation /\ x.kind = op[o].kind /\ x.doc = op[o].doc
      /\ x.pc = "listed" /\ x.got = handbook
  BY <1>2 DEF Operation
<1> HIDE DEF x
<1>5. Placed(x)
  BY <1>2, <1>3, <1>4 DEF Placed
<1>6. /\ op' \in [Op -> Operation] /\ op'[o] = x
      /\ \A p \in Op : p # o => op'[p] = op[p]
      /\ \A p \in Op : Placed(op'[p])
  BY <1>1, <1>3, <1>4, <1>5, OneMoves
<1>7. ConfigTyped'
  BY <1>1, <1>3, <1>6 DEF ConfigTyped
<1>8. ListOK'
  BY <1>1, <1>3, <1>4, <1>6 DEF ListOK
<1>9. SpinnerOK'
  BY <1>1, <1>3, <1>4, <1>6 DEF SpinnerOK
<1>10. TextOK'
  BY <1>1, <1>3, <1>4, <1>6 DEF TextOK
<1> QED BY <1>7, <1>8, <1>9, <1>10 DEF ConfigInv

\* What the API does keeps every other document as it is; only a search and
\* another reading change none.
LEMMA EffectFacts ==
    ASSUME handbook \in Handbook, NEW x \in Operation, Placed(x), x.pc = "asked"
    PROVE  /\ Effect(x) \in Handbook
           /\ x.kind = "search" => Effect(x) = handbook
           /\ \A d \in Doc : handbook[d] \in Listed /\ Effect(x)[d] \notin Listed =>
                 x.kind = "remove" /\ x.doc = d
<1>1. x.kind \in Kind /\ x.kind \notin {"load", "preview"}
      /\ (x.kind # "search" => x.doc \in Doc)
  BY DEF Operation, Placed
<1>2. CASE x.kind = "upload"
  BY <1>1, <1>2 DEF Effect, Handbook, DocStatus, Listed
<1>3. CASE x.kind = "publish"
  BY <1>1, <1>3 DEF Effect, Handbook, DocStatus, Listed
<1>4. CASE x.kind = "remove"
  BY <1>1, <1>4 DEF Effect, Handbook, DocStatus, Listed
<1>5. CASE x.kind \in {"reindex", "search"}
  BY <1>5 DEF Effect
<1> QED BY <1>1, <1>2, <1>3, <1>4, <1>5 DEF Kind

\* The flags at the end of an operation with a name in the header.
LEMMA EndKeepsSpinner ==
    ASSUME NEW o \in Op, ConfigTyped, SpinnerOK, End(o),
           config'.loading => config.loading /\ op[o].kind = "preview",
           config'.busy # "" => config.busy # "" /\ op[o].kind \notin Busy,
           config'.preview # NoDoc /\ config'.markdown = NoDoc =>
              config.preview # NoDoc /\ config.markdown = NoDoc /\ op[o].pc # "markdown"
    PROVE  SpinnerOK'
<1>1. \A p \in Op : p # o => op'[p] = op[p]
  BY NoOpFacts, OneMoves DEF End
<1>2. config'.loading => \E p \in Op : op'[p].pc # "off" /\ op'[p].kind # "preview"
  BY <1>1 DEF SpinnerOK
<1>3. config'.busy # "" => \E p \in Op : op'[p].pc # "off" /\ op'[p].kind \in Busy
  BY <1>1 DEF SpinnerOK
<1>4. config'.preview # NoDoc /\ config'.markdown = NoDoc =>
         \E p \in Op : op'[p].pc = "markdown"
  BY <1>1 DEF SpinnerOK
<1> QED BY <1>2, <1>3, <1>4 DEF SpinnerOK

\* What an answer does to the state of the tab.
LEMMA AnswerFields ==
    ASSUME ConfigTyped, NEW o \in Op, NEW done \in BOOLEAN, NEW ok \in BOOLEAN,
           Answer(o, done, ok)
    PROVE  LET changes == done /\ Effect(op[o]) # handbook
               cleared == op[o].kind = "remove" /\ op[o].seen = op[o].doc
               goesOn == ok /\ op[o].kind # "search"
           IN  /\ config' \in ConfigState
               /\ config'.docs = config.docs
               /\ config'.disturbed <=>
                     config.disturbed \/ (changes /\ (~ok \/ ListsOnTheWay # {}))
               /\ goesOn =>
                     /\ config'.loading /\ config'.busy = config.busy
                     /\ config'.preview = IF cleared THEN NoDoc ELSE config.preview
                     /\ config'.markdown = IF cleared THEN NoDoc ELSE config.markdown
                     /\ config'.crossed <=> config.crossed /\ ~cleared
               /\ ~goesOn =>
                     /\ ~config'.loading
                     /\ config'.busy = IF op[o].kind \in Busy THEN "" ELSE config.busy
                     /\ config'.preview = config.preview
                     /\ config'.markdown = config.markdown
                     /\ config'.crossed <=>
                           config.crossed \/ (changes /\ ~ok /\ config.preview # NoDoc)
<1> DEFINE changes == done /\ Effect(op[o]) # handbook
           cleared == op[o].kind = "remove" /\ op[o].seen = op[o].doc
           goesOn == ok /\ op[o].kind # "search"
           c == [config EXCEPT
                    !.disturbed = @ \/ (changes /\ (~ok \/ ListsOnTheWay # {})),
                    !.crossed = @ \/ (changes /\ ~ok /\ config.preview # NoDoc),
                    !.file = @ /\ ~(ok /\ op[o].kind = "upload")]
<1>1. goesOn => config' = [c EXCEPT !.loading = TRUE,
                                    !.preview = IF cleared THEN NoDoc ELSE @,
                                    !.markdown = IF cleared THEN NoDoc ELSE @,
                                    !.crossed = @ /\ ~cleared]
  BY DEF Answer
<1>2. ~goesOn => config' = [c EXCEPT !.loading = FALSE,
                                     !.busy = IF op[o].kind \in Busy THEN "" ELSE @]
  BY DEF Answer, Ended
<1>3. PICK b \in BOOLEAN, q \in BOOLEAN, f \in BOOLEAN :
         /\ b = (config.disturbed \/ (changes /\ (~ok \/ ListsOnTheWay # {})))
         /\ q = (config.crossed \/ (changes /\ ~ok /\ config.preview # NoDoc))
         /\ f = (config.file /\ ~(ok /\ op[o].kind = "upload"))
  OBVIOUS
<1>4. config \in ConfigState
  BY TypedFacts
<1>5. c = [config EXCEPT !.disturbed = b, !.crossed = q, !.file = f]
  BY <1>3
<1> HIDE DEF c
<1>6. /\ c \in ConfigState /\ c.docs = config.docs /\ c.loading = config.loading
      /\ c.busy = config.busy /\ c.preview = config.preview
      /\ c.markdown = config.markdown /\ c.disturbed = b
      /\ c.crossed = q
  BY <1>4, <1>5 DEF ConfigState
<1>7. /\ c.preview \in Doc \cup {NoDoc} /\ c.markdown \in Doc \cup {NoDoc}
      /\ c.busy \in Busy \cup {""}
  BY <1>6 DEF ConfigState
<1>8. CASE goesOn
  <2>1. PICK r \in BOOLEAN : r = (c.crossed /\ ~cleared)
    OBVIOUS
  <2>2. PICK v \in Doc \cup {NoDoc}, w \in Doc \cup {NoDoc} :
           /\ v = IF cleared THEN NoDoc ELSE c.preview
           /\ w = IF cleared THEN NoDoc ELSE c.markdown
    BY <1>7
  <2>3. config' = [c EXCEPT !.loading = TRUE, !.preview = v, !.markdown = w,
                            !.crossed = r]
    BY <1>1, <1>8, <2>1, <2>2
  <2>4. /\ config' \in ConfigState /\ config'.docs = c.docs /\ config'.loading
        /\ config'.busy = c.busy /\ config'.preview = v
        /\ config'.markdown = w /\ config'.disturbed = c.disturbed
        /\ config'.crossed = r
    BY <1>6, <2>3 DEF ConfigState
  <2>5. r <=> config.crossed /\ ~cleared
    BY <1>3, <1>6, <1>8, <2>1
  <2> QED BY <1>3, <1>6, <1>8, <2>2, <2>4, <2>5
<1>9. CASE ~goesOn
  <2>1. PICK n \in Busy \cup {""} : n = IF op[o].kind \in Busy THEN "" ELSE c.busy
    BY <1>7
  <2>2. config' = [c EXCEPT !.loading = FALSE, !.busy = n]
    BY <1>2, <1>9, <2>1
  <2>3. /\ config' \in ConfigState /\ config'.docs = c.docs /\ ~config'.loading
        /\ config'.busy = n /\ config'.preview = c.preview
        /\ config'.markdown = c.markdown /\ config'.disturbed = c.disturbed
        /\ config'.crossed = c.crossed
    BY <1>6, <2>2 DEF ConfigState
  <2> QED BY <1>3, <1>6, <1>9, <2>1, <2>3
<1> QED BY <1>8, <1>9

\* An operation is answered, or its answer lost.
LEMMA AnswerKeeps ==
    ASSUME ConfigInv, NEW o \in Op, NEW done \in BOOLEAN, NEW ok \in BOOLEAN,
           Answer(o, done, ok)
    PROVE  ConfigInv'
<1> DEFINE changes == done /\ Effect(op[o]) # handbook
           cleared == op[o].kind = "remove" /\ op[o].seen = op[o].doc
           goesOn == ok /\ op[o].kind # "search"
<1>1. ConfigTyped /\ ListOK /\ SpinnerOK /\ TextOK
  BY DEF ConfigInv
<1>2. /\ op[o] \in Operation /\ Placed(op[o]) /\ op[o].kind \in Kind
      /\ handbook \in Handbook /\ op \in [Op -> Operation]
      /\ config.preview \in Doc \cup {NoDoc} /\ config.markdown \in Doc \cup {NoDoc}
  BY <1>1, TypedFacts
<1>3. /\ op[o].pc = "asked" /\ (ok => done)
      /\ handbook' = IF done THEN Effect(op[o]) ELSE handbook
      /\ goesOn => op' = [op EXCEPT ![o].pc = "list"]
      /\ ~goesOn => End(o)
  BY DEF Answer
<1>4. op[o].kind \in Busy
  BY <1>2, <1>3 DEF Placed, Busy
<1>5. /\ handbook' \in Handbook
      /\ ~changes => handbook' = handbook
      /\ changes /\ op[o].kind = "search" => FALSE
      /\ \A d \in Doc : handbook[d] \in Listed /\ handbook'[d] \notin Listed =>
            op[o].kind = "remove" /\ op[o].doc = d
  BY <1>2, <1>3, EffectFacts
<1>6. CASE goesOn
  <2> DEFINE x == [op[o] EXCEPT !.pc = "list"]
  <2>1. op' = [op EXCEPT ![o] = x]
    BY <1>2, <1>3, <1>6
  <2>2. /\ x \in Operation /\ x.kind = op[o].kind /\ x.doc = op[o].doc
        /\ x.pc = "list" /\ x.seen = op[o].seen
    BY <1>2 DEF Operation
  <2> HIDE DEF x
  <2>3. Placed(x)
    BY <1>2, <1>4, <2>2 DEF Placed, Busy
  <2>4. /\ op' \in [Op -> Operation] /\ op'[o] = x
        /\ \A p \in Op : p # o => op'[p] = op[p]
        /\ \A p \in Op : Placed(op'[p])
    BY <1>1, <2>1, <2>2, <2>3, OneMoves
  <2>5. /\ config' \in ConfigState /\ config'.docs = config.docs
        /\ config'.disturbed <=> config.disturbed \/ (changes /\ ListsOnTheWay # {})
        /\ config'.loading /\ config'.busy = config.busy
        /\ config'.preview = IF cleared THEN NoDoc ELSE config.preview
        /\ config'.markdown = IF cleared THEN NoDoc ELSE config.markdown
        /\ config'.crossed <=> config.crossed /\ ~cleared
    BY <1>1, <1>6, AnswerFields
  <2> HIDE DEF changes, cleared
  <2>6. ConfigTyped'
    BY <1>5, <2>4, <2>5 DEF ConfigTyped
  <2>7. ListOK'
    <3>1. ASSUME ~config'.disturbed, NEW p \in Op, op'[p].pc = "listed"
          PROVE  op'[p].got = handbook'
      <4>1. p # o /\ op'[p] = op[p] /\ op[p].pc = "listed"
        BY <2>2, <2>4, <3>1
      <4>2. op[p].got = handbook
        BY <1>1, <2>5, <3>1, <4>1 DEF ListOK
      <4>3. ListsOnTheWay # {}
        BY <4>1 DEF ListsOnTheWay, UnderWay
      <4> QED BY <1>5, <2>5, <3>1, <4>1, <4>2, <4>3
    <3> QED BY <2>2, <2>4, <3>1 DEF ListOK
  <2>8. SpinnerOK'
    <3>1. op'[o].pc = "list" /\ op'[o].kind = op[o].kind /\ op[o].kind \in Busy
      BY <1>4, <2>2, <2>4
    <3>2. \A p \in Op : op[p].pc = "markdown" => op'[p].pc = "markdown"
      BY <1>3, <2>4
    <3>3. config'.preview # NoDoc /\ config'.markdown = NoDoc =>
             config.preview # NoDoc /\ config.markdown = NoDoc
      BY <2>5
    <3> QED BY <1>1, <2>5, <3>1, <3>2, <3>3 DEF SpinnerOK, Busy
  <2>9. TextOK'
    <3> SUFFICES ASSUME config'.preview # NoDoc, ~config'.crossed
                 PROVE  /\ config'.markdown \in {NoDoc, config'.preview}
                        /\ config'.markdown # NoDoc => handbook'[config'.preview] \in Listed
                        /\ \A p \in Op : op'[p].pc = "markdown" => op'[p].doc = config'.preview
                        /\ \A p \in Op : op'[p].kind = "remove" /\ op'[p].pc = "asked"
                                /\ op'[p].doc = config'.preview => op'[p].seen = op'[p].doc
      BY DEF TextOK
    <3>1. /\ ~cleared /\ ~config.crossed
          /\ config'.preview = config.preview /\ config'.markdown = config.markdown
          /\ config.preview # NoDoc /\ config.preview \in Doc
      BY <1>2, <2>5
    <3>2. \A p \in Op : op'[p].pc \in {"markdown", "asked"} => op'[p] = op[p]
      BY <2>2, <2>4
    <3>3. ~(op[o].kind = "remove" /\ op[o].doc = config.preview)
      BY <1>1, <1>3, <3>1 DEF TextOK, cleared
    <3>4. config.markdown # NoDoc => handbook'[config.preview] \in Listed
      BY <1>1, <1>5, <3>1, <3>3 DEF TextOK
    <3> QED BY <1>1, <3>1, <3>2, <3>4 DEF TextOK
  <2> QED BY <2>6, <2>7, <2>8, <2>9 DEF ConfigInv
<1>7. CASE ~goesOn
  <2>1. End(o) /\ op' = [op EXCEPT ![o] = NoOp]
    BY <1>3, <1>7 DEF End
  <2>2. /\ op' \in [Op -> Operation] /\ op'[o] = NoOp
        /\ \A p \in Op : p # o => op'[p] = op[p]
        /\ \A p \in Op : Placed(op'[p])
    BY <1>1, <2>1, NoOpFacts, OneMoves
  <2>3. /\ config' \in ConfigState /\ config'.docs = config.docs
        /\ config'.disturbed <=>
              config.disturbed \/ (changes /\ (~ok \/ ListsOnTheWay # {}))
        /\ ~config'.loading /\ config'.busy = ""
        /\ config'.preview = config.preview /\ config'.markdown = config.markdown
        /\ config'.crossed <=>
              config.crossed \/ (changes /\ ~ok /\ config.preview # NoDoc)
    BY <1>1, <1>4, <1>7, AnswerFields
  <2>4. changes => ~ok
    BY <1>5, <1>7
  <2> HIDE DEF changes
  <2>5. ConfigTyped'
    BY <1>5, <2>2, <2>3 DEF ConfigTyped
  <2>6. ListOK'
    <3>1. ~config'.disturbed => handbook' = handbook /\ ~config.disturbed
      BY <1>5, <2>3, <2>4
    <3>2. \A p \in Op : op'[p].pc = "listed" => op'[p] = op[p]
      BY <2>2, NoOpFacts
    <3>3. \A p \in Op : op[p].pc \in {"list", "listed"} => op'[p] = op[p]
      BY <1>3, <2>2
    <3> QED BY <1>1, <2>3, <3>1, <3>2, <3>3 DEF ListOK
  <2>7. SpinnerOK'
    BY <1>1, <1>3, <2>1, <2>3, EndKeepsSpinner
  <2>8. TextOK'
    <3>1. config'.preview # NoDoc /\ ~config'.crossed =>
             handbook' = handbook /\ ~config.crossed /\ config.preview # NoDoc
      BY <1>5, <2>3, <2>4
    <3>2. \A p \in Op : op'[p].pc \in {"markdown", "asked"} => op'[p] = op[p]
      BY <2>2, NoOpFacts
    <3> QED BY <1>1, <2>3, <3>1, <3>2 DEF TextOK
  <2> QED BY <2>5, <2>6, <2>7, <2>8 DEF ConfigInv
<1> QED BY <1>6, <1>7

\* The list is shown, or is not to be had.
LEMMA ShowListKeeps ==
    ASSUME ConfigInv, NEW o \in Op, NEW ok \in BOOLEAN, ShowList(o, ok)
    PROVE  ConfigInv'
<1> DEFINE c == IF ok THEN [config EXCEPT !.docs = op[o].got]
                      ELSE [config EXCEPT !.disturbed = TRUE]
<1>1. ConfigTyped /\ ListOK /\ SpinnerOK /\ TextOK
  BY DEF ConfigInv
<1>2. /\ op[o] \in Operation /\ Placed(op[o]) /\ op[o].kind \in Kind
      /\ op[o].got \in Handbook \cup {NotAsked}
      /\ config \in ConfigState /\ op \in [Op -> Operation]
  BY <1>1, TypedFacts
<1>3. op[o].pc = "listed" /\ UNCHANGED handbook /\ Listing(o, c)
  BY DEF ShowList
<1>4. /\ c \in ConfigState
      /\ c.docs = (IF ok THEN op[o].got ELSE config.docs)
      /\ c.disturbed = (IF ok THEN config.disturbed ELSE TRUE)
      /\ c.loading = config.loading /\ c.busy = config.busy
      /\ c.preview = config.preview /\ c.markdown = config.markdown
      /\ c.crossed = config.crossed
  BY <1>2 DEF ConfigState
<1> HIDE DEF c
<1>5. op[o].kind # "preview"
  BY <1>2, <1>3 DEF Placed
<1>6. ~c.disturbed => c.docs = handbook /\ ~config.disturbed
  BY <1>1, <1>3, <1>4 DEF ListOK
<1>7. CASE op[o].kind = "upload"
  <2> DEFINE x == [op[o] EXCEPT !.pc = "markdown", !.got = NotAsked]
             e == [c EXCEPT !.loading = FALSE]
  <2>1. op' = [op EXCEPT ![o] = x]
    BY <1>2, <1>3, <1>7 DEF Listing
  <2>2. config' = OpenDrawer(e, op[o].doc)
    BY <1>3, <1>7 DEF Listing
  <2>3. op[o].doc \in Doc
    BY <1>2, <1>7 DEF Placed
  <2>4. /\ x \in Operation /\ x.kind = op[o].kind /\ x.doc = op[o].doc /\ x.pc = "markdown"
    BY <1>2 DEF Operation
  <2>5. /\ e \in ConfigState /\ ~e.loading
        /\ e.docs = c.docs /\ e.disturbed = c.disturbed /\ e.busy = c.busy
    BY <1>4 DEF ConfigState
  <2> HIDE DEF x, e
  <2>6. PICK r \in BOOLEAN :
           r = (Reads # {} \/ \E p \in UnderWay : op[p].kind = "remove")
    OBVIOUS
  <2>7. config' = [e EXCEPT !.preview = op[o].doc, !.markdown = NoDoc, !.crossed = r]
    BY <2>2, <2>6 DEF OpenDrawer
  <2>8. /\ config' \in ConfigState /\ ~config'.loading
        /\ config'.docs = c.docs /\ config'.disturbed = c.disturbed
        /\ config'.busy = config.busy
        /\ config'.preview = op[o].doc /\ config'.markdown = NoDoc /\ config'.crossed = r
    BY <1>4, <2>3, <2>5, <2>7 DEF ConfigState
  <2>9. Placed(x)
    BY <1>7, <2>3, <2>4 DEF Placed
  <2>10. /\ op' \in [Op -> Operation] /\ op'[o] = x
         /\ \A p \in Op : p # o => op'[p] = op[p]
         /\ \A p \in Op : Placed(op'[p])
    BY <1>1, <2>1, <2>4, <2>9, OneMoves
  <2>11. ConfigTyped'
    BY <1>1, <1>3, <2>8, <2>10 DEF ConfigTyped
  <2>12. ListOK'
    <3>1. \A p \in Op : op'[p].pc = "listed" => op'[p] = op[p]
      BY <2>4, <2>10
    <3> QED BY <1>1, <1>3, <1>6, <2>8, <3>1 DEF ListOK
  <2>13. SpinnerOK'
    BY <1>1, <1>3, <2>4, <2>8, <2>10 DEF SpinnerOK
  <2>14. TextOK'
    <3>1. ~config'.crossed => Reads = {} /\ ~ \E p \in UnderWay : op[p].kind = "remove"
      BY <2>6, <2>8
    <3>2. x.doc \in Doc /\ config'.preview = x.doc
      BY <2>3, <2>4, <2>8
    <3>3. op[o].pc # "asked" /\ op[o].pc # "markdown"
      BY <1>3
    <3> QED BY <1>3, <2>1, <2>4, <2>8, <2>9, <3>1, <3>2, <3>3, DrawerOpens
  <2> QED BY <2>11, <2>12, <2>13, <2>14 DEF ConfigInv
<1>8. CASE op[o].kind # "upload"
  <2>1. /\ End(o) /\ op' = [op EXCEPT ![o] = NoOp]
        /\ config' = Ended(o, c)
    BY <1>3, <1>8 DEF Listing, End
  <2>2. PICK n \in Busy \cup {""} : n = IF op[o].kind \in Busy THEN "" ELSE c.busy
    BY <1>4 DEF ConfigState
  <2>3. config' = [c EXCEPT !.loading = FALSE, !.busy = n]
    BY <2>1, <2>2 DEF Ended
  <2>4. /\ config' \in ConfigState /\ ~config'.loading
        /\ config'.docs = c.docs /\ config'.disturbed = c.disturbed /\ config'.busy = n
        /\ config'.preview = config.preview /\ config'.markdown = config.markdown
        /\ config'.crossed = config.crossed
    BY <1>4, <2>3 DEF ConfigState
  <2>5. /\ op' \in [Op -> Operation] /\ op'[o] = NoOp
        /\ \A p \in Op : p # o => op'[p] = op[p]
        /\ \A p \in Op : Placed(op'[p])
    BY <1>1, <2>1, NoOpFacts, OneMoves
  <2>6. ConfigTyped'
    BY <1>1, <1>3, <2>4, <2>5 DEF ConfigTyped
  <2>7. \A p \in Op : op'[p].pc # "off" => op'[p] = op[p]
    BY <2>5, NoOpFacts
  <2>8. ListOK'
    BY <1>1, <1>3, <1>6, <2>4, <2>7 DEF ListOK
  <2>9. SpinnerOK'
    <3>1. config'.busy # "" => config.busy # "" /\ op[o].kind \notin Busy
      BY <1>4, <2>2, <2>4
    <3>2. config'.preview # NoDoc /\ config'.markdown = NoDoc =>
             config.preview # NoDoc /\ config.markdown = NoDoc /\ op[o].pc # "markdown"
      BY <1>3, <2>4
    <3> QED BY <1>1, <2>1, <2>4, <3>1, <3>2, EndKeepsSpinner
  <2>10. TextOK'
    <3>1. \A p \in Op : op'[p].pc \in {"markdown", "asked"} => op'[p] = op[p]
      BY <2>7
    <3> QED BY <1>1, <1>3, <2>4, <3>1 DEF TextOK
  <2> QED BY <2>6, <2>8, <2>9, <2>10 DEF ConfigInv
<1> QED BY <1>7, <1>8

\* The text is shown, or is not to be had.
LEMMA ShowMarkdownKeeps ==
    ASSUME ConfigInv, NEW o \in Op, NEW ok \in BOOLEAN, ShowMarkdown(o, ok)
    PROVE  ConfigInv'
<1> DEFINE c == IF ok THEN [config EXCEPT !.markdown = op[o].doc]
                      ELSE [config EXCEPT !.preview = NoDoc, !.crossed = FALSE]
<1>1. ConfigTyped /\ ListOK /\ SpinnerOK /\ TextOK
  BY DEF ConfigInv
<1>2. /\ op[o] \in Operation /\ Placed(op[o]) /\ config \in ConfigState
      /\ op \in [Op -> Operation]
  BY <1>1, TypedFacts
<1>3. /\ op[o].pc = "markdown" /\ UNCHANGED handbook
      /\ ok => handbook[op[o].doc] \in Listed
      /\ config' = IF op[o].kind = "upload" THEN Ended(o, c) ELSE c
      /\ End(o) /\ op' = [op EXCEPT ![o] = NoOp]
  BY DEF ShowMarkdown, End
<1>4. op[o].kind \in {"upload", "preview"} /\ op[o].doc \in Doc /\ op[o].doc # NoDoc
  BY <1>2, <1>3, DocAssumption DEF Placed
<1>5. /\ c \in ConfigState
      /\ c.docs = config.docs /\ c.disturbed = config.disturbed
      /\ c.loading = config.loading /\ c.busy = config.busy
      /\ ok => /\ c.preview = config.preview /\ c.markdown = op[o].doc
               /\ c.crossed = config.crossed
      /\ ~ok => c.preview = NoDoc
  <2>1. CASE ok
    BY <1>2, <1>4, <2>1 DEF ConfigState
  <2>2. CASE ~ok
    BY <1>2, <2>2 DEF ConfigState
  <2> QED BY <2>1, <2>2
<1> HIDE DEF c
<1>6. /\ config' \in ConfigState
      /\ config'.docs = config.docs /\ config'.disturbed = config.disturbed
      /\ config'.preview = c.preview /\ config'.markdown = c.markdown
      /\ config'.crossed = c.crossed
      /\ op[o].kind = "upload" =>
            ~config'.loading /\ config'.busy = ""
      /\ op[o].kind = "preview" =>
            /\ config'.loading = config.loading /\ config'.busy = config.busy
  <2>1. CASE op[o].kind = "preview"
    BY <1>3, <1>5, <2>1
  <2>2. CASE op[o].kind = "upload"
    <3>1. "upload" \in Busy
      BY DEF Busy, Kind
    <3>2. config' = [c EXCEPT !.loading = FALSE, !.busy = ""]
      BY <1>3, <2>2, <3>1 DEF Ended
    <3> QED BY <1>5, <2>2, <3>2 DEF ConfigState
  <2> QED BY <1>4, <2>1, <2>2
<1>7. /\ op' \in [Op -> Operation] /\ op'[o] = NoOp
      /\ \A p \in Op : p # o => op'[p] = op[p]
      /\ \A p \in Op : Placed(op'[p])
  BY <1>1, <1>3, NoOpFacts, OneMoves
<1>8. \A p \in Op : op'[p].pc # "off" => op'[p] = op[p]
  BY <1>7, NoOpFacts
<1>9. ConfigTyped'
  BY <1>1, <1>3, <1>6, <1>7 DEF ConfigTyped
<1>10. ListOK'
  <2>1. \A p \in Op : op[p].pc \in {"list", "listed"} => op'[p] = op[p]
    BY <1>3, <1>7
  <2> QED BY <1>1, <1>3, <1>6, <1>8, <2>1 DEF ListOK
<1>11. SpinnerOK'
  <2>1. "preview" \notin Busy
    BY DEF Busy
  <2>2. config'.loading => config.loading /\ op[o].kind = "preview"
    BY <1>4, <1>6
  <2>3. config'.busy # "" => config.busy # "" /\ op[o].kind \notin Busy
    BY <1>4, <1>6, <2>1
  <2>4. ~(config'.preview # NoDoc /\ config'.markdown = NoDoc)
    BY <1>4, <1>5, <1>6
  <2> QED BY <1>1, <1>3, <2>2, <2>3, <2>4, EndKeepsSpinner
<1>12. TextOK'
  <2>1. CASE ~ok
    BY <1>5, <1>6, <2>1 DEF TextOK
  <2>2. CASE ok
    <3>1. config'.preview # NoDoc /\ ~config'.crossed =>
             /\ config.preview # NoDoc /\ ~config.crossed
             /\ config'.preview = config.preview
             /\ config'.markdown = config.preview
             /\ handbook'[config.preview] \in Listed
      BY <1>1, <1>3, <1>5, <1>6, <2>2 DEF TextOK
    <3>2. \A p \in Op : op'[p].pc \in {"markdown", "asked"} => op'[p] = op[p]
      BY <1>8
    <3> QED BY <1>1, <3>1, <3>2 DEF TextOK
  <2> QED BY <2>1, <2>2
<1> QED BY <1>9, <1>10, <1>11, <1>12 DEF ConfigInv

\* The tab that is mounted, or not.
LEMMA ConfigurationMounts ==
    /\ ConfigurationUnmounted => ConfigInv
    /\ UnmountConfiguration => ConfigInv'
    /\ \A o \in Op : MountConfiguration(o) => ConfigInv'
<1>1. /\ NewConfig \in ConfigState
      /\ NewConfig.docs = NotAsked /\ ~NewConfig.loading /\ NewConfig.busy = ""
      /\ NewConfig.preview = NoDoc
  BY DEF NewConfig, ConfigState
<1>2. [d \in Doc |-> "unknown"] \in Handbook
  BY DEF Handbook, DocStatus
<1>3. ConfigurationUnmounted => ConfigInv
  <2> SUFFICES ASSUME ConfigurationUnmounted PROVE ConfigInv
    OBVIOUS
  <2>1. /\ handbook \in Handbook /\ config = NewConfig
        /\ op \in [Op -> Operation] /\ \A o \in Op : op[o] = NoOp
    BY <1>2, NoOpFacts DEF ConfigurationUnmounted
  <2>2. ConfigTyped /\ SpinnerOK
    BY <1>1, <2>1, NoOpFacts DEF ConfigTyped, SpinnerOK
  <2>3. ListOK /\ TextOK
    BY <1>1, <2>1, NoOpFacts DEF ListOK, TextOK
  <2> QED BY <2>2, <2>3 DEF ConfigInv
<1>4. UnmountConfiguration => ConfigInv'
  <2> SUFFICES ASSUME UnmountConfiguration PROVE ConfigInv'
    OBVIOUS
  <2>1. /\ handbook' \in Handbook /\ config' = NewConfig
        /\ op' \in [Op -> Operation] /\ \A o \in Op : op'[o] = NoOp
    BY <1>2, NoOpFacts DEF UnmountConfiguration
  <2>2. ConfigTyped' /\ SpinnerOK'
    BY <1>1, <2>1, NoOpFacts DEF ConfigTyped, SpinnerOK
  <2>3. ListOK' /\ TextOK'
    BY <1>1, <2>1, NoOpFacts DEF ListOK, TextOK
  <2> QED BY <2>2, <2>3 DEF ConfigInv
<1>5. ASSUME NEW o \in Op, MountConfiguration(o)
      PROVE  ConfigInv'
  <2> DEFINE x == [NoOp EXCEPT !.pc = "list"]
  <2>1. x \in Operation /\ x.kind = "load" /\ x.pc = "list" /\ x.got = NotAsked
    BY NoOpFacts DEF NoOp, Operation
  <2>2. /\ handbook' \in [Doc -> DocStatus \ {"gone"}]
        /\ config' = [NewConfig EXCEPT !.loading = TRUE]
        /\ op' = [p \in Op |-> IF p = o THEN x ELSE NoOp]
    BY <1>5 DEF MountConfiguration
  <2> HIDE DEF x
  <2>3. /\ op' \in [Op -> Operation] /\ op'[o] = x
        /\ \A p \in Op : p # o => op'[p] = NoOp
    BY <2>1, <2>2, NoOpFacts
  <2>4. /\ config' \in ConfigState /\ config'.docs = NotAsked /\ config'.busy = ""
        /\ config'.preview = NoDoc
    BY <1>1, <2>2 DEF ConfigState
  <2>5. handbook' \in Handbook
    BY <2>2 DEF Handbook
  <2>6. \A p \in Op : Placed(op'[p])
    BY <2>1, <2>3, NoOpFacts DEF Placed
  <2>7. ConfigTyped'
    BY <2>3, <2>4, <2>5, <2>6 DEF ConfigTyped
  <2>8. SpinnerOK'
    BY <2>1, <2>3, <2>4 DEF SpinnerOK
  <2>9. ListOK' /\ TextOK'
    BY <2>1, <2>3, <2>4, NoOpFacts DEF ListOK, TextOK
  <2> QED BY <2>7, <2>8, <2>9 DEF ConfigInv
<1> QED BY <1>3, <1>4, <1>5

\* Whatever an operation does next.
LEMMA OpStepKeeps ==
    ASSUME ConfigInv, NEW o \in Op, OpStep(o)
    PROVE  ConfigInv'
BY ServeListKeeps, AnswerKeeps, ShowListKeeps, ShowMarkdownKeeps DEF OpStep

\* Every step of the configuration tab.
LEMMA ConfigurationStep ==
    ASSUME ConfigInv, ConfigurationNext
    PROVE  ConfigInv'
<1>1. ASSUME NEW o \in Op, RefreshList(o) \/ Search(o)
      PROVE  ConfigInv'
  <2>1. PICK kind \in {"load", "search"} : Begin(o, kind, NoDoc)
    BY <1>1 DEF RefreshList, Search
  <2>2. kind \in Kind \ {"preview"}
    BY DEF Kind
  <2>3. PICK d \in Doc \cup {NoDoc} : d = NoDoc
    OBVIOUS
  <2>4. Begin(o, kind, d)
    BY <2>1, <2>3
  <2> QED BY <2>2, <2>4, BeginKeeps
<1>2. ASSUME NEW o \in Op, NEW d \in Doc,
             Upload(o, d) \/ Publish(o, d) \/ Reindex(o, d) \/ Remove(o, d)
      PROVE  ConfigInv'
  <2>1. PICK kind \in {"upload", "publish", "reindex", "remove"} : Begin(o, kind, d)
    BY <1>2 DEF Upload, Publish, Reindex, Remove
  <2>2. kind \in Kind \ {"preview"}
    BY DEF Kind
  <2>3. d \in Doc \cup {NoDoc}
    OBVIOUS
  <2> QED BY <2>1, <2>2, <2>3, BeginKeeps
<1>3. ASSUME AcceptFile \/ RemoveFile PROVE ConfigInv'
  BY <1>3, FileKeeps
<1>4. ASSUME ClosePreview \/ \E d \in Doc : Elsewhere(d) PROVE ConfigInv'
  BY <1>4, OutsideKeeps
<1>5. ASSUME NEW o \in Op, OpStep(o) PROVE ConfigInv'
  BY <1>5, OpStepKeeps
<1>6. ASSUME NEW o \in Op, NEW d \in Doc, Preview(o, d) PROVE ConfigInv'
  BY <1>6, PreviewKeeps
<1> QED BY <1>1, <1>2, <1>3, <1>4, <1>5, <1>6 DEF ConfigurationNext

\* And every step of the other tab.
LEMMA ConfigurationStays == ConfigInv /\ UNCHANGED configVars => ConfigInv'
<1> SUFFICES ASSUME ConfigInv, UNCHANGED configVars PROVE ConfigInv'
  OBVIOUS
<1>1. UNCHANGED <<handbook, config, op>>
  BY DEF configVars
<1>2. ConfigTyped' /\ ListOK' /\ SpinnerOK'
  BY <1>1 DEF ConfigInv, ConfigTyped, ListOK, SpinnerOK
<1>3. TextOK'
  BY <1>1 DEF ConfigInv, TextOK
<1> QED BY <1>2, <1>3 DEF ConfigInv

-----------------------------------------------------------------------------
(***************************************************************************)
(* The frame, and the theorems                                             *)
(***************************************************************************)
LEMMA FrameKeeps ==
    ASSUME AppType,
           \/ SignedIn \/ SignInFailed \/ SignOut \/ UNCHANGED app
           \/ \E tab \in Tab : SelectTab(tab)
    PROVE  AppType'
<1> DEFINE AppState == [ ready : BOOLEAN, error : BOOLEAN, me : Role \cup {NoOne}, tab : Tab ]
<1>1. app \in AppState
  BY DEF AppType
<1>2. CASE SignedIn
  <2>1. CASE \E role \in Role : app' = [app EXCEPT !.ready = TRUE, !.me = role]
    BY <1>1, <2>1 DEF AppType
  <2>2. CASE app' = [app EXCEPT !.ready = TRUE, !.error = TRUE]
    BY <1>1, <2>2 DEF AppType
  <2> QED BY <1>2, <2>1, <2>2 DEF SignedIn
<1>3. CASE SignInFailed
  BY <1>1, <1>3 DEF SignInFailed, AppType
<1>4. CASE SignOut
  BY <1>4 DEF SignOut, Booting, AppType, Tab
<1>5. CASE UNCHANGED app
  BY <1>5 DEF AppType
<1>6. ASSUME NEW tab \in Tab, SelectTab(tab) PROVE AppType'
  BY <1>1, <1>6 DEF SelectTab, AppType
<1> QED BY <1>2, <1>3, <1>4, <1>5, <1>6

\* The invariant holds before the boot.
LEMMA InitInv == Init => IInv
<1>1. app = Booting => AppType
  BY DEF Booting, AppType, Tab
<1> QED BY <1>1, DashboardInit, ConfigurationMounts DEF Init, IInv

\* And every step keeps it.
LEMMA NextInv == IInv /\ [Next]_vars => IInv'
<1> SUFFICES ASSUME IInv, [Next]_vars PROVE IInv'
  OBVIOUS
<1>1. AppType /\ DashInv /\ ConfigInv
  BY DEF IInv
<1>2. "configuration" \in Tab /\ "dashboard" \in Tab
  BY DEF Tab
<1>3. CASE Boot
  BY <1>1, <1>3, FrameKeeps, MountKeeps, ConfigurationStays DEF Boot, IInv
<1>4. CASE ToConfiguration
  BY <1>1, <1>2, <1>4, FrameKeeps, MountKeeps, ConfigurationMounts DEF ToConfiguration, IInv
<1>5. CASE ToDashboard
  BY <1>1, <1>2, <1>5, FrameKeeps, MountKeeps, ConfigurationMounts DEF ToDashboard, IInv
<1>6. CASE LeavePage
  BY <1>1, <1>6, FrameKeeps, MountKeeps, ConfigurationMounts DEF LeavePage, IInv
<1>7. CASE DashboardNext /\ UNCHANGED <<app, configVars>>
  BY <1>1, <1>7, FrameKeeps, DashboardStep, ConfigurationStays DEF IInv
<1>8. CASE ConfigurationNext /\ UNCHANGED <<app, dashVars>>
  BY <1>1, <1>8, FrameKeeps, DashboardStays, ConfigurationStep DEF IInv
<1>9. CASE UNCHANGED vars
  BY <1>1, <1>9, FrameKeeps, DashboardStays, ConfigurationStays DEF vars, IInv
<1> QED BY <1>3, <1>4, <1>5, <1>6, <1>7, <1>8, <1>9 DEF Next

\* The invariant from which the others follow holds of every tab that is
\* mounted, whatever is under way in it (App.tsx, DashboardTab.tsx,
\* ConfigurationTab.tsx).
THEOREM Invariance == Spec => []IInv
BY InitInv, NextInv, PTL DEF Spec

\* The types of the frame and both tabs; and the controls of the dashboard are
\* disabled exactly while a load is under way (DashboardTab.tsx, load).
THEOREM TypeCorrect == Spec => []TypeOK
<1>1. IInv => TypeOK
  <2> SUFFICES ASSUME IInv PROVE TypeOK
    OBVIOUS
  <2>1. AppType /\ DashTyped /\ ConfigTyped
    BY DEF IInv, DashInv, ConfigInv
  <2>2. DOMAIN dash = DOMAIN NewDash(NoRange)
    BY <2>1 DEF DashTyped, DashState, NewDash
  <2>3. dash.loading \in BOOLEAN /\ (dash.loading <=> load # NotLoading)
    BY <2>1, LoadIsSome DEF DashTyped, DashState
  <2>4. DashboardType
    BY <2>1, <2>2, <2>3 DEF DashboardType, DashTyped, DashState
  <2>5. ConfigurationType
    BY <2>1 DEF ConfigurationType, ConfigTyped, ConfigState, Operation, Handbook
  <2> QED BY <2>1, <2>4, <2>5 DEF TypeOK
<1> QED BY <1>1, Invariance, PTL

\* What is on the screen belongs together, however the answers cross: figures,
\* chart, list, dates and selector of the dashboard; the transcript, and the
\* text of a document, and the title of the drawer they are in
\* (DashboardTab.tsx, openTranscript; ConfigurationTab.tsx, openMarkdown).
THEOREM ScreenIsAlwaysHonest == Spec => []ScreenIsHonest
<1>1. IInv => ScreenIsHonest
  <2> SUFFICES ASSUME IInv PROVE ScreenIsHonest
    OBVIOUS
  <2>1. /\ DashTyped /\ PeriodOK /\ SelectorOK /\ PageOK /\ TranscriptOK
        /\ ConfigTyped /\ SpinnerOK /\ TextOK
    BY DEF IInv, DashInv, ConfigInv
  <2>2. OnePeriod
    BY <2>1 DEF OnePeriod, PeriodOK
  <2>3. SelectorIsTrue
    BY <2>1 DEF SelectorIsTrue, SelectorOK, OfPeriod, DashTyped
  <2>4. PageIsTrue
    <3>1. dash.sessions.total \in Nat /\ dash.offset \in Nat /\ PageSize \in Nat \ {0}
      BY <2>1, PageSizeAssumption DEF DashTyped, DashState, SessionList
    <3> QED BY <2>1, <3>1 DEF PageIsTrue, PageOK, Smaller
  <2>5. TranscriptIsOfDrawer
    BY <2>1 DEF TranscriptIsOfDrawer, TranscriptOK
  <2>6. PreviewIsOfDrawer
    <3>1. UnderWay = {} => \A o \in Op : op[o].pc = "off"
      BY DEF UnderWay
    <3> QED BY <2>1, <3>1 DEF PreviewIsOfDrawer, SpinnerOK, TextOK
  <2> QED BY <2>2, <2>3, <2>4, <2>5, <2>6 DEF ScreenIsHonest, DashboardAgrees, DrawersAreHonest
<1> QED BY <1>1, Invariance, PTL

\* When nothing is under way the list is the API's, although every operation
\* lists for itself (ConfigurationTab.tsx, load).
THEOREM QuietListIsAlwaysCurrent == Spec => []QuietListIsCurrent
<1>1. IInv => QuietListIsCurrent
  <2> SUFFICES ASSUME IInv, UnderWay = {}, ~config.disturbed, config.docs # NotAsked
               PROVE  config.docs = handbook
    BY DEF QuietListIsCurrent
  <2>1. \A o \in Op : op[o].pc = "off"
    BY DEF UnderWay
  <2> QED BY <2>1 DEF IInv, ConfigInv, ListOK
<1> QED BY <1>1, Invariance, PTL

\* No spinner turns for nothing, although the operations share their flags
\* (ConfigurationTab.tsx, the finally of each).
THEOREM SpinnersAlwaysMeanWork == Spec => []SpinnersMeanWork
<1>1. IInv => SpinnersMeanWork
  BY DEF IInv, ConfigInv, SpinnerOK, SpinnersMeanWork, Holding, Reads, UnderWay
<1> QED BY <1>1, Invariance, PTL
=============================================================================
