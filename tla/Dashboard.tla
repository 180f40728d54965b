----------------------------- MODULE Dashboard -----------------------------
(***************************************************************************)
(* The dashboard of the admin console (DashboardTab.tsx): one period of    *)
(* conversations as summary, trends and pages of sessions, and the drawer  *)
(* with a transcript.                                                      *)
(*                                                                         *)
(* Dates are numbers.  Of an answer the model keeps the period it is of,   *)
(* and of a page of sessions how many it has of how many; charts, figures, *)
(* formats and error banners are left out.  Of the API's data the tab may  *)
(* rely on one thing: conversations of a period do not become fewer.       *)
(***************************************************************************)
EXTENDS AdminShell, Functions

CONSTANTS
    Preset,         \* the presets of the period selector
    PageSize,       \* PAGE_SIZE
    MaxDay,         \* bound: the days there are
    MaxChats,       \* bound: conversations users have
    MaxReads        \* bound: requests for transcripts under way at a time

ASSUME PresetAssumption == Preset \subseteq {"1d", "7d", "30d"} /\ "30d" \in Preset
ASSUME PageSizeAssumption == PageSize \in Nat \ {0}
ASSUME DayAssumption == {MaxDay, MaxChats, MaxReads} \subseteq Nat \ {0}

VARIABLES
    today,      \* the date
    dash,       \* the state of the tab
    load,       \* the load under way
    reading     \* Session -> how many requests for its transcript are under way

dashVars == <<today, dash, load, reading>>

-----------------------------------------------------------------------------
(***************************************************************************)
(* Data                                                                    *)
(***************************************************************************)
Date == 1..MaxDay
Session == 1..MaxChats

PresetDays(period) == CASE period = "1d" -> 1 [] period = "7d" -> 7 [] OTHER -> 30

RangeForPreset(period, day) == <<day - PresetDays(period) + 1, day>>

NoReading == [s \in Session |-> 0]

\* The sessions whose transcripts are on their way.
Awaited == {s \in Session : reading[s] > 0}

NoRange == <<>>
NoSessions == [range |-> NoRange, offset |-> 0, total |-> 0, items |-> 0]

Smaller(a, b) == IF a < b THEN a ELSE b

\* The API's page of the sessions of a period, from offset on.
SessionLists(range, offset) ==
    LET known == IF dash.sessions.range = range THEN dash.sessions.total ELSE 0
    IN  { [ range |-> range, offset |-> offset, total |-> total,
            items |-> IF offset >= total THEN 0 ELSE Smaller(PageSize, total - offset) ] :
          total \in known..MaxChats }

NotLoading == <<>>

\* The tab before its first answer.  For the properties: half, that a load
\* failed between its answers; unheard, that the load of a chosen period failed;
\* crossed, the transcripts that were on their way when the drawer was opened.
NewDash(range) ==
    [ period |-> "30d", range |-> range, offset |-> 0,
      summary |-> NoRange, trends |-> NoRange, sessions |-> NoSessions, loading |-> FALSE,
      drawer |-> 0, transcript |-> 0, transcriptLoading |-> FALSE,
      half |-> FALSE, unheard |-> FALSE, crossed |-> {} ]

-----------------------------------------------------------------------------
(***************************************************************************)
(* Loading a period                                                        *)
(***************************************************************************)

\* A period that ends before it begins is refused at once.
StartLoad(d, range, offset, choice) ==
    IF range[2] < range[1]
    THEN /\ dash' = d
         /\ UNCHANGED load
    ELSE /\ dash' = [d EXCEPT !.loading = TRUE]
         /\ load' = [range |-> range, offset |-> offset, choice |-> choice]

\* Mutant: the controls stay disabled.
Shown_StillLoading(got) ==
    [dash EXCEPT !.summary = load.range, !.trends = load.range, !.sessions = got,
                 !.offset = load.offset, !.range = load.range,
                 !.half = FALSE, !.unheard = @ /\ ~load.choice]

Shown(got) ==
    [dash EXCEPT !.summary = load.range, !.trends = load.range, !.sessions = got,
                 !.offset = load.offset, !.range = load.range, !.loading = FALSE,
                 !.half = FALSE, !.unheard = @ /\ ~load.choice]

ShowAnswers(got) ==
    /\ load # NotLoading
    /\ dash' = Shown(got)
    /\ load' = NotLoading
    /\ UNCHANGED <<today, reading>>

\* The three answers are put on the screen one by one, each after an await: the
\* second or third may fail when the first are there.
LoadFailed(shown) ==
    /\ load # NotLoading
    /\ shown = 0 \/ AuthHeaders
    /\ dash' = [dash EXCEPT !.summary = IF shown > 0 THEN load.range ELSE @,
                            !.trends = IF shown > 1 THEN load.range ELSE @,
                            !.loading = FALSE,
                            !.half = @ \/ shown > 0,
                            !.unheard = @ \/ (load.choice /\ dash.period # "custom")]
    /\ load' = NotLoading
    /\ UNCHANGED <<today, reading>>

-----------------------------------------------------------------------------
(***************************************************************************)
(* The controls, disabled while a load is under way                        *)
(***************************************************************************)

\* Mutant: the page of the old period is asked for.
ApplyPreset_KeepPage(period) ==
    /\ ~dash.loading
    /\ period # dash.period
    /\ StartLoad([dash EXCEPT !.period = period], RangeForPreset(period, today), dash.offset, TRUE)
    /\ UNCHANGED <<today, reading>>

ApplyPreset(period) ==
    /\ ~dash.loading
    /\ period # dash.period
    /\ StartLoad([dash EXCEPT !.period = period], RangeForPreset(period, today), 0, TRUE)
    /\ UNCHANGED <<today, reading>>

\* "Custom dates" only opens the fields.
OpenCustomDates ==
    /\ ~dash.loading
    /\ dash.period # "custom"
    /\ dash' = [dash EXCEPT !.period = "custom", !.unheard = FALSE]
    /\ UNCHANGED <<today, load, reading>>

\* The dates as they stand in the fields.
ApplyCustomRange(range) ==
    /\ ~dash.loading
    /\ dash.period = "custom"
    /\ StartLoad(dash, range, 0, TRUE)
    /\ UNCHANGED <<today, reading>>

RefreshDashboard ==
    /\ ~dash.loading
    /\ StartLoad(dash, dash.range, dash.offset, FALSE)
    /\ UNCHANGED <<today, reading>>

PageEnd == Smaller(dash.offset + dash.sessions.items, dash.sessions.total)

Previous ==
    /\ ~dash.loading
    /\ dash.sessions.total # 0
    /\ dash.offset # 0
    /\ StartLoad(dash, dash.range,
                 IF dash.offset > PageSize THEN dash.offset - PageSize ELSE 0, FALSE)
    /\ UNCHANGED <<today, reading>>

NextPage ==
    /\ ~dash.loading
    /\ dash.sessions.total # 0
    /\ PageEnd < dash.sessions.total
    /\ StartLoad(dash, dash.range, dash.offset + PageSize, FALSE)
    /\ UNCHANGED <<today, reading>>

-----------------------------------------------------------------------------
(***************************************************************************)
(* The transcript                                                          *)
(***************************************************************************)

\* The rows are disabled neither by a load nor by another transcript, and the
\* drawer keeps the keyboard from nothing: the same row may be opened, closed
\* and opened again, and each time is a request of its own.
OpenTranscript(s) ==
    /\ dash.sessions.items # 0
    /\ FoldFunction(+, 0, reading) < MaxReads
    /\ reading' = [reading EXCEPT ![s] = @ + 1]
    /\ dash' = [dash EXCEPT !.drawer = s, !.transcript = 0, !.transcriptLoading = TRUE,
                            !.crossed = Awaited]
    /\ UNCHANGED <<today, load>>

GetTranscript(s) ==
    /\ s \in Awaited
    /\ dash' = [dash EXCEPT !.transcript = s, !.transcriptLoading = FALSE]
    /\ reading' = [reading EXCEPT ![s] = @ - 1]
    /\ UNCHANGED <<today, load>>

\* Whichever transcript it was, the drawer is closed.
TranscriptFailed(s) ==
    /\ s \in Awaited
    /\ dash' = [dash EXCEPT !.drawer = 0, !.transcriptLoading = FALSE, !.crossed = {}]
    /\ reading' = [reading EXCEPT ![s] = @ - 1]
    /\ UNCHANGED <<today, load>>

CloseTranscript ==
    /\ dash.drawer # 0
    /\ dash' = [dash EXCEPT !.drawer = 0, !.transcript = 0, !.crossed = {}]
    /\ UNCHANGED <<today, load, reading>>

-----------------------------------------------------------------------------
(***************************************************************************)
(* The tab as a whole                                                      *)
(***************************************************************************)
NextDay ==
    /\ today < MaxDay
    /\ today' = today + 1
    /\ UNCHANGED <<dash, load, reading>>

DashboardUnmounted ==
    /\ today = 1
    /\ dash = NewDash(RangeForPreset("30d", 1))
    /\ load = NotLoading
    /\ reading = NoReading

\* The state of the component, and the load of its first effect.
MountDashboard ==
    /\ today' \in Date
    /\ dash' = [NewDash(RangeForPreset("30d", today')) EXCEPT !.loading = TRUE]
    /\ load' = [range |-> RangeForPreset("30d", today'), offset |-> 0, choice |-> FALSE]
    /\ reading' = NoReading

UnmountDashboard ==
    /\ today' = 1
    /\ dash' = NewDash(RangeForPreset("30d", 1))
    /\ load' = NotLoading
    /\ reading' = NoReading

LoadStep ==
    \/ \E shown \in 0..2 : LoadFailed(shown)
    \/ /\ load # NotLoading
       /\ AuthHeaders
       /\ \E got \in SessionLists(load.range, load.offset) : ShowAnswers(got)

TranscriptStep(s) == TranscriptFailed(s) \/ (AuthHeaders /\ GetTranscript(s))

DashboardNext ==
    \/ LoadStep
    \/ \E period \in Preset : ApplyPreset(period)
    \/ OpenCustomDates
    \/ \E range \in Date \X Date : ApplyCustomRange(range)
    \/ RefreshDashboard
    \/ Previous
    \/ NextPage
    \/ \E s \in Session : OpenTranscript(s) \/ TranscriptStep(s)
    \/ CloseTranscript
    \/ NextDay

-----------------------------------------------------------------------------
(***************************************************************************)
(* Properties                                                              *)
(***************************************************************************)
DashboardType ==
    /\ today \in Date
    /\ DOMAIN dash = DOMAIN NewDash(NoRange)
    /\ dash.period \in Preset \cup {"custom"}
    /\ dash.loading = (load # NotLoading)
    /\ dash.drawer \in Session \cup {0}
    /\ dash.crossed \subseteq Session
    /\ reading \in [Session -> Nat]

\* The list of conversations is of the dates over it, whatever failed; the
\* figures and the chart are of the same period, unless a load failed between
\* its answers.
OnePeriod ==
    ~dash.loading =>
        /\ dash.sessions.range \in {NoRange, dash.range}
        /\ ~dash.half => {dash.summary, dash.trends} = {dash.sessions.range}

\* The period selector says which period that is, unless the load it started
\* failed.
SelectorIsTrue ==
    ~dash.loading /\ ~dash.unheard /\ dash.period # "custom" =>
        dash.range[2] - dash.range[1] + 1 = PresetDays(dash.period)

\* The page of conversations is the one the footer names, and never an empty
\* one of a list that is not empty.
PageIsTrue ==
    dash.sessions.total > 0 =>
        /\ dash.sessions.items > 0
        /\ dash.sessions.offset = dash.offset

\* What the dashboard shows belongs together.
DashboardAgrees == OnePeriod /\ SelectorIsTrue /\ PageIsTrue

\* The transcript in the drawer is that of the conversation it is titled with,
\* or one that was already on its way when the drawer was opened: what was asked
\* for and answered before is never shown under a later title.  And while the
\* drawer is still empty, its own transcript is on its way.
TranscriptIsOfDrawer ==
    dash.drawer # 0 =>
        IF dash.transcript = 0 THEN dash.transcriptLoading /\ dash.drawer \in Awaited
        ELSE dash.transcript \in {dash.drawer} \cup dash.crossed
=============================================================================
