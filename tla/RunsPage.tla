------------------------------ MODULE RunsPage ------------------------------
(***************************************************************************)
(* The list of runs: the rows of the index and of the runs in progress,    *)
(* the filters kept in the URL, and the two modes in which rows are        *)
(* chosen, to compare runs or to delete them. The rows are polled, so they *)
(* change under the user's choices.                                        *)
(***************************************************************************)
EXTENDS RunLists

CONSTANTS
    RunSeq,        \* the runs, in the index's order
    RunRows,       \* run -> its final row: [client, image, strategy, suite,
                   \*        status, total, passed, labels, start, span, steps]
    LiveRows,      \* run -> [passed, failed] as last reported by its runner
    SuiteLabels,   \* suite -> its labels; a key of its own stands for the name
    RunSizes, DefaultRunSize, MostCompared, FewestCompared,
    MaxRunsChanged, \* bounds: parameters of the URL away from their default,
    WhileChoosing,  \* those that change while rows are chosen,
    Moving,         \* the runs that the server changes by itself,
    MaxInPlay       \* and the runs chosen and asked to be deleted at a time

ASSUME RunsAssumption ==
    /\ RunSeq \in Seq(DOMAIN RunRows)
    /\ RunSizes \subseteq Nat \ {0} /\ DefaultRunSize \in RunSizes
    /\ MostCompared \in Nat

VARIABLES
    runsSrv,       \* run -> "live", "early" (indexed while in progress),
                   \*        "indexed", "doomed" or "queued" for deletion from
                   \*        these two, or "gone"
    runsIndex,     \* the index last fetched: run -> stage; None while loading
    runsLive,      \* the runs in progress, as last polled
    runsSuites,    \* suites whose summary has been fetched
    runsUrl, runsDrop, \* the search parameters; the label key being edited
    runsMode,      \* [mode, chosen, anchor]
    runsAsked      \* the runs whose deletion was asked and not answered

runsVars == <<runsSrv, runsIndex, runsLive, runsSuites, runsUrl, runsDrop, runsMode, runsAsked>>

AllRuns == DOMAIN RunRows
Underway == {"live", "early", "doomed"}
Queued == {"doomed", "queued"}
Indexed == {"early", "indexed"} \cup Queued
RunsPicked == {"client", "image", "suite", "strategy"}

DefaultRunsUrl ==
    [page |-> 1, size |-> DefaultRunSize, status |-> "all", sortBy |-> "timestamp",
     dir |-> "desc", steps |-> {"test"}, labels |-> NoChoices, suiteLabels |-> NoChoices,
     client |-> None, image |-> None, suite |-> None, strategy |-> None]

RunsTypeOK ==
    /\ DOMAIN runsSrv = AllRuns /\ runsLive \subseteq AllRuns
    /\ runsIndex # None => DOMAIN runsIndex \subseteq AllRuns
    /\ runsSuites \subseteq DOMAIN SuiteLabels
    /\ runsUrl.page \in Nat \ {0} /\ runsUrl.size \in RunSizes
    /\ runsUrl.status \in RunStatuses /\ runsUrl.sortBy \in RunColumns
    /\ runsUrl.steps # {} /\ runsUrl.steps \subseteq RunSteps
    /\ runsMode.mode \in {"off", "compare", "delete"} /\ runsMode.chosen \subseteq AllRuns
    /\ runsAsked \subseteq AllRuns

-----------------------------------------------------------------------------
(* The rows. *)

InIndex(r) == r \in DOMAIN runsIndex
\* What is shown of r: a run in progress has no times and no gas; once it is
\* indexed it has no status either, and no test that has passed.
Row(r) ==
    LET begun == [steps |-> <<>>, span |-> 0] @@ RunRows[r]
    IN IF ~InIndex(r) THEN Over([status |-> "running"], LiveRows[r] @@ begun)
       ELSE IF runsIndex[r] \in Underway THEN [status |-> None, passed |-> 0] @@ begun
       ELSE RunRows[r]

Selectable(r) == Ended(Row(r)) /\ (InIndex(r) => runsIndex[r] \notin Queued)

\* Runs in progress come first, unless they are indexed already.
MergedRuns ==
    IF runsIndex = None THEN <<>>
    ELSE Among(RunSeq, runsLive \ DOMAIN runsIndex) \o Among(RunSeq, DOMAIN runsIndex)

\* Suites without a summary match no filter on their labels.
SuiteAllowed(s) ==
    runsUrl.suiteLabels = NoChoices
      \/ (s \in runsSuites /\ LabelsAllow(runsUrl.suiteLabels, SuiteLabels[s]))

RunMatches(r) ==
    /\ \A p \in RunsPicked : runsUrl[p] \in {None, RunRows[r][p]}
    /\ StatusAllows(runsUrl.status, Row(r))
    /\ SuiteAllowed(RunRows[r].suite)
    /\ LabelsAllow(runsUrl.labels, RunRows[r].labels)

RunBefore(a, b) == RowBefore(Row(a), Row(b), runsUrl)

RunsMatching == Among(MergedRuns, {r \in AllRuns : RunMatches(r)})
RunsShown == Sorted(RunsMatching, RunBefore)
RunsOnPage == PageOf(RunsShown, runsUrl.page, runsUrl.size)
RunsLoaded == runsIndex # None /\ runsIndex # <<>>
\* The table, its modes and its pages are there when the page has a row.
TableShown == RunsLoaded /\ PageOf(RunsMatching, runsUrl.page, runsUrl.size) # <<>>

-----------------------------------------------------------------------------
(* The URL. A click anywhere else closes the open label. Every parameter but the page goes back to the first page. *)

\* Bound: while runs are chosen, and once one that does not move was deleted, the list
\* changes only in what WhileChoosing names.
Idle ==
    /\ runsMode.mode = "off" /\ runsAsked = {}
    /\ \A r \in AllRuns \ Moving : runsSrv[r] = "indexed"
RunsChanged(u) == {p \in DOMAIN DefaultRunsUrl : u[p] # DefaultRunsUrl[p]}
RunsTurn(url, drop) ==
    /\ \E new \in {url} : \E changed \in {RunsChanged(new)} :
          /\ Cardinality(changed) <= MaxRunsChanged /\ (~Idle => changed \subseteq WhileChoosing)
          /\ runsUrl' = new
    /\ runsDrop' = drop
    /\ UNCHANGED <<runsSrv, runsIndex, runsLive, runsSuites, runsMode, runsAsked>>
RunsGo(url) == RunsTurn(url, None)

\* An option of a dropdown: a value some indexed run has, or all of them.
PickFilter == \E p \in RunsPicked :
    /\ RunsLoaded
    /\ \E v \in {None} \cup {RunRows[r][p] : r \in DOMAIN runsIndex} :
         /\ p = "suite" /\ v # None => SuiteAllowed(v)
         /\ RunsGo([runsUrl EXCEPT ![p] = v, !.page = 1])

\* From the dropdown, or the indicator of the runs in progress.
PickStatus ==
    /\ RunsLoaded
    /\ \/ \E s \in RunStatuses : RunsGo([runsUrl EXCEPT !.status = s, !.page = 1])
       \/ /\ runsLive # {}
          /\ RunsGo([runsUrl EXCEPT !.status = IF @ = "running" THEN "all" ELSE "running",
                                    !.page = 1])

TurnRunsPage ==
    /\ TableShown
    /\ \/ \E p \in PageLinks(runsUrl.page, PageCount(RunsMatching, runsUrl.size)) :
            RunsGo([runsUrl EXCEPT !.page = p])
       \/ \E n \in RunSizes : RunsGo([runsUrl EXCEPT !.page = 1, !.size = n])

ClickColumn ==
    /\ TableShown
    /\ \E c \in RunColumns :
         RunsGo([runsUrl EXCEPT !.page = 1, !.sortBy = c,
                                !.dir = IF runsUrl.sortBy = c THEN Flip(@) ELSE "desc"])

\* All steps are written as none, and none are read as the default.
StepsReadBack(steps) == IF steps = RunSteps THEN DefaultRunsUrl.steps ELSE steps

ClickStep == \E steps \in {StepsReadBack(s) : s \in StepToggles(runsUrl.steps)} :
    RunsLoaded /\ RunsGo([runsUrl EXCEPT !.page = 1, !.steps = steps])

\* The filters on labels: of the runs, or of their suites but for the name.
LabelSets(which) ==
    IF which = "labels" THEN {RunRows[r].labels : r \in DOMAIN runsIndex}
    ELSE {SuiteLabels[s] : s \in {h \in runsSuites : \E r \in DOMAIN runsIndex :
                                    RunRows[r].suite = h}}
LabelKeys(which) == UNION {DOMAIN l : l \in LabelSets(which)}

\* A chip opens its values, or closes them; the button offers the other keys.
OpenLabel == \E which \in {"labels", "suiteLabels"}, k \in {"team", "net"} :
    /\ RunsLoaded
    /\ k \in LabelKeys(which) \cup DOMAIN runsUrl[which]
    /\ runsDrop' = IF runsDrop = <<which, k>> THEN None ELSE <<which, k>>
    /\ UNCHANGED <<runsSrv, runsIndex, runsLive, runsSuites, runsUrl, runsMode, runsAsked>>

ChooseLabel ==
    /\ RunsLoaded /\ runsDrop # None
    /\ LET which == runsDrop[1]  k == runsDrop[2]
       IN \E v \in {l[k] : l \in {x \in LabelSets(which) : k \in DOMAIN x}} :
            RunsTurn([runsUrl EXCEPT ![which] = ToggleValue(@, k, v), !.page = 1], runsDrop)

RemoveLabel == \E which \in {"labels", "suiteLabels"} : \E k \in DOMAIN runsUrl[which] :
    /\ RunsLoaded
    /\ RunsGo([runsUrl EXCEPT ![which] = WithoutLabel(@, k), !.page = 1])

-----------------------------------------------------------------------------
(* The modes. *)

SetMode(mode, chosen, anchor) ==
    /\ runsMode' = [mode |-> mode, chosen |-> chosen,
                    anchor |-> IF chosen = {} THEN None ELSE anchor]
    /\ runsAsked # {} => Cardinality(chosen) + Cardinality(runsAsked) <= MaxInPlay
    /\ runsDrop' = None
    /\ UNCHANGED <<runsSrv, runsIndex, runsLive, runsSuites, runsUrl, runsAsked>>

\* A button of the toolbar enters a mode, from any other, or leaves it.
EnterMode ==
    /\ TableShown /\ RunsChanged(runsUrl) \subseteq WhileChoosing
    /\ runsSuites = DOMAIN SuiteLabels   \* bound: the suites' summaries are there
    /\ \E m \in {"compare", "delete"} :
         SetMode(IF runsMode.mode = m THEN "off" ELSE m, {}, None)

CancelMode ==
    /\ runsMode.mode # "off"
    /\ SetMode("off", {}, None)

\* handleSelectionChange: a comparison takes the first runs there is room for.
WithRuns(ids, on) ==
    IF ~on THEN runsMode.chosen \ ToSet(ids)
    ELSE IF runsMode.mode = "delete" THEN runsMode.chosen \cup ToSet(ids)
    ELSE Taken(runsMode.chosen, ids, MostCompared)

\* Mutant of RunsBetween: a range takes every row.
EveryRunBetween(a, b) == Between(RunsOnPage, a, b)
RunsBetween(a, b) == Among(Between(RunsOnPage, a, b), {r \in AllRuns : Selectable(r)})

\* A click on a row; with Shift, on the rows from the anchor to it, if the
\* anchor is on this page. The anchor counts while something is chosen.
ChooseRun ==
    /\ TableShown /\ runsMode.mode # "off"
    /\ \E rows \in {ToSet(RunsOnPage)} : \E r \in rows, shift \in BOOLEAN :
         LET on == r \notin runsMode.chosen
             a == runsMode.anchor
             ranged == shift /\ a # None /\ a \in rows \ {r}
         IN /\ Selectable(r)
            /\ SetMode(runsMode.mode,
                       WithRuns(IF ranged THEN RunsBetween(a, r) ELSE <<r>>, on),
                       IF ranged THEN a ELSE r)

CanCompare == runsMode.mode = "compare" /\ Cardinality(runsMode.chosen) >= FewestCompared

-----------------------------------------------------------------------------
(* Deletion. *)

ConfirmDelete ==
    /\ runsMode.mode = "delete" /\ runsMode.chosen # {} /\ runsAsked = {}
    /\ 2 * Cardinality(runsMode.chosen) <= MaxInPlay
    /\ runsAsked' = runsMode.chosen
    /\ UNCHANGED <<runsSrv, runsIndex, runsLive, runsSuites, runsUrl, runsDrop, runsMode>>

\* Mutant of AnswerMode: the choice is not dropped.
AnswerModeStays == IF runsMode.mode = "delete" THEN [runsMode EXCEPT !.mode = "off"]
                   ELSE runsMode
\* Whatever mode the user is in by now, the answer ends the deletion mode.
AnswerMode == IF runsMode.mode = "delete" THEN [runsMode EXCEPT !.mode = "off", !.chosen = {}, !.anchor = None]
              ELSE runsMode

SnapshotOf(srv) == [r \in {x \in AllRuns : srv[x] \in Indexed} |-> srv[r]]

\* The server queues the runs it has in its index; the index is fetched again.
DeleteAnswers(ok) ==
    LET queued == [r \in AllRuns |->
            IF r \notin runsAsked \/ runsSrv[r] \notin Indexed THEN runsSrv[r]
            ELSE IF runsSrv[r] \in Underway THEN "doomed" ELSE "queued"]
    IN /\ runsAsked # {} /\ runsAsked' = {}
       /\ IF ok THEN /\ runsSrv' = queued /\ runsIndex' = SnapshotOf(queued)
                     /\ runsMode' = AnswerMode
          ELSE UNCHANGED <<runsSrv, runsIndex, runsMode>>
       /\ UNCHANGED <<runsLive, runsSuites, runsUrl, runsDrop>>

-----------------------------------------------------------------------------
(* The server, and the polls. *)

\* Bound: a run deleted while in progress is not reported again.
Stages(r) ==
    CASE runsSrv[r] = "live"    -> {"early", "indexed"}
      [] runsSrv[r] = "early"   -> {"indexed", "doomed"}
      [] runsSrv[r] = "doomed"  -> {"early", "queued", "gone"}
      [] runsSrv[r] = "indexed" -> {"queued"}
      [] runsSrv[r] = "queued"  -> {"indexed", "gone"}
      [] OTHER                  -> {}

RunMoves == \E r \in Moving : \E s \in Stages(r) :
    /\ runsSrv' = [runsSrv EXCEPT ![r] = s]
    /\ UNCHANGED <<runsIndex, runsLive, runsSuites, runsUrl, runsDrop, runsMode, runsAsked>>

PollIndex ==
    /\ runsIndex' = SnapshotOf(runsSrv)
    /\ UNCHANGED <<runsSrv, runsLive, runsSuites, runsUrl, runsDrop, runsMode, runsAsked>>

PollLiveRuns ==
    /\ runsLive' = {r \in AllRuns : runsSrv[r] \in Underway}
    /\ UNCHANGED <<runsSrv, runsIndex, runsSuites, runsUrl, runsDrop, runsMode, runsAsked>>

\* The summaries of the suites that indexed runs belong to.
FetchSuite == \E s \in DOMAIN SuiteLabels \ runsSuites :
    /\ Idle /\ runsIndex # None /\ \E r \in DOMAIN runsIndex : RunRows[r].suite = s
    /\ runsSuites' = runsSuites \cup {s}
    /\ UNCHANGED <<runsSrv, runsIndex, runsLive, runsUrl, runsDrop, runsMode, runsAsked>>

-----------------------------------------------------------------------------
RunsInit ==
    /\ runsSrv = [r \in AllRuns |-> IF r \in Moving THEN "live" ELSE "indexed"]
    /\ runsIndex = None /\ runsLive = {} /\ runsSuites = {}
    /\ runsUrl = DefaultRunsUrl /\ runsDrop = None
    /\ runsMode = [mode |-> "off", chosen |-> {}, anchor |-> None] /\ runsAsked = {}

RunsNext ==
    \/ Idle /\ (\/ PickFilter \/ PickStatus \/ ClickColumn \/ ClickStep
                \/ OpenLabel \/ ChooseLabel \/ RemoveLabel)
    \/ TurnRunsPage \/ EnterMode \/ CancelMode \/ ChooseRun
    \/ ConfirmDelete \/ (\E ok \in BOOLEAN : DeleteAnswers(ok))
    \/ RunMoves \/ PollIndex \/ PollLiveRuns \/ FetchSuite

RunsSpec == RunsInit /\ [][RunsNext]_runsVars

-----------------------------------------------------------------------------
(* Properties. *)

\* A run that only its runner's reports tell of is never chosen nor asked to be
\* deleted, by click or by range, however the polls of the two lists interleave
\* (RunsTable.tsx isEntrySelectable, handleRowSelect; RunsPage.tsx mergedEntries).
ChosenAreIndexed == \A r \in runsMode.chosen \cup runsAsked : runsSrv[r] # "live"

RunsChoice == INSTANCE RunChoice WITH
    mode <- runsMode.mode, chosen <- runsMode.chosen, Runs <- AllRuns, Most <- MostCompared

\* The list of runs keeps what RunChoice promises, in whatever order clicks,
\* ranges, the modes, polls and answers to deletions come (RunsPage.tsx
\* handleSelectionChange and the two modes; RunsTable.tsx ranges).
RunsChoiceKept == RunsChoice!ChoiceSpec
=============================================================================
