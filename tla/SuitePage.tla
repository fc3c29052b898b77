----------------------------- MODULE SuitePage -----------------------------
(***************************************************************************)
(* The page of a suite: its tabs, and the tab of its runs with the recent  *)
(* runs of every client, the charts, the links to comparisons, and the     *)
(* table in which runs are chosen. What the page shows is kept in the URL; *)
(* every handler names the parameters it keeps.                            *)
(***************************************************************************)
EXTENDS RunLists

CONSTANTS
    SuiteRows,      \* run of the suite -> its row, with instance and queued
    SuiteIndexes,   \* the runs of the suite as one poll after another has them
    PreRunSteps,    \* the paths of the files of the suite's pre-run steps
    SuiteSizes, DefaultSuiteSize,
    MostBoxes,      \* the runs of a client on the heatmap
    Shades,         \* the colours of a scale
    LinkMost, LinkFewest,  \* the runs of a comparison
    SuiteTogether,  \* bounds: one parameter is away from its default, or those
                    \*        of one of these sets;
    SuiteMayAsk,    \*        the runs that may be asked to be deleted;
    MostPages       \*        beyond the last page the arrow leads on and on

\* The labels of all runs of the suite.
LabelsKnown == UNION {DOMAIN SuiteRows[r].labels : r \in DOMAIN SuiteRows}

ASSUME SuiteAssumption ==
    /\ SuiteIndexes \in Seq(Seq(DOMAIN SuiteRows))
    /\ \A runs \in ToSet(SuiteIndexes) : \A i, j \in DOMAIN runs : runs[i] = runs[j] => i = j
    /\ \A r \in DOMAIN SuiteRows : SuiteRows[r].start \in Int
    /\ LinkMost \in Nat /\ MostBoxes \in Nat
    /\ SuiteSizes \subseteq Nat \ {0} /\ DefaultSuiteSize \in SuiteSizes
    /\ \A keys \in SUBSET (LabelsKnown \cup {"instance_id"}) : keys # None

VARIABLES
    suiteIndex,     \* the number of the poll that is shown; 0 while loading
    suiteUrl,
    suiteView,      \* choices that are not in the URL
    suiteMode       \* [mode, chosen, anchor, asked]; an anchor is the run clicked
                    \*        last in the table, with the mode it was clicked in

suiteVars == <<suiteIndex, suiteUrl, suiteView, suiteMode>>

SuiteRunsKnown == DOMAIN SuiteRows
Tabs == {"runs", "tests", "pre_run_steps", "source"}
SuiteColumns == {"timestamp", "mgas", "failed"}
HeatmapCounts == {1, 2}    \* runs per client, and sizes of its pages

ListParams == [tab |-> "runs", client |-> None, image |-> None, status |-> "all",
               sortBy |-> "timestamp", dir |-> "desc"]
FilterParams == [steps |-> {"test"}, labels |-> NoChoices, groupBy |-> None]
ChartParams == [chartMode |-> "runCount", passingOnly |-> TRUE, heatColor |-> "suite"]
FileParams == [q |-> <<>>, filesPage |-> 1, testView |-> "general", psort |-> None,
               psOrder |-> "index", psEncoding |-> "ssz"]
DialogParams == [detail |-> None, opcodeSort |-> "name"]
HeatParams == [showName |-> FALSE, regex |-> FALSE, full |-> FALSE, stat |-> "avg",
               clientStat |-> FALSE, threshold |-> None, perClient |-> 2, heatSize |-> 2]
DefaultSuiteUrl ==
    Over(ListParams, Over(FilterParams, Over(ChartParams,
      Over(FileParams, Over(DialogParams, HeatParams)))))
DefaultSuiteView == [page |-> 1, size |-> DefaultSuiteSize, heatOpen |-> TRUE, metric |-> "mgas",
                     chartOpen |-> TRUE, chartStep |-> "test",
                     clients |-> {}, chartLabels |-> NoChoices]

SuiteTypeOK ==
    /\ suiteIndex \in 0..Len(SuiteIndexes)
    /\ DOMAIN suiteUrl = DOMAIN DefaultSuiteUrl /\ suiteUrl.tab \in Tabs
    /\ suiteUrl.steps # {} /\ suiteUrl.steps \subseteq RunSteps
    /\ suiteUrl.filesPage \in Nat \ {0} /\ suiteView.page \in Nat \ {0}
    /\ suiteMode.mode \in {"off", "compare", "delete"}
    /\ suiteMode.chosen \cup suiteMode.asked \subseteq SuiteRunsKnown
    /\ suiteMode.anchor # None => suiteMode.anchor[1] \in SuiteRunsKnown

-----------------------------------------------------------------------------
(* The runs, and the keys they are grouped by. *)

SuiteRuns == IF suiteIndex = 0 THEN <<>> ELSE SuiteIndexes[suiteIndex]
GroupLabels == UNION {DOMAIN SuiteRows[r].labels : r \in ToSet(SuiteRuns)}

\* groupBy: None stands for every label, the empty set for no grouping.
ParsedKeys(param) ==
    IF param = None THEN GroupLabels ELSE param \cap (GroupLabels \cup {"instance_id"})
\* Mutant of KeysParam: as many keys as there are labels is the default.
KeysParamByNumber(keys) ==
    IF keys # {} /\ Cardinality(keys) = Cardinality(GroupLabels) THEN None ELSE keys
KeysParam(keys) == IF keys # {} /\ keys = GroupLabels THEN None ELSE keys
GroupKeys == ParsedKeys(suiteUrl.groupBy)

GroupValue(r, k) ==
    IF k = "instance_id" THEN SuiteRows[r].instance
    ELSE IF k \in DOMAIN SuiteRows[r].labels THEN SuiteRows[r].labels[k] ELSE "(none)"
GroupOf(r, keys) == [k \in keys |-> GroupValue(r, k)]

ClientOf(r) == SuiteRows[r].client
\* A run without a status counts as completed.
Completed(r) == SuiteRows[r].status \in {None, "completed"}
Newest(s) == Downwards(s, [r \in DOMAIN SuiteRows |-> SuiteRows[r].start])

-----------------------------------------------------------------------------
(* Recent runs by client. *)

\* The sections: one for each group of runs.
Sections == IF GroupKeys = {} THEN {[k \in {} |-> 0]}
            ELSE {GroupOf(r, GroupKeys) : r \in ToSet(SuiteRuns)}
BoxesOf(section, c) ==
    LET own == Newest(Among(SuiteRuns, {r \in ToSet(SuiteRuns) :
                  ClientOf(r) = c /\ GroupOf(r, GroupKeys) = section}))
    IN SubSeq(own, 1, Min({MostBoxes, Len(own)}))
ClientsIn(section) ==
    {ClientOf(r) : r \in {x \in ToSet(SuiteRuns) : GroupOf(x, GroupKeys) = section}}

\* What a box is measured by, in whole units; 0 stands for none.
Measure(r) ==
    LET gas == SumOf(SuiteRows[r], suiteUrl.steps, "gas")
        time == SumOf(SuiteRows[r], suiteUrl.steps, "time")
    IN IF suiteView.metric = "duration" THEN time
       ELSE IF time <= 0 THEN 0 ELSE gas \div time
Measures(s) == Kept([i \in DOMAIN s |-> Measure(s[i])], LAMBDA v : v > 0)
\* min, max, sum, count, p95, p99 and the newest, in the column of statistics.
ClientStats(section, c) ==
    LET all == Measures(BoxesOf(section, c))
        up == Ascending(all)
    IN IF all = <<>> THEN None
       ELSE [min |-> Head(up), max |-> Last(up), sum |-> FoldSeq(+, 0, all), count |-> Len(all),
             p95 |-> Percentile(up, 95), p99 |-> Percentile(up, 99), last |-> Head(all)]

\* The runs the scale of the suite is made of: every box without grouping.
ScaleRuns ==
    FoldSet(LAMBDA c, s : s \o LET own == Newest(Kept(SuiteRuns, LAMBDA r : ClientOf(r) = c))
                               IN SubSeq(own, 1, Min({MostBoxes, Len(own)})),
            <<>>, {ClientOf(r) : r \in ToSet(SuiteRuns)})
BoxShade(section, r) ==
    LET higher == suiteView.metric = "mgas"
        v == Measure(r)
    IN IF ~Ended(SuiteRows[r]) THEN "live" ELSE IF ~Completed(r) THEN "interrupted"
       ELSE IF higher /\ v = 0 THEN None
       ELSE IF suiteUrl.heatColor = "client"
            THEN Shade(v, Measures(BoxesOf(section, ClientOf(r))), higher, Shades)
            ELSE Shade(v, Measures(ScaleRuns), higher, Shades)

-----------------------------------------------------------------------------
(* The links to comparisons: sequences of runs, or of groups. *)

\* Mutant of Comparable: runs in progress count as well.
ComparableInProgress(r) == Passing(SuiteRows[r])
Comparable(r) == Ended(SuiteRows[r]) /\ Passing(SuiteRows[r])
\* The newest successful run that has ended for each value of key.
FirstPer(s, key) ==
    LET good == Among(s, {r \in ToSet(s) : Comparable(r)})
        first == Among(good, {r \in ToSet(good) :
                    ~\E i \in DOMAIN good : i < Place(r, good) /\ key[good[i]] = key[r]})
    IN SubSeq(first, 1, Min({LinkMost, Len(first)}))
LinkTo(runs) == IF Len(runs) < LinkFewest THEN None ELSE runs

ByClient == [r \in ToSet(SuiteRuns) |-> ClientOf(r)]
ByGroup == [r \in ToSet(SuiteRuns) |-> GroupOf(r, GroupKeys)]
ByBoth == [r \in ToSet(SuiteRuns) |-> <<ClientOf(r), GroupOf(r, GroupKeys)>>]

\* The button of the toolbar: completed runs, the grouped client is the key.
CompletedRuns == {r \in ToSet(SuiteRuns) : Completed(r)}
LatestLink == LinkTo(FirstPer(Newest(Among(SuiteRuns, CompletedRuns)), ByBoth))
\* The button of a section: a run for each client, of those in the boxes, which are
\* put one client after the other.
SectionBoxes(section) == UNION {ToSet(BoxesOf(section, c)) : c \in ClientsIn(section)}
ClientsByName == SetToSeq({ClientOf(r) : r \in ToSet(SuiteRuns)})
SectionLink(section) ==
    LET boxes == Upwards(Among(SuiteRuns, SectionBoxes(section)),
                         [r \in ToSet(SuiteRuns) |-> Place(ClientOf(r), ClientsByName)])
    IN LinkTo(FirstPer(Newest(boxes), ByClient))
\* The button of a client: a run for each group.
RunsOfClient(c) == {r \in ToSet(SuiteRuns) : ClientOf(r) = c}
AcrossLink(c) == LinkTo(FirstPer(Newest(Among(SuiteRuns, RunsOfClient(c))), ByGroup))
\* The links of the comparison of groups: [client, meta] each.
MetaKeys == GroupKeys \ {"instance_id"}
SectionGroups(section) ==
    {[client |-> c, meta |-> Restrict(section, MetaKeys)] : c \in ClientsIn(section)}
AcrossGroups(c) ==
    {[client |-> c, meta |-> GroupOf(r, MetaKeys)] :
       r \in {x \in ToSet(SuiteRuns) : ClientOf(x) = c}}
ClientGroups == {[client |-> ClientOf(r), meta |-> [k \in {} |-> 0]] : r \in ToSet(SuiteRuns)}

-----------------------------------------------------------------------------
(* The charts. *)

ChartBase == Kept(SuiteRuns, LAMBDA r : /\ Completed(r)
                    /\ suiteUrl.passingOnly => SuiteRows[r].total = SuiteRows[r].passed)
ChartClients == {ClientOf(r) : r \in ToSet(ChartBase)}
ChartLabels == UNION {DOMAIN SuiteRows[r].labels : r \in ToSet(ChartBase)}
ChartRuns == Kept(ChartBase, LAMBDA r :
                /\ suiteView.clients # {} => ClientOf(r) \in suiteView.clients
                /\ LabelsAllow(suiteView.chartLabels, SuiteRows[r].labels))
ChartFiltersShown == Cardinality(ChartClients) > 1 \/ ChartLabels # {}

-----------------------------------------------------------------------------
(* The table. *)

SuiteRunMatches(r) ==
    /\ suiteUrl.client \in {None, ClientOf(r)} /\ suiteUrl.image \in {None, SuiteRows[r].image}
    /\ StatusAllows(suiteUrl.status, SuiteRows[r])
    /\ LabelsAllow(suiteUrl.labels, SuiteRows[r].labels)
SuiteMatched == Among(SuiteRuns, {r \in ToSet(SuiteRuns) : SuiteRunMatches(r)})
SuiteSorted == Sorted(SuiteMatched, LAMBDA a, b : RowBefore(SuiteRows[a], SuiteRows[b], suiteUrl))
SuiteOnPage == PageOf(SuiteSorted, suiteView.page, suiteView.size)
SuiteSelectable(r) == Ended(SuiteRows[r]) /\ ~SuiteRows[r].queued

-----------------------------------------------------------------------------
(* The URL. A handler keeps the parameters it names and drops the others. *)

AwayFrom(default, f) == {p \in DOMAIN default : f[p] # default[p]}
Together(away) == IF Cardinality(away) <= 1 THEN TRUE ELSE {s \in SuiteTogether : away \subseteq s} # {}
SuiteAway == AwayFrom(DefaultSuiteUrl, suiteUrl) \cup AwayFrom(DefaultSuiteView, suiteView)
\* Bound: while runs are chosen or deleted, or an anchor is kept, only pages are turned.
Choosing == suiteMode.mode # "off" \/ suiteMode.asked # {} \/ suiteMode.anchor # None
SuiteMay == \E away \in {SuiteAway'} : Together(away) /\ (Choosing' => away \subseteq {"page"})

RunsTabShown == suiteUrl.tab = "runs" /\ SuiteRuns # <<>>
SuiteTableShown == RunsTabShown /\ SuiteMatched # <<>>
\* The table keeps the anchor, and is unmounted with its tab or its last row.
AnchorOfTable == suiteMode' = IF suiteMode.anchor = None \/ SuiteTableShown' THEN suiteMode
                              ELSE [suiteMode EXCEPT !.anchor = None]

SuiteGo(keeps, changes, page) ==
    /\ suiteUrl' = Over(changes, [p \in DOMAIN DefaultSuiteUrl |->
                       IF p \in keeps THEN suiteUrl[p] ELSE DefaultSuiteUrl[p]])
    /\ suiteView' = [suiteView EXCEPT !.page = page] /\ UNCHANGED suiteIndex
    /\ AnchorOfTable /\ SuiteMay
SuiteSee(changes) ==
    /\ suiteView' = Over(changes, suiteView)
    /\ UNCHANGED <<suiteIndex, suiteUrl, suiteMode>> /\ SuiteMay

FiltersKept == DOMAIN ListParams \cup DOMAIN FilterParams
ChartsKept == FiltersKept \cup DOMAIN ChartParams
FilesKept == FiltersKept \cup DOMAIN FileParams
DialogKept == FilesKept \cup DOMAIN DialogParams
HeatKept == DOMAIN ListParams \cup DOMAIN ChartParams \cup DOMAIN HeatParams \cup {"steps", "groupBy"}

\* Mutant of TabKept: the page of the files goes along.
TabKeptWithPage == DOMAIN ListParams \cup {"groupBy", "filesPage"}
TabKept == DOMAIN ListParams \cup {"groupBy"}

\* There is a tab of the pre-run steps if the suite has some.
ChangeTab == \E t \in Tabs :
    /\ t = "pre_run_steps" => PreRunSteps # <<>>
    /\ t # suiteUrl.tab /\ SuiteGo(TabKept, [tab |-> t], suiteView.page)

\* The filters of the list; the indicator of the runs in progress.
FilterRuns ==
    /\ RunsTabShown
    /\ \/ \E v \in {None} \cup {ClientOf(r) : r \in ToSet(SuiteRuns)} :
            SuiteGo(FiltersKept, [client |-> v], 1)
       \/ \E v \in {None} \cup {SuiteRows[r].image : r \in ToSet(SuiteRuns)} :
            SuiteGo(FiltersKept, [image |-> v], 1)
       \/ \E v \in RunStatuses : SuiteGo(FiltersKept, [status |-> v], 1)
       \/ /\ \E r \in ToSet(SuiteRuns) : ~Ended(SuiteRows[r])
          /\ SuiteGo(FiltersKept, [status |->
                IF suiteUrl.status = "running" THEN "all" ELSE "running"], 1)

\* The chips of the labels, of the list or of the charts.
LabelChips(filters, runs) ==
    {WithoutLabel(filters, k) : k \in DOMAIN filters}
      \cup UNION {{ToggleValue(filters, k, SuiteRows[r].labels[k]) :
                     k \in DOMAIN SuiteRows[r].labels} : r \in ToSet(runs)}
FilterRunLabels == \E f \in LabelChips(suiteUrl.labels, SuiteRuns) :
    RunsTabShown /\ SuiteGo(FiltersKept, [labels |-> f], 1)

SortRuns == \E c \in SuiteColumns :
    /\ SuiteTableShown
    /\ SuiteGo(FiltersKept, [sortBy |-> c, dir |-> IF suiteUrl.sortBy = c
                                                 THEN Flip(suiteUrl.dir) ELSE "desc"], 1)

ChooseSteps == \E steps \in StepToggles(suiteUrl.steps) :
    RunsTabShown /\ SuiteGo(ChartsKept, [steps |-> steps], suiteView.page)

\* The charts, and the colours of the boxes.
SetCharts ==
    /\ RunsTabShown
    /\ \/ suiteView.heatOpen /\ \E m \in {"suite", "client"} :
            SuiteGo(ChartsKept, [heatColor |-> m], suiteView.page)
       \/ suiteView.chartOpen /\ \E m \in {"runCount", "time"} :
            SuiteGo(ChartsKept, [chartMode |-> m], suiteView.page)
       \/ suiteView.chartOpen
            /\ SuiteGo(ChartsKept, [passingOnly |-> ~suiteUrl.passingOnly], suiteView.page)

\* A key of the grouping, or none of them.
ClickGroupKey(k) ==
    LET keys == IF k \in GroupKeys THEN GroupKeys \ {k} ELSE GroupKeys \cup {k}
    IN /\ RunsTabShown /\ GroupLabels # {} /\ k \in GroupLabels \cup {"instance_id"}
       /\ SuiteGo(ChartsKept, [groupBy |-> KeysParam(keys)], suiteView.page)
ClearGroups ==
    /\ RunsTabShown /\ GroupLabels # {}
    /\ SuiteGo(ChartsKept, [groupBy |-> {}], suiteView.page)

-----------------------------------------------------------------------------
(* What is not in the URL. *)

TurnSuitePage ==
    /\ SuiteTableShown
    /\ \/ \E p \in PageLinks(suiteView.page, PageCount(SuiteMatched, suiteView.size)) :
            p <= MostPages /\ SuiteSee([page |-> p])
       \/ \E n \in SuiteSizes : SuiteSee([page |-> 1, size |-> n])

Unfold ==
    /\ RunsTabShown
    /\ \/ SuiteSee([heatOpen |-> ~suiteView.heatOpen])
       \/ SuiteSee([chartOpen |-> ~suiteView.chartOpen])
       \/ suiteView.heatOpen /\ \E m \in {"mgas", "duration"} : SuiteSee([metric |-> m])

\* Every client is shown while none is chosen.
FilterCharts ==
    /\ RunsTabShown /\ suiteView.chartOpen
    /\ \/ \E s \in RunSteps : SuiteSee([chartStep |-> s])
       \/ /\ ChartFiltersShown
          /\ \/ \E c \in ChartClients : SuiteSee([clients |->
                    IF c \in suiteView.clients THEN suiteView.clients \ {c}
                    ELSE suiteView.clients \cup {c}])
             \/ \E f \in LabelChips(suiteView.chartLabels, ChartBase) :
                    SuiteSee([chartLabels |-> f])

-----------------------------------------------------------------------------
(* The modes. *)

SuiteSetMode(mode, chosen, anchor) ==
    /\ suiteMode' = [mode |-> mode, chosen |-> chosen, anchor |-> anchor,
                     asked |-> suiteMode.asked]
    /\ SuiteAway \subseteq {"page"}
    /\ UNCHANGED <<suiteIndex, suiteUrl, suiteView>>

\* The toolbar of comparisons is also above the boxes; deletion is not.
EnterSuiteMode == \E m \in {"compare", "delete"} :
    /\ IF m = "compare" THEN RunsTabShown ELSE SuiteTableShown
    /\ SuiteSetMode(IF suiteMode.mode = m THEN "off" ELSE m, {}, suiteMode.anchor)

\* Mutant of ChosenWith: the room is looked at once for all the runs of a range.
ChosenWithOnce(ids, on) ==
    IF ~on THEN suiteMode.chosen \ ToSet(ids)
    ELSE IF suiteMode.mode = "compare" /\ Cardinality(suiteMode.chosen) >= LinkMost
         THEN suiteMode.chosen ELSE suiteMode.chosen \cup ToSet(ids)
\* handleSelectionChange: a comparison takes the first runs there is room for.
ChosenWith(ids, on) ==
    IF ~on THEN suiteMode.chosen \ ToSet(ids)
    ELSE IF suiteMode.mode = "delete" THEN suiteMode.chosen \cup ToSet(ids)
    ELSE Taken(suiteMode.chosen, ids, LinkMost)

\* The anchor counts in its own mode, while something is chosen.
AnchorRun ==
    IF suiteMode.anchor # None /\ suiteMode.chosen # {} /\ suiteMode.anchor[2] = suiteMode.mode
    THEN suiteMode.anchor[1] ELSE None
SuiteBetween(a, b) == Among(Between(SuiteOnPage, a, b), {r \in ToSet(SuiteRuns) : SuiteSelectable(r)})

\* A click on a row that has ended and does not wait for its deletion; with Shift,
\* on the rows from the anchor to it, if the anchor is on this page.
ChooseSuiteRun ==
    /\ RunsTabShown /\ suiteMode.mode # "off"
    /\ \E rows \in {ToSet(SuiteOnPage)} : \E r \in rows \cap ToSet(SuiteRuns), shift \in BOOLEAN :
         LET ranged == shift /\ AnchorRun \in rows \ {r}
             ids == IF ranged THEN SuiteBetween(AnchorRun, r) ELSE <<r>>
         IN /\ SuiteSelectable(r)
            /\ SuiteSetMode(suiteMode.mode, ChosenWith(ids, r \notin suiteMode.chosen),
                            IF ranged THEN suiteMode.anchor ELSE <<r, suiteMode.mode>>)

\* The boxes, for comparisons only, ask no more than that a run has ended, and
\* leave the anchor where it is.
ChooseBox ==
    /\ RunsTabShown /\ suiteMode.mode = "compare" /\ suiteView.heatOpen
    /\ \E r \in ToSet(SuiteRuns) :
         /\ Ended(SuiteRows[r])
         /\ \E section \in Sections : r \in ToSet(BoxesOf(section, ClientOf(r)))
         /\ SuiteSetMode(suiteMode.mode, ChosenWith(<<r>>, r \notin suiteMode.chosen),
                         suiteMode.anchor)

AskSuiteDelete ==
    /\ suiteMode.mode = "delete" /\ suiteMode.chosen # {} /\ suiteMode.asked = {}
    /\ suiteMode.chosen \subseteq SuiteMayAsk
    /\ suiteMode' = [suiteMode EXCEPT !.asked = suiteMode.chosen]
    /\ UNCHANGED <<suiteIndex, suiteUrl, suiteView>>
\* Success ends the deletion mode, whatever has been chosen since.
SuiteDeleteAnswers(ok) ==
    /\ suiteMode.asked # {}
    /\ suiteMode' = IF ok /\ suiteMode.mode = "delete"
                    THEN [suiteMode EXCEPT !.mode = "off", !.chosen = {}, !.asked = {}]
                    ELSE [suiteMode EXCEPT !.asked = {}]
    /\ UNCHANGED <<suiteIndex, suiteUrl, suiteView>>

PollSuiteIndex ==
    /\ suiteIndex < Len(SuiteIndexes) /\ suiteIndex' = suiteIndex + 1
    /\ UNCHANGED <<suiteUrl, suiteView>> /\ AnchorOfTable

-----------------------------------------------------------------------------
SuiteInit ==
    /\ suiteIndex = 0 /\ suiteUrl = DefaultSuiteUrl /\ suiteView = DefaultSuiteView
    /\ suiteMode = [mode |-> "off", chosen |-> {}, anchor |-> None, asked |-> {}]

SuitePageNext ==
    \/ ChangeTab \/ FilterRuns \/ FilterRunLabels \/ SortRuns \/ ChooseSteps
    \/ SetCharts \/ (\E k \in GroupLabels \cup {"instance_id"} : ClickGroupKey(k))
    \/ ClearGroups \/ TurnSuitePage \/ Unfold \/ FilterCharts
    \/ EnterSuiteMode \/ ChooseSuiteRun \/ ChooseBox \/ AskSuiteDelete
    \/ (\E ok \in BOOLEAN : SuiteDeleteAnswers(ok)) \/ PollSuiteIndex

-----------------------------------------------------------------------------
(* What choosing promises. *)

SuiteChoice == INSTANCE RunChoice WITH
    mode <- suiteMode.mode, chosen <- suiteMode.chosen, Runs <- SuiteRunsKnown, Most <- LinkMost

\* The suite's page, where runs are chosen one by one and in ranges in the table and
\* one by one on the boxes, keeps what RunChoice promises: a range that passes more
\* runs than a comparison has room for is cut (SuiteDetailPage.tsx
\* handleSelectionChange; RunsTable.tsx ranges).
SuiteChoiceKept == SuiteChoice!ChoiceSpec
=============================================================================
