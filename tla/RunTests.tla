----------------------------- MODULE RunTests ------------------------------
(***************************************************************************)
(* The tests of a finished run on its page: the heatmap with its histogram *)
(* and counters, the facet panel, the dimension breakdown, the table and   *)
(* the dialog of one test. All of them show the same results under the     *)
(* same parameters, most of which live in the URL.                         *)
(*                                                                         *)
(* Times and gas are small integers; a rate is a fraction. Mean values of  *)
(* the breakdown, tooltips and layout are left out.                        *)
(***************************************************************************)
EXTENDS TestQuery

CONSTANTS
    Steps,        \* name -> step -> what result.json aggregates for it
    SuiteOrder,   \* the names of the suite's tests, in order
    Genesis,      \* name -> genesis, for the tests of the suite that have one
    PageSizes, DefaultPageSize,
    DefaultSlow, MaxSlow, SlowInputs,
    DefaultThreshold, ThresholdInputs,
    Typed,        \* terms a user types
    Execs,        \* rows of the executions list
    MaxTerms,     \* bound on the terms of a query
    MaxPage,      \* bound on the page: its arrow leads past the end of a filtered table
    MaxChanged    \* bound on parameters that differ from their default

VARIABLES
    runUrl,    \* the search parameters
    runUi,     \* the local state of the components
    runSuite   \* the suite of the run is loaded

runTestVars == <<runUrl, runUi, runSuite>>

StepTypes == {"setup", "test", "cleanup"}
Results == DOMAIN Steps
ResultSeq == SetToSeq(Results)   \* the order of result.json
TestsAssumption ==
    /\ IsFiniteSet(Results) /\ Results \subseteq Names
    /\ PageSizes \subseteq Nat \ {0} /\ DefaultPageSize \in PageSizes
ASSUME RunTestsAssumption == TestsAssumption
\* What was measured is a number, and so are the limits; an emptied box is a 0. A
\* negative threshold is left out (MIN_THRESHOLD).
MeasuresAssumption ==
    /\ \A n \in Results : DOMAIN Steps[n] \subseteq StepTypes /\ \A s \in DOMAIN Steps[n] :
         Steps[n][s] \in [time : Nat, gas : Nat, gtime : Nat, ok : Nat, fail : Nat,
                         payloads : Nat, longest : Nat]
    /\ {DefaultSlow, MaxSlow, DefaultThreshold} \subseteq Nat \ {0} /\ DefaultSlow <= MaxSlow
    /\ SlowInputs \subseteq Int /\ ThresholdInputs \subseteq Nat
ASSUME LimitsAssumption == MeasuresAssumption
SortColumns == {"order", "name", "genesis", "time", "mgas", "passed", "failed"}

DefaultUrl ==
    [page |-> 1, pageSize |-> DefaultPageSize, sortBy |-> "order",
     sortDir |-> "asc", q |-> <<>>, status |-> "all", testModal |-> None,
     testStep |-> None, testExec |-> {}, steps |-> {"test"},
     threshold |-> DefaultThreshold, slow |-> DefaultSlow, color |-> "mgas",
     heatmapSort |-> "order", group |-> "none", open |-> {}]

DefaultUi ==
    [genesis |-> "all", tab |-> "test", view |-> "bars", more |-> FALSE]

Changed == Quantify(DOMAIN DefaultUrl \ {"open"}, LAMBDA f : runUrl[f] # DefaultUrl[f])
             + Cardinality(runUrl.open)
             + Quantify(DOMAIN DefaultUi, LAMBDA f : runUi[f] # DefaultUi[f])

RunTestsTypeOK ==
    /\ DOMAIN runUrl = DOMAIN DefaultUrl /\ DOMAIN runUi = DOMAIN DefaultUi
    /\ runUrl.page \in Nat \ {0} /\ runUrl.pageSize \in PageSizes
    /\ runUrl.steps \in (SUBSET StepTypes) \ {{}}
    /\ runUrl.slow \in 1..MaxSlow
    /\ runUrl.testModal \in Results \cup ToSet(SuiteOrder) \cup {None}

-----------------------------------------------------------------------------
(* The numbers of a test. *)

\* getAggregatedStats: the sum over the selected steps that were aggregated.
StepSum(n, fs, f) == MapThenSumSet(LAMBDA s : Steps[n][s][f], fs \cap DOMAIN Steps[n])
Aggregated(n, fs) ==
    IF fs \cap DOMAIN Steps[n] = {} THEN None
    ELSE [f \in {"time", "gas", "gtime", "ok", "fail"} |-> StepSum(n, fs, f)]

StatsOf == [n \in Results |-> [fs \in SUBSET StepTypes |-> Aggregated(n, fs)]]
All(n) == StatsOf[n][StepTypes]

\* getPayloadTimes: of one test the slowest payload; without method statistics
\* the time of all of them stands in for it.
SlowestPayload(n, fs) ==
    IF StepSum(n, fs, "payloads") = 0 THEN StepSum(n, fs, "gtime")
    ELSE Max({Steps[n][s].longest : s \in fs \cap DOMAIN Steps[n]})

LongestOf == [n \in Results |-> [fs \in SUBSET StepTypes |-> SlowestPayload(n, fs)]]
Longest(n) == LongestOf[n][runUrl.steps]

IsSlow(time, slow) == time > slow

RateOf(n) ==
    LET st == StatsOf[n][runUrl.steps]
    IN IF st = None THEN None ELSE Rate(st.gas, st.gtime)

\* A threshold of 0 in the URL, an emptied box, counts as none.
Threshold == IF runUrl.threshold = 0 THEN DefaultThreshold ELSE runUrl.threshold

\* Mutant of Colour: the duration is divided by the limit.
ColourInverted(rate, time) ==
    IF runUrl.color = "mgas" THEN ThresholdStep(rate[1], rate[2] * Threshold)
    ELSE ThresholdStep(time, runUrl.slow)

\* Colour of a tile with data. Short durations are the good ones.
Colour(rate, time) ==
    IF runUrl.color = "mgas" THEN ThresholdStep(rate[1], rate[2] * Threshold)
    ELSE IF time <= 0 THEN 0 ELSE ThresholdStep(runUrl.slow, time)

-----------------------------------------------------------------------------
(* TestHeatmap. *)

Suite == IF runSuite THEN SuiteOrder ELSE <<>>
OrderOf(n) ==
    LET at == {i \in DOMAIN Suite : Suite[i] = n}
    IN IF at = {} THEN Len(SuiteOrder) + 1 ELSE Max(at)

\* One tile per test of the suite or of the results.
TileNames == Results \cup ToSet(Suite)

Tile(n) ==
    IF n \notin Results
    THEN [name |-> n, order |-> OrderOf(n), rate |-> None, gas |-> 0, longest |-> 0,
          slow |-> FALSE, fail |-> FALSE, noData |-> TRUE, pending |-> TRUE]
    ELSE [name |-> n, order |-> OrderOf(n), rate |-> RateOf(n),
          gas |-> IF StatsOf[n][runUrl.steps] = None THEN 0
                  ELSE StatsOf[n][runUrl.steps].gas,
          longest |-> Longest(n),
          slow |-> RateOf(n) # None /\ IsSlow(Longest(n), runUrl.slow),
          fail |-> All(n) # None /\ All(n).fail > 0,
          noData |-> RateOf(n) = None, pending |-> FALSE]

Tiles == [n \in TileNames |-> Tile(n)]

TileBefore(a, b) ==
    LET s == runUrl.heatmapSort
        Zero(r) == IF r = None THEN <<0, 1>> ELSE r
    IN CASE s = "order" -> a.order < b.order
         [] s = "gas" -> a.gas > b.gas
         [] s = "duration" -> a.longest > b.longest
         [] s = "mgas" -> RateLess(Zero(a.rate), Zero(b.rate))

\* Grouped by gas in steps of 3, rounded; the most gas first.
GasGroup(t) == ((2 * t.gas + 3) \div 6) * 3
TileGroups ==
    LET ts == {Tiles[n] : n \in TileNames}
    IN IF runUrl.group = "none" THEN <<ts>>
       ELSE LET gs == Sorted(SetToSeq({GasGroup(t) : t \in ts}), >)
            IN [i \in DOMAIN gs |-> {t \in ts : GasGroup(t) = gs[i]}]

\* The tiles that are not dimmed, which are those the counters count.
StatusKept(t) ==
    CASE runUrl.status = "all" -> TRUE
      [] runUrl.status = "passed" -> ~t.pending /\ ~t.fail
      [] runUrl.status = "failed" -> ~t.pending /\ t.fail

Bright == {n \in TileNames : StatusKept(Tiles[n]) /\ NameMatches(n, runUrl.q)}
MeasuredTiles == {t \in {Tiles[n] : n \in Bright} : ~t.noData}

BinOf(t) ==
    IF runUrl.color = "duration" THEN Bin(t.longest, runUrl.slow)
    ELSE Bin(t.rate[1], t.rate[2] * Threshold)
\* Of tiles with data.
Histogram(ts) == [i \in 0..10 |-> Quantify(ts, LAMBDA t : BinOf(t) = i)]

SlowCount(ts) ==
    Quantify(ts, LAMBDA t :
        IF runUrl.color = "duration" THEN t.slow ELSE t.rate[1] < Threshold * t.rate[2])
FastCount(ts) == Cardinality(ts) - SlowCount(ts)

-----------------------------------------------------------------------------
(* TestsTable. *)

GenesisOf(n) == IF runSuite /\ n \in DOMAIN Genesis THEN Genesis[n] ELSE None
HasGenesis == runSuite /\ DOMAIN Genesis # {}

TableKeeps(n) ==
    /\ NameMatches(n, runUrl.q)
    /\ runUi.genesis \in {"all", GenesisOf(n)}
    /\ CASE runUrl.status = "all" -> TRUE
         [] runUrl.status = "passed" -> All(n) # None /\ All(n).fail = 0
         [] runUrl.status = "failed" -> All(n) # None /\ All(n).fail > 0

\* localeCompare orders names, and hashes, in some fixed way.
NameSeq == SetToSeq(Names)
HashSeq == SetToSeq(Range(Genesis))
Rank(seq, x) == CHOOSE i \in DOMAIN seq : seq[i] = x

\* The comparator.
RowLess(a, b) ==
    LET Stat(n, f) == IF StatsOf[n][runUrl.steps] = None THEN 0
                      ELSE StatsOf[n][runUrl.steps][f]
        AllStat(n, f) == IF All(n) = None THEN 0 ELSE All(n)[f]
        GenesisRank(n) == IF GenesisOf(n) = None THEN 0 ELSE Rank(HashSeq, GenesisOf(n))
    IN CASE runUrl.sortBy = "order" -> OrderOf(a) < OrderOf(b)
         [] runUrl.sortBy = "name" -> Rank(NameSeq, a) < Rank(NameSeq, b)
         [] runUrl.sortBy = "genesis" -> GenesisRank(a) < GenesisRank(b)
         [] runUrl.sortBy = "time" -> Stat(a, "time") < Stat(b, "time")
         [] runUrl.sortBy = "mgas" -> RateLess(RateOf(a), RateOf(b))
         [] runUrl.sortBy = "passed" -> AllStat(a, "ok") < AllStat(b, "ok")
         [] runUrl.sortBy = "failed" -> AllStat(a, "fail") < AllStat(b, "fail")

TableKept == Among(ResultSeq, {n \in Results : TableKeeps(n)})
TableRows ==
    Sorted(TableKept,
           LAMBDA a, b : IF runUrl.sortDir = "asc" THEN RowLess(a, b)
                         ELSE RowLess(b, a))
TablePage == PageOf(TableRows, runUrl.page, runUrl.pageSize)
TablePages == PageCount(TableKept, runUrl.pageSize)    \* of as many rows
SlowRows == Kept(TableRows, LAMBDA n : IsSlow(Longest(n), runUrl.slow))

-----------------------------------------------------------------------------
(* DimensionInsights. *)

Samples ==
    {n \in Results :
        /\ NameMatches(n, runUrl.q)
        /\ StatsOf[n][runUrl.steps] # None
        /\ CASE runUrl.status = "all" -> TRUE
             [] runUrl.status = "passed" -> All(n).fail = 0
             [] runUrl.status = "failed" -> All(n).fail # 0
        /\ RateOf(n) # None}

\* Of the samples ns.
ValuesOf(ns, d) == UNION {PartsOf[n][d] : n \in {m \in ns : d \in DOMAIN PartsOf[m]}}
Bucket(ns, d, v) == {n \in ns : d \in DOMAIN PartsOf[n] /\ v \in PartsOf[n][d]}

\* Dimensions with one value compare nothing.
Insights(ns) == {d \in Dims(ns) : Cardinality(ValuesOf(ns, d)) >= 2}

InsightPreview(ns, ds) ==
    IF Cardinality(ds) <= 2 THEN ds
    ELSE {d \in ds :
            \/ d \in {"file", "benchmark"}
            \/ d = "fn" /\ \E i \in DOMAIN runUrl.q : Canonical(runUrl.q[i].dim) = "file"
            \/ \E v \in ValuesOf(ns, d) : HasChip(runUrl.q, d, v)}

InsightsShown(ns) ==
    IF runUi.view = "table" \/ runUi.more THEN Insights(ns) ELSE InsightPreview(ns, Insights(ns))

-----------------------------------------------------------------------------
(* The handlers of RunDetailPage. *)

\* Navigation with some parameters changed, all others preserved.
Navigate(url) ==
    /\ runUrl' = url
    /\ UNCHANGED <<runUi, runSuite>>

ChangePage == \E p \in PageLinks(runUrl.page, TablePages) :
    Navigate([runUrl EXCEPT !.page = p])
ChangePageSize == \E n \in PageSizes :
    Navigate([runUrl EXCEPT !.pageSize = n, !.page = 1])
ClickSort == \E c \in SortColumns :
    /\ c = "genesis" => HasGenesis
    /\ Navigate([runUrl EXCEPT !.sortBy = c,
            !.sortDir = IF c = runUrl.sortBy THEN Flip(@) ELSE "asc"])
SearchFor(query) == Navigate([runUrl EXCEPT !.q = query, !.page = 1])
Type == \E t \in Typed : SearchFor(<<t>>)
\* Mutant of ChangeStatus: the page is kept.
ChangeStatusOnly == \E s \in {"all", "passed", "failed"} :
    Navigate([runUrl EXCEPT !.status = s])
ChangeStatus == \E s \in {"all", "passed", "failed"} :
    Navigate([runUrl EXCEPT !.status = s, !.page = 1])

\* A click on a row, a tile or a bar; the dialog is only shown for tests with
\* results. Step tab and expanded rows are dropped from the URL.
OpenTest(n) ==
    Navigate([runUrl EXCEPT !.testModal = n, !.testStep = None, !.testExec = {}])
ModalTest == IF runUrl.testModal \in Results THEN runUrl.testModal ELSE None
ClickTest == /\ ModalTest = None
             /\ \E n \in TileNames : OpenTest(n)
CloseTest == ModalTest # None /\ OpenTest(None)

\* The tab of the dialog: that of the URL, else the heatmap's own, else the
\* first the test has.
ShownTab ==
    LET have == Kept(<<"test", "setup", "cleanup">>,
                     LAMBDA s : s \in DOMAIN Steps[ModalTest])
        want == IF runUrl.testStep # None THEN runUrl.testStep ELSE runUi.tab
    IN IF have = <<>> THEN None ELSE IF Contains(have, want) THEN want ELSE have[1]
ChangeStepTab ==
    /\ ModalTest # None
    /\ \E s \in DOMAIN Steps[ModalTest] :
         /\ runUrl' = [runUrl EXCEPT !.testStep = IF s = "test" THEN None ELSE s,
                                     !.testExec = {}]
         /\ runUi' = [runUi EXCEPT !.tab = s]
    /\ UNCHANGED runSuite
ToggleExecRow ==
    /\ ModalTest # None /\ ShownTab # None
    /\ \E r \in Execs : Navigate([runUrl EXCEPT !.testExec = SymDiff(@, {r})])

\* The last step type cannot be taken away.
ToggleStep == \E s \in StepTypes :
    LET fs == SymDiff(runUrl.steps, {s})
    IN fs # {} /\ Navigate([runUrl EXCEPT !.steps = fs])
ChangeThreshold == \E t \in ThresholdInputs : Navigate([runUrl EXCEPT !.threshold = t])
\* Nothing and less is ignored, more than the maximum cut.
ChangeSlow == \E ms \in SlowInputs :
    ms > 0 /\ Navigate([runUrl EXCEPT !.slow = Min({ms, MaxSlow})])
ChangeMode ==
    \/ \E m \in {"mgas", "duration"} : Navigate([runUrl EXCEPT !.color = m])
    \/ \E m \in {"order", "mgas", "gas", "duration"} :
         Navigate([runUrl EXCEPT !.heatmapSort = m])
    \/ \E m \in {"none", "gas"} : Navigate([runUrl EXCEPT !.group = m])
    \/ \E p \in {"opcodes", "blockLogs", "downloads", "preRun"} :
         Navigate([runUrl EXCEPT !.open = SymDiff(@, {p})])

\* A chip of the facet panel, of a row or of the dialog.
ClickFacet ==
    \E d \in Dims(Results) : \E v \in FacetValues(Results, runUrl.q, d) :
        SearchFor(ToggleChip(runUrl.q, d, v))

\* A bar or row of the breakdown: the only test of a value that is no filter
\* yet is opened, any other value filtered by.
ClickInsight ==
    \E ns \in {Samples} : \E d \in InsightsShown(ns) : \E v \in ValuesOf(ns, d) :
        IF ~HasChip(runUrl.q, d, v) /\ Cardinality(Bucket(ns, d, v)) = 1
        THEN \E n \in Bucket(ns, d, v) : OpenTest(n)
        ELSE SearchFor(ToggleChip(runUrl.q, d, v))

Locally ==
    /\ \/ \E g \in {"all"} \cup Range(Genesis) :
            HasGenesis /\ runUi' = [runUi EXCEPT !.genesis = g]
       \/ runUi' = [runUi EXCEPT !.view = IF @ = "bars" THEN "table" ELSE "bars"]
       \/ runUi' = [runUi EXCEPT !.more = ~@]
    /\ UNCHANGED <<runUrl, runSuite>>

SuiteAnswers == ~runSuite /\ runSuite' = TRUE /\ UNCHANGED <<runUrl, runUi>>

\* The URL is opened again, by a reload or from a copied link.
Reload == runUi' = DefaultUi /\ runSuite' = FALSE /\ UNCHANGED runUrl

RunTestsInit == runUrl = DefaultUrl /\ runUi = DefaultUi /\ runSuite = FALSE

RunTestsNext ==
    /\ \/ ChangePage \/ ChangePageSize \/ ClickSort \/ Type \/ ChangeStatus
       \/ ClickTest \/ CloseTest \/ ChangeStepTab \/ ToggleExecRow \/ ToggleStep
       \/ ChangeThreshold \/ ChangeSlow \/ ChangeMode
       \/ ClickFacet \/ ClickInsight \/ Locally \/ SuiteAnswers \/ Reload
    /\ Changed' <= MaxChanged /\ Len(runUrl'.q) <= MaxTerms /\ runUrl'.page <= MaxPage

RunTestsSpec == RunTestsInit /\ [][RunTestsNext]_runTestVars

-----------------------------------------------------------------------------
(* Properties. *)

\* The heatmap counts one set of tests four times, with thresholds of its own:
\* by bin, by the counters beside the limit line, by colour and by the outline
\* of slow payloads. They agree; only a payload of exactly the limit stands to
\* the right of the line and is not slow.
AgreeOn(ts, bins) ==
    LET Bins(I) == MapThenSumSet(LAMBDA i : bins[i], I)
        good == Quantify(ts, LAMBDA t : Colour(t.rate, t.longest) <= 4)
        exact == Quantify(ts, LAMBDA t : t.longest = runUrl.slow)
    IN /\ Bins(0..10) = Cardinality(ts)
       /\ good = FastCount(ts)
       /\ IF runUrl.color = "mgas" THEN Bins(4..10) = FastCount(ts)
          ELSE Bins(4..10) = SlowCount(ts) + exact
CountersAgree == AgreeOn(MeasuredTiles, Histogram(MeasuredTiles))

\* The number on a chip is the number of tests a click leaves, when no other
\* term constrains its dimension and its value has no blank.
FacetTellsResult ==
    \A d \in Dims(Results) : \A v \in FacetValues(Results, runUrl.q, d) :
        (Len(v) = 1 /\ WithoutDimension(runUrl.q, d) = runUrl.q) =>
            Cardinality(Matching(Results, ToggleChip(runUrl.q, d, v)))
                = FacetCount(Results, runUrl.q, d, v)

\* A table with rows stays on a page of rows: whatever is changed that takes rows
\* away leads back to the first page. The genesis filter, which is the table's
\* own, does not.
PageFits == runUrl.page = 1 \/ runUrl.page <= TablePages
TableKeepsRows == PageFits /\ runUi'.genesis \in {runUi.genesis, "all"} => PageFits'
=============================================================================
