---------------------------- MODULE CompareGroups ----------------------------
(***************************************************************************)
(* The page that compares groups of runs: a group is a client and values   *)
(* of labels, it samples the newest runs that match or the runs chosen one *)
(* by one, and the results of its runs are averaged into one synthetic     *)
(* run. The groups and the choices are in the URL; results arrive one by   *)
(* one, and nothing is compared before all of them have.                   *)
(***************************************************************************)
EXTENDS RunLists, TestQuery

CONSTANTS
    CgSuites,       \* the suites of the index
    ClientOrder,    \* the clients in alphabetical order
    CgRows,         \* run -> its row, with its suite
    CgIndexes,      \* the runs as one poll after another has them
    CgResults,      \* run -> test -> step -> [gas, time, fail]; None: no file
    CgConfigs,      \* the runs that have a config.json
    CgOrder,        \* the tests of the suite, in order
    CgSlots,        \* the groups there are colours for
    CgSamples, DefaultSample,
    CgBucket,       \* the gas of a bucket
    CgPageSize,     \* the rows of a page of the table
    CgLimits, DefaultCgLimit,     \* thresholds and limits of slow payloads
    CgQueries,      \* queries a user types
    MostPicked, FewestPicked,     \* the runs of a comparison
    CgTogether,     \* bounds: the parameters that are away from their defaults
                    \*        are those of one of these sets;
    CgMostEdits,    \*        the filters and selections of all groups;
    CgCompared,     \*        the groups whose results are looked at closely;
    CgMayClick      \*        the runs whose boxes are clicked

VARIABLES
    cgIndex,        \* the number of the poll that is shown; 0 while loading
    cgUrl,
    cgLoaded,       \* the answered queries: <<"config" or "result", run>>
    cgView,         \* highlight, order of the heatmap, page of the table, and
                    \* the anchors of the cards
    cgModal         \* what the dialog of a test keeps

ASSUME GroupsAssumption ==
    /\ CgIndexes \in Seq(Seq(DOMAIN CgRows))
    /\ CgSamples \subseteq Nat /\ DefaultSample \in Nat
    /\ CgSlots \in Nat /\ MostPicked \in Nat
    /\ \A rs \in SUBSET DOMAIN CgRows : rs # None

cgVars == <<cgIndex, cgUrl, cgLoaded, cgView, cgModal>>

Group(client, meta, runs) == [client |-> client, meta |-> meta, runs |-> runs]
NoMeta == [k \in {} |-> ""]
\* The table compares to a run, by its position, or to the best or the worst; a
\* column is sorted by its name, and one of a run by its position too.
Best == 0
Worst == -1
ByOrder == <<"order", 0>>
NoPicks == [expanded |-> {}, picked |-> {}, key |-> "run", dir |-> "asc"]
CgDefaults ==
    [suite |-> None, groups |-> <<>>, sample |-> DefaultSample, agg |-> "avg",
     steps |-> {"test"}, baseline |-> None, tableBase |-> Best, chart |-> "line",
     sort |-> ByOrder, dir |-> "asc", filter |-> <<>>, regex |-> FALSE, buckets |-> {},
     diff |-> "all", metric |-> "mgas", color |-> "absolute", threshold |-> DefaultCgLimit,
     slow |-> DefaultCgLimit, modal |-> None]

-----------------------------------------------------------------------------
(* The runs of a group. *)

\* The runs of a suite under every poll: as the index has them, and newest first.
RunsOfSuite ==
    [i \in 0..Len(CgIndexes) |->
       [s \in CgSuites \cup {None} |->
          IF i = 0 THEN <<>> ELSE Among(CgIndexes[i], {r \in DOMAIN CgRows : CgRows[r].suite = s})]]
NewestFirst(rs) == Sorted(rs, LAMBDA a, b : CgRows[b].start < CgRows[a].start)
NewestOfSuite ==
    [i \in 0..Len(CgIndexes) |-> [s \in CgSuites \cup {None} |-> NewestFirst(RunsOfSuite[i][s])]]
OfSuite == RunsOfSuite[cgIndex][cgUrl.suite]
CgClients == Kept(ClientOrder, LAMBDA c : \E r \in ToSet(OfSuite) : CgRows[r].client = c)
CgKeys == UNION {DOMAIN CgRows[r].labels : r \in ToSet(OfSuite)}
\* The values of a key in the order in which the runs have them.
ValuesInOrder(k) ==
    LET having == Kept(OfSuite, LAMBDA r : k \in DOMAIN CgRows[r].labels)
    IN [i \in DOMAIN having |-> CgRows[having[i]].labels[k]]

Matches(r, g) ==
    /\ CgRows[r].client = g.client
    /\ \A k \in DOMAIN g.meta : k \in DOMAIN CgRows[r].labels /\ CgRows[r].labels[k] = g.meta[k]
MatchedAt(index, suite, g) == Among(NewestOfSuite[index][suite], {r \in DOMAIN CgRows : Matches(r, g)})
Matched(g) == MatchedAt(cgIndex, cgUrl.suite, g)

Automatic(matched, n) == SubSeq(matched, 1, Min({n, Len(matched)}))
SelectGroupRuns(g, matched, n) ==
    IF g.runs = None THEN Automatic(matched, n) ELSE Among(matched, g.runs)
\* Mutant of SetGroupRuns: as many runs as the sample has are the sample.
SetGroupRunsByNumber(g, matched, n, rs, include) ==
    LET was == ToSet(SelectGroupRuns(g, matched, n))
        now == IF include THEN was \cup rs ELSE was \ rs
    IN IF Cardinality(now) = Len(Automatic(matched, n)) THEN [g EXCEPT !.runs = None]
       ELSE [g EXCEPT !.runs = now \cap ToSet(matched)]
\* A selection that equals the sample is automatic again.
SetGroupRuns(g, matched, n, rs, include) ==
    LET was == ToSet(SelectGroupRuns(g, matched, n))
        now == IF include THEN was \cup rs ELSE was \ rs
    IN IF now = ToSet(Automatic(matched, n)) THEN [g EXCEPT !.runs = None]
       ELSE [g EXCEPT !.runs = now \cap ToSet(matched)]

\* Without an index or a suite no group has runs.
GroupRunsAt(index, url) ==
    [gi \in DOMAIN url.groups |->
       SelectGroupRuns(url.groups[gi], MatchedAt(index, url.suite, url.groups[gi]), url.sample)]
GroupRuns == GroupRunsAt(cgIndex, cgUrl)
RunsOf(gi) == GroupRuns[gi]
Lit(gi) == ToSet(RunsOf(gi))

-----------------------------------------------------------------------------
(* The queries: a config for each group, a result for each of its runs. The *)
(* results lie in one list, in which a group finds its own by their number.  *)

\* groupRuns.flat()
Flat(runs) ==
    LET upTo[i \in 0..Len(runs)] == IF i = 0 THEN <<>> ELSE upTo[i - 1] \o runs[i]
    IN upTo[Len(runs)]
CgQueriesFor(runs) ==
    {<<"config", runs[gi][1]>> : gi \in {i \in DOMAIN runs : runs[i] # <<>>}}
        \cup {<<"result", r>> : r \in ToSet(Flat(runs))}
CgQueriesNow == CgQueriesFor(GroupRuns)
CgLoading == ~(CgQueriesNow \subseteq cgLoaded)

\* Mutant of Offset: only the results that there are are counted.
OffsetOfResults(gi, runs) ==
    FoldSet(LAMBDA i, n : n + Quantify(DOMAIN runs[i], LAMBDA k : CgResults[runs[i][k]] # None), 0, 1..(gi - 1))
Offset(gi, runs) ==
    LET upTo[i \in 0..Len(runs)] == IF i = 0 THEN 0 ELSE upTo[i - 1] + Len(runs[i])
    IN upTo[gi - 1]
\* The results of a group that have arrived.
ArrivedOf(rs) ==
    LET have == Among(rs, {r \in ToSet(rs) : <<"result", r>> \in cgLoaded /\ CgResults[r] # None})
    IN [i \in DOMAIN have |-> CgResults[have[i]]]
ResultsOf(gi, runs) ==
    LET flat == Flat(runs)
    IN ArrivedOf([i \in DOMAIN runs[gi] |-> flat[Offset(gi, runs) + i]])
GroupLoading(gi) ==
    LET runs == GroupRuns  flat == Flat(runs)
    IN \/ runs[gi] # <<>> /\ <<"config", runs[gi][1]>> \notin cgLoaded
       \/ \E i \in DOMAIN runs[gi] : <<"result", flat[Offset(gi, runs) + i]>> \notin cgLoaded

-----------------------------------------------------------------------------
(* averageResults. Averages are in twelfths, which is exact for four runs. *)

Twelve == 12
Average(s) ==
    IF s = <<>> THEN 0
    ELSE IF cgUrl.agg = "avg" THEN (Twelve * FoldSeq(+, 0, s)) \div Len(s)
    ELSE LET up == Ascending(s)  mid == Len(s) \div 2
         IN IF Len(s) % 2 = 0 THEN (Twelve \div 2) * (up[mid] + up[mid + 1]) ELSE Twelve * up[mid + 1]

\* getAggregatedStats: over the chosen steps the test has; None without any.
StatsIn(entry, steps) ==
    IF steps \cap DOMAIN entry = {} THEN None
    ELSE [f \in {"gas", "time", "fail"} |->
            FoldSet(LAMBDA s, n : n + entry[s][f], 0, steps \cap DOMAIN entry)]
Twelvefold(entry) == [s \in DOMAIN entry |-> [f \in DOMAIN entry[s] |-> Twelve * entry[s][f]]]
\* Tests that any of the runs has are averaged over the runs that have them;
\* a single result is taken as it is.
Averaged(results) ==
    IF Len(results) = 1 THEN [t \in DOMAIN results[1] |-> Twelvefold(results[1][t])]
    ELSE LET Having(t) == Kept(results, LAMBDA x :
                 t \in DOMAIN x /\ cgUrl.steps \cap DOMAIN x[t] # {})
             Samples(t, s) == Kept(Having(t), LAMBDA x : s \in DOMAIN x[t])
             Field(t, s, f) == LET xs == Samples(t, s) IN [i \in DOMAIN xs |-> xs[i][t][s][f]]
         IN [t \in {x \in UNION {DOMAIN results[i] : i \in DOMAIN results} : Having(x) # <<>>} |->
               [s \in {x \in RunSteps : Samples(t, x) # <<>>} |->
                  [f \in {"gas", "time", "fail"} |->
                     LET a == Average(Field(t, s, f))
                     IN IF f = "fail" THEN Twelve * ((2 * a + Twelve) \div (2 * Twelve)) ELSE a]]]

HasResultsOf(runs, loaded) ==
    /\ CgQueriesFor(runs) \subseteq loaded
    /\ \E gi \in DOMAIN runs : /\ runs[gi] # <<>> /\ runs[gi][1] \in CgConfigs
                              /\ \E i \in DOMAIN runs[gi] : CgResults[runs[gi][i]] # None
\* A group without its config or without results is left out; the synthetic
\* run keeps the number of its group.
SyntheticOf(runs, results) ==
    LET in == Among([gi \in DOMAIN runs |-> gi], {gi \in DOMAIN runs :
                runs[gi] # <<>> /\ runs[gi][1] \in CgConfigs /\ results[gi] # <<>>})
    IN IF ~HasResultsOf(runs, cgLoaded) THEN <<>>
       ELSE [i \in DOMAIN in |-> [index |-> in[i], tests |-> Averaged(results[in[i]])]]
Synthetic == SyntheticOf(GroupRuns, [gi \in DOMAIN GroupRuns |-> ResultsOf(gi, GroupRuns)])
HasResults == HasResultsOf(GroupRuns, cgLoaded)

-----------------------------------------------------------------------------
(* What is compared: the tests the filters leave, their winners, the ranking. *)

GasOf(t, syn) ==
    IF t \in DOMAIN syn[1].tests /\ "test" \in DOMAIN syn[1].tests[t] THEN syn[1].tests[t]["test"].gas ELSE None
BucketOf(gas) == CgBucket * ((2 * gas + CgBucket * Twelve) \div (2 * CgBucket * Twelve))
BucketsOf(syn) == {BucketOf(GasOf(t, syn)) : t \in {x \in DOMAIN syn[1].tests : GasOf(x, syn) # None}}
\* As a regular expression the text of a term with a dimension is in no name.
TextAllows(t) ==
    IF ~cgUrl.regex THEN NameMatches(t, cgUrl.filter)
    ELSE \A i \in DOMAIN cgUrl.filter :
           Len(cgUrl.filter) = 1 /\ cgUrl.filter[i].dim = NoDim /\ MatchesText(t, cgUrl.filter[i].word)
CgAllows(t, syn) ==
    /\ TextAllows(t)
    /\ cgUrl.buckets = {} \/ (GasOf(t, syn) # None /\ BucketOf(GasOf(t, syn)) \in cgUrl.buckets)

ValueOf(run, t, metric) ==
    LET st == IF t \in DOMAIN run.tests THEN StatsIn(run.tests[t], cgUrl.steps) ELSE None
    IN IF st = None THEN None
       ELSE IF metric = "mgas" THEN Rate(st.gas, st.time)
       ELSE IF st.time > 0 THEN <<st.time, 1>> ELSE None
CgTests(syn) == {t \in UNION {DOMAIN syn[p].tests : p \in DOMAIN syn} : CgAllows(t, syn)}
Known(t, syn, metric) == {p \in DOMAIN syn : ValueOf(syn[p], t, metric) # None}
\* Positions in syn, not groups. Equal rates share the win.
Winners(t, syn) ==
    LET known == Known(t, syn, "mgas")
    IN IF Cardinality(known) < 2 THEN {}
       ELSE {p \in known : \A q \in known :
               ~RateLess(ValueOf(syn[p], t, "mgas"), ValueOf(syn[q], t, "mgas"))}
WinsOf(p, syn) == Quantify(CgTests(syn), LAMBDA t : p \in Winners(t, syn))
Ranking(syn) ==
    Sorted([p \in DOMAIN syn |-> p], LAMBDA p, q : WinsOf(p, syn) > WinsOf(q, syn))
RankingShown(syn) == Len(syn) >= 2 /\ \E t \in CgTests(syn) : Winners(t, syn) # {}

\* computeMetrics: the rate of a run over all its tests.
RunRate(run) ==
    LET sts == {<<t, StatsIn(run.tests[t], cgUrl.steps)>> : t \in DOMAIN run.tests}
        StepSum(f) == FoldSet(LAMBDA x, n : IF x[2] = None THEN n ELSE n + x[2][f], 0, sts)
    IN IF StepSum("time") > 0 THEN <<StepSum("gas"), StepSum("time")>> ELSE None
\* The slowest run is the baseline unless one is chosen, by its position.
DefaultBaseline(syn) ==
    LET rated == {p \in DOMAIN syn : RunRate(syn[p]) # None}
        slowest == {p \in rated : \A q \in rated : ~RateLess(RunRate(syn[q]), RunRate(syn[p]))}
    IN IF slowest = {} THEN 1 ELSE Min(slowest)
Baseline(syn) ==
    IF cgUrl.baseline = None THEN DefaultBaseline(syn) ELSE Min({cgUrl.baseline, Max({Len(syn), 1})})

\* The colour of a tile: against a limit or against the baseline; None: no data.
TileStep(t, p, syn) ==
    LET v == ValueOf(syn[p], t, cgUrl.metric)
        b == ValueOf(syn[Baseline(syn)], t, cgUrl.metric)
    IN IF v = None THEN None
       ELSE IF cgUrl.color = "absolute"
       THEN IF cgUrl.metric = "mgas" THEN ThresholdStep(v[1], v[2] * cgUrl.threshold)
            ELSE ThresholdStep(cgUrl.slow * Twelve, v[1])
       ELSE IF b = None \/ b[1] <= 0 \/ v[1] <= 0 THEN None
       ELSE IF cgUrl.metric = "mgas" THEN ThresholdStep(v[1] * b[2], v[2] * b[1])
       ELSE ThresholdStep(b[1], v[1])
Faded(t, syn) ==
    LET at == {p \in DOMAIN syn : syn[p].index = cgView.highlight}
    IN at # {} /\ at \cap Winners(t, syn) = {}
IsSlowTest(t, syn) ==
    \E p \in Known(t, syn, "duration") : ValueOf(syn[p], t, "duration")[1] > cgUrl.slow * Twelve
\* How far the best group is from the worst: their ratio, as a fraction.
Spread(t, syn) ==
    LET vs == {ValueOf(syn[p], t, cgUrl.metric) : p \in Known(t, syn, cgUrl.metric)}
        lo == CHOOSE v \in vs : \A w \in vs : ~RateLess(w, v)
        hi == CHOOSE v \in vs : \A w \in vs : ~RateLess(v, w)
    IN IF Cardinality(Known(t, syn, cgUrl.metric)) < 2 THEN <<1, 1>> ELSE <<hi[1] * lo[2], hi[2] * lo[1]>>
TestOrder(t) == IF Contains(CgOrder, t) THEN Place(t, CgOrder) ELSE 0
HeatmapTests(syn) ==
    LET byOrder == Sorted(SetToSeq(CgTests(syn)), LAMBDA a, b : TestOrder(a) < TestOrder(b))
    IN IF cgView.order = "order" THEN byOrder
       ELSE Sorted(byOrder, LAMBDA a, b : RateLess(Spread(b, syn), Spread(a, syn)))

\* The table: the gas of the first run that has the test, the mean of the rates,
\* and each rate against a run, the best or the worst.
TableGas(t, syn) ==
    LET having == {p \in DOMAIN syn : t \in DOMAIN syn[p].tests
                                     /\ StatsIn(syn[p].tests[t], cgUrl.steps) # None}
    IN IF having = {} THEN None ELSE StatsIn(syn[Min(having)].tests[t], cgUrl.steps).gas
TableMean(t, syn) ==
    FoldSet(LAMBDA p, sum : LET v == ValueOf(syn[p], t, "mgas")
                            IN <<sum[1] * v[2] + v[1] * sum[2], sum[2] * v[2], sum[3] + 1>>,
            <<0, 1, 0>>, Known(t, syn, "mgas"))
\* A run beyond the last, which is left when groups have gone, is the last one.
TableBaseline(syn) ==
    IF cgUrl.tableBase \in {Best, Worst} THEN cgUrl.tableBase ELSE Min({cgUrl.tableBase, Len(syn)})
TableReference(t, syn) ==
    LET base == TableBaseline(syn)
        vs == {ValueOf(syn[p], t, "mgas") : p \in Known(t, syn, "mgas")}
    IN IF base \in DOMAIN syn THEN ValueOf(syn[base], t, "mgas")
       ELSE IF vs = {} THEN None
       ELSE CHOOSE v \in vs : \A w \in vs : IF base = Best THEN ~RateLess(v, w) ELSE ~RateLess(w, v)
\* By a run only against a run, as the ratio; tests without one come last.
TableKey(t, syn) ==
    LET mean == TableMean(t, syn)
        v == ValueOf(syn[cgUrl.sort[2]], t, "mgas")
        b == ValueOf(syn[TableBaseline(syn)], t, "mgas")
    IN CASE cgUrl.sort[1] = "order"    -> <<TestOrder(t), 1>>
         [] cgUrl.sort[1] = "name"     -> <<Place(t, CgOrder), 1>>
         [] cgUrl.sort[1] = "gasUsed"  -> LET g == TableGas(t, syn) IN IF g = None THEN <<0, 1>> ELSE <<g, 1>>
         [] cgUrl.sort[1] = "avgValue" -> IF mean[3] = 0 THEN None ELSE <<mean[1], mean[2] * mean[3]>>
         [] cgUrl.sort[2] \in DOMAIN syn /\ TableBaseline(syn) \in DOMAIN syn
                -> IF v = None \/ b = None THEN None ELSE <<v[1] * b[2], v[2] * b[1]>>
         [] OTHER -> <<0, 1>>
KeyLess(a, b) ==
    IF cgUrl.sort[1] = "run" /\ (a = None \/ b = None) THEN a # None /\ b = None
    ELSE RateLess(a, b)
ByKeys(key) ==
    Sorted(SetToSeq(DOMAIN key),
           LAMBDA a, b : IF cgUrl.dir = "asc" THEN KeyLess(key[a], key[b]) ELSE KeyLess(key[b], key[a]))
ComparisonRows(syn) == ByKeys([t \in CgTests(syn) |-> TableKey(t, syn)])
ComparisonPage(syn) == PageOf(ComparisonRows(syn), cgView.tablePage, CgPageSize)

-----------------------------------------------------------------------------
(* The dialog of a test: a card for every group, and a table of its runs.   *)

ModalShown == cgUrl.modal # None /\ HasResults
\* By group, where Synthetic counts only the groups with results.
ModalCard(gi, syn) ==
    LET at == {p \in DOMAIN syn : syn[p].index = gi}
    IN IF at = {} THEN None ELSE ValueOf(syn[Min(at)], cgUrl.modal, "duration")
ModalBaseline(syn) == syn[Baseline(syn)].index
\* A row takes its run and its time from the runs of the group, by its place
\* among the results.
ModalRows(gi) ==
    LET runs == GroupRuns  rs == ResultsOf(gi, runs)
    IN [i \in DOMAIN rs |->
         LET st == IF cgUrl.modal \in DOMAIN rs[i] THEN StatsIn(rs[i][cgUrl.modal], cgUrl.steps) ELSE None
         IN [run |-> runs[gi][i],
             stats |-> IF st = None THEN [f \in {"gas", "time", "fail"} |-> 0] ELSE st]]
RowKey(row) ==
    CASE cgModal.key = "run"  -> <<CgRows[row.run].start, 1>>
      [] cgModal.key = "mgas" -> IF row.stats.time > 0 THEN <<row.stats.gas, row.stats.time>> ELSE <<0, 1>>
      [] cgModal.key = "gas"  -> <<row.stats.gas, 1>>
ModalTable(gi) ==
    Sorted(ModalRows(gi), LAMBDA a, b : IF cgModal.dir = "asc" THEN RateLess(RowKey(a), RowKey(b))
                                        ELSE RateLess(RowKey(b), RowKey(a)))

-----------------------------------------------------------------------------
(* The state. *)

CgTypeOK ==
    /\ cgIndex \in 0..Len(CgIndexes)
    /\ DOMAIN cgUrl = DOMAIN CgDefaults
    /\ Len(cgUrl.groups) <= CgSlots /\ DOMAIN cgView.anchors = DOMAIN cgUrl.groups
    /\ \A gi \in DOMAIN cgUrl.groups :
         cgUrl.groups[gi].runs = None \/ cgUrl.groups[gi].runs \subseteq DOMAIN CgRows
    /\ cgLoaded \subseteq {"config", "result"} \X DOMAIN CgRows
    /\ Cardinality(cgModal.picked) <= MostPicked

CgInit ==
    /\ cgIndex = 0 /\ cgUrl = CgDefaults /\ cgLoaded = {}
    /\ cgView = [highlight |-> None, order |-> "order", tablePage |-> 1, anchors |-> <<>>]
    /\ cgModal = NoPicks

Plain(view) == view.highlight = None /\ view.order = "order" /\ view.tablePage = 1
Edits(groups) ==
    FoldSet(LAMBDA gi, n : n + Cardinality(DOMAIN groups[gi].meta)
                             + (IF groups[gi].runs = None THEN 0 ELSE 1), 0, DOMAIN groups)
\* Bounds: few groups are edited or hold an anchor at a time, and the results are
\* looked at from one side at a time.
Away(url) == {k \in DOMAIN CgDefaults : url[k] # CgDefaults[k]}
Allowed == UNION {SUBSET T : T \in CgTogether}
OnlyGroups(away) == away \subseteq {"suite", "groups"}
Bounded(url, view) ==
    /\ Edits(url.groups) <= CgMostEdits
    /\ Quantify(DOMAIN view.anchors, LAMBDA gi : view.anchors[gi] # None) <= CgMostEdits
    /\ \E away \in {Away(url)} :
          /\ away \in Allowed
          /\ ~Plain(view) => OnlyGroups(away)
          /\ ~(Plain(view) /\ OnlyGroups(away)) => url.groups \in CgCompared

\* Every handler sets its parameters and keeps the others. A query that is not
\* asked any more is forgotten: one that is still cached when it is asked again
\* is one answered at once. A dialog that is not shown any more, because it was
\* closed or results are loading, forgets too.
CgSettle ==
    \E url \in {cgUrl'}, view \in {cgView'}, index \in {cgIndex'} :
      /\ Bounded(url, view)
      /\ \E runs \in {GroupRunsAt(index, url)} :
           /\ \E asked \in {CgQueriesFor(runs)} : cgLoaded' = cgLoaded \cap asked
           /\ cgModal' = IF url.modal # None /\ HasResultsOf(runs, cgLoaded') THEN cgModal ELSE NoPicks
CgGo(patch) ==
    /\ cgUrl' = Over(patch, cgUrl) /\ UNCHANGED <<cgIndex, cgView>> /\ CgSettle

PollCg ==
    /\ cgIndex < Len(CgIndexes) /\ cgIndex' = cgIndex + 1
    /\ UNCHANGED cgUrl
    /\ cgView' = [cgView EXCEPT !.anchors = [gi \in DOMAIN cgUrl.groups |->
                    IF MatchedAt(cgIndex + 1, cgUrl.suite, cgUrl.groups[gi]) = <<>> THEN None ELSE cgView.anchors[gi]]]
    /\ CgSettle
\* Bound: the results are answered after the configs.
AnswerQuery == \E due \in {CgQueriesNow \ cgLoaded} : \E q \in due :
    /\ q[1] = "result" => \A other \in due : other[1] = "result"
    /\ cgLoaded' = cgLoaded \cup {q}
    /\ UNCHANGED <<cgIndex, cgUrl, cgView, cgModal>>

-----------------------------------------------------------------------------
(* The builder. *)

\* A card is known by its number: its boxes, and with them the anchor of a
\* Shift-click, go when no run matches or the last card goes.
SetGroups(groups) ==
    /\ cgUrl' = [cgUrl EXCEPT !.groups = groups] /\ UNCHANGED cgIndex
    /\ cgView' = [cgView EXCEPT !.anchors = [gi \in DOMAIN groups |->
          IF gi \in DOMAIN cgView.anchors /\ Matched(groups[gi]) # <<>> THEN cgView.anchors[gi] ELSE None]]
    /\ CgSettle
UpdateGroup(gi, g) == SetGroups([cgUrl.groups EXCEPT ![gi] = g])

ChooseCgSuite(s) ==
    /\ s # cgUrl.suite
    /\ cgUrl' = [cgUrl EXCEPT !.suite = s, !.groups = <<>>] /\ UNCHANGED cgIndex
    /\ cgView' = [cgView EXCEPT !.anchors = <<>>] /\ CgSettle
AddGroup ==
    /\ cgUrl.suite # None /\ CgClients # <<>> /\ Len(cgUrl.groups) < CgSlots
    /\ LET unused == Kept(CgClients, LAMBDA c : \A gi \in DOMAIN cgUrl.groups : cgUrl.groups[gi].client # c)
       IN SetGroups(Append(cgUrl.groups, Group(Head(unused \o CgClients), NoMeta, None)))
RemoveGroup(gi) == Len(cgUrl.groups) > 1 /\ SetGroups(RemoveAt(cgUrl.groups, gi))
ChooseClient(gi, c) ==
    c # cgUrl.groups[gi].client /\ UpdateGroup(gi, Group(c, NoMeta, None))
\* "+ filter" takes the first value of the key; the picker beside it any other.
AddMetadata(gi, k) ==
    /\ k \in CgKeys \ DOMAIN cgUrl.groups[gi].meta
    /\ UpdateGroup(gi, Group(cgUrl.groups[gi].client, (k :> Head(ValuesInOrder(k))) @@ cgUrl.groups[gi].meta, None))
PickValue(gi, k, v) ==
    /\ k \in DOMAIN cgUrl.groups[gi].meta /\ v # cgUrl.groups[gi].meta[k]
    /\ UpdateGroup(gi, Group(cgUrl.groups[gi].client, (k :> v) @@ cgUrl.groups[gi].meta, None))
RemoveMetadata(gi, k) ==
    /\ k \in DOMAIN cgUrl.groups[gi].meta
    /\ UpdateGroup(gi, Group(cgUrl.groups[gi].client, WithoutLabel(cgUrl.groups[gi].meta, k), None))

\* A Shift-click sets the runs up to the anchor to what the anchor is.
Anchored(gi) == cgView.anchors[gi] # None /\ Contains(Matched(cgUrl.groups[gi]), cgView.anchors[gi])
ClickedRuns(gi, r, shift) ==
    IF shift /\ Anchored(gi) THEN ToSet(Between(Matched(cgUrl.groups[gi]), cgView.anchors[gi], r)) ELSE {r}
Included(gi, r, shift) ==
    IF shift /\ Anchored(gi) THEN cgView.anchors[gi] \in Lit(gi) ELSE r \notin Lit(gi)
ClickRunBox(gi, r, shift) ==
    /\ cgView' = IF shift /\ Anchored(gi) THEN cgView ELSE [cgView EXCEPT !.anchors[gi] = r]
    /\ r \in ToSet(Matched(cgUrl.groups[gi])) \cap CgMayClick
    /\ cgUrl' = [cgUrl EXCEPT !.groups[gi] =
          SetGroupRuns(@, Matched(@), cgUrl.sample, ClickedRuns(gi, r, shift), Included(gi, r, shift))]
    /\ UNCHANGED cgIndex /\ CgSettle
ResetToSample(gi) ==
    cgUrl.groups[gi].runs # None /\ UpdateGroup(gi, [cgUrl.groups[gi] EXCEPT !.runs = None])

GroupHandlers(gi) ==
    \/ RemoveGroup(gi) \/ ResetToSample(gi)
    \/ \E c \in ToSet(CgClients) : ChooseClient(gi, c)
    \/ \E k \in CgKeys : AddMetadata(gi, k) \/ RemoveMetadata(gi, k)
    \/ \E k \in CgKeys : \E v \in ToSet(ValuesInOrder(k)) : PickValue(gi, k, v)
    \/ \E r \in CgMayClick, shift \in BOOLEAN : ClickRunBox(gi, r, shift)
SetSample(n) == CgGo([sample |-> n])
SetAgg(m) == CgGo([agg |-> m])

-----------------------------------------------------------------------------
(* The results. *)

SetBaseline(p, syn) ==
    CgGo([baseline |-> IF p = DefaultBaseline(syn) THEN None ELSE p])
SetHeatmapModel ==
    \/ \E metric \in {"mgas", "duration"} : CgGo([metric |-> metric])
    \/ \E color \in {"absolute", "baseline"} : CgGo([color |-> color])
    \/ cgUrl.color = "absolute" /\ cgUrl.metric = "mgas" /\ \E n \in CgLimits : CgGo([threshold |-> n])
    \/ \E n \in CgLimits : CgGo([slow |-> n])
FilterTests(syn) ==
    \/ \E q \in CgQueries : q # cgUrl.filter /\ CgGo([filter |-> q])
    \/ CgGo([regex |-> ~cgUrl.regex])
    \/ LET ns == {t \in DOMAIN syn[1].tests : GasOf(t, syn) # None}
       IN \E d \in {"file"} \cap Dims(ns) : \E v \in FacetValues(ns, cgUrl.filter, d) :
            CgGo([filter |-> ToggleChip(cgUrl.filter, d, v)])
ToggleBucket(syn) ==
    /\ Cardinality(BucketsOf(syn)) > 1
    /\ \/ CgGo([buckets |-> {}])
       \/ \E b \in BucketsOf(syn) :
            CgGo([buckets |-> IF b \in cgUrl.buckets THEN cgUrl.buckets \ {b} ELSE cgUrl.buckets \cup {b}])
SetComparisonCharts(syn) ==
    \/ \E type \in {"line", "bar", "dot"} : CgGo([chart |-> type])
    \/ Len(syn) >= 2 /\ \E d \in {"all", "faster", "slower"} : CgGo([diff |-> d])
\* A column of a run sorts while another run is what it is compared to. The
\* page of the table is only left by its own controls.
SortComparison(syn) ==
    \E c \in ({"order", "name", "gasUsed", "avgValue"} \X {0})
              \cup (IF TableBaseline(syn) \in DOMAIN syn
                    THEN {"run"} \X (DOMAIN syn \ {TableBaseline(syn)}) ELSE {}) :
        /\ cgUrl' = [cgUrl EXCEPT !.sort = c, !.dir = IF c = cgUrl.sort THEN Flip(@) ELSE "asc"]
        /\ cgView' = [cgView EXCEPT !.tablePage = 1]
        /\ UNCHANGED cgIndex /\ CgSettle
CompareTo(syn) == \E b \in {Best, Worst} \cup DOMAIN syn : CgGo([tableBase |-> b])
LookAt(view) ==
    /\ cgView' = Over(view, cgView) /\ UNCHANGED <<cgIndex, cgUrl>> /\ CgSettle
ClickGroup(gi) == LookAt([highlight |-> IF cgView.highlight = gi THEN None ELSE gi])
TurnComparison(syn) ==
    \E p \in PageLinks(cgView.tablePage, PageCount(ComparisonRows(syn), CgPageSize)) :
        LookAt([tablePage |-> p])
OrderHeatmap == LookAt([order |-> IF cgView.order = "order" THEN "spread" ELSE "order"])

OpenCgTest(t) == cgUrl.modal = None /\ CgGo([modal |-> t])
CloseCgTest == CgGo([modal |-> None])
InModal(modal) ==
    /\ ModalShown /\ cgModal' = modal /\ UNCHANGED <<cgIndex, cgUrl, cgLoaded, cgView>>
ExpandGroup(gi) ==
    InModal([cgModal EXCEPT !.expanded = IF gi \in @ THEN @ \ {gi} ELSE @ \cup {gi}])
PickRow(gi, r) ==
    /\ gi \in cgModal.expanded
    /\ r \in cgModal.picked \/ Cardinality(cgModal.picked) < MostPicked
    /\ InModal([cgModal EXCEPT !.picked = IF r \in @ THEN @ \ {r} ELSE @ \cup {r}])
SortRows(key) ==
    /\ cgModal.expanded # {}
    /\ InModal(IF cgModal.key = key THEN [cgModal EXCEPT !.dir = Flip(@)]
               ELSE [cgModal EXCEPT !.key = key, !.dir = IF key = "mgas" THEN "desc" ELSE "asc"])
ClearPicks == cgModal.picked # {} /\ InModal([cgModal EXCEPT !.picked = {}])
ModalHandlers ==
    \/ CloseCgTest \/ ClearPicks
    \/ \E gi \in DOMAIN cgUrl.groups : \/ ExpandGroup(gi)
                                       \/ \E i \in DOMAIN ModalTable(gi) : PickRow(gi, ModalTable(gi)[i].run)
    \/ \E key \in {"run", "mgas", "gas"} : SortRows(key)
\* The picked runs go to the page that compares runs.
CompareRows == IF Cardinality(cgModal.picked) >= FewestPicked THEN cgModal.picked ELSE {}

ResultHandlers ==
    \E syn \in {Synthetic} :
       /\ syn # <<>> /\ cgUrl.modal = None
       /\ \/ \E p \in DOMAIN syn : SetBaseline(p, syn) \/ ClickGroup(syn[p].index)
          \/ SetHeatmapModel \/ FilterTests(syn) \/ ToggleBucket(syn) \/ SetComparisonCharts(syn)
          \/ SortComparison(syn) \/ CompareTo(syn) \/ TurnComparison(syn) \/ OrderHeatmap
          \/ \E t \in CgTests(syn) : OpenCgTest(t)

CgNext ==
    \/ PollCg \/ AddGroup \/ AnswerQuery
    \/ \E s \in CgSuites \cup {None} : ChooseCgSuite(s)
    \/ cgUrl.modal = None /\ cgUrl.suite # None /\ \E gi \in DOMAIN cgUrl.groups : GroupHandlers(gi)
    \/ \E n \in CgSamples : SetSample(n)
    \/ \E m \in {"avg", "median"} : SetAgg(m)
    \/ ResultHandlers
    \/ ModalShown /\ ModalHandlers

CgSpec == CgInit /\ [][CgNext]_cgVars

-----------------------------------------------------------------------------
(* What the page promises. *)

\* A click on the box of a run lights exactly it, or the runs up to the anchor,
\* or puts them out, and leaves the boxes of the other groups as they are:
\* whatever goes from a list of runs to "automatic" and back on the way to the
\* URL (groupUtils.ts setGroupRuns, selectGroupRuns). The boxes are clicked while
\* no dialog hides them.
BoxesFollowClicks ==
    [][(/\ cgUrl.modal = None /\ cgIndex' = cgIndex /\ cgLoaded' \subseteq cgLoaded
        /\ cgUrl' = [cgUrl EXCEPT !.groups = cgUrl'.groups]) =>
       \A gi \in DOMAIN cgUrl.groups : \A r \in CgMayClick, shift \in BOOLEAN :
          ClickRunBox(gi, r, shift) => \A lit \in {GroupRunsAt(cgIndex', cgUrl')} :
            /\ ToSet(lit[gi]) = IF Included(gi, r, shift) THEN Lit(gi) \cup ClickedRuns(gi, r, shift)
                                ELSE Lit(gi) \ ClickedRuns(gi, r, shift)
            /\ \A other \in DOMAIN cgUrl.groups \ {gi} : ToSet(lit[other]) = Lit(other)]_cgVars

\* What is compared under the name and the colour of a group is the average of
\* the results of the runs lit in the card of that group, although all results
\* lie in one list and groups without results are left out of the comparison
\* (CompareGroupsPage.tsx syntheticRuns, groupResultsForModal).
AveragesOwnRuns ==
    \A syn \in {Synthetic} : \A p \in DOMAIN syn :
         LET runs == RunsOf(syn[p].index)
             own == Among(runs, {r \in ToSet(runs) : CgResults[r] # None})
         IN syn[p].tests = Averaged([i \in DOMAIN own |-> CgResults[own[i]]])

\* "Run IDs per group for linking to run detail pages" (TestDetailModal.tsx): the
\* row of a run shows the figures of that run.
ModalRowsAreTheirRuns ==
    ModalShown => \A gi \in DOMAIN cgUrl.groups : \A i \in DOMAIN ModalRows(gi) :
        LET row == ModalRows(gi)[i]
        IN /\ CgResults[row.run] # None
           /\ row.stats = IF cgUrl.modal \in DOMAIN CgResults[row.run]
                             /\ StatsIn(CgResults[row.run][cgUrl.modal], cgUrl.steps) # None
                          THEN StatsIn(CgResults[row.run][cgUrl.modal], cgUrl.steps)
                          ELSE [f \in {"gas", "time", "fail"} |-> 0]
=============================================================================
