----------------------------- MODULE SuiteTests -----------------------------
(***************************************************************************)
(* The tab of a suite's tests: the heatmap of the newest runs, the opcodes, *)
(* the payload sizes and transactions, and the paged list with its dialog. *)
(* The list also serves the files of the pre-run steps. All of them follow *)
(* the query of the URL; what they keep beside it is lost with the tab.    *)
(*                                                                         *)
(* Speeds are whole numbers. What a dialog prints, tooltips, the drawing   *)
(* of canvases and the expression mode of the search are left out.         *)
(***************************************************************************)
EXTENDS SuitePage, TestQuery

CONSTANTS
    SuiteTestSeq,   \* the tests of the suite, in order:
                    \*        [name, steps, ops, sizes, txs]
    TestRuns,       \* name -> the runs of it: [client, id, start, steps]
    OpCategories,   \* the order of opcodes: [name, parts] with parts
                    \*        [name, ops]; one part without name is no grouping
    FileSizes, DefaultFileSize,
    SuiteQueries,   \* the queries a user types
    Limits, DefaultLimit   \* thresholds that may be entered

\* Of a payload all sizes are measured or none; what a test counts is a number.
ASSUME SuiteTestsAssumption ==
    /\ SuiteTestSeq \in Seq(ToSet(SuiteTestSeq)) /\ PreRunSteps \in Seq(ToSet(PreRunSteps))
    /\ \A test \in ToSet(SuiteTestSeq) :
         /\ test.sizes # None => test.sizes \in [ssz_full : Nat, ssz_bal : Nat, json_full : Nat]
         /\ test.txs # None => test.txs \in Nat
         /\ test.ops # <<>> => /\ IsFiniteSet(DOMAIN test.ops)
                               /\ \A o \in DOMAIN test.ops : test.ops[o] \in Nat
    /\ IsFiniteSet(DOMAIN TestRuns)
    /\ FileSizes \subseteq Nat \ {0} /\ DefaultFileSize \in FileSizes

VARIABLE suiteTab      \* what the components of the tab keep

suiteAllVars == <<suiteVars, suiteTab>>

\* The columns of a view, some of them.
SizeColumns(view) == {"index"} \cup (IF view = "json" THEN {"json_full"}
                                    ELSE {"ssz_full", "ssz_bal", "ssz_bal_pct"})
HeatColumns == {"testNumber", "avg", "min", "p99"}
DefaultSuiteTab ==
    [heatPage |-> 1, heatSort |-> "avg", heatDir |-> "asc", fileSize |-> DefaultFileSize,
     opSort |-> None, opDir |-> "desc", stacks |-> TRUE, txOrder |-> "index", full |-> FALSE]

SuiteTestsTypeOK ==
    /\ SuiteTypeOK /\ DOMAIN suiteTab = DOMAIN DefaultSuiteTab
    /\ suiteTab.heatPage \in Nat \ {0} /\ suiteTab.fileSize \in FileSizes

TestNames == [i \in DOMAIN SuiteTestSeq |-> SuiteTestSeq[i].name]
Searched(n) == NameMatches(n, suiteUrl.q)

-----------------------------------------------------------------------------
(* The heatmap of the tests: of each client the newest runs that have a rate. *)

Speed(d) == LET r == RowRate(d, suiteUrl.steps) IN IF r = None THEN None ELSE r[1] \div r[2]
\* topN, without sorting all of them.
NewestN(s, n) ==
    LET sorted == Sorted(s, LAMBDA a, b : b.start < a.start)
    IN SubSeq(sorted, 1, Min({n, Len(sorted)}))
HeatClients(t) ==
    {TestRuns[t][i].client : i \in {j \in DOMAIN TestRuns[t] : Speed(TestRuns[t][j]) # None}}
HeatRuns(t, c) ==
    NewestN(Kept(TestRuns[t], LAMBDA d : d.client = c /\ Speed(d) # None), suiteUrl.perClient)
HeatSpeeds(t, C) ==
    FoldSet(LAMBDA c, s : s \o [i \in DOMAIN HeatRuns(t, c) |-> Speed(HeatRuns(t, c)[i])], <<>>, C)

\* Fractions: avg, min and p99 of a sequence of speeds.
StatOf(speeds, stat) ==
    LET up == Ascending(speeds)
    IN CASE stat = "avg" -> <<FoldSeq(+, 0, speeds), Len(speeds)>>
         [] stat = "min" -> <<Head(up), 1>>
         [] stat = "p99" -> <<Percentile(up, 99), 100>>
HeatTests == {t \in DOMAIN TestRuns : HeatClients(t) # {}}
HeatStat(t, stat) == StatOf(HeatSpeeds(t, HeatClients(t)), stat)

TestNumber(t) ==
    LET at == {i \in DOMAIN TestNames : TestNames[i] = t}
    IN IF at = {} THEN Len(TestNames) + 1 ELSE Max(at)
HeatFound == Among(SetToSeq(HeatTests), {t \in HeatTests : Searched(t)})
HeatRows ==
    LET Key(t) == IF suiteTab.heatSort = "testNumber" THEN <<TestNumber(t), 1>>
                  ELSE HeatStat(t, suiteTab.heatSort)
    IN Sorted(HeatFound,
              LAMBDA a, b : IF suiteTab.heatDir = "asc" THEN RateLess(Key(a), Key(b))
                            ELSE RateLess(Key(b), Key(a)))
HeatOnPage == PageOf(HeatRows, suiteTab.heatPage, suiteUrl.heatSize)

Limit == IF suiteUrl.threshold = None THEN DefaultLimit ELSE suiteUrl.threshold
\* The histograms: of all clients, and of each.
HeatBins(C) ==
    LET ts == {t \in HeatTests : Searched(t) /\ HeatClients(t) \cap C # {}}
        At(t) == LET v == StatOf(HeatSpeeds(t, HeatClients(t) \cap C), suiteUrl.stat)
                 IN Bin(v[1], v[2] * Limit)
    IN [i \in 0..10 |-> Quantify(ts, LAMBDA t : At(t) = i)]
HeatSlow == Quantify(HeatTests, LAMBDA t :
    Searched(t) /\ LET v == HeatStat(t, suiteUrl.stat) IN v[1] < v[2] * Limit)

-----------------------------------------------------------------------------
(* The opcodes: tests that count some, under the columns in use. *)

HasOps(i) == SuiteTestSeq[i].ops # <<>>
OpTests == PlacesAmong(SuiteTestSeq, {i \in DOMAIN SuiteTestSeq : HasOps(i)})
OpsPresent == UNION {DOMAIN SuiteTestSeq[i].ops : i \in ToSet(OpTests)}
\* What a column counts: an opcode, or the opcodes of a part of a category.
PartOps(cat) == [p \in DOMAIN cat.parts |-> Kept(cat.parts[p].ops, LAMBDA o : o \in OpsPresent)]
OpColumnsOf(cat) ==
    LET ops == PartOps(cat)
        used == Kept([p \in DOMAIN ops |-> p], LAMBDA p : ops[p] # <<>>)
    IN IF cat.parts[1].name # None /\ suiteTab.stacks
       THEN [k \in DOMAIN used |-> [name |-> cat.parts[used[k]].name, ops |-> ToSet(ops[used[k]])]]
       ELSE LET flat == FlattenSeq(ops) IN [k \in DOMAIN flat |-> [name |-> flat[k], ops |-> {flat[k]}]]
OpOthers ==
    LET known == UNION {UNION {ToSet(c.parts[p].ops) : p \in DOMAIN c.parts} : c \in ToSet(OpCategories)}
        rest == SetToSeq(OpsPresent \ known)
    IN [k \in DOMAIN rest |-> [name |-> rest[k], ops |-> {rest[k]}]]
OpColumns == FlattenSeq([i \in DOMAIN OpCategories |-> OpColumnsOf(OpCategories[i])]) \o OpOthers

\* A column that is not there any more, after a switch of the grouping, still
\* sorts: an opcode by its count, a part of a category by nothing.
OpsOf(name) ==
    LET at == {i \in DOMAIN OpColumns : OpColumns[i].name = name}
    IN IF at = {} THEN {name} ELSE OpColumns[Max(at)].ops
OpCount(i, name) ==
    LET counts == SuiteTestSeq[i].ops
    IN FoldSet(LAMBDA o, n : n + counts[o], 0, OpsOf(name) \cap DOMAIN counts)
ByCount(rows, key) ==
    IF suiteTab.opDir = "desc" THEN Downwards(rows, key) ELSE Upwards(rows, key)
OpRows ==
    LET rows == Among(OpTests, {i \in ToSet(OpTests) : Searched(SuiteTestSeq[i].name)})
    IN IF suiteTab.opSort = None THEN rows
       ELSE ByCount(rows, [i \in ToSet(OpTests) |->
                             IF suiteTab.opSort = "#" THEN i ELSE OpCount(i, suiteTab.opSort)])
\* The shade of a cell is relative to the most of its column.
OpMost(name) == Max({0} \cup {OpCount(i, name) : i \in ToSet(OpRows)})

-----------------------------------------------------------------------------
(* The bars: payload sizes, and transactions. *)

SizeOf(i, field) ==
    LET sizes == SuiteTestSeq[i].sizes
    IN IF sizes = None THEN None
       ELSE IF field = "ssz_bal_pct"
            THEN (IF sizes.ssz_full > 0 THEN (100 * sizes.ssz_bal) \div sizes.ssz_full ELSE None)
            ELSE sizes[field]
\* A test of which nothing was measured has no bar.
SizeBars ==
    LET full == IF suiteUrl.psEncoding = "json" THEN "json_full" ELSE "ssz_full"
        shown == PlacesAmong(SuiteTestSeq, {i \in DOMAIN SuiteTestSeq :
                   /\ SuiteTestSeq[i].sizes # None /\ Searched(SuiteTestSeq[i].name)
                   /\ \E f \in {"ssz_full", "ssz_bal", "json_full"} : SizeOf(i, f) # 0})
    IN IF suiteUrl.psOrder = "index" THEN shown
       ELSE Downwards(shown, [i \in ToSet(shown) |-> SizeOf(i, full)])
TxBars ==
    LET shown == PlacesAmong(SuiteTestSeq, {i \in DOMAIN SuiteTestSeq :
                   SuiteTestSeq[i].txs # None /\ Searched(SuiteTestSeq[i].name)})
    IN IF suiteTab.txOrder = "index" THEN shown
       ELSE Downwards(shown, [i \in ToSet(shown) |-> SuiteTestSeq[i].txs])
HasSizes == \E i \in DOMAIN SuiteTestSeq : SuiteTestSeq[i].sizes # None

-----------------------------------------------------------------------------
(* The list: positions in the suite, or in its pre-run steps. *)

SizeBefore(a, b) ==
    LET x == IF suiteUrl.psort.col = "index" THEN a ELSE SizeOf(a, suiteUrl.psort.col)
        y == IF suiteUrl.psort.col = "index" THEN b ELSE SizeOf(b, suiteUrl.psort.col)
    IN \/ y = None /\ x # None
       \/ y # None /\ x # None /\ (IF suiteUrl.psort.dir = "asc" THEN x < y ELSE y < x)
OnTests == suiteUrl.tab = "tests"
OnFiles == suiteUrl.tab = "pre_run_steps"
\* Of a path the query is looked for as it is typed; no path has a blank.
FileMatches(f) ==
    IF OnFiles THEN suiteUrl.q = <<>> \/ (Len(suiteUrl.q) = 1 /\ suiteUrl.q[1].dim = NoDim
                                           /\ MatchesText(f, suiteUrl.q[1].word))
    ELSE Searched(f)
AllFiles == IF OnFiles THEN PreRunSteps ELSE TestNames
BySize(items) ==
    IF OnTests /\ suiteUrl.testView # "general" /\ suiteUrl.psort # None
    THEN Sorted(items, SizeBefore) ELSE items
FilesFound == PlacesAmong(AllFiles, {i \in DOMAIN AllFiles : FileMatches(AllFiles[i])})
FileItems == BySize(FilesFound)
FilesOnPage == PageOf(FileItems, suiteUrl.filesPage, suiteTab.fileSize)

-----------------------------------------------------------------------------
(* What the user does on the tab. *)

TabMay == \E away \in {(SuiteAway \cup AwayFrom(DefaultSuiteTab, suiteTab))'} : Together(away)
KeepTab == UNCHANGED suiteTab
OnList == OnTests \/ (OnFiles /\ PreRunSteps # <<>>)
TabGo(keeps, changes) == SuiteGo(keeps, changes, suiteView.page) /\ KeepTab /\ TabMay
TabSee(changes) ==
    /\ suiteTab' = Over(changes, suiteTab)
    /\ UNCHANGED suiteVars /\ TabMay /\ ~Choosing

\* The chips of the names: <<dimension, value>>.
SuiteChips ==
    LET ns == ToSet(TestNames)
    IN UNION {{<<d, v>> : v \in UNION {PartsOf[n][d] : n \in {m \in ns : d \in DOMAIN PartsOf[m]}}}
                : d \in Dims(ns)}
\* The search box, a chip or a facet: everything else stays as it is.
SearchSuite ==
    \E q \in SuiteQueries \cup {ToggleChip(suiteUrl.q, c[1], c[2]) : c \in SuiteChips} :
      /\ OnList /\ (OnFiles => q \in SuiteQueries) /\ Len(q) <= 1
      /\ TabGo(DOMAIN DefaultSuiteUrl, [q |-> q, filesPage |-> 1])

TurnFilesPage == OnList /\
    \/ \E p \in PageLinks(suiteUrl.filesPage, PageCount(FileItems, suiteTab.fileSize)) :
         p <= MostPages /\ TabGo(FilesKept, [filesPage |-> p])
    \/ \E n \in FileSizes :
         /\ FileItems # <<>>
         /\ suiteTab' = [suiteTab EXCEPT !.fileSize = n]
         /\ SuiteGo(FilesKept, [filesPage |-> 1], suiteView.page) /\ TabMay

\* A row, a cell or a bar opens the dialog of a test; the dialog is closed.
OpenFile == OnList /\
    \/ \E i \in ToSet(FilesOnPage) : TabGo(DialogKept, [detail |-> i])
    \/ OnTests /\ \E i \in ToSet(OpRows) \cup ToSet(SizeBars) \cup ToSet(TxBars) :
         TabGo(DialogKept, [detail |-> i])
CloseFile == OnList /\ suiteUrl.detail # None /\ TabGo(DialogKept, [detail |-> None])
SortDialog ==
    /\ OnTests /\ suiteUrl.detail \in ToSet(OpTests)
    /\ TabGo(DialogKept, [opcodeSort |-> IF suiteUrl.opcodeSort = "name" THEN "count" ELSE "name"])

\* The columns of the list; a third click on a header ends the sort.
ViewSizes ==
    /\ OnTests /\ HasSizes
    /\ \/ \E v \in {"general", "ssz", "json"} : TabGo(DialogKept, [testView |-> v])
       \/ \E o \in {"index", "size"} : TabGo(DialogKept, [psOrder |-> o])
       \/ \E e \in {"ssz", "json"} : TabGo(DialogKept, [psEncoding |-> e])
       \/ /\ suiteUrl.testView # "general"
          /\ \E c \in SizeColumns(suiteUrl.testView) : TabGo(DialogKept, [psort |->
               IF suiteUrl.psort = None \/ suiteUrl.psort.col # c THEN [col |-> c, dir |-> "desc"]
               ELSE IF suiteUrl.psort.dir = "desc" THEN [col |-> c, dir |-> "asc"] ELSE None])

\* The heatmap; its own parameters drop the query.
SetHeatmap == OnTests /\ HeatTests # {} /\
    \/ \E f \in {"showName", "regex", "full", "clientStat"} : TabGo(HeatKept, [x \in {f} |-> ~suiteUrl[f]])
    \/ \E s \in {"avg", "min", "p99"} : HeatRows # <<>> /\ TabGo(HeatKept, [stat |-> s])
    \/ \E l \in Limits \cup {None} : TabGo(HeatKept, [threshold |-> l])
    \/ \E n \in HeatmapCounts : TabGo(HeatKept, [perClient |-> n])
TurnHeatmap == OnTests /\ HeatTests # {} /\
    \/ \E p \in PageLinks(suiteTab.heatPage, PageCount(HeatFound, suiteUrl.heatSize)) :
         p <= MostPages /\ TabSee([heatPage |-> p])
    \/ \E c \in HeatColumns : TabSee([heatPage |-> 1, heatSort |-> c, heatDir |->
         IF suiteTab.heatSort = c THEN Flip(suiteTab.heatDir) ELSE "asc"])
    \/ \E n \in HeatmapCounts :
         /\ suiteTab' = [suiteTab EXCEPT !.heatPage = 1]
         /\ SuiteGo(HeatKept, [heatSize |-> n], suiteView.page) /\ TabMay

SetOpcodes == OnTests /\ OpTests # <<>> /\
    \/ TabSee([stacks |-> ~suiteTab.stacks]) \/ TabSee([full |-> ~suiteTab.full])
    \/ \E c \in {"#"} \cup {OpColumns[i].name : i \in DOMAIN OpColumns} : TabSee(
         IF suiteTab.opSort # c THEN [opSort |-> c, opDir |-> "desc"]
         ELSE IF suiteTab.opDir = "desc" THEN [opDir |-> "asc"] ELSE [opSort |-> None])
OrderBars == OnTests /\ \E o \in {"index", "count"} : TabSee([txOrder |-> o])

\* The same address again: what is not in it starts afresh.
ReloadSuite ==
    /\ suiteIndex' = 0 /\ suiteView' = DefaultSuiteView /\ suiteTab' = DefaultSuiteTab
    /\ suiteMode' = [mode |-> "off", chosen |-> {}, anchor |-> None, asked |-> {}]
    /\ UNCHANGED suiteUrl

-----------------------------------------------------------------------------
SuiteTestsInit == SuiteInit /\ suiteTab = DefaultSuiteTab

\* A tab that is left is unmounted.
OnPageStep ==
    /\ SuitePageNext
    /\ suiteTab' = IF suiteUrl'.tab = suiteUrl.tab THEN suiteTab ELSE DefaultSuiteTab
SuiteTestsNext ==
    \/ OnPageStep \/ SearchSuite \/ TurnFilesPage \/ OpenFile \/ CloseFile \/ SortDialog
    \/ ViewSizes \/ SetHeatmap \/ TurnHeatmap \/ SetOpcodes \/ OrderBars \/ ReloadSuite

SuiteTestsSpec == SuiteTestsInit /\ [][SuiteTestsNext]_suiteAllVars

-----------------------------------------------------------------------------
(* Properties. *)

\* Every link to a comparison is made of runs that have ended, passed, and are
\* the newest such of their client or group; no two of them are of the same.
SoundLink(link, scope, key) ==
    link # None =>
      \A i \in DOMAIN link :
        /\ link[i] \in scope /\ Ended(SuiteRows[link[i]]) /\ Passing(SuiteRows[link[i]])
        /\ \A j \in DOMAIN link : key[link[j]] = key[link[i]] => j = i
        /\ \A r \in scope : key[r] = key[link[i]] /\ Ended(SuiteRows[r]) /\ Passing(SuiteRows[r])
              => SuiteRows[r].start <= SuiteRows[link[i]].start
CompareLinksSound ==
  SuiteRuns # <<>> =>
    /\ SoundLink(LatestLink, CompletedRuns, ByBoth)
    /\ \A s \in Sections : SoundLink(SectionLink(s), SectionBoxes(s), ByClient)
    /\ \A c \in Range(ByClient) : SoundLink(AcrossLink(c), RunsOfClient(c), ByGroup)

\* A click on a key adds or removes that key and no other, although all keys
\* together are kept in the URL as no parameter and none of them as "none".
GroupKeysFollowClicks ==
    [][\A k \in GroupLabels \cup {"instance_id"} :
         ClickGroupKey(k) => GroupKeys' = (GroupKeys \ {k}) \cup ({k} \ GroupKeys)]_suiteAllVars

FilesPageFits ==
    OnList =>
      /\ suiteUrl.filesPage <= Max({1, PageCount(FileItems, suiteTab.fileSize)})
      /\ suiteUrl.detail # None => suiteUrl.detail \in DOMAIN AllFiles
\* The list of tests and that of files share the page and the dialog of the URL.
\* A page with rows keeps having rows and the dialog's position stays one of the
\* list's own at every step, but for a reload, which forgets the size of pages.
FilesKeepRows == FilesPageFits /\ ~ReloadSuite => FilesPageFits'
=============================================================================
