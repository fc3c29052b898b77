----------------------------- MODULE Pages_proofs -----------------------------
(***************************************************************************)
(* The pages of the UI, and those of their promises that are not on the    *)
(* choice of runs nor on the tools, for any tests, names and bounds.       *)
(*                                                                         *)
(* Visits: a behaviour of the browser is one of every page.                *)
(*                                                                         *)
(* Tests of a run: a chip tells how many tests a click leaves, the table   *)
(* stays on a page with rows, and what the heatmap counts agrees.          *)
(*                                                                         *)
(* Lists: those of suites, tests and files stay on a page with rows.       *)
(***************************************************************************)
EXTENDS Pages, LiveRun_proofs, Tools_proofs

-----------------------------------------------------------------------------
(* Visits. *)

\* One page is visited and the others stay as they are.
LEMMA OneIsVisited ==
  ASSUME [PagesNext]_pageVars
  PROVE  /\ [LiveNext]_liveVars /\ [RunTestsNext]_runTestVars /\ [SourceNext]_sourceVars
         /\ [PeersNext]_peerVars /\ [RunsNext]_runsVars /\ [SpNext]_spVars
         /\ [SuiteTestsNext]_suiteAllVars /\ [CgNext]_cgVars /\ [QbNext]_qbVars
         /\ [FvNext]_fvVars /\ [UaNext]_uaVars
  <1>1. CASE UNCHANGED pageVars
    BY <1>1 DEF pageVars
  <1>2. CASE LogStep
    BY <1>2 DEF LogStep
  <1>3. CASE TestsStep
    BY <1>3 DEF TestsStep
  <1>4. CASE SourceStep
    BY <1>4 DEF SourceStep
  <1>5. CASE PeersStep
    BY <1>5 DEF PeersStep
  <1>6. CASE RunsStep
    BY <1>6 DEF RunsStep
  <1>7. CASE SuitesStep
    BY <1>7 DEF SuitesStep
  <1>8. CASE SuiteStep
    BY <1>8 DEF SuiteStep
  <1>9. CASE GroupsStep
    BY <1>9 DEF GroupsStep
  <1>10. CASE QueryStep
    BY <1>10 DEF QueryStep
  <1>11. CASE FileStep
    BY <1>11 DEF FileStep
  <1>12. CASE UsersStep
    BY <1>12 DEF UsersStep
  <1> QED
    BY <1>1, <1>2, <1>3, <1>4, <1>5, <1>6, <1>7, <1>8, <1>9, <1>10, <1>11, <1>12 DEF PagesNext

\* What the browser does is what each page does, which is why the theorems on the
\* pages hold of it: the pages share no state (router.tsx mounts one at a time).
THEOREM VisitsAreOfPages ==
  PagesSpec => /\ LiveSpec /\ RunTestsSpec /\ SourceSpec /\ PeersSpec /\ RunsSpec /\ SpSpec
               /\ SuiteTestsSpec /\ CgSpec /\ QbSpec /\ FvSpec /\ UaSpec
  <1>1. PagesInit => /\ LiveInit /\ RunTestsInit /\ SourceInit /\ PeersInit /\ RunsInit
                     /\ SpInit /\ SuiteTestsInit /\ CgInit /\ QbInit /\ FvInit /\ UaInit
    BY DEF PagesInit
  <1> QED
    BY <1>1, OneIsVisited, PTL
       DEF PagesSpec, LiveSpec, RunTestsSpec, SourceSpec, PeersSpec, RunsSpec, SpSpec,
           SuiteTestsSpec, CgSpec, QbSpec, FvSpec, UaSpec

-----------------------------------------------------------------------------
(* Queries and chips. *)

\* A sequence, of whatever members.
IsSeq(s) == s \in Seq(ToSet(s))

LEMMA SeqIsSeq == ASSUME NEW S, NEW s \in Seq(S) PROVE IsSeq(s)
  <1>1. \A i \in 1..Len(s) : s[i] \in ToSet(s)
    BY DEF ToSet
  <1> QED
    BY <1>1 DEF IsSeq

\* The key of a chip leads back to its dimension, and is no free text.
LEMMA KeyLeadsBack ==
  ASSUME NEW d, d \notin {NoDim, "gas", "function"}
  PROVE  EmitKey(d) # NoDim /\ Canonical(EmitKey(d)) = d
  <1>1. NoDim # "gas"
    BY Zenon DEF NoDim
  <1>2. CASE d = "benchmark"
    BY <1>1, <1>2 DEF EmitKey, Canonical
  <1>3. CASE d # "benchmark"
    BY <1>3 DEF EmitKey, Canonical
  <1> QED
    BY <1>2, <1>3

\* A value of one word makes one term.
LEMMA OneTerm ==
  ASSUME NEW d, NEW v, IsSeq(v), Len(v) = 1
  PROVE  /\ v = <<v[1]>>
         /\ ChipTerms(d, v) = <<Term(EmitKey(d), v[1], TRUE)>>
  <1>1. v = <<v[1]>>
    BY DEF IsSeq
  <1>2. [i \in 1..(Len(v) - 1) |-> Term(NoDim, v[i + 1], FALSE)] = <<>>
    OBVIOUS
  <1>3. <<Term(EmitKey(d), v[1], TRUE)>> \o <<>> = <<Term(EmitKey(d), v[1], TRUE)>>
    OBVIOUS
  <1> QED
    BY <1>1, <1>2, <1>3 DEF ChipTerms

\* A query that lacks nothing without a dimension has no term of it.
LEMMA NoTermOf ==
  ASSUME NEW q, IsSeq(q), NEW d, WithoutDimension(q, d) = q
  PROVE  \A i \in DOMAIN q : q[i].dim = NoDim \/ Canonical(q[i].dim) # d
  <1> DEFINE others == {t \in ToSet(q) : t.dim = NoDim \/ Canonical(t.dim) # d}
  <1>1. Among(q, others) = q
    BY DEF WithoutDimension
  <1> HIDE DEF others
  <1>2. ToSet(Among(q, others)) = ToSet(q) \cap others
    BY AmongMembers DEF IsSeq
  <1>3. \A i \in DOMAIN q : q[i] \in ToSet(q)
    BY DEF ToSet
  <1>4. \A i \in DOMAIN q : q[i] \in others
    BY <1>1, <1>2, <1>3
  <1> QED
    BY <1>4 DEF others

\* The tests a chip leaves.
LEMMA ChipLeaves ==
  ASSUME NEW ns \in SUBSET Names, NEW q, IsSeq(q),
         NEW d, d \notin {NoDim, "gas", "function"}, WithoutDimension(q, d) = q,
         NEW v, IsSeq(v), Len(v) = 1
  PROVE  Matching(ns, ToggleChip(q, d, v))
           = {n \in Matching(ns, q) : d \in DOMAIN PartsOf[n] /\ v \in PartsOf[n][d]}
  <1> DEFINE t == Term(EmitKey(d), v[1], TRUE)
  <1>1. /\ t.dim = EmitKey(d) /\ t.word = v[1] /\ t.exact
        /\ EmitKey(d) # NoDim /\ Canonical(t.dim) = d
    BY KeyLeadsBack DEF Term
  <1>2. v = <<v[1]>> /\ ChipTerms(d, v) = <<t>>
    BY OneTerm
  <1> HIDE DEF t
  <1>3. ChipTerms(d, v)[1] = t
    BY <1>2
  <1>4. ~HasChip(q, d, v)
    <2>1. \A i \in DOMAIN q : q[i] # t
      BY <1>1, NoTermOf
    <2>2. DOMAIN q = 1..Len(q)
      BY DEF IsSeq
    <2> QED
      BY <1>3, <2>1, <2>2 DEF HasChip, Contains
  <1>5. ToggleChip(q, d, v) = q \o <<t>>
    BY <1>2, <1>4 DEF ToggleChip
  <1> DEFINE Fits(n, u) == IF u.dim = NoDim THEN MatchesText(n, u.word) ELSE MatchesField(n, u)
  <1>6. /\ DOMAIN (q \o <<t>>) = DOMAIN q \cup {Len(q) + 1}
        /\ \A i \in DOMAIN q : (q \o <<t>>)[i] = q[i]
        /\ (q \o <<t>>)[Len(q) + 1] = t
    BY DEF IsSeq
  <1>7. \A n, s : NameMatches(n, s) <=> \A i \in DOMAIN s : Fits(n, s[i])
    BY DEF NameMatches
  <1>8. \A n : Fits(n, t) <=> d \in DOMAIN PartsOf[n] /\ v \in PartsOf[n][d]
    BY <1>1, <1>2 DEF MatchesField
  <1> HIDE DEF Fits
  <1>9. \A n : NameMatches(n, q \o <<t>>) <=> NameMatches(n, q) /\ Fits(n, t)
    BY <1>6, <1>7
  <1> QED
    BY <1>5, <1>8, <1>9 DEF Matching

\* A chip of a dimension and a value of the names is of those that ChipLeaves is on.
LEMMA FacetsAre ==
  ASSUME NEW ns \in SUBSET Names, NEW q, NEW d \in Dims(ns)
  PROVE  /\ d \notin {NoDim, "gas", "function"}
         /\ \A v \in FacetValues(ns, q, d) : IsSeq(v)
  <1>1. \A n \in Names : \A e \in DOMAIN PartsOf[n] :
          /\ e \notin {NoDim, "gas", "function"}
          /\ \A v \in PartsOf[n][e] : IsSeq(v)
    BY TestNamesAssumption DEF NamesAssumption, IsSeq
  <1>2. \A w : IsSeq(<<w>>)
    <2>1. \A w : <<w>> \in Seq({w})
      OBVIOUS
    <2> QED
      BY <2>1, SeqIsSeq
  <1> QED
    BY <1>1, <1>2 DEF Dims, FacetValues

-----------------------------------------------------------------------------
(* The tests of a run. *)

\* The query is a sequence, and no genesis is chosen before the suite is there.
TestsInv ==
    /\ DOMAIN runUrl = DOMAIN DefaultUrl /\ DOMAIN runUi = DOMAIN DefaultUi
    /\ runUrl.page \in Nat \ {0} /\ runUrl.pageSize \in PageSizes
    /\ IsSeq(runUrl.q)
    /\ runSuite \/ runUi.genesis = "all"

\* What a step does to the parameters of the table: nothing, another page, or a
\* start from the first page.
SameTable ==
    /\ runUrl'.page = runUrl.page /\ runUrl'.pageSize = runUrl.pageSize
    /\ runUrl'.q = runUrl.q /\ runUrl'.status = runUrl.status
TurnsTable ==
    /\ runUrl'.page \in PageLinks(runUrl.page, TablePages) /\ runUrl'.pageSize = runUrl.pageSize
    /\ runUrl'.q = runUrl.q /\ runUrl'.status = runUrl.status
    /\ UNCHANGED <<runUi, runSuite>>
RestartsTable ==
    /\ runUrl'.page = 1 /\ runUrl'.pageSize \in PageSizes /\ IsSeq(runUrl'.q)
    /\ UNCHANGED <<runUi, runSuite>>
\* And what it does to the genesis and the suite.
GenesisStep ==
    \/ runUi'.genesis = runUi.genesis /\ UNCHANGED runSuite
    \/ runSuite /\ UNCHANGED runSuite
    \/ ~runSuite /\ runUi'.genesis = runUi.genesis
    \/ runUi'.genesis = "all"
Handled ==
    /\ DOMAIN runUrl' = DOMAIN DefaultUrl /\ DOMAIN runUi' = DOMAIN DefaultUi
    /\ SameTable \/ TurnsTable \/ RestartsTable
    /\ GenesisStep
    /\ runSuite' \/ runUi'.genesis = "all"

\* Two sequences in a row.
LEMMA JoinedIsSeq ==
  ASSUME NEW S, NEW T, NEW s \in Seq(S), NEW t \in Seq(T)
  PROVE  s \o t \in Seq(S \cup T)
  <1>1. s \in Seq(S \cup T) /\ t \in Seq(S \cup T)
    OBVIOUS
  <1> QED
    BY <1>1

\* A click on a chip leaves a query.
LEMMA ToggledIsSeq ==
  ASSUME NEW q, IsSeq(q), NEW d, NEW v, IsSeq(v)
  PROVE  IsSeq(ToggleChip(q, d, v))
  <1>1. CASE HasChip(q, d, v)
    <2> DEFINE e == ChipTerms(d, v)[1]
               I == {i \in 1..Len(q) : q[i] = e}
    <2>1. I # {} /\ I \subseteq DOMAIN q /\ I \in SUBSET Nat
      BY <1>1 DEF HasChip, Contains, IsSeq
    <2> HIDE DEF e
    <2>2. ToggleChip(q, d, v) = RemoveAt(q, Min(I))
      BY <1>1, <2>1 DEF ToggleChip, RemoveFirst, SelectInSeq, e
    <2> HIDE DEF I
    <2>3. Min(I) \in I
      BY <2>1, SmallestNat DEF Min
    <2>4. RemoveAt(q, Min(I)) \in Seq(ToSet(q))
      BY <2>1, <2>3, RemovedIsSeq DEF IsSeq
    <2> QED
      BY <2>2, <2>4, SeqIsSeq
  <1>2. CASE ~HasChip(q, d, v)
    <2> DEFINE more == [i \in 1..(Len(v) - 1) |-> Term(NoDim, v[i + 1], FALSE)]
               S == {Term(EmitKey(d), v[1], TRUE)} \cup {Term(NoDim, v[i + 1], FALSE) : i \in 1..(Len(v) - 1)}
    <2>1. Len(v) \in Nat
      BY DEF IsSeq
    <2>2. more \in Seq(S)
      <3>1. \A i \in 1..(Len(v) - 1) : more[i] \in S
        OBVIOUS
      <3>2. CASE Len(v) = 0
        BY <3>2
      <3>3. CASE Len(v) # 0
        <4>1. Len(v) - 1 \in Nat
          BY <2>1, <3>3
        <4>2. DOMAIN more = 1..(Len(v) - 1)
          OBVIOUS
        <4>3. more = [i \in 1..(Len(v) - 1) |-> more[i]]
          OBVIOUS
        <4> HIDE DEF S, more
        <4> QED
          BY <3>1, <4>1, <4>3
      <3> QED
        BY <3>2, <3>3
    <2>3. <<Term(EmitKey(d), v[1], TRUE)>> \in Seq(S)
      OBVIOUS
    <2>4. ToggleChip(q, d, v) = q \o (<<Term(EmitKey(d), v[1], TRUE)>> \o more)
      BY <1>2 DEF ToggleChip, ChipTerms
    <2> HIDE DEF S, more
    <2>5. ToggleChip(q, d, v) \in Seq(ToSet(q) \cup S)
      <3>1. <<Term(EmitKey(d), v[1], TRUE)>> \o more \in Seq(S)
        <4>1. <<Term(EmitKey(d), v[1], TRUE)>> \o more \in Seq(S \cup S)
          BY <2>2, <2>3, JoinedIsSeq
        <4> QED
          BY <4>1
      <3>2. q \in Seq(ToSet(q))
        BY DEF IsSeq
      <3> HIDE DEF IsSeq
      <3>3. q \o (<<Term(EmitKey(d), v[1], TRUE)>> \o more) \in Seq(ToSet(q) \cup S)
        BY <3>1, <3>2, JoinedIsSeq
      <3> QED
        BY <2>4, <3>3
    <2> QED
      BY <2>5, SeqIsSeq
  <1> QED
    BY <1>1, <1>2

\* A search with any query starts from the first page, and a dialog keeps the table.
LEMMA SearchRestarts ==
  ASSUME TestsInv, NEW q, IsSeq(q), SearchFor(q)
  PROVE  Handled
  BY DEF TestsInv, SearchFor, Navigate, DefaultUrl, Handled, RestartsTable, GenesisStep, IsSeq, ToSet

LEMMA DialogKeepsTable ==
  ASSUME TestsInv, NEW n, OpenTest(n)
  PROVE  Handled
  BY DEF TestsInv, OpenTest, Navigate, DefaultUrl, Handled, SameTable, GenesisStep

\* The values of the breakdown.
LEMMA ValuesAre ==
  ASSUME NEW ns \in SUBSET Names, NEW d, NEW v \in ValuesOf(ns, d)
  PROVE  IsSeq(v)
  BY TestNamesAssumption DEF NamesAssumption, ValuesOf, IsSeq

LEMMA TestsHandled ==
  ASSUME TestsInv, RunTestsNext
  PROVE  Handled
  <1> USE DEF Handled, GenesisStep
  <1>0. Results \subseteq Names
    BY RunTestsAssumption DEF TestsAssumption
  <1>1. CASE ChangePage
    BY <1>1 DEF TestsInv, ChangePage, Navigate, DefaultUrl, TurnsTable
  <1>2. CASE ChangePageSize
    BY <1>2 DEF TestsInv, ChangePageSize, Navigate, DefaultUrl, RestartsTable, IsSeq, ToSet
  <1>3. CASE ClickSort
    BY <1>3 DEF TestsInv, ClickSort, Navigate, DefaultUrl, SameTable
  <1>4. CASE Type
    <2>1. \A t : IsSeq(<<t>>)
      <3>1. \A t : <<t>> \in Seq({t})
        OBVIOUS
      <3> QED
        BY <3>1, SeqIsSeq
    <2> QED
      BY <1>4, <2>1, SearchRestarts DEF Type
  <1>5. CASE ChangeStatus
    BY <1>5 DEF TestsInv, ChangeStatus, Navigate, DefaultUrl, RestartsTable, IsSeq, ToSet
  <1>6. CASE ClickTest \/ CloseTest
    BY <1>6, DialogKeepsTable DEF ClickTest, CloseTest
  <1>7. CASE ChangeStepTab
    BY <1>7 DEF TestsInv, ChangeStepTab, DefaultUrl, DefaultUi, SameTable
  <1>8. CASE ToggleExecRow
    BY <1>8 DEF TestsInv, ToggleExecRow, Navigate, DefaultUrl, SameTable
  <1>9. CASE ToggleStep
    BY <1>9 DEF TestsInv, ToggleStep, Navigate, DefaultUrl, SameTable
  <1>10. CASE ChangeThreshold \/ ChangeSlow
    BY <1>10 DEF TestsInv, ChangeThreshold, ChangeSlow, Navigate, DefaultUrl, SameTable
  <1>11. CASE ChangeMode
    BY <1>11 DEF TestsInv, ChangeMode, Navigate, DefaultUrl, SameTable
  <1>12. CASE ClickFacet
    <2>1. PICK d \in Dims(Results) : \E v \in FacetValues(Results, runUrl.q, d) :
            SearchFor(ToggleChip(runUrl.q, d, v))
      BY <1>12 DEF ClickFacet
    <2>2. \A v \in FacetValues(Results, runUrl.q, d) : IsSeq(v)
      BY <1>0, FacetsAre
    <2> QED
      BY <2>1, <2>2, ToggledIsSeq, SearchRestarts DEF TestsInv
  <1>13. CASE ClickInsight
    <2>1. Samples \in SUBSET Names
      BY <1>0 DEF Samples
    <2>2. PICK d, v : /\ v \in ValuesOf(Samples, d)
                      /\ \/ \E n : OpenTest(n)
                         \/ SearchFor(ToggleChip(runUrl.q, d, v))
      BY <1>13 DEF ClickInsight
    <2> QED
      BY <2>1, <2>2, ValuesAre, ToggledIsSeq, SearchRestarts, DialogKeepsTable DEF TestsInv
  <1>14. CASE Locally
    BY <1>14 DEF TestsInv, Locally, HasGenesis, DefaultUi, SameTable
  <1>15. CASE SuiteAnswers
    BY <1>15 DEF TestsInv, SuiteAnswers, SameTable
  <1>16. CASE Reload
    BY <1>16 DEF TestsInv, Reload, DefaultUi, SameTable
  <1> QED
    BY <1>1, <1>2, <1>3, <1>4, <1>5, <1>6, <1>7, <1>8, <1>9, <1>10, <1>11, <1>12, <1>13,
       <1>14, <1>15, <1>16 DEF RunTestsNext

\* The results in order, and the rows of the table among them.
LEMMA ResultsInOrder == ResultSeq \in Seq(Results)
  <1> DEFINE n == Cardinality(Results)
  <1>1. n \in Nat /\ ExistsBijection(1..n, Results)
    BY RunTestsAssumption, FS_CardinalityType DEF TestsAssumption
  <1>2. \E f \in [1..n -> Results] : IsInjective(f)
    BY <1>1 DEF ExistsBijection, Bijection, Injection
  <1>3. ResultSeq \in [1..n -> Results]
    BY <1>2 DEF ResultSeq, SetToSeq
  <1> HIDE DEF n
  <1> QED
    BY <1>1, <1>3

LEMMA PagesAre ==
  ASSUME NEW some, NEW size \in PageSizes
  PROVE  /\ Len(Among(ResultSeq, some)) \in Nat
         /\ PageCount(Among(ResultSeq, some), size) \in Int
  <1>1. Among(ResultSeq, some) \in Seq(Results)
    BY ResultsInOrder, AmongMembers
  <1>2. Len(Among(ResultSeq, some)) \in Nat
    BY <1>1
  <1>3. size \in Nat \ {0}
    BY RunTestsAssumption DEF TestsAssumption
  <1> QED
    BY <1>2, <1>3 DEF PageCount

LEMMA TablePagesAre ==
  ASSUME TestsInv
  PROVE  TablePages \in Int
  BY PagesAre DEF TestsInv, TablePages, TableKept

LEMMA TestsInvInit == RunTestsInit => TestsInv
  <1> SUFFICES ASSUME RunTestsInit PROVE TestsInv
    OBVIOUS
  <1>1. <<>> \in Seq({})
    OBVIOUS
  <1>2. IsSeq(<<>>)
    BY <1>1, SeqIsSeq
  <1> QED
    BY <1>2, RunTestsAssumption DEF TestsAssumption, RunTestsInit, TestsInv, DefaultUrl, DefaultUi

LEMMA TestsInvStep == TestsInv /\ [RunTestsNext]_runTestVars => TestsInv'
  <1> SUFFICES ASSUME TestsInv, [RunTestsNext]_runTestVars PROVE TestsInv'
    OBVIOUS
  <1>1. CASE UNCHANGED runTestVars
    BY <1>1 DEF runTestVars, TestsInv, IsSeq, ToSet
  <1>2. CASE RunTestsNext
    <2>1. Handled
      BY <1>2, TestsHandled
    <2>2. runUrl'.page \in Nat \ {0}
      BY <2>1, TablePagesAre, PageLinksArePages
         DEF Handled, SameTable, TurnsTable, RestartsTable, TestsInv
    <2>3. runUrl'.pageSize \in PageSizes /\ IsSeq(runUrl'.q)
      BY <2>1 DEF Handled, SameTable, TurnsTable, RestartsTable, TestsInv
    <2>4. runSuite' \/ runUi'.genesis = "all"
      BY <2>1 DEF Handled, TestsInv
    <2> QED
      BY <2>1, <2>2, <2>3, <2>4 DEF Handled, TestsInv, IsSeq, ToSet, DefaultUrl, DefaultUi
  <1> QED
    BY <1>1, <1>2

\* The number on a chip is what a click on it leaves (FacetPanel.tsx, toggleSearchTerm
\* and compileQuery), whatever was searched before.
LEMMA FacetsTell == TestsInv => FacetTellsResult
  <1> SUFFICES ASSUME TestsInv, NEW d \in Dims(Results), NEW v \in FacetValues(Results, runUrl.q, d),
                      Len(v) = 1, WithoutDimension(runUrl.q, d) = runUrl.q
               PROVE  Cardinality(Matching(Results, ToggleChip(runUrl.q, d, v)))
                        = FacetCount(Results, runUrl.q, d, v)
    BY DEF FacetTellsResult
  <1>1. Results \in SUBSET Names
    BY RunTestsAssumption DEF TestsAssumption
  <1>2. d \notin {NoDim, "gas", "function"} /\ IsSeq(v) /\ IsSeq(runUrl.q)
    BY <1>1, FacetsAre DEF TestsInv
  <1>3. Matching(Results, ToggleChip(runUrl.q, d, v))
          = {n \in Matching(Results, runUrl.q) : d \in DOMAIN PartsOf[n] /\ v \in PartsOf[n][d]}
    BY <1>1, <1>2, ChipLeaves
  <1> QED
    BY <1>3 DEF FacetCount, Quantify

\* The number on a chip of FacetPanel.tsx is the number of tests that a click on it
\* leaves, for a value without a blank that no other term constrains.
THEOREM ChipsTellResults == PagesSpec => []ChipTellsResult
  <1>1. TestsInv => ChipTellsResult
    BY FacetsTell DEF ChipTellsResult
  <1> QED
    BY <1>1, TestsInvInit, TestsInvStep, VisitsAreOfPages, PTL DEF RunTestsSpec

\* A longer list has no fewer pages.
LEMMA PagesGrow ==
  ASSUME NEW s, NEW t, Len(s) \in Nat, Len(t) \in Nat, Len(s) <= Len(t),
         NEW size \in Nat \ {0}
  PROVE  PageCount(s, size) <= PageCount(t, size)
  <1> DEFINE a == Len(s) + size - 1
             b == Len(t) + size - 1
  <1>1. a \in Nat /\ b \in Nat /\ a <= b
    OBVIOUS
  <1> HIDE DEF a, b
  <1>2. a \div size <= b \div size
    BY <1>1
  <1> QED
    BY <1>2 DEF PageCount, a, b

\* More rows are kept if each that was kept still is.
LEMMA TableGrows ==
  ASSUME TestsInv, TestsInv', runUrl'.pageSize = runUrl.pageSize,
         \A n \in Results : TableKeeps(n) => TableKeeps(n)'
  PROVE  TablePages <= TablePages'
  <1> DEFINE old == {n \in Results : TableKeeps(n)}
             new == {n \in Results : TableKeeps(n)'}
  <1>1. old \subseteq new
    OBVIOUS
  <1>2. TableKept = Among(ResultSeq, old) /\ TableKept' = Among(ResultSeq, new)
    BY DEF TableKept
  <1> HIDE DEF old, new
  <1>3. Len(TableKept) <= Len(TableKept')
    BY <1>1, <1>2, ResultsInOrder, AmongGrows
  <1>4. Len(TableKept) \in Nat /\ Len(TableKept') \in Nat
    BY <1>2, PagesAre DEF TestsInv
  <1>5. runUrl.pageSize \in Nat \ {0}
    BY RunTestsAssumption DEF TestsAssumption, TestsInv
  <1> QED
    BY <1>3, <1>4, <1>5, PagesGrow DEF TablePages

\* A step that leaves the table's parameters alone takes no row away, unless it
\* picks a genesis.
LEMMA SameTableKeeps ==
  ASSUME TestsInv, TestsInv', SameTable, runUi'.genesis \in {runUi.genesis, "all"},
         NEW n \in Results, TableKeeps(n)
  PROVE  TableKeeps(n)'
  <1>1. runUi'.genesis \in {"all", GenesisOf(n)'}
    <2>1. CASE runUi'.genesis = "all"
      BY <2>1
    <2>2. CASE runUi'.genesis # "all"
      BY <2>2 DEF TestsInv, TableKeeps, GenesisOf
    <2> QED
      BY <2>1, <2>2
  <1> QED
    BY <1>1 DEF SameTable, TableKeeps, All

\* The table stays on a page of rows (RunDetailPage.tsx: every change of the query
\* or of the status goes back to the first page; Pagination.tsx offers no page
\* past the last from one that is not).
LEMMA TableStepFits ==
  ASSUME TestsInv, TestsInv', [RunTestsNext]_runTestVars
  PROVE  TableKeepsRows
  <1> SUFFICES ASSUME PageFits, runUi'.genesis \in {runUi.genesis, "all"} PROVE PageFits'
    BY DEF TableKeepsRows
  <1>1. SameTable \/ TurnsTable \/ RestartsTable
    <2>1. CASE RunTestsNext
      BY <2>1, TestsHandled DEF Handled
    <2>2. CASE UNCHANGED runTestVars
      BY <2>2 DEF runTestVars, SameTable
    <2> QED
      BY <2>1, <2>2
  <1>2. CASE SameTable
    <2>1. TablePages <= TablePages'
      BY <1>2, SameTableKeeps, TableGrows DEF SameTable
    <2>2. runUrl'.page = runUrl.page /\ runUrl.page \in Nat
      BY <1>2 DEF SameTable, TestsInv
    <2>3. TablePages \in Int /\ TablePages' \in Int
      BY PagesAre DEF TestsInv, TablePages, TableKept
    <2> QED
      BY <2>1, <2>2, <2>3 DEF PageFits
  <1>3. CASE TurnsTable
    <2>1. TablePages' = TablePages
      BY <1>3 DEF TurnsTable, TablePages, TableKept, TableKeeps, GenesisOf
    <2>2. runUrl'.page \in PageLinks(runUrl.page, TablePages)
      BY <1>3 DEF TurnsTable
    <2>3. TablePages \in Int /\ runUrl.page \in Nat \ {0}
      BY TablePagesAre DEF TestsInv
    <2>4. runUrl'.page <= TablePages
      BY <2>2, <2>3 DEF PageFits, PageLinks
    <2> QED
      BY <2>1, <2>4 DEF PageFits
  <1>4. CASE RestartsTable
    BY <1>4 DEF RestartsTable, PageFits
  <1> QED
    BY <1>1, <1>2, <1>3, <1>4

\* TestsTable.tsx keeps a page with rows: whatever takes rows away leads back to the
\* first page, except for the genesis, which is chosen in the table itself.
THEOREM TableKeepsPage == PagesSpec => TablePageHasRows
  <1>1. ASSUME TestsInv, TestsInv', [PagesNext]_pageVars
        PROVE  [mounted = "tests" => TableKeepsRows]_pageVars
    BY <1>1, OneIsVisited, TableStepFits
  <1> QED
    BY <1>1, TestsInvInit, TestsInvStep, VisitsAreOfPages, PTL
       DEF PagesSpec, RunTestsSpec, TablePageHasRows

-----------------------------------------------------------------------------
(* The heatmap of a run. *)

\* The limits, the steps that are looked at, and what the colours show.
LimitsInv ==
    /\ runUrl.slow \in Nat \ {0} /\ runUrl.threshold \in Nat
    /\ runUrl.steps \in SUBSET StepTypes /\ runUrl.color \in {"mgas", "duration"}

LEMMA LimitsInit == RunTestsInit => LimitsInv
  BY LimitsAssumption DEF MeasuresAssumption, RunTestsInit, LimitsInv, DefaultUrl, StepTypes

LEMMA LimitsStep == TestsInv /\ LimitsInv /\ [RunTestsNext]_runTestVars => LimitsInv'
  <1> SUFFICES ASSUME TestsInv, LimitsInv, [RunTestsNext]_runTestVars PROVE LimitsInv'
    OBVIOUS
  <1>0. DOMAIN runUrl = DOMAIN DefaultUrl
    BY DEF TestsInv
  <1> USE <1>0 DEF LimitsInv
  <1>1. ASSUME NEW q, SearchFor(q) PROVE LimitsInv'
    BY <1>1 DEF SearchFor, Navigate, DefaultUrl
  <1>2. ASSUME NEW n, OpenTest(n) PROVE LimitsInv'
    BY <1>2 DEF OpenTest, Navigate, DefaultUrl
  <1>3. CASE ChangePage \/ ChangePageSize
    BY <1>3 DEF ChangePage, ChangePageSize, Navigate, DefaultUrl
  <1>4. CASE ClickSort \/ ChangeStatus
    BY <1>4 DEF ClickSort, ChangeStatus, Navigate, DefaultUrl
  <1>5. CASE Type
    BY <1>1, <1>5 DEF Type
  <1>6. CASE ClickTest \/ CloseTest
    BY <1>2, <1>6 DEF ClickTest, CloseTest
  <1>7. CASE ChangeStepTab \/ ToggleExecRow
    BY <1>7 DEF ChangeStepTab, ToggleExecRow, Navigate, DefaultUrl
  <1>8. CASE ToggleStep
    <2>1. PICK s \in StepTypes : Navigate([runUrl EXCEPT !.steps = SymDiff(runUrl.steps, {s})])
      BY <1>8 DEF ToggleStep
    <2>2. SymDiff(runUrl.steps, {s}) \in SUBSET StepTypes
      BY DEF SymDiff
    <2> QED
      BY <2>1, <2>2 DEF Navigate, DefaultUrl
  <1>9. CASE ChangeThreshold
    <2>1. PICK t \in ThresholdInputs : Navigate([runUrl EXCEPT !.threshold = t])
      BY <1>9 DEF ChangeThreshold
    <2> QED
      BY <2>1, LimitsAssumption DEF MeasuresAssumption, Navigate, DefaultUrl
  <1>10. CASE ChangeSlow
    <2>1. PICK ms \in SlowInputs : ms > 0 /\ Navigate([runUrl EXCEPT !.slow = Min({ms, MaxSlow})])
      BY <1>10 DEF ChangeSlow
    <2>2. Min({ms, MaxSlow}) \in Nat \ {0}
      BY <2>1, LimitsAssumption, MinOfTwo DEF MeasuresAssumption
    <2> QED
      BY <2>1, <2>2 DEF Navigate, DefaultUrl
  <1>11. CASE ChangeMode
    BY <1>11 DEF ChangeMode, Navigate, DefaultUrl
  <1>12. CASE ClickFacet
    BY <1>1, <1>12 DEF ClickFacet
  <1>13. CASE ClickInsight
    BY <1>1, <1>2, <1>13 DEF ClickInsight
  <1>14. CASE Locally \/ SuiteAnswers \/ Reload
    BY <1>14 DEF Locally, SuiteAnswers, Reload
  <1>15. CASE UNCHANGED runTestVars
    BY <1>15 DEF runTestVars
  <1> QED
    BY <1>3, <1>4, <1>5, <1>6, <1>7, <1>8, <1>9, <1>10, <1>11, <1>12, <1>13, <1>14, <1>15
       DEF RunTestsNext

\* Extremes of some numbers up to n.
LEMMA MostOfRange ==
  ASSUME NEW n \in Nat, NEW S \in SUBSET (0..n), S # {}
  PROVE  /\ Max(S) \in S /\ \A x \in S : x <= Max(S)
         /\ Min(S) \in S /\ \A x \in S : Min(S) <= x
  <1> DEFINE down == {i \in 0..n : n - i \in S}
  <1>1. down \in SUBSET Nat
    OBVIOUS
  <1>2. \A x \in S : n - x \in down
    OBVIOUS
  <1>3. PICK i \in down : \A m \in down : i <= m
    BY <1>1, <1>2, SmallestNat
  <1>4. n - i \in S /\ \A x \in S : x <= n - i
    BY <1>2, <1>3
  <1>5. \E m \in S : \A x \in S : x <= m
    BY <1>4
  <1>6. \E m \in S : \A x \in S : m <= x
    <2>1. S \in SUBSET Nat
      OBVIOUS
    <2> QED
      BY <2>1, SmallestNat
  <1> QED
    BY <1>5, <1>6 DEF Max, Min

\* Steps 0 to 4 of the scale, and bins 4 to 10, begin at the limit.
LEMMA ScaleIs ==
  ASSUME NEW num \in Int, NEW den \in Nat \ {0}
  PROVE  ThresholdStep(num, den) <= 4 <=> den <= num
  <1> DEFINE S == {i \in 0..9 : 60 * num >= ScaleSteps[i + 1] * den} \cup {9}
  <1>1. ThresholdStep(num, den) = Min(S)
    BY DEF ThresholdStep
  <1>2. /\ ScaleSteps[1] = 180 /\ ScaleSteps[2] = 120 /\ ScaleSteps[3] = 90
        /\ ScaleSteps[4] = 75 /\ ScaleSteps[5] = 60
    BY DEF ScaleSteps
  <1>3. S \in SUBSET (0..9) /\ 9 \in S
    OBVIOUS
  <1>4. ASSUME NEW i \in 0..4, i \in S PROVE den <= num
    <2>1. i \in {0, 1, 2, 3, 4} /\ i # 9
      OBVIOUS
    <2>2. PICK at : at = ScaleSteps[i + 1] /\ at \in {180, 120, 90, 75, 60}
      BY <1>2, <2>1
    <2>3. 60 * num >= at * den
      BY <1>4, <2>1, <2>2
    <2> QED
      BY <2>2, <2>3
  <1>5. den <= num => 4 \in S
    BY <1>2
  <1> HIDE DEF S
  <1>6. PICK m \in S : m = Min(S) /\ \A x \in S : m <= x
    <2>1. Min(S) \in S /\ \A x \in S : Min(S) <= x
      BY <1>3, MostOfRange
    <2> QED
      BY <2>1
  <1>7. m \in 0..9 /\ (m \in 0..4 => den <= num) /\ (den <= num => m <= 4)
    BY <1>3, <1>4, <1>5, <1>6
  <1> QED
    BY <1>1, <1>6, <1>7

LEMMA BinIs ==
  ASSUME NEW num \in Nat, NEW den \in Nat \ {0}
  PROVE  Bin(num, den) \in 0..10 /\ (Bin(num, den) \in 4..10 <=> den <= num)
  <1> DEFINE S == {i \in 0..10 : 4 * num >= BinStarts[i + 1] * den}
  <1>1. Bin(num, den) = Max(S)
    BY DEF Bin
  <1>2. /\ BinStarts[1] = 0 /\ BinStarts[5] = 4 /\ BinStarts[6] = 5 /\ BinStarts[7] = 6
        /\ BinStarts[8] = 7 /\ BinStarts[9] = 8 /\ BinStarts[10] = 10 /\ BinStarts[11] = 12
    BY DEF BinStarts
  <1>3. S \in SUBSET (0..10) /\ 0 \in S
    BY <1>2
  <1>4. ASSUME NEW i \in 4..10, i \in S PROVE den <= num
    <2>1. i \in {4, 5, 6, 7, 8, 9, 10}
      OBVIOUS
    <2>2. PICK at : at = BinStarts[i + 1] /\ at \in {4, 5, 6, 7, 8, 10, 12}
      BY <1>2, <2>1
    <2>3. 4 * num >= at * den
      BY <1>4, <2>2
    <2> QED
      BY <2>2, <2>3
  <1>5. den <= num => 4 \in S
    BY <1>2
  <1> HIDE DEF S
  <1>6. PICK m \in S : m = Max(S) /\ \A x \in S : x <= m
    BY <1>3, MostOfRange
  <1>7. m \in 0..10 /\ (m \in 4..10 => den <= num) /\ (den <= num => 4 <= m)
    BY <1>3, <1>4, <1>5, <1>6
  <1> QED
    BY <1>1, <1>6, <1>7

\* What is measured of a test.
LEMMA MeasuresAre ==
  ASSUME NEW n \in Results, NEW fs \in SUBSET StepTypes
  PROVE  /\ IsFiniteSet(fs \cap DOMAIN Steps[n])
         /\ \A s \in fs \cap DOMAIN Steps[n] :
              \A f \in {"time", "gas", "gtime", "ok", "fail", "payloads", "longest"} : Steps[n][s][f] \in Nat
  <1>1. IsFiniteSet({"setup"} \cup {"test"} \cup {"cleanup"})
    BY FS_Singleton, FS_Union
  <1>2. StepTypes = {"setup"} \cup {"test"} \cup {"cleanup"}
    BY DEF StepTypes
  <1>3. fs \cap DOMAIN Steps[n] \in SUBSET StepTypes
    OBVIOUS
  <1>4. IsFiniteSet(fs \cap DOMAIN Steps[n])
    BY <1>1, <1>2, <1>3, FS_Subset
  <1> QED
    BY <1>4, LimitsAssumption DEF MeasuresAssumption

\* Numbers of the steps add up to one that is not negative, those of no step to 0.
LEMMA StepSumIsNat ==
  ASSUME NEW n \in Results, NEW fs \in SUBSET StepTypes,
         NEW x \in {"time", "gas", "gtime", "ok", "fail", "payloads", "longest"}
  PROVE  StepSum(n, fs, x) \in Nat /\ (fs \cap DOMAIN Steps[n] = {} => StepSum(n, fs, x) = 0)
  <1> DEFINE S == fs \cap DOMAIN Steps[n]
             f == [s \in S |-> Steps[n][s][x]]
             More(h) == [s \in SUBSET S |-> IF s = {} THEN 0
                            ELSE Steps[n][CHOOSE y \in s : TRUE][x] + h[s \ {CHOOSE y \in s : TRUE}]]
  <1>1. IsFiniteSet(S) /\ \A s \in S : f[s] = Steps[n][s][x] /\ f[s] \in Nat
    BY MeasuresAre
  <1> DEFINE sum == MapThenSumSet(LAMBDA s : Steps[n][s][x], S)
  <1>0. StepSum(n, fs, x) = sum
    BY DEF StepSum
  <1> HIDE DEF f, S
  <1>2. PICK g : Adds(g, f, S)
    BY <1>1, SumExists
  <1>3. {} \in SUBSET S
    OBVIOUS
  <1>4. \A s \in SUBSET S : s # {} => Others(s) \in SUBSET S /\ OneOf(s) \in S
    BY <1>1, OthersAreFewer
  <1>5. \A s \in SUBSET S : g[s] = IF s = {} THEN 0 ELSE Steps[n][OneOf(s)][x] + g[Others(s)]
    BY <1>1, <1>2, <1>3, <1>4 DEF Adds
  <1>6. g = [s \in SUBSET S |-> g[s]]
    BY <1>2 DEF Adds
  <1>7. g = More(g)
    BY <1>5, <1>6 DEF OneOf, Others
  <1>8. \E it : it = More(it) /\ sum = it[S]
    <2>1. (CHOOSE it : it = More(it)) = More(CHOOSE it : it = More(it))
      BY <1>7
    <2> QED
      BY <2>1 DEF MapThenSumSet, MapThenFoldSet
  <1> HIDE DEF sum
  <1>9. PICK it : it = More(it) /\ sum = it[S]
    BY <1>8
  <1>10. \A s \in SUBSET S : it[s] = IF s = {} THEN 0 ELSE Steps[n][OneOf(s)][x] + it[Others(s)]
    BY <1>9 DEF OneOf, Others
  <1>11. it[S] = g[S]
    <2>1. it[{}] = 0
      BY <1>3, <1>10
    <2>2. \A s \in SUBSET S : s # {} =>
            it[s] \in {f[OneOf(s)] + it[Others(s)], it[Others(s)] + f[OneOf(s)]}
      BY <1>1, <1>4, <1>10
    <2> QED
      BY <1>1, <1>2, <2>1, <2>2, SumIsUnique
  <1>12. sum \in Nat
    BY <1>1, <1>2, <1>9, <1>11, SumIsNat
  <1>13. S = {} => sum = 0
    BY <1>3, <1>9, <1>10
  <1> QED
    BY <1>0, <1>12, <1>13 DEF S

LEMMA RatesAre ==
  ASSUME LimitsInv, NEW n \in Results, RateOf(n) # None
  PROVE  RateOf(n)[1] \in Nat \ {0} /\ RateOf(n)[2] \in Nat \ {0}
  <1> DEFINE st == StatsOf[n][runUrl.steps]
  <1>1. st = Aggregated(n, runUrl.steps)
    BY DEF StatsOf, LimitsInv
  <1>2. st # None
    BY DEF RateOf
  <1>3. RateOf(n) = Rate(st.gas, st.gtime)
    BY <1>2 DEF RateOf
  <1>4. st.gas = StepSum(n, runUrl.steps, "gas") /\ st.gtime = StepSum(n, runUrl.steps, "gtime")
    BY <1>1, <1>2 DEF Aggregated
  <1>5. st.gas \in Nat /\ st.gtime \in Nat
    <2>1. runUrl.steps \in SUBSET StepTypes
      BY DEF LimitsInv
    <2> HIDE DEF st
    <2> QED
      BY <1>4, <2>1, StepSumIsNat
  <1> HIDE DEF st
  <1>6. RateOf(n) = <<st.gas, st.gtime>> /\ ~(st.gtime <= 0) /\ ~(st.gas <= 0)
    BY <1>3 DEF Rate
  <1> QED
    BY <1>5, <1>6

\* The largest of the numbers of at most three steps.
LEMMA LargestOfSteps ==
  ASSUME NEW used \in SUBSET StepTypes, used # {}, NEW F, \A s \in used : F[s]["longest"] \in Nat
  PROVE  Max({F[s].longest : s \in used}) \in Nat
  <1> DEFINE S == {F[s].longest : s \in used}
             a == F["setup"].longest
             b == F["test"].longest
             c == F["cleanup"].longest
  <1>1. \A x \in S : x \in {a, b, c} /\ x \in Nat
    BY DEF StepTypes
  <1>2. \E x : x \in S
    OBVIOUS
  <1> HIDE DEF S, a, b, c
  <1>3. \E x \in S : \A y \in S : x >= y
    <2>1. PICK x \in S : TRUE
      BY <1>2
    <2>2. CASE a \in S /\ (b \in S => a >= b) /\ (c \in S => a >= c)
      BY <1>1, <2>2
    <2>3. CASE b \in S /\ (a \in S => b >= a) /\ (c \in S => b >= c)
      BY <1>1, <2>3
    <2>4. CASE c \in S /\ (a \in S => c >= a) /\ (b \in S => c >= b)
      BY <1>1, <2>4
    <2> QED
      BY <1>1, <2>1, <2>2, <2>3, <2>4
  <1>4. Max(S) \in S
    BY <1>3 DEF Max
  <1> QED
    BY <1>1, <1>4 DEF S

LEMMA LongestIs ==
  ASSUME LimitsInv, NEW n \in Results
  PROVE  Longest(n) \in Nat
  <1> DEFINE used == runUrl.steps \cap DOMAIN Steps[n]
             calls == StepSum(n, runUrl.steps, "payloads")
             all == StepSum(n, runUrl.steps, "gtime")
             most == Max({Steps[n][s].longest : s \in used})
  <1>0. runUrl.steps \in SUBSET StepTypes
    BY DEF LimitsInv
  <1>1. Longest(n) = IF calls = 0 THEN all ELSE most
    BY <1>0 DEF Longest, LongestOf, SlowestPayload
  <1>2. used \in SUBSET StepTypes /\ \A s \in used : Steps[n][s]["longest"] \in Nat
    BY <1>0, MeasuresAre
  <1>3. all \in Nat /\ (used = {} => calls = 0)
    BY <1>0, StepSumIsNat
  <1>4. used # {} => most \in Nat
    <2> HIDE DEF used
    <2> QED
      BY <1>2, LargestOfSteps
  <1> QED
    BY <1>1, <1>3, <1>4

\* A bright tile with data.
LEMMA TilesAre ==
  ASSUME LimitsInv
  PROVE  /\ IsFiniteSet(MeasuredTiles)
         /\ \A t \in MeasuredTiles :
              /\ t.rate[1] \in Nat \ {0} /\ t.rate[2] \in Nat \ {0} /\ t.longest \in Nat
              /\ t.slow \in BOOLEAN /\ (t.slow <=> t.longest > runUrl.slow)
  <1>1. ASSUME NEW t \in MeasuredTiles PROVE \E n \in Results : t = Tile(n) /\ RateOf(n) # None
    <2>1. PICK n \in TileNames : t = Tile(n) /\ ~t.noData
      BY DEF MeasuredTiles, Bright, Tiles
    <2>2. n \in Results
      BY <2>1 DEF Tile
    <2>3. t.noData = (RateOf(n) = None)
      BY <2>1, <2>2 DEF Tile
    <2> QED
      BY <2>1, <2>2, <2>3
  <1>2. IsFiniteSet(MeasuredTiles)
    <2> DEFINE made == [n \in Results |-> Tile(n)]
               T == {made[n] : n \in Results}
    <2>1. made \in Surjection(Results, T)
      BY DEF Surjection
    <2>2. IsFiniteSet(Results)
      BY RunTestsAssumption DEF TestsAssumption
    <2>3. MeasuredTiles \in SUBSET T
      BY <1>1
    <2> HIDE DEF made, T
    <2> QED
      BY <2>1, <2>2, <2>3, FS_Surjection, FS_Subset
  <1>3. ASSUME NEW t \in MeasuredTiles
        PROVE  /\ t.rate[1] \in Nat \ {0} /\ t.rate[2] \in Nat \ {0} /\ t.longest \in Nat
               /\ t.slow \in BOOLEAN /\ (t.slow <=> t.longest > runUrl.slow)
    <2>1. PICK n \in Results : t = Tile(n) /\ RateOf(n) # None
      BY <1>1, <1>3
    <2>2. /\ t.rate = RateOf(n) /\ t.longest = Longest(n)
          /\ t.slow = (RateOf(n) # None /\ IsSlow(Longest(n), runUrl.slow))
      BY <2>1 DEF Tile
    <2>3. Longest(n) \in Nat /\ RateOf(n)[1] \in Nat \ {0} /\ RateOf(n)[2] \in Nat \ {0}
      BY <2>1, LongestIs, RatesAre
    <2> QED
      BY <2>1, <2>2, <2>3 DEF IsSlow
  <1> QED
    BY <1>2, <1>3

\* How one tile is counted.
LEMMA TileCounts ==
  ASSUME LimitsInv, NEW t \in MeasuredTiles
  PROVE  LET slow == IF runUrl.color = "duration" THEN t.slow
                     ELSE t.rate[1] < Threshold * t.rate[2]
         IN /\ BinOf(t) \in 0..10
            /\ Colour(t.rate, t.longest) <= 4 <=> ~slow
            /\ runUrl.color = "mgas" => (BinOf(t) \in 4..10 <=> ~slow)
            /\ runUrl.color # "mgas" => /\ BinOf(t) \in 4..10 <=> slow \/ t.longest = runUrl.slow
                                        /\ ~(slow /\ t.longest = runUrl.slow)
  <1>1. /\ t.rate[1] \in Nat \ {0} /\ t.rate[2] \in Nat \ {0} /\ t.longest \in Nat
        /\ t.slow \in BOOLEAN /\ (t.slow <=> t.longest > runUrl.slow)
    BY TilesAre
  <1>2. Threshold \in Nat \ {0}
    BY LimitsAssumption DEF MeasuresAssumption, LimitsInv, Threshold
  <1>3. runUrl.slow \in Nat \ {0} /\ runUrl.color \in {"mgas", "duration"}
    BY DEF LimitsInv
  <1>4. CASE runUrl.color = "mgas"
    <2> DEFINE need == t.rate[2] * Threshold
    <2>1. need \in Nat \ {0} /\ need = Threshold * t.rate[2]
      <3>1. \A x, y \in Nat \ {0} : x * y \in Nat \ {0} /\ x * y = y * x
        OBVIOUS
      <3> QED
        BY <1>1, <1>2, <3>1
    <2>2. BinOf(t) = Bin(t.rate[1], need) /\ Colour(t.rate, t.longest) = ThresholdStep(t.rate[1], need)
      BY <1>4 DEF BinOf, Colour
    <2> HIDE DEF need
    <2>3. /\ Bin(t.rate[1], need) \in 0..10 /\ (Bin(t.rate[1], need) \in 4..10 <=> need <= t.rate[1])
          /\ (ThresholdStep(t.rate[1], need) <= 4 <=> need <= t.rate[1])
      BY <1>1, <2>1, BinIs, ScaleIs
    <2>4. need <= t.rate[1] <=> ~(t.rate[1] < Threshold * t.rate[2])
      BY <1>1, <2>1
    <2> QED
      BY <1>4, <2>2, <2>3, <2>4
  <1>5. CASE runUrl.color = "duration"
    <2>1. /\ BinOf(t) = Bin(t.longest, runUrl.slow)
          /\ Colour(t.rate, t.longest) = IF t.longest <= 0 THEN 0 ELSE ThresholdStep(runUrl.slow, t.longest)
      BY <1>5 DEF BinOf, Colour
    <2>2. Bin(t.longest, runUrl.slow) \in 0..10 /\ (Bin(t.longest, runUrl.slow) \in 4..10 <=> runUrl.slow <= t.longest)
      BY <1>1, <1>3, BinIs
    <2>3. t.longest > 0 => (ThresholdStep(runUrl.slow, t.longest) <= 4 <=> t.longest <= runUrl.slow)
      <3>1. t.longest > 0 => t.longest \in Nat \ {0} /\ runUrl.slow \in Int
        BY <1>1, <1>3
      <3> QED
        BY <3>1, ScaleIs
    <2> QED
      BY <1>1, <1>3, <1>5, <2>1, <2>2, <2>3
  <1> QED
    BY <1>3, <1>4, <1>5

\* The four counts agree.
LEMMA TilesAgree == LimitsInv => CountersAgree
  <1> SUFFICES ASSUME LimitsInv PROVE CountersAgree
    OBVIOUS
  <1> DEFINE ts == MeasuredTiles
             bins == Histogram(ts)
             b == [t \in ts |-> BinOf(t)]
             good == {t \in ts : Colour(t.rate, t.longest) <= 4}
             slow == {t \in ts : IF runUrl.color = "duration" THEN t.slow
                                 ELSE t.rate[1] < Threshold * t.rate[2]}
             exact == {t \in ts : t.longest = runUrl.slow}
             right == Binned(ts, b, 4..10)
  <1>1. IsFiniteSet(ts)
    BY TilesAre
  <1>2. ASSUME NEW t \in ts
        PROVE  /\ b[t] \in 0..10 /\ (t \in good <=> t \notin slow)
               /\ runUrl.color = "mgas" => (t \in right <=> t \notin slow)
               /\ runUrl.color # "mgas" => /\ t \in right <=> t \in slow \/ t \in exact
                                           /\ ~(t \in slow /\ t \in exact)
    BY TileCounts DEF Binned
  <1>3. \A i \in 0..10 : bins[i] = Cardinality(Binned(ts, b, {i}))
    <2> SUFFICES ASSUME NEW i \in 0..10 PROVE bins[i] = Cardinality(Binned(ts, b, {i}))
      OBVIOUS
    <2>1. bins[i] = Cardinality({t \in ts : BinOf(t) = i})
      BY DEF Histogram, Quantify
    <2>2. {t \in ts : BinOf(t) = i} = Binned(ts, b, {i})
      BY DEF Binned
    <2> QED
      BY <2>1, <2>2
  <1>4. /\ FastCount(ts) = Cardinality(ts) - Cardinality(slow)
        /\ SlowCount(ts) = Cardinality(slow)
    BY DEF FastCount, SlowCount, Quantify
  <1>5. CountersAgree <=>
          /\ Summed(bins, 0..10) = Cardinality(ts) /\ Cardinality(good) = FastCount(ts)
          /\ IF runUrl.color = "mgas" THEN Summed(bins, 4..10) = FastCount(ts)
             ELSE Summed(bins, 4..10) = SlowCount(ts) + Cardinality(exact)
    BY DEF CountersAgree, AgreeOn, Summed, Quantify
  <1>6. good \in SUBSET ts /\ slow \in SUBSET ts /\ exact \in SUBSET ts /\ right \in SUBSET ts
    BY DEF Binned
  <1> HIDE DEF ts, bins, good, slow, exact
  <1>7. Summed(bins, 0..10) = Cardinality(ts)
    <2>1. Binned(ts, b, 0..10) = ts
      BY <1>2 DEF Binned
    <2>2. IsFiniteSet(0..10)
      <3>1. 0 \in Int /\ 10 \in Int
        OBVIOUS
      <3> QED
        BY <3>1, FS_Interval, Zenon
    <2> HIDE DEF b
    <2>3. Summed(bins, 0..10) = Cardinality(Binned(ts, b, 0..10))
      BY <1>1, <1>3, <2>2, BinsAdd
    <2> QED
      BY <2>1, <2>3
  <1>8. Summed(bins, 4..10) = Cardinality(right)
    <2>1. IsFiniteSet(4..10)
      <3>1. 4 \in Int /\ 10 \in Int
        OBVIOUS
      <3> QED
        BY <3>1, FS_Interval, Zenon
    <2>2. \A i \in 4..10 : bins[i] = Cardinality(Binned(ts, b, {i}))
      BY <1>3
    <2> HIDE DEF b
    <2> QED
      BY <1>1, <2>1, <2>2, BinsAdd
  <1> HIDE DEF b, right
  <1>9. /\ IsFiniteSet(good) /\ IsFiniteSet(slow) /\ IsFiniteSet(exact)
        /\ \A x \in {Cardinality(ts), Cardinality(good), Cardinality(slow), Cardinality(exact)} : x \in Nat
    BY <1>1, <1>6, FS_Subset, FS_CardinalityType
  <1>10. good \cup slow = ts /\ good \cap slow = {}
    BY <1>2, <1>6
  <1>11. Cardinality(ts) = Cardinality(good) + Cardinality(slow)
    BY <1>9, <1>10, DisjointAdd
  <1>12. runUrl.color = "mgas" => right = good
    BY <1>2, <1>6
  <1>13. runUrl.color # "mgas" => Cardinality(right) = Cardinality(slow) + Cardinality(exact)
    <2> SUFFICES ASSUME runUrl.color # "mgas" PROVE Cardinality(right) = Cardinality(slow) + Cardinality(exact)
      OBVIOUS
    <2>1. right = slow \cup exact /\ slow \cap exact = {}
      BY <1>2, <1>6
    <2> QED
      BY <1>9, <2>1, DisjointAdd
  <1> QED
    BY <1>4, <1>5, <1>7, <1>8, <1>9, <1>11, <1>12, <1>13

\* TestHeatmap.tsx: the bins of the histogram add up to the tiles with data, the
\* bins right of the limit to the tiles that are fast (or, by duration, slow or
\* exactly at the limit), and the tiles in a good colour are the fast ones.
THEOREM CountsAgree == PagesSpec => []HeatmapCountersAgree
  <1>1. LimitsInv => HeatmapCountersAgree
    BY TilesAgree DEF HeatmapCountersAgree
  <1> QED
    BY <1>1, TestsInvInit, TestsInvStep, LimitsInit, LimitsStep, VisitsAreOfPages, PTL DEF RunTestsSpec

-----------------------------------------------------------------------------
(* The list of suites. *)

\* The parameters are those of the page, and the index is one of those fetched.
SuitesInv ==
    /\ DOMAIN spUrl = DOMAIN DefaultSpUrl
    /\ spUrl.page \in Nat \ {0}
    /\ spAt \in 0..Len(SpIndexes)

\* What a step does to the list of suites: it may grow by a summary that has come, a
\* page is turned, what chooses the suites changes with the page, or an index comes.
SameSuites ==
    /\ \A p \in {"labels", "hide", "days", "groupBy"} : spUrl'[p] = spUrl[p]
    /\ spAt' = spAt
SuitesHandled ==
    /\ DOMAIN spUrl' = DOMAIN DefaultSpUrl
    /\ \/ SameSuites /\ spUrl'.page = spUrl.page /\ spKnown \subseteq spKnown'
       \/ /\ SameSuites /\ spKnown' = spKnown /\ SpGroupKeys = <<>>
          /\ spUrl'.page \in PageLinks(spUrl.page, PageCount(VisibleSuites, SpSize))
       \/ spUrl'.page = 1 /\ spAt' = spAt
       \/ spUrl' = spUrl /\ spKnown' = spKnown /\ spAt' \in 0..Len(SpIndexes)

LEMMA SuitesStepHandled ==
  ASSUME SuitesInv, [SpNext]_spVars
  PROVE  SuitesHandled
  <1> USE DEF SuitesHandled, SuitesInv
  <1>1. DOMAIN DefaultSpUrl = {"page", "sortBy", "dir", "groupBy", "labels", "hide", "days"}
    BY DEF DefaultSpUrl
  <1>2. ASSUME NEW changes, NEW drop, SpGo(changes, drop),
               DOMAIN changes \subseteq DOMAIN DefaultSpUrl
        PROVE  /\ DOMAIN spUrl' = DOMAIN DefaultSpUrl /\ spAt' = spAt /\ spKnown' = spKnown
               /\ \A p \in DOMAIN DefaultSpUrl :
                    spUrl'[p] = IF p \in DOMAIN changes THEN changes[p] ELSE spUrl[p]
    <2>1. spUrl' = [p \in DOMAIN changes \cup DOMAIN spUrl |->
                      IF p \in DOMAIN changes THEN changes[p] ELSE spUrl[p]]
      BY <1>2 DEF SpGo, Over
    <2>2. DOMAIN changes \cup DOMAIN spUrl = DOMAIN DefaultSpUrl
      BY <1>2
    <2>3. spAt' = spAt /\ spKnown' = spKnown
      BY <1>2 DEF SpGo
    <2> HIDE DEF SuitesInv, SuitesHandled
    <2> QED
      BY <2>1, <2>2, <2>3
  <1>3. CASE SetInactive
    <2>1. PICK d : SpGo([days |-> d, page |-> 1], None)
      BY <1>3 DEF SetInactive
    <2> QED
      BY <1>1, <1>2, <2>1
  <1>4. CASE ToggleHide
    BY <1>1, <1>2, <1>4 DEF ToggleHide
  <1>5. CASE ToggleGroupByKey
    <2>1. PICK g : SpGo([groupBy |-> g, page |-> 1], None)
      BY <1>5 DEF ToggleGroupByKey
    <2> QED
      BY <1>1, <1>2, <2>1
  <1>6. CASE SortSuites
    <2>1. PICK c, d : SpGo([sortBy |-> c, dir |-> d], None)
      BY <1>6 DEF SortSuites
    <2> QED
      BY <1>1, <1>2, <2>1 DEF SameSuites
  <1>7. CASE TurnSuitesPage
    BY <1>1, <1>7 DEF TurnSuitesPage, SameSuites
  <1>8. CASE OpenKeys \/ AddKey \/ ClickChip \/ CloseDropdown
    BY <1>8 DEF OpenKeys, AddKey, ClickChip, CloseDropdown, SpOpen, SameSuites
  <1>9. CASE ToggleFilterValue
    <2>1. PICK f : SpGo([labels |-> f, page |-> 1], spDrop)
      BY <1>9 DEF ToggleFilterValue
    <2> QED
      BY <1>1, <1>2, <2>1
  <1>10. CASE RemoveFilterKey
    <2>1. PICK f : SpGo([labels |-> f, page |-> 1], None)
      BY <1>10 DEF RemoveFilterKey
    <2> QED
      BY <1>1, <1>2, <2>1
  <1>11. CASE PollSuites
    <2>1. /\ spUrl' = spUrl /\ spKnown' = spKnown
          /\ spAt' \in (IF spAt = 0 THEN 1 ELSE spAt)..Len(SpIndexes)
      BY <1>11 DEF PollSuites
    <2>2. spAt' \in 0..Len(SpIndexes)
      BY <2>1, SuitesAssumption
    <2> QED
      BY <2>1, <2>2
  <1>12. CASE FetchSummary
    BY <1>12 DEF FetchSummary, SameSuites
  <1>13. CASE UNCHANGED spVars
    BY <1>13 DEF spVars, SameSuites
  <1> QED
    BY <1>3, <1>4, <1>5, <1>6, <1>7, <1>8, <1>9, <1>10, <1>11, <1>12, <1>13 DEF SpNext

\* The places of a sequence.
LEMMA PlacesAreSeq ==
  ASSUME NEW s, IsSeq(s)
  PROVE  [i \in DOMAIN s |-> i] \in Seq(DOMAIN s)
  <1>1. PICK n \in Nat : DOMAIN s = 1..n
    BY DEF IsSeq
  <1>2. [i \in 1..n |-> i] \in [1..n -> 1..n]
    OBVIOUS
  <1> QED
    BY <1>1, <1>2

LEMMA EntriesAreSeq ==
  ASSUME SuitesInv
  PROVE  IsSeq(SpEntries)
  <1>1. CASE spAt = 0
    <2>1. <<>> \in Seq({})
      OBVIOUS
    <2> QED
      BY <1>1, <2>1, SeqIsSeq DEF SpEntries
  <1>2. CASE spAt # 0
    <2>1. spAt \in DOMAIN SpIndexes
      BY <1>2, SuitesAssumption DEF SuitesInv
    <2> QED
      BY <1>2, <2>1, SuitesAssumption DEF SpEntries, ToSet, IsSeq
  <1> QED
    BY <1>1, <1>2

LEMMA SuitesAreMany ==
  ASSUME SuitesInv, NEW entries
  PROVE  /\ Len(SuitesAt(entries)) = Len(PlacesAmong(SpEntries, entries))
         /\ Len(SuitesAt(entries)) \in Nat
  <1>1. PlacesAmong(SpEntries, entries) \in Seq(DOMAIN SpEntries)
    BY EntriesAreSeq, PlacesAreSeq, AmongMembers DEF PlacesAmong
  <1>2. PICK n \in Nat : n = Len(PlacesAmong(SpEntries, entries))
    BY <1>1
  <1>3. DOMAIN SuitesAt(entries) = 1..n
    BY <1>1, <1>2 DEF SuitesAt
  <1>4. \E S : SuitesAt(entries) \in [1..n -> S]
    <2> DEFINE places == PlacesAmong(SpEntries, entries)
               S == {SpEntries[places[k]].suite : k \in 1..n}
    <2>1. SuitesAt(entries) = [k \in 1..n |-> SpEntries[places[k]].suite]
      BY <1>1, <1>2 DEF SuitesAt
    <2>2. \A k \in 1..n : SpEntries[places[k]].suite \in S
      OBVIOUS
    <2>3. SuitesAt(entries) \in [1..n -> S]
      <3> HIDE DEF places, S
      <3> QED
        BY <2>1, <2>2
    <2> QED
      BY <2>3
  <1>5. Len(SuitesAt(entries)) = n
    BY <1>4
  <1> QED
    BY <1>2, <1>5

\* A summary that has come hides no suite: without one, a suite satisfies no filter.
LEMMA SummariesShow ==
  ASSUME SameSuites, spKnown \subseteq spKnown', NEW h, Visible(h)
  PROVE  Visible(h)'
  <1>1. SpEntries' = SpEntries
    BY DEF SameSuites, SpEntries
  <1>2. Inactive(h)' = Inactive(h)
    BY <1>1 DEF SameSuites, Inactive, LastRun, SpRuns
  <1>3. spUrl'.labels = spUrl.labels /\ spUrl'.hide = spUrl.hide
    BY DEF SameSuites
  <1>4. SpLabelsOf(h)' = SpLabelsOf(h) \/ SpLabelsOf(h) = <<>>
    BY <1>1 DEF SpLabelsOf, SpFetched
  <1>5. LabelsAllow(spUrl.labels, SpLabelsOf(h)) => LabelsAllow(spUrl.labels, SpLabelsOf(h)')
    BY <1>4 DEF LabelsAllow
  <1> QED
    BY <1>2, <1>3, <1>5 DEF Visible

SpPages == PageCount(VisibleSuites, SpSize)

LEMMA SuitesPagesAre ==
  ASSUME SuitesInv
  PROVE  SpPages \in Int
  <1>1. Len(VisibleSuites) \in Nat
    BY SuitesAreMany DEF VisibleSuites
  <1> QED
    BY <1>1, SuitesAssumption DEF SpPages, PageCount

\* While the index stays, only what is visible changes.
LEMMA SuitesNext ==
  ASSUME SuitesInv, spAt' = spAt
  PROVE  /\ VisibleSuites' = SuitesAt(VisibleEntries')
         /\ SpPages' \in Int
  <1>1. SpEntries' = SpEntries
    BY DEF SpEntries
  <1>2. PICK new : new = VisibleEntries'
    OBVIOUS
  <1>3. VisibleSuites' = SuitesAt(new)
    BY <1>1, <1>2 DEF VisibleSuites, SuitesAt
  <1>4. Len(VisibleSuites') \in Nat
    BY <1>3, SuitesAreMany
  <1>5. SpPages' \in Int
    BY <1>4, SuitesAssumption DEF SpPages, PageCount
  <1> QED
    BY <1>2, <1>3, <1>5

LEMMA SuitesGrow ==
  ASSUME SuitesInv, SameSuites, spKnown \subseteq spKnown'
  PROVE  SpPages <= SpPages'
  <1>0. SpEntries' = SpEntries /\ FirstEntries' = FirstEntries
    BY DEF SameSuites, SpEntries, FirstEntries
  <1>1. ASSUME NEW i \in FirstEntries, Visible(SpEntries[i].suite)
        PROVE  i \in VisibleEntries'
    <2>1. PICK h : h = SpEntries[i].suite
      OBVIOUS
    <2>2. Visible(h)'
      BY <1>1, <2>1, SummariesShow
    <2> QED
      BY <1>0, <2>1, <2>2 DEF VisibleEntries, Visible
  <1>2. PICK new : new = VisibleEntries'
    OBVIOUS
  <1>3. VisibleEntries \subseteq new
    BY <1>1, <1>2 DEF VisibleEntries
  <1>4. VisibleSuites = SuitesAt(VisibleEntries) /\ VisibleSuites' = SuitesAt(new)
    BY <1>2, SuitesNext DEF VisibleSuites, SameSuites
  <1>5. /\ Len(VisibleSuites) \in Nat
        /\ Len(VisibleSuites) = Len(PlacesAmong(SpEntries, VisibleEntries))
        /\ Len(VisibleSuites') \in Nat /\ Len(VisibleSuites') = Len(PlacesAmong(SpEntries, new))
    BY <1>4, SuitesAreMany
  <1>6. Len(VisibleSuites) <= Len(VisibleSuites')
    BY <1>3, <1>5, EntriesAreSeq, PlacesAreSeq, AmongGrows DEF PlacesAmong
  <1> QED
    BY <1>5, <1>6, SuitesAssumption, PagesGrow DEF SpPages

LEMMA SuitesInvStep == SuitesInv /\ [SpNext]_spVars => SuitesInv'
  <1> SUFFICES ASSUME SuitesInv, [SpNext]_spVars PROVE SuitesInv'
    OBVIOUS
  <1>1. SuitesHandled
    BY SuitesStepHandled
  <1>2. spUrl'.page \in Nat \ {0}
    BY <1>1, SuitesPagesAre, PageLinksArePages DEF SuitesHandled, SuitesInv, SpPages
  <1>3. spAt' \in 0..Len(SpIndexes)
    BY <1>1 DEF SuitesHandled, SameSuites, SuitesInv
  <1> QED
    BY <1>1, <1>2, <1>3 DEF SuitesInv, SuitesHandled

LEMMA SuitesInvInit == SpInit => SuitesInv
  BY SuitesAssumption DEF SpInit, SuitesInv, DefaultSpUrl

LEMMA SuitesStepFits ==
  ASSUME SuitesInv, [SpNext]_spVars
  PROVE  SuitesKeepRows
  <1> SUFFICES ASSUME spAt' = spAt, SpPageFits, SpGroupKeys' = <<>>
               PROVE  spUrl'.page = 1 \/ spUrl'.page <= SpPages'
    BY DEF SuitesKeepRows, SpPageFits, SpPages
  <1>1. SuitesHandled
    BY SuitesStepHandled
  <1>2. SpPages \in Int /\ SpPages' \in Int
    BY SuitesPagesAre, SuitesNext
  <1>3. SameSuites => SpGroupKeys' = SpGroupKeys
    BY DEF SameSuites, SpGroupKeys
  <1>4. CASE SameSuites /\ spUrl'.page = spUrl.page /\ spKnown \subseteq spKnown'
    <2>1. spUrl.page = 1 \/ spUrl.page <= SpPages
      BY <1>3, <1>4 DEF SpPageFits, SpPages
    <2>2. SpPages <= SpPages'
      BY <1>4, SuitesGrow
    <2>3. spUrl.page \in Nat
      BY DEF SuitesInv
    <2> QED
      BY <1>2, <1>4, <2>1, <2>2, <2>3
  <1>5. CASE /\ SameSuites /\ spKnown' = spKnown
             /\ spUrl'.page \in PageLinks(spUrl.page, SpPages)
    <2>1. (spUrl.page = 1 \/ spUrl.page <= SpPages) /\ spUrl.page \in Nat \ {0}
      BY <1>3, <1>5 DEF SpPageFits, SpPages, SuitesInv
    <2>2. SpPages <= SpPages'
      BY <1>5, SuitesGrow
    <2>3. spUrl'.page <= SpPages /\ spUrl'.page \in Int
      BY <1>2, <1>5, <2>1 DEF PageLinks
    <2> QED
      BY <1>2, <2>2, <2>3
  <1>6. CASE spUrl'.page = 1
    BY <1>2, <1>6
  <1>7. CASE spUrl' = spUrl /\ spKnown' = spKnown
    BY <1>4, <1>7 DEF SameSuites
  <1> QED
    BY <1>1, <1>4, <1>5, <1>6, <1>7 DEF SuitesHandled, SpPages

-----------------------------------------------------------------------------
(* The lists of a suite: its tests, or the files of its pre-run steps. *)

SizesOf == {"index", "json_full", "ssz_full", "ssz_bal", "ssz_bal_pct"}

\* The parameters of the lists and what the tab keeps of them.
FilesInv ==
    /\ DOMAIN suiteUrl = DOMAIN DefaultSuiteUrl /\ DOMAIN suiteTab = DOMAIN DefaultSuiteTab
    /\ suiteUrl.filesPage \in Nat \ {0} /\ suiteTab.fileSize \in FileSizes
    /\ suiteUrl.psort # None => suiteUrl.psort.col \in SizesOf

\* The positions that a filter finds, in order.
LEMMA PlacesFound ==
  ASSUME NEW s, IsSeq(s), NEW some
  PROVE  /\ PlacesAmong(s, some) \in Seq(DOMAIN s)
         /\ ToSet(PlacesAmong(s, some)) \subseteq some
  <1>1. [i \in DOMAIN s |-> i] \in Seq(DOMAIN s)
    BY PlacesAreSeq
  <1> QED
    BY <1>1, AmongMembers DEF PlacesAmong

LEMMA TestsInOrder == IsSeq(SuiteTestSeq) /\ IsSeq(AllFiles)
                      /\ \A i \in DOMAIN SuiteTestSeq : SuiteTestSeq[i] \in ToSet(SuiteTestSeq) /\ i \in Nat
  <1>1. SuiteTestSeq \in Seq(ToSet(SuiteTestSeq)) /\ PreRunSteps \in Seq(ToSet(PreRunSteps))
    BY SuiteTestsAssumption
  <1>2. PICK n \in Nat : DOMAIN SuiteTestSeq = 1..n
    BY <1>1
  <1>3. TestNames = [i \in 1..n |-> SuiteTestSeq[i].name]
    BY <1>2 DEF TestNames
  <1> DEFINE S == {SuiteTestSeq[i].name : i \in 1..n}
  <1>4. TestNames \in [1..n -> S]
    BY <1>3
  <1> HIDE DEF S
  <1>5. TestNames \in Seq(S)
    BY <1>4
  <1>6. \A i \in 1..n : SuiteTestSeq[i] \in ToSet(SuiteTestSeq) /\ i \in Nat
    BY <1>2 DEF ToSet
  <1> QED
    BY <1>1, <1>2, <1>5, <1>6, SeqIsSeq DEF IsSeq, AllFiles

\* Every size is a number, or is not known.
LEMMA SizesAre ==
  ASSUME NEW i \in DOMAIN SuiteTestSeq, NEW f \in SizesOf \ {"index"}
  PROVE  /\ SizeOf(i, f) \in Int \cup {None}
         /\ SuiteTestSeq[i].sizes # None /\ f # "ssz_bal_pct" => SizeOf(i, f) \in Int
  <1> DEFINE sizes == SuiteTestSeq[i].sizes
  <1>1. sizes # None => sizes \in [ssz_full : Nat, ssz_bal : Nat, json_full : Nat]
    BY TestsInOrder, SuiteTestsAssumption
  <1>2. CASE sizes = None
    BY <1>2 DEF SizeOf
  <1>3. CASE sizes # None
    <2> HIDE DEF sizes
    <2>1. /\ sizes.ssz_full \in Nat /\ sizes.ssz_bal \in Nat /\ sizes.json_full \in Nat
      BY <1>1, <1>3
    <2>2. SizeOf(i, f) = IF f = "ssz_bal_pct"
            THEN (IF sizes.ssz_full > 0 THEN (100 * sizes.ssz_bal) \div sizes.ssz_full ELSE None)
            ELSE sizes[f]
      BY <1>3 DEF SizeOf, sizes
    <2>3. sizes.ssz_full > 0 => (100 * sizes.ssz_bal) \div sizes.ssz_full \in Int
      <3>1. \A a \in Nat : \A b \in Nat : b > 0 => (100 * a) \div b \in Int
        OBVIOUS
      <3> QED
        BY <2>1, <3>1
    <2>4. f \in {"json_full", "ssz_full", "ssz_bal", "ssz_bal_pct"}
      BY DEF SizesOf
    <2> QED
      BY <2>1, <2>2, <2>3, <2>4
  <1> QED
    BY <1>2, <1>3

\* The order of the columns is one: tests without a size come last.
LEMMA SizesOrder ==
  ASSUME FilesInv, OnTests, suiteUrl.psort # None
  PROVE  \E B : /\ WeakOrder(B, DOMAIN SuiteTestSeq)
                /\ \A a, b \in DOMAIN SuiteTestSeq : <<a, b>> \in B <=> SizeBefore(a, b)
  <1> DEFINE D == DOMAIN SuiteTestSeq
             col == suiteUrl.psort.col
             At(i) == IF col = "index" THEN i ELSE SizeOf(i, col)
             Sooner(x, y) == \/ y = None /\ x # None
                             \/ y # None /\ x # None /\ (IF suiteUrl.psort.dir = "asc" THEN x < y ELSE y < x)
             B == {x \in D \X D : Sooner(At(x[1]), At(x[2]))}
  <1>1. \A i \in D : At(i) \in Int \cup {None}
    BY TestsInOrder, SizesAre DEF FilesInv
  <1>2. \A a, b \in D : SizeBefore(a, b) <=> Sooner(At(a), At(b))
    BY DEF SizeBefore
  <1>3. \A a, b \in D : <<a, b>> \in B <=> Sooner(At(a), At(b))
    OBVIOUS
  <1>4. \A x, y, z \in Int \cup {None} :
          /\ Sooner(x, y) => ~Sooner(y, x)
          /\ Sooner(x, z) => Sooner(x, y) \/ Sooner(y, z)
    OBVIOUS
  <1> HIDE DEF Sooner, At, B
  <1>5. WeakOrder(B, D)
    BY <1>1, <1>3, <1>4 DEF WeakOrder
  <1> QED
    BY <1>2, <1>3, <1>5

\* A sort of the list moves the rows, and shows all that is found.
LEMMA ItemsAre ==
  ASSUME FilesInv
  PROVE  /\ FilesFound \in Seq(DOMAIN AllFiles)
         /\ FileItems \in Seq(DOMAIN AllFiles) /\ Len(FileItems) = Len(FilesFound)
  <1>1. FilesFound \in Seq(DOMAIN AllFiles)
    BY TestsInOrder, PlacesFound DEF FilesFound
  <1>2. CASE ~(OnTests /\ suiteUrl.testView # "general" /\ suiteUrl.psort # None)
    BY <1>1, <1>2 DEF FileItems, BySize
  <1>3. CASE OnTests /\ suiteUrl.testView # "general" /\ suiteUrl.psort # None
    <2>1. DOMAIN AllFiles = DOMAIN SuiteTestSeq
      BY <1>3 DEF AllFiles, OnTests, OnFiles, TestNames
    <2>2. PICK B : /\ WeakOrder(B, DOMAIN SuiteTestSeq)
                   /\ \A a, b \in DOMAIN SuiteTestSeq : <<a, b>> \in B <=> SizeBefore(a, b)
      BY <1>3, SizesOrder
    <2>3. FileItems = Sorted(FilesFound, SizeBefore)
      BY <1>3 DEF FileItems, BySize
    <2> DEFINE s == FilesFound
               D == DOMAIN s
               Rows(f) == SubSeq([k \in D |-> s[CHOOSE i \in D : f[i] = k]], 1, Len(s))
               Below(i) == {j \in D : <<s[j], s[i]>> \in B \/ (j < i /\ <<s[i], s[j]>> \notin B)}
               Less(i) == {j \in D : SizeBefore(s[j], s[i]) \/ (j < i /\ ~SizeBefore(s[i], s[j]))}
    <2>4. SortedBy(s, B) = Rows([i \in D |-> 1 + Cardinality(Below(i))])
      BY DEF SortedBy, Sorted, Quantify
    <2>5. Sorted(s, SizeBefore) = Rows([i \in D |-> 1 + Cardinality(Less(i))])
      BY DEF Sorted, Quantify
    <2>6. \A i \in D : s[i] \in DOMAIN SuiteTestSeq
      BY <1>1, <2>1
    <2>7. \A i \in D : Below(i) = Less(i)
      BY <2>2, <2>6
    <2> HIDE DEF s, D, Rows, Below, Less
    <2>8. [i \in D |-> 1 + Cardinality(Below(i))] = [i \in D |-> 1 + Cardinality(Less(i))]
      BY <2>7
    <2>9. FileItems = SortedBy(s, B)
      BY <2>3, <2>4, <2>5, <2>8 DEF s
    <2> QED
      BY <1>1, <2>1, <2>2, <2>9, SortedKeeps DEF s
  <1> QED
    BY <1>1, <1>2, <1>3

FilesPages == PageCount(FileItems, suiteTab.fileSize)

LEMMA FilesPagesAre ==
  ASSUME FilesInv
  PROVE  FilesPages \in Int
  <1>1. Len(FileItems) \in Nat
    BY ItemsAre
  <1>2. suiteTab.fileSize \in Nat \ {0}
    BY SuiteTestsAssumption DEF FilesInv
  <1> QED
    BY <1>1, <1>2 DEF FilesPages, PageCount

\* The rows of a page are among the list.
LEMMA PageIsPart ==
  ASSUME NEW S, NEW s \in Seq(S), NEW page \in Nat \ {0}, NEW size \in Nat
  PROVE  ToSet(PageOf(s, page, size)) \subseteq S
  <1> DEFINE from == (page - 1) * size + 1
             to == Min({page * size, Len(s)})
  <1>1. from \in Nat \ {0} /\ page * size \in Int
    <2>1. page - 1 \in Nat /\ page \in Nat
      OBVIOUS
    <2>2. \A p, z \in Nat : p * z \in Nat
      OBVIOUS
    <2> QED
      BY <2>1, <2>2
  <1>2. to \in Int /\ to <= Len(s)
    BY <1>1, MinOfTwo
  <1>3. PageOf(s, page, size) = SubSeq(s, from, to)
    BY DEF PageOf
  <1> HIDE DEF from, to
  <1>4. SubSeq(s, from, to) \in Seq(S)
    BY <1>1, <1>2
  <1> QED
    BY <1>3, <1>4, SeqMembers

\* What a test counts of a column is a number.
LEMMA CountsAre ==
  ASSUME NEW i \in DOMAIN SuiteTestSeq, HasOps(i), NEW name
  PROVE  OpCount(i, name) \in Int
  <1> DEFINE counts == SuiteTestSeq[i].ops
             S == OpsOf(name) \cap DOMAIN counts
  <1>1. IsFiniteSet(DOMAIN counts) /\ \A o \in DOMAIN counts : counts[o] \in Nat
    BY TestsInOrder, SuiteTestsAssumption DEF HasOps
  <1>2. IsFiniteSet(S)
    BY <1>1, FS_Subset
  <1>3. OpCount(i, name) = Added(counts, S)
    BY DEF OpCount, Added
  <1> HIDE DEF counts, S
  <1>4. \A o \in S : counts[o] \in Int
    BY <1>1 DEF S
  <1>5. PICK g : Adds(g, counts, S)
    BY <1>2, <1>4, SumExists
  <1>6. g[S] \in Int
    BY <1>5 DEF Adds
  <1> QED
    BY <1>2, <1>3, <1>4, <1>5, <1>6, SumsAre

\* The rows and bars stand for tests of the suite.
LEMMA RowsAreTests ==
  ASSUME FilesInv, OnTests
  PROVE  ToSet(OpRows) \cup ToSet(SizeBars) \cup ToSet(TxBars) \subseteq DOMAIN AllFiles
  <1> DEFINE D == DOMAIN SuiteTestSeq
  <1>0. DOMAIN AllFiles = D
    BY DEF AllFiles, OnTests, OnFiles, TestNames
  <1>1. ToSet(OpRows) \subseteq D
    <2> DEFINE some == {i \in D : HasOps(i)}
               rows == Among(OpTests, {i \in ToSet(OpTests) : Searched(SuiteTestSeq[i].name)})
               key == [i \in ToSet(OpTests) |->
                         IF suiteTab.opSort = "#" THEN i ELSE OpCount(i, suiteTab.opSort)]
    <2>1. OpTests \in Seq(D) /\ ToSet(OpTests) \subseteq some
      BY TestsInOrder, PlacesFound DEF OpTests
    <2>2. OpTests \in Seq(ToSet(OpTests))
      BY <2>1, SeqIsSeq DEF IsSeq
    <2>3. rows \in Seq(ToSet(OpTests))
      BY <2>2, AmongMembers
    <2>4. \A x \in ToSet(OpTests) : key[x] \in Int
      <3>1. \A x \in some : x \in Int /\ OpCount(x, suiteTab.opSort) \in Int
        BY CountsAre, TestsInOrder
      <3> QED
        BY <2>1, <3>1
    <2>5. OpRows = rows \/ OpRows = Upwards(rows, key) \/ OpRows = Downwards(rows, key)
      BY DEF OpRows, ByCount
    <2> HIDE DEF rows, key
    <2>6. OpRows \in Seq(ToSet(OpTests))
      BY <2>3, <2>4, <2>5, NumbersKeep
    <2> QED
      BY <2>1, <2>6, SeqMembers
  <1>2. ToSet(SizeBars) \subseteq D
    <2> DEFINE full == IF suiteUrl.psEncoding = "json" THEN "json_full" ELSE "ssz_full"
               some == {i \in D : /\ SuiteTestSeq[i].sizes # None /\ Searched(SuiteTestSeq[i].name)
                                  /\ \E f \in {"ssz_full", "ssz_bal", "json_full"} : SizeOf(i, f) # 0}
               shown == PlacesAmong(SuiteTestSeq, some)
               key == [i \in ToSet(shown) |-> SizeOf(i, full)]
    <2>1. shown \in Seq(D) /\ ToSet(shown) \subseteq some
      BY TestsInOrder, PlacesFound
    <2>2. SizeBars = shown \/ SizeBars = Downwards(shown, key)
      BY DEF SizeBars
    <2>3. \A x \in some : SizeOf(x, full) \in Int
      BY SizesAre DEF SizesOf
    <2> HIDE DEF shown, some, full
    <2>4. shown \in Seq(ToSet(shown))
      BY <2>1, SeqIsSeq DEF IsSeq
    <2>5. \A x \in ToSet(shown) : key[x] \in Int
      BY <2>1, <2>3
    <2>6. ToSet(SizeBars) = ToSet(shown)
      BY <2>2, <2>4, <2>5, NumbersKeep
    <2> QED
      BY <2>1, <2>6, SeqMembers
  <1>3. ToSet(TxBars) \subseteq D
    <2> DEFINE some == {i \in D : SuiteTestSeq[i].txs # None /\ Searched(SuiteTestSeq[i].name)}
               shown == PlacesAmong(SuiteTestSeq, some)
               key == [i \in ToSet(shown) |-> SuiteTestSeq[i].txs]
    <2>1. shown \in Seq(D) /\ ToSet(shown) \subseteq some
      BY TestsInOrder, PlacesFound
    <2>2. TxBars = shown \/ TxBars = Downwards(shown, key)
      BY DEF TxBars
    <2>3. \A x \in some : SuiteTestSeq[x].txs \in Int
      BY TestsInOrder, SuiteTestsAssumption
    <2> HIDE DEF shown, some
    <2>4. shown \in Seq(ToSet(shown))
      BY <2>1, SeqIsSeq DEF IsSeq
    <2>5. \A x \in ToSet(shown) : key[x] \in Int
      BY <2>1, <2>3
    <2>6. ToSet(TxBars) = ToSet(shown)
      BY <2>2, <2>4, <2>5, NumbersKeep
    <2> QED
      BY <2>1, <2>6, SeqMembers
  <1> QED
    BY <1>0, <1>1, <1>2, <1>3

\* The parameters that the lists depend on.
FileFields == {"tab", "q", "filesPage", "detail", "psort"}

LEMMA FieldsKept ==
  /\ FileFields \subseteq DOMAIN DefaultSuiteUrl
  /\ DefaultSuiteUrl.filesPage = 1 /\ DefaultSuiteUrl.detail = None /\ DefaultSuiteUrl.psort = None
  /\ \A keeps \in {FiltersKept, ChartsKept, HeatKept, TabKept} : keeps \cap FileFields = {"tab"}
  /\ FilesKept \cap FileFields = FileFields \ {"detail"}
  /\ FileFields \subseteq DialogKept
  <1>1. DOMAIN ListParams = {"tab", "client", "image", "status", "sortBy", "dir"}
    BY DEF ListParams
  <1>2. DOMAIN FilterParams = {"steps", "labels", "groupBy"}
    BY DEF FilterParams
  <1>3. DOMAIN ChartParams = {"chartMode", "passingOnly", "heatColor"}
    BY DEF ChartParams
  <1>4. /\ DOMAIN FileParams = {"q", "filesPage", "testView", "psort", "psOrder", "psEncoding"}
        /\ FileParams["filesPage"] = 1 /\ FileParams["psort"] = None
    BY DEF FileParams
  <1>5. DOMAIN DialogParams = {"detail", "opcodeSort"} /\ DialogParams["detail"] = None
    BY DEF DialogParams
  <1>6. DOMAIN HeatParams = {"showName", "regex", "full", "stat", "clientStat", "threshold",
                             "perClient", "heatSize"}
    BY DEF HeatParams
  <1> DEFINE dialog == Over(DialogParams, HeatParams)
             files == Over(FileParams, dialog)
             charts == Over(ChartParams, files)
             filters == Over(FilterParams, charts)
  <1>8. DefaultSuiteUrl = Over(ListParams, filters)
    BY DEF DefaultSuiteUrl
  <1>9. DOMAIN dialog = DOMAIN DialogParams \cup DOMAIN HeatParams /\ dialog["detail"] = None
    BY <1>5 DEF Over
  <1> HIDE DEF dialog
  <1>10. /\ DOMAIN files = DOMAIN FileParams \cup DOMAIN dialog /\ files["detail"] = None
         /\ files["filesPage"] = 1 /\ files["psort"] = None
    BY <1>4, <1>5, <1>9 DEF Over
  <1> HIDE DEF files
  <1>11. /\ DOMAIN charts = DOMAIN ChartParams \cup DOMAIN files /\ charts["detail"] = None
         /\ charts["filesPage"] = 1 /\ charts["psort"] = None
    BY <1>3, <1>4, <1>5, <1>9, <1>10 DEF Over
  <1> HIDE DEF charts
  <1>12. /\ DOMAIN filters = DOMAIN FilterParams \cup DOMAIN charts /\ filters["detail"] = None
         /\ filters["filesPage"] = 1 /\ filters["psort"] = None
    BY <1>2, <1>4, <1>5, <1>9, <1>10, <1>11 DEF Over
  <1> HIDE DEF filters
  <1>13. /\ DOMAIN DefaultSuiteUrl = DOMAIN ListParams \cup DOMAIN filters
         /\ DefaultSuiteUrl["detail"] = None
         /\ DefaultSuiteUrl["filesPage"] = 1 /\ DefaultSuiteUrl["psort"] = None
    BY <1>1, <1>4, <1>5, <1>8, <1>9, <1>10, <1>11, <1>12 DEF Over
  <1>14. FileFields \subseteq DOMAIN DefaultSuiteUrl
    BY <1>1, <1>4, <1>5, <1>9, <1>10, <1>11, <1>12, <1>13 DEF FileFields
  <1>15. /\ FiltersKept \cap FileFields = {"tab"} /\ ChartsKept \cap FileFields = {"tab"}
         /\ HeatKept \cap FileFields = {"tab"} /\ TabKept \cap FileFields = {"tab"}
    BY <1>1, <1>2, <1>3, <1>6 DEF FileFields, FiltersKept, ChartsKept, HeatKept, TabKept
  <1>16. /\ FilesKept \cap FileFields = FileFields \ {"detail"} /\ FileFields \subseteq DialogKept
    BY <1>1, <1>2, <1>4, <1>5 DEF FileFields, FiltersKept, FilesKept, DialogKept
  <1> QED
    BY <1>13, <1>14, <1>15, <1>16

\* What a handler makes of a parameter.
GoneTo(keeps, changes, p) ==
    IF p \in DOMAIN changes THEN changes[p]
    ELSE IF p \in keeps THEN suiteUrl[p] ELSE DefaultSuiteUrl[p]

LEMMA GoIs ==
  ASSUME FilesInv, NEW keeps, NEW changes, NEW page, SuiteGo(keeps, changes, page),
         DOMAIN changes \subseteq DOMAIN DefaultSuiteUrl
  PROVE  /\ DOMAIN suiteUrl' = DOMAIN DefaultSuiteUrl
         /\ \A p \in FileFields : suiteUrl'[p] = GoneTo(keeps, changes, p)
  <1> DEFINE D == DOMAIN DefaultSuiteUrl
             kept == [p \in D |-> IF p \in keeps THEN suiteUrl[p] ELSE DefaultSuiteUrl[p]]
  <1>1. suiteUrl' = [p \in DOMAIN changes \cup D |-> IF p \in DOMAIN changes THEN changes[p] ELSE kept[p]]
    BY DEF SuiteGo, Over
  <1>2. DOMAIN changes \cup D = D
    OBVIOUS
  <1>3. \A p \in FileFields : p \in D
    BY FieldsKept
  <1> HIDE DEF D
  <1> QED
    BY <1>1, <1>2, <1>3 DEF GoneTo, D

\* What a step does to the lists: nothing but open the dialog, a turn of the page,
\* or a first page; a reload comes on top.
FilesHandled ==
    /\ DOMAIN suiteUrl' = DOMAIN DefaultSuiteUrl /\ DOMAIN suiteTab' = DOMAIN DefaultSuiteTab
    /\ suiteTab'.fileSize \in FileSizes
    /\ suiteUrl'.psort # None => suiteUrl'.psort.col \in SizesOf
    /\ \/ /\ suiteUrl'.tab = suiteUrl.tab /\ suiteUrl'.q = suiteUrl.q
          /\ suiteUrl'.filesPage = suiteUrl.filesPage /\ suiteTab'.fileSize = suiteTab.fileSize
          /\ suiteUrl'.detail \in {suiteUrl.detail, None} \cup DOMAIN AllFiles
       \/ /\ suiteUrl'.tab = suiteUrl.tab /\ suiteUrl'.q = suiteUrl.q
          /\ suiteUrl'.filesPage \in PageLinks(suiteUrl.filesPage, FilesPages)
          /\ suiteTab'.fileSize = suiteTab.fileSize /\ suiteUrl'.detail = None
       \/ suiteUrl'.filesPage = 1 /\ suiteUrl'.detail = None
       \/ suiteUrl'.filesPage = 1 /\ suiteUrl'.detail = suiteUrl.detail /\ suiteUrl'.tab = suiteUrl.tab
       \/ ReloadSuite /\ suiteUrl'.filesPage = suiteUrl.filesPage

LEMMA TabIs ==
  /\ DOMAIN DefaultSuiteTab = {"heatPage", "heatSort", "heatDir", "fileSize", "opSort", "opDir",
                               "stacks", "txOrder", "full"}
  /\ DefaultSuiteTab.fileSize \in FileSizes
  BY SuiteTestsAssumption DEF DefaultSuiteTab

\* Handlers that drop the parameters of the lists.
LEMMA GoRestarts ==
  ASSUME FilesInv, NEW changes, NEW page,
         NEW keeps \in {FiltersKept, ChartsKept, HeatKept, TabKept}, SuiteGo(keeps, changes, page),
         DOMAIN changes \subseteq DOMAIN DefaultSuiteUrl,
         DOMAIN changes \cap {"filesPage", "detail", "psort"} = {},
         DOMAIN suiteTab' = DOMAIN DefaultSuiteTab, suiteTab'.fileSize \in FileSizes
  PROVE  FilesHandled
  <1>1. /\ DOMAIN suiteUrl' = DOMAIN DefaultSuiteUrl
        /\ \A p \in FileFields : suiteUrl'[p] = GoneTo(keeps, changes, p)
    BY GoIs
  <1>2. \A p \in {"filesPage", "detail", "psort"} :
           p \in FileFields /\ p \notin keeps /\ p \notin DOMAIN changes
    BY FieldsKept DEF FileFields
  <1>3. /\ suiteUrl'["filesPage"] = DefaultSuiteUrl["filesPage"]
        /\ suiteUrl'["detail"] = DefaultSuiteUrl["detail"]
        /\ suiteUrl'["psort"] = DefaultSuiteUrl["psort"]
    BY <1>1, <1>2 DEF GoneTo
  <1> QED
    BY <1>1, <1>3, FieldsKept DEF FilesHandled

\* Handlers that keep all of them but what they change.
LEMMA GoStays ==
  ASSUME FilesInv, NEW changes, NEW keeps, FileFields \subseteq keeps, NEW page,
         SuiteGo(keeps, changes, page), suiteTab' = suiteTab,
         DOMAIN changes \subseteq DOMAIN DefaultSuiteUrl,
         DOMAIN changes \cap {"tab", "q", "filesPage"} = {},
         "detail" \in DOMAIN changes => changes["detail"] \in {None} \cup DOMAIN AllFiles,
         "psort" \in DOMAIN changes => changes["psort"] = None \/ changes["psort"].col \in SizesOf
  PROVE  FilesHandled
  <1>1. /\ DOMAIN suiteUrl' = DOMAIN DefaultSuiteUrl
        /\ \A p \in FileFields : suiteUrl'[p] = GoneTo(keeps, changes, p)
    BY GoIs
  <1>2. \A p \in {"tab", "q", "filesPage"} : suiteUrl'[p] = suiteUrl[p]
    BY <1>1 DEF GoneTo, FileFields
  <1>3. suiteUrl'["detail"] = suiteUrl["detail"] \/ suiteUrl'["detail"] \in {None} \cup DOMAIN AllFiles
    BY <1>1 DEF GoneTo, FileFields
  <1>4. suiteUrl'["psort"] # None => suiteUrl'["psort"].col \in SizesOf
    BY <1>1 DEF GoneTo, FileFields, FilesInv
  <1> QED
    BY <1>1, <1>2, <1>3, <1>4 DEF FilesHandled, FilesInv

LEMMA DefaultFieldsAre ==
  {"tab", "q", "filesPage", "detail", "psort", "testView", "psOrder", "psEncoding", "opcodeSort",
   "client", "image", "status", "sortBy", "dir", "steps", "labels", "groupBy",
   "chartMode", "passingOnly", "heatColor", "showName", "regex", "full", "stat", "clientStat",
   "threshold", "perClient", "heatSize"} = DOMAIN DefaultSuiteUrl
  BY DEF DefaultSuiteUrl, Over, ListParams, FilterParams, ChartParams, FileParams, DialogParams,
         HeatParams

\* The tab of the runs, the tabs themselves, and the polls.
LEMMA OtherTabsHandled ==
  ASSUME FilesInv, OnPageStep
  PROVE  FilesHandled
  <1>0. suiteTab' \in {suiteTab, DefaultSuiteTab} /\ (suiteUrl' = suiteUrl => suiteTab' = suiteTab)
    BY DEF OnPageStep
  <1>1. DOMAIN suiteTab' = DOMAIN DefaultSuiteTab /\ suiteTab'.fileSize \in FileSizes
    BY <1>0, TabIs DEF FilesInv
  <1>2. ASSUME suiteUrl' = suiteUrl PROVE FilesHandled
    BY <1>0, <1>1, <1>2 DEF FilesHandled, FilesInv
  <1>3. ASSUME NEW changes, NEW page, NEW keeps \in {FiltersKept, ChartsKept, HeatKept, TabKept},
               SuiteGo(keeps, changes, page),
               DOMAIN changes \subseteq DOMAIN DefaultSuiteUrl \ {"filesPage", "detail", "psort"}
        PROVE  FilesHandled
    BY <1>1, <1>3, GoRestarts
  <1> DEFINE D == DOMAIN DefaultSuiteUrl \ {"filesPage", "detail", "psort"}
  <1>4. \A p \in {"tab", "client", "image", "status", "sortBy", "dir", "steps", "labels", "groupBy",
                  "chartMode", "passingOnly", "heatColor"} : p \in D
    BY DefaultFieldsAre
  <1> HIDE DEF D
  <1>5. CASE ChangeTab
    <2>1. PICK t : SuiteGo(TabKept, [tab |-> t], suiteView.page)
      BY <1>5 DEF ChangeTab
    <2> QED
      BY <1>3, <1>4, <2>1 DEF D
  <1>6. CASE FilterRuns
    <2>1. PICK v : \/ SuiteGo(FiltersKept, [client |-> v], 1) \/ SuiteGo(FiltersKept, [image |-> v], 1)
                   \/ SuiteGo(FiltersKept, [status |-> v], 1)
      BY <1>6 DEF FilterRuns
    <2> QED
      BY <1>3, <1>4, <2>1 DEF D
  <1>7. CASE FilterRunLabels
    <2>1. PICK f : SuiteGo(FiltersKept, [labels |-> f], 1)
      BY <1>7 DEF FilterRunLabels
    <2> QED
      BY <1>3, <1>4, <2>1 DEF D
  <1>8. CASE SortRuns
    <2>1. PICK c, d : SuiteGo(FiltersKept, [sortBy |-> c, dir |-> d], 1)
      BY <1>8 DEF SortRuns
    <2> QED
      BY <1>3, <1>4, <2>1 DEF D
  <1>9. CASE ChooseSteps
    <2>1. PICK steps : SuiteGo(ChartsKept, [steps |-> steps], suiteView.page)
      BY <1>9 DEF ChooseSteps
    <2> QED
      BY <1>3, <1>4, <2>1 DEF D
  <1>10. CASE SetCharts
    <2>1. PICK v : \/ SuiteGo(ChartsKept, [heatColor |-> v], suiteView.page)
                   \/ SuiteGo(ChartsKept, [chartMode |-> v], suiteView.page)
                   \/ SuiteGo(ChartsKept, [passingOnly |-> v], suiteView.page)
      BY <1>10 DEF SetCharts
    <2> QED
      BY <1>3, <1>4, <2>1 DEF D
  <1>11. CASE ClearGroups \/ \E k \in GroupLabels \cup {"instance_id"} : ClickGroupKey(k)
    <2>1. PICK v : SuiteGo(ChartsKept, [groupBy |-> v], suiteView.page)
      BY <1>11 DEF ClearGroups, ClickGroupKey
    <2> QED
      BY <1>3, <1>4, <2>1 DEF D
  <1>12. CASE TurnSuitePage \/ Unfold \/ FilterCharts
    <2>1. suiteUrl' = suiteUrl
      BY <1>12 DEF TurnSuitePage, Unfold, FilterCharts, SuiteSee
    <2> QED
      BY <1>2, <2>1
  <1>13. CASE \/ EnterSuiteMode \/ ChooseSuiteRun \/ ChooseBox \/ AskSuiteDelete
              \/ (\E ok \in BOOLEAN : SuiteDeleteAnswers(ok)) \/ PollSuiteIndex
    <2>1. suiteUrl' = suiteUrl
      BY <1>13 DEF EnterSuiteMode, ChooseSuiteRun, ChooseBox, SuiteSetMode, AskSuiteDelete, SuiteDeleteAnswers,
                   PollSuiteIndex
    <2> QED
      BY <1>2, <2>1
  <1> QED
    BY <1>5, <1>6, <1>7, <1>8, <1>9, <1>10, <1>11, <1>12, <1>13 DEF OnPageStep, SuitePageNext

LEMMA FilesStepHandled ==
  ASSUME FilesInv, [SuiteTestsNext]_suiteAllVars
  PROVE  FilesHandled
  <1> DEFINE D == DOMAIN DefaultSuiteUrl
             Rest == D \ {"tab", "q", "filesPage"}
  <1>0. /\ \A p \in {"detail", "psort", "testView", "psOrder", "psEncoding", "opcodeSort"} : p \in Rest
        /\ \A p \in {"showName", "regex", "full", "stat", "clientStat", "threshold", "perClient",
                     "heatSize"} : p \in D \ {"filesPage", "detail", "psort"}
        /\ "q" \in D /\ "filesPage" \in D
    BY DefaultFieldsAre
  <1>1. ASSUME suiteUrl' = suiteUrl, suiteTab' = suiteTab PROVE FilesHandled
    BY <1>1 DEF FilesHandled, FilesInv
  <1>2. ASSUME NEW changes, TabSee(changes), DOMAIN changes \subseteq DOMAIN DefaultSuiteTab,
               "fileSize" \notin DOMAIN changes
        PROVE  FilesHandled
    <2>1. suiteUrl' = suiteUrl
      BY <1>2 DEF TabSee, suiteVars
    <2>2. suiteTab' = [p \in DOMAIN changes \cup DOMAIN suiteTab |->
                         IF p \in DOMAIN changes THEN changes[p] ELSE suiteTab[p]]
      BY <1>2 DEF TabSee, Over
    <2>3. DOMAIN changes \cup DOMAIN suiteTab = DOMAIN DefaultSuiteTab /\ "fileSize" \in DOMAIN suiteTab
      BY <1>2, TabIs DEF FilesInv
    <2>4. DOMAIN suiteTab' = DOMAIN DefaultSuiteTab /\ suiteTab'.fileSize = suiteTab.fileSize
      BY <1>2, <2>2, <2>3
    <2> QED
      BY <2>1, <2>4 DEF FilesHandled, FilesInv
  <1>3. ASSUME NEW changes, TabGo(DialogKept, changes), DOMAIN changes \subseteq Rest,
               "detail" \in DOMAIN changes => changes["detail"] \in {None} \cup DOMAIN AllFiles,
               "psort" \in DOMAIN changes => changes["psort"] = None \/ changes["psort"].col \in SizesOf
        PROVE  FilesHandled
    BY <1>3, GoStays, FieldsKept DEF TabGo, KeepTab
  <1>4. ASSUME NEW changes, TabGo(HeatKept, changes),
               DOMAIN changes \subseteq D \ {"filesPage", "detail", "psort"}
        PROVE  FilesHandled
    <2>1. DOMAIN suiteTab' = DOMAIN DefaultSuiteTab /\ suiteTab'.fileSize \in FileSizes
      BY <1>4 DEF TabGo, KeepTab, FilesInv
    <2>2. SuiteGo(HeatKept, changes, suiteView.page)
      BY <1>4 DEF TabGo
    <2> HIDE DEF D
    <2> QED
      BY <1>4, <2>1, <2>2, GoRestarts DEF D
  <1> HIDE DEF Rest, D
  <1>5. CASE OnPageStep
    BY <1>5, OtherTabsHandled
  <1>6. CASE SearchSuite
    <2>1. PICK q : TabGo(D, [q |-> q, filesPage |-> 1])
      BY <1>6 DEF SearchSuite, D
    <2> DEFINE changes == [q |-> q, filesPage |-> 1]
    <2>2. SuiteGo(D, changes, suiteView.page) /\ suiteTab' = suiteTab
      BY <2>1 DEF TabGo, KeepTab
    <2>3. /\ DOMAIN suiteUrl' = D
          /\ \A p \in FileFields : suiteUrl'[p] = GoneTo(D, changes, p)
      BY <1>0, <2>2, GoIs DEF D
    <2>4. FileFields \subseteq D
      BY FieldsKept DEF D
    <2>5. /\ suiteUrl'["filesPage"] = 1 /\ suiteUrl'["detail"] = suiteUrl["detail"]
          /\ suiteUrl'["tab"] = suiteUrl["tab"] /\ suiteUrl'["psort"] = suiteUrl["psort"]
      BY <2>3, <2>4 DEF GoneTo, FileFields
    <2> QED
      BY <2>2, <2>3, <2>5 DEF FilesHandled, FilesInv, D
  <1>7. CASE TurnFilesPage
    <2>1. CASE \E p \in PageLinks(suiteUrl.filesPage, FilesPages) : TabGo(FilesKept, [filesPage |-> p])
      <3>1. PICK p \in PageLinks(suiteUrl.filesPage, FilesPages) : TabGo(FilesKept, [filesPage |-> p])
        BY <2>1
      <3> DEFINE changes == [filesPage |-> p]
      <3>2. SuiteGo(FilesKept, changes, suiteView.page) /\ suiteTab' = suiteTab
        BY <3>1 DEF TabGo, KeepTab
      <3>3. /\ DOMAIN suiteUrl' = D
            /\ \A x \in FileFields : suiteUrl'[x] = GoneTo(FilesKept, changes, x)
        BY <1>0, <3>2, GoIs DEF D
      <3>4. /\ "detail" \notin FilesKept
            /\ \A x \in {"tab", "q", "psort"} : x \in FilesKept
        BY FieldsKept DEF FileFields
      <3>5. /\ suiteUrl'["filesPage"] = p /\ suiteUrl'["detail"] = None
            /\ suiteUrl'["tab"] = suiteUrl["tab"] /\ suiteUrl'["q"] = suiteUrl["q"]
            /\ suiteUrl'["psort"] = suiteUrl["psort"]
        BY <3>3, <3>4, FieldsKept DEF GoneTo, FileFields
      <3> QED
        BY <3>2, <3>3, <3>5 DEF FilesHandled, FilesInv, D
    <2>2. CASE \E n \in FileSizes :
             /\ suiteTab' = [suiteTab EXCEPT !.fileSize = n]
             /\ SuiteGo(FilesKept, [filesPage |-> 1], suiteView.page)
      <3>1. PICK n \in FileSizes : /\ suiteTab' = [suiteTab EXCEPT !.fileSize = n]
                                   /\ SuiteGo(FilesKept, [filesPage |-> 1], suiteView.page)
        BY <2>2
      <3> DEFINE changes == [filesPage |-> 1]
      <3>2. DOMAIN suiteTab' = DOMAIN DefaultSuiteTab /\ suiteTab'.fileSize \in FileSizes
        BY <3>1, TabIs DEF FilesInv
      <3>3. /\ DOMAIN suiteUrl' = D
            /\ \A x \in FileFields : suiteUrl'[x] = GoneTo(FilesKept, changes, x)
        BY <1>0, <3>1, GoIs DEF D
      <3>4. "detail" \notin FilesKept /\ "psort" \in FilesKept
        BY FieldsKept DEF FileFields
      <3>5. /\ suiteUrl'["filesPage"] = 1 /\ suiteUrl'["detail"] = None
            /\ suiteUrl'["psort"] = suiteUrl["psort"]
        BY <3>3, <3>4, FieldsKept DEF GoneTo, FileFields
      <3> QED
        BY <3>2, <3>3, <3>5 DEF FilesHandled, FilesInv, D
    <2> QED
      BY <1>7, <2>1, <2>2 DEF TurnFilesPage, FilesPages
  <1>8. CASE OpenFile
    <2>1. PICK i : TabGo(DialogKept, [detail |-> i])
                   /\ (i \in ToSet(FilesOnPage)
                       \/ (OnTests /\ i \in ToSet(OpRows) \cup ToSet(SizeBars) \cup ToSet(TxBars)))
      BY <1>8 DEF OpenFile
    <2>2. ToSet(FilesOnPage) \subseteq DOMAIN AllFiles
      <3>1. suiteTab.fileSize \in Nat
        BY SuiteTestsAssumption DEF FilesInv
      <3> QED
        BY <3>1, ItemsAre, PageIsPart DEF FilesOnPage, FilesInv
    <2>3. i \in DOMAIN AllFiles
      BY <2>1, <2>2, RowsAreTests
    <2> QED
      BY <1>0, <1>3, <2>1, <2>3
  <1>9. CASE CloseFile
    BY <1>0, <1>3, <1>9 DEF CloseFile
  <1>10. CASE SortDialog
    <2>1. PICK v : TabGo(DialogKept, [opcodeSort |-> v])
      BY <1>10 DEF SortDialog
    <2> QED
      BY <1>0, <1>3, <2>1
  <1>11. CASE ViewSizes
    <2>1. CASE \E v : \/ TabGo(DialogKept, [testView |-> v]) \/ TabGo(DialogKept, [psOrder |-> v])
                      \/ TabGo(DialogKept, [psEncoding |-> v])
      <3>1. PICK v : \/ TabGo(DialogKept, [testView |-> v]) \/ TabGo(DialogKept, [psOrder |-> v])
                     \/ TabGo(DialogKept, [psEncoding |-> v])
        BY <2>1
      <3> QED
        BY <1>0, <1>3, <3>1
    <2>2. CASE \E s : TabGo(DialogKept, [psort |-> s]) /\ (s = None \/ s.col \in SizesOf)
      <3>1. PICK s : TabGo(DialogKept, [psort |-> s]) /\ (s = None \/ s.col \in SizesOf)
        BY <2>2
      <3> QED
        BY <1>0, <1>3, <3>1
    <2>3. ASSUME NEW c \in SizeColumns(suiteUrl.testView)
          PROVE  LET s == IF suiteUrl.psort = None \/ suiteUrl.psort.col # c THEN [col |-> c, dir |-> "desc"]
                          ELSE IF suiteUrl.psort.dir = "desc" THEN [col |-> c, dir |-> "asc"] ELSE None
                 IN s = None \/ s.col \in SizesOf
      BY DEF SizeColumns, SizesOf
    <2> QED
      BY <1>11, <2>1, <2>2, <2>3 DEF ViewSizes
  <1>12. CASE SetHeatmap
    <2>1. CASE \E f \in {"showName", "regex", "full", "clientStat"} :
                 TabGo(HeatKept, [x \in {f} |-> ~suiteUrl[f]])
      BY <1>0, <1>4, <2>1
    <2>2. CASE \E v : \/ TabGo(HeatKept, [stat |-> v]) \/ TabGo(HeatKept, [threshold |-> v])
                      \/ TabGo(HeatKept, [perClient |-> v])
      <3>1. PICK v : \/ TabGo(HeatKept, [stat |-> v]) \/ TabGo(HeatKept, [threshold |-> v])
                     \/ TabGo(HeatKept, [perClient |-> v])
        BY <2>2
      <3> QED
        BY <1>0, <1>4, <3>1
    <2> QED
      BY <1>12, <2>1, <2>2 DEF SetHeatmap
  <1>13. CASE TurnHeatmap
    <2>1. CASE \E p : TabSee([heatPage |-> p])
      BY <1>2, <2>1, TabIs
    <2>2. CASE \E c, d : TabSee([heatPage |-> 1, heatSort |-> c, heatDir |-> d])
      <3>1. PICK c, d : TabSee([heatPage |-> 1, heatSort |-> c, heatDir |-> d])
        BY <2>2
      <3> QED
        BY <1>2, <3>1, TabIs
    <2>3. CASE \E n : /\ suiteTab' = [suiteTab EXCEPT !.heatPage = 1]
                      /\ SuiteGo(HeatKept, [heatSize |-> n], suiteView.page)
      <3>1. PICK n : /\ suiteTab' = [suiteTab EXCEPT !.heatPage = 1]
                     /\ SuiteGo(HeatKept, [heatSize |-> n], suiteView.page)
        BY <2>3
      <3>2. DOMAIN suiteTab' = DOMAIN DefaultSuiteTab /\ suiteTab'.fileSize \in FileSizes
        BY <3>1, TabIs DEF FilesInv
      <3> QED
        BY <1>0, <3>1, <3>2, GoRestarts DEF D
    <2> QED
      BY <1>13, <2>1, <2>2, <2>3 DEF TurnHeatmap
  <1>14. CASE SetOpcodes
    <2>1. PICK a, b : \/ TabSee([stacks |-> a]) \/ TabSee([full |-> a]) \/ TabSee([opDir |-> a])
                      \/ TabSee([opSort |-> a]) \/ TabSee([opSort |-> a, opDir |-> b])
      BY <1>14 DEF SetOpcodes
    <2> QED
      BY <1>2, <2>1, TabIs
  <1>15. CASE OrderBars
    <2>1. PICK o : TabSee([txOrder |-> o])
      BY <1>15 DEF OrderBars
    <2> QED
      BY <1>2, <2>1, TabIs
  <1>16. CASE ReloadSuite
    <2>1. suiteUrl' = suiteUrl /\ suiteTab' = DefaultSuiteTab
      BY <1>16 DEF ReloadSuite
    <2> QED
      BY <1>16, <2>1, TabIs DEF FilesHandled, FilesInv
  <1>17. CASE UNCHANGED suiteAllVars
    BY <1>1, <1>17 DEF suiteAllVars, suiteVars
  <1> QED
    BY <1>5, <1>6, <1>7, <1>8, <1>9, <1>10, <1>11, <1>12, <1>13, <1>14, <1>15, <1>16, <1>17
       DEF SuiteTestsNext

LEMMA FilesInvInit == SuiteTestsInit => FilesInv
  BY FieldsKept, TabIs DEF SuiteTestsInit, SuiteInit, FilesInv

LEMMA FilesInvStep == FilesInv /\ [SuiteTestsNext]_suiteAllVars => FilesInv'
  <1> SUFFICES ASSUME FilesInv, [SuiteTestsNext]_suiteAllVars PROVE FilesInv'
    OBVIOUS
  <1>1. FilesHandled
    BY FilesStepHandled
  <1>2. suiteUrl'.filesPage \in Nat \ {0}
    BY <1>1, FilesPagesAre, PageLinksArePages DEF FilesHandled, FilesInv
  <1> QED
    BY <1>1, <1>2 DEF FilesInv, FilesHandled

\* The rows follow the tab and the query, however they are sorted.
LEMMA SameFilesFound ==
  ASSUME suiteUrl'.tab = suiteUrl.tab, suiteUrl'.q = suiteUrl.q
  PROVE  AllFiles' = AllFiles /\ OnList' = OnList /\ FilesFound' = FilesFound
  BY DEF AllFiles, OnList, OnTests, OnFiles, FilesFound, FileMatches, Searched

\* Facts on the lists, which hold after a step as well.
LEMMA ItemsHold == FilesInv => Len(FileItems) = Len(FilesFound) /\ FilesPages \in Int
  BY ItemsAre, FilesPagesAre

LEMMA SamePages ==
  ASSUME FilesInv, FilesInv', suiteUrl'.tab = suiteUrl.tab, suiteUrl'.q = suiteUrl.q,
         suiteTab'.fileSize = suiteTab.fileSize
  PROVE  FilesPages' = FilesPages
  <1>1. Len(FileItems) = Len(FilesFound)
    BY ItemsAre
  <1>2. (Len(FileItems) = Len(FilesFound))'
    BY ItemsHold, PTL
  <1> QED
    BY <1>1, <1>2, SameFilesFound DEF FilesPages, PageCount

LEMMA FilesStepFits ==
  ASSUME FilesInv, FilesInv', [SuiteTestsNext]_suiteAllVars
  PROVE  FilesKeepRows
  <1> SUFFICES ASSUME FilesPageFits, ~ReloadSuite, OnList'
               PROVE  /\ suiteUrl'.filesPage <= Max({1, FilesPages'})
                      /\ suiteUrl'.detail # None => suiteUrl'.detail \in DOMAIN AllFiles'
    BY DEF FilesKeepRows, FilesPageFits, FilesPages
  <1>1. FilesHandled
    BY FilesStepHandled
  <1>2. FilesPages \in Int /\ suiteUrl.filesPage \in Nat \ {0}
    BY FilesPagesAre DEF FilesInv
  <1>3. (FilesPages \in Int)'
    BY ItemsHold, PTL
  <1>4. AllFiles' = AllFiles \/ suiteUrl'.tab # suiteUrl.tab
    BY DEF AllFiles, OnFiles
  <1>5. ASSUME suiteUrl'.tab = suiteUrl.tab
        PROVE  /\ suiteUrl.filesPage <= Max({1, FilesPages})
               /\ suiteUrl.detail # None => suiteUrl.detail \in DOMAIN AllFiles
    BY <1>5 DEF FilesPageFits, FilesPages, OnList, OnTests, OnFiles
  <1>6. CASE /\ suiteUrl'.tab = suiteUrl.tab /\ suiteUrl'.q = suiteUrl.q
             /\ suiteUrl'.filesPage = suiteUrl.filesPage /\ suiteTab'.fileSize = suiteTab.fileSize
             /\ suiteUrl'.detail \in {suiteUrl.detail, None} \cup DOMAIN AllFiles
    BY <1>4, <1>5, <1>6, SamePages
  <1>7. CASE /\ suiteUrl'.tab = suiteUrl.tab /\ suiteUrl'.q = suiteUrl.q
             /\ suiteUrl'.filesPage \in PageLinks(suiteUrl.filesPage, FilesPages)
             /\ suiteTab'.fileSize = suiteTab.fileSize /\ suiteUrl'.detail = None
    <2>1. FilesPages' = FilesPages
      BY <1>7, SamePages
    <2>2. suiteUrl'.filesPage <= FilesPages /\ suiteUrl'.filesPage \in Int
      BY <1>2, <1>5, <1>7, MaxOfTwo DEF PageLinks
    <2> QED
      BY <1>2, <1>7, <2>1, <2>2, MaxOfTwo
  <1>8. CASE suiteUrl'.filesPage = 1 /\ suiteUrl'.detail = None
    BY <1>3, <1>8, MaxOfTwo
  <1>9. CASE suiteUrl'.filesPage = 1 /\ suiteUrl'.detail = suiteUrl.detail /\ suiteUrl'.tab = suiteUrl.tab
    BY <1>3, <1>4, <1>5, <1>9, MaxOfTwo
  <1> QED
    BY <1>1, <1>6, <1>7, <1>8, <1>9 DEF FilesHandled

\* The lists of TestFilesList.tsx and SuitesPage.tsx stay on a page with rows: a
\* filter, a tab or a group that leaves fewer rows leads to the first page, a summary
\* that arrives takes no suite away, and a sort keeps as many rows. Only a reload,
\* which forgets the size of pages, and an index without some suites leave it behind.
THEOREM ListsKeepPages == PagesSpec => ListsKeepRows
  <1>1. ASSUME FilesInv, FilesInv', SuitesInv, SuitesInv', [PagesNext]_pageVars
        PROVE  [/\ mounted = "suite" => FilesKeepRows
                /\ mounted = "suites" => SuitesKeepRows]_pageVars
    BY <1>1, OneIsVisited, FilesStepFits, SuitesStepFits
  <1> QED
    BY <1>1, FilesInvInit, FilesInvStep, SuitesInvInit, SuitesInvStep, VisitsAreOfPages, PTL
       DEF PagesSpec, SuiteTestsSpec, SpSpec, ListsKeepRows

-----------------------------------------------------------------------------
(* Types of the strip of peers. *)

\* A turn of the strip goes to one of its runs.
LEMMA TurnsToRun ==
  ASSUME PeersInv, TurnStrip
  PROVE  peerStrip'.anchor \in DOMAIN PeerRows /\ peerStrip'.fit = peerStrip.fit
  <1> DEFINE s == NewestPeers(ClientRuns)
             n == Len(s)
             c == Cardinality(ClientRuns)
             fit == peerStrip.fit
  <1>1. s \in Seq(DOMAIN PeerRows) /\ n \in Nat /\ fit \in Nat \ {0}
    BY NewestAreSeq, PeersAssumption DEF PeersInv
  <1>2. c \in Nat /\ c <= n
    <2>1. ToSet(s) = ClientRuns
      BY NewestAreSeq DEF ClientRuns, ClientRunsOf, PeersInv
    <2>2. IsFiniteSet(ToSet(s)) /\ Cardinality(ToSet(s)) <= n
      BY <1>1, SeqHasFew
    <2> HIDE DEF s
    <2> QED
      BY <2>1, <2>2, FS_CardinalityType
  <1>3. c > 1
    BY DEF TurnStrip, StripShown
  <1>4. StripStart \in 1..n
    <2>1. StripStart = StartAt(s, peerStrip.anchor, fit)
      BY DEF StripStart, StartAt
    <2>2. StripStart \in Nat \ {0}
      BY <1>1, <2>1, StartIsPlace
    <2> DEFINE from == IF PlaceOf(peerStrip.anchor, s) > 0 THEN PlaceOf(peerStrip.anchor, s)
                       ELSE Max({1, PlaceOf(ThisRun, s) - fit + 1})
               last == Max({1, n - fit + 1})
    <2>3. StripStart = Min({from, last})
      BY <2>1 DEF StartAt
    <2>4. last \in 1..n
      <3>1. n - fit + 1 \in Int /\ n - fit + 1 <= n /\ n >= 1
        BY <1>1, <1>2, <1>3
      <3> HIDE DEF s, c
      <3> QED
        BY <1>1, <3>1, MaxOfTwo
    <2>5. from \in Int
      <3>1. PlaceOf(peerStrip.anchor, s) \in 0..n /\ PlaceOf(ThisRun, s) \in 0..n
        BY <1>1, PlaceIsThere
      <3> HIDE DEF s
      <3>2. PlaceOf(ThisRun, s) - fit + 1 \in Int
        BY <1>1, <3>1
      <3> QED
        BY <1>1, <3>1, <3>2, MaxOfTwo
    <2> HIDE DEF from, last
    <2>6. StripStart <= last
      BY <2>3, <2>4, <2>5, MinOfTwo
    <2> QED
      BY <1>1, <2>2, <2>4, <2>6
  <1>5. PICK p : /\ peerStrip' = [peerStrip EXCEPT !.anchor = PageTo(p)]
                 /\ \/ p = Max({1, StripStart - fit})
                    \/ /\ StripStart + fit <= c
                       /\ p = Min({c - fit + 1, StripStart + fit})
    BY DEF TurnStrip, Older
  <1> HIDE DEF s, c, n, fit
  <1>6. p \in 1..n
    <2>1. CASE p = Max({1, StripStart - fit})
      <3>1. StripStart - fit \in Int /\ StripStart - fit <= n
        BY <1>1, <1>4
      <3> QED
        BY <1>1, <1>4, <2>1, <3>1, MaxOfTwo
    <2>2. CASE StripStart + fit <= c /\ p = Min({c - fit + 1, StripStart + fit})
      <3>1. c - fit + 1 \in 1..n /\ StripStart + fit \in 1..n
        BY <1>1, <1>2, <1>4, <2>2
      <3> QED
        BY <2>2, <3>1, MinOfTwo
    <2> QED
      BY <1>5, <2>1, <2>2
  <1>7. s[p] \in DOMAIN PeerRows
    BY <1>1, <1>6 DEF n
  <1>8. peerStrip' = [anchor |-> s[p], fit |-> peerStrip.fit]
    BY <1>5 DEF PageTo, s, PeersInv
  <1> QED
    BY <1>7, <1>8

PeerTypes ==
    /\ peerIndex.pending \in BOOLEAN /\ peerDeleting \in BOOLEAN
    /\ peerStrip.anchor \in DOMAIN PeerRows \cup {None}

\* Every step of the strip of peers.
LEMMA PeerTypesStep == PeersInv /\ PeerTypes /\ [PeersNext]_peerVars => PeerTypes'
  <1> SUFFICES ASSUME PeersInv, PeerTypes, [PeersNext]_peerVars PROVE PeerTypes'
    OBVIOUS
  <1> USE DEF PeerTypes
  <1>1. CASE TurnStrip
    BY <1>1, TurnsToRun DEF TurnStrip
  <1>2. CASE Resize
    <2>1. PICK w : peerStrip' = [peerStrip EXCEPT !.fit = w]
      BY <1>2 DEF Resize
    <2>2. peerStrip' = [anchor |-> peerStrip.anchor, fit |-> w]
      BY <2>1 DEF PeersInv
    <2> QED
      BY <1>2, <2>2 DEF Resize
  <1>3. CASE ClickRun \/ ToggleCompare \/ CompareChosen \/ CompareRecent \/ UNCHANGED peerVars
    BY <1>3 DEF ClickRun, ToggleCompare, CompareChosen, CompareRecent, Leave, peerVars
  <1>4. CASE DeleteRun \/ CancelDeletion \/ QueuedElsewhere
    <2>1. UNCHANGED <<peerIndex, peerStrip>>
      BY <1>4 DEF DeleteRun, CancelDeletion, QueuedElsewhere
    <2>2. peerDeleting' \in BOOLEAN
      <3>1. CASE DeleteRun
        <4>1. (ThisRun \in peerIndex.runs) \in BOOLEAN
          OBVIOUS
        <4> QED
          BY <3>1, <4>1, Zenon DEF DeleteRun
      <3>2. CASE CancelDeletion \/ QueuedElsewhere
        BY <3>2, Zenon DEF CancelDeletion, QueuedElsewhere
      <3> QED
        BY <1>4, <3>1, <3>2
    <2> QED
      BY <2>1, <2>2
  <1>5. CASE IndexAnswers
    <2>1. PICK rs, gone : peerIndex' = [runs |-> rs, pending |-> peerDeleting /\ ThisRun \notin gone]
      BY <1>5 DEF IndexAnswers
    <2>2. peerIndex'.pending \in BOOLEAN
      <3>1. CASE peerDeleting /\ ThisRun \notin gone
        <4>1. (peerDeleting /\ ThisRun \notin gone) = TRUE
          BY <3>1
        <4>2. peerIndex' = [runs |-> rs, pending |-> TRUE]
          BY <2>1, <4>1, Zenon
        <4> QED
          BY <4>2
      <3>2. CASE ~ (peerDeleting /\ ThisRun \notin gone)
        <4>1. (peerDeleting /\ ThisRun \notin gone) = FALSE
          BY <3>2
        <4>2. peerIndex' = [runs |-> rs, pending |-> FALSE]
          BY <2>1, <4>1, Zenon
        <4> QED
          BY <4>2
      <3> QED
        BY <3>1, <3>2
    <2>3. UNCHANGED <<peerStrip, peerDeleting>>
      BY <1>5 DEF IndexAnswers
    <2> QED
      BY <2>2, <2>3
  <1> QED
    BY <1>1, <1>2, <1>3, <1>4, <1>5 DEF PeersNext

\* The strip of a run's peers keeps its choice, its page and its width of their
\* types (RunDetailPage.tsx, RunsHeatmap.tsx).
LEMMA PeersTyped == PeersSpec => []PeersTypeOK
  <1>1. PeersInit => PeerTypes
    <2> SUFFICES ASSUME PeersInit PROVE PeerTypes
      OBVIOUS
    <2>1. peerIndex.pending = FALSE /\ peerDeleting = FALSE
      BY DEF PeersInit
    <2>2. peerStrip.anchor = None
      BY DEF PeersInit
    <2> QED
      BY <2>1, <2>2, Zenon DEF PeerTypes
  <1>2. PeersInv /\ PeerTypes => PeersTypeOK
    <2>1. PeersInv /\ PeerTypes => peerCompare.on \in BOOLEAN
      BY Zenon DEF PeersInv
    <2>2. PeersInv /\ PeerTypes => peerIndex.pending \in BOOLEAN /\ peerDeleting \in BOOLEAN
      BY Zenon DEF PeerTypes
    <2>3. PeersInv /\ PeerTypes =>
            /\ peerStrip.anchor \in DOMAIN PeerRows \cup {None} /\ peerStrip.fit \in Widths
            /\ peerIndex.runs \subseteq DOMAIN PeerRows
            /\ peerCompare.chosen \subseteq DOMAIN PeerRows
      BY Zenon DEF PeersInv, PeerTypes
    <2> QED
      BY <2>1, <2>2, <2>3, Zenon DEF PeersTypeOK
  <1> QED
    BY <1>1, <1>2, PeerTypesStep, PeersInvStep, InitPeers, PTL DEF PeersSpec

-----------------------------------------------------------------------------
(* Types of the list of runs. *)

\* The rest of the types of the list of runs.
RunsUrlOf(url) ==
    /\ {"status", "sortBy", "steps"} \subseteq DOMAIN url
    /\ url.status \in RunStatuses /\ url.sortBy \in RunColumns
    /\ url.steps # {} /\ url.steps \subseteq RunSteps
RunsRest ==
    /\ RunsUrlOf(runsUrl)
    /\ runsLive \subseteq AllRuns /\ runsSuites \subseteq DOMAIN SuiteLabels

\* A click on a step leaves at least one step of a run.
LEMMA TogglesAreSteps ==
  ASSUME NEW steps, steps \subseteq RunSteps, NEW now \in StepToggles(steps)
  PROVE  now # {} /\ now \subseteq RunSteps
  BY DEF StepToggles

\* A turn to a URL of the right form.
LEMMA TurnKeepsRest ==
  ASSUME RunsRest, NEW url, NEW drop, RunsTurn(url, drop), RunsUrlOf(url)
  PROVE  RunsRest'
  BY DEF RunsRest, RunsTurn, AllRuns, RunsUrlOf

\* The handlers that change the URL.
LEMMA UrlStepsKeepRest ==
  ASSUME RunsRest, ListInv, PickFilter \/ PickStatus \/ TurnRunsPage \/ ClickColumn \/ ClickStep
                    \/ ChooseLabel \/ RemoveLabel
  PROVE  RunsRest'
  <1>1. ASSUME NEW p, p \notin {"status", "sortBy", "steps"}, NEW v, NEW drop,
               RunsTurn([runsUrl EXCEPT ![p] = v, !.page = 1], drop)
        PROVE  RunsRest'
    <2>1. RunsUrlOf([runsUrl EXCEPT ![p] = v, !.page = 1])
      BY <1>1 DEF RunsRest, RunsUrlOf
    <2> QED
      BY <1>1, <2>1, TurnKeepsRest
  <1>2. CASE PickFilter
    <2>1. PICK p \in RunsPicked : \E v : RunsTurn([runsUrl EXCEPT ![p] = v, !.page = 1], None)
      BY <1>2 DEF PickFilter, RunsGo
    <2>2. PICK v : RunsTurn([runsUrl EXCEPT ![p] = v, !.page = 1], None)
      BY <2>1
    <2> QED
      BY <1>1, <2>2 DEF RunsPicked
  <1>3. CASE PickStatus
    <2>1. PICK v \in RunStatuses : RunsTurn([runsUrl EXCEPT !.status = v, !.page = 1], None)
      BY <1>3 DEF PickStatus, RunsGo, RunStatuses
    <2>2. RunsUrlOf([runsUrl EXCEPT !.status = v, !.page = 1])
      BY DEF RunsRest, RunsUrlOf
    <2> QED
      BY <2>1, <2>2, TurnKeepsRest
  <1>4. CASE TurnRunsPage
    <2>1. CASE \E p : RunsTurn([runsUrl EXCEPT !.page = p], None)
      <3>1. PICK p : RunsTurn([runsUrl EXCEPT !.page = p], None)
        BY <2>1
      <3>2. RunsUrlOf([runsUrl EXCEPT !.page = p])
        BY DEF RunsRest, RunsUrlOf
      <3> QED
        BY <3>1, <3>2, TurnKeepsRest
    <2>2. CASE \E n \in RunSizes : RunsTurn([runsUrl EXCEPT !.page = 1, !.size = n], None)
      <3>1. PICK n \in RunSizes : RunsTurn([runsUrl EXCEPT !.page = 1, !.size = n], None)
        BY <2>2
      <3>2. RunsUrlOf([runsUrl EXCEPT !.page = 1, !.size = n])
        BY DEF RunsRest, RunsUrlOf
      <3> QED
        BY <3>1, <3>2, TurnKeepsRest
    <2> QED
      BY <1>4, <2>1, <2>2 DEF TurnRunsPage, RunsGo
  <1>5. CASE ClickColumn
    <2>1. PICK c, d : /\ c \in RunColumns
                      /\ RunsTurn([runsUrl EXCEPT !.page = 1, !.sortBy = c, !.dir = d], None)
      BY <1>5 DEF ClickColumn, RunsGo
    <2>2. RunsUrlOf([runsUrl EXCEPT !.page = 1, !.sortBy = c, !.dir = d])
      BY <2>1 DEF RunsRest, RunsUrlOf
    <2> QED
      BY <2>1, <2>2, TurnKeepsRest
  <1>6. CASE ClickStep
    <2>1. PICK clicked \in StepToggles(runsUrl.steps) :
              RunsTurn([runsUrl EXCEPT !.page = 1, !.steps = StepsReadBack(clicked)], None)
      BY <1>6 DEF ClickStep, RunsGo
    <2> DEFINE steps == StepsReadBack(clicked)
    <2>2. steps # {} /\ steps \subseteq RunSteps
      <3>1. clicked # {} /\ clicked \subseteq RunSteps
        BY TogglesAreSteps DEF RunsRest, RunsUrlOf
      <3> QED
        BY <3>1 DEF StepsReadBack, DefaultRunsUrl, RunSteps
    <2> HIDE DEF steps
    <2>3. RunsUrlOf([runsUrl EXCEPT !.page = 1, !.steps = steps])
      BY <2>2 DEF RunsRest, RunsUrlOf
    <2> QED
      BY <2>1, <2>3, TurnKeepsRest DEF steps
  <1>7. CASE ChooseLabel
    <2>1. PICK v : RunsTurn([runsUrl EXCEPT ![runsDrop[1]] = v, !.page = 1], runsDrop)
      BY <1>7 DEF ChooseLabel
    <2>2. runsDrop[1] \notin {"status", "sortBy", "steps"}
      BY <1>7 DEF ChooseLabel, ListInv
    <2> QED
      BY <1>1, <2>1, <2>2
  <1>8. CASE RemoveLabel
    <2>1. PICK p \in {"labels", "suiteLabels"} :
              \E v : RunsTurn([runsUrl EXCEPT ![p] = v, !.page = 1], None)
      BY <1>8 DEF RemoveLabel, RunsGo
    <2>2. PICK v : RunsTurn([runsUrl EXCEPT ![p] = v, !.page = 1], None)
      BY <2>1
    <2> QED
      BY <1>1, <2>2
  <1> QED
    BY <1>2, <1>3, <1>4, <1>5, <1>6, <1>7, <1>8

\* Every step of the list of runs.
LEMMA RunsRestStep == RunsInv /\ RunsRest /\ [RunsNext]_runsVars => RunsRest'
  <1> SUFFICES ASSUME RunsInv, RunsRest, [RunsNext]_runsVars PROVE RunsRest'
    OBVIOUS
  <1>1. CASE PickFilter \/ PickStatus \/ TurnRunsPage \/ ClickColumn \/ ClickStep
               \/ ChooseLabel \/ RemoveLabel
    BY <1>1, UrlStepsKeepRest DEF RunsInv
  <1>2. ASSUME UNCHANGED <<runsUrl, runsLive, runsSuites>> PROVE RunsRest'
    BY <1>2 DEF RunsRest, RunsUrlOf, AllRuns
  <1>3. CASE EnterMode \/ CancelMode \/ ChooseRun
    BY <1>2, <1>3 DEF EnterMode, CancelMode, ChooseRun, SetMode
  <1>4. CASE OpenLabel \/ ConfirmDelete \/ RunMoves \/ PollIndex \/ UNCHANGED runsVars
    BY <1>2, <1>4 DEF OpenLabel, ConfirmDelete, RunMoves, PollIndex, runsVars
  <1>5. CASE \E ok \in BOOLEAN : DeleteAnswers(ok)
    BY <1>2, <1>5 DEF DeleteAnswers
  <1>6. CASE PollLiveRuns
    <2>1. runsLive' \subseteq AllRuns /\ UNCHANGED <<runsUrl, runsSuites>>
      BY <1>6 DEF PollLiveRuns
    <2> QED
      BY <2>1 DEF RunsRest, RunsUrlOf, AllRuns
  <1>7. CASE FetchSuite
    <2>1. runsSuites' \subseteq DOMAIN SuiteLabels /\ UNCHANGED <<runsUrl, runsLive>>
      BY <1>7 DEF FetchSuite, RunsRest
    <2> QED
      BY <2>1 DEF RunsRest, RunsUrlOf, AllRuns
  <1> QED
    BY <1>1, <1>3, <1>4, <1>5, <1>6, <1>7 DEF RunsNext

\* The list of runs keeps its URL, its choice and what it deletes of their types
\* (RunsPage.tsx).
LEMMA RunsTyped == RunsSpec => []RunsTypeOK
  <1>1. RunsInit => RunsRest
    BY DEF RunsInit, RunsRest, RunsUrlOf, DefaultRunsUrl, RunStatuses, RunColumns, RunSteps
  <1>2. RunsInv /\ RunsRest => RunsTypeOK
    <2> SUFFICES ASSUME RunsInv, RunsRest PROVE RunsTypeOK
      OBVIOUS
    <2>1. DOMAIN runsSrv = AllRuns
      BY DEF RunsInv, SeenInv
    <2> QED
      BY <2>1 DEF RunsInv, RunsRest, RunsUrlOf, RunsTypeOK, ListInv, ChoiceInv, SeenInv
  <1> QED
    BY <1>1, <1>2, RunsRestStep, InitRuns, ListInvStep, ChoiceInvStep, SeenInvStep, PTL
    DEF RunsSpec, RunsInv

-----------------------------------------------------------------------------
(* Types of the list of suites. *)

\* A filter on labels has a value for each of its keys, after every click.
SpFilters(filters) == DOMAIN filters \subseteq SpKeys /\ \A k \in DOMAIN filters : filters[k] # {}

\* The key and the value of the click are kept, or the key goes.
LEMMA ToggledFilters ==
  ASSUME NEW filters, SpFilters(filters), NEW k \in SpKeys, NEW v
  PROVE  SpFilters(ToggleValue(filters, k, v))
  <1> DEFINE was == IF k \in DOMAIN filters THEN filters[k] ELSE {}
             now == IF v \in was THEN was \ {v} ELSE was \cup {v}
             left == [x \in DOMAIN filters \ {k} |-> filters[x]]
             one == [j \in {k} |-> now]
             more == [x \in {k} \cup DOMAIN filters |-> IF x \in {k} THEN one[x] ELSE filters[x]]
  <1>1. SpFilters(left)
    BY DEF SpFilters
  <1>2. now # {} => SpFilters(more)
    <2> HIDE DEF now
    <2> QED
      BY DEF SpFilters
  <1>3. ToggleValue(filters, k, v) = IF now = {} THEN left ELSE more
    <2>1. DOMAIN one = {k}
      OBVIOUS
    <2> QED
      BY <2>1 DEF ToggleValue, Restrict, Over
  <1> QED
    BY <1>1, <1>2, <1>3

\* A filter that is taken away.
LEMMA WithoutFilter ==
  ASSUME NEW filters, SpFilters(filters), NEW k
  PROVE  SpFilters(WithoutLabel(filters, k))
  BY DEF SpFilters, WithoutLabel, Restrict

\* The rest of the types of the list of suites.
SpUrlOf(url) ==
    /\ url.sortBy \in SpColumns /\ url.days \in SpDays
    /\ url.groupBy \in {None} \cup Seq(SpKeys \cup {"context"})
    /\ SpFilters(url.labels)
SpDrops == {None, <<"keys">>} \cup {<<"values", k>> : k \in SpKeys}
SpRest == spKnown \subseteq DOMAIN SpLabels /\ SpUrlOf(spUrl) /\ spDrop \in SpDrops

\* A click whose changes are of the right form.
LEMMA GoneToRest ==
  ASSUME SuitesInv, SpRest, NEW changes, NEW drop \in SpDrops, SpGo(changes, drop),
         "sortBy" \in DOMAIN changes => changes.sortBy \in SpColumns,
         "days" \in DOMAIN changes => changes.days \in SpDays,
         "groupBy" \in DOMAIN changes =>
            changes.groupBy \in {None} \cup Seq(SpKeys \cup {"context"}),
         "labels" \in DOMAIN changes => SpFilters(changes.labels)
  PROVE  SpRest'
  <1>1. spUrl' = [p \in DOMAIN changes \cup DOMAIN spUrl |->
                    IF p \in DOMAIN changes THEN changes[p] ELSE spUrl[p]]
    BY DEF SpGo, Over
  <1>2. {"sortBy", "days", "groupBy", "labels"} \subseteq DOMAIN spUrl
    BY DEF SuitesInv, DefaultSpUrl
  <1>3. /\ spUrl'.sortBy = IF "sortBy" \in DOMAIN changes THEN changes.sortBy ELSE spUrl.sortBy
        /\ spUrl'.days = IF "days" \in DOMAIN changes THEN changes.days ELSE spUrl.days
        /\ spUrl'.groupBy = IF "groupBy" \in DOMAIN changes THEN changes.groupBy ELSE spUrl.groupBy
        /\ spUrl'.labels = IF "labels" \in DOMAIN changes THEN changes.labels ELSE spUrl.labels
    BY <1>1, <1>2
  <1>4. SpUrlOf(spUrl')
    BY <1>3 DEF SpUrlOf, SpRest
  <1> QED
    BY <1>4 DEF SpGo, SpRest

\* The keys of the summaries that have come are keys of suites.
LEMMA KeysAreKeys ==
  ASSUME SpRest
  PROVE  SpLabelKeys \subseteq SpKeys
  BY DEF SpRest, SpLabelKeys, SpKeys, SpFetched

\* The chips are of the keys of labels.
LEMMA ChipsAreKeys ==
  ASSUME SpRest
  PROVE  SpChips \subseteq SpKeys
  <1>1. spDrop \notin {None, <<"keys">>} => spDrop[2] \in SpKeys
    BY DEF SpRest, SpDrops
  <1> QED
    BY <1>1 DEF SpRest, SpUrlOf, SpFilters, SpChips

\* A suite that the index names has a summary.
LEMMA SuitesHaveLabels ==
  ASSUME SuitesInv
  PROVE  ToSet(SpSuites) \subseteq DOMAIN SpLabels
  <1> DEFINE places == PlacesAmong(SpEntries, FirstEntries)
  <1>1. places \in Seq(DOMAIN SpEntries) /\ ToSet(places) \subseteq FirstEntries
    <2>1. [i \in DOMAIN SpEntries |-> i] \in Seq(DOMAIN SpEntries)
      BY EntriesAreSeq, PlacesAreSeq
    <2>2. /\ PlacesAmong(SpEntries, FirstEntries) \in Seq(DOMAIN SpEntries)
          /\ ToSet(PlacesAmong(SpEntries, FirstEntries)) \subseteq FirstEntries
      <3> HIDE DEF FirstEntries
      <3> DEFINE all == [i \in DOMAIN SpEntries |-> i]
      <3>1. PlacesAmong(SpEntries, FirstEntries) = Among(all, FirstEntries)
        BY DEF PlacesAmong
      <3> HIDE DEF all
      <3> QED
        BY <2>1, <3>1, AmongMembers DEF all
    <2> QED
      BY <2>2
  <1>2. \A i \in FirstEntries : SpEntries[i].suite \in DOMAIN SpLabels
    <2> SUFFICES ASSUME NEW i \in FirstEntries PROVE SpEntries[i].suite \in DOMAIN SpLabels
      OBVIOUS
    <2>1. i \in DOMAIN SpEntries /\ SpEntries[i].suite # None
      BY DEF FirstEntries
    <2>2. spAt \in DOMAIN SpIndexes /\ SpEntries = SpIndexes[spAt]
      <3>1. spAt # 0
        BY <2>1 DEF SpEntries
      <3> QED
        BY <3>1, SuitesAssumption DEF SuitesInv, SpEntries
    <2>3. SpIndexes[spAt] \in ToSet(SpIndexes) /\ SpEntries[i] \in ToSet(SpIndexes[spAt])
      BY <2>1, <2>2 DEF ToSet
    <2> QED
      BY <2>1, <2>3, SuitesAssumption
  <1>3. SpSuites = [k \in DOMAIN places |-> SpEntries[places[k]].suite]
    BY DEF SpSuites, SuitesAt
  <1>4. \A k \in DOMAIN places : places[k] \in FirstEntries
    BY <1>1 DEF ToSet
  <1> HIDE DEF places
  <1> QED
    BY <1>2, <1>3, <1>4 DEF ToSet

\* Every step of the list of suites.
LEMMA SpRestStep == SuitesInv /\ SpRest /\ [SpNext]_spVars => SpRest'
  <1> SUFFICES ASSUME SuitesInv, SpRest, [SpNext]_spVars PROVE SpRest'
    OBVIOUS
  <1>0. None \in SpDrops /\ spDrop \in SpDrops
    BY DEF SpDrops, SpRest
  <1>1. CASE SetInactive
    <2>1. PICK d \in SpDays : SpGo([days |-> d, page |-> 1], None)
      BY <1>1 DEF SetInactive
    <2> QED
      BY <1>0, <2>1, GoneToRest
  <1>2. CASE ToggleHide
    <2>1. PICK h : SpGo([hide |-> h, page |-> 1], None)
      BY <1>2 DEF ToggleHide
    <2> QED
      BY <1>0, <2>1, GoneToRest
  <1>3. CASE ToggleGroupByKey
    <2>1. PICK k \in SpLabelKeys :
            SpGo([groupBy |-> IF k \in ToSet(SpGroupKeys)
                              THEN Among(SpGroupKeys, ToSet(SpGroupKeys) \ {k})
                              ELSE Append(SpGroupKeys, k),
                  page |-> 1], None)
      BY <1>3 DEF ToggleGroupByKey
    <2> DEFINE g == IF k \in ToSet(SpGroupKeys)
                    THEN Among(SpGroupKeys, ToSet(SpGroupKeys) \ {k})
                    ELSE Append(SpGroupKeys, k)
    <2>2. SpGroupKeys \in Seq(SpKeys \cup {"context"})
      <3>1. "context" \in SpKeys \cup {"context"}
        OBVIOUS
      <3>2. <<"context">> \in Seq(SpKeys \cup {"context"})
        BY <3>1
      <3>3. spUrl.groupBy \in {None} \cup Seq(SpKeys \cup {"context"})
        BY DEF SpRest, SpUrlOf
      <3> QED
        BY <3>2, <3>3, Zenon DEF SpGroupKeys
    <2>3. g \in Seq(SpKeys \cup {"context"})
      <3>1. Among(SpGroupKeys, ToSet(SpGroupKeys) \ {k}) \in Seq(SpKeys \cup {"context"})
        BY <2>2, AmongMembers
      <3>2. Append(SpGroupKeys, k) \in Seq(SpKeys \cup {"context"})
        BY <2>2, KeysAreKeys
      <3> QED
        BY <3>1, <3>2
    <2>4. SpGo([groupBy |-> g, page |-> 1], None)
      BY <2>1
    <2> HIDE DEF g
    <2> QED
      BY <1>0, <2>3, <2>4, GoneToRest
  <1>4. CASE SortSuites
    <2>1. PICK c, d : c \in SpColumns /\ SpGo([sortBy |-> c, dir |-> d], None)
      BY <1>4 DEF SortSuites
    <2> QED
      BY <1>0, <2>1, GoneToRest
  <1>5. CASE TurnSuitesPage
    <2>1. PICK p : spUrl' = [spUrl EXCEPT !.page = p]
      BY <1>5 DEF TurnSuitesPage
    <2>2. SpUrlOf(spUrl')
      BY <2>1 DEF SpUrlOf, SpRest
    <2>3. spDrop' = None /\ spKnown' = spKnown
      BY <1>5 DEF TurnSuitesPage
    <2> QED
      BY <1>0, <2>2, <2>3 DEF SpRest
  <1>6. ASSUME NEW drop \in SpDrops, SpOpen(drop) PROVE SpRest'
    BY <1>6 DEF SpOpen, SpRest
  <1>7. \A k \in SpChips \cup SpLabelKeys : <<"values", k>> \in SpDrops
    BY KeysAreKeys, ChipsAreKeys DEF SpDrops
  <1>8. CASE OpenKeys
    <2>1. <<"keys">> \in SpDrops
      BY DEF SpDrops
    <2> QED
      BY <1>0, <1>6, <1>8, <2>1 DEF OpenKeys
  <1>9. CASE AddKey \/ ClickChip \/ CloseDropdown
    BY <1>0, <1>6, <1>7, <1>9 DEF AddKey, ClickChip, CloseDropdown
  <1>10. CASE ToggleFilterValue
    <2>1. PICK v : SpGo([labels |-> ToggleValue(spUrl.labels, spDrop[2], v), page |-> 1], spDrop)
      BY <1>10 DEF ToggleFilterValue
    <2>2. spDrop[2] \in SpKeys
      BY <1>10 DEF ToggleFilterValue, SpRest, SpDrops
    <2>3. SpFilters(ToggleValue(spUrl.labels, spDrop[2], v))
      BY <2>2, ToggledFilters DEF SpRest, SpUrlOf
    <2> QED
      BY <1>0, <2>1, <2>3, GoneToRest
  <1>11. CASE RemoveFilterKey
    <2>1. PICK k : SpGo([labels |-> WithoutLabel(spUrl.labels, k), page |-> 1], None)
      BY <1>11 DEF RemoveFilterKey
    <2>2. SpFilters(WithoutLabel(spUrl.labels, k))
      BY WithoutFilter DEF SpRest, SpUrlOf
    <2> QED
      BY <1>0, <2>1, <2>2, GoneToRest
  <1>12. CASE PollSuites
    BY <1>0, <1>12 DEF PollSuites, SpRest
  <1>13. CASE FetchSummary
    BY <1>13, SuitesHaveLabels DEF FetchSummary, SpRest
  <1>14. CASE UNCHANGED spVars
    BY <1>14 DEF spVars, SpRest
  <1> QED
    BY <1>1, <1>2, <1>3, <1>4, <1>5, <1>8, <1>9, <1>10, <1>11, <1>12, <1>13, <1>14 DEF SpNext

\* The list of suites keeps its URL, its pages and its rows of their types
\* (SuitesPage.tsx).
LEMMA SuitesTyped == SpSpec => []SpTypeOK
  <1>1. SpInit => SpRest
    BY SuitesAssumption DEF SpInit, SpRest, SpUrlOf, SpDrops, DefaultSpUrl, SpColumns, SpFilters,
       NoChoices
  <1>2. SuitesInv /\ SpRest => SpTypeOK
    <2> SUFFICES ASSUME SuitesInv, SpRest PROVE SpTypeOK
      OBVIOUS
    <2>1. spUrl.groupBy # None => ToSet(spUrl.groupBy) \subseteq SpKeys \cup {"context"}
      BY DEF SpRest, SpUrlOf, ToSet
    <2> QED
      BY <2>1 DEF SpTypeOK, SuitesInv, SpRest, SpUrlOf, SpDrops, SpFilters
  <1> QED
    BY <1>1, <1>2, SpRestStep, SuitesInvInit, SuitesInvStep, PTL DEF SpSpec

-----------------------------------------------------------------------------
(* Types of the tests of a run. *)

\* The rest of the types of a run's tests: the limit of slow payloads is capped, a step
\* stays, and the dialog is of a test that has results or is in the suite.
TestsRest ==
    /\ runUrl.slow <= MaxSlow /\ runUrl.steps # {}
    /\ runUrl.testModal \in Results \cup ToSet(SuiteOrder) \cup {None}

\* Every step of the tests of a run.
LEMMA TestsRestStep ==
  TestsInv /\ LimitsInv /\ TestsRest /\ [RunTestsNext]_runTestVars => TestsRest'
  <1> SUFFICES ASSUME TestsInv, LimitsInv, TestsRest, [RunTestsNext]_runTestVars PROVE TestsRest'
    OBVIOUS
  <1>0. DOMAIN runUrl = DOMAIN DefaultUrl
    BY DEF TestsInv
  <1> USE <1>0 DEF TestsRest
  <1>1. ASSUME NEW q, SearchFor(q) PROVE TestsRest'
    BY <1>1 DEF SearchFor, Navigate, DefaultUrl
  <1>2. ASSUME NEW n \in Results \cup ToSet(SuiteOrder) \cup {None}, OpenTest(n) PROVE TestsRest'
    BY <1>2 DEF OpenTest, Navigate, DefaultUrl
  <1>3. CASE ChangePage \/ ChangePageSize
    BY <1>3 DEF ChangePage, ChangePageSize, Navigate, DefaultUrl
  <1>4. CASE ClickSort \/ ChangeStatus
    BY <1>4 DEF ClickSort, ChangeStatus, Navigate, DefaultUrl
  <1>5. CASE Type
    BY <1>1, <1>5 DEF Type
  <1>6. CASE ClickTest \/ CloseTest
    <2>1. TileNames \subseteq Results \cup ToSet(SuiteOrder)
      BY DEF TileNames, Suite, ToSet
    <2> QED
      BY <1>2, <1>6, <2>1 DEF ClickTest, CloseTest
  <1>7. CASE ChangeStepTab \/ ToggleExecRow
    BY <1>7 DEF ChangeStepTab, ToggleExecRow, Navigate, DefaultUrl
  <1>8. CASE ToggleStep
    BY <1>8 DEF ToggleStep, Navigate, DefaultUrl
  <1>9. CASE ChangeThreshold
    BY <1>9 DEF ChangeThreshold, Navigate, DefaultUrl
  <1>10. CASE ChangeSlow
    <2>1. PICK ms \in SlowInputs : ms > 0 /\ Navigate([runUrl EXCEPT !.slow = Min({ms, MaxSlow})])
      BY <1>10 DEF ChangeSlow
    <2>2. ms \in Int /\ MaxSlow \in Nat
      BY LimitsAssumption DEF MeasuresAssumption
    <2>3. Min({ms, MaxSlow}) <= MaxSlow
      BY <2>2, MinOfTwo
    <2> QED
      BY <2>1, <2>3 DEF Navigate, DefaultUrl
  <1>11. CASE ChangeMode
    BY <1>11 DEF ChangeMode, Navigate, DefaultUrl
  <1>12. CASE ClickFacet
    BY <1>1, <1>12 DEF ClickFacet
  <1>13. CASE ClickInsight
    <2>1. \A d, v : Bucket(Samples, d, v) \subseteq Results
      BY DEF Bucket, Samples
    <2>2. \/ \E q : SearchFor(q)
          \/ \E d, v : \E n \in Bucket(Samples, d, v) : OpenTest(n)
      BY <1>13 DEF ClickInsight
    <2> QED
      BY <1>1, <1>2, <2>1, <2>2
  <1>14. CASE Locally \/ SuiteAnswers \/ Reload
    BY <1>14 DEF Locally, SuiteAnswers, Reload
  <1>15. CASE UNCHANGED runTestVars
    BY <1>15 DEF runTestVars
  <1> QED
    BY <1>3, <1>4, <1>5, <1>6, <1>7, <1>8, <1>9, <1>10, <1>11, <1>12, <1>13, <1>14, <1>15
       DEF RunTestsNext

\* The tests of a run keep their query, their thresholds and their selection of
\* their types (RunDetailPage.tsx, TestHeatmap.tsx).
LEMMA RunTestsTyped == RunTestsSpec => []RunTestsTypeOK
  <1>1. RunTestsInit => TestsRest
    BY LimitsAssumption DEF MeasuresAssumption, RunTestsInit, TestsRest, DefaultUrl
  <1>2. TestsInv /\ LimitsInv /\ TestsRest => RunTestsTypeOK
    <2> SUFFICES ASSUME TestsInv, LimitsInv, TestsRest PROVE RunTestsTypeOK
      OBVIOUS
    <2>1. runUrl.slow \in 1..MaxSlow
      <3>1. runUrl.slow \in Nat \ {0} /\ runUrl.slow <= MaxSlow
        BY DEF LimitsInv, TestsRest
      <3>2. MaxSlow \in Nat
        BY LimitsAssumption DEF MeasuresAssumption
      <3> QED
        BY <3>1, <3>2
    <2> QED
      BY <2>1 DEF RunTestsTypeOK, TestsInv, LimitsInv, TestsRest
  <1> QED
    BY <1>1, <1>2, TestsRestStep, TestsInvInit, TestsInvStep, LimitsInit, LimitsStep, PTL
    DEF RunTestsSpec

-----------------------------------------------------------------------------
(* Types of the page of a suite. *)

\* The rest of the types of the page of a suite: what is shown of the URL, the pages of
\* the table and of the heatmap, and the runs that are asked to be deleted.
SuiteUrlOf(url) ==
    /\ url.tab \in Tabs /\ url.steps # {} /\ url.steps \subseteq RunSteps
    /\ url.heatSize \in HeatmapCounts
SuiteRest ==
    /\ SuiteUrlOf(suiteUrl) /\ SuiteViewOf(suiteView)
    /\ suiteMode.asked \subseteq SuiteRunsKnown
    /\ suiteTab.heatPage \in Nat \ {0}

\* What the page of a suite begins with.
LEMMA DefaultsAre ==
  /\ SuiteUrlOf(DefaultSuiteUrl) /\ SuiteViewOf(DefaultSuiteView)
  /\ DefaultSuiteTab.heatPage = 1 /\ {"tab", "steps", "heatSize"} \subseteq DOMAIN DefaultSuiteUrl
  <1>1. /\ DefaultSuiteUrl.tab = "runs" /\ DefaultSuiteUrl.steps = {"test"}
        /\ DefaultSuiteUrl.heatSize = 2
    BY DEF DefaultSuiteUrl, Over, ListParams, FilterParams, ChartParams, FileParams, DialogParams,
           HeatParams
  <1>2. SuiteViewOf(DefaultSuiteView)
    BY SuiteAssumption DEF SuiteViewOf, DefaultSuiteView
  <1>3. DefaultSuiteTab.heatPage = 1
    BY DEF DefaultSuiteTab
  <1>4. {"tab", "steps", "heatSize"} \subseteq DOMAIN DefaultSuiteUrl
    BY DefaultFieldsAre
  <1> QED
    BY <1>1, <1>2, <1>3, <1>4 DEF SuiteUrlOf, Tabs, RunSteps, HeatmapCounts

\* A table that goes, or stays, leaves the question as it is.
LEMMA AskedStays ==
  ASSUME SuiteInv, AnchorOfTable
  PROVE  suiteMode'.asked = suiteMode.asked
  <1>1. suiteMode' = suiteMode \/ suiteMode' = [suiteMode EXCEPT !.anchor = None]
    BY DEF AnchorOfTable
  <1> QED
    BY <1>1 DEF SuiteInv

\* A handler of the URL, if what it changes is of the right form.
LEMMA GoneToUrl ==
  ASSUME SuiteInv, SuiteRest, NEW keeps, NEW changes, NEW page \in Nat \ {0}, SuiteGo(keeps, changes, page),
         "tab" \in DOMAIN changes => changes.tab \in Tabs,
         "steps" \in DOMAIN changes => changes.steps # {} /\ changes.steps \subseteq RunSteps,
         "heatSize" \in DOMAIN changes => changes.heatSize \in HeatmapCounts
  PROVE  /\ SuiteUrlOf(suiteUrl') /\ SuiteViewOf(suiteView')
         /\ suiteMode'.asked \subseteq SuiteRunsKnown
  <1> DEFINE D == DOMAIN DefaultSuiteUrl
             kept == [p \in D |-> IF p \in keeps THEN suiteUrl[p] ELSE DefaultSuiteUrl[p]]
  <1>1. suiteUrl' = [p \in DOMAIN changes \cup D |-> IF p \in DOMAIN changes THEN changes[p] ELSE kept[p]]
    BY DEF SuiteGo, Over
  <1>2. \A p \in {"tab", "steps", "heatSize"} :
           /\ p \in DOMAIN changes => suiteUrl'[p] = changes[p]
           /\ p \notin DOMAIN changes => suiteUrl'[p] \in {suiteUrl[p], DefaultSuiteUrl[p]}
    <2> HIDE DEF D
    <2>1. \A p \in {"tab", "steps", "heatSize"} : p \in D
      BY DefaultsAre DEF D
    <2> QED
      BY <1>1, <2>1
  <1>3. SuiteUrlOf(suiteUrl')
    BY <1>2, DefaultsAre DEF SuiteUrlOf, SuiteRest
  <1>4. suiteView' = [suiteView EXCEPT !.page = page] /\ suiteMode'.asked = suiteMode.asked
    BY AskedStays DEF SuiteGo
  <1>5. SuiteViewOf(suiteView')
    BY <1>4 DEF SuiteViewOf, SuiteRest
  <1> QED
    BY <1>3, <1>4, <1>5 DEF SuiteRest

\* A handler of what is not in the URL.
LEMMA SeenAsView ==
  ASSUME SuiteRest, NEW changes, SuiteSee(changes),
         "page" \in DOMAIN changes => changes.page \in Nat \ {0},
         "size" \in DOMAIN changes => changes.size \in SuiteSizes
  PROVE  /\ SuiteUrlOf(suiteUrl') /\ SuiteViewOf(suiteView')
         /\ suiteMode'.asked \subseteq SuiteRunsKnown
  <1>1. suiteView' = [p \in DOMAIN changes \cup DOMAIN suiteView |->
                        IF p \in DOMAIN changes THEN changes[p] ELSE suiteView[p]]
    BY DEF SuiteSee, Over
  <1>2. SuiteViewOf(suiteView')
    BY <1>1 DEF SuiteViewOf, SuiteRest
  <1> QED
    BY <1>2 DEF SuiteSee, SuiteRest

\* The pages of the table and of the heatmap are numbers.
LEMMA SuitePagesAre ==
  ASSUME SuiteInv, SuiteRest
  PROVE  /\ PageCount(SuiteMatched, suiteView.size) \in Int
         /\ PageCount(HeatFound, suiteUrl.heatSize) \in Int
  <1>1. Len(SuiteMatched) \in Nat
    <2>1. SuiteRuns \in Seq(SuiteRunsKnown)
      <3>1. CASE suiteIndex = 0
        BY <3>1 DEF SuiteRuns
      <3>2. CASE suiteIndex # 0
        BY <3>2, SuiteAssumption DEF SuiteRuns, SuiteInv, SuiteRunsKnown
      <3> QED
        BY <3>1, <3>2
    <2>2. SuiteMatched \in Seq(SuiteRunsKnown)
      BY <2>1, AmongMembers DEF SuiteMatched
    <2> QED
      BY <2>2
  <1>2. Len(HeatFound) \in Nat
    <2> DEFINE n == Cardinality(HeatTests)
    <2>1. IsFiniteSet(HeatTests)
      BY SuiteTestsAssumption, FS_Subset DEF HeatTests
    <2>2. n \in Nat /\ ExistsBijection(1..n, HeatTests)
      BY <2>1, FS_CardinalityType
    <2>3. \E f \in [1..n -> HeatTests] : IsInjective(f)
      BY <2>2 DEF ExistsBijection, Bijection, Injection
    <2>4. SetToSeq(HeatTests) \in [1..n -> HeatTests]
      BY <2>3 DEF SetToSeq
    <2> HIDE DEF n
    <2>5. SetToSeq(HeatTests) \in Seq(HeatTests)
      BY <2>2, <2>4
    <2>6. HeatFound \in Seq(HeatTests)
      BY <2>5, AmongMembers DEF HeatFound
    <2> QED
      BY <2>6
  <1>3. suiteView.size \in Nat \ {0} /\ suiteUrl.heatSize \in Nat \ {0}
    <2>1. suiteView.size \in SuiteSizes /\ suiteUrl.heatSize \in HeatmapCounts
      BY DEF SuiteRest, SuiteViewOf, SuiteUrlOf
    <2>2. SuiteSizes \subseteq Nat \ {0} /\ HeatmapCounts \subseteq Nat \ {0}
      BY SuiteAssumption DEF HeatmapCounts
    <2> QED
      BY <2>1, <2>2, Zenon
  <1> QED
    BY <1>1, <1>2, <1>3 DEF PageCount

\* Steps on the tab of the runs, and those that change the tab.
LEMMA OnPageRest ==
  ASSUME SuiteInv, SuiteRest, OnPageStep
  PROVE  SuiteRest'
  <1>0. suiteTab' = suiteTab \/ suiteTab' = DefaultSuiteTab
    BY DEF OnPageStep
  <1>1. suiteTab'.heatPage \in Nat \ {0}
    BY <1>0, DefaultsAre DEF SuiteRest
  <1>2. ASSUME SuiteUrlOf(suiteUrl'), SuiteViewOf(suiteView'), suiteMode'.asked \subseteq SuiteRunsKnown
        PROVE  SuiteRest'
    BY <1>1, <1>2 DEF SuiteRest, SuiteUrlOf, SuiteViewOf, SuiteRunsKnown
  <1>3. ASSUME NEW keeps, NEW changes, NEW page \in {suiteView.page, 1},
               SuiteGo(keeps, changes, page),
               "tab" \in DOMAIN changes => changes.tab \in Tabs,
               "steps" \in DOMAIN changes => changes.steps # {} /\ changes.steps \subseteq RunSteps,
               "heatSize" \notin DOMAIN changes
        PROVE  SuiteRest'
    <2>1. page \in Nat \ {0}
      BY DEF SuiteRest, SuiteViewOf
    <2> QED
      BY <1>2, <1>3, <2>1, GoneToUrl
  <1>4. ASSUME NEW changes, SuiteSee(changes),
               "page" \in DOMAIN changes => changes.page \in Nat \ {0},
               "size" \in DOMAIN changes => changes.size \in SuiteSizes
        PROVE  SuiteRest'
    BY <1>2, <1>4, SeenAsView
  <1>5. CASE ChangeTab
    <2>1. PICK t \in Tabs : SuiteGo(TabKept, [tab |-> t], suiteView.page)
      BY <1>5 DEF ChangeTab
    <2> QED
      BY <1>3, <2>1
  <1>6. CASE FilterRuns
    <2>1. PICK v : \/ SuiteGo(FiltersKept, [client |-> v], 1) \/ SuiteGo(FiltersKept, [image |-> v], 1)
                   \/ SuiteGo(FiltersKept, [status |-> v], 1)
      BY <1>6 DEF FilterRuns
    <2> QED
      BY <1>3, <2>1
  <1>7. CASE FilterRunLabels
    <2>1. PICK f : SuiteGo(FiltersKept, [labels |-> f], 1)
      BY <1>7 DEF FilterRunLabels
    <2> QED
      BY <1>3, <2>1
  <1>8. CASE SortRuns
    <2>1. PICK c, d : SuiteGo(FiltersKept, [sortBy |-> c, dir |-> d], 1)
      BY <1>8 DEF SortRuns
    <2> QED
      BY <1>3, <2>1
  <1>9. CASE ChooseSteps
    <2>1. PICK steps \in StepToggles(suiteUrl.steps) :
             SuiteGo(ChartsKept, [steps |-> steps], suiteView.page)
      BY <1>9 DEF ChooseSteps
    <2>2. steps # {} /\ steps \subseteq RunSteps
      BY TogglesAreSteps DEF SuiteRest, SuiteUrlOf
    <2> QED
      BY <1>3, <2>1, <2>2
  <1>10. CASE SetCharts
    <2>1. PICK v : \/ SuiteGo(ChartsKept, [heatColor |-> v], suiteView.page)
                   \/ SuiteGo(ChartsKept, [chartMode |-> v], suiteView.page)
                   \/ SuiteGo(ChartsKept, [passingOnly |-> v], suiteView.page)
      BY <1>10 DEF SetCharts
    <2> QED
      BY <1>3, <2>1
  <1>11. CASE ClearGroups \/ \E k \in GroupLabels \cup {"instance_id"} : ClickGroupKey(k)
    <2>1. PICK v : SuiteGo(ChartsKept, [groupBy |-> v], suiteView.page)
      BY <1>11 DEF ClearGroups, ClickGroupKey
    <2> QED
      BY <1>3, <2>1
  <1>12. CASE TurnSuitePage
    <2>1. \/ \E p \in PageLinks(suiteView.page, PageCount(SuiteMatched, suiteView.size)) :
                SuiteSee([page |-> p])
          \/ \E n \in SuiteSizes : SuiteSee([page |-> 1, size |-> n])
      BY <1>12 DEF TurnSuitePage
    <2>2. \A p \in PageLinks(suiteView.page, PageCount(SuiteMatched, suiteView.size)) : p \in Nat \ {0}
      BY SuitePagesAre, PageLinksArePages DEF SuiteRest, SuiteViewOf
    <2>3. CASE \E p \in PageLinks(suiteView.page, PageCount(SuiteMatched, suiteView.size)) :
                 SuiteSee([page |-> p])
      <3>1. PICK p \in PageLinks(suiteView.page, PageCount(SuiteMatched, suiteView.size)) :
                 SuiteSee([page |-> p])
        BY <2>3
      <3> QED
        BY <1>4, <2>2, <3>1
    <2>4. CASE \E n \in SuiteSizes : SuiteSee([page |-> 1, size |-> n])
      BY <1>4, <2>4
    <2> QED
      BY <2>1, <2>3, <2>4
  <1>13. CASE Unfold
    <2>1. PICK v : \/ SuiteSee([heatOpen |-> v]) \/ SuiteSee([chartOpen |-> v])
                   \/ SuiteSee([metric |-> v])
      BY <1>13 DEF Unfold
    <2> QED
      BY <1>4, <2>1
  <1>14. CASE FilterCharts
    <2>1. \/ \E v : SuiteSee([chartStep |-> v])
          \/ \E v : SuiteSee([clients |-> v])
          \/ \E v : SuiteSee([chartLabels |-> v])
      BY <1>14, Zenon DEF FilterCharts
    <2> QED
      BY <1>4, <2>1
  <1>15. ASSUME suiteUrl' = suiteUrl, suiteView' = suiteView,
                suiteMode'.asked \subseteq SuiteRunsKnown
         PROVE  SuiteRest'
    BY <1>2, <1>15 DEF SuiteRest
  <1>16. CASE EnterSuiteMode \/ ChooseSuiteRun \/ ChooseBox
    <2>1. PICK m, c, a : SuiteSetMode(m, c, a)
      BY <1>16 DEF EnterSuiteMode, ChooseSuiteRun, ChooseBox
    <2>2. suiteMode' = [mode |-> m, chosen |-> c, anchor |-> a, asked |-> suiteMode.asked]
      BY <2>1 DEF SuiteSetMode
    <2>3. suiteMode'.asked = suiteMode.asked
      BY <2>2
    <2> QED
      BY <1>15, <2>1, <2>3 DEF SuiteSetMode, SuiteRest
  <1>17. CASE AskSuiteDelete
    <2>1. suiteMode' = [suiteMode EXCEPT !.asked = suiteMode.chosen]
      BY <1>17 DEF AskSuiteDelete
    <2>2. suiteMode'.asked = suiteMode.chosen
      BY <2>1 DEF SuiteInv
    <2> QED
      BY <1>15, <1>17, <2>2 DEF AskSuiteDelete, SuiteInv
  <1>18. CASE \E ok \in BOOLEAN : SuiteDeleteAnswers(ok)
    <2>1. \/ suiteMode' = [suiteMode EXCEPT !.mode = "off", !.chosen = {}, !.asked = {}]
          \/ suiteMode' = [suiteMode EXCEPT !.asked = {}]
      BY <1>18 DEF SuiteDeleteAnswers
    <2>2. suiteMode'.asked = {}
      BY <2>1 DEF SuiteInv
    <2> QED
      BY <1>15, <1>18, <2>2 DEF SuiteDeleteAnswers
  <1>19. CASE PollSuiteIndex
    BY <1>15, <1>19, AskedStays DEF PollSuiteIndex, SuiteRest
  <1> QED
    BY <1>5, <1>6, <1>7, <1>8, <1>9, <1>10, <1>11, <1>12, <1>13, <1>14, <1>16, <1>17, <1>18, <1>19
    DEF OnPageStep, SuitePageNext

\* And the others.
LEMMA SuiteRestStep == SuiteInv /\ FilesInv /\ SuiteRest /\ [SuiteTestsNext]_suiteAllVars => SuiteRest'
  <1> SUFFICES ASSUME SuiteInv, FilesInv, SuiteRest, [SuiteTestsNext]_suiteAllVars PROVE SuiteRest'
    OBVIOUS
  <1>1. ASSUME SuiteUrlOf(suiteUrl'), SuiteViewOf(suiteView'),
               suiteMode'.asked \subseteq SuiteRunsKnown, suiteTab'.heatPage \in Nat \ {0}
        PROVE  SuiteRest'
    BY <1>1 DEF SuiteRest, SuiteUrlOf, SuiteViewOf, SuiteRunsKnown
  <1>2. suiteView.page \in Nat \ {0}
    BY DEF SuiteRest, SuiteViewOf
  <1>3. ASSUME NEW keeps, NEW changes, TabGo(keeps, changes),
               DOMAIN changes \cap {"tab", "steps", "heatSize"} = {}
        PROVE  SuiteRest'
    <2>1. SuiteGo(keeps, changes, suiteView.page) /\ suiteTab' = suiteTab
      BY <1>3 DEF TabGo, KeepTab
    <2>2. \A p \in {"tab", "steps", "heatSize"} : p \notin DOMAIN changes
      BY <1>3
    <2>3. suiteTab'.heatPage \in Nat \ {0}
      BY <2>1 DEF SuiteRest
    <2> QED
      BY <1>1, <1>2, <2>1, <2>2, <2>3, GoneToUrl
  <1>4. ASSUME NEW changes, TabSee(changes),
               "heatPage" \in DOMAIN changes => changes.heatPage \in Nat \ {0}
        PROVE  SuiteRest'
    <2>1. UNCHANGED <<suiteUrl, suiteView, suiteMode>>
      BY <1>4 DEF TabSee, suiteVars
    <2>2. suiteTab' = [p \in DOMAIN changes \cup DOMAIN suiteTab |->
                         IF p \in DOMAIN changes THEN changes[p] ELSE suiteTab[p]]
      BY <1>4 DEF TabSee, Over
    <2>3. "heatPage" \in DOMAIN suiteTab
      BY TabIs DEF FilesInv
    <2>4. suiteTab'.heatPage \in Nat \ {0}
      BY <1>4, <2>2, <2>3 DEF SuiteRest
    <2> QED
      BY <1>1, <2>1, <2>4 DEF SuiteRest
  <1>5. CASE OnPageStep
    BY <1>5, OnPageRest
  <1>6. CASE SearchSuite
    <2>1. PICK q : TabGo(DOMAIN DefaultSuiteUrl, [q |-> q, filesPage |-> 1])
      BY <1>6 DEF SearchSuite
    <2> QED
      BY <1>3, <2>1
  <1>7. CASE TurnFilesPage
    <2>1. CASE \E p : TabGo(FilesKept, [filesPage |-> p])
      BY <1>3, <2>1
    <2>2. CASE \E n : /\ suiteTab' = [suiteTab EXCEPT !.fileSize = n]
                      /\ SuiteGo(FilesKept, [filesPage |-> 1], suiteView.page)
      <3>1. suiteTab'.heatPage \in Nat \ {0}
        BY <2>2 DEF SuiteRest
      <3> QED
        BY <1>1, <1>2, <2>2, <3>1, GoneToUrl
    <2> QED
      BY <1>7, <2>1, <2>2 DEF TurnFilesPage
  <1>8. CASE OpenFile \/ CloseFile
    <2>1. PICK i : TabGo(DialogKept, [detail |-> i])
      BY <1>8 DEF OpenFile, CloseFile
    <2> QED
      BY <1>3, <2>1
  <1>9. CASE SortDialog
    <2>1. PICK v : TabGo(DialogKept, [opcodeSort |-> v])
      BY <1>9 DEF SortDialog
    <2> QED
      BY <1>3, <2>1
  <1>10. CASE ViewSizes
    <2>1. PICK v : \/ TabGo(DialogKept, [testView |-> v]) \/ TabGo(DialogKept, [psOrder |-> v])
                   \/ TabGo(DialogKept, [psEncoding |-> v]) \/ TabGo(DialogKept, [psort |-> v])
      BY <1>10 DEF ViewSizes
    <2> QED
      BY <1>3, <2>1
  <1>11. CASE SetHeatmap
    <2>1. CASE \E f \in {"showName", "regex", "full", "clientStat"} :
                 TabGo(HeatKept, [x \in {f} |-> ~suiteUrl[f]])
      <3>1. PICK f \in {"showName", "regex", "full", "clientStat"} :
                 TabGo(HeatKept, [x \in {f} |-> ~suiteUrl[f]])
        BY <2>1
      <3> DEFINE changes == [x \in {f} |-> ~suiteUrl[f]]
      <3>2. DOMAIN changes = {f}
        OBVIOUS
      <3>3. TabGo(HeatKept, changes)
        BY <3>1
      <3> HIDE DEF changes
      <3> QED
        BY <1>3, <3>2, <3>3
    <2>2. CASE \E v : \/ TabGo(HeatKept, [stat |-> v]) \/ TabGo(HeatKept, [threshold |-> v])
                      \/ TabGo(HeatKept, [perClient |-> v])
      BY <1>3, <2>2
    <2> QED
      BY <1>11, <2>1, <2>2 DEF SetHeatmap
  <1>12. CASE TurnHeatmap
    <2>1. \A p \in PageLinks(suiteTab.heatPage, PageCount(HeatFound, suiteUrl.heatSize)) :
             p \in Nat \ {0}
      BY SuitePagesAre, PageLinksArePages DEF SuiteRest
    <2>2. CASE \E p \in PageLinks(suiteTab.heatPage, PageCount(HeatFound, suiteUrl.heatSize)) :
                 TabSee([heatPage |-> p])
      BY <1>4, <2>1, <2>2
    <2>3. CASE \E c, d : TabSee([heatPage |-> 1, heatSort |-> c, heatDir |-> d])
      BY <1>4, <2>3
    <2>4. CASE \E n \in HeatmapCounts : /\ suiteTab' = [suiteTab EXCEPT !.heatPage = 1]
                                        /\ SuiteGo(HeatKept, [heatSize |-> n], suiteView.page)
      <3>1. suiteTab'.heatPage \in Nat \ {0}
        BY <2>4, TabIs DEF FilesInv
      <3> QED
        BY <1>1, <1>2, <2>4, <3>1, GoneToUrl
    <2> QED
      BY <1>12, <2>2, <2>3, <2>4 DEF TurnHeatmap
  <1>13. CASE SetOpcodes
    <2>1. CASE \E v : TabSee([stacks |-> v]) \/ TabSee([full |-> v])
      BY <1>4, <2>1
    <2>2. CASE \E c : TabSee(IF suiteTab.opSort # c THEN [opSort |-> c, opDir |-> "desc"]
                             ELSE IF suiteTab.opDir = "desc" THEN [opDir |-> "asc"]
                             ELSE [opSort |-> None])
      <3>1. PICK c : TabSee(IF suiteTab.opSort # c THEN [opSort |-> c, opDir |-> "desc"]
                            ELSE IF suiteTab.opDir = "desc" THEN [opDir |-> "asc"]
                            ELSE [opSort |-> None])
        BY <2>2
      <3>2. \/ TabSee([opSort |-> c, opDir |-> "desc"]) \/ TabSee([opDir |-> "asc"])
            \/ TabSee([opSort |-> None])
        BY <3>1
      <3> QED
        BY <1>4, <3>2
    <2> QED
      BY <1>13, <2>1, <2>2 DEF SetOpcodes
  <1>14. CASE OrderBars
    <2>1. PICK o : TabSee([txOrder |-> o])
      BY <1>14 DEF OrderBars
    <2> QED
      BY <1>4, <2>1
  <1>15. CASE ReloadSuite
    <2>1. suiteMode'.asked = {} /\ suiteTab'.heatPage = 1
      BY <1>15, DefaultsAre DEF ReloadSuite
    <2>2. SuiteUrlOf(suiteUrl') /\ SuiteViewOf(suiteView')
      BY <1>15, DefaultsAre DEF ReloadSuite, SuiteRest
    <2> QED
      BY <1>1, <2>1, <2>2
  <1>16. CASE UNCHANGED suiteAllVars
    BY <1>1, <1>16 DEF suiteAllVars, suiteVars, SuiteRest
  <1> QED
    BY <1>5, <1>6, <1>7, <1>8, <1>9, <1>10, <1>11, <1>12, <1>13, <1>14, <1>15, <1>16
    DEF SuiteTestsNext

\* The page of a suite keeps its tab, its table, its heatmap and its choice of
\* their types (SuiteDetailPage.tsx).
LEMMA SuiteTestsTyped == SuiteTestsSpec => []SuiteTestsTypeOK
  <1>1. SuiteTestsInit => SuiteRest
    BY DefaultsAre DEF SuiteTestsInit, SuiteInit, SuiteRest
  <1>2. SuiteInv /\ FilesInv /\ SuiteRest => SuiteTestsTypeOK
    BY DEF SuiteInv, FilesInv, SuiteRest, SuiteUrlOf, SuiteViewOf, SuiteTypeOK, SuiteTestsTypeOK
  <1> QED
    BY <1>1, <1>2, SuiteRestStep, SuiteInvariant, FilesInvInit, FilesInvStep, PTL DEF SuiteTestsSpec

-----------------------------------------------------------------------------
(* Types of the browser. *)

\* One of the pages is visited, as long as it is.
LEMMA VisitedIsPage == PagesSpec => [](mounted \in PageParts)
  <1>1. PagesInit => mounted \in PageParts
    BY DEF PagesInit
  <1>2. mounted \in PageParts /\ [PagesNext]_pageVars => (mounted \in PageParts)'
    BY DEF PagesNext, pageVars, LogStep, TestsStep, SourceStep, PeersStep, RunsStep,
           SuitesStep, SuiteStep, GroupsStep, QueryStep, FileStep, UsersStep
  <1> QED
    BY <1>1, <1>2, PTL DEF PagesSpec

\* Every page keeps its state of its types, for any log, run, index, suites,
\* users and files, and any bounds: the URL, the fields, the pages of the lists,
\* the choices, the queries and the answers (the pages that router.tsx mounts).
THEOREM PagesTyped == PagesSpec => []PagesTypeOK
  <1>1. /\ LiveTypeOK /\ RunTestsTypeOK /\ SourceTypeOK /\ PeersTypeOK /\ RunsTypeOK /\ SpTypeOK
        /\ SuiteTestsTypeOK /\ CgTypeOK /\ QbTypeOK /\ FvTypeOK /\ UaTypeOK
        /\ mounted \in PageParts
        => PagesTypeOK
    BY DEF PagesTypeOK, PageParts
  <1> QED
    BY <1>1, VisitsAreOfPages, VisitedIsPage, LiveTyped, RunTestsTyped, SourceTyped, PeersTyped,
       RunsTyped, SuitesTyped, SuiteTestsTyped, GroupsTyped, QueryTyped, FileTyped, UsersTyped, PTL
=============================================================================
