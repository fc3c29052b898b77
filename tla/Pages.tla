------------------------------- MODULE Pages -------------------------------
(***************************************************************************)
(* The browser's pages. One is mounted at a time; what a page keeps goes   *)
(* with it, so that a behaviour is one visit of a page, from a fresh mount *)
(* at the bare URL to any length of clicks, answers and polls.             *)
(***************************************************************************)
EXTENDS LiveLog, RunTests, RunSource, RunPeers, RunsPage, SuitesPage, SuiteTests,
        CompareGroups, QueryBuilder, FileView, UserAdmin

VARIABLE mounted     \* the part of the UI that is visited

pageVars == <<mounted, liveVars, runTestVars, sourceVars, peerVars, runsVars,
              spVars, suiteAllVars, cgVars, qbVars, fvVars, uaVars>>

PageParts == {"log", "tests", "source", "peers", "runs", "suites", "suite", "groups", "query",
              "file", "users"}

PagesTypeOK ==
    CASE mounted = "log"    -> LiveTypeOK
      [] mounted = "tests"  -> RunTestsTypeOK
      [] mounted = "source" -> SourceTypeOK
      [] mounted = "peers"  -> PeersTypeOK
      [] mounted = "runs"   -> RunsTypeOK
      [] mounted = "suites" -> SpTypeOK
      [] mounted = "suite"  -> SuiteTestsTypeOK
      [] mounted = "groups" -> CgTypeOK
      [] mounted = "query"  -> QbTypeOK
      [] mounted = "file"   -> FvTypeOK
      [] mounted = "users"  -> UaTypeOK

PagesInit ==
    /\ mounted \in PageParts
    /\ LiveInit /\ RunTestsInit /\ SourceInit /\ PeersInit /\ RunsInit
    /\ SpInit /\ SuiteTestsInit /\ CgInit /\ QbInit /\ FvInit /\ UaInit
    \* what is not visited begins in one way
    /\ mounted # "source" => srvRun = [row |-> FALSE, done |-> 0, files |-> "none"]
    /\ mounted # "peers"  => peerIndex.runs = {} /\ peerStrip.fit = Min(Widths)
    /\ mounted # "file"   => fvRanged /\ ~fvUrl.base /\ fvUrl.lines = <<>>

-----------------------------------------------------------------------------
LogStep ==
    /\ mounted = "log"
    /\ UNCHANGED <<mounted, runTestVars, sourceVars, peerVars, runsVars, spVars,
                   suiteAllVars, cgVars, qbVars, fvVars, uaVars>>
    /\ LiveNext
TestsStep ==
    /\ mounted = "tests"
    /\ UNCHANGED <<mounted, liveVars, sourceVars, peerVars, runsVars, spVars,
                   suiteAllVars, cgVars, qbVars, fvVars, uaVars>>
    /\ RunTestsNext
SourceStep ==
    /\ mounted = "source"
    /\ UNCHANGED <<mounted, liveVars, runTestVars, peerVars, runsVars, spVars,
                   suiteAllVars, cgVars, qbVars, fvVars, uaVars>>
    /\ SourceNext
PeersStep ==
    /\ mounted = "peers"
    /\ UNCHANGED <<mounted, liveVars, runTestVars, sourceVars, runsVars, spVars,
                   suiteAllVars, cgVars, qbVars, fvVars, uaVars>>
    /\ PeersNext
RunsStep ==
    /\ mounted = "runs"
    /\ UNCHANGED <<mounted, liveVars, runTestVars, sourceVars, peerVars, spVars,
                   suiteAllVars, cgVars, qbVars, fvVars, uaVars>>
    /\ RunsNext
SuitesStep ==
    /\ mounted = "suites"
    /\ UNCHANGED <<mounted, liveVars, runTestVars, sourceVars, peerVars, runsVars,
                   suiteAllVars, cgVars, qbVars, fvVars, uaVars>>
    /\ SpNext
SuiteStep ==
    /\ mounted = "suite"
    /\ UNCHANGED <<mounted, liveVars, runTestVars, sourceVars, peerVars, runsVars,
                   spVars, cgVars, qbVars, fvVars, uaVars>>
    /\ SuiteTestsNext
GroupsStep ==
    /\ mounted = "groups"
    /\ UNCHANGED <<mounted, liveVars, runTestVars, sourceVars, peerVars, runsVars,
                   spVars, suiteAllVars, qbVars, fvVars, uaVars>>
    /\ CgNext
QueryStep ==
    /\ mounted = "query"
    /\ UNCHANGED <<mounted, liveVars, runTestVars, sourceVars, peerVars, runsVars,
                   spVars, suiteAllVars, cgVars, fvVars, uaVars>>
    /\ QbNext
FileStep ==
    /\ mounted = "file"
    /\ UNCHANGED <<mounted, liveVars, runTestVars, sourceVars, peerVars, runsVars,
                   spVars, suiteAllVars, cgVars, qbVars, uaVars>>
    /\ FvNext
UsersStep ==
    /\ mounted = "users"
    /\ UNCHANGED <<mounted, liveVars, runTestVars, sourceVars, peerVars, runsVars,
                   spVars, suiteAllVars, cgVars, qbVars, fvVars>>
    /\ UaNext

PagesNext ==
    \/ LogStep \/ TestsStep \/ SourceStep \/ PeersStep
    \/ RunsStep \/ SuitesStep \/ SuiteStep \/ GroupsStep \/ QueryStep
    \/ FileStep \/ UsersStep

PagesSpec == PagesInit /\ [][PagesNext]_pageVars

-----------------------------------------------------------------------------
(* The properties of RunTests, looked at while the tests of a run are shown. *)

\* Every tile is counted once by each of the heatmap's four counts of slow tests
\* (TestHeatmap.tsx), and the counts agree.
HeatmapCountersAgree == mounted = "tests" => CountersAgree

\* The number on a chip of FacetPanel.tsx is the number of tests a click leaves.
ChipTellsResult == mounted = "tests" => FacetTellsResult

\* TestsTable.tsx stays on a page that has rows, whatever is searched, sorted,
\* resized or loaded; only the choice of a genesis may leave it behind.
TablePageHasRows == [][mounted = "tests" => TableKeepsRows]_pageVars

\* The lists of a suite's tests and files (TestFilesList.tsx) and of the suites
\* (SuitesPage.tsx) stay on a page that has rows: a filter, a tab or a group that
\* leaves fewer rows takes the page along.
ListsKeepRows ==
    [][/\ mounted = "suite" => FilesKeepRows
       /\ mounted = "suites" => SuitesKeepRows]_pageVars
=============================================================================
