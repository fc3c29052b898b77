# benchmarkoor in TLA+

benchmarkoor runs benchmarks against Ethereum execution clients: it prepares a
data directory, starts the client in a container, replays test payloads over
JSON-RPC, writes the results, uploads them, and reports progress to an API
server. The server indexes the results, serves them to a web UI, relays live
status and logs, and deletes runs on request. This directory holds TLA+ models
of its parts, the TLC configurations that check them, and TLAPS proofs.

## Inventory

Paths are relative to `src/`.

| Component | State it keeps | Operations | What is hard |
|---|---|---|---|
| Runner (`pkg/runner`) | run directory, `runConfig.Status`, `containerDied`, the contexts of run and timeout, a cleanup list | create the run, start the container, wait for RPC, replay, decide the final status, clean up | the death monitor, the timeout and the cancellation race with the executor; early returns; files written one after the other while others read them |
| Rollback strategies (`pkg/runner/strategy_container.go`, `strategy_checkpoint.go`) | container and checkpoint per test | recreate, restart, checkpoint and restore between tests | partial failures between stop, restore and start |
| Executor (`pkg/executor`) | the current test, collected results, progress counters | replay the lines of each step, retry `SYNCING` and failed payloads, roll the head back, write result files | retries that meet a cancelled context, progress read concurrently |
| Uploader (`pkg/upload`) | a queue of file jobs | upload run and suite directories with a worker pool | any order, partial uploads |
| Live reporter (`pkg/livereport`) | the last snapshot, a loop with a jittered timer, a log tail offset | report periodically, once more on stop; stream the log on demand | reports overtake each other; stop while one is in flight |
| Log hub (`pkg/api/wshub.go`) | per run: runner connection, UI connections, 512 KiB buffer, `streaming` flag | register, fan out, drop, evict, kick slow readers | callbacks after unlock, closed channels, reordered commands |
| Ingest (`pkg/api/handlers_ingest.go`, `indexstore.UpsertLiveRun`) | `live_runs` | upsert a snapshot, list | late reports recreate rows |
| Stale watcher (`pkg/api/stalewatcher.go`) | none | purge quiet live rows, evict idle hubs | races with a report that arrives between its two steps |
| Indexer (`pkg/api/indexer`) | the `running` flag, `dbMu` | passes over storage, a worker pool of tasks | listings at different times, reads outside locks, several transactions per run |
| Index store (`pkg/api/indexstore`) | tables `runs`, `test_stats`, `test_stats_block_logs`, `suites`, `live_runs`; generation counter | upserts, deletion queue, cascade | see indexer and deleter |
| Index cache (`pkg/api/handlers_index.go`) | body and generation | serve or rebuild the index | a rebuild that overlaps a write |
| Run deleter (`pkg/api/rundeleter.go`) | a kick channel, the list being drained | drain the deletion queue, storage first, index second | failures, cancels, restarts and passes in between |
| Storage readers (`pkg/api/storage`) | none | list, read, delete | partial deletes |
| Admin API, auth, sessions, rate limits (`pkg/api`) | users, sessions, API keys, limiters | CRUD | mostly single statements |
| Data directories (`pkg/datadir`) | copies, overlay mounts, ZFS clones and snapshots | prepare, restore, clean up | clean-up after partial failures |
| CPU frequency (`pkg/cpufreq`) | saved governors and limits | apply, restore | restore after partial failures |
| Test sources (`pkg/eest`, `pkg/gitrepo`, `pkg/executor/source*.go`) | caches on disk | download, unpack, clone | partial downloads |
| Builder (`pkg/builder`) | build directories | build payload fixtures | long pipelines of external tools |
| Container managers (`pkg/docker`, `pkg/podman`) | containers, networks, volumes | create, start, stop, remove | external |
| UI: log of a live run (`ui/src/api/hooks/useLiveRunLogsWS.ts`, `LiveRunLogPanel.tsx`) | socket, timers, buffered text, lines | connect, flush per frame, trim, stop, resume, reconnect | frames, snapshots, timeouts and clicks in any order |
| UI: page of a run (`RunDetailPage.tsx`, `components/run-detail`) | URL, polled answers, a strip of peers, a choice of runs | follow a run, filter and page its tests, compare, delete | three polls race with the end of the run; animations by timers |
| UI: lists of runs and suites (`RunsPage.tsx`, `SuitesPage.tsx`) | URL, two polled lists, a mode, a choice, an anchor | filter, sort, page, choose ranges, delete, compare | rows change under a choice; answers arrive in another mode |
| UI: page of a suite (`SuiteDetailPage.tsx`, `components/suite-detail`) | URL with some twenty parameters, tables of their own | tabs, groups, charts, heatmaps, dialogs, links to comparisons | handlers share parameters; defaults depend on data |
| UI: comparisons (`CompareGroupsPage.tsx`, `ComparePage.tsx`, `components/compare`) | groups and samples in the URL, results by position | edit groups, sample, average, rank | results arrive one by one and are found by counting |
| UI: query builder (`QueryBuilderPage.tsx`) | reducer, URL, cache of answers | compose, execute, page, sort | effects run in the order they are written |
| UI: viewer of files (`FileViewerPage.tsx`) | chunks, bytes loaded, selected lines | HEAD, ranges, clicks | effects and a sentinel ask for ranges from what older renders saw |
| UI: users (`AdminPage.tsx`) | list, two dialogs | create, update, delete | answers meet other dialogs; whole rows are written |

### What makes each component correct

- **Indexer, deleter and administrator** work on the same rows and files without
  a common lock. A deleted run must not come back from data that a task read
  before the deletion; a row must not disappear while its files are still in
  storage; a queued run's row must not change; a row with a result is final; a
  run that fails must not block the others; what is queued goes in the end.
- **Index cache**: a response never misses a change whose call had returned, and
  no stale body stays in the cache.
- **Log hub**: the runner streams exactly while somebody watches; a UI that
  attaches in the middle of the stream gets each chunk once; one slow or leaving
  UI does not disturb the others; a reconnecting runner is not detached by the
  end of its predecessor.
- **Live reporter**: the terminal status is the last one the server keeps, and no
  live row outlives its run for ever.
- **Runner lifecycle**: the final status agrees with what happened (death of the
  client, timeout, cancel, failure), a death expected by a rollback strategy is
  not a failure, and every resource of a run is released on every path.
- **Executor and rollback**: each test starts from the same head, also after a
  failed or retried one, and a cancelled run executes nothing more.
- **Data directories, CPU frequency**: what was changed is put back after a
  failure at any step.
- **Log view**: one socket; a text without gap or repetition, or an honest note
  that its beginning is missing.
- **Pages of the UI**: what is counted, averaged, linked or chosen is what the
  tables show; a choice of runs survives polls and answers; no list is left on
  an empty page by a click; a reload gives the same page back.
- **Viewer of files and users**: a large file comes whole and in order; a save
  changes only what was picked.

### How the components interact

The runner writes the files of a run (`config.json` first, `result.json` after
the tests, `config.json` again with the final status, block logs last) straight
into the server's storage, or into a local directory that the uploader copies to
a bucket afterwards. It posts status reports to the ingest handler and keeps a
WebSocket to the log hub. The indexer lists storage, compares it with the
`runs` table, and writes the rows of new or incomplete runs. It also removes
their live rows and drops their hubs. The administrator's requests set
`deletion_requested_at`; the run deleter is kicked by a channel of capacity one,
or by a ticker. Every change of the `runs` table bumps a generation that the
index cache compares. The pages of the UI poll the index, the live rows and the
files; they ask for deletions and changes of users through the admin API; the
log panel is a client of the log hub. What a page keeps beyond that is in its
URL or is lost when the user leaves it.

## The modules

| Module | Models | Status |
|---|---|---|
| `RunIndex` | the way of a run from its files to the index and out of it: runner (files only), uploader, indexer, run deleter, admin requests, live rows, restarts of the server | done |
| `RunIndex_proofs` | its type correctness, its inductive invariant and four properties | proved |
| `DeletionQueue` | abstract: what the deletion queue promises an administrator | implemented by `RunIndex` |
| `RunDeletion_proofs` | that it is implemented, that rows outlive files and get their statistics | proved |
| `MCRunIndex` | instances, and two statements of the documentation that the code does not keep | done |
| `IndexCache`, `MCIndexCache` | the cached body of `GET /index` | done |
| `IndexCache_proofs` | its inductive invariant, freshness and currency | proved |
| `LogHub`, `MCLogHub` | the log hub for one run, with the connections of runners and UIs | done |
| `LogHub_proofs` | type correctness, two properties, and that UIs get every chunk once | proved |
| `Lists`, `RunLists` | sorting, pages, colours and filters that the pages share | done |
| `RunChoice` | abstract: what choosing runs promises, on every page that offers it | implemented by three modules |
| `LiveLog` | the log panel: socket, hook, text and lines | done |
| `TestQuery` | names of tests, queries, facets | done |
| `RunTests` | the tests of a run: heatmap, table, insights, dialog | done |
| `RunSource` | where a run's page gets its data from | done |
| `LiveRun_proofs` | of the log panel: one socket, a text without gaps, honest truncation, lines that are those of the text; of the page of a run: it settles, tiles pop once; the types of both | proved |
| `RunPeers` | the strip of a run's peers, comparison, deletion | done |
| `RunsPage`, `SuitesPage` | the lists of runs and suites | done |
| `SuitePage`, `SuiteTests` | the page of a suite, its runs and its tests | done |
| `CompareGroups` | the comparison of groups | done |
| `QueryBuilder` | the query builder | done |
| `FileView` | the viewer of files | done |
| `UserAdmin` | the users' tab and the handlers behind it | done |
| `Choices_proofs` | of the lists of runs, the strip and the page of a suite: three implementations of `RunChoice` and three properties; of the comparison of groups: its clicks, its averages and its types | proved |
| `Pages`, `MCPages` | the pages of the UI, one visited at a time; instances | done |
| `Tools_proofs` | the query builder and its URL, roles, files; their types | proved |
| `Pages_proofs` | the pages' specifications hold of the browser; chips, the table of tests, counts, lists; the types of all pages | proved |

### RunIndex

| State | In the code |
|---|---|
| `phase`, `dir`, `pending`, `bucket`, `summaries` | where `RunInstance` is; the results directory; the uploader's jobs; the bucket; `summary.json` of the suites |
| `rows`, `row`, `reqAt`, `delErr` | the `runs` table: which rows, `status` and `has_result`, `deletion_requested_at`, `deletion_error` |
| `stats`, `blockLogs`, `suites`, `live` | which runs or suites have rows in `test_stats`, `test_stats_block_logs`, `suites`, `live_runs` |
| `running`, `pass`, `task`, `dbMu` | the indexer's flag, the locals of `runPassInner` and of the tasks of `indexRun`, the write mutex |
| `worker`, `kick` | the run deleter's place and the list it drains, its channel |
| `marking` | requests in flight: `MarkRunForDeletion` takes `now` first and updates the row later |
| `since`, `tried` | history, no state of the code: how far the clock had come when a queued request was committed; the runs that the drain at work is done with |

Each database transaction, each file read and each listing is one action, and so
is every swap of the flag. `UpsertRun` takes `dbMu` and
`ReplaceTestStatsBlockLogs` releases it, as the tail of `indexRun` does. Files
are read one by one in any order, because `indexRun` reads them concurrently. A
deletion is two actions, storage and cascade. A storage deletion that fails, or
is cut by a restart, leaves any subset of the files. `Restart` clears
everything that is memory, at any step.

The content of files is abstracted to their presence and the status in
`config.json`. The files nobody reads while indexing are one file, `"other"`.
Times are abstracted to the order in which requests take theirs
(`StampRequest`); their updates (`MarkRunForDeletion`) may come in any order, and
may find the run gone. We assume that the clock is not set back and gives no two
requests the same time, and that a request names a run that is indexed when it is
made (any other is refused). A deletion that fails records its error or, with
the fault `"note"`, does not (`SetRunDeletionError`, whose own failure is only
logged). `StartStatus` is the set of
statuses a first `config.json` can carry: this runner writes none, and the
index's own queries and tests provide for `"running"`, so the model can have
both.

### IndexCache

The table is the set of mutations it reflects; `Commit` and `Bump` are the
two steps of every mutator of `indexstore`; `ReadGeneration`, `CacheHit` or
`CacheMiss`, `ListAllRuns`, `StoreCachedIndex` and `Respond` are those of
`handleIndex`. `due` is a history variable: what had returned when the request
read the generation.

### LogHub

`cur` and `made` are `wsHub.runs` for the run and the number of hubs it has had.
A handler keeps the hub it got even if the map has another one by now, so
`uiHub` and `cHub` name a hub by number. `runnerConn`, `uis`, `streaming` and
`seq` are the fields of `runHub`. `ch`, `once`, `wsOpen` and `writing` are the
channel, the `sync.Once`, the socket and the writer goroutine of a `uiConn`.
`cmds`, `tailing` and `inflight` are the two directions of a runner's socket and
the log streamer behind it. Each block under a mutex is an action and each
send after it is another one, which is where the interesting interleavings are.
A send on a closed channel is a panic. In a handler it ends the handler,
because the router uses chi's `Recoverer`; in `DropRun` it ends the process
(`crashed`), because the indexer and the stale watcher have no such guard.

Abstracted: one run; the age that `EvictIdle` compares (it may evict any unused
hub); the text of the log and the ring buffer (a snapshot is the position in
the stream at which it was taken); the order of a fan-out over the map of UIs
(any); `Stop` at server shutdown. `unregisterUI` looks the hub up and locks it
in one action; nothing can change in between that the code would notice. A UI
that has been unregistered is reset, since nothing reads its channel any more.
Runner connections are dialled one after the other, as the log streamer does,
but the server may learn of the end of one only after the next has registered.

### The UI

`Pages` extends the modules of the pages and has one variable of its own,
`mounted`. The router mounts one page; what a page keeps in state goes when it
is left, and a page entered again starts from its URL. So a behaviour is one
visit of one page: `PagesNext` takes steps of the mounted module only. A reload
or a link with parameters is an action of the module where the code reads more
than the bare URL (`ReloadQuery`, `ReloadSuite`, the links of `FileView`). The
server moves on in each module by itself: rows appear, end, get results and are
deleted while the page polls. All modules share two conventions. What the URL
holds is one record (`runUrl`, `suiteUrl`, `query`, `fvUrl` ...), what the
components keep another; and every handler is an action that names what it
keeps and what it drops, as the handlers in the code do.

| Module | State in the code |
|---|---|
| `LiveLog` | refs and state of `useLiveRunLogsWS` (`sock`, `awaiting` connects, `pend`, `raf`, `text`, `truncated`), `lines` and the panel's flags; the socket's messages are `wire`, the hub's stream `hub` |
| `TestQuery` | `parseEESTName`, `parseNameFilter` and the facets; a word is a sequence of a few symbols, because terms are cut at colons and signs |
| `RunTests` | URL of the run's page and state of heatmap, table and insights over the same results |
| `RunSource` | the queries of config, result and live row with what they have answered; the delays and the timer of the tiles |
| `RunPeers`, `RunsPage` | the polled index and live rows, mode, choice, anchor, requests for deletion under way |
| `SuitesPage` | index, summaries, filters, groups of `SuitesPage.tsx` |
| `SuitePage`, `SuiteTests` | the parameters of `SuiteDetailPage`, the state of its tabs, dialogs and heatmaps |
| `CompareGroups` | groups, samples, lists of runs in the URL; the flat list of result queries |
| `QueryBuilder` | the reducer's state, `hasExecuted`, the answers of the query cache, what is being fetched |
| `FileView` | chunks, `loadedBytes`, `chunkLoading`; what the last render saw (`fvView`), since effects and the sentinel act on it; ranges under way |
| `UserAdmin` | the `users` table, requests with the place of their handler (one that is done waits for the list to be fetched again, as `mutateAsync` does), the list and its fetch, the two dialogs |

`RunChoice` is the abstract specification of a choice: a mode is entered or left
with nothing chosen; within a mode the choice grows or shrinks, in the mode for
comparing to at most as many runs as a comparison takes; nothing else touches
it. `RunsPage`, `RunPeers` and `SuiteTests` implement it: each has an `INSTANCE
RunChoice WITH` a mapping of its mode and its choice, and the run `pages` checks
`RunsChoiceKept`, `PeersChoiceKept` and `SuiteChoiceKept`. Polls, filters and
page turns map to stuttering steps.

Left out: drawing, tooltips, scrolling, wording; mean values that no property
compares; regular expressions in searches (they are matched by the browser); the
unfolded rows of the list of runs. Users of the list of runs are administrators.

## The runs

| Run | Instance | Properties |
|---|---|---|
| `deletion` | two complete runs of one suite in a bucket, exchanged by symmetry; passes of the ticker loop; storage, cascade and the recording of errors may fail; two requests in flight, cancels, one restart | `InsertBacked`, `RowOutlivesFiles`, `QueueKept`, `DeletionInv` |
| `local` | one run written into the server's storage while two threads index it, with nine kinds of fault, one request and a restart; the indexer is fair and backend calls on the run succeed in the end | `IndexInv`, `QueuedRowUntouched`, `IndexedResultIsFinal`, `CompleteR1Indexed` |
| `upload` | one run uploaded in any order, perhaps only in part, with two threads and two requests | `StatsFollowRow` |
| `live` | two complete runs, a fair deleter; operations on `r2` may fail for ever, those on `r1` succeed in the end | `QueuedR1Goes` |
| `index_cache` | three mutations, three requests, one restart | `FreshResponse`, `CacheCurrent` |
| `log_hub` | two UIs, two runner connections, two hubs, a channel of one message, two chunks, one drop, one failed connection | `TypeOK`, `StreamingIffWatched`, `NoGapNoRepeat`, `RunnerKept` |
| `pages` | one visit of each page (see Bounds) | 14 invariants and 9 action or refinement properties of the UI, below |
| `delete_running` | violation | `NoDeletionWhileRunning` |
| `orphan_suite` | violation | `SuiteOfRunKept` |
| `log_hub_panic` | violation | `FanOutSurvives` |
| `log_hub_unwatched` | violation | `NoTrafficUnwatched` |
| `modal_rows` | violation | `ModalRowsAreTheirRuns` |

What the passing runs show:

- A task that has read a run's files before they were deleted never brings the
  row back: `InsertBacked`. The code has no lock for this. It follows from the
  order of the three listings in `runPassInner` and from the deletion queue's
  refusal of incomplete rows, and it breaks if a run without `config.json` is
  indexed.
- `RowOutlivesFiles`: storage goes first and the row second, so no run is left in
  storage without a row to delete it by. It is stated for runs that were
  complete: a runner still at work can recreate its directory.
- `QueueKept`: `RunIndex` implements `DeletionQueue`. The queue is sorted by times
  that are stamped before the updates commit, so a request can enter it before one
  that is already carried out. What holds is the order of real time: a request that
  was queued before the one carried out was even made has been tried in the same
  drain. One that fails stays queued and is passed over until the next drain, with
  or without its error; what is requested during a drain waits for the next; and
  what is taken back too late is deleted all the same.
- `CompleteR1Indexed`: a run that is complete in storage, new or indexed as
  `"running"` without a result, gets a row with its final status, whatever fails
  and restarts meanwhile. Not always with its result: a task that cannot read
  `result.json` stores a final status without one (`indexer.go:367`), and such a row
  is not read again. Rows with an empty status, or with a result under
  `"running"`, are not read again either, so the property says nothing of them.
- `StatsFollowRow`: a row with a result has its statistics when no task works on
  the run. It holds without restarts and without failures of `stats`: the code
  commits row and statistics separately and does not repair the second.
- `FreshResponse` and `CacheCurrent`: reading the generation before the table,
  bumping it after the commit, and never replacing a newer body are enough.
- `StreamingIffWatched` and `NoGapNoRepeat` speak of the moment after every single
  step, also in between two mutexes, with hubs that have been replaced.

What `pages` shows, by page:

| Property | Says |
|---|---|
| `OneSocket` | the panel never holds two sockets, however it is stopped and resumed |
| `TextContiguous`, `TruncationShown`, `LinesFollowText` | the text has no gap or repetition unless a chunk overtook its snapshot; a missing beginning is announced; cutting lines chunk by chunk gives the lines of the text |
| `HeatmapCountersAgree` | four counts of slow tests agree |
| `ChipTellsResult` | the number on a facet's chip is what a click leaves |
| `TablePageHasRows`, `ListsKeepRows` | a click on a list's page of rows leaves it on one |
| `SettlesOnFiles` | a finished run's page ends on its files |
| `StripHoldsStill` | a full strip that was turned shows the same runs when newer ones appear |
| `ChosenAreIndexed` | a run known only from reports is never chosen nor deleted |
| `RunsChoiceKept`, `PeersChoiceKept`, `SuiteChoiceKept` | three pages implement `RunChoice`, with ranges of several runs cut to what a comparison takes |
| `CompareLinksSound`, `GroupKeysFollowClicks` | links hold the newest run of each group that ended and passed; a key that is clicked changes that key only |
| `AveragesOwnRuns`, `BoxesFollowClicks` | a group averages its own runs; ranges of boxes follow the anchor |
| `ReloadKeepsQuery`, `SwitchingTablesAsksNothing` | the URL gives the query back; switching tables sends nothing |
| `FileViewSound` | the lines of a large file are those of the file with their numbers, and loading does not rest before the selected line is there, while every chunk continued those before it and no fetch was rejected |
| `SavesKeepRoles` | a save of a user's dialog gives a role that was picked there, or leaves the role alone, or puts back the one its handler had read before the row changed |
| `PagesTypeOK` | every page's state has its type |

`FileViewSound` excludes texts into which a chunk went that did not continue them
(`fvMixed`), and what it says of loading excludes a viewer one of whose fetches was
rejected (`lost`). The code can produce both; they are listed under Findings.
`TextContiguous` excludes chunks that overtook the snapshot in the hub, which is
the hub's doing. `SavesKeepRoles` allows the lost update of
the handler, and no other. `TablePageHasRows` speaks of
steps, not of states, and excludes the choice of a genesis: that filter is the
table's own state and leaves the page of the URL alone. From a page past the end
of what it keeps, the pager's next arrow, which only the last page disables, leads
on, and when the filter is taken back the page may be past the end of everything.
`MaxPage` bounds this walk. An earlier form of the property, that the page always
fits when no genesis is chosen, was checked with a smaller instance and held only
because all tests had one genesis; its proof failed at this step.

### Bounds

Two runs are enough for a run to fail and another to wait behind it, or for two
runs to share a suite. Two threads are all the program has: the ticker loop and
one `RunNow` at a time. With more, the flag would exclude them in the same way,
and the proofs cover any number; `deletion` and `live` have one, since passes exclude
each other (`OneTask`). One restart lets a new process meet whatever
the old one left; two requests let one run be queued twice, or two runs once with
updates in either order. `deletion` takes its two runs for interchangeable
(`RunSymmetry`): they are alike in storage, and its properties are safety
properties of all runs.
`Concurrency` is one where two runs would only multiply the interleavings of
independent tasks, and two in `orphan_suite`, which needs the tasks of two runs
at once. Three mutations and three requests give a slow build, a fast build and
a hit with a change on either side. Two hubs are one that was dropped or evicted and
its successor. A channel of one message is full after the snapshot, which is
the interesting state; the code has 64. Two chunks are one fanned out and one in
flight. The proved theorems need none of these bounds.

In `pages` every data set is just large enough for its page's cases: three
characters of log with a ring of one and a browser that keeps two, so that both
trim; two sockets, so that one is closed while another opens (`MaxLive` bounds the
characters, streams and sockets together by five of these seven); pages of one, two
or three rows over tests, files and suites that fill two or more; runs of which some
are in progress, failed, without tests or deleted; comparisons of two runs; two
groups and at most two runs chosen; one filter and one order in the query builder;
files of two chunks, with and without a wide character, and a log that grows once;
two requests, or one and another administrator's write. Where parameters of a URL
are independent (`SuiteTogether`, `CgTogether`, `QbTogether`, `MaxChanged`,
`MaxRunsChanged`, `MostSpChanged`), a bound limits how many differ from their
defaults at once: the handlers treat each in the same way, and pairs are where they
interfere. Five more bounds stand in the actions. On the page of a suite, while runs
are chosen or deleted or an anchor is kept, only pages are turned (`SuiteMay`). While runs are chosen, or once one
was deleted, the parameters of the list of runs that `WhileChoosing` does not name
keep their defaults (`Idle`), and its modes are entered after the summaries of the
suites have come, which only say which labels are shown. In the comparison of groups
the results are answered after the configurations (`AnswerQuery`), since nothing is
compared before all of both have come, and one group at a time is edited or holds
the anchor of a Shift-click (`CgMostEdits`), since a click reads no group but its
own. All bounds together keep `pages` within two minutes. `modal_rows` uses the same
instance.

The order of evaluation in some definitions is chosen for TLC, without changing
what they say: a value that is used several times is bound by `\E x \in {...}`, a
step of a page says first what it leaves alone, and `Sorted` takes the whole of its
list by `SubSeq`, which TLC computes once instead of at every use (`WholeSeq` proves
that it is the same list).

`CHECK_DEADLOCK FALSE` is set for `LogHub`, whose bounds end the story (a server
whose UIs and runners have gone does stop there), and for `Pages`: a page
whose server has nothing new waits for its user.

### Fairness

`local` and `live` use fairness. `FairIndexer`: the ticker loop starts passes for ever
and every goroutine of a pass that can run does, hence weak fairness of passes and
tasks. It is stated of all threads together, because one pass runs at a time.
`FairDeleter`: weak fairness of the deleter, which its ticker and every request wake.
Backend calls are retried at every pass or drain, and for the runs in `Reliable` we
assume that a call which is tried again and again succeeds sometimes: strong fairness
of the successful read of `config.json` and of `UpsertRun` (`IndexerSpec`), and of both
halves of the deletion (`DeleterSpec`). Nothing is assumed of the runner, the
administrator, other runs, other files or restarts.

### Findings

- `delete_running`: `ErrRunInProgress` protects a run whose row says `"running"`,
  but a run indexed in progress has an empty status, so it can be queued, and
  the deleter removes the directory under the runner.
- `orphan_suite`: the suite's row is written outside the write mutex, before the
  run's. Deleting the last other run of that suite in between leaves a run
  without its suite, and no pass repairs it.
- `log_hub_panic`: `appendAndFanOut` sends to a copy of the UI list; a UI that has
  left, or was kicked and has not unregistered yet, has a closed channel, and
  the send panics. The runner's handler ends without clearing `runnerConn`.
- `log_hub_unwatched`: a `stream_on` decided under the mutex and sent after it
  can reach the runner after a later `stream_off`, so it streams to nobody until
  the next UI has come and gone.

- `modal_rows`: the dialog on a test names its rows by position in the list of all
  runs of the group, but gets the results without those that are missing, so the
  rows after a run without a result are named after another run.

Noticed while modelling the server, without a run of their own: a run indexed with an empty
status and no result is never read again; the statistics of a run are lost when
the server stops between row and statistics; a task that is still writing
statistics while the cascade deletes the run leaves orphans; a run whose
deletion is cancelled after a drain has listed it is deleted all the same, since
the list is read once; a snapshot can arrive after the first chunk, and the view throws the chunk
away; the log is sent again from its beginning at every `stream_on`.

Noticed while modelling the UI:

- Viewer of files: a link with `?lines=` to a large file fetches its first chunk
  twice, because two effects of one render ask; the text is repeated or cut,
  depending on the order of the answers. Bytes are counted in UTF-16 units, so
  text after wide characters is repeated. In S3 mode no range is sent and every
  chunk repeats the beginning. A chunk of the old file lands in the new one when
  the path changes. A fetch that is rejected, as without a network, is caught nowhere
  (`FileViewerPage.tsx:317`, `:333`; `client.ts:160-182`), so `chunkLoading` stays set
  and nothing more is loaded, although the comment at `FileViewerPage.tsx:369` says that
  loading goes on until the selected line is reachable. A click on a line drops `base` from the URL, so that a suite's
  file turns into the run's. The retry button asks for nothing.
- Users: a finished save closes whichever edit dialog is open when the list has been
  fetched again; one dialog
  shows the other's error; failed deletions are silent; two updates of one user
  lose one, and an update writes a user back that was deleted meanwhile.
- Runs and suites: choosing all three steps on the list of runs takes `steps` out of
  the URL, which is read as `test` alone (`RunsPage.tsx:273`, `:48`). The anchor of a
  range outlives its mode on a suite's page: it counts again as soon as a run is chosen,
  on a box too, in a later visit of the same mode, although `RunsTable.tsx:183-185`
  says that one starts from a clean slate. A run indexed in progress has no status, so it can be chosen
  and counts as completed in the charts; sorting by failures counts the tests
  that are still to run; links to compared groups carry `(none)` for a label a run
  lacks, which matches nothing; handlers of the suite's heatmap and lists drop
  each other's parameters; a list that shrinks under the user can be left on a
  page without rows; the next arrow of the pager leads beyond the last page.
- Run in progress: after `run_ended` the log view reconnects to a new, empty hub,
  whose empty snapshot wipes the log; a live text that is replaced by a longer
  one is taken for a continuation (`LiveRunLogPanel.tsx:159`).
- Query builder: filters and orders keep the offset; after switching tables away
  and back the old answer is shown, but paging asks nothing until it is executed
  again.
- Run in progress, tiles: moving a limit while tiles pop in stops the timer that takes
  their delays away, so they pop again when they are mounted anew
  (`TestHeatmap.tsx:636`).
- Tests of a run: a genesis filter on the third page shows an empty table, and its
  pager leads further on. A negative threshold, typed past the box's `min`, divides
  every rate to less than nothing: all tiles are red and in the first bin, and all
  are counted as fast; `LimitsAssumption` excludes it. A parameter of a test that is
  called `gas` or `function` would get chips that filter by gas limit or test
  function, which `TestNamesAssumption` excludes.

## The proofs

All theorems are `Spec => ...` for arbitrary constants that satisfy the named
assumptions of the modules (`RunIndexAssumption`, `NilAssumption`,
`BoundAssumption`, `LiveLogAssumption`, `SourceAssumption`, `RunsAssumption`,
`PeersAssumption`, `SuiteAssumption`, `GroupsAssumption`, `TestNamesAssumption`,
`RunTestsAssumption`, `LimitsAssumption`, `SuitesAssumption`, `SuiteTestsAssumption`,
`QueryBuilderAssumption`, `FvAssumption`, `UserAdminAssumption`). Those of the pages say
that lists list runs that exist, that sizes and widths are positive, that samples
are numbers, that the index lists no run twice and the start of each as a number, and that a
parameter without value (`None`) is no set of keys and no set of runs; that results are finitely
many and what is measured of them are natural numbers; that a default limit is at
least 1 and no negative threshold is typed, which the box's `min` does not prevent
(see above); that of a payload all sizes
are known or none; that a value in a test's name is a sequence of words and no parameter is
called by the other name of a dimension; that every table of the query builder has
a first column and every preset is a query on its table; that a file is a sequence of
bytes, a link names finitely many lines, and a chunk is no longer than what counts as
a large file (both are 10 MB); that the administrator is one of the users and a new
name is no user's; that no group of columns and no preset has a column twice; that
the default of a limit is not above the limit's end, and the defaults of sizes and
spans of days are among those offered; that a suite in the index has labels, if
none, then an empty set of them; and that numbers of tests, slots, picks and
bounds are natural numbers. TLC evaluates all of them on the instances.

**RunIndex.** `TypeCorrect` is `Spec => []TypeOK`. `IndexInvariant` is
`Spec => []IndexInv`, which adds to the types:

- `PassInv`: only one thread is in a pass, the flag is set while it is, and only
  a pass that has finished its listings has tasks;
- `ListingInv`: between the listing of the indexed runs and the creation of
  the tasks every row is among those listed (the deleter only removes rows);
- `TaskInv`: while a task has not written its row, the row is either absent,
  and a `config.json` that has been seen is still there, or it says
  `"running"` and has no result;
- `QueueInv`: a run that is queued or in the deleter's list has a row that does
  not say `"running"`;
- `DirInv`: a run that has not begun has no files.

`TaskInv` and `QueueInv` are why indexer and deleter never meet: what a task may
write, the deleter may not hold. Neither is inductive alone, and a task's row
can only be known to be absent because of `ListingInv`. `OneTask`,
`InsertsAreBacked`, `QueuedRowsUntouched` and `ResultsAreFinal` follow from the
invariant, the last three by a case distinction on the steps that change rows.

**RunDeletion.** `DeletionInv` adds three parts to `IndexInv`: `PlacesInv` (no two
requests share a time, in the queue or in flight; none is older than what had been
stamped when it was queued; a worker that waits has nothing in hand), `OrderInv` (a
request queued before one in the worker's hands was made is in its hands too, or has
been tried in this drain) and `FilesInv` (the runner of a finished run is gone, and
between the two deletions of the run in hand nothing is left of its files).
`OrderInv` is why the queue keeps the order of real time although the list is read
once, requests come and go meanwhile, and neither the times in the table nor the
errors tell what has been tried: that is what the history variables are for. A
request in flight may be older than all in hand, but it had not been queued when
they were made. `RowsOutliveFiles` follows from `FilesInv`. `QueueImplemented` says that `RunIndex`
implements `DeletionQueue`: each action maps to one of the queue's or to a
stutter, with the list of the worker as `drain`. `DeletionQueue` says nothing of
threads, tasks or storage, so this is also the proof that none of them reaches
the queue. `StatsAreWritten` is `StatsFollowRow` while the server has not been
restarted and writing statistics does not fail; its `StatsInv` says that
otherwise the task that wrote the row is still to write them.

**IndexCache.** The invariant `CachingInv` says of the cached body, and of every
body about to be stored, that it `Covers` its generation: if that generation is
still current, all mutations that have bumped are in it, and so is everything due
to any request that has read this generation. `CachingInvariant`,
`ResponsesAreFresh` and `CacheIsCurrent` are proved from it.

**LogHub.** `TypeCorrect`; `StreamingFollowsUIs` (`StreamingIffWatched` is
inductive on top of the types: every action that changes one of the two sides
under a mutex changes the other); `RunnersAreKept`, an action property that
needs both.

`ChunksComeOnce` is `NoGapNoRepeat`. A UI misses or repeats a chunk only if the
decision whom to send it to and the snapshot disagree, so its invariant `GapInv`
has three parts: `PlacesInv` says on which hub a UI is registered in each step of
its handler; `FanInv` says what a fan-out under way still carries, to whom, and
that no two carry the same; `CompleteInv` says for each UI, chunk by chunk, that
one after its snapshot is in its channel or in exactly one fan-out.

**LiveLog.** `OneSocketHeld` rests on `SocketInv`: each `connect()` that waits for
the configuration belongs to a generation, and at most the current one may open a
socket. `TextsAreContiguous` and `TruncationsAreShown` rest on `StreamInv`: what is
on the wire continues what the flushes will show, every flush is honest about
what it lacks, and nothing is claimed once a chunk has overtaken the snapshot. The
lemmas on texts (`AppendHonest`, `TrimHonest`) say that appending and trimming at
a newline keep this. `LinesAreOfText` rests on `LinesInv`: unless the text has been
replaced or trimmed since the last full split, the lines are those of its first
`prevLen` characters, and a text that was emptied for a new stream is split before
anything can be appended to it. What a flush appends is then cut alone and spliced
onto the last line; `PiecesJoin` says, by induction over the chunk, that the pieces
of a grown text are the old pieces so joined with those of the chunk.

**RunSource.** `PageSettles` rests on `ConfigInv`, which relates the answer for
`config.json` that the page holds, the fetch under way and what the run has
written. The pop-in of the tiles has no property: its delays change only how a tile
looks.

**Choices.** `RunsChoiceImplemented`, `PeersChoiceImplemented` and
`SuiteChoiceImplemented` say that three pages implement `RunChoice`. Each rests on
an invariant (`RunsInv`, `PeersInv`, `SuiteInv`) that says what is chosen are runs
that exist, and for a comparison no more than it takes. `SuiteInv` adds that the
anchor of a range is a run of the suite. `RunsInv` says besides
that the server has indexed every run that the page has ever seen indexed, which
is why a choice made on one poll still holds indexed runs on the next
(`RunsChosenAreIndexed`). That a range of any length adds to a comparison only
what there is room for is lemma `TakenFits`.
`TurnedStripHoldsStill` is about the places of the runs of a strip: newer runs join
before all others, so the strip starts later by just as many places. The
attempt to prove it without the condition that the strip is full failed: a strip
made wider than its runs has room for them, and newer runs move in. TLC confirms
this with a third width, which the instance has now. `KeysFollowClicks` compares the
URL's three ways of writing a set of keys: absent, empty, and a list.

`LinksAreSound` is about what the page of a suite puts into its links to comparisons.
A link is made by going through runs that are sorted from the newest and taking the
first of each client or group that has ended and passed; so the proof needs of a sort
that it neither loses nor repeats a run (`SortedInjective`) and that the starts fall
along it (`NumbersFall`), and of a filter that it keeps both (`AmongInjective`,
`AmongFalling`); `FirstPerIs` concludes that the first of a key is its newest. The
link of a section takes its runs from the boxes, client after client in an order of
their names, which the model leaves open: the theorem holds for any.

The comparison of groups has its own invariant, `GroupsInv`: no handler loses the
suite, the groups or the sample from the URL. `BoxesDoAsClicked` follows from
`WantedAreLit`: whether the runs that are to be lit become the choice of the group
or equal the sample, which makes it automatic again, they are what is selected from
the runs that match; and these do not change, because a choice is no part of what
they are matched by. `AveragesAreOwn` follows from `FlatHasRuns`: the i-th run of a
group is in the flat list of all runs where the lengths of the groups before it
say. The mutant of `Offset`, which counts only the results that exist, breaks this
lemma.

Lists of any length need induction over data. The library's induction theorems
take an operator, which the provers cannot instantiate, so these proofs take a
smallest counterexample from a set of numbers instead (`SmallestNat`,
`UpwardsFromZero`); `AmongKeeps` shows in this way that the recursive function in
`Among` exists and what it computes, and `Iterates` that any function does that
goes on from each number to the next (`FlatIs`, `OffsetIs`). `Among` and `Over` in `Lists` are `SelectSeq`
and `@@` written so that the prover can see into them.

**Pages.** `VisitsAreOfPages` says that the browser's specification implies that of
each page: one page takes a step and the others stutter. The theorems of
`LiveRun_proofs`, `Tools_proofs` and `Choices_proofs`, which speak of the pages'
own specifications, therefore hold of visits in any order.

`PagesTyped` puts the types of all pages together. Each has a lemma of its own
(`LiveTyped`, `GroupsTyped`, `FileTyped` and so on) with an invariant that adds to the
invariants of the page's other theorems what the types say beyond them. Where this
took more than a look at each assignment:

- Log panel: text, buffers, messages on the wire and lines consist of characters
  of the log, and the text never grows beyond the browser's cap (`CharTypesStep`); no
  line holds a newline although lines are taken apart and put together again chunk
  by chunk, so the lemmas are about cutting and joining (`PiecesInside`,
  `ExtendedInside`).
- Comparison of groups: there is a slot for every group and an anchor for every
  card after cards were added, removed and moved up (`RemoveGroupFits`); runs that
  were chosen with Shift are runs of the index, because a range of what matches is
  a part of it (`ClickRunBoxFits`); what has been answered was asked of runs of the
  index, which takes the flat list of all groups' runs (`AskedFit`); the dialog
  never picks more rows than can be compared (`ModalStepFits`).
- Query builder: no column is chosen twice, which holds of a preset only if the
  preset has none twice (an assumption), and of the other changes because they add
  one that is not there (`ChangeTypes`).
- Lists and the page of a suite: filters have a value for each of their keys after
  any sequence of clicks on chips (`ToggledFilters`), at least one step stays chosen
  (`TogglesAreSteps`), and a click on a link of a pager leads to a page that is
  a positive number, whatever the list shrank to.
- Users: a row is a role of a known name and a request moves through its
  handler's places (`UaStepTypes`).

The proof found one part of `RunTestsTypeOK` that said nothing: `SUBSET StepTypes \
{{}}` is read as `SUBSET (StepTypes \ {{}})`, which admits the empty set of steps.
It is now `(SUBSET StepTypes) \ {{}}`, checked and proved.

`ChipsTellResults` compares two computations of one number: `FacetPanel` matches
the names against the query without the chip's dimension and asks each for its
value; the click appends a term that is parsed again. They agree because the key a
chip emits leads back to its dimension and to no other (`KeyLeadsBack`), because the
term is exact, and because a query that lacks the dimension does not hold the term
already (`NoTermOf`), so that the click adds rather than removes (`ChipLeaves`).

`TableKeepsPage` divides the handlers of a run's page into those that leave what
the table shows alone, those that turn its page and those that start from the first
(`TestsHandled`). The first kind can only add rows: a wider filter keeps no fewer
(`AmongGrows`), more rows make no fewer pages (`PagesGrow`). Why a suite's answer,
which brings the genesis of every test, takes no row away is the part `runSuite \/
genesis = "all"` of the invariant `TestsInv`: no genesis is chosen before it is there,
and a reload that forgets the suite forgets the choice.

`CountsAgree` is about four counts of the same tiles that the code makes with
thresholds of its own: steps of a colour scale, starts of bins, a comparison of
rates, and one of payload times. `ScaleIs` and `BinIs` say where the tables of
numbers cross the limit: the first five colours, and the last seven bins, begin
exactly there, for any measurement and any limit that is not zero. `LimitsInv` says
that no sequence of inputs makes one zero: a threshold of 0, an emptied box, falls
back on the default, and a slow limit is not taken below 1. With it each tile is in
exactly one bin (`BinsAdd` adds them up) and on the same side for all four. A payload
of exactly the limit is right of the line without being slow, which is why the counts
of durations agree only up to those.

`ListsKeepPages` sorts the handlers of the two pages into those that leave what is
listed alone, those that turn the page and those that start from the first
(`SuitesHandled`, `FilesHandled`). What needs an argument is the first kind. A summary
that arrives can only show more suites, because a suite without one satisfies no
filter (`SummariesShow`), and an index without changes keeps the places of all
others (`AmongGrows`). A sort has to give back all rows: `Sorted` counts for each row
those that precede it and takes this as its place, which is a permutation only if
the comparator is an order (`SortedIs`). That of the tests' sizes is one although a
size may be unknown: these come last in both directions (`SizesOrder`). The rows of
the opcode table come from another list than the one that the URL's page belongs
to, and lie in it (`RowsAreTests`).

`ReloadsRestore`: `FromParams` drops columns and operators that the table does not
have and clamps the numbers, so it gives the form back only if no handler puts such
a thing there. `QueryInv` says so: the form is a query on its table. Presets and
typed numbers are where this could fail; switching tables would, if it did not empty
the form (the mutant).

`TableSwitchesAskNothing`: every action of the query builder's form goes
through `Change`, and a change of the table never asks. `RolesAreKept` rests on
`PickedInv`, on top of the types: a role that a request carries was picked by the
administrator for that user, and so was one in the dialog that is not the role it
was opened with. The handler writes the role of the request or, if there is none, the
one it has read. Requests keep what they carry while they move through their
handler (`MovedAsks`), also when a save that is done waits for the list and closes a
dialog that was opened since.

`FilesReadTrue` rests on `FvInv`. Its heart is `TextIs`: unless a chunk came that did
not continue the others, the chunks joined with newlines are the file up to the byte
before `loadedBytes`, which is a newline, or, when all is loaded, the file up to the
size that HEAD told. A chunk of a plain file always has a newline to be cut at
(`ChunkIs`); the cut drops it and `join` puts it back (`TextGoesOn`, with `Glued`), which
is why `bytesConsumed` has to count it, as its mutant does not. A text that ends before
a newline has the first lines of the file (`LinesPrefix`). The rest of `FvInv` is what
keeps this true: a range under way ends inside the size that is known of its file,
and before it unless it is the last (`FvRangesInv`); HEAD may tell of a
larger file only while no text has reached the earlier end, or the text counts as
mixed; the last render saw the URL's file, unless a click has led from the suite's to
the run's, of which then nothing is known yet (`FvViewInv`). That loading does not
rest is a safety property here: a render whose text falls short of the selected line
asks for more (`ShortAsks`), or an earlier one did and its answer is still owed
(`FvLoadInv`). An answer that was rejected is owed no more, and loading goes on
waiting for it: the history `lost` says so. The folds of the community modules are
unfolded by `FlattenIs`.

Only model-checked: liveness. Every invariant and every action property that a run
checks is stated by a theorem. Liveness under fairness and `ENABLED` are out of the
prover's reach (`QueuedR1Goes`, `CompleteR1Indexed`).

## What is left

- The runner: `runContainerLifecycle` with the death monitor, the timeout and the
  cancellation against the executor, and the rollback strategies that expect a
  death; the executor's retries and rollbacks; the live reporter's `Stop`
  against a report under way.
- The log file's offsets in the streamer, and the termination of the hub's
  handlers (the wait of `kick` for `drainAndClose`).
- Data directories and CPU frequency: release after a failure at each step.

## Not modelled

Logins, sessions, API keys and GitHub mappings are single statements on a
database or calls of an external service; rate limits belong to a library. Test
sources, builder, compaction and container managers are sequential calls of
external tools, whose states are not in this repository. Configuration, suite
index files, block logs and the CPU topology are parsing and aggregation without
concurrency. The runner's lifecycle, the executor, data directories and CPU
frequency are left for later (above). Of the UI, the comparison of runs
(`ComparePage.tsx`) shares its table with that of groups and is charts otherwise;
the forms for API keys and login are single calls; panels of resources, block
logs and files of a run are drawing. `PROJECT.json` lists each with its reason.
