------------------------------ MODULE RunIndex ------------------------------
(***************************************************************************)
(* How a benchmark run becomes a row of the index and how it leaves it.    *)
(*                                                                         *)
(* Four actors share the run's directory and the index database:           *)
(*   - the runner writes the files of the run, either straight into the    *)
(*     storage the API server reads (Backend = "local") or, once the run   *)
(*     has ended, by uploading them one by one (Backend = "s3");           *)
(*   - the indexer scans storage in passes; one task per run reads the     *)
(*     files and commits the rows of the run in several transactions;      *)
(*   - an administrator queues runs for deletion and takes them back;      *)
(*   - the run deleter drains that queue, storage first, index second.     *)
(* The server process may stop and start again at any step: the database   *)
(* and the storage survive, everything else does not.                      *)
(*                                                                         *)
(* One discovery path is modelled. Times are abstracted to the order in    *)
(* which deletion requests take theirs, from a clock that is not set back; *)
(* the periodic tickers may fire at any moment.                            *)
(***************************************************************************)
EXTENDS Naturals, FiniteSets

CONSTANTS
    Run,            \* run IDs
    Suite,          \* suite hashes
    NoSuite,        \* the empty suite hash
    SuiteOf,        \* the suite hash in each run's config.json
    Terminal,       \* the terminal statuses that occur
    StartStatus,    \* the statuses a run's first config.json may have
    Backend,        \* "local" or "s3"
    Finished,       \* runs already complete in storage at the start
    Thread,         \* goroutines that run passes: the ticker loop, RunNow's
    Concurrency,    \* size of the indexer's worker pool
    Faults,         \* kinds of operation that may fail
    Reliable,       \* runs for which a retried backend call succeeds in the end
    MaxRequests,    \* bound on deletion requests
    MaxRestarts     \* bound on restarts of the server

\* The status of a config.json that carries none.
NoStatus == ""

\* The status that marks a run whose runner is still reporting.
RunStatusRunning == "running"

Status == {NoStatus, RunStatusRunning} \cup Terminal

\* "other" stands for benchmarkoor.log and the per-step result files.
File == {"other", "config", "result", "blocklogs"}

\* The files a task reads.
RunFile == {"config", "result", "blocklogs"}

FaultKind == {"list", "config", "result", "blocklogs", "suite", "upsert",
              "live", "stats", "logs", "storage", "cascade", "note", "upload"}

ASSUME RunIndexAssumption ==
    /\ SuiteOf \in [Run -> Suite \cup {NoSuite}]
    /\ Terminal # {}
    /\ NoStatus \notin Terminal /\ RunStatusRunning \notin Terminal
    /\ StartStatus \subseteq {NoStatus, RunStatusRunning}
    /\ Backend \in {"local", "s3"}
    /\ Finished \subseteq Run
    /\ Concurrency \in Nat \ {0}
    /\ Faults \subseteq FaultKind
    /\ Reliable \subseteq Run
    /\ MaxRequests \in Nat /\ MaxRestarts \in Nat

VARIABLES
    \* Runner and storage.
    phase,      \* how far the runner of each run has come
    dir,        \* the run's results directory: its files, config.json's status
    bucket,     \* the same for the bucket an uploader fills
    pending,    \* files still to upload
    summaries,  \* suites whose summary.json is in storage
    \* Index database.
    rows,       \* runs with a row in the runs table
    row,        \* status and has_result of that row
    reqAt,      \* deletion_requested_at; 0 is NULL
    delErr,     \* whether deletion_error is set
    stats,      \* runs with test_stats rows
    blockLogs,  \* runs with test_stats_block_logs rows
    suites,     \* rows of the suites table
    live,       \* rows of the live_runs table
    \* Memory of the API server.
    running,    \* the indexer's "pass in progress" flag
    pass,       \* what each indexing thread is doing
    task,       \* what each thread's task for each run is doing
    dbMu,       \* the indexer's write mutex
    worker,     \* the run deleter
    kick,       \* its wake-up channel, of capacity one
    marking,    \* requests in flight: a run and the time stamped for it
    \* Bounds.
    requests,   \* deletion requests so far; the newest time stamped
    restarts,   \* restarts so far
    \* History.
    since,      \* the newest time stamped when a run's request was committed
    tried       \* runs that the drain at work is done with

storageVars == <<phase, dir, bucket, pending, summaries>>
dbVars == <<rows, row, reqAt, delErr, stats, blockLogs, suites, live>>
indexerVars == <<running, pass, task, dbMu>>
deleterVars == <<worker, kick, marking, since, tried>>
boundVars == <<requests, restarts>>
vars == <<storageVars, dbVars, indexerVars, deleterVars, boundVars>>

EmptyDir == [files |-> {}, status |-> NoStatus]
NoRow == [status |-> NoStatus, result |-> FALSE]

PassAt(pc, found, indexed) == [pc |-> pc, found |-> found, indexed |-> indexed]
IdlePass == PassAt("idle", {}, {})

TaskAt(pc, unread, seen, status) ==
    [pc |-> pc, unread |-> unread, seen |-> seen, status |-> status]
NoTask == TaskAt("none", {}, {}, NoStatus)

Free == <<>>

TypeOK ==
    /\ phase \in [Run -> {"none", "preparing", "testing", "closing",
                          "uploading", "done"}]
    /\ dir \in [Run -> [files : SUBSET File, status : Status]]
    /\ bucket \in [Run -> [files : SUBSET File, status : Status]]
    /\ pending \in [Run -> SUBSET File]
    /\ summaries \subseteq Suite
    /\ rows \subseteq Run
    /\ row \in [Run -> [status : Status, result : BOOLEAN]]
    /\ reqAt \in [Run -> Nat]
    /\ delErr \in [Run -> BOOLEAN]
    /\ stats \subseteq Run
    /\ blockLogs \subseteq Run
    /\ suites \subseteq Suite
    /\ live \subseteq Run
    /\ running \in BOOLEAN
    /\ pass \in [Thread -> [pc : {"idle", "storage", "indexed", "incomplete",
                                  "work"},
                            found : SUBSET Run, indexed : SUBSET Run]]
    /\ task \in [Thread -> [Run ->
            [pc : {"none", "queued", "read", "upsert", "live", "stats", "logs"},
             unread : SUBSET RunFile, seen : SUBSET RunFile,
             status : Status]]]
    /\ dbMu \in {Free} \cup (Thread \X Run)
    /\ worker \in [pc : {"boot", "idle", "drain", "cascade"},
                   todo : [Run -> Nat]]
    /\ kick \in BOOLEAN
    /\ marking \subseteq Run \X Nat
    /\ requests \in Nat
    /\ restarts \in Nat
    /\ since \in [Run -> Nat]
    /\ tried \subseteq Run

-----------------------------------------------------------------------------
(* Storage. *)

\* The directory of a run in the storage that the server reads.
Storage(r) == IF Backend = "local" THEN dir[r] ELSE bucket[r]

\* DeleteRun of the storage backend, leaving the given files behind.
KeepInStorage(r, keep) ==
    IF Backend = "local"
        THEN /\ dir' = [dir EXCEPT ![r] = [files |-> keep, status |-> @.status]]
             /\ UNCHANGED bucket
        ELSE /\ bucket' = [bucket EXCEPT ![r] = [files |-> keep,
                                                 status |-> @.status]]
             /\ UNCHANGED dir

-----------------------------------------------------------------------------
(* The runner. *)

\* A write into the results directory fails, with a warning, when the directory
\* is gone.
WriteFile(r, f, status) ==
    dir' = IF dir[r].files = {} THEN dir
           ELSE [dir EXCEPT ![r] = [files |-> @.files \cup {f},
                                    status |-> status]]

\* The results directory and its log file are created. The suite directory
\* already exists next to it.
BeginRun(r) ==
    /\ phase[r] = "none"
    /\ phase' = [phase EXCEPT ![r] = "preparing"]
    /\ dir' = [dir EXCEPT ![r] = [files |-> {"other"}, status |-> NoStatus]]
    /\ summaries' = IF Backend = "local" /\ SuiteOf[r] # NoSuite
                    THEN summaries \cup {SuiteOf[r]} ELSE summaries
    /\ UNCHANGED <<bucket, pending, dbVars, indexerVars, deleterVars, boundVars>>

\* The first config.json, written before the client container is created. The
\* runner leaves its status empty; the index is also made for runners that write
\* "running".
WriteInitialConfig(r) ==
    /\ phase[r] = "preparing"
    /\ phase' = [phase EXCEPT ![r] = "testing"]
    /\ \E s \in StartStatus : WriteFile(r, "config", s)
    /\ UNCHANGED <<bucket, pending, summaries, dbVars, indexerVars,
                   deleterVars, boundVars>>

\* Step results are written under a directory that is created on demand: a
\* deleted results directory comes back.
WriteStepResults(r) ==
    /\ phase[r] = "testing"
    /\ "other" \notin dir[r].files
    /\ dir' = [dir EXCEPT ![r] = [files |-> @.files \cup {"other"},
                                  status |-> @.status]]
    /\ UNCHANGED <<phase, bucket, pending, summaries, dbVars, indexerVars,
                   deleterVars, boundVars>>

\* result.json, at the end of every call of the executor.
WriteRunResult(r) ==
    /\ phase[r] = "testing"
    /\ "result" \notin dir[r].files
    /\ WriteFile(r, "result", dir[r].status)
    /\ UNCHANGED <<phase, bucket, pending, summaries, dbVars, indexerVars,
                   deleterVars, boundVars>>

\* The final status is decided and config.json written with it.
WriteFinalConfig(r) ==
    /\ phase[r] = "testing"
    /\ phase' = [phase EXCEPT ![r] = "closing"]
    /\ \E s \in Terminal : WriteFile(r, "config", s)
    /\ UNCHANGED <<bucket, pending, summaries, dbVars, indexerVars,
                   deleterVars, boundVars>>

\* Captured block logs are written after the final config.json.
WriteBlockLogs(r) ==
    /\ phase[r] = "closing"
    /\ "blocklogs" \notin dir[r].files
    /\ dir[r].status \in Terminal
    /\ WriteFile(r, "blocklogs", dir[r].status)
    /\ UNCHANGED <<phase, bucket, pending, summaries, dbVars, indexerVars,
                   deleterVars, boundVars>>

\* One of the lifecycle's early error returns: no final config.json.
AbandonRun(r) ==
    /\ phase[r] \in {"preparing", "testing"}
    /\ phase' = [phase EXCEPT ![r] = "closing"]
    /\ UNCHANGED <<dir, bucket, pending, summaries, dbVars, indexerVars,
                   deleterVars, boundVars>>

\* The deferred calls of RunInstance: the reporter stops, then the results are
\* uploaded if an uploader is configured.
EndRun(r) ==
    /\ phase[r] = "closing"
    /\ phase' = [phase EXCEPT ![r] =
                    IF Backend = "local" THEN "done" ELSE "uploading"]
    /\ pending' = [pending EXCEPT ![r] =
                    IF Backend = "local" THEN {} ELSE dir[r].files]
    /\ UNCHANGED <<dir, bucket, summaries, dbVars, indexerVars, deleterVars,
                   boundVars>>

\* One job of the parallel upload pool; jobs complete in any order.
UploadFile(r, f) ==
    /\ phase[r] = "uploading" /\ f \in pending[r]
    /\ pending' = [pending EXCEPT ![r] = @ \ {f}]
    /\ bucket' = [bucket EXCEPT ![r] =
            [files |-> @.files \cup {f},
             status |-> IF f = "config" THEN dir[r].status ELSE @.status]]
    /\ UNCHANGED <<phase, dir, summaries, dbVars, indexerVars, deleterVars,
                   boundVars>>

\* The suite directory is uploaded after the run; an upload that failed before
\* its last file is abandoned with a warning.
UploadSuiteDir(r) ==
    /\ phase[r] = "uploading"
    /\ pending[r] = {} \/ "upload" \in Faults
    /\ pending' = [pending EXCEPT ![r] = {}]
    /\ phase' = [phase EXCEPT ![r] = "done"]
    /\ summaries' = IF SuiteOf[r] # NoSuite THEN summaries \cup {SuiteOf[r]}
                    ELSE summaries
    /\ UNCHANGED <<dir, bucket, dbVars, indexerVars, deleterVars, boundVars>>

\* The runner process dies.
KillRunner(r) ==
    /\ phase[r] \notin {"none", "done"}
    /\ phase' = [phase EXCEPT ![r] = "done"]
    /\ pending' = [pending EXCEPT ![r] = {}]
    /\ UNCHANGED <<dir, bucket, summaries, dbVars, indexerVars, deleterVars,
                   boundVars>>

\* A status report of the runner reaches the ingest handler.
UpsertLiveRun(r) ==
    /\ phase[r] \in {"preparing", "testing", "closing"}
    /\ live' = live \cup {r}
    /\ UNCHANGED <<storageVars, rows, row, reqAt, delErr, stats, blockLogs,
                   suites, indexerVars, deleterVars, boundVars>>

\* The stale watcher purges the row of a runner that has gone quiet.
DeleteStaleLiveRuns(r) ==
    /\ r \in live
    /\ live' = live \ {r}
    /\ UNCHANGED <<storageVars, rows, row, reqAt, delErr, stats, blockLogs,
                   suites, indexerVars, deleterVars, boundVars>>

RunnerStep(r) ==
    \/ BeginRun(r) \/ WriteInitialConfig(r) \/ WriteStepResults(r)
    \/ WriteRunResult(r) \/ WriteFinalConfig(r) \/ WriteBlockLogs(r)
    \/ AbandonRun(r) \/ EndRun(r) \/ UploadSuiteDir(r) \/ KillRunner(r)
    \/ UpsertLiveRun(r)
    \/ \E f \in File : UploadFile(r, f)

-----------------------------------------------------------------------------
(* The indexer. *)

Busy(t, r) == task[t][r].pc # "none"

\* Tasks that occupy a slot of the worker pool.
ActiveTasks(t) == {r \in Run : task[t][r].pc \notin {"none", "queued"}}

SetTask(t, r, pc) ==
    task' = [task EXCEPT ![t][r] = TaskAt(pc, @.unread, @.seen, @.status)]
EndTask(t, r) == task' = [task EXCEPT ![t][r] = NoTask]

\* Mutant of StartPass: the flag is set without being tested.
StartPassUnchecked(t) ==
    /\ pass[t].pc = "idle"
    /\ running' = TRUE
    /\ pass' = [pass EXCEPT ![t] = PassAt("storage", {}, {})]
    /\ UNCHANGED <<storageVars, dbVars, task, dbMu, deleterVars, boundVars>>

\* runPass and RunNow: whoever swaps the flag from false to true runs a pass.
StartPass(t) ==
    /\ pass[t].pc = "idle"
    /\ ~running
    /\ running' = TRUE
    /\ pass' = [pass EXCEPT ![t] = PassAt("storage", {}, {})]
    /\ UNCHANGED <<storageVars, dbVars, task, dbMu, deleterVars, boundVars>>

ListStorageRunIDs(t) ==
    /\ pass[t].pc = "storage"
    /\ pass' = [pass EXCEPT ![t] =
            PassAt("indexed", {r \in Run : Storage(r).files # {}}, {})]
    /\ UNCHANGED <<storageVars, dbVars, running, task, dbMu, deleterVars,
                   boundVars>>

ListIndexedRunIDs(t) ==
    /\ pass[t].pc = "indexed"
    /\ pass' = [pass EXCEPT ![t] = PassAt("incomplete", @.found, rows)]
    /\ UNCHANGED <<storageVars, dbVars, running, task, dbMu, deleterVars,
                   boundVars>>

\* Mutant of Incomplete: rows that have a result are read again.
IncompleteByStatus == {r \in rows : /\ row[r].status # NoStatus
                                    /\ row[r].status \notin Terminal
                                    /\ reqAt[r] = 0}

\* Mutant of Incomplete: what is running is left to its runner.
IncompleteNotRunning == {r \in rows : /\ ~row[r].result
                                      /\ row[r].status \notin {NoStatus,
                                             RunStatusRunning} \cup Terminal
                                      /\ reqAt[r] = 0}

\* Rows that may still get a result: the rest are never read again.
Incomplete == {r \in rows : /\ ~row[r].result
                            /\ row[r].status # NoStatus
                            /\ row[r].status \notin Terminal
                            /\ reqAt[r] = 0}

\* Runs in storage that are new to the index, or incomplete, become tasks.
ListIncompleteRunIDs(t) ==
    /\ pass[t].pc = "incomplete"
    /\ pass' = [pass EXCEPT ![t] = PassAt("work", {}, {})]
    /\ task' = [task EXCEPT ![t] = [r \in Run |->
            IF /\ r \in pass[t].found
               /\ r \notin pass[t].indexed \/ r \in Incomplete
            THEN TaskAt("queued", {}, {}, NoStatus)
            ELSE NoTask]]
    /\ UNCHANGED <<storageVars, dbVars, running, dbMu, deleterVars, boundVars>>

\* A listing fails: the pass ends without a task.
ListFails(t) ==
    /\ "list" \in Faults
    /\ pass[t].pc \in {"storage", "indexed", "incomplete"}
    /\ pass' = [pass EXCEPT ![t] = PassAt("work", {}, {})]
    /\ UNCHANGED <<storageVars, dbVars, running, task, dbMu, deleterVars,
                   boundVars>>

StartTask(t, r) ==
    /\ task[t][r].pc = "queued"
    /\ Cardinality(ActiveTasks(t)) < Concurrency
    /\ task' = [task EXCEPT ![t][r] = TaskAt("read", RunFile, {}, NoStatus)]
    /\ UNCHANGED <<storageVars, dbVars, running, pass, dbMu, deleterVars,
                   boundVars>>

\* GetRunFile, one concurrent read per file. A file that cannot be read is
\* treated like one that is not there.
ReadFile(t, r, f) ==
    /\ task[t][r].pc = "read" /\ f \in task[t][r].unread
    /\ \E ok \in BOOLEAN :
         /\ ok => f \in Storage(r).files
         /\ ~ok => f \notin Storage(r).files \/ f \in Faults
         /\ task' = [task EXCEPT ![t][r] =
                TaskAt("read", @.unread \ {f},
                       IF ok THEN @.seen \cup {f} ELSE @.seen,
                       IF ok /\ f = "config" THEN Storage(r).status
                                             ELSE @.status)]
    /\ UNCHANGED <<storageVars, dbVars, running, pass, dbMu, deleterVars,
                   boundVars>>

\* Without a config.json there is nothing to index.
ConfigMissing(t, r) ==
    /\ task[t][r].pc = "read" /\ task[t][r].unread = {}
    /\ "config" \notin task[t][r].seen
    /\ EndTask(t, r)
    /\ UNCHANGED <<storageVars, dbVars, running, pass, dbMu, deleterVars,
                   boundVars>>

\* Mutant of UpsertSuite: a run without a config.json is indexed all the same.
UpsertSuiteNoConfig(t, r) ==
    /\ task[t][r].pc = "read" /\ task[t][r].unread = {}
    /\ \/ suites' = suites \cup ({SuiteOf[r]} \cap summaries)
       \/ "suite" \in Faults /\ UNCHANGED suites
    /\ SetTask(t, r, "upsert")
    /\ UNCHANGED <<storageVars, rows, row, reqAt, delErr, stats, blockLogs,
                   live, running, pass, dbMu, deleterVars, boundVars>>

\* The suite row is written outside the write mutex; a failure is only logged.
UpsertSuite(t, r) ==
    /\ task[t][r].pc = "read" /\ task[t][r].unread = {}
    /\ "config" \in task[t][r].seen
    /\ \/ suites' = suites \cup ({SuiteOf[r]} \cap summaries)
       \/ "suite" \in Faults /\ UNCHANGED suites
    /\ SetTask(t, r, "upsert")
    /\ UNCHANGED <<storageVars, rows, row, reqAt, delErr, stats, blockLogs,
                   live, running, pass, dbMu, deleterVars, boundVars>>

\* Mutant of UpsertRun: has_result follows the status, not the file.
UpsertRunByStatus(t, r) ==
    /\ task[t][r].pc = "upsert"
    /\ dbMu = Free
    /\ dbMu' = <<t, r>>
    /\ rows' = rows \cup {r}
    /\ row' = [row EXCEPT ![r] = [status |-> task[t][r].status,
                                  result |-> task[t][r].status \in Terminal]]
    /\ SetTask(t, r, "live")
    /\ UNCHANGED <<storageVars, reqAt, delErr, stats, blockLogs, suites, live,
                   running, pass, deleterVars, boundVars>>

\* The canonical row is inserted, or everything but its deletion columns is
\* overwritten.
UpsertRun(t, r) ==
    /\ task[t][r].pc = "upsert"
    /\ dbMu = Free
    /\ dbMu' = <<t, r>>
    /\ rows' = rows \cup {r}
    /\ row' = [row EXCEPT ![r] = [status |-> task[t][r].status,
                                  result |-> "result" \in task[t][r].seen]]
    /\ SetTask(t, r, "live")
    /\ UNCHANGED <<storageVars, reqAt, delErr, stats, blockLogs, suites, live,
                   running, pass, deleterVars, boundVars>>

UpsertRunFails(t, r) ==
    /\ "upsert" \in Faults
    /\ task[t][r].pc = "upsert"
    /\ dbMu = Free
    /\ EndTask(t, r)
    /\ UNCHANGED <<storageVars, dbVars, running, pass, dbMu, deleterVars,
                   boundVars>>

\* The live row is superseded by the canonical one; a failure is ignored.
DeleteLiveRun(t, r) ==
    /\ task[t][r].pc = "live"
    /\ \/ live' = live \ {r}
       \/ "live" \in Faults /\ UNCHANGED live
    /\ SetTask(t, r, "stats")
    /\ UNCHANGED <<storageVars, rows, row, reqAt, delErr, stats, blockLogs,
                   suites, running, pass, dbMu, deleterVars, boundVars>>

\* test_stats are replaced when there is a result; a failure is only logged.
ReplaceTestStats(t, r) ==
    /\ task[t][r].pc = "stats"
    /\ \/ /\ "result" \in task[t][r].seen /\ SuiteOf[r] # NoSuite
          /\ stats' = stats \cup {r}
       \/ /\ \/ "result" \notin task[t][r].seen \/ SuiteOf[r] = NoSuite
             \/ "stats" \in Faults
          /\ UNCHANGED stats
    /\ SetTask(t, r, "logs")
    /\ UNCHANGED <<storageVars, rows, row, reqAt, delErr, blockLogs, suites,
                   live, running, pass, dbMu, deleterVars, boundVars>>

\* The same for the block logs; then the write mutex is released.
ReplaceTestStatsBlockLogs(t, r) ==
    /\ task[t][r].pc = "logs"
    /\ \/ /\ "blocklogs" \in task[t][r].seen /\ SuiteOf[r] # NoSuite
          /\ blockLogs' = blockLogs \cup {r}
       \/ /\ \/ "blocklogs" \notin task[t][r].seen \/ SuiteOf[r] = NoSuite
             \/ "logs" \in Faults
          /\ UNCHANGED blockLogs
    /\ dbMu' = Free
    /\ EndTask(t, r)
    /\ UNCHANGED <<storageVars, rows, row, reqAt, delErr, stats, suites, live,
                   running, pass, deleterVars, boundVars>>

\* All tasks have ended; the deferred reset lets the next pass in.
FinishPass(t) ==
    /\ pass[t].pc = "work"
    /\ \A r \in Run : ~Busy(t, r)
    /\ pass' = [pass EXCEPT ![t] = IdlePass]
    /\ running' = FALSE
    /\ UNCHANGED <<storageVars, dbVars, task, dbMu, deleterVars, boundVars>>

PassStep(t) ==
    \/ ListStorageRunIDs(t) \/ ListIndexedRunIDs(t) \/ ListIncompleteRunIDs(t)
    \/ ListFails(t) \/ FinishPass(t)

TaskStep(t, r) ==
    \/ StartTask(t, r) \/ ConfigMissing(t, r) \/ UpsertSuite(t, r)
    \/ UpsertRun(t, r) \/ UpsertRunFails(t, r) \/ DeleteLiveRun(t, r)
    \/ ReplaceTestStats(t, r) \/ ReplaceTestStatsBlockLogs(t, r)
    \/ \E f \in RunFile : ReadFile(t, r, f)

-----------------------------------------------------------------------------
(* Requests of the administrator. *)

\* handleDeleteRuns takes the time of a request for a run of the index before it
\* updates the row.
StampRequest(r) ==
    /\ requests < MaxRequests
    /\ r \in rows
    /\ requests' = requests + 1
    /\ marking' = marking \cup {<<r, requests + 1>>}
    /\ UNCHANGED <<storageVars, dbVars, indexerVars, worker, kick, restarts,
                   since, tried>>

\* The UPDATE of a request queues the run at the time that was stamped.
Enqueue(r, at) ==
    /\ reqAt' = [reqAt EXCEPT ![r] = at]
    /\ delErr' = [delErr EXCEPT ![r] = FALSE]
    /\ since' = [since EXCEPT ![r] = requests]

\* Mutant of MarkRunForDeletion: a running run is queued too.
MarkAnyRun(r, at) ==
    /\ <<r, at>> \in marking
    /\ marking' = marking \ {<<r, at>>}
    /\ \/ /\ r \in rows /\ reqAt[r] = 0
          /\ Enqueue(r, at)
          /\ kick' = TRUE
       \/ /\ r \in rows /\ reqAt[r] # 0
          /\ kick' = TRUE
          /\ UNCHANGED <<reqAt, delErr, since>>
       \/ /\ r \notin rows
          /\ UNCHANGED <<reqAt, delErr, since, kick>>
    /\ UNCHANGED <<storageVars, rows, row, stats, blockLogs, suites, live,
                   indexerVars, worker, tried, boundVars>>

\* A request reaches the database, maybe after a younger one. A run that is
\* already queued keeps its place; one whose row says "running", or is gone, is
\* refused.
MarkRunForDeletion(r, at) ==
    /\ <<r, at>> \in marking
    /\ marking' = marking \ {<<r, at>>}
    /\ \/ /\ r \in rows /\ reqAt[r] = 0 /\ row[r].status # RunStatusRunning
          /\ Enqueue(r, at)
          /\ kick' = TRUE
       \/ /\ r \in rows /\ reqAt[r] # 0
          /\ kick' = TRUE
          /\ UNCHANGED <<reqAt, delErr, since>>
       \/ /\ \/ r \notin rows
             \/ reqAt[r] = 0 /\ row[r].status = RunStatusRunning
          /\ UNCHANGED <<reqAt, delErr, since, kick>>
    /\ UNCHANGED <<storageVars, rows, row, stats, blockLogs, suites, live,
                   indexerVars, worker, tried, boundVars>>

\* handleCancelDeleteRuns for one queued run.
UnmarkRunForDeletion(r) ==
    /\ r \in rows /\ reqAt[r] # 0
    /\ reqAt' = [reqAt EXCEPT ![r] = 0]
    /\ delErr' = [delErr EXCEPT ![r] = FALSE]
    /\ since' = [since EXCEPT ![r] = 0]
    /\ UNCHANGED <<storageVars, rows, row, stats, blockLogs, suites, live,
                   indexerVars, worker, kick, marking, tried, boundVars>>

RequestStep(r) ==
    \/ StampRequest(r) \/ UnmarkRunForDeletion(r)
    \/ \E at \in 1..MaxRequests : MarkRunForDeletion(r, at)

-----------------------------------------------------------------------------
(* The run deleter. *)

\* Mutant of IsCurrent: the newest request goes first.
IsNewest(r) ==
    /\ worker.todo[r] # 0
    /\ \A q \in Run : worker.todo[q] # 0 => worker.todo[r] >= worker.todo[q]

\* The drain goes through the list it read, oldest request first.
IsCurrent(r) ==
    /\ worker.todo[r] # 0
    /\ \A q \in Run : worker.todo[q] # 0 => worker.todo[r] <= worker.todo[q]

EmptyTodo == [r \in Run |-> 0]

\* The worker has a list to go through, of which it is done with some runs.
NextInQueue(todo, done) ==
    /\ worker' = [pc |-> IF todo = EmptyTodo THEN "idle" ELSE "drain",
                  todo |-> todo]
    /\ tried' = IF todo = EmptyTodo THEN {} ELSE done

\* What the worker does when it is done with the run at hand.
Dequeue(r) == NextInQueue([worker.todo EXCEPT ![r] = 0], tried \cup {r})

\* Mutant of ListRunsPendingDeletion: runs with an error are not tried again.
ListUntriedRuns ==
    /\ worker.pc \in {"boot", "idle"}
    /\ \/ worker.pc = "boot" /\ UNCHANGED kick
       \/ worker.pc = "idle" /\ kick /\ kick' = FALSE
       \/ worker.pc = "idle" /\ UNCHANGED kick
    /\ NextInQueue([r \in Run |-> IF delErr[r] THEN 0 ELSE reqAt[r]], {})
    /\ UNCHANGED <<storageVars, dbVars, indexerVars, marking, since, boundVars>>

\* A new process drains what the previous one left; afterwards a request or the
\* ticker starts a drain. The list is read once, at the start.
ListRunsPendingDeletion ==
    /\ worker.pc \in {"boot", "idle"}
    /\ \/ worker.pc = "boot" /\ UNCHANGED kick
       \/ worker.pc = "idle" /\ kick /\ kick' = FALSE
       \/ worker.pc = "idle" /\ UNCHANGED kick
    /\ NextInQueue(reqAt, {})
    /\ UNCHANGED <<storageVars, dbVars, indexerVars, marking, since, boundVars>>

\* SetRunDeletionError updates the row, if there is one; a failure to do so is
\* only logged.
SetRunDeletionError(r) ==
    \/ delErr' = IF r \in rows THEN [delErr EXCEPT ![r] = TRUE] ELSE delErr
    \/ "note" \in Faults /\ UNCHANGED delErr

DeleteRunFromStorage(r) ==
    /\ worker.pc = "drain" /\ IsCurrent(r)
    /\ KeepInStorage(r, {})
    /\ worker' = [pc |-> "cascade", todo |-> worker.todo]
    /\ UNCHANGED <<phase, pending, summaries, dbVars, indexerVars, kick,
                   marking, since, tried, boundVars>>

\* Mutant of StorageDeleteFails: the index rows are deleted all the same.
StorageDeleteIgnored(r) ==
    /\ "storage" \in Faults
    /\ worker.pc = "drain" /\ IsCurrent(r)
    /\ \E keep \in SUBSET Storage(r).files : KeepInStorage(r, keep)
    /\ worker' = [pc |-> "cascade", todo |-> worker.todo]
    /\ UNCHANGED <<phase, pending, summaries, dbVars, indexerVars, kick,
                   marking, since, tried, boundVars>>

\* Mutant of StorageDeleteFails: the drain ends with the first failure.
StorageDeleteStops(r) ==
    /\ "storage" \in Faults
    /\ worker.pc = "drain" /\ IsCurrent(r)
    /\ \E keep \in SUBSET Storage(r).files : KeepInStorage(r, keep)
    /\ SetRunDeletionError(r)
    /\ NextInQueue(EmptyTodo, {})
    /\ UNCHANGED <<phase, pending, summaries, rows, row, reqAt, stats,
                   blockLogs, suites, live, indexerVars, kick, marking, since,
                   boundVars>>

\* Some files may be gone when the backend reports an error; the run stays
\* queued and the drain moves on.
StorageDeleteFails(r) ==
    /\ "storage" \in Faults
    /\ worker.pc = "drain" /\ IsCurrent(r)
    /\ \E keep \in SUBSET Storage(r).files : KeepInStorage(r, keep)
    /\ SetRunDeletionError(r)
    /\ Dequeue(r)
    /\ UNCHANGED <<phase, pending, summaries, rows, row, reqAt, stats,
                   blockLogs, suites, live, indexerVars, kick, marking, since,
                   boundVars>>

\* One transaction: the statistics, the row, and the suite nobody uses now.
DeleteRunCascade(r) ==
    /\ worker.pc = "cascade" /\ IsCurrent(r)
    /\ r \in rows
    /\ stats' = stats \ {r}
    /\ blockLogs' = blockLogs \ {r}
    /\ rows' = rows \ {r}
    /\ row' = [row EXCEPT ![r] = NoRow]
    /\ reqAt' = [reqAt EXCEPT ![r] = 0]
    /\ delErr' = [delErr EXCEPT ![r] = FALSE]
    /\ suites' = IF \E q \in rows' : SuiteOf[q] = SuiteOf[r] THEN suites
                 ELSE suites \ {SuiteOf[r]}
    /\ since' = [since EXCEPT ![r] = 0]
    /\ Dequeue(r)
    /\ UNCHANGED <<storageVars, live, indexerVars, kick, marking, boundVars>>

\* The run is not found, or the transaction is rolled back.
CascadeFails(r) ==
    /\ worker.pc = "cascade" /\ IsCurrent(r)
    /\ r \notin rows \/ "cascade" \in Faults
    /\ SetRunDeletionError(r)
    /\ Dequeue(r)
    /\ UNCHANGED <<storageVars, rows, row, reqAt, stats, blockLogs, suites,
                   live, indexerVars, kick, marking, since, boundVars>>

DeleterStep ==
    \/ ListRunsPendingDeletion
    \/ \E r \in Run : \/ DeleteRunFromStorage(r) \/ StorageDeleteFails(r)
                     \/ DeleteRunCascade(r) \/ CascadeFails(r)

-----------------------------------------------------------------------------
(* The server process stops, at any step, and a new one takes over. A storage  *)
(* delete in progress may have removed some of the files.                      *)

Restart ==
    /\ restarts < MaxRestarts
    /\ restarts' = restarts + 1
    /\ \/ UNCHANGED <<dir, bucket>>
       \/ \E r \in Run : /\ worker.pc = "drain" /\ IsCurrent(r)
                        /\ \E keep \in SUBSET Storage(r).files :
                              KeepInStorage(r, keep)
    /\ running' = FALSE
    /\ pass' = [t \in Thread |-> IdlePass]
    /\ task' = [t \in Thread |-> [r \in Run |-> NoTask]]
    /\ dbMu' = Free
    /\ worker' = [pc |-> "boot", todo |-> EmptyTodo]
    /\ kick' = FALSE
    /\ marking' = {} /\ tried' = {}
    /\ UNCHANGED <<phase, pending, summaries, dbVars, requests, since>>

-----------------------------------------------------------------------------

FinishedDir == [files |-> File, status |-> CHOOSE s \in Terminal : TRUE]

Init ==
    /\ phase = [r \in Run |-> IF r \in Finished THEN "done" ELSE "none"]
    /\ dir = [r \in Run |-> IF r \in Finished THEN FinishedDir ELSE EmptyDir]
    /\ bucket = IF Backend = "local" THEN [r \in Run |-> EmptyDir] ELSE dir
    /\ pending = [r \in Run |-> {}]
    /\ summaries = {SuiteOf[r] : r \in Finished} \ {NoSuite}
    /\ rows = {}
    /\ row = [r \in Run |-> NoRow]
    /\ reqAt = [r \in Run |-> 0]
    /\ delErr = [r \in Run |-> FALSE]
    /\ stats = {} /\ blockLogs = {} /\ suites = {} /\ live = {}
    /\ running = FALSE
    /\ pass = [t \in Thread |-> IdlePass]
    /\ task = [t \in Thread |-> [r \in Run |-> NoTask]]
    /\ dbMu = Free
    /\ worker = [pc |-> "boot", todo |-> EmptyTodo]
    /\ kick = FALSE
    /\ marking = {}
    /\ requests = 0 /\ restarts = 0
    /\ since = [r \in Run |-> 0] /\ tried = {}

Next ==
    \/ \E r \in Run : \/ RunnerStep(r) \/ DeleteStaleLiveRuns(r)
                     \/ RequestStep(r)
    \/ \E t \in Thread : \/ StartPass(t) \/ PassStep(t)
                        \/ \E r \in Run : TaskStep(t, r)
    \/ DeleterStep
    \/ Restart

Spec == Init /\ [][Next]_vars

\* The indexer's ticker keeps firing and the goroutines of its one pass keep
\* running; a backend call that is retried for ever succeeds in the end for the
\* runs in Reliable.
FairIndexer ==
    /\ WF_vars(\E t \in Thread : StartPass(t))
    /\ WF_vars(\E t \in Thread : PassStep(t))
    /\ \A r \in Run : WF_vars(\E t \in Thread : TaskStep(t, r))
    /\ \A r \in Reliable :
         /\ SF_vars(\E t \in Thread : /\ ReadFile(t, r, "config")
                                     /\ "config" \in task'[t][r].seen)
         /\ SF_vars(\E t \in Thread : UpsertRun(t, r))

\* The same for the run deleter.
FairDeleter ==
    /\ WF_vars(DeleterStep)
    /\ \A r \in Reliable : /\ SF_vars(DeleteRunFromStorage(r))
                         /\ SF_vars(DeleteRunCascade(r))

IndexerSpec == Spec /\ FairIndexer
DeleterSpec == Spec /\ FairDeleter

-----------------------------------------------------------------------------
(* Why the indexer and the run deleter never meet on a run. *)

\* Passes exclude each other, and only a pass that has listed its runs has tasks.
PassInv ==
    /\ \A t \in Thread : pass[t].pc # "idle" => running
    /\ \A t, u \in Thread :
         pass[t].pc # "idle" /\ pass[u].pc # "idle" => t = u
    /\ \A t \in Thread, r \in Run : Busy(t, r) => pass[t].pc = "work"

\* Between the listing of the indexed runs and the creation of tasks, rows are
\* only removed.
ListingInv == \A t \in Thread : pass[t].pc = "incomplete"
                                => rows \subseteq pass[t].indexed

\* A task that has not written its row yet.
Writing(t, r) == task[t][r].pc \in {"queued", "read", "upsert"}

\* A task about to overwrite a row does so only to an incomplete run, which can
\* be neither queued nor in the deleter's hands; a task about to insert a row
\* has seen a config.json that nobody deletes.
TaskInv ==
    \A t \in Thread, r \in Run : Writing(t, r) =>
        /\ r \in rows => /\ row[r].status = RunStatusRunning
                        /\ ~row[r].result
        /\ r \notin rows /\ "config" \in task[t][r].seen
             => "config" \in Storage(r).files
        /\ task[t][r].pc = "upsert" => "config" \in task[t][r].seen

\* Only rows that do not say "running" are queued or being deleted.
QueueInv ==
    \A r \in Run : reqAt[r] # 0 \/ worker.todo[r] # 0
                    => r \in rows /\ row[r].status # RunStatusRunning

\* A directory that does not exist yet has no files.
DirInv == \A r \in Run : phase[r] = "none" => dir[r].files = {}

IndexInv == TypeOK /\ PassInv /\ ListingInv /\ TaskInv /\ QueueInv /\ DirInv

-----------------------------------------------------------------------------
(* Why the deletion queue is first in, first out. *)

\* No two requests share a time, neither in the queue nor in flight; none is
\* older than the update that queued it; a worker that waits has nothing in hand.
PlacesInv ==
    /\ \A p, q \in Run : reqAt[p] # 0 /\ reqAt[p] = reqAt[q] => p = q
    /\ \A c, d \in marking : c[2] = d[2] => c = d
    /\ \A c \in marking : /\ c[2] # 0 /\ c[2] <= requests
                          /\ \A r \in Run : reqAt[r] # c[2]
    /\ \A p, q \in Run :
         worker.todo[p] # 0 /\ worker.todo[p] = worker.todo[q] => p = q
    /\ \A r \in Run : /\ reqAt[r] <= requests /\ worker.todo[r] <= requests
                      /\ reqAt[r] # 0 => reqAt[r] <= since[r]
    /\ worker.pc \in {"boot", "idle"} => worker.todo = EmptyTodo

\* A request committed before the one that the worker still has in hand was made
\* is in its hands too, or has been tried in this drain.
OrderInv ==
    \A p, q \in Run : reqAt[p] # 0 /\ since[p] < worker.todo[q]
                       => worker.todo[p] = reqAt[p] \/ p \in tried

\* The runner of a finished run is gone; between the two deletions of the run in
\* hand nothing is left of its files.
FilesInv ==
    /\ \A r \in Finished : phase[r] = "done"
    /\ worker.pc = "cascade" =>
         \A r \in Finished : IsCurrent(r) => Storage(r).files = {}

DeletionInv == IndexInv /\ PlacesInv /\ OrderInv /\ FilesInv

-----------------------------------------------------------------------------
(* Why a row gets its statistics. *)

\* The row of a run with a result has its statistics, or the task that wrote the
\* row is still to write them. A restart loses the task.
StatsInv ==
    restarts = 0 =>
        \A r \in rows : row[r].result /\ SuiteOf[r] # NoSuite =>
            \/ r \in stats
            \/ \E t \in Thread : /\ task[t][r].pc \in {"live", "stats"}
                                 /\ "result" \in task[t][r].seen

-----------------------------------------------------------------------------
(* Properties. *)

\* One pass runs at a time (running is swapped, never just read), so two tasks
\* never work on the same run.
OneTaskPerRun ==
    \A r \in Run : \A t, u \in Thread : Busy(t, r) /\ Busy(u, r) => t = u

\* A row appears only while the run's config.json is in storage: however the
\* deletion of a run and an indexing pass interleave, a task that read the files
\* before they were deleted never brings the row back afterwards.
InsertBacked ==
    [][\A r \in Run : r \notin rows /\ r \in rows'
                        => "config" \in Storage(r).files]_vars

\* The indexer never overwrites the row of a queued run: what the administrator
\* saw when queuing it is what is deleted.
QueuedRowUntouched ==
    [][\A r \in rows : reqAt[r] # 0 /\ r \in rows' => row'[r] = row[r]]_vars

\* Once a row has a result it does not change until the run is deleted: no task
\* that read the directory earlier overwrites it with older data.
IndexedResultIsFinal ==
    [][\A r \in rows : row[r].result /\ r \in rows' => row'[r] = row[r]]_vars

\* The row of a run is dropped only once all its files are gone, so that nothing
\* is left in storage without a row to delete it by. (Of runs whose files were
\* complete before: a runner that is still writing can add some.)
RowOutlivesFiles ==
    [][\A r \in Finished : r \in rows /\ r \notin rows'
                             => Storage(r).files = {}]_vars

\* The deletion queue of the index, with everything else hidden.
Queue == INSTANCE DeletionQueue WITH
    Runs <- Run, indexed <- rows, place <- reqAt, failed <- delErr,
    drain <- worker.todo, newest <- requests

\* Runs leave in the order they were queued, however requests in flight,
\* cancellations, failures, errors that are not recorded, restarts and indexing
\* passes fall between the worker's steps: a request that had been queued before
\* the one carried out was made has been tried in the same drain, and no run
\* leaves without a request.
QueueKept == Queue!QueueSpec

\* A row with a result has its test statistics once its task is over.
StatsFollowRow ==
    \A r \in rows : /\ row[r].result /\ SuiteOf[r] # NoSuite
                    /\ \A t \in Thread : ~Busy(t, r)
                    => r \in stats

\* A queued run is deleted or taken back in the end, whatever happens to the
\* other runs of the queue.
QueuedRunGoes(r) ==
    (r \in rows /\ reqAt[r] # 0) ~> (r \notin rows \/ reqAt[r] = 0)

\* A run whose files are all in storage before a task looks at it gets a row with
\* its final status, even if it was indexed as running, without a result, before.
\* Not always with its result: a task that cannot read result.json stores the row
\* without one, and a row with a final status is not read again.
CompleteRunIndexed(r) ==
    (/\ Storage(r).files = File /\ Storage(r).status \in Terminal
     /\ r \in rows => row[r] = [status |-> RunStatusRunning, result |-> FALSE]
     /\ \A t \in Thread : ~Busy(t, r))
    ~> (r \in rows /\ row[r].status \in Terminal)

=============================================================================
