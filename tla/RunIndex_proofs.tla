--------------------------- MODULE RunIndex_proofs ---------------------------
(***************************************************************************)
(* The types and the inductive invariant of RunIndex, and what follows     *)
(* from it, for any set of runs, threads and suites.                       *)
(***************************************************************************)
EXTENDS RunIndex, TLAPS

-----------------------------------------------------------------------------
(* Type correctness. *)

LEMMA InitType == Init => TypeOK
  <1> USE RunIndexAssumption
  <1> SUFFICES ASSUME Init PROVE TypeOK
    OBVIOUS
  <1>1. FinishedDir \in [files : SUBSET File, status : Status]
    BY DEF FinishedDir, Status
  <1>2. EmptyDir \in [files : SUBSET File, status : Status]
    BY DEF EmptyDir, Status, NoStatus
  <1>3. /\ dir \in [Run -> [files : SUBSET File, status : Status]]
        /\ bucket \in [Run -> [files : SUBSET File, status : Status]]
    BY <1>1, <1>2 DEF Init
  <1>4. summaries \subseteq Suite
    BY DEF Init
  <1>5. /\ row \in [Run -> [status : Status, result : BOOLEAN]]
        /\ reqAt \in [Run -> Nat] /\ delErr \in [Run -> BOOLEAN]
    BY DEF Init, NoRow, Status, NoStatus
  <1>6. pass \in [Thread -> [pc : {"idle", "storage", "indexed", "incomplete",
                                  "work"},
                            found : SUBSET Run, indexed : SUBSET Run]]
    BY DEF Init, IdlePass, PassAt
  <1>7. NoTask \in [pc : {"none", "queued", "read", "upsert", "live", "stats",
                          "logs"},
                    unread : SUBSET RunFile, seen : SUBSET RunFile,
                    status : Status]
    BY DEF NoTask, TaskAt, Status, NoStatus
  <1>8. worker \in [pc : {"boot", "idle", "drain", "cascade"},
                    todo : [Run -> Nat]]
    BY DEF Init, EmptyTodo
  <1>9. /\ phase \in [Run -> {"none", "preparing", "testing", "closing",
                              "uploading", "done"}]
        /\ pending \in [Run -> SUBSET File]
    BY DEF Init
  <1> QED
    BY <1>3, <1>4, <1>5, <1>6, <1>7, <1>8, <1>9 DEF Init, TypeOK

\* Writing a file keeps the type of a results directory.
LEMMA WriteFileType ==
  ASSUME TypeOK, NEW r \in Run, NEW f \in File, NEW s \in Status,
         WriteFile(r, f, s)
  PROVE  dir' \in [Run -> [files : SUBSET File, status : Status]]
  BY DEF TypeOK, WriteFile

LEMMA KeepInStorageType ==
  ASSUME TypeOK, NEW r \in Run, NEW keep \in SUBSET File,
         KeepInStorage(r, keep)
  PROVE  /\ dir' \in [Run -> [files : SUBSET File, status : Status]]
         /\ bucket' \in [Run -> [files : SUBSET File, status : Status]]
  <1> DEFINE Kept(d) == [d EXCEPT ![r] = [files |-> keep, status |-> @.status]]
  <1> HIDE DEF Kept
  <1>0. ASSUME NEW d \in [Run -> [files : SUBSET File, status : Status]]
        PROVE  Kept(d) \in [Run -> [files : SUBSET File, status : Status]]
    BY DEF Kept
  <1>1. CASE Backend = "local"
    <2>1. dir' = Kept(dir) /\ bucket' = bucket
      BY <1>1 DEF KeepInStorage, Kept
    <2> QED
      BY <1>0, <2>1 DEF TypeOK
  <1>2. CASE Backend # "local"
    <2>1. dir' = dir /\ bucket' = Kept(bucket)
      BY <1>2 DEF KeepInStorage, Kept
    <2> QED
      BY <1>0, <2>1 DEF TypeOK
  <1> QED
    BY <1>1, <1>2

LEMMA StorageType ==
  ASSUME TypeOK, NEW r \in Run
  PROVE  Storage(r) \in [files : SUBSET File, status : Status]
  BY DEF TypeOK, Storage

LEMMA NextInQueueType ==
  ASSUME NEW todo \in [Run -> Nat], NEW done \in SUBSET Run,
         NextInQueue(todo, done)
  PROVE  /\ worker' \in [pc : {"boot", "idle", "drain", "cascade"},
                         todo : [Run -> Nat]]
         /\ tried' \subseteq Run
  BY DEF NextInQueue

\* The steps of the runner and of the stale watcher.
LEMMA RunnerType ==
  ASSUME TypeOK, NEW r \in Run, RunnerStep(r) \/ DeleteStaleLiveRuns(r)
  PROVE  TypeOK'
  <1> USE RunIndexAssumption
  <1>1. CASE BeginRun(r)
    BY <1>1 DEF BeginRun, TypeOK, dbVars, indexerVars, deleterVars, boundVars,
                File, Status
  <1>2. CASE WriteInitialConfig(r)
    <2>1. dir' \in [Run -> [files : SUBSET File, status : Status]]
      BY <1>2, WriteFileType DEF WriteInitialConfig, File, Status
    <2> QED
      BY <1>2, <2>1 DEF WriteInitialConfig, TypeOK, dbVars, indexerVars,
                        deleterVars, boundVars
  <1>3. CASE WriteStepResults(r)
    BY <1>3 DEF WriteStepResults, TypeOK, dbVars, indexerVars, deleterVars,
                boundVars, File
  <1>4. CASE WriteRunResult(r)
    <2>1. dir' \in [Run -> [files : SUBSET File, status : Status]]
      BY <1>4, WriteFileType DEF WriteRunResult, File, TypeOK
    <2> QED
      BY <1>4, <2>1 DEF WriteRunResult, TypeOK, dbVars, indexerVars,
                        deleterVars, boundVars
  <1>5. CASE WriteFinalConfig(r)
    <2>1. dir' \in [Run -> [files : SUBSET File, status : Status]]
      BY <1>5, WriteFileType DEF WriteFinalConfig, File, Status
    <2> QED
      BY <1>5, <2>1 DEF WriteFinalConfig, TypeOK, dbVars, indexerVars,
                        deleterVars, boundVars
  <1>6. CASE WriteBlockLogs(r)
    <2>1. dir' \in [Run -> [files : SUBSET File, status : Status]]
      BY <1>6, WriteFileType DEF WriteBlockLogs, File, TypeOK
    <2> QED
      BY <1>6, <2>1 DEF WriteBlockLogs, TypeOK, dbVars, indexerVars,
                        deleterVars, boundVars
  <1>7. CASE AbandonRun(r)
    BY <1>7 DEF AbandonRun, TypeOK, dbVars, indexerVars, deleterVars, boundVars
  <1>8. CASE EndRun(r)
    BY <1>8 DEF EndRun, TypeOK, dbVars, indexerVars, deleterVars, boundVars
  <1>9. CASE UploadSuiteDir(r)
    BY <1>9 DEF UploadSuiteDir, TypeOK, dbVars, indexerVars, deleterVars,
                boundVars
  <1>10. CASE KillRunner(r)
    BY <1>10 DEF KillRunner, TypeOK, dbVars, indexerVars, deleterVars, boundVars
  <1>11. CASE UpsertLiveRun(r)
    BY <1>11 DEF UpsertLiveRun, TypeOK, storageVars, indexerVars, deleterVars,
                 boundVars
  <1>12. CASE \E f \in File : UploadFile(r, f)
    BY <1>12 DEF UploadFile, TypeOK, dbVars, indexerVars, deleterVars, boundVars
  <1>13. CASE DeleteStaleLiveRuns(r)
    BY <1>13 DEF DeleteStaleLiveRuns, TypeOK, storageVars, indexerVars,
                 deleterVars, boundVars
  <1> QED
    BY <1>1, <1>2, <1>3, <1>4, <1>5, <1>6, <1>7, <1>8, <1>9, <1>10, <1>11,
       <1>12, <1>13 DEF RunnerStep

\* The steps of the indexer.
LEMMA PassType ==
  ASSUME TypeOK, NEW t \in Thread, StartPass(t) \/ PassStep(t)
  PROVE  TypeOK'
  <1> USE DEF PassAt, IdlePass
  <1>1. CASE StartPass(t)
    BY <1>1 DEF StartPass, TypeOK, storageVars, dbVars, deleterVars, boundVars
  <1>2. CASE ListStorageRunIDs(t)
    BY <1>2 DEF ListStorageRunIDs, TypeOK, storageVars, dbVars, deleterVars,
                boundVars
  <1>3. CASE ListIndexedRunIDs(t)
    BY <1>3 DEF ListIndexedRunIDs, TypeOK, storageVars, dbVars, deleterVars,
                boundVars
  <1>4. CASE ListIncompleteRunIDs(t)
    BY <1>4 DEF ListIncompleteRunIDs, TypeOK, storageVars, dbVars, deleterVars,
                boundVars, TaskAt, NoTask, Status
  <1>5. CASE ListFails(t)
    BY <1>5 DEF ListFails, TypeOK, storageVars, dbVars, deleterVars, boundVars
  <1>6. CASE FinishPass(t)
    BY <1>6 DEF FinishPass, TypeOK, storageVars, dbVars, deleterVars, boundVars
  <1> QED
    BY <1>1, <1>2, <1>3, <1>4, <1>5, <1>6 DEF PassStep

LEMMA TaskStepType ==
  ASSUME TypeOK, NEW t \in Thread, NEW r \in Run, TaskStep(t, r)
  PROVE  TypeOK'
  <1> USE DEF TaskAt, NoTask
  <1>1. CASE StartTask(t, r)
    BY <1>1 DEF StartTask, TypeOK, storageVars, dbVars, deleterVars, boundVars,
                Status
  <1>2. CASE ConfigMissing(t, r)
    BY <1>2 DEF ConfigMissing, EndTask, TypeOK, storageVars, dbVars,
                deleterVars, boundVars, Status
  <1>3. CASE UpsertSuite(t, r)
    <2>1. suites' \subseteq Suite
      BY <1>3 DEF UpsertSuite, TypeOK
    <2> QED
      BY <1>3, <2>1 DEF UpsertSuite, SetTask, TypeOK, storageVars, deleterVars,
                        boundVars
  <1>4. CASE UpsertRun(t, r)
    BY <1>4 DEF UpsertRun, SetTask, TypeOK, storageVars, deleterVars, boundVars
  <1>5. CASE UpsertRunFails(t, r)
    BY <1>5 DEF UpsertRunFails, EndTask, TypeOK, storageVars, dbVars,
                deleterVars, boundVars, Status
  <1>6. CASE DeleteLiveRun(t, r)
    BY <1>6 DEF DeleteLiveRun, SetTask, TypeOK, storageVars, deleterVars,
                boundVars
  <1>7. CASE ReplaceTestStats(t, r)
    BY <1>7 DEF ReplaceTestStats, SetTask, TypeOK, storageVars, deleterVars,
                boundVars
  <1>8. CASE ReplaceTestStatsBlockLogs(t, r)
    BY <1>8 DEF ReplaceTestStatsBlockLogs, EndTask, TypeOK, storageVars,
                deleterVars, boundVars, Status
  <1>9. CASE \E f \in RunFile : ReadFile(t, r, f)
    <2>1. PICK f \in RunFile : ReadFile(t, r, f)
      BY <1>9
    <2>2. Storage(r).status \in Status
      BY StorageType
    <2>3. task' \in [Thread -> [Run ->
            [pc : {"none", "queued", "read", "upsert", "live", "stats", "logs"},
             unread : SUBSET RunFile, seen : SUBSET RunFile,
             status : Status]]]
      BY <2>1, <2>2 DEF ReadFile, TypeOK
    <2> QED
      BY <2>1, <2>3 DEF ReadFile, TypeOK, storageVars, dbVars, deleterVars,
                        boundVars
  <1> QED
    BY <1>1, <1>2, <1>3, <1>4, <1>5, <1>6, <1>7, <1>8, <1>9 DEF TaskStep

\* The steps of the administrator, of the run deleter and of a restart.
LEMMA RequestType ==
  ASSUME TypeOK, NEW r \in Run, RequestStep(r)
  PROVE  TypeOK'
  <1>1. CASE StampRequest(r)
    <2>1. requests' \in Nat /\ marking' \subseteq Run \X Nat
      BY <1>1 DEF StampRequest, TypeOK
    <2> QED
      BY <1>1, <2>1 DEF StampRequest, TypeOK, storageVars, dbVars, indexerVars
  <1>2. ASSUME NEW at \in 1..MaxRequests, MarkRunForDeletion(r, at)
        PROVE  TypeOK'
    <2>1. at \in Nat
      BY RunIndexAssumption
    <2>2. /\ reqAt' \in [Run -> Nat] /\ delErr' \in [Run -> BOOLEAN]
          /\ since' \in [Run -> Nat]
      <3>1. /\ reqAt \in [Run -> Nat] /\ delErr \in [Run -> BOOLEAN]
            /\ since \in [Run -> Nat] /\ requests \in Nat
        BY DEF TypeOK
      <3>2. CASE UNCHANGED <<reqAt, delErr, since>>
        BY <3>1, <3>2
      <3>3. CASE Enqueue(r, at)
        BY <2>1, <3>1, <3>3 DEF Enqueue
      <3> QED
        BY <1>2, <3>2, <3>3 DEF MarkRunForDeletion
    <2>3. marking' \subseteq Run \X Nat /\ kick' \in BOOLEAN
      BY <1>2 DEF MarkRunForDeletion, TypeOK
    <2> QED
      BY <1>2, <2>2, <2>3 DEF MarkRunForDeletion, TypeOK, storageVars,
                              indexerVars, boundVars
  <1>3. CASE UnmarkRunForDeletion(r)
    BY <1>3 DEF UnmarkRunForDeletion, TypeOK, storageVars, indexerVars,
                boundVars
  <1> QED
    BY <1>1, <1>2, <1>3 DEF RequestStep

LEMMA DeleterType ==
  ASSUME TypeOK, DeleterStep
  PROVE  TypeOK'
  <1> DEFINE WorkerOK == /\ worker \in [pc : {"boot", "idle", "drain", "cascade"},
                                        todo : [Run -> Nat]]
                         /\ tried \subseteq Run
  <1>1. CASE ListRunsPendingDeletion
    <2>1. WorkerOK'
      BY <1>1, NextInQueueType DEF ListRunsPendingDeletion, TypeOK
    <2> QED
      BY <1>1, <2>1 DEF ListRunsPendingDeletion, TypeOK, storageVars, dbVars,
                        indexerVars, boundVars
  <1>2. ASSUME NEW r \in Run, DeleteRunFromStorage(r) PROVE TypeOK'
    BY <1>2, KeepInStorageType DEF DeleteRunFromStorage, TypeOK, dbVars,
                                   indexerVars, boundVars
  <1>3. ASSUME NEW r \in Run, Dequeue(r) PROVE WorkerOK'
    <2>1. /\ [worker.todo EXCEPT ![r] = 0] \in [Run -> Nat]
          /\ tried \cup {r} \in SUBSET Run
      BY DEF TypeOK
    <2> QED
      BY <1>3, <2>1, NextInQueueType DEF Dequeue
  <1>4. ASSUME NEW r \in Run, StorageDeleteFails(r) PROVE TypeOK'
    <2>1. Storage(r).files \subseteq File
      BY StorageType
    <2>2. /\ dir' \in [Run -> [files : SUBSET File, status : Status]]
          /\ bucket' \in [Run -> [files : SUBSET File, status : Status]]
      BY <1>4, <2>1, KeepInStorageType DEF StorageDeleteFails
    <2> QED
      BY <1>3, <1>4, <2>2 DEF StorageDeleteFails, SetRunDeletionError, TypeOK,
                              indexerVars, boundVars
  <1>5. ASSUME NEW r \in Run, DeleteRunCascade(r) PROVE TypeOK'
    BY <1>3, <1>5 DEF DeleteRunCascade, NoRow, Status, TypeOK, storageVars,
                      indexerVars, boundVars
  <1>6. ASSUME NEW r \in Run, CascadeFails(r) PROVE TypeOK'
    BY <1>3, <1>6 DEF CascadeFails, SetRunDeletionError, TypeOK, storageVars,
                      indexerVars, boundVars
  <1> QED
    BY <1>1, <1>2, <1>4, <1>5, <1>6 DEF DeleterStep

LEMMA RestartType ==
  ASSUME TypeOK, Restart
  PROVE  TypeOK'
  <1> DEFINE DirsOK ==
        /\ dir \in [Run -> [files : SUBSET File, status : Status]]
        /\ bucket \in [Run -> [files : SUBSET File, status : Status]]
  <1>1. DirsOK'
    <2>1. CASE UNCHANGED <<dir, bucket>>
      BY <2>1 DEF TypeOK
    <2>2. ASSUME NEW r \in Run, NEW keep \in SUBSET Storage(r).files,
                 KeepInStorage(r, keep)
          PROVE  DirsOK'
      <3>1. Storage(r).files \subseteq File
        BY StorageType
      <3> QED
        BY <2>2, <3>1, KeepInStorageType
    <2> QED
      BY <2>1, <2>2 DEF Restart
  <1>2. NoTask \in [pc : {"none", "queued", "read", "upsert", "live", "stats",
                          "logs"},
                    unread : SUBSET RunFile, seen : SUBSET RunFile,
                    status : Status]
    BY DEF NoTask, TaskAt, Status
  <1>3. restarts' \in Nat
    BY DEF Restart, TypeOK
  <1>4. task' \in [Thread -> [Run ->
            [pc : {"none", "queued", "read", "upsert", "live", "stats", "logs"},
             unread : SUBSET RunFile, seen : SUBSET RunFile,
             status : Status]]]
    BY <1>2 DEF Restart
  <1>5. worker' \in [pc : {"boot", "idle", "drain", "cascade"},
                     todo : [Run -> Nat]]
    BY DEF Restart, EmptyTodo
  <1>6. pass' \in [Thread -> [pc : {"idle", "storage", "indexed", "incomplete",
                                   "work"},
                             found : SUBSET Run, indexed : SUBSET Run]]
    BY DEF Restart, IdlePass, PassAt
  <1> QED
    BY <1>1, <1>3, <1>4, <1>5, <1>6 DEF Restart, TypeOK, dbVars

LEMMA NextType ==
  ASSUME TypeOK, [Next]_vars
  PROVE  TypeOK'
  <1>1. CASE Next
    BY <1>1, RunnerType, PassType, TaskStepType, RequestType, DeleterType,
       RestartType DEF Next
  <1>2. CASE UNCHANGED vars
    BY <1>2 DEF TypeOK, vars, storageVars, dbVars, indexerVars, deleterVars,
                boundVars
  <1> QED
    BY <1>1, <1>2

\* Every variable keeps its type, for any number of runs, threads and restarts.
THEOREM TypeCorrect == Spec => []TypeOK
  <1> QED
    BY InitType, NextType, PTL DEF Spec

-----------------------------------------------------------------------------
(* The inductive invariant: the indexer and the run deleter never meet on a    *)
(* run, although they take no common lock.                                     *)

\* The part of the state that the indexer and the deleter work on.
coreVars == <<rows, row, reqAt, indexerVars, deleterVars>>

\* No config.json disappears from storage.
ConfigKept == \A q \in Run : "config" \in Storage(q).files
                             => "config" \in Storage(q).files'

-----------------------------------------------------------------------------
(* The runner only adds files. *)

LEMMA WriteFileKeeps ==
  ASSUME TypeOK, NEW r \in Run, NEW f, NEW s, WriteFile(r, f, s), NEW q \in Run
  PROVE  /\ dir[q].files \subseteq dir'[q].files
         /\ q # r => dir'[q] = dir[q]
  BY DEF TypeOK, WriteFile

\* A step of the runner that fills its directory leaves the invariant's parts
\* about directories alone.
LEMMA GrowingDirs ==
  ASSUME TypeOK, DirInv,
         \A q \in Run : dir[q].files \subseteq dir'[q].files,
         \A q \in Run : bucket[q].files \subseteq bucket'[q].files,
         \A q \in Run : phase'[q] = "none" => /\ phase[q] = "none"
                                             /\ dir'[q].files = dir[q].files
  PROVE  DirInv' /\ ConfigKept
  BY DEF DirInv, ConfigKept, Storage

LEMMA RunnerFrame ==
  ASSUME TypeOK, DirInv, NEW r \in Run, RunnerStep(r) \/ DeleteStaleLiveRuns(r)
  PROVE  UNCHANGED coreVars /\ DirInv' /\ ConfigKept
  <1> USE DEF coreVars, dbVars
  <1>1. UNCHANGED coreVars
    BY DEF RunnerStep, BeginRun, WriteInitialConfig, WriteStepResults,
           WriteRunResult, WriteFinalConfig, WriteBlockLogs, AbandonRun, EndRun,
           UploadFile, UploadSuiteDir, KillRunner, UpsertLiveRun,
           DeleteStaleLiveRuns
  <1> DEFINE Grows ==
        /\ \A q \in Run : dir[q].files \subseteq dir'[q].files
        /\ \A q \in Run : bucket[q].files \subseteq bucket'[q].files
        /\ \A q \in Run : phase'[q] = "none" => /\ phase[q] = "none"
                                               /\ dir'[q].files = dir[q].files
  <1>2. ASSUME BeginRun(r) PROVE Grows
    BY <1>2 DEF BeginRun, TypeOK, DirInv
  <1>3. ASSUME WriteInitialConfig(r) PROVE Grows
    BY <1>3, WriteFileKeeps DEF WriteInitialConfig, TypeOK
  <1>4. ASSUME WriteStepResults(r) PROVE Grows
    BY <1>4 DEF WriteStepResults, TypeOK
  <1>5. ASSUME WriteRunResult(r) PROVE Grows
    BY <1>5, WriteFileKeeps DEF WriteRunResult, TypeOK
  <1>6. ASSUME WriteFinalConfig(r) PROVE Grows
    BY <1>6, WriteFileKeeps DEF WriteFinalConfig, TypeOK
  <1>7. ASSUME WriteBlockLogs(r) PROVE Grows
    BY <1>7, WriteFileKeeps DEF WriteBlockLogs, TypeOK
  <1>8. ASSUME \E f \in File : UploadFile(r, f) PROVE Grows
    BY <1>8 DEF UploadFile, TypeOK
  <1>9. ASSUME \/ AbandonRun(r) \/ EndRun(r)
               \/ UploadSuiteDir(r) \/ KillRunner(r)
        PROVE  Grows
    BY <1>9 DEF AbandonRun, EndRun, UploadSuiteDir, KillRunner, TypeOK
  <1>10. ASSUME UpsertLiveRun(r) \/ DeleteStaleLiveRuns(r) PROVE Grows
    BY <1>10 DEF UpsertLiveRun, DeleteStaleLiveRuns, TypeOK, storageVars
  <1>11. Grows
    BY <1>2, <1>3, <1>4, <1>5, <1>6, <1>7, <1>8, <1>9, <1>10 DEF RunnerStep
  <1> QED
    BY <1>1, <1>11, GrowingDirs

\* What the indexer and the deleter know of each other survives any step that
\* only adds files.
LEMMA CoreFrame ==
  ASSUME PassInv, ListingInv, TaskInv, QueueInv, UNCHANGED coreVars, ConfigKept
  PROVE  PassInv' /\ ListingInv' /\ TaskInv' /\ QueueInv'
  <1> USE DEF coreVars, indexerVars, deleterVars
  <1>1. PassInv' /\ ListingInv' /\ QueueInv'
    BY DEF PassInv, ListingInv, QueueInv, Busy
  <1>2. TaskInv'
    BY DEF TaskInv, ConfigKept, Writing
  <1> QED
    BY <1>1, <1>2

-----------------------------------------------------------------------------
(* The steps of the indexer. *)

LEMMA PassPreserves ==
  ASSUME IndexInv, NEW t \in Thread, StartPass(t) \/ PassStep(t)
  PROVE  PassInv' /\ ListingInv' /\ TaskInv' /\ QueueInv' /\ DirInv'
  <1> USE DEF IndexInv, PassAt, IdlePass
  <1>0. /\ TypeOK /\ PassInv /\ ListingInv /\ TaskInv /\ QueueInv /\ DirInv
        /\ UNCHANGED <<storageVars, dbVars, dbMu, deleterVars>>
    BY DEF StartPass, PassStep, ListStorageRunIDs, ListIndexedRunIDs,
           ListIncompleteRunIDs, ListFails, FinishPass
  <1>1. QueueInv' /\ DirInv'
    BY <1>0 DEF QueueInv, DirInv, storageVars, dbVars, deleterVars
  <1>2. ASSUME task' = task
        PROVE  TaskInv'
    BY <1>0, <1>2 DEF TaskInv, Writing, Storage, storageVars, dbVars
  <1>3. CASE StartPass(t)
    <2>1. PassInv' /\ ListingInv'
      BY <1>0, <1>3 DEF StartPass, TypeOK, PassInv, ListingInv, Busy, dbVars
    <2> QED
      BY <1>1, <1>2, <1>3, <2>1 DEF StartPass
  <1>4. CASE ListStorageRunIDs(t)
    <2>1. PassInv' /\ ListingInv'
      BY <1>0, <1>4 DEF ListStorageRunIDs, TypeOK, PassInv, ListingInv, Busy,
                        dbVars
    <2> QED
      BY <1>1, <1>2, <1>4, <2>1 DEF ListStorageRunIDs
  <1>5. CASE ListIndexedRunIDs(t)
    <2>1. PassInv' /\ ListingInv'
      BY <1>0, <1>5 DEF ListIndexedRunIDs, TypeOK, PassInv, ListingInv, Busy,
                        dbVars
    <2> QED
      BY <1>1, <1>2, <1>5, <2>1 DEF ListIndexedRunIDs
  <1>6. CASE ListFails(t)
    <2>1. PassInv' /\ ListingInv'
      BY <1>0, <1>6 DEF ListFails, TypeOK, PassInv, ListingInv, Busy, dbVars
    <2> QED
      BY <1>1, <1>2, <1>6, <2>1 DEF ListFails
  <1>7. CASE FinishPass(t)
    <2>1. PassInv' /\ ListingInv'
      BY <1>0, <1>7 DEF FinishPass, TypeOK, PassInv, ListingInv, Busy, dbVars
    <2> QED
      BY <1>1, <1>2, <1>7, <2>1 DEF FinishPass
  <1>8. CASE ListIncompleteRunIDs(t)
    <2>1. PassInv' /\ ListingInv'
      BY <1>0, <1>8 DEF ListIncompleteRunIDs, TypeOK, PassInv, ListingInv,
                        Busy, dbVars
    <2>2. ASSUME NEW u \in Thread, NEW r \in Run, Writing(u, r)', r \in rows
          PROVE  u = t /\ r \in Incomplete
      <3>1. u = t
        <4>1. u # t => task'[u] = task[u]
          BY <1>0, <1>8 DEF ListIncompleteRunIDs, TypeOK
        <4>2. ~Writing(u, r) \/ pass[u].pc = "work"
          BY <1>0 DEF PassInv, Busy, Writing
        <4>3. pass[t].pc = "incomplete"
          BY <1>8 DEF ListIncompleteRunIDs
        <4> QED
          BY <1>0, <2>2, <4>1, <4>2, <4>3 DEF PassInv, Writing
      <3>2. r \notin pass[t].indexed \/ r \in Incomplete
        BY <1>0, <1>8, <2>2, <3>1 DEF ListIncompleteRunIDs, TypeOK, Writing,
                                      NoTask, TaskAt
      <3> QED
        BY <1>0, <1>8, <2>2, <3>1, <3>2 DEF ListIncompleteRunIDs, ListingInv
    <2>3. ASSUME NEW r \in Incomplete
          PROVE  row[r].status = RunStatusRunning /\ ~row[r].result
      BY <1>0 DEF Incomplete, TypeOK, Status
    <2>4. ASSUME NEW u \in Thread, NEW r \in Run
          PROVE  \/ task'[u][r] = task[u][r]
                 \/ task'[u][r].seen = {} /\ task'[u][r].pc # "upsert"
      BY <1>0, <1>8 DEF ListIncompleteRunIDs, TypeOK, NoTask, TaskAt
    <2>5. TaskInv'
      BY <1>0, <2>2, <2>3, <2>4 DEF TaskInv, Writing, Storage, storageVars,
                                    dbVars
    <2> QED
      BY <1>1, <2>1, <2>5
  <1> QED
    BY <1>3, <1>4, <1>5, <1>6, <1>7, <1>8 DEF PassStep

\* Two tasks on one run belong to one thread.
LEMMA PassExclusion ==
  ASSUME PassInv, NEW t \in Thread, NEW u \in Thread, NEW r \in Run,
         Busy(t, r), Busy(u, r)
  PROVE  t = u
  BY DEF PassInv

\* A step of a task that writes no row moves it along without harm, if what the
\* task has seen stays backed by storage.
LEMMA TaskMoves ==
  ASSUME IndexInv, NEW t \in Thread, NEW r \in Run, Busy(t, r),
         NEW new, task' = [task EXCEPT ![t][r] = new],
         UNCHANGED <<storageVars, rows, row, reqAt, running, pass, worker>>,
         new.pc \in {"queued", "read", "upsert"} => Writing(t, r),
         new.pc \in {"queued", "read", "upsert"} /\ "config" \in new.seen
           => "config" \in task[t][r].seen \/ "config" \in Storage(r).files,
         new.pc = "upsert" => "config" \in new.seen
  PROVE  PassInv' /\ ListingInv' /\ TaskInv' /\ QueueInv' /\ DirInv'
  <1> USE DEF IndexInv
  <1>1. ListingInv' /\ QueueInv' /\ DirInv'
    BY DEF ListingInv, QueueInv, DirInv, storageVars
  <1>2. \A u \in Thread, q \in Run :
          task'[u][q] = IF u = t /\ q = r THEN new ELSE task[u][q]
    BY DEF TypeOK
  <1>3. PassInv'
    BY <1>2 DEF PassInv, Busy
  <1>4. \A q \in Run : Storage(q)' = Storage(q)
    BY DEF Storage, storageVars
  <1>5. TaskInv'
    BY <1>2, <1>4 DEF TaskInv, Writing
  <1> QED
    BY <1>1, <1>3, <1>5

LEMMA TaskPreserves ==
  ASSUME IndexInv, NEW t \in Thread, NEW r \in Run, TaskStep(t, r)
  PROVE  PassInv' /\ ListingInv' /\ TaskInv' /\ QueueInv' /\ DirInv'
  <1> USE DEF TaskAt, NoTask, dbVars, deleterVars
  <1>0. TypeOK /\ PassInv /\ ListingInv /\ TaskInv /\ QueueInv /\ DirInv
    BY DEF IndexInv
  <1>1. CASE StartTask(t, r)
    <2>1. Busy(t, r) /\ Writing(t, r)
      BY <1>1 DEF StartTask, Busy, Writing
    <2> DEFINE new == TaskAt("read", RunFile, {}, NoStatus)
    <2>2. task' = [task EXCEPT ![t][r] = new]
      BY <1>1 DEF StartTask
    <2>3. UNCHANGED <<storageVars, rows, row, reqAt, running, pass, worker>>
      BY <1>1 DEF StartTask
    <2> QED
      BY <2>1, <2>2, <2>3, TaskMoves
  <1>2. CASE \E f \in RunFile : ReadFile(t, r, f)
    <2>1. PICK f \in RunFile : ReadFile(t, r, f)
      BY <1>2
    <2>2. PICK ok \in BOOLEAN :
            /\ ok => f \in Storage(r).files
            /\ task' = [task EXCEPT ![t][r] =
                 TaskAt("read", @.unread \ {f},
                        IF ok THEN @.seen \cup {f} ELSE @.seen,
                        IF ok /\ f = "config" THEN Storage(r).status
                                              ELSE @.status)]
      BY <2>1 DEF ReadFile
    <2> DEFINE was == task[t][r]
               new == TaskAt("read", was.unread \ {f},
                             IF ok THEN was.seen \cup {f} ELSE was.seen,
                             IF ok /\ f = "config" THEN Storage(r).status
                                                   ELSE was.status)
    <2>3. task' = [task EXCEPT ![t][r] = new]
      BY <1>0, <2>2 DEF TypeOK
    <2>4. "config" \in new.seen
            => "config" \in was.seen \/ "config" \in Storage(r).files
      BY <2>2
    <2>5. Busy(t, r) /\ Writing(t, r)
      BY <2>1 DEF ReadFile, Busy, Writing
    <2>6. UNCHANGED <<storageVars, rows, row, reqAt, running, pass, worker>>
      BY <2>1 DEF ReadFile
    <2>7. new.pc = "read"
      OBVIOUS
    <2> HIDE DEF new
    <2> QED
      BY <2>3, <2>4, <2>5, <2>6, <2>7, TaskMoves
  <1>3. CASE ConfigMissing(t, r) \/ UpsertRunFails(t, r)
    <2>1. task' = [task EXCEPT ![t][r] = NoTask]
      BY <1>3 DEF ConfigMissing, UpsertRunFails, EndTask
    <2>2. Busy(t, r)
      BY <1>3 DEF ConfigMissing, UpsertRunFails, Busy
    <2>3. UNCHANGED <<storageVars, rows, row, reqAt, running, pass, worker>>
      BY <1>3 DEF ConfigMissing, UpsertRunFails
    <2> QED
      BY <2>1, <2>2, <2>3, TaskMoves
  <1>4. CASE UpsertSuite(t, r)
    <2> DEFINE was == task[t][r]
               new == TaskAt("upsert", was.unread, was.seen, was.status)
    <2>1. task' = [task EXCEPT ![t][r] = new]
      BY <1>0, <1>4 DEF UpsertSuite, SetTask, TypeOK
    <2>2. Busy(t, r) /\ Writing(t, r) /\ "config" \in was.seen
      BY <1>4 DEF UpsertSuite, Busy, Writing
    <2>3. UNCHANGED <<storageVars, rows, row, reqAt, running, pass, worker>>
      BY <1>4 DEF UpsertSuite
    <2>4. new.seen = was.seen
      OBVIOUS
    <2> HIDE DEF new
    <2> QED
      BY <2>1, <2>2, <2>3, <2>4, TaskMoves
  <1>5. CASE \/ DeleteLiveRun(t, r) \/ ReplaceTestStats(t, r)
             \/ ReplaceTestStatsBlockLogs(t, r)
    <2> DEFINE was == task[t][r]
               Moved(pc) == TaskAt(pc, was.unread, was.seen, was.status)
    <2>1. PICK new : /\ task' = [task EXCEPT ![t][r] = new]
                     /\ new.pc \in {"none", "stats", "logs"}
      <3>1. ASSUME NEW pc, SetTask(t, r, pc)
            PROVE  task' = [task EXCEPT ![t][r] = Moved(pc)]
        BY <1>0, <3>1 DEF SetTask, TypeOK
      <3>2. CASE DeleteLiveRun(t, r)
        <4>1. task' = [task EXCEPT ![t][r] = Moved("stats")]
          BY <3>1, <3>2 DEF DeleteLiveRun
        <4>2. Moved("stats").pc = "stats"
          OBVIOUS
        <4> QED
          BY <4>1, <4>2
      <3>3. CASE ReplaceTestStats(t, r)
        <4>1. task' = [task EXCEPT ![t][r] = Moved("logs")]
          BY <3>1, <3>3 DEF ReplaceTestStats
        <4>2. Moved("logs").pc = "logs"
          OBVIOUS
        <4> QED
          BY <4>1, <4>2
      <3>4. CASE ReplaceTestStatsBlockLogs(t, r)
        <4>1. task' = [task EXCEPT ![t][r] = NoTask]
          BY <3>4 DEF ReplaceTestStatsBlockLogs, EndTask
        <4>2. NoTask.pc = "none"
          OBVIOUS
        <4> QED
          BY <4>1, <4>2
      <3> QED
        BY <1>5, <3>2, <3>3, <3>4
    <2>2. Busy(t, r)
      BY <1>5 DEF DeleteLiveRun, ReplaceTestStats, ReplaceTestStatsBlockLogs,
                  Busy
    <2>3. UNCHANGED <<storageVars, rows, row, reqAt, running, pass, worker>>
      BY <1>5 DEF DeleteLiveRun, ReplaceTestStats, ReplaceTestStatsBlockLogs
    <2> QED
      BY <2>1, <2>2, <2>3, TaskMoves
  <1>6. CASE UpsertRun(t, r)
    <2>1. /\ Busy(t, r) /\ Writing(t, r) /\ "config" \in task[t][r].seen
          /\ pass[t].pc = "work"
      BY <1>0, <1>6 DEF UpsertRun, Busy, Writing, TaskInv, PassInv
    <2>2. \A u \in Thread, q \in Run :
            /\ (u # t \/ q # r) => task'[u][q] = task[u][q]
            /\ task'[t][r].pc = "live"
      BY <1>0, <1>6 DEF UpsertRun, SetTask, TypeOK
    <2>3. UNCHANGED <<storageVars, reqAt, running, pass, worker>>
      BY <1>6 DEF UpsertRun
    <2>4. \A q \in Run : q # r => (q \in rows' <=> q \in rows)
                                /\ row'[q] = row[q]
      BY <1>0, <1>6 DEF UpsertRun, TypeOK
    <2>5. PassInv'
      BY <1>0, <2>1, <2>2, <2>3 DEF PassInv, Busy
    <2>6. ListingInv'
      BY <1>0, <2>1, <2>3 DEF ListingInv, PassInv
    <2>7. TaskInv'
      <3>1. \A u \in Thread, q \in Run : Writing(u, q)' => q # r /\ Writing(u, q)
        BY <2>1, <2>2, <1>0, PassExclusion DEF Writing, Busy
      <3> QED
        BY <1>0, <2>2, <2>3, <2>4, <3>1 DEF TaskInv, Storage, storageVars
    <2>8. QueueInv'
      <3>1. reqAt[r] = 0 /\ worker.todo[r] = 0
        BY <1>0, <2>1 DEF QueueInv, TaskInv
      <3> QED
        BY <1>0, <2>3, <2>4, <3>1 DEF QueueInv
    <2>9. DirInv'
      BY <1>0, <2>3 DEF DirInv, storageVars
    <2> QED
      BY <2>5, <2>6, <2>7, <2>8, <2>9
  <1> QED
    BY <1>1, <1>2, <1>3, <1>4, <1>5, <1>6 DEF TaskStep

-----------------------------------------------------------------------------
(* The steps of the administrator, of the run deleter and of a restart. *)

\* The deleter never has a run in hand that a task is about to write.
LEMMA DeleterAvoidsTasks ==
  ASSUME TaskInv, QueueInv, NEW r \in Run, reqAt[r] # 0 \/ worker.todo[r] # 0
  PROVE  r \in rows /\ \A t \in Thread : ~Writing(t, r)
  BY DEF TaskInv, QueueInv

LEMMA RequestPreserves ==
  ASSUME IndexInv, NEW r \in Run, RequestStep(r)
  PROVE  PassInv' /\ ListingInv' /\ TaskInv' /\ QueueInv' /\ DirInv'
  <1> USE DEF IndexInv
  <1>1. UNCHANGED <<storageVars, rows, row, indexerVars, worker>>
    BY DEF RequestStep, StampRequest, MarkRunForDeletion, Enqueue,
                UnmarkRunForDeletion, dbVars
  <1>2. PassInv' /\ ListingInv' /\ TaskInv' /\ DirInv'
    BY <1>1 DEF PassInv, ListingInv, TaskInv, DirInv, Busy, Writing, Storage,
                storageVars, indexerVars
  <1>3. ASSUME NEW q \in Run, reqAt'[q] # 0
        PROVE  reqAt[q] # 0 \/ (q \in rows /\ row[q].status # RunStatusRunning)
    BY <1>3 DEF RequestStep, StampRequest, MarkRunForDeletion, Enqueue,
                UnmarkRunForDeletion, dbVars, TypeOK
  <1>4. QueueInv'
    BY <1>1, <1>3 DEF QueueInv
  <1> QED
    BY <1>2, <1>4

\* A storage delete adds no file.
LEMMA DirsShrink ==
  ASSUME TypeOK, NEW r \in Run, NEW keep \in SUBSET Storage(r).files,
         KeepInStorage(r, keep), NEW q \in Run
  PROVE  dir'[q].files \subseteq dir[q].files
  <1>1. CASE Backend = "local"
    <2>1. /\ dir' = [dir EXCEPT ![r] = [files |-> keep, status |-> @.status]]
          /\ keep \subseteq dir[r].files
      BY <1>1 DEF KeepInStorage, Storage
    <2>2. dir'[r].files = keep /\ (q # r => dir'[q] = dir[q])
      BY <2>1 DEF TypeOK
    <2> QED
      BY <2>1, <2>2
  <1>2. CASE Backend # "local"
    BY <1>2 DEF KeepInStorage
  <1> QED
    BY <1>1, <1>2

\* Deleting files of a run that no task is about to write.
LEMMA DeletedFiles ==
  ASSUME TypeOK, TaskInv, QueueInv, DirInv, NEW r \in Run,
         NEW keep \in SUBSET Storage(r).files,
         worker.todo[r] # 0, KeepInStorage(r, keep),
         UNCHANGED <<phase, rows, row, task>>
  PROVE  TaskInv' /\ DirInv'
  <1>1. \A q \in Run : q # r => Storage(q)' = Storage(q)
    BY DEF KeepInStorage, Storage, TypeOK
  <1>2. TaskInv'
    BY <1>1, DeleterAvoidsTasks DEF TaskInv, Writing
  <1>3. \A q \in Run : dir'[q].files \subseteq dir[q].files
    BY DirsShrink
  <1>4. DirInv'
    BY <1>3 DEF DirInv
  <1> QED
    BY <1>2, <1>4

LEMMA DeleterPreserves ==
  ASSUME IndexInv, DeleterStep
  PROVE  PassInv' /\ ListingInv' /\ TaskInv' /\ QueueInv' /\ DirInv'
  <1> USE DEF IndexInv
  <1>0. UNCHANGED <<phase, running, pass, task>>
    BY DEF DeleterStep, ListRunsPendingDeletion, DeleteRunFromStorage,
           StorageDeleteFails, DeleteRunCascade, CascadeFails, storageVars,
           indexerVars
  <1>1. PassInv'
    BY <1>0 DEF PassInv, Busy
  <1>2. ASSUME NEW r \in Run, Dequeue(r), NEW q \in Run, worker'.todo[q] # 0
        PROVE  q # r /\ worker.todo[q] # 0
    BY <1>2 DEF Dequeue, NextInQueue, TypeOK
  <1>3. CASE ListRunsPendingDeletion
    <2>1. UNCHANGED <<storageVars, rows, row, reqAt>> /\ worker'.todo = reqAt
      BY <1>3 DEF ListRunsPendingDeletion, NextInQueue, dbVars
    <2>2. ListingInv' /\ TaskInv' /\ DirInv'
      BY <1>0, <2>1 DEF ListingInv, TaskInv, DirInv, Writing, Storage,
                        storageVars
    <2>3. QueueInv'
      BY <2>1 DEF QueueInv
    <2> QED
      BY <1>1, <2>2, <2>3
  <1>4. ASSUME NEW r \in Run, DeleteRunFromStorage(r)
        PROVE  ListingInv' /\ TaskInv' /\ QueueInv' /\ DirInv'
    <2>1. /\ worker.todo[r] # 0 /\ KeepInStorage(r, {})
          /\ UNCHANGED <<rows, row, reqAt>> /\ worker'.todo = worker.todo
      BY <1>4 DEF DeleteRunFromStorage, IsCurrent, dbVars
    <2>2. TaskInv' /\ DirInv'
      BY <1>0, <2>1, DeletedFiles
    <2>3. ListingInv' /\ QueueInv'
      BY <1>0, <2>1 DEF ListingInv, QueueInv
    <2> QED
      BY <2>2, <2>3
  <1>5. ASSUME NEW r \in Run, StorageDeleteFails(r)
        PROVE  ListingInv' /\ TaskInv' /\ QueueInv' /\ DirInv'
    <2>1. /\ worker.todo[r] # 0 /\ UNCHANGED <<rows, row, reqAt>> /\ Dequeue(r)
          /\ \E keep \in SUBSET Storage(r).files : KeepInStorage(r, keep)
      BY <1>5 DEF StorageDeleteFails, IsCurrent
    <2>2. TaskInv' /\ DirInv'
      BY <1>0, <2>1, DeletedFiles
    <2>3. ListingInv' /\ QueueInv'
      BY <1>0, <1>2, <2>1 DEF ListingInv, QueueInv
    <2> QED
      BY <2>2, <2>3
  <1>6. ASSUME NEW r \in Run, CascadeFails(r)
        PROVE  ListingInv' /\ TaskInv' /\ QueueInv' /\ DirInv'
    <2>1. UNCHANGED <<storageVars, rows, row, reqAt>> /\ Dequeue(r)
      BY <1>6 DEF CascadeFails
    <2>2. ListingInv' /\ TaskInv' /\ DirInv'
      BY <1>0, <2>1 DEF ListingInv, TaskInv, DirInv, Writing, Storage,
                        storageVars
    <2>3. QueueInv'
      BY <1>2, <2>1 DEF QueueInv
    <2> QED
      BY <2>2, <2>3
  <1>7. ASSUME NEW r \in Run, DeleteRunCascade(r)
        PROVE  ListingInv' /\ TaskInv' /\ QueueInv' /\ DirInv'
    <2>1. /\ UNCHANGED storageVars /\ Dequeue(r) /\ worker.todo[r] # 0
          /\ rows' = rows \ {r}
          /\ \A q \in Run : q # r => row'[q] = row[q] /\ reqAt'[q] = reqAt[q]
          /\ reqAt'[r] = 0
      BY <1>7 DEF DeleteRunCascade, IsCurrent, TypeOK
    <2>2. ListingInv' /\ DirInv'
      BY <1>0, <2>1 DEF ListingInv, DirInv, storageVars
    <2>3. \A t \in Thread : ~Writing(t, r)
      BY <2>1, DeleterAvoidsTasks
    <2>4. TaskInv'
      BY <1>0, <2>1, <2>3 DEF TaskInv, Writing, Storage, storageVars
    <2>5. QueueInv'
      BY <1>2, <2>1 DEF QueueInv
    <2> QED
      BY <2>2, <2>4, <2>5
  <1> QED
    BY <1>1, <1>3, <1>4, <1>5, <1>6, <1>7 DEF DeleterStep

LEMMA RestartPreserves ==
  ASSUME IndexInv, Restart
  PROVE  PassInv' /\ ListingInv' /\ TaskInv' /\ QueueInv' /\ DirInv'
  <1> USE DEF IndexInv
  <1>1. /\ UNCHANGED <<phase, rows, row, reqAt>>
        /\ worker'.todo = EmptyTodo
        /\ \A t \in Thread : pass'[t] = IdlePass
        /\ \A t \in Thread, r \in Run : task'[t][r] = NoTask
    BY DEF Restart, dbVars
  <1>2. PassInv' /\ ListingInv' /\ TaskInv'
    BY <1>1 DEF PassInv, ListingInv, TaskInv, Busy, Writing, IdlePass, PassAt,
                NoTask, TaskAt
  <1>3. QueueInv'
    BY <1>1 DEF QueueInv, EmptyTodo
  <1>4. \A q \in Run : dir'[q].files \subseteq dir[q].files
    <2>1. ASSUME NEW r \in Run, NEW keep \in SUBSET Storage(r).files,
                 KeepInStorage(r, keep)
          PROVE  \A q \in Run : dir'[q].files \subseteq dir[q].files
      BY <2>1, DirsShrink
    <2> QED
      BY <2>1 DEF Restart
  <1>5. DirInv'
    BY <1>1, <1>4 DEF DirInv
  <1> QED
    BY <1>2, <1>3, <1>5

-----------------------------------------------------------------------------
(* The invariant. *)

LEMMA InitIndexInv == Init => IndexInv
  <1> SUFFICES ASSUME Init PROVE IndexInv
    OBVIOUS
  <1>1. TypeOK
    BY InitType
  <1>2. PassInv /\ ListingInv /\ TaskInv
    BY DEF Init, PassInv, ListingInv, TaskInv, Busy, Writing, IdlePass, PassAt,
           NoTask, TaskAt
  <1>3. QueueInv /\ DirInv
    BY DEF Init, QueueInv, DirInv, EmptyTodo, EmptyDir
  <1> QED
    BY <1>1, <1>2, <1>3 DEF IndexInv

LEMMA NextIndexInv ==
  ASSUME IndexInv, [Next]_vars
  PROVE  IndexInv'
  <1>0. TypeOK' /\ TypeOK /\ DirInv
    BY NextType DEF IndexInv
  <1>1. ASSUME NEW r \in Run, RunnerStep(r) \/ DeleteStaleLiveRuns(r)
        PROVE  PassInv' /\ ListingInv' /\ TaskInv' /\ QueueInv' /\ DirInv'
    BY <1>0, <1>1, RunnerFrame, CoreFrame DEF IndexInv
  <1>2. CASE UNCHANGED vars
    BY <1>2, <1>0, CoreFrame DEF IndexInv, vars, coreVars, dbVars, storageVars,
                                 ConfigKept, DirInv, Storage
  <1>3. CASE Next
    BY <1>0, <1>1, <1>3, PassPreserves, TaskPreserves, RequestPreserves,
       DeleterPreserves, RestartPreserves DEF Next, IndexInv
  <1> QED
    BY <1>2, <1>3

\* The invariant that keeps the indexer and the run deleter apart holds for any
\* number of runs, threads, restarts and failures.
THEOREM IndexInvariant == Spec => []IndexInv
  BY InitIndexInv, NextIndexInv, PTL DEF Spec

-----------------------------------------------------------------------------
(* What follows from it. *)

\* Only a task writes rows.
LEMMA RowWriter ==
  ASSUME TypeOK, [Next]_vars, NEW r \in Run, r \in rows',
         r \notin rows \/ row'[r] # row[r]
  PROVE  \E t \in Thread : UpsertRun(t, r)
  <1>1. CASE UNCHANGED vars
    BY <1>1 DEF vars, dbVars
  <1>2. ASSUME NEW q \in Run, RunnerStep(q) \/ DeleteStaleLiveRuns(q)
        PROVE  UNCHANGED <<rows, row>>
    BY <1>2 DEF RunnerStep, BeginRun, WriteInitialConfig, WriteStepResults,
           WriteRunResult, WriteFinalConfig, WriteBlockLogs, AbandonRun, EndRun,
           UploadFile, UploadSuiteDir, KillRunner, UpsertLiveRun,
           DeleteStaleLiveRuns, dbVars
  <1>3. ASSUME NEW q \in Run, RequestStep(q)
        PROVE  UNCHANGED <<rows, row>>
    BY <1>3 DEF RequestStep, StampRequest, MarkRunForDeletion, Enqueue,
                UnmarkRunForDeletion, dbVars
  <1>4. ASSUME NEW t \in Thread, StartPass(t) \/ PassStep(t)
        PROVE  UNCHANGED <<rows, row>>
    BY <1>4 DEF StartPass, PassStep, ListStorageRunIDs, ListIndexedRunIDs,
                ListIncompleteRunIDs, ListFails, FinishPass, dbVars
  <1>5. ASSUME NEW t \in Thread, NEW q \in Run, TaskStep(t, q)
        PROVE  UNCHANGED <<rows, row>> \/ UpsertRun(t, q)
    BY <1>5 DEF TaskStep, StartTask, ReadFile, ConfigMissing, UpsertSuite,
                UpsertRunFails, DeleteLiveRun, ReplaceTestStats,
                ReplaceTestStatsBlockLogs, dbVars
  <1>6. ASSUME NEW t \in Thread, NEW q \in Run, UpsertRun(t, q)
        PROVE  q = r
    BY <1>6 DEF UpsertRun, TypeOK
  <1>7. ASSUME DeleterStep \/ Restart
        PROVE  FALSE
    <2>1. ASSUME NEW q \in Run, DeleteRunCascade(q)
          PROVE  FALSE
      BY <2>1 DEF DeleteRunCascade, TypeOK
    <2>2. CASE UNCHANGED <<rows, row>>
      BY <2>2
    <2> QED
      BY <1>7, <2>1, <2>2 DEF DeleterStep, ListRunsPendingDeletion,
         DeleteRunFromStorage, StorageDeleteFails, CascadeFails, Restart, dbVars
  <1>8. CASE Next
    BY <1>2, <1>3, <1>4, <1>5, <1>6, <1>7, <1>8 DEF Next
  <1> QED
    BY <1>1, <1>8

\* Two passes never work on one run at the same time, whatever RunNow and the
\* ticker do.
THEOREM OneTask == Spec => []OneTaskPerRun
  <1>1. IndexInv => OneTaskPerRun
    BY PassExclusion DEF IndexInv, OneTaskPerRun
  <1> QED
    BY <1>1, IndexInvariant, PTL

\* A deleted run never comes back from files that are gone.
THEOREM InsertsAreBacked == Spec => InsertBacked
  <1>1. ASSUME IndexInv, [Next]_vars, NEW r \in Run, r \notin rows, r \in rows'
        PROVE  "config" \in Storage(r).files
    <2>1. PICK t \in Thread : UpsertRun(t, r)
      BY <1>1, RowWriter DEF IndexInv
    <2>2. Writing(t, r) /\ task[t][r].pc = "upsert"
      BY <2>1 DEF UpsertRun, Writing
    <2> QED
      BY <1>1, <2>2 DEF IndexInv, TaskInv
  <1>2. IndexInv /\ [Next]_vars
          => [\A r \in Run : r \notin rows /\ r \in rows'
                               => "config" \in Storage(r).files]_vars
    BY <1>1
  <1> QED
    BY <1>2, IndexInvariant, PTL DEF Spec, InsertBacked

\* The row of a run in the deletion queue is not written before the run is gone.
THEOREM QueuedRowsUntouched == Spec => QueuedRowUntouched
  <1>1. ASSUME IndexInv, [Next]_vars, NEW r \in rows, reqAt[r] # 0, r \in rows'
        PROVE  row'[r] = row[r]
    <2>1. ASSUME NEW t \in Thread, UpsertRun(t, r)
          PROVE  FALSE
      BY <1>1, <2>1, DeleterAvoidsTasks DEF IndexInv, TypeOK, UpsertRun, Writing
    <2> QED
      BY <1>1, <2>1, RowWriter DEF IndexInv, TypeOK
  <1>2. IndexInv /\ [Next]_vars
          => [\A r \in rows : reqAt[r] # 0 /\ r \in rows'
                                => row'[r] = row[r]]_vars
    BY <1>1
  <1> QED
    BY <1>2, IndexInvariant, PTL DEF Spec, QueuedRowUntouched

\* A row that has a result keeps its contents until the run is deleted.
THEOREM ResultsAreFinal == Spec => IndexedResultIsFinal
  <1>1. ASSUME IndexInv, [Next]_vars, NEW r \in rows, row[r].result, r \in rows'
        PROVE  row'[r] = row[r]
    <2>1. ASSUME NEW t \in Thread, UpsertRun(t, r)
          PROVE  FALSE
      BY <1>1, <2>1 DEF IndexInv, TypeOK, TaskInv, UpsertRun, Writing
    <2> QED
      BY <1>1, <2>1, RowWriter DEF IndexInv, TypeOK
  <1>2. IndexInv /\ [Next]_vars
          => [\A r \in rows : row[r].result /\ r \in rows'
                                => row'[r] = row[r]]_vars
    BY <1>1
  <1> QED
    BY <1>2, IndexInvariant, PTL DEF Spec, IndexedResultIsFinal

=============================================================================
