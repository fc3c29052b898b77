-------------------------- MODULE RunDeletion_proofs --------------------------
(***************************************************************************)
(* The deletion queue of RunIndex is first in, first out, whatever falls   *)
(* between the worker's steps; a row outlives the files of its run; and a  *)
(* row with a result gets its statistics. For any set of runs and threads. *)
(***************************************************************************)
EXTENDS RunIndex_proofs

\* What the queue is made of.
requestVars == <<reqAt, delErr, worker, marking, requests, since, tried>>

-----------------------------------------------------------------------------
(* Who writes the queue. *)

\* The runner, the stale watcher and the indexer leave it alone.
LEMMA OthersLeaveQueue ==
  ASSUME \/ \E r \in Run : RunnerStep(r) \/ DeleteStaleLiveRuns(r)
         \/ \E t \in Thread : StartPass(t) \/ PassStep(t)
         \/ \E t \in Thread, r \in Run : TaskStep(t, r)
  PROVE  UNCHANGED requestVars
  <1> USE DEF requestVars, dbVars, deleterVars, boundVars
  <1>1. ASSUME NEW r \in Run, RunnerStep(r) \/ DeleteStaleLiveRuns(r)
        PROVE  UNCHANGED requestVars
    BY <1>1 DEF RunnerStep, BeginRun, WriteInitialConfig, WriteStepResults,
           WriteRunResult, WriteFinalConfig, WriteBlockLogs, AbandonRun, EndRun,
           UploadFile, UploadSuiteDir, KillRunner, UpsertLiveRun,
           DeleteStaleLiveRuns
  <1>2. ASSUME NEW t \in Thread, StartPass(t) \/ PassStep(t)
        PROVE  UNCHANGED requestVars
    BY <1>2 DEF StartPass, PassStep, ListStorageRunIDs, ListIndexedRunIDs,
                ListIncompleteRunIDs, ListFails, FinishPass
  <1>3. ASSUME NEW t \in Thread, NEW r \in Run, TaskStep(t, r)
        PROVE  UNCHANGED requestVars
    BY <1>3 DEF TaskStep, StartTask, ReadFile, ConfigMissing, UpsertSuite,
                UpsertRun, UpsertRunFails, DeleteLiveRun, ReplaceTestStats,
                ReplaceTestStatsBlockLogs
  <1> QED
    BY <1>1, <1>2, <1>3

\* A step that takes one request off the worker's list, and nothing else, moves
\* the worker to its next request or to rest.
LEMMA DequeueTakes ==
  ASSUME TypeOK, NEW r \in Run, Dequeue(r)
  PROVE  /\ worker'.todo[r] = 0
         /\ \A q \in Run : q # r => worker'.todo[q] = worker.todo[q]
         /\ worker'.pc # "cascade"
         /\ worker'.pc \in {"boot", "idle"} => worker'.todo = EmptyTodo
         /\ \A q \in Run : worker'.todo[q] # 0 => tried' = tried \cup {r}
  <1>1. worker'.todo # EmptyTodo => tried' = tried \cup {r}
    BY DEF Dequeue, NextInQueue
  <1>2. \A q \in Run : worker'.todo[q] # 0 => worker'.todo # EmptyTodo
    BY DEF EmptyTodo
  <1> QED
    BY <1>1, <1>2 DEF Dequeue, NextInQueue, TypeOK

-----------------------------------------------------------------------------
(* Places and order. *)

LEMMA PlacesRequest ==
  ASSUME IndexInv, PlacesInv, OrderInv, NEW r \in Run, RequestStep(r)
  PROVE  PlacesInv' /\ OrderInv'
  <1>0. /\ TypeOK /\ requests \in Nat /\ marking \subseteq Run \X Nat
        /\ reqAt \in [Run -> Nat] /\ worker.todo \in [Run -> Nat]
        /\ since \in [Run -> Nat]
    BY DEF IndexInv, TypeOK
  <1>1. UNCHANGED <<worker, tried>>
    BY DEF RequestStep, StampRequest, MarkRunForDeletion, UnmarkRunForDeletion
  <1>2. CASE StampRequest(r)
    <2>1. /\ UNCHANGED <<reqAt, since>> /\ requests' = requests + 1
          /\ marking' = marking \cup {<<r, requests + 1>>}
      BY <1>2 DEF StampRequest, dbVars
    <2>2. OrderInv'
      BY <1>1, <2>1 DEF OrderInv
    <2>3. \A c \in marking' : c \in marking \/ (c[2] = requests + 1 /\ c[1] = r)
      BY <2>1
    <2>4. \A c, d \in marking' : c[2] = d[2] => c = d
      <3> SUFFICES ASSUME NEW c \in marking', NEW d \in marking', c[2] = d[2]
                   PROVE  c = d
        OBVIOUS
      <3>1. CASE c \in marking /\ d \in marking
        BY <3>1 DEF PlacesInv
      <3>2. CASE c \notin marking \/ d \notin marking
        <4>1. \A e \in marking : e[2] <= requests /\ e[2] \in Nat
          BY <1>0 DEF PlacesInv
        <4>2. c \notin marking /\ d \notin marking
          BY <1>0, <2>3, <3>2, <4>1
        <4> QED
          BY <2>1, <4>2
      <3> QED
        BY <3>1, <3>2
    <2>5. \A c \in marking' : /\ c[2] # 0 /\ c[2] <= requests'
                             /\ \A q \in Run : reqAt[q] # c[2]
      <3> SUFFICES ASSUME NEW c \in marking'
                   PROVE  /\ c[2] # 0 /\ c[2] <= requests'
                          /\ \A q \in Run : reqAt[q] # c[2]
        OBVIOUS
      <3>1. CASE c \in marking
        BY <1>0, <2>1, <3>1 DEF PlacesInv
      <3>2. CASE c[2] = requests + 1
        BY <1>0, <2>1, <3>2 DEF PlacesInv
      <3> QED
        BY <2>3, <3>1, <3>2
    <2>6. PlacesInv'
      BY <1>0, <1>1, <2>1, <2>4, <2>5 DEF PlacesInv
    <2> QED
      BY <2>2, <2>6
  <1>3. ASSUME NEW at \in 1..MaxRequests, MarkRunForDeletion(r, at)
        PROVE  PlacesInv' /\ OrderInv'
    <2> DEFINE call == <<r, at>>
    <2>0. /\ call \in marking /\ marking' = marking \ {call}
          /\ requests' = requests /\ at \in Nat
      BY <1>3, RunIndexAssumption DEF MarkRunForDeletion, boundVars
    <2>1. CASE UNCHANGED <<reqAt, since>>
      BY <1>0, <1>1, <2>0, <2>1 DEF PlacesInv, OrderInv
    <2>2. CASE Enqueue(r, at)
      <3>1. /\ reqAt'[r] = at /\ since'[r] = requests
            /\ \A q \in Run : q # r => /\ reqAt'[q] = reqAt[q]
                                      /\ since'[q] = since[q]
        BY <1>0, <2>2 DEF Enqueue
      <3>2. /\ at # 0 /\ at <= requests /\ \A q \in Run : reqAt[q] # at
            /\ \A d \in marking' : d[2] # at
        BY <2>0 DEF PlacesInv
      <3>3. PlacesInv'
        BY <1>0, <1>1, <2>0, <3>1, <3>2 DEF PlacesInv
      <3>4. \A q \in Run : ~(since'[r] < worker.todo[q])
        BY <1>0, <3>1 DEF PlacesInv
      <3>5. OrderInv'
        BY <1>1, <3>1, <3>4 DEF OrderInv
      <3> QED
        BY <3>3, <3>5
    <2> QED
      BY <1>3, <2>1, <2>2 DEF MarkRunForDeletion
  <1>4. CASE UnmarkRunForDeletion(r)
    <2>1. /\ \A q \in Run : q # r => /\ reqAt'[q] = reqAt[q]
                                    /\ since'[q] = since[q]
          /\ reqAt'[r] = 0 /\ UNCHANGED <<marking, requests>>
      BY <1>0, <1>4 DEF UnmarkRunForDeletion, boundVars
    <2>2. PlacesInv'
      BY <1>0, <1>1, <2>1 DEF PlacesInv
    <2>3. OrderInv'
      BY <1>0, <1>1, <2>1 DEF OrderInv
    <2> QED
      BY <2>2, <2>3
  <1> QED
    BY <1>2, <1>3, <1>4 DEF RequestStep

LEMMA PlacesDeleter ==
  ASSUME IndexInv, PlacesInv, OrderInv, DeleterStep \/ Restart
  PROVE  PlacesInv' /\ OrderInv'
  <1>0. /\ TypeOK /\ requests' = requests /\ marking' \subseteq marking
        /\ reqAt \in [Run -> Nat] /\ worker.todo \in [Run -> Nat]
        /\ since \in [Run -> Nat] /\ requests \in Nat /\ 0 \in Nat
        /\ marking \subseteq Run \X Nat
    BY DEF IndexInv, TypeOK, DeleterStep, ListRunsPendingDeletion,
           DeleteRunFromStorage, StorageDeleteFails, DeleteRunCascade,
           CascadeFails, Restart, boundVars
  <1>1. CASE ListRunsPendingDeletion
    <2>1. /\ worker'.todo = reqAt /\ UNCHANGED <<reqAt, since>>
          /\ worker'.pc \in {"boot", "idle"} => worker'.todo = EmptyTodo
      BY <1>1 DEF ListRunsPendingDeletion, NextInQueue, dbVars
    <2> QED
      BY <1>0, <2>1 DEF PlacesInv, OrderInv
  <1>2. CASE Restart
    <2>1. /\ worker'.todo = EmptyTodo /\ UNCHANGED <<reqAt, since>>
      BY <1>2 DEF Restart, dbVars
    <2>2. \A q \in Run : worker'.todo[q] = 0
      BY <2>1 DEF EmptyTodo
    <2>3. PlacesInv'
      BY <1>0, <2>1, <2>2 DEF PlacesInv
    <2>4. OrderInv'
      BY <1>0, <2>1, <2>2 DEF OrderInv
    <2> QED
      BY <2>3, <2>4
  <1>3. ASSUME NEW r \in Run, DeleteRunFromStorage(r)
        PROVE  PlacesInv' /\ OrderInv'
    <2>1. /\ worker'.todo = worker.todo /\ worker'.pc = "cascade"
          /\ UNCHANGED <<reqAt, marking, since, tried>>
      BY <1>3 DEF DeleteRunFromStorage, dbVars
    <2> QED
      BY <1>0, <2>1 DEF PlacesInv, OrderInv
  <1>4. ASSUME NEW r \in Run, Dequeue(r), UNCHANGED marking,
               \A q \in Run : q # r => reqAt'[q] = reqAt[q] /\ since'[q] = since[q],
               UNCHANGED <<reqAt, since>> \/ reqAt'[r] = 0
        PROVE  PlacesInv' /\ OrderInv'
    <2>1. /\ worker'.todo[r] = 0
          /\ \A q \in Run : q # r => worker'.todo[q] = worker.todo[q]
          /\ worker'.pc \in {"boot", "idle"} => worker'.todo = EmptyTodo
          /\ \A q \in Run : worker'.todo[q] # 0 => tried' = tried \cup {r}
      BY <1>0, <1>4, DequeueTakes
    <2>2. PlacesInv'
      BY <1>0, <1>4, <2>1 DEF PlacesInv
    <2>3. OrderInv'
      <3> SUFFICES ASSUME NEW p \in Run, NEW q \in Run, reqAt'[p] # 0,
                          since'[p] < worker'.todo[q]
                   PROVE  worker'.todo[p] = reqAt'[p] \/ p \in tried'
        BY DEF OrderInv
      <3>1. UNCHANGED <<reqAt, since>> \/ p # r
        BY <1>4
      <3>2. reqAt'[p] = reqAt[p] /\ since'[p] = since[p]
        BY <1>4, <3>1
      <3>3. q # r /\ tried' = tried \cup {r}
        BY <1>0, <2>1, <3>2
      <3>4. worker.todo[p] = reqAt[p] \/ p \in tried
        BY <2>1, <3>2, <3>3 DEF OrderInv
      <3> QED
        BY <2>1, <3>2, <3>3, <3>4
    <2> QED
      BY <2>2, <2>3
  <1>5. ASSUME NEW r \in Run, StorageDeleteFails(r) \/ CascadeFails(r)
        PROVE  PlacesInv' /\ OrderInv'
    <2>1. Dequeue(r) /\ UNCHANGED <<reqAt, marking, since>>
      BY <1>5 DEF StorageDeleteFails, CascadeFails
    <2> QED
      BY <1>4, <2>1
  <1>6. ASSUME NEW r \in Run, DeleteRunCascade(r)
        PROVE  PlacesInv' /\ OrderInv'
    <2>1. Dequeue(r) /\ UNCHANGED marking
      BY <1>6 DEF DeleteRunCascade
    <2>2. /\ reqAt'[r] = 0
          /\ \A q \in Run : q # r => /\ reqAt'[q] = reqAt[q]
                                    /\ since'[q] = since[q]
      BY <1>0, <1>6 DEF DeleteRunCascade
    <2> QED
      BY <1>4, <2>1, <2>2
  <1> QED
    BY <1>1, <1>2, <1>3, <1>5, <1>6 DEF DeleterStep

LEMMA PlacesPreserved ==
  ASSUME IndexInv, PlacesInv, OrderInv, [Next]_vars
  PROVE  PlacesInv' /\ OrderInv'
  <1>1. CASE UNCHANGED requestVars
    BY <1>1 DEF requestVars, PlacesInv, OrderInv
  <1>2. CASE UNCHANGED vars
    BY <1>1, <1>2 DEF vars, dbVars, deleterVars, boundVars, requestVars
  <1>3. CASE Next
    BY <1>1, <1>3, OthersLeaveQueue, PlacesRequest, PlacesDeleter DEF Next
  <1> QED
    BY <1>2, <1>3

-----------------------------------------------------------------------------
(* Files. *)

\* One request at a time is at the head of the worker's list.
LEMMA OneIsCurrent ==
  ASSUME TypeOK, PlacesInv, NEW p \in Run, NEW q \in Run,
         IsCurrent(p), IsCurrent(q)
  PROVE  p = q
  <1>1. worker.todo \in [Run -> Nat]
    BY DEF TypeOK
  <1>2. worker.todo[p] = worker.todo[q] /\ worker.todo[p] # 0
    BY <1>1 DEF IsCurrent
  <1> QED
    BY <1>2 DEF PlacesInv

\* A runner that is gone writes no file, and uploads none.
LEMMA GoneRunnersWriteNothing ==
  ASSUME TypeOK, NEW q \in Run, phase[q] = "done",
         NEW r \in Run, RunnerStep(r) \/ DeleteStaleLiveRuns(r)
  PROVE  phase'[q] = "done" /\ Storage(q)' = Storage(q)
  <1> USE DEF Storage, TypeOK
  <1>1. ASSUME \/ WriteInitialConfig(r) \/ WriteRunResult(r)
               \/ WriteFinalConfig(r) \/ WriteBlockLogs(r)
        PROVE  phase'[q] = "done" /\ Storage(q)' = Storage(q)
    <2>1. r # q /\ bucket' = bucket
      BY <1>1 DEF WriteInitialConfig, WriteRunResult, WriteFinalConfig,
                  WriteBlockLogs
    <2>2. phase'[q] = phase[q]
      BY <1>1, <2>1 DEF WriteInitialConfig, WriteRunResult, WriteFinalConfig,
                        WriteBlockLogs
    <2>3. \E f, s : WriteFile(r, f, s)
      BY <1>1 DEF WriteInitialConfig, WriteRunResult, WriteFinalConfig,
                  WriteBlockLogs
    <2>4. dir'[q] = dir[q]
      BY <2>1, <2>3 DEF WriteFile
    <2> QED
      BY <2>1, <2>2, <2>4
  <1>2. ASSUME \/ BeginRun(r) \/ WriteStepResults(r) \/ AbandonRun(r)
               \/ EndRun(r) \/ UploadSuiteDir(r) \/ KillRunner(r)
        PROVE  phase'[q] = "done" /\ Storage(q)' = Storage(q)
    BY <1>2 DEF BeginRun, WriteStepResults, AbandonRun, EndRun, UploadSuiteDir,
                KillRunner
  <1>3. ASSUME UpsertLiveRun(r) \/ DeleteStaleLiveRuns(r)
        PROVE  phase'[q] = "done" /\ Storage(q)' = Storage(q)
    BY <1>3 DEF UpsertLiveRun, DeleteStaleLiveRuns, storageVars
  <1>4. ASSUME NEW f \in File, UploadFile(r, f)
        PROVE  phase'[q] = "done" /\ Storage(q)' = Storage(q)
    BY <1>4 DEF UploadFile
  <1> QED
    BY <1>1, <1>2, <1>3, <1>4 DEF RunnerStep

LEMMA FilesPreserved ==
  ASSUME IndexInv, PlacesInv, FilesInv, [Next]_vars
  PROVE  FilesInv'
  <1>0. TypeOK /\ \A r \in Finished : r \in Run /\ phase[r] = "done"
    BY RunIndexAssumption DEF IndexInv, FilesInv
  <1>1. CASE UNCHANGED <<phase, dir, bucket, worker>>
    BY <1>1 DEF FilesInv, IsCurrent, Storage
  <1>2. ASSUME NEW r \in Run, RunnerStep(r) \/ DeleteStaleLiveRuns(r)
        PROVE  FilesInv'
    <2>1. worker' = worker
      BY <1>2, OthersLeaveQueue DEF requestVars
    <2>2. \A q \in Finished : phase'[q] = "done" /\ Storage(q)' = Storage(q)
      BY <1>0, <1>2, GoneRunnersWriteNothing
    <2> QED
      BY <2>1, <2>2 DEF FilesInv, IsCurrent
  <1>3. ASSUME phase' = phase, worker'.pc # "cascade"
        PROVE  FilesInv'
    BY <1>3 DEF FilesInv
  <1>4. ASSUME NEW r \in Run, DeleteRunFromStorage(r)
        PROVE  FilesInv'
    <2>1. phase' = phase /\ worker'.todo = worker.todo /\ KeepInStorage(r, {})
      BY <1>4 DEF DeleteRunFromStorage
    <2>2. \A q \in Run : IsCurrent(q)' => q = r
      BY <1>0, <1>4, <2>1, OneIsCurrent DEF DeleteRunFromStorage, IsCurrent
    <2>3. Storage(r)'.files = {}
      BY <1>0, <2>1 DEF KeepInStorage, Storage, TypeOK
    <2> QED
      BY <1>0, <2>1, <2>2, <2>3 DEF FilesInv
  <1>5. CASE DeleterStep
    <2>1. ASSUME NEW r \in Run, StorageDeleteFails(r) \/ DeleteRunCascade(r)
                                \/ CascadeFails(r)
          PROVE  FilesInv'
      <3>1. Dequeue(r) /\ phase' = phase
        BY <2>1 DEF StorageDeleteFails, DeleteRunCascade, CascadeFails,
                    storageVars
      <3> QED
        BY <1>0, <1>3, <3>1, DequeueTakes
    <2>2. CASE ListRunsPendingDeletion
      <3>1. worker'.pc # "cascade" /\ phase' = phase
        BY <2>2 DEF ListRunsPendingDeletion, NextInQueue, storageVars
      <3> QED
        BY <1>3, <3>1
    <2> QED
      BY <1>4, <1>5, <2>1, <2>2 DEF DeleterStep
  <1>6. CASE Restart
    BY <1>3, <1>6 DEF Restart
  <1>7. ASSUME NEW t \in Thread, \/ StartPass(t) \/ PassStep(t)
                                \/ \E r \in Run : TaskStep(t, r)
        PROVE  UNCHANGED <<phase, dir, bucket, worker>>
    <2>1. UNCHANGED storageVars
      BY <1>7 DEF StartPass, PassStep, ListStorageRunIDs, ListIndexedRunIDs,
                  ListIncompleteRunIDs, ListFails, FinishPass, TaskStep,
                  StartTask, ReadFile, ConfigMissing, UpsertSuite, UpsertRun,
                  UpsertRunFails, DeleteLiveRun, ReplaceTestStats,
                  ReplaceTestStatsBlockLogs
    <2> QED
      BY <1>7, <2>1, OthersLeaveQueue DEF storageVars, requestVars
  <1>8. ASSUME NEW r \in Run, RequestStep(r)
        PROVE  UNCHANGED <<phase, dir, bucket, worker>>
    BY <1>8 DEF RequestStep, StampRequest, MarkRunForDeletion,
                UnmarkRunForDeletion, dbVars, storageVars,
                deleterVars
  <1>9. CASE UNCHANGED vars
    BY <1>1, <1>9 DEF vars, storageVars, deleterVars
  <1>10. CASE Next
    BY <1>1, <1>2, <1>5, <1>6, <1>7, <1>8, <1>10 DEF Next
  <1> QED
    BY <1>9, <1>10

-----------------------------------------------------------------------------
(* The invariant and what follows from it. *)

LEMMA InitDeletionInv == Init => DeletionInv
  <1> SUFFICES ASSUME Init PROVE DeletionInv
    OBVIOUS
  <1>1. IndexInv
    BY InitIndexInv
  <1>2. \A r \in Run : reqAt[r] = 0 /\ worker.todo[r] = 0
    BY DEF Init, EmptyTodo
  <1>3. PlacesInv /\ OrderInv
    BY <1>2 DEF Init, PlacesInv, OrderInv
  <1>4. FilesInv
    BY RunIndexAssumption DEF Init, FilesInv
  <1> QED
    BY <1>1, <1>3, <1>4 DEF DeletionInv

LEMMA NextDeletionInv ==
  ASSUME DeletionInv, [Next]_vars
  PROVE  DeletionInv'
  BY NextIndexInv, PlacesPreserved, FilesPreserved DEF DeletionInv

\* The places in the deletion queue stay distinct, no request that was queued
\* before another was made is skipped by the drain that carries out the other, and
\* the run in hand has no files left, for any number of runs, requests in flight,
\* restarts and failures, whether or not errors are recorded.
THEOREM DeletionInvariant == Spec => []DeletionInv
  BY InitDeletionInv, NextDeletionInv, PTL DEF Spec

\* Only the cascade drops rows.
LEMMA RowDropper ==
  ASSUME TypeOK, [Next]_vars, NEW r \in rows, r \notin rows'
  PROVE  DeleteRunCascade(r)
  <1>1. CASE UNCHANGED vars
    BY <1>1 DEF vars, dbVars
  <1>2. ASSUME NEW q \in Run, RunnerStep(q) \/ DeleteStaleLiveRuns(q)
        PROVE  rows' = rows
    BY <1>2 DEF RunnerStep, BeginRun, WriteInitialConfig, WriteStepResults,
           WriteRunResult, WriteFinalConfig, WriteBlockLogs, AbandonRun, EndRun,
           UploadFile, UploadSuiteDir, KillRunner, UpsertLiveRun,
           DeleteStaleLiveRuns, dbVars
  <1>3. ASSUME NEW q \in Run, RequestStep(q)
        PROVE  rows' = rows
    BY <1>3 DEF RequestStep, StampRequest, MarkRunForDeletion,
                UnmarkRunForDeletion, dbVars
  <1>4. ASSUME NEW t \in Thread, StartPass(t) \/ PassStep(t)
        PROVE  rows' = rows
    BY <1>4 DEF StartPass, PassStep, ListStorageRunIDs, ListIndexedRunIDs,
                ListIncompleteRunIDs, ListFails, FinishPass, dbVars
  <1>5. ASSUME NEW t \in Thread, NEW q \in Run, TaskStep(t, q)
        PROVE  rows \subseteq rows'
    BY <1>5 DEF TaskStep, StartTask, ReadFile, ConfigMissing, UpsertSuite,
                UpsertRun, UpsertRunFails, DeleteLiveRun, ReplaceTestStats,
                ReplaceTestStatsBlockLogs, dbVars
  <1>6. CASE DeleterStep \/ Restart
    BY <1>6 DEF DeleterStep, ListRunsPendingDeletion, DeleteRunFromStorage,
                StorageDeleteFails, DeleteRunCascade, CascadeFails, Restart,
                dbVars
  <1>7. CASE Next
    BY <1>2, <1>3, <1>4, <1>5, <1>6, <1>7 DEF Next
  <1> QED
    BY <1>1, <1>7

\* The row of a finished run is dropped only when all its files are gone.
THEOREM RowsOutliveFiles == Spec => RowOutlivesFiles
  <1>1. ASSUME DeletionInv, [Next]_vars,
               NEW r \in Finished, r \in rows, r \notin rows'
        PROVE  Storage(r).files = {}
    <2>1. DeleteRunCascade(r)
      BY <1>1, RowDropper DEF DeletionInv, IndexInv
    <2> QED
      BY <1>1, <2>1 DEF DeletionInv, FilesInv, DeleteRunCascade
  <1>2. DeletionInv /\ [Next]_vars
          => [\A r \in Finished : r \in rows /\ r \notin rows'
                                    => Storage(r).files = {}]_vars
    BY <1>1
  <1> QED
    BY <1>2, DeletionInvariant, PTL DEF Spec, RowOutlivesFiles

-----------------------------------------------------------------------------
(* The index implements its deletion queue. *)

\* Whatever was queued before the request in hand was made has been tried.
LEMMA CurrentIsOldest ==
  ASSUME TypeOK, PlacesInv, OrderInv, NEW r \in Run, IsCurrent(r)
  PROVE  Queue!OldersTried(r)
  <1>1. /\ worker.todo \in [Run -> Nat] /\ reqAt \in [Run -> Nat]
        /\ since \in [Run -> Nat] /\ rows \subseteq Run
    BY DEF TypeOK
  <1>2. ASSUME NEW p \in rows, reqAt[p] # 0, since[p] < worker.todo[r]
        PROVE  p \in tried
    <2>1. worker.todo[p] = reqAt[p] \/ p \in tried
      BY <1>1, <1>2 DEF OrderInv
    <2>2. reqAt[p] < worker.todo[r]
      BY <1>1, <1>2 DEF PlacesInv
    <2>3. worker.todo[p] # reqAt[p]
      BY <1>1, <1>2, <2>2 DEF IsCurrent
    <2> QED
      BY <2>1, <2>3
  <1> QED
    BY <1>2 DEF Queue!OldersTried

\* A task changes the set of rows only by entering its own run.
LEMMA TaskEnters ==
  ASSUME DeletionInv, NEW t \in Thread, NEW r \in Run, TaskStep(t, r)
  PROVE  UNCHANGED Queue!queueVars \/ Queue!Enter(r)
  <1>1. UNCHANGED requestVars
    BY OthersLeaveQueue
  <1>2. CASE rows' = rows
    BY <1>1, <1>2 DEF requestVars, Queue!queueVars
  <1>3. CASE rows' # rows
    <2>1. rows' = rows \cup {r} /\ r \notin rows
      BY <1>3 DEF TaskStep, StartTask, ReadFile, ConfigMissing, UpsertSuite,
                  UpsertRun, UpsertRunFails, DeleteLiveRun, ReplaceTestStats,
                  ReplaceTestStatsBlockLogs, dbVars
    <2>2. reqAt[r] = 0
      BY <2>1 DEF DeletionInv, IndexInv, QueueInv
    <2> QED
      BY <1>1, <2>1, <2>2 DEF requestVars, Queue!Enter
  <1> QED
    BY <1>2, <1>3

LEMMA RequestEnqueues ==
  ASSUME DeletionInv, NEW r \in Run, RequestStep(r)
  PROVE  UNCHANGED Queue!queueVars \/ Queue!QueueNext
  <1>1. CASE StampRequest(r)
    BY <1>1 DEF StampRequest, dbVars, Queue!Ask, Queue!QueueNext
  <1>2. ASSUME NEW at \in 1..MaxRequests, MarkRunForDeletion(r, at)
        PROVE  UNCHANGED Queue!queueVars \/ Queue!Request(r)
    <2>1. at \in 1..requests
      <3>1. <<r, at>>[2] # 0 /\ <<r, at>>[2] <= requests /\ requests \in Nat
        BY <1>2 DEF MarkRunForDeletion, DeletionInv, IndexInv, TypeOK, PlacesInv
      <3> QED
        BY <3>1, RunIndexAssumption
    <2>2. UNCHANGED <<rows, worker, tried, requests>>
      BY <1>2 DEF MarkRunForDeletion, boundVars
    <2>3. CASE Enqueue(r, at) /\ r \in rows /\ reqAt[r] = 0
      BY <2>1, <2>2, <2>3 DEF Enqueue, Queue!Request
    <2>4. CASE UNCHANGED <<reqAt, delErr, since>>
      BY <2>2, <2>4 DEF Queue!queueVars
    <2> QED
      BY <1>2, <2>3, <2>4 DEF MarkRunForDeletion
  <1>3. CASE UnmarkRunForDeletion(r)
    BY <1>3 DEF UnmarkRunForDeletion, boundVars, Queue!TakeBack, Queue!Forget,
                Queue!QueueNext
  <1> QED
    BY <1>1, <1>2, <1>3 DEF RequestStep, Queue!QueueNext

\* To take a run off the worker's list is to strike it.
LEMMA DequeueStrikes ==
  ASSUME NEW r \in Run, Dequeue(r)
  PROVE  Queue!Strike(r)
  BY DEF Dequeue, NextInQueue, EmptyTodo, Queue!Strike, Queue!Nobody

LEMMA DeleterDrains ==
  ASSUME DeletionInv, DeleterStep
  PROVE  UNCHANGED Queue!queueVars \/ Queue!QueueNext
  <1>0. TypeOK /\ OrderInv /\ PlacesInv /\ QueueInv
    BY DEF DeletionInv, IndexInv
  <1>1. CASE ListRunsPendingDeletion
    <2>1. worker.todo = EmptyTodo
      BY <1>0, <1>1 DEF ListRunsPendingDeletion, PlacesInv
    <2>2. /\ worker'.todo = reqAt /\ tried' = {}
          /\ UNCHANGED <<rows, reqAt, since, delErr, requests>>
      BY <1>1 DEF ListRunsPendingDeletion, NextInQueue, dbVars, boundVars
    <2>3. Queue!BeginDrain
      BY <2>1, <2>2 DEF Queue!BeginDrain, Queue!Nobody, EmptyTodo
    <2> QED
      BY <2>3 DEF Queue!QueueNext
  <1>2. ASSUME NEW r \in Run, DeleteRunFromStorage(r)
        PROVE  UNCHANGED Queue!queueVars
    BY <1>2 DEF DeleteRunFromStorage, dbVars, boundVars, Queue!queueVars
  <1>3. ASSUME NEW r \in Run, StorageDeleteFails(r) \/ CascadeFails(r)
        PROVE  Queue!Fail(r)
    <2>1. /\ IsCurrent(r) /\ worker.todo[r] # 0 /\ Queue!Strike(r)
          /\ UNCHANGED <<rows, reqAt, since, requests>>
          /\ SetRunDeletionError(r)
      BY <1>3, DequeueStrikes DEF StorageDeleteFails, CascadeFails, IsCurrent,
                                  boundVars
    <2>2. r \in rows
      BY <1>0, <2>1 DEF QueueInv
    <2>3. delErr' \in {delErr, [delErr EXCEPT ![r] = TRUE]}
      BY <2>1, <2>2 DEF SetRunDeletionError
    <2> QED
      BY <1>0, <2>1, <2>2, <2>3, CurrentIsOldest DEF Queue!Fail
  <1>4. ASSUME NEW r \in Run, DeleteRunCascade(r)
        PROVE  Queue!Delete(r)
    <2>1. /\ IsCurrent(r) /\ worker.todo[r] # 0 /\ Queue!Strike(r)
          /\ requests' = requests
      BY <1>4, DequeueStrikes DEF DeleteRunCascade, IsCurrent, boundVars
    <2>2. Queue!Forget(r) /\ r \in rows /\ rows' = rows \ {r}
      BY <1>4 DEF DeleteRunCascade, Queue!Forget
    <2> QED
      BY <1>0, <2>1, <2>2, CurrentIsOldest DEF Queue!Delete
  <1> QED
    BY <1>1, <1>2, <1>3, <1>4 DEF DeleterStep, Queue!QueueNext

\* The index keeps the promise of its deletion queue: each step of the runner,
\* the indexer, the administrator, the worker and a restart is a step of the
\* queue or leaves it alone.
THEOREM QueueImplemented == Spec => QueueKept
  <1>1. Init => Queue!QueueInit
    BY DEF Init, EmptyTodo, Queue!QueueInit, Queue!Nobody
  <1>2. ASSUME DeletionInv, [Next]_vars
        PROVE  [Queue!QueueNext]_(Queue!queueVars)
    <2>1. ASSUME UNCHANGED requestVars, UNCHANGED rows
          PROVE  UNCHANGED Queue!queueVars
      BY <2>1 DEF requestVars, Queue!queueVars
    <2>2. CASE UNCHANGED vars
      BY <2>1, <2>2 DEF vars, dbVars, deleterVars, boundVars, requestVars
    <2>3. ASSUME NEW r \in Run, RunnerStep(r) \/ DeleteStaleLiveRuns(r)
          PROVE  UNCHANGED Queue!queueVars
      <3>1. UNCHANGED rows
        BY <2>3 DEF RunnerStep, BeginRun, WriteInitialConfig, WriteStepResults,
           WriteRunResult, WriteFinalConfig, WriteBlockLogs, AbandonRun, EndRun,
           UploadFile, UploadSuiteDir, KillRunner, UpsertLiveRun,
           DeleteStaleLiveRuns, dbVars
      <3> QED
        BY <2>1, <2>3, <3>1, OthersLeaveQueue
    <2>4. ASSUME NEW t \in Thread, StartPass(t) \/ PassStep(t)
          PROVE  UNCHANGED Queue!queueVars
      <3>1. UNCHANGED rows
        BY <2>4 DEF StartPass, PassStep, ListStorageRunIDs, ListIndexedRunIDs,
                    ListIncompleteRunIDs, ListFails, FinishPass, dbVars
      <3> QED
        BY <2>1, <2>4, <3>1, OthersLeaveQueue
    <2>5. CASE Restart
      <3>1. Queue!Stop
        BY <2>5 DEF Restart, dbVars, EmptyTodo, Queue!Stop, Queue!Nobody
      <3> QED
        BY <3>1 DEF Queue!QueueNext
    <2>6. CASE Next
      BY <1>2, <2>3, <2>4, <2>5, <2>6, TaskEnters, RequestEnqueues,
         DeleterDrains DEF Next, Queue!QueueNext
    <2> QED
      BY <1>2, <2>2, <2>6
  <1> QED
    BY <1>1, <1>2, DeletionInvariant, PTL DEF Spec, QueueKept, Queue!QueueSpec

-----------------------------------------------------------------------------
(* Statistics. *)

\* What a step of a task does to the tasks.
LEMMA TaskFrame ==
  ASSUME TypeOK, NEW t \in Thread, NEW r \in Run, TaskStep(t, r)
  PROVE  \A u \in Thread, q \in Run :
           u # t \/ q # r => task'[u][q] = task[u][q]
  <1>1. \E new : task' = [task EXCEPT ![t][r] = new]
    BY DEF TaskStep, StartTask, ReadFile, ConfigMissing, UpsertSuite, UpsertRun,
           UpsertRunFails, DeleteLiveRun, ReplaceTestStats,
           ReplaceTestStatsBlockLogs, SetTask, EndTask, TypeOK
  <1> QED
    BY <1>1 DEF TypeOK

\* What a step of a task does to its row, its statistics and its progress.
LEMMA TaskWrites ==
  ASSUME TypeOK, NEW t \in Thread, NEW r \in Run, TaskStep(t, r),
         "stats" \notin Faults
  PROVE  \/ /\ UNCHANGED <<rows, row, stats>>
            /\ task[t][r].pc \notin {"live", "stats"}
         \/ /\ rows' = rows \cup {r} /\ stats' = stats
            /\ \A q \in Run : q # r => row'[q] = row[q]
            /\ row'[r].result = ("result" \in task[t][r].seen)
            /\ task'[t][r].pc = "live" /\ task'[t][r].seen = task[t][r].seen
         \/ /\ UNCHANGED <<rows, row, stats>> /\ Busy(t, r)
            /\ task'[t][r].pc = "stats" /\ task'[t][r].seen = task[t][r].seen
         \/ /\ UNCHANGED <<rows, row>> /\ Busy(t, r)
            /\ \/ stats' = stats \cup {r}
               \/ /\ stats' = stats
                  /\ "result" \notin task[t][r].seen \/ SuiteOf[r] = NoSuite
  <1> USE DEF dbVars
  <1>1. CASE \/ StartTask(t, r) \/ \E f \in RunFile : ReadFile(t, r, f)
             \/ ConfigMissing(t, r) \/ UpsertSuite(t, r) \/ UpsertRunFails(t, r)
             \/ ReplaceTestStatsBlockLogs(t, r)
    BY <1>1 DEF StartTask, ReadFile, ConfigMissing, UpsertSuite, UpsertRunFails,
                ReplaceTestStatsBlockLogs
  <1>2. CASE UpsertRun(t, r)
    <2>1. /\ task'[t][r].pc = "live" /\ task'[t][r].seen = task[t][r].seen
      BY <1>2 DEF UpsertRun, SetTask, TaskAt, TypeOK
    <2>2. /\ \A q \in Run : q # r => row'[q] = row[q]
          /\ row'[r].result = ("result" \in task[t][r].seen)
      BY <1>2 DEF UpsertRun, TypeOK
    <2> QED
      BY <1>2, <2>1, <2>2 DEF UpsertRun
  <1>3. CASE DeleteLiveRun(t, r)
    <2>1. task'[t][r].pc = "stats" /\ task'[t][r].seen = task[t][r].seen
      BY <1>3 DEF DeleteLiveRun, SetTask, TaskAt, TypeOK
    <2> QED
      BY <1>3, <2>1 DEF DeleteLiveRun, Busy
  <1>4. CASE ReplaceTestStats(t, r)
    BY <1>4 DEF ReplaceTestStats, Busy
  <1> QED
    BY <1>1, <1>2, <1>3, <1>4 DEF TaskStep

LEMMA StatsTask ==
  ASSUME IndexInv, StatsInv, "stats" \notin Faults,
         NEW t \in Thread, NEW r \in Run, TaskStep(t, r)
  PROVE  StatsInv'
  <1>0. TypeOK /\ PassInv /\ restarts' = restarts
    BY DEF IndexInv, TaskStep, StartTask, ReadFile, ConfigMissing, UpsertSuite,
           UpsertRun, UpsertRunFails, DeleteLiveRun, ReplaceTestStats,
           ReplaceTestStatsBlockLogs, boundVars
  <1>1. \A u \in Thread, q \in Run :
          u # t \/ q # r => task'[u][q] = task[u][q]
    BY <1>0, TaskFrame
  <1> DEFINE Waits(u, q) == /\ task[u][q].pc \in {"live", "stats"}
                            /\ "result" \in task[u][q].seen
  <1> SUFFICES ASSUME restarts = 0, NEW q \in rows', row'[q].result,
                      SuiteOf[q] # NoSuite, q \notin stats'
               PROVE  \E u \in Thread : Waits(u, q)'
    BY <1>0 DEF StatsInv
  <1>2. rows' \subseteq rows \cup {r} /\ q \in Run /\ stats \subseteq stats'
    <2>1. rows \subseteq Run
      BY <1>0 DEF TypeOK
    <2>2. rows' \subseteq rows \cup {r} /\ stats \subseteq stats'
      BY <1>0, TaskWrites
    <2> QED
      BY <2>1, <2>2
  <1>3. CASE q # r
    <2>1. q \in rows /\ row'[q] = row[q] /\ q \notin stats
      BY <1>0, <1>2, <1>3, TaskWrites
    <2>2. PICK u \in Thread : Waits(u, q)
      BY <2>1 DEF StatsInv
    <2> QED
      BY <1>1, <1>2, <1>3, <2>2
  <1>4. CASE q = r
    <2>1. CASE /\ UNCHANGED <<rows, row, stats>>
               /\ task[t][r].pc \notin {"live", "stats"}
      <3>1. PICK u \in Thread : Waits(u, q)
        BY <2>1 DEF StatsInv
      <3>2. u # t
        BY <1>4, <2>1, <3>1
      <3> QED
        BY <1>1, <3>1, <3>2, <1>2
    <2>2. CASE /\ row'[r].result = ("result" \in task[t][r].seen)
               /\ task'[t][r].pc = "live"
               /\ task'[t][r].seen = task[t][r].seen
      BY <1>4, <2>2
    <2>3. CASE /\ UNCHANGED <<rows, row, stats>> /\ Busy(t, r)
               /\ task'[t][r].pc = "stats"
               /\ task'[t][r].seen = task[t][r].seen
      <3>1. PICK u \in Thread : Waits(u, q)
        BY <2>3 DEF StatsInv
      <3>2. u = t
        BY <1>0, <1>2, <1>4, <2>3, <3>1, PassExclusion DEF Busy
      <3> QED
        BY <1>4, <2>3, <3>1, <3>2
    <2>4. CASE /\ UNCHANGED <<rows, row>> /\ Busy(t, r)
               /\ \/ stats' = stats \cup {r}
                  \/ /\ stats' = stats
                     /\ "result" \notin task[t][r].seen \/ SuiteOf[r] = NoSuite
      <3>1. stats' = stats /\ "result" \notin task[t][r].seen
        BY <1>4, <2>4
      <3>2. PICK u \in Thread : Waits(u, q)
        BY <2>4, <3>1 DEF StatsInv
      <3>3. u = t
        BY <1>0, <1>2, <1>4, <2>4, <3>2, PassExclusion DEF Busy
      <3> QED
        BY <1>4, <3>1, <3>2, <3>3
    <2> QED
      BY <1>0, <2>1, <2>2, <2>3, <2>4, TaskWrites
  <1> QED
    BY <1>3, <1>4

LEMMA StatsPass ==
  ASSUME IndexInv, StatsInv, NEW t \in Thread, StartPass(t) \/ PassStep(t)
  PROVE  StatsInv'
  <1>0. TypeOK /\ PassInv /\ UNCHANGED <<rows, row, stats, restarts>>
    BY DEF IndexInv, StartPass, PassStep, ListStorageRunIDs, ListIndexedRunIDs,
           ListIncompleteRunIDs, ListFails, FinishPass, dbVars, boundVars
  <1>1. CASE task' = task
    BY <1>0, <1>1 DEF StatsInv
  <1>2. CASE ListIncompleteRunIDs(t)
    <2>1. \A r \in Run : ~Busy(t, r)
      BY <1>0, <1>2 DEF ListIncompleteRunIDs, PassInv
    <2>2. \A u \in Thread, r \in Run : u # t => task'[u][r] = task[u][r]
      BY <1>0, <1>2 DEF ListIncompleteRunIDs, TypeOK
    <2> DEFINE Waits(u, q) == /\ task[u][q].pc \in {"live", "stats"}
                              /\ "result" \in task[u][q].seen
    <2>3. ASSUME restarts = 0, NEW q \in rows, row[q].result,
                 SuiteOf[q] # NoSuite, q \notin stats
          PROVE  \E u \in Thread : Waits(u, q)'
      <3>1. q \in Run
        BY <1>0 DEF TypeOK
      <3>2. PICK u \in Thread : Waits(u, q)
        BY <2>3 DEF StatsInv
      <3>3. u # t
        BY <2>1, <3>1, <3>2 DEF Busy
      <3> QED
        BY <2>2, <3>1, <3>2, <3>3
    <2> QED
      BY <1>0, <2>3 DEF StatsInv
  <1> QED
    BY <1>1, <1>2 DEF StartPass, PassStep, ListStorageRunIDs, ListIndexedRunIDs,
                      ListFails, FinishPass

LEMMA StatsPreserved ==
  ASSUME IndexInv, StatsInv, "stats" \notin Faults, [Next]_vars
  PROVE  StatsInv'
  <1>0. TypeOK
    BY DEF IndexInv
  <1>1. CASE UNCHANGED <<rows, row, stats, task, restarts>>
    BY <1>1 DEF StatsInv
  <1>2. CASE UNCHANGED vars
    BY <1>1, <1>2 DEF vars, dbVars, indexerVars, boundVars
  <1>3. ASSUME NEW r \in Run, RunnerStep(r) \/ DeleteStaleLiveRuns(r)
        PROVE  UNCHANGED <<rows, row, stats, task, restarts>>
    BY <1>3 DEF RunnerStep, BeginRun, WriteInitialConfig, WriteStepResults,
           WriteRunResult, WriteFinalConfig, WriteBlockLogs, AbandonRun, EndRun,
           UploadFile, UploadSuiteDir, KillRunner, UpsertLiveRun,
           DeleteStaleLiveRuns, dbVars, indexerVars, boundVars
  <1>4. ASSUME NEW r \in Run, RequestStep(r)
        PROVE  UNCHANGED <<rows, row, stats, task, restarts>>
    BY <1>4 DEF RequestStep, StampRequest, MarkRunForDeletion,
                UnmarkRunForDeletion, dbVars, indexerVars, boundVars
  <1>5. ASSUME NEW r \in Run, DeleteRunCascade(r)
        PROVE  StatsInv'
    <2>1. /\ rows' = rows \ {r} /\ stats' = stats \ {r}
          /\ UNCHANGED <<task, restarts>>
          /\ \A q \in Run : q # r => row'[q] = row[q]
      BY <1>0, <1>5 DEF DeleteRunCascade, TypeOK, indexerVars, boundVars
    <2> QED
      BY <1>0, <2>1 DEF StatsInv, TypeOK
  <1>6. CASE DeleterStep
    <2>1. UNCHANGED <<rows, row, stats, task, restarts>>
          \/ \E r \in Run : DeleteRunCascade(r)
      BY <1>6 DEF DeleterStep, ListRunsPendingDeletion, DeleteRunFromStorage,
                  StorageDeleteFails, CascadeFails, dbVars, indexerVars,
                  boundVars
    <2> QED
      BY <1>1, <1>5, <2>1
  <1>7. CASE Restart
    BY <1>0, <1>7 DEF Restart, StatsInv, TypeOK
  <1>8. CASE Next
    BY <1>1, <1>3, <1>4, <1>6, <1>7, <1>8, StatsTask, StatsPass DEF Next
  <1> QED
    BY <1>2, <1>8

\* As long as writing statistics does not fail and the server is not restarted,
\* a row with a result has them once no task is at work on the run: no second
\* pass, deletion or upload in between loses them.
THEOREM StatsAreWritten ==
  ASSUME "stats" \notin Faults
  PROVE  Spec => [](restarts = 0 => StatsFollowRow)
  <1>1. Init => IndexInv /\ StatsInv
    BY InitIndexInv DEF Init, StatsInv
  <1>2. IndexInv /\ StatsInv /\ [Next]_vars => IndexInv' /\ StatsInv'
    BY NextIndexInv, StatsPreserved
  <1>3. IndexInv /\ StatsInv => (restarts = 0 => StatsFollowRow)
    BY DEF IndexInv, TypeOK, StatsInv, StatsFollowRow, Busy
  <1> QED
    BY <1>1, <1>2, <1>3, PTL DEF Spec

=============================================================================
