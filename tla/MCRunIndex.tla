----------------------------- MODULE MCRunIndex -----------------------------
(***************************************************************************)
(* Instances of RunIndex for TLC, and the statements of the repository's   *)
(* comments and documentation that the code does not keep.                 *)
(***************************************************************************)
EXTENDS RunIndex, TLC

CONSTANTS r1, r2, s1

\* All runs belong to one suite.
SameSuite == [r \in Run |-> s1]

\* The runs of one suite are interchangeable in the safety properties.
RunSymmetry == Permutations(Run)

\* "Runs are deleted one at a time in the order they were queued ... A run whose
\* deletion fails keeps its place in the queue" (rundeleter.go): the failures of
\* r2 never keep r1 from being deleted or taken back.
QueuedR1Goes == QueuedRunGoes(r1)

\* "Only new runs and runs that were previously incomplete ... are processed"
\* (docs/api.md), and they are: neither calls that fail, nor an unreadable
\* result.json, nor a restart ever costs a complete r1 its row.
CompleteR1Indexed == CompleteRunIndexed(r1)

-----------------------------------------------------------------------------
(* What the repository says and the code does not do. *)

\* "ErrRunInProgress when the run is still running: deleting it would race with
\* the active runner" (deletion.go).
NoDeletionWhileRunning ==
    \A r \in Run : reqAt[r] # 0 => phase[r] \notin {"preparing", "testing"}

\* "and the suite if no other run uses it" (docs/api.md): a run whose suite has
\* a summary in storage has a row in the suites table.
SuiteOfRunKept ==
    \A r \in rows : SuiteOf[r] \in summaries => SuiteOf[r] \in suites

==============================================================================
