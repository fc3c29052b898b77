----------------------------- MODULE RunSource -----------------------------
(***************************************************************************)
(* Which view the page of a run shows: the live view, fed by polls of the  *)
(* API, or the detail view, fed by config.json and result.json. One run is *)
(* executed while its page is open. The row of a live run goes when the    *)
(* run is indexed, or when the runner has been silent for too long.        *)
(*                                                                         *)
(* The tests of the run are 1..Total, executed in the order of the suite.  *)
(* A query keeps its data when a later fetch fails; fetches are retried by *)
(* the library before they count as failed.                                *)
(***************************************************************************)
EXTENDS Lists

CONSTANTS
    Total,     \* tests of the suite
    PopCap     \* tiles after which the delays of the pop-in stop growing

\* undefined is not a status.
ASSUME SourceAssumption == None \notin {"running", "done"} /\ Total \in Nat

VARIABLES
    srvRun,    \* the run: [row, done, files]
    srcLive,   \* the live-runs query: "loading", "none", or "live"
    srcDone,   \* tests completed in its last answer
    srcConfig, \* the config query: [data, failed, busy]
    srcResult, \* the result query: [data, busy]
    srcPops,   \* pop-in of completed tiles: [prev, delays, timer]
    srcEarly   \* config.json was missed without a live row to fall back on

sourceVars == <<srvRun, srcLive, srcDone, srcConfig, srcResult, srcPops, srcEarly>>

\* files: "none", or the status config.json has; "done" comes with result.json.
SourceTypeOK ==
    /\ srvRun \in [row : BOOLEAN, done : 0..Total, files : {"none", "running", "done"}]
    /\ srcLive \in {"loading", "none", "live"} /\ srcDone \in 0..Total
    /\ srcConfig \in [data : {None, "running", "done"}, failed : BOOLEAN, busy : BOOLEAN]
    /\ srcResult \in [data : {"unset", "null", "ok"}, busy : BOOLEAN]
    /\ srcPops.prev \in {None} \cup SUBSET (1..Total)
    /\ DOMAIN srcPops.delays \subseteq 1..Total /\ srcPops.timer \in BOOLEAN

-----------------------------------------------------------------------------
(* The run. *)

Report ==
    /\ srvRun.files # "done" /\ srvRun.done < Total
    /\ srvRun' = [srvRun EXCEPT !.row = TRUE, !.done = @ + 1]
    /\ UNCHANGED <<srcLive, srcDone, srcConfig, srcResult, srcPops, srcEarly>>

\* Local result directories hold config.json from the start of the run; an
\* upload brings both files at its end.
WriteConfig ==
    /\ srvRun.files = "none"
    /\ srvRun' = [srvRun EXCEPT !.files = "running"]
    /\ UNCHANGED <<srcLive, srcDone, srcConfig, srcResult, srcPops, srcEarly>>
FinishRun ==
    /\ srvRun.files # "done"
    /\ srvRun' = [srvRun EXCEPT !.files = "done"]
    /\ UNCHANGED <<srcLive, srcDone, srcConfig, srcResult, srcPops, srcEarly>>

\* Indexed, or stale.
RowGoes ==
    /\ srvRun.row
    /\ srvRun' = [srvRun EXCEPT !.row = FALSE]
    /\ UNCHANGED <<srcLive, srcDone, srcConfig, srcResult, srcPops, srcEarly>>

-----------------------------------------------------------------------------
(* The queries of RunDetailPage. *)

\* Mutant of FetchOnDisk: the files are asked for whether the run is live or not.
FetchAlways(live) == TRUE

\* The files of a run known to be live are not asked for.
FetchOnDisk(live) == live # "live"

\* An observer that is enabled fetches when it has no data or stale data; data
\* may be fresh still.
Refetched(q, fetched) == IF fetched THEN [q EXCEPT !.busy = TRUE] ELSE q
ConfigRefetched(fetched) ==
    IF fetched THEN [srcConfig EXCEPT !.busy = TRUE,
                                      !.failed = @ /\ srcConfig.data # None]
    ELSE srcConfig

\* The effect of a changed enabled flag on both queries.
Enable(before, after) ==
    IF FetchOnDisk(after) /\ ~FetchOnDisk(before)
    THEN \E stale \in BOOLEAN :
           /\ srcConfig' = ConfigRefetched(srcConfig.data = None \/ stale)
           /\ srcResult' = Refetched(srcResult, srcResult.data = "unset" \/ stale)
    ELSE UNCHANGED <<srcConfig, srcResult>>

Loading == \/ srcLive = "loading"
           \/ srcConfig.busy /\ srcConfig.data = None
           \/ srcResult.busy /\ srcResult.data = "unset"

\* The early returns, in their order.
View ==
    IF srcLive = "live" /\ srcConfig.data = None THEN "live"
    ELSE IF Loading THEN "loading"
    ELSE IF srcConfig.failed THEN "error"
    ELSE IF srcConfig.data = None THEN "not found"
    ELSE IF srcResult.data = "ok" THEN "tests" ELSE "no result"

NoPops == [prev |-> None, delays |-> [t \in {} |-> 0], timer |-> FALSE]
\* The live view goes with its state.
PopsOfView == srcPops' = IF View' = "live" THEN srcPops ELSE NoPops

\* A poll of the live runs.
PollLive ==
    /\ srcLive' = IF srvRun.row THEN "live" ELSE "none"
    /\ srcDone' = IF srvRun.row THEN srvRun.done ELSE srcDone
    /\ Enable(srcLive, srcLive')
    /\ srcEarly' = (srcEarly \/ (srcConfig.failed /\ srcLive' = "none"
                                   /\ srcLive # "live"))
    /\ PopsOfView
    /\ UNCHANGED srvRun

ConfigAnswers ==
    /\ srcConfig.busy
    /\ srcConfig' = IF srvRun.files = "none"
                    THEN [srcConfig EXCEPT !.busy = FALSE, !.failed = TRUE]
                    ELSE [data |-> srvRun.files, failed |-> FALSE, busy |-> FALSE]
    /\ srcEarly' = (srcEarly \/ (srvRun.files = "none" /\ srcLive = "none"))
    /\ UNCHANGED <<srvRun, srcLive, srcDone, srcResult>>
    /\ PopsOfView

\* A missing result.json is an answer, not an error.
ResultAnswers ==
    /\ srcResult.busy
    /\ srcResult' = [data |-> IF srvRun.files = "done" THEN "ok" ELSE "null",
                     busy |-> FALSE]
    /\ UNCHANGED <<srvRun, srcLive, srcDone, srcConfig, srcPops, srcEarly>>

Retry ==
    /\ View = "error"
    /\ srcConfig' = ConfigRefetched(TRUE)
    /\ srcResult' = Refetched(srcResult, TRUE)
    /\ UNCHANGED <<srvRun, srcLive, srcDone, srcPops, srcEarly>>

-----------------------------------------------------------------------------
(* LiveRunDetailView. *)

\* The tile that pulses: the first test of the suite without a result. A tile
\* that pops does not pulse.
InProgress == IF srcDone < Total THEN srcDone + 1 ELSE None
Pulsing == {InProgress} \ (DOMAIN srcPops.delays \cup {None})

\* computeLiveEta: the time left at the pace so far.
EtaSeconds(elapsed, completed, total) ==
    IF completed <= 0 \/ total <= 0 \/ completed >= total THEN None
    ELSE (2 * elapsed * (total - completed) + completed) \div (2 * completed)

\* The delays of the tiles completed since prev, in order, up to a cap.
PopDelays(prev, done) ==
    [t \in done \ prev |-> Min({Cardinality({u \in done \ prev : u < t}), PopCap})]

\* The effect of [testData], which also runs when a limit is moved: its cleanup
\* stops the timer, and only newly completed tiles start another: a limit moved
\* while tiles pop leaves their delays standing. The first run pops nothing.
TileEffect ==
    LET done == 1..srcDone
    IN /\ View = "live"
       /\ srcPops' = IF srcPops.prev = None
                     THEN [srcPops EXCEPT !.prev = done]
                     ELSE IF done \ srcPops.prev = {}
                     THEN [srcPops EXCEPT !.timer = FALSE]
                     ELSE [prev |-> done, delays |-> PopDelays(srcPops.prev, done),
                           timer |-> TRUE]
       /\ UNCHANGED <<srvRun, srcLive, srcDone, srcConfig, srcResult, srcEarly>>

PopTimer ==
    /\ srcPops.timer
    /\ srcPops' = [srcPops EXCEPT !.delays = [t \in {} |-> 0], !.timer = FALSE]
    /\ UNCHANGED <<srvRun, srcLive, srcDone, srcConfig, srcResult, srcEarly>>

-----------------------------------------------------------------------------
SourceInit ==
    /\ \E row \in BOOLEAN, n \in 0..Total, f \in {"none", "running", "done"} :
         srvRun = [row |-> row, done |-> n, files |-> f]
    /\ srcLive = "loading" /\ srcDone = 0
    /\ srcConfig = [data |-> None, failed |-> FALSE, busy |-> TRUE]
    /\ srcResult = [data |-> "unset", busy |-> TRUE]
    /\ srcPops = NoPops /\ srcEarly = FALSE

SourceNext ==
    \/ Report \/ WriteConfig \/ FinishRun \/ RowGoes
    \/ PollLive \/ ConfigAnswers \/ ResultAnswers \/ Retry
    \/ TileEffect \/ PopTimer

SourceSpec == SourceInit /\ [][SourceNext]_sourceVars

-----------------------------------------------------------------------------
(* Properties. *)

\* Once the row of a finished run is gone and every answer is in, the page has
\* left the live view for the run's files: no combination of early, late and
\* failed fetches leaves it on an error, unless config.json had been missed
\* while no live row was there to come back from.
SettlesOnFiles ==
    (/\ ~srvRun.row /\ srvRun.files = "done" /\ srcLive = "none"
     /\ ~srcConfig.busy /\ ~srcResult.busy /\ ~srcEarly)
        => View \in {"tests", "no result"}
=============================================================================
