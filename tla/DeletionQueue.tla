--------------------------- MODULE DeletionQueue ---------------------------
(***************************************************************************)
(* What the deletion queue promises an administrator. A run leaves the     *)
(* index only by a request of its own. Asking takes a ticket and queuing   *)
(* uses one, in any order; but a request that was queued before another    *)
(* was asked for is tried before the other is carried out. A request that  *)
(* fails keeps its place and is passed over until the next drain; its      *)
(* error may be lost. The worker reads the queue once per drain: what is   *)
(* queued later waits, and what is taken back later is deleted all the     *)
(* same. Storage, the indexer and the rest of the database are left out.   *)
(***************************************************************************)
EXTENDS Naturals

CONSTANT Runs

VARIABLES
    indexed,    \* runs that the index lists
    place,      \* the ticket of a run's request in the queue; 0 is none
    since,      \* the newest ticket when that request was queued
    failed,     \* whether an error of that request is shown
    drain,      \* the tickets of the requests still to carry out in this drain
    tried,      \* the runs that this drain is done with
    newest      \* the newest ticket

queueVars == <<indexed, place, since, failed, drain, tried, newest>>

Nobody == [r \in Runs |-> 0]

QueueInit ==
    /\ indexed = {} /\ tried = {} /\ newest = 0
    /\ place = Nobody /\ since = Nobody /\ drain = Nobody
    /\ failed = [r \in Runs |-> FALSE]

Enter(r) ==
    /\ r \notin indexed /\ place[r] = 0
    /\ indexed' = indexed \cup {r}
    /\ UNCHANGED <<place, since, failed, drain, tried, newest>>

Ask ==
    /\ newest' = newest + 1
    /\ UNCHANGED <<indexed, place, since, failed, drain, tried>>

Request(r) ==
    /\ r \in indexed /\ place[r] = 0
    /\ \E n \in 1..newest : place' = [place EXCEPT ![r] = n]
    /\ since' = [since EXCEPT ![r] = newest]
    /\ failed' = [failed EXCEPT ![r] = FALSE]
    /\ UNCHANGED <<indexed, drain, tried, newest>>

\* The request of a run is gone, with its error.
Forget(r) ==
    /\ place' = [place EXCEPT ![r] = 0]
    /\ since' = [since EXCEPT ![r] = 0]
    /\ failed' = [failed EXCEPT ![r] = FALSE]

TakeBack(r) ==
    /\ r \in indexed /\ place[r] # 0
    /\ Forget(r)
    /\ UNCHANGED <<indexed, drain, tried, newest>>

BeginDrain ==
    /\ drain = Nobody
    /\ drain' = place
    /\ tried' = {}
    /\ UNCHANGED <<indexed, place, since, failed, newest>>

\* Every request queued before that of r was asked for has been tried.
OldersTried(r) ==
    \A p \in indexed : place[p] # 0 /\ since[p] < drain[r] => p \in tried

\* The drain goes on without r, or ends.
Strike(r) ==
    /\ drain' = [drain EXCEPT ![r] = 0]
    /\ tried' = IF drain' = Nobody THEN {} ELSE tried \cup {r}

Delete(r) ==
    /\ r \in indexed /\ drain[r] # 0
    /\ OldersTried(r)
    /\ indexed' = indexed \ {r}
    /\ Forget(r)
    /\ Strike(r)
    /\ UNCHANGED newest

Fail(r) ==
    /\ r \in indexed /\ drain[r] # 0
    /\ OldersTried(r)
    /\ failed' \in {failed, [failed EXCEPT ![r] = TRUE]}
    /\ Strike(r)
    /\ UNCHANGED <<indexed, place, since, newest>>

\* The server stops; the requests are in the database.
Stop ==
    /\ drain' = Nobody
    /\ tried' = {}
    /\ UNCHANGED <<indexed, place, since, failed, newest>>

QueueNext ==
    \/ \E r \in Runs : \/ Enter(r) \/ Request(r) \/ TakeBack(r)
                      \/ Delete(r) \/ Fail(r)
    \/ Ask \/ BeginDrain \/ Stop

QueueSpec == QueueInit /\ [][QueueNext]_queueVars
=============================================================================
