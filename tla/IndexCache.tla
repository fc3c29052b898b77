----------------------------- MODULE IndexCache -----------------------------
(***************************************************************************)
(* The cached body of GET /index. Mutators of the runs table commit and    *)
(* then bump a generation counter; readers read the counter, then use the  *)
(* cached body of that generation or build one from the table and store it *)
(* under the generation they read. No lock covers more than one step.      *)
(*                                                                         *)
(* A mutation is UpsertRun, DeleteRun, DeleteRunCascade,                   *)
(* MarkRunForDeletion, SetRunDeletionError or UnmarkRunForDeletion: they   *)
(* differ in what they write, not in how they commit and bump. The table   *)
(* is abstracted to the set of mutations it reflects.                      *)
(***************************************************************************)
EXTENDS Naturals

CONSTANTS
    Mutation,    \* calls of the store's mutators
    Reader,      \* requests for the index served at a time
    MaxRestarts  \* bound on restarts of the server

VARIABLES
    table,      \* the mutations that the runs table reflects
    mutator,    \* how far each mutation is
    gen,        \* runsGen
    cacheGen,   \* indexCacheGen
    cached,     \* whether indexCacheBody is set
    cacheBody,  \* indexCacheBody
    reader,     \* what each request is doing, and what it may not miss
    restarts

cacheVars == <<cacheGen, cached, cacheBody>>
vars == <<table, mutator, gen, cacheVars, reader, restarts>>

\* Mutations whose call has returned.
Returned == {m \in Mutation : mutator[m] = "returned"}

\* The local variables of handleIndex. due is not one of them: it holds the
\* mutations that had returned when the request read the generation.
ReaderAt(pc, g, body, due) == [pc |-> pc, gen |-> g, body |-> body, due |-> due]
IdleReader == ReaderAt("idle", 0, {}, {})

TypeOK ==
    /\ table \subseteq Mutation
    /\ mutator \in [Mutation -> {"new", "committed", "returned", "lost"}]
    /\ gen \in Nat
    /\ cacheGen \in Nat
    /\ cached \in BOOLEAN
    /\ cacheBody \subseteq Mutation
    /\ reader \in [Reader -> [pc : {"idle", "lookup", "list", "store", "served"},
                              gen : Nat,
                              body : SUBSET Mutation,
                              due : SUBSET Mutation]]
    /\ restarts \in Nat

-----------------------------------------------------------------------------
(* The mutators. *)

\* The transaction commits.
Commit(m) ==
    /\ mutator[m] = "new"
    /\ mutator' = [mutator EXCEPT ![m] = "committed"]
    /\ table' = table \cup {m}
    /\ UNCHANGED <<gen, cacheVars, reader, restarts>>

\* Mutant of Bump: a mutator that forgets the generation.
NoBump(m) ==
    /\ mutator[m] = "committed"
    /\ mutator' = [mutator EXCEPT ![m] = "returned"]
    /\ UNCHANGED <<table, gen, cacheVars, reader, restarts>>

\* runsGen.Add(1), and the call returns.
Bump(m) ==
    /\ mutator[m] = "committed"
    /\ mutator' = [mutator EXCEPT ![m] = "returned"]
    /\ gen' = gen + 1
    /\ UNCHANGED <<table, cacheVars, reader, restarts>>

\* The transaction fails, or it changes no row: no bump.
Reject(m) ==
    /\ mutator[m] = "new"
    /\ mutator' = [mutator EXCEPT ![m] = "lost"]
    /\ UNCHANGED <<table, gen, cacheVars, reader, restarts>>

-----------------------------------------------------------------------------
(* handleIndex. *)

SetReader(r, pc, body) ==
    reader' = [reader EXCEPT ![r] = ReaderAt(pc, @.gen, body, @.due)]

ReadGeneration(r) ==
    /\ reader[r].pc = "idle"
    /\ reader' = [reader EXCEPT ![r] = ReaderAt("lookup", gen, {}, Returned)]
    /\ UNCHANGED <<table, mutator, gen, cacheVars, restarts>>

CacheHit(r) ==
    /\ reader[r].pc = "lookup"
    /\ cached /\ cacheGen = reader[r].gen
    /\ SetReader(r, "served", cacheBody)
    /\ UNCHANGED <<table, mutator, gen, cacheVars, restarts>>

CacheMiss(r) ==
    /\ reader[r].pc = "lookup"
    /\ ~cached \/ cacheGen # reader[r].gen
    /\ SetReader(r, "list", {})
    /\ UNCHANGED <<table, mutator, gen, cacheVars, restarts>>

ListAllRuns(r) ==
    /\ reader[r].pc = "list"
    /\ SetReader(r, "store", table)
    /\ UNCHANGED <<table, mutator, gen, cacheVars, restarts>>

\* Listing or encoding fails: the request ends with an error.
ListFails(r) ==
    /\ reader[r].pc = "list"
    /\ reader' = [reader EXCEPT ![r] = IdleReader]
    /\ UNCHANGED <<table, mutator, gen, cacheVars, restarts>>

\* Mutant of StoreCachedIndex: the body is stored under the current generation.
StoreUnderCurrent(r) ==
    /\ reader[r].pc = "store"
    /\ cached' = TRUE /\ cacheGen' = gen /\ cacheBody' = reader[r].body
    /\ SetReader(r, "served", reader[r].body)
    /\ UNCHANGED <<table, mutator, gen, restarts>>

\* A build for an older generation never replaces a newer body.
StoreCachedIndex(r) ==
    /\ reader[r].pc = "store"
    /\ \/ /\ ~cached \/ reader[r].gen >= cacheGen
          /\ cached' = TRUE
          /\ cacheGen' = reader[r].gen /\ cacheBody' = reader[r].body
       \/ /\ cached /\ reader[r].gen < cacheGen
          /\ UNCHANGED cacheVars
    /\ SetReader(r, "served", reader[r].body)
    /\ UNCHANGED <<table, mutator, gen, restarts>>

Respond(r) ==
    /\ reader[r].pc = "served"
    /\ reader' = [reader EXCEPT ![r] = IdleReader]
    /\ UNCHANGED <<table, mutator, gen, cacheVars, restarts>>

-----------------------------------------------------------------------------

\* The server restarts: only the table survives. A mutation that had committed
\* is in the table although its call never returned.
Restart ==
    /\ restarts < MaxRestarts
    /\ restarts' = restarts + 1
    /\ gen' = 0
    /\ cached' = FALSE /\ cacheGen' = 0 /\ cacheBody' = {}
    /\ reader' = [r \in Reader |-> IdleReader]
    /\ mutator' = [m \in Mutation |->
                     IF mutator[m] = "committed" THEN "lost" ELSE mutator[m]]
    /\ UNCHANGED table

Init ==
    /\ table = {}
    /\ mutator = [m \in Mutation |-> "new"]
    /\ gen = 0
    /\ cached = FALSE /\ cacheGen = 0 /\ cacheBody = {}
    /\ reader = [r \in Reader |-> IdleReader]
    /\ restarts = 0

Next ==
    \/ \E m \in Mutation : Commit(m) \/ Bump(m) \/ Reject(m)
    \/ \E r \in Reader : \/ ReadGeneration(r) \/ CacheHit(r) \/ CacheMiss(r)
                        \/ ListAllRuns(r) \/ ListFails(r) \/ StoreCachedIndex(r)
                        \/ Respond(r)
    \/ Restart

Spec == Init /\ [][Next]_vars

-----------------------------------------------------------------------------
(* Properties. *)

\* A response reflects every mutation whose call had returned when the request
\* came in, whatever mutations and other requests did meanwhile: an administrator
\* who queues a run sees it queued on the next load.
FreshResponse ==
    \A r \in Reader : reader[r].pc = "served"
                       => reader[r].due \subseteq reader[r].body

\* Once no mutation is between its commit and its bump, a cached body that
\* would be served is the table: no stale body outlives the mutations.
CacheCurrent ==
    /\ cached /\ cacheGen = gen
    /\ \A m \in Mutation : mutator[m] # "committed"
    => cacheBody = table

-----------------------------------------------------------------------------
(* The inductive invariant. *)

\* The mutations in the table that no longer wait for their bump.
Settled == {m \in table : mutator[m] # "committed"}

\* What has committed is in the table.
TableInv ==
    \A m \in Mutation :
      /\ mutator[m] \in {"committed", "returned"} => m \in table
      /\ m \in table => mutator[m] # "new"

\* A body, and the generation it was built under, that may still be served:
\* what has settled under this generation, or had returned before a reader of
\* this generation came in, is in the body.
Covers(g, body) ==
    /\ body \subseteq table
    /\ g <= gen
    /\ g = gen => Settled \subseteq body
    /\ \A r \in Reader : reader[r].pc = "lookup" /\ reader[r].gen = g
                           => reader[r].due \subseteq body

CacheInv == cached => Covers(cacheGen, cacheBody)

ReaderInv ==
    \A q \in Reader :
      /\ reader[q].pc # "idle" => /\ reader[q].gen <= gen
                                 /\ reader[q].due \subseteq Returned
      /\ reader[q].pc = "store" => /\ Covers(reader[q].gen, reader[q].body)
                                  /\ reader[q].due \subseteq reader[q].body

CachingInv == TypeOK /\ TableInv /\ CacheInv /\ ReaderInv /\ FreshResponse

=============================================================================
