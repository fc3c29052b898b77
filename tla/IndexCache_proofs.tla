-------------------------- MODULE IndexCache_proofs --------------------------
(***************************************************************************)
(* The index cache never serves a stale body, for any number of mutations, *)
(* requests and restarts.                                                  *)
(***************************************************************************)
EXTENDS IndexCache, TLAPS

USE DEF ReaderAt, IdleReader, cacheVars

LEMMA InitCachingInv == Init => CachingInv
  <1> SUFFICES ASSUME Init PROVE CachingInv
    OBVIOUS
  <1>1. /\ table = {} /\ ~cached
        /\ \A r \in Reader : reader[r].pc = "idle"
        /\ \A m \in Mutation : mutator[m] = "new"
    BY DEF Init
  <1>2. TypeOK
    BY DEF Init, TypeOK
  <1>3. TableInv /\ CacheInv /\ ReaderInv /\ FreshResponse
    BY <1>1 DEF TableInv, CacheInv, ReaderInv, FreshResponse, Returned
  <1> QED
    BY <1>2, <1>3 DEF CachingInv

\* What a step of a mutator or a restart must preserve for the bodies in flight.
LEMMA CoversStep ==
  ASSUME TypeOK, TypeOK', NEW g \in Nat, NEW body, Covers(g, body),
         table \subseteq table', UNCHANGED reader,
         \/ gen' = gen + 1
         \/ gen' = gen /\ Settled' \subseteq Settled
  PROVE  Covers(g, body)'
  BY DEF Covers, TypeOK

LEMMA MutatorPreserves ==
  ASSUME CachingInv, NEW m \in Mutation, Commit(m) \/ Bump(m) \/ Reject(m)
  PROVE  CachingInv'
  <1> USE DEF CachingInv
  <1>1. TypeOK'
    <2>1. CASE Commit(m)
      BY <2>1 DEF TypeOK, Commit
    <2>2. CASE Bump(m)
      BY <2>2 DEF TypeOK, Bump
    <2>3. CASE Reject(m)
      BY <2>3 DEF TypeOK, Reject
    <2> QED
      BY <2>1, <2>2, <2>3
  <1>2. TableInv' /\ Returned \subseteq Returned'
    <2>1. CASE Commit(m)
      BY <2>1 DEF TypeOK, TableInv, Returned, Commit
    <2>2. CASE Bump(m)
      <3>1. /\ table' = table /\ mutator[m] = "committed" /\ m \in Mutation
            /\ mutator'[m] = "returned"
            /\ \A n \in Mutation \ {m} : mutator'[n] = mutator[n]
        BY <2>2 DEF Bump, TypeOK
      <3> QED
        BY <3>1 DEF TableInv, Returned, TypeOK
    <2>3. CASE Reject(m)
      BY <2>3 DEF TypeOK, TableInv, Returned, Reject
    <2> QED
      BY <2>1, <2>2, <2>3
  <1>3. /\ table \subseteq table' /\ UNCHANGED <<reader, cacheVars>>
        /\ \/ gen' = gen + 1
           \/ gen' = gen /\ Settled' \subseteq Settled
    <2>1. CASE Commit(m)
      <3>1. /\ table' = table \cup {m} /\ mutator'[m] = "committed"
            /\ \A n \in Mutation \ {m} : mutator'[n] = mutator[n]
        BY <2>1 DEF Commit, TypeOK
      <3>2. Settled' \subseteq Settled
        BY <3>1 DEF Settled, TypeOK
      <3> QED
        BY <2>1, <3>2 DEF Commit
    <2>2. CASE Bump(m)
      BY <2>2 DEF Bump
    <2>3. CASE Reject(m)
      <3>1. /\ table' = table /\ mutator[m] = "new"
            /\ \A n \in Mutation \ {m} : mutator'[n] = mutator[n]
        BY <2>3 DEF Reject, TypeOK
      <3>2. Settled' \subseteq Settled
        BY <3>1 DEF Settled, TableInv, TypeOK
      <3> QED
        BY <2>3, <3>2 DEF Reject
    <2> QED
      BY <2>1, <2>2, <2>3
  <1>4. CacheInv'
    BY <1>1, <1>3, CoversStep DEF CacheInv, TypeOK
  <1>5. ReaderInv'
    BY <1>1, <1>2, <1>3, CoversStep DEF ReaderInv, TypeOK
  <1>6. FreshResponse'
    BY <1>3 DEF FreshResponse
  <1> QED
    BY <1>1, <1>2, <1>4, <1>5, <1>6

\* A step of a request keeps the bodies of the others served, because only a
\* request that comes in now can be owed more, and what it is owed has settled.
LEMMA ReaderPreserves ==
  ASSUME CachingInv, NEW r \in Reader,
         \/ ReadGeneration(r) \/ CacheHit(r) \/ CacheMiss(r) \/ ListAllRuns(r)
         \/ ListFails(r) \/ StoreCachedIndex(r) \/ Respond(r)
  PROVE  CachingInv'
  <1> USE DEF CachingInv
  <1>0. UNCHANGED <<table, mutator, gen>>
    BY DEF ReadGeneration, CacheHit, CacheMiss, ListAllRuns, ListFails,
           StoreCachedIndex, Respond
  <1>1. TableInv' /\ Settled' = Settled /\ Returned' = Returned
        /\ Returned \subseteq Settled
    BY <1>0 DEF TableInv, Settled, Returned, TypeOK
  <1>2. TypeOK'
    <2>1. CASE ReadGeneration(r)
      BY <2>1 DEF TypeOK, ReadGeneration, Returned
    <2>2. CASE CacheHit(r)
      BY <2>2 DEF TypeOK, CacheHit, SetReader
    <2>3. CASE CacheMiss(r)
      BY <2>3 DEF TypeOK, CacheMiss, SetReader
    <2>4. CASE ListAllRuns(r)
      BY <2>4 DEF TypeOK, ListAllRuns, SetReader
    <2>5. CASE ListFails(r) \/ Respond(r)
      BY <2>5 DEF TypeOK, ListFails, Respond
    <2>6. CASE StoreCachedIndex(r)
      BY <2>6 DEF TypeOK, StoreCachedIndex, SetReader
    <2> QED
      BY <2>1, <2>2, <2>3, <2>4, <2>5, <2>6
  <1>3. \A q \in Reader : q # r => reader'[q] = reader[q]
    BY DEF TypeOK, ReadGeneration, CacheHit, CacheMiss, ListAllRuns, ListFails,
           StoreCachedIndex, Respond, SetReader
  <1>4. reader'[r].pc = "lookup" => /\ reader'[r].gen = gen
                                   /\ reader'[r].due = Returned
    BY DEF TypeOK, ReadGeneration, CacheHit, CacheMiss, ListAllRuns, ListFails,
           StoreCachedIndex, Respond, SetReader
  <1>5. ASSUME NEW g, NEW body, Covers(g, body)
        PROVE  Covers(g, body)'
    BY <1>0, <1>1, <1>3, <1>4, <1>5 DEF Covers
  <1>6. CASE ReadGeneration(r)
    <2>1. reader'[r] = ReaderAt("lookup", gen, {}, Returned)
          /\ UNCHANGED cacheVars
      BY <1>6 DEF ReadGeneration, TypeOK
    <2> QED
      BY <1>0, <1>1, <1>2, <1>3, <1>5, <2>1 DEF CacheInv, ReaderInv,
         FreshResponse, TypeOK
  <1>7. CASE CacheHit(r)
    <2>1. /\ reader[r].pc = "lookup" /\ cached /\ cacheGen = reader[r].gen
          /\ reader'[r] = ReaderAt("served", reader[r].gen, cacheBody,
                                   reader[r].due)
          /\ UNCHANGED cacheVars
      BY <1>7 DEF CacheHit, SetReader, TypeOK
    <2>2. reader[r].due \subseteq cacheBody
      BY <2>1 DEF CacheInv, Covers
    <2> QED
      BY <1>0, <1>1, <1>2, <1>3, <1>5, <2>1, <2>2 DEF CacheInv, ReaderInv,
         FreshResponse
  <1>8. CASE CacheMiss(r)
    <2>1. /\ reader[r].pc = "lookup"
          /\ reader'[r] = ReaderAt("list", reader[r].gen, {}, reader[r].due)
          /\ UNCHANGED cacheVars
      BY <1>8 DEF CacheMiss, SetReader, TypeOK
    <2> QED
      BY <1>0, <1>1, <1>2, <1>3, <1>5, <2>1 DEF CacheInv, ReaderInv,
         FreshResponse
  <1>9. CASE ListAllRuns(r)
    <2>1. /\ reader[r].pc = "list"
          /\ reader'[r] = ReaderAt("store", reader[r].gen, table, reader[r].due)
          /\ UNCHANGED cacheVars
      BY <1>9 DEF ListAllRuns, SetReader, TypeOK
    <2>2. Covers(reader[r].gen, table) /\ reader[r].due \subseteq table
      BY <1>1, <2>1 DEF Covers, ReaderInv, Settled, TableInv
    <2> QED
      BY <1>0, <1>1, <1>2, <1>3, <1>5, <2>1, <2>2 DEF CacheInv, ReaderInv,
         FreshResponse
  <1>10. CASE ListFails(r) \/ Respond(r)
    <2>1. reader'[r] = IdleReader /\ UNCHANGED cacheVars
      BY <1>10 DEF ListFails, Respond, TypeOK
    <2> QED
      BY <1>0, <1>1, <1>2, <1>3, <1>5, <2>1 DEF CacheInv, ReaderInv,
         FreshResponse
  <1>11. CASE StoreCachedIndex(r)
    <2>1. /\ reader[r].pc = "store"
          /\ reader'[r] = ReaderAt("served", reader[r].gen, reader[r].body,
                                   reader[r].due)
          /\ \/ UNCHANGED cacheVars
             \/ cacheGen' = reader[r].gen /\ cacheBody' = reader[r].body
      BY <1>11 DEF StoreCachedIndex, SetReader, TypeOK
    <2>2. /\ Covers(reader[r].gen, reader[r].body)
          /\ reader[r].due \subseteq reader[r].body
      BY <2>1 DEF ReaderInv
    <2>3. CacheInv'
      BY <1>5, <2>1, <2>2 DEF CacheInv
    <2>4. ReaderInv'
      BY <1>0, <1>1, <1>3, <1>5, <2>1 DEF ReaderInv
    <2>5. FreshResponse'
      BY <1>3, <2>1, <2>2 DEF FreshResponse
    <2> QED
      BY <1>1, <1>2, <2>3, <2>4, <2>5
  <1> QED
    BY <1>6, <1>7, <1>8, <1>9, <1>10, <1>11

LEMMA RestartPreserves ==
  ASSUME CachingInv, Restart
  PROVE  CachingInv'
  <1>1. /\ ~cached' /\ table' = table
        /\ \A r \in Reader : reader'[r].pc = "idle"
    BY DEF Restart
  <1>2. TypeOK'
    <2>1. mutator' \in [Mutation -> {"new", "committed", "returned", "lost"}]
      BY DEF CachingInv, TypeOK, Restart
    <2>2. reader' \in [Reader -> [pc : {"idle", "lookup", "list", "store", "served"},
                                  gen : Nat,
                                  body : SUBSET Mutation,
                                  due : SUBSET Mutation]]
      BY DEF Restart
    <2>3. gen' \in Nat /\ cacheGen' \in Nat /\ restarts' \in Nat
      BY DEF CachingInv, TypeOK, Restart
    <2>4. table' \subseteq Mutation /\ cacheBody' \subseteq Mutation
      BY DEF CachingInv, TypeOK, Restart
    <2>5. cached' \in BOOLEAN
      BY DEF Restart
    <2> QED
      BY <2>1, <2>2, <2>3, <2>4, <2>5 DEF TypeOK
  <1>3. TableInv'
    BY DEF CachingInv, TypeOK, TableInv, Restart, Returned
  <1>4. CacheInv' /\ ReaderInv' /\ FreshResponse'
    BY <1>1 DEF CacheInv, ReaderInv, FreshResponse
  <1> QED
    BY <1>2, <1>3, <1>4 DEF CachingInv

\* The invariant of the cache holds for any number of mutations and requests.
THEOREM CachingInvariant == Spec => []CachingInv
  <1>1. ASSUME CachingInv, UNCHANGED vars PROVE CachingInv'
    BY <1>1 DEF CachingInv, TypeOK, TableInv, CacheInv, ReaderInv, FreshResponse,
                Covers, Settled, Returned, vars
  <1>2. CachingInv /\ [Next]_vars => CachingInv'
    BY <1>1, MutatorPreserves, ReaderPreserves, RestartPreserves DEF Next
  <1> QED
    BY <1>2, InitCachingInv, PTL DEF Spec

\* No response misses a mutation that had returned before the request came in.
THEOREM ResponsesAreFresh == Spec => []FreshResponse
  <1>1. CachingInv => FreshResponse
    BY DEF CachingInv
  <1> QED
    BY <1>1, CachingInvariant, PTL

\* A body that would be served once the mutations have settled is the table.
THEOREM CacheIsCurrent == Spec => []CacheCurrent
  <1>1. CachingInv => CacheCurrent
    BY DEF CachingInv, CacheInv, Covers, Settled, CacheCurrent, TypeOK
  <1> QED
    BY <1>1, CachingInvariant, PTL

=============================================================================
