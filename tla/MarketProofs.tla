----------------------------- MODULE MarketProofs -----------------------------
(***************************************************************************)
(* Proofs about the market benchmarks, for any number of ingestions and    *)
(* lookups, any disclosure files and any streams that break off: nothing   *)
(* but an ingestion makes the lookup cache wrong, an ingestion lands       *)
(* whole, and what it reports is in order and adds up.                     *)
(***************************************************************************)
EXTENDS MarketBenchmarks, FiniteSums

------------------------------------------------------------------------------
(* Lookups.  A reader that is about to store has a row the table still has, *)
(* or its cohort has been ingested since.                                  *)

ReaderOK(t) ==
  t # Idle =>
    /\ t = [ pc |-> t.pc, cohort |-> t.cohort, source |-> t.source, found |-> t.found ]
    /\ t.pc \in {"lookup", "query", "store"}
    /\ CacheKeyOf(t.cohort, t.source) \in CacheKey
    /\ t.pc = "store" =>
         /\ t.found.key.cohort = t.cohort
         /\ \/ CacheKeyOf(t.cohort, t.source) \in outdated
            \/ t.found \in Newest(t.cohort, t.source)

LookupInv ==
  /\ cache = [k \in CacheKey |-> cache[k]]
  /\ txn = [s \in Job \cup Reader |-> txn[s]]
  /\ \A s \in Reader : ReaderOK(txn[s])
  /\ \A k \in CacheKey : cache[k] # NoValue => cache[k].key.cohort = k[2]
  /\ \A k \in CacheKey : Stale(k) => k \in outdated
  /\ outdated \subseteq CacheKey

LEMMA ReadersAreNoJobs == \A s \in Reader : s \notin Job
BY MarketAssumption

\* The cache key of a lookup names its cohort and its source.
LEMMA KeyOfLookup ==
  ASSUME NEW k \in CacheKey, NEW cohort, NEW source, k = CacheKeyOf(cohort, source)
  PROVE  k[2] = cohort /\ k[3] = source
BY DEF CacheKeyOf

LEMMA LookupInvInit == Init => LookupInv
<1>. SUFFICES ASSUME Init PROVE LookupInv
  OBVIOUS
<1>1. \A s \in Reader : txn[s] = Idle
  BY ReadersAreNoJobs DEF Init
<1>2. \A k \in CacheKey : cache[k] = NoValue
  BY DEF Init
<1>3. cache = [k \in CacheKey |-> cache[k]] /\ txn = [s \in Job \cup Reader |-> txn[s]]
  BY DEF Init
<1>4. outdated = {}
  BY DEF Init
<1>. QED
  BY <1>1, <1>2, <1>3, <1>4 DEF LookupInv, ReaderOK, Stale

\* A step of one request that leaves the cache alone, and the table as a lookup sees it.
LEMMA RequestMoves ==
  ASSUME LookupInv, NEW s \in Job \cup Reader, NEW u, txn' = [txn EXCEPT ![s] = u],
         s \in Reader => ReaderOK(u)', UNCHANGED cache, outdated' \subseteq CacheKey,
         \A k \in CacheKey :
           k \in outdated' \/ (Newest(k[2], k[3])' = Newest(k[2], k[3]) /\ k \notin outdated)
             \/ (/\ cache[k] = NoValue /\ Newest(k[2], k[3])' = Newest(k[2], k[3])
                 /\ \A o \in Reader \ {s} :
                      ~ (txn[o].pc = "store" /\ CacheKeyOf(txn[o].cohort, txn[o].source) = k))
  PROVE  LookupInv'
<1>1. /\ txn' = [t \in Job \cup Reader |-> txn'[t]]
      /\ txn'[s] = u
      /\ \A t \in (Job \cup Reader) \ {s} : txn'[t] = txn[t]
  BY DEF LookupInv
<1>2. ASSUME NEW t \in Reader PROVE ReaderOK(txn[t])'
  <2>1. CASE t = s
    <3>. QED
      BY <1>1, <2>1
  <2>2. CASE t # s
    <3>1. PICK v : v = txn[t]
      OBVIOUS
    <3>2. txn'[t] = v /\ ReaderOK(v)
      BY <1>1, <2>2, <3>1 DEF LookupInv
    <3>3. ASSUME v # Idle, v.pc = "store"
          PROVE  \/ CacheKeyOf(v.cohort, v.source) \in outdated'
                 \/ v.found \in Newest(v.cohort, v.source)'
      <4>1. PICK k \in CacheKey : k = CacheKeyOf(v.cohort, v.source)
        BY <3>2, <3>3 DEF ReaderOK
      <4>2. k[2] = v.cohort /\ k[3] = v.source
        BY <4>1, KeyOfLookup
      <4>3. k \in outdated \/ v.found \in Newest(k[2], k[3])
        BY <3>2, <3>3, <4>1, <4>2 DEF ReaderOK
      <4>4. k \in outdated' \/ v.found \in Newest(k[2], k[3])'
        BY <2>2, <3>1, <3>3, <4>1, <4>3
      <4>. QED
        BY <4>1, <4>2, <4>4
    <3>4. ReaderOK(v)'
      BY <3>2, <3>3 DEF ReaderOK, CacheKeyOf
    <3>. QED
      BY <3>2, <3>4
  <2>. QED
    BY <2>1, <2>2
<1>3. ASSUME NEW k \in CacheKey PROVE (Stale(k) => k \in outdated)'
  <2>1. k \in outdated' \/ Newest(k[2], k[3])' = Newest(k[2], k[3])
    OBVIOUS
  <2>. QED
    BY <2>1 DEF Stale, LookupInv
<1>. QED
  BY <1>1, <1>2, <1>3 DEF LookupInv
LEMMA TableStands ==
  ASSUME UNCHANGED table
  PROVE  \A cohort, source : Newest(cohort, source)' = Newest(cohort, source)
BY DEF Newest

\* What an ingestion does before its commit.
LEMMA JobKeepsLookups ==
  ASSUME LookupInv, NEW j \in Job, NEW u, txn' = [txn EXCEPT ![j] = u],
         UNCHANGED <<cache, tableVars>>
  PROVE  LookupInv'
<1>1. j \notin Reader
  BY ReadersAreNoJobs
<1>2. \A k \in CacheKey :
        k \in outdated' \/ (Newest(k[2], k[3])' = Newest(k[2], k[3]) /\ k \notin outdated)
  BY TableStands DEF tableVars
<1>3. outdated' \subseteq CacheKey
  BY DEF LookupInv, tableVars
<1>. QED
  BY <1>1, <1>2, <1>3, RequestMoves DEF tableVars

LEMMA CommitKeepsLookups ==
  ASSUME LookupInv, NEW j \in Job, Commit(j)
  PROVE  LookupInv'
<1>1. PICK cohorts : cohorts = { key.cohort : key \in txn[j].wrote }
  OBVIOUS
<1>2. /\ txn' = [txn EXCEPT ![j] = Done]
      /\ outdated' = outdated \cup { k \in CacheKey : k[2] \in cohorts }
      /\ UNCHANGED cache
  BY <1>1 DEF Commit
<1>3. /\ DOMAIN table' = DOMAIN table \cup txn[j].wrote
      /\ \A key \in DOMAIN table' : key \notin txn[j].wrote => table'[key] = table[key]
  BY DEF Commit
<1>4. ASSUME NEW cohort, NEW source, cohort \notin cohorts
      PROVE  Newest(cohort, source)' = Newest(cohort, source)
  <2>1. \A key \in DOMAIN table' : key.cohort = cohort => key \in DOMAIN table /\ table'[key] = table[key]
    BY <1>1, <1>3, <1>4
  <2>2. \A key \in DOMAIN table : key \in DOMAIN table'
    BY <1>3
  <2>. DEFINE mine(t) == { k \in DOMAIN t : k.cohort = cohort /\ source \in {"DEFAULT", k.source} }
  <2>3. mine(table') = mine(table)
    BY <2>1, <2>2
  <2>4. \A k \in mine(table) : table'[k] = table[k]
    BY <2>1, <2>3
  <2>. QED
    BY <2>3, <2>4 DEF Newest
<1>5. \A k \in CacheKey :
        k \in outdated' \/ (Newest(k[2], k[3])' = Newest(k[2], k[3]) /\ k \notin outdated)
  BY <1>2, <1>4
<1>6. j \notin Reader
  BY ReadersAreNoJobs
<1>7. outdated' \subseteq CacheKey
  BY <1>2 DEF LookupInv
<1>. QED
  BY <1>2, <1>5, <1>6, <1>7, RequestMoves

LEMMA JobStepKeepsLookups ==
  ASSUME LookupInv, NEW j \in Job,
         \/ \E run : BeginRun(j, run)
         \/ BeginSeed(j) \/ ReturnReport(j) \/ SelectRow(j) \/ WriteRow(j) \/ Commit(j)
  PROVE  LookupInv'
<1>1. CASE \E run : BeginRun(j, run)
  BY <1>1, JobKeepsLookups DEF BeginRun
<1>2. CASE BeginSeed(j)
  BY <1>2, JobKeepsLookups DEF BeginSeed
<1>3. CASE ReturnReport(j)
  BY <1>3, JobKeepsLookups DEF ReturnReport
<1>4. CASE SelectRow(j)
  BY <1>4, JobKeepsLookups DEF SelectRow
<1>5. CASE WriteRow(j)
  BY <1>5, JobKeepsLookups DEF WriteRow
<1>6. CASE Commit(j)
  BY <1>6, CommitKeepsLookups
<1>. QED
  BY <1>1, <1>2, <1>3, <1>4, <1>5, <1>6

\* A reader's step that changes no table.
LEMMA ReaderMoves ==
  ASSUME LookupInv, NEW s \in Reader, NEW u, txn' = [txn EXCEPT ![s] = u],
         ReaderOK(u)', UNCHANGED <<cache, tableVars>>
  PROVE  LookupInv'
<1>1. \A k \in CacheKey :
        k \in outdated' \/ (Newest(k[2], k[3])' = Newest(k[2], k[3]) /\ k \notin outdated)
  BY TableStands DEF tableVars
<1>2. outdated' \subseteq CacheKey
  BY DEF LookupInv, tableVars
<1>. QED
  BY <1>1, <1>2, RequestMoves DEF tableVars

LEMMA BeginLookupKeeps ==
  ASSUME LookupInv, NEW s \in Reader, NEW k \in CacheKey, BeginLookup(s, k[2], k[3])
  PROVE  LookupInv'
<1>1. PICK u : u = [ pc |-> "lookup", cohort |-> k[2], source |-> k[3], found |-> NoValue ]
  OBVIOUS
<1>2. u.pc = "lookup" /\ u.cohort = k[2] /\ u.source = k[3] /\ u.found = NoValue
  BY <1>1
<1>3. CacheKeyOf(k[2], k[3]) \in CacheKey
  BY MarketAssumption DEF CacheKeyOf
<1>4. ReaderOK(u)'
  BY <1>1, <1>2, <1>3 DEF ReaderOK, CacheKeyOf
<1>. QED
  BY <1>1, <1>4, ReaderMoves DEF BeginLookup

LEMMA IdleReader == ReaderOK(Idle)'
BY DEF ReaderOK

LEMMA LookupKeeps ==
  ASSUME LookupInv, NEW s \in Reader, Lookup(s)
  PROVE  LookupInv'
<1>1. PICK t : t = txn[s]
  OBVIOUS
<1>2. PICK u : u = [t EXCEPT !.pc = "query"]
  OBVIOUS
<1>3. t # Idle
  BY <1>1 DEF Lookup, Idle
<1>4. t = [ pc |-> t.pc, cohort |-> t.cohort, source |-> t.source, found |-> t.found ]
      /\ CacheKeyOf(t.cohort, t.source) \in CacheKey
  BY <1>1, <1>3 DEF LookupInv, ReaderOK
<1>5. u = [ pc |-> "query", cohort |-> t.cohort, source |-> t.source, found |-> t.found ]
  BY <1>2, <1>4
<1>6. ReaderOK(u)'
  BY <1>4, <1>5 DEF ReaderOK, CacheKeyOf
<1>7. txn' = [txn EXCEPT ![s] = Idle] \/ txn' = [txn EXCEPT ![s] = u]
  BY <1>1, <1>2 DEF Lookup
<1>. QED
  BY <1>6, <1>7, IdleReader, ReaderMoves DEF Lookup

LEMMA QueryKeeps ==
  ASSUME LookupInv, NEW s \in Reader, Query(s)
  PROVE  LookupInv'
<1>1. PICK t : t = txn[s]
  OBVIOUS
<1>2. t # Idle
  BY <1>1 DEF Query, Idle
<1>3. t = [ pc |-> t.pc, cohort |-> t.cohort, source |-> t.source, found |-> t.found ]
      /\ CacheKeyOf(t.cohort, t.source) \in CacheKey
  BY <1>1, <1>2 DEF LookupInv, ReaderOK
<1>4. PICK k \in CacheKey : k = CacheKeyOf(t.cohort, t.source)
  BY <1>3
<1>5. k[2] = t.cohort /\ k[3] = t.source /\ MyKey(s) = k
  BY <1>1, <1>4, KeyOfLookup DEF MyKey
<1>6. CASE Newest(t.cohort, t.source) = {}
  BY <1>1, <1>6, IdleReader, ReaderMoves DEF Query, tableVars
<1>7. CASE Newest(t.cohort, t.source) # {}
  <2>1. PICK found \in Newest(t.cohort, t.source) :
          txn' = [txn EXCEPT ![s].pc = "store", ![s].found = found]
    BY <1>1, <1>7 DEF Query
  <2>2. /\ UNCHANGED <<cache, table>>
        /\ outdated' = IF cache[k] = NoValue /\ Sole(s) THEN outdated \ {k} ELSE outdated
    BY <1>1, <1>5, <1>7 DEF Query
  <2>3. PICK u : u = [ pc |-> "store", cohort |-> t.cohort, source |-> t.source, found |-> found ]
    OBVIOUS
  <2>4. txn' = [txn EXCEPT ![s] = u]
    <3>1. PICK mid : mid = [txn EXCEPT ![s].pc = "store"]
      OBVIOUS
    <3>2. txn' = [mid EXCEPT ![s].found = found]
      BY <2>1, <3>1
    <3>3. [t EXCEPT !.pc = "store"]
            = [ pc |-> "store", cohort |-> t.cohort, source |-> t.source, found |-> t.found ]
      BY <1>3
    <3>4. txn = [r \in Job \cup Reader |-> txn[r]] /\ s \in Job \cup Reader
      BY DEF LookupInv
    <3>5. /\ mid = [r \in Job \cup Reader |-> mid[r]]
          /\ mid[s] = [ pc |-> "store", cohort |-> t.cohort, source |-> t.source,
                        found |-> t.found ]
          /\ \A r \in (Job \cup Reader) \ {s} : mid[r] = txn[r]
      BY <1>1, <3>1, <3>3, <3>4
    <3>6. txn' = [mid EXCEPT ![s] = [mid[s] EXCEPT !.found = found]]
      BY <3>2
    <3>7. [mid[s] EXCEPT !.found = found] = u
      BY <2>3, <3>5
    <3>. QED
      BY <3>4, <3>5, <3>6, <3>7
  <2>5. ReaderOK(u)'
    <3>1. found \in Newest(t.cohort, t.source)'
      BY <2>1, <2>2, TableStands
    <3>2. u.pc = "store" /\ u.cohort = t.cohort /\ u.source = t.source /\ u.found = found
      BY <2>3
    <3>3. found.key.cohort = t.cohort
      BY <2>1 DEF Newest
    <3>. QED
      BY <1>3, <2>3, <3>1, <3>2, <3>3 DEF ReaderOK, CacheKeyOf
  <2>6. ASSUME NEW n \in CacheKey
        PROVE  \/ n \in outdated'
               \/ Newest(n[2], n[3])' = Newest(n[2], n[3]) /\ n \notin outdated
               \/ /\ cache[n] = NoValue /\ Newest(n[2], n[3])' = Newest(n[2], n[3])
                  /\ \A o \in Reader \ {s} :
                       ~ (txn[o].pc = "store" /\ CacheKeyOf(txn[o].cohort, txn[o].source) = n)
    <3>1. Newest(n[2], n[3])' = Newest(n[2], n[3])
      BY <2>2, TableStands
    <3>2. CASE n # k \/ ~ (cache[k] = NoValue /\ Sole(s))
      BY <2>2, <3>1, <3>2
    <3>3. CASE n = k /\ cache[k] = NoValue /\ Sole(s)
      <4>1. ASSUME NEW o \in Reader \ {s}, txn[o].pc = "store" PROVE Active(o)
        BY <4>1 DEF Active
      <4>2. \A o \in Reader \ {s} :
              ~ (txn[o].pc = "store" /\ CacheKeyOf(txn[o].cohort, txn[o].source) = n)
        BY <1>5, <3>3, <4>1 DEF Sole, MyKey
      <4>. QED
        BY <3>1, <3>3, <4>2
    <3>. QED
      BY <3>2, <3>3
  <2>7. outdated' \subseteq CacheKey
    BY <2>2 DEF LookupInv
  <2>. QED
    BY <2>2, <2>4, <2>5, <2>6, <2>7, RequestMoves
<1>. QED
  BY <1>6, <1>7

LEMMA StoreKeeps ==
  ASSUME LookupInv, NEW s \in Reader, Store(s)
  PROVE  LookupInv'
<1>1. PICK t : t = txn[s]
  OBVIOUS
<1>2. t # Idle /\ t.pc = "store"
  BY <1>1 DEF Store, Idle
<1>3. PICK k \in CacheKey : k = CacheKeyOf(t.cohort, t.source)
  BY <1>1, <1>2 DEF LookupInv, ReaderOK
<1>4. k[2] = t.cohort /\ k[3] = t.source /\ MyKey(s) = k
  BY <1>1, <1>3, KeyOfLookup DEF MyKey
<1>5. k \in outdated \/ t.found \in Newest(k[2], k[3])
  BY <1>1, <1>2, <1>3, <1>4 DEF LookupInv, ReaderOK
<1>6. /\ txn' = [txn EXCEPT ![s] = Idle]
      /\ UNCHANGED tableVars
      /\ cache' = cache \/ cache' = [cache EXCEPT ![k] = t.found]
  BY <1>1, <1>4 DEF Store
<1>7. ASSUME NEW n \in CacheKey PROVE (Stale(n) => n \in outdated)'
  <2>1. Newest(n[2], n[3])' = Newest(n[2], n[3]) /\ outdated' = outdated
    BY <1>6, TableStands DEF tableVars
  <2>2. cache'[n] = cache[n] \/ (n = k /\ cache'[n] = t.found)
    BY <1>6 DEF LookupInv
  <2>3. CASE cache'[n] = cache[n]
    BY <2>1, <2>3 DEF LookupInv, Stale
  <2>4. CASE n = k /\ cache'[n] = t.found
    BY <1>5, <2>1, <2>4 DEF Stale
  <2>. QED
    BY <2>2, <2>3, <2>4
<1>8. ASSUME NEW r \in Reader PROVE ReaderOK(txn[r])'
  <2>1. PICK v : v = txn'[r]
    OBVIOUS
  <2>2. v = Idle \/ v = txn[r]
    BY <1>6, <2>1 DEF LookupInv
  <2>3. ReaderOK(v)'
    BY <1>6, <2>2, TableStands DEF LookupInv, ReaderOK, CacheKeyOf, tableVars
  <2>. QED
    BY <2>1, <2>3
<1>9. /\ cache' = [n \in CacheKey |-> cache'[n]]
      /\ txn' = [r \in Job \cup Reader |-> txn'[r]]
  BY <1>6 DEF LookupInv
<1>10. t.found.key.cohort = k[2]
  BY <1>1, <1>2, <1>4 DEF LookupInv, ReaderOK
<1>11. \A n \in CacheKey : cache'[n] # NoValue => cache'[n].key.cohort = n[2]
  BY <1>6, <1>10 DEF LookupInv
<1>12. outdated' \subseteq CacheKey
  BY <1>6 DEF LookupInv, tableVars
<1>. QED
  BY <1>7, <1>8, <1>9, <1>11, <1>12 DEF LookupInv

LEMMA AbortKeepsLookups ==
  ASSUME LookupInv, NEW s \in Job \cup Reader, Abort(s)
  PROVE  LookupInv'
<1>1. CASE s \in Job
  BY <1>1, JobKeepsLookups DEF Abort
<1>2. CASE s \in Reader
  BY <1>2, ReadersAreNoJobs, IdleReader, ReaderMoves DEF Abort
<1>. QED
  BY <1>1, <1>2

LEMMA ExpireKeepsLookups ==
  ASSUME LookupInv, NEW k \in CacheKey, CacheExpire(k)
  PROVE  LookupInv'
<1>1. cache' = [cache EXCEPT ![k] = NoValue] /\ UNCHANGED <<table, txn, outdated>>
  BY DEF CacheExpire
<1>2. \A n \in CacheKey : cache'[n] = cache[n] \/ cache'[n] = NoValue
  BY <1>1 DEF LookupInv
<1>3. \A n \in CacheKey : (Stale(n) => n \in outdated)'
  BY <1>1, <1>2, TableStands DEF LookupInv, Stale
<1>4. ASSUME NEW r \in Reader PROVE ReaderOK(txn[r])'
  <2>1. PICK v : v = txn[r]
    OBVIOUS
  <2>2. ReaderOK(v)'
    BY <1>1, <2>1, TableStands DEF LookupInv, ReaderOK, CacheKeyOf
  <2>. QED
    BY <1>1, <2>1, <2>2
<1>. QED
  BY <1>1, <1>3, <1>4 DEF LookupInv

LEMMA LookupInvNext == LookupInv /\ [Next]_vars => LookupInv'
<1>. SUFFICES ASSUME LookupInv, [Next]_vars PROVE LookupInv'
  OBVIOUS
<1>1. CASE Begin
  <2>1. CASE \E j \in Job : \/ \E run \in CsvRuns \cup LiveRuns : BeginRun(j, run)
                            \/ BeginSeed(j)
    BY <2>1, JobStepKeepsLookups
  <2>2. CASE \E s \in Reader, k \in CacheKey : BeginLookup(s, k[2], k[3])
    BY <2>2, BeginLookupKeeps
  <2>. QED
    BY <1>1, <2>1, <2>2 DEF Begin
<1>2. CASE \E j \in Job : JobStep(j)
  BY <1>2, JobStepKeepsLookups DEF JobStep
<1>3. CASE \E j \in Job : DeadlockAbort(j)
  BY <1>3, AbortKeepsLookups DEF DeadlockAbort
<1>4. CASE \E s \in Reader : ReaderStep(s)
  BY <1>4, LookupKeeps, QueryKeeps, StoreKeeps DEF ReaderStep
<1>5. CASE \E s \in Job \cup Reader : Abort(s)
  BY <1>5, AbortKeepsLookups
<1>6. CASE \E k \in CacheKey : CacheExpire(k)
  BY <1>6, ExpireKeepsLookups
<1>7. CASE UNCHANGED vars
  <2>1. UNCHANGED <<cache, table, outdated, txn>>
    BY <1>7 DEF vars
  <2>2. \A n \in CacheKey : Stale(n)' <=> Stale(n)
    BY <2>1, TableStands DEF Stale
  <2>3. ASSUME NEW r \in Reader PROVE ReaderOK(txn[r])'
    <3>1. PICK v : v = txn[r]
      OBVIOUS
    <3>2. ReaderOK(v)'
      BY <2>1, <3>1, TableStands DEF LookupInv, ReaderOK, CacheKeyOf
    <3>. QED
      BY <2>1, <3>1, <3>2
  <2>. QED
    BY <2>1, <2>2, <2>3 DEF LookupInv
<1>. QED
  BY <1>1, <1>2, <1>3, <1>4, <1>5, <1>6, <1>7 DEF Next

\* The invariant of the lookups: a reader that is about to store holds a row the table
\* still has, or the key's cohort has been ingested since (get_benchmark).
THEOREM LookupInvariant == Spec => []LookupInv
<1>. QED
  BY LookupInvInit, LookupInvNext, PTL DEF Spec

\* Nothing but an ingestion makes a cached benchmark wrong, however many lookups
\* race, whichever calls of the cache fail and whenever entries expire.
THEOREM StaleByIngestionOnly == Spec => []StaleOnlyByIngestion
<1>1. LookupInv => StaleOnlyByIngestion
  BY DEF LookupInv, StaleOnlyByIngestion
<1>. QED
  BY <1>1, LookupInvariant, PTL

------------------------------------------------------------------------------
(* What an ingestion computes: a benchmark per cohort, each with a key of  *)
(* its own.                                                                *)

\* The seed table has the cohort of every row that comes in.  It has all of them in
\* seed_loader.py, see CompleteSeed.
FeedsSeeded ==
  /\ \A feed \in Feeds \cup {Bundled} : \A i \in DOMAIN feed : CohortOf(feed[i]) \in ToSet(Seeded)
  /\ \A earlier \in Earlier : \A b \in Range(earlier) : b.key.cohort \in ToSet(Seeded)

Column == Figure \cup {"sample"}

KeyOK(key) ==
  /\ key.cohort \in ToSet(Seeded)
  /\ key.source \in {"DOL_OFLC", "SYNTHETIC"}
  /\ key.date <= Today

RowOK(row) == row = [c \in Column |-> row[c]]

BenchmarksOK(b) ==
  /\ DOMAIN b \subseteq Nat
  /\ \A i \in DOMAIN b : KeyOK(b[i].key) /\ RowOK(b[i].row)
  /\ \A i, k \in DOMAIN b : b[i].key = b[k].key => i = k

ObservationsOK(obs) ==
  /\ DOMAIN obs \subseteq Nat
  /\ \A i \in DOMAIN obs : obs[i].cohort \in ToSet(Seeded) /\ obs[i].date \in 0..Today

LEMMA MinOfSet ==
  ASSUME NEW S \in SUBSET Nat, S # {}
  PROVE  Min(S) \in S /\ \A y \in S : Min(S) <= y
<1>1. PICK x \in S : \A y \in S : ~ (<<y, x>> \in OpToRel(<, Nat))
  BY NatLessThanWellFounded, WFMin
<1>2. ASSUME NEW y \in S PROVE x <= y
  <2>1. x \in Nat /\ y \in Nat
    OBVIOUS
  <2>2. ~ (y < x)
    BY <1>1, <2>1 DEF OpToRel
  <2>. QED
    BY <2>1, <2>2
<1>. QED
  BY <1>2 DEF Min

\* The normalizer gives every row a cohort of the code's enumerations.
LEMMA CohortOfRow == ASSUME NEW row \in FeedRow PROVE CohortOf(row) \in Cohort
<1>1. row.title \in Title
  BY DEF FeedRow
<1>2. FamilyOf(row.title) \in Family
  <2>. DEFINE named == { i \in 1 .. 4 : FamilyPrecedence[i] \in row.title.families }
  <2>1. CASE named = {}
    BY <2>1 DEF FamilyOf, Family
  <2>2. CASE named # {}
    <3>1. Min(named) \in 1 .. 4
      BY <2>2, MinOfSet
    <3>. QED
      BY <2>2, <3>1 DEF FamilyOf, Family, FamilyPrecedence
  <2>. QED
    BY <2>1, <2>2
<1>3. LevelOf(row.title) \in 1 .. 6
  <2>1. row.title.exact \in 0 .. 6 /\ row.title.levels \subseteq 1 .. 6
    BY <1>1 DEF Title
  <2>2. CASE row.title.exact # 0 \/ row.title.levels = {}
    BY <2>1, <2>2 DEF LevelOf
  <2>3. CASE row.title.exact = 0 /\ row.title.levels # {}
    <3>. DEFINE T == { 6 - x : x \in row.title.levels }
    <3>1. T \in SUBSET Nat /\ T # {}
      BY <2>1, <2>3
    <3>. HIDE DEF T
    <3>2. Min(T) \in T /\ \A y \in T : Min(T) <= y
      BY <3>1, MinOfSet
    <3>3. PICK x \in row.title.levels : Min(T) = 6 - x
      BY <3>2 DEF T
    <3>4. ASSUME NEW y \in row.title.levels PROVE x >= y
      <4>1. 6 - x <= 6 - y
        BY <3>2, <3>3 DEF T
      <4>. QED
        BY <2>1, <4>1
    <3>5. Max(row.title.levels) \in row.title.levels
      BY <3>4 DEF Max
    <3>. QED
      BY <2>1, <2>3, <3>5 DEF LevelOf
  <2>. QED
    BY <2>2, <2>3
<1>4. ZoneOf(row.places) \in {"US_ZONE_1", "US_ZONE_2", "US_ZONE_3"}
  BY DEF ZoneOf
<1>. QED
  BY <1>2, <1>3, <1>4 DEF CohortOf, Cohort

\* A complete seed table, like the code's, has the cohort of every row.
LEMMA CompleteSeed ==
  ASSUME Cohort \subseteq ToSet(Seeded)
  PROVE  \A feed \in Feeds \cup {Bundled} : \A i \in DOMAIN feed : CohortOf(feed[i]) \in ToSet(Seeded)
<1>1. ASSUME NEW feed \in Feeds \cup {Bundled}, NEW i \in DOMAIN feed PROVE feed[i] \in FeedRow
  <2>1. feed \in Seq(FeedRow)
    BY MarketAssumption
  <2>. QED
    BY <2>1
<1>. QED
  BY <1>1, CohortOfRow

LEMMA ParsedOK ==
  ASSUME NEW rows \in Seq(FeedRow),
         \A i \in DOMAIN rows : CohortOf(rows[i]) \in ToSet(Seeded)
  PROVE  ObservationsOK(Parsed(rows))
<1>1. DOMAIN Parsed(rows) \subseteq DOMAIN rows
  BY DEF Parsed
<1>2. DOMAIN rows \subseteq Nat
  OBVIOUS
<1>3. ASSUME NEW i \in DOMAIN Parsed(rows)
      PROVE  /\ Parsed(rows)[i].cohort = CohortOf(rows[i])
             /\ Parsed(rows)[i].date = rows[i].date
             /\ rows[i].date \in 0..Today
  <2>1. rows[i] \in FeedRow
    BY <1>1
  <2>2. rows[i].date \in 0..Today
    BY <2>1 DEF FeedRow
  <2>. QED
    BY <1>1, <2>2 DEF Parsed
<1>. QED
  BY <1>1, <1>2, <1>3 DEF ObservationsOK

LEMMA StreamedOK ==
  ASSUME FeedsSeeded, NEW feed \in Feeds, NEW sent, sent \in Breaks \/ sent = Len(feed)
  PROVE  /\ Streamed(feed, sent) \in Seq(FeedRow)
         /\ \A i \in DOMAIN Streamed(feed, sent) :
              CohortOf(Streamed(feed, sent)[i]) \in ToSet(Seeded)
<1>1. feed \in Seq(FeedRow) /\ Bundled \in Seq(FeedRow)
  BY MarketAssumption
<1>2. /\ \A i \in DOMAIN feed : CohortOf(feed[i]) \in ToSet(Seeded)
      /\ \A i \in DOMAIN Bundled : CohortOf(Bundled[i]) \in ToSet(Seeded)
  BY DEF FeedsSeeded
<1>3. CASE sent = Len(feed)
  BY <1>1, <1>2, <1>3 DEF Streamed
<1>4. CASE sent # Len(feed)
  <2>1. sent \in 0 .. Len(feed)
    BY <1>4, MarketAssumption
  <2>2. PICK head : head = SubSeq(feed, 1, sent)
    OBVIOUS
  <2>3. head \in Seq(FeedRow) /\ \A i \in DOMAIN head : i \in DOMAIN feed /\ head[i] = feed[i]
    BY <1>1, <2>1, <2>2
  <2>4. \A i \in DOMAIN (head \o Bundled) :
          CohortOf((head \o Bundled)[i]) \in ToSet(Seeded)
    <3>1. ASSUME NEW i \in DOMAIN (head \o Bundled)
          PROVE  \/ i \in DOMAIN head /\ (head \o Bundled)[i] = head[i]
                 \/ i - Len(head) \in DOMAIN Bundled /\ (head \o Bundled)[i] = Bundled[i - Len(head)]
      BY <1>1, <2>3
    <3>. QED
      BY <1>2, <2>3, <3>1
  <2>5. Streamed(feed, sent) = head \o Bundled
    BY <1>4, <2>2 DEF Streamed
  <2>. QED
    BY <1>1, <2>3, <2>4, <2>5
<1>. QED
  BY <1>3, <1>4

LEMMA TakenOK ==
  ASSUME NEW obs, ObservationsOK(obs), NEW limit
  PROVE  ObservationsOK(Taken(obs, limit))
<1>1. DOMAIN Taken(obs, limit) \subseteq DOMAIN obs
  BY DEF Taken, Restrict
<1>2. \A i \in DOMAIN Taken(obs, limit) : Taken(obs, limit)[i] = obs[i]
  BY <1>1 DEF Taken, Restrict
<1>. QED
  BY <1>1, <1>2 DEF ObservationsOK

\* Every cohort's first observation is one: the keys differ.
LEMMA BenchmarksOfObservations ==
  ASSUME NEW obs, ObservationsOK(obs)
  PROVE  BenchmarksOK(Benchmarks(obs))
<1>1. Emitted(obs) \subseteq First(obs) /\ First(obs) \subseteq DOMAIN obs
  BY DEF Emitted, First
<1>2. DOMAIN Benchmarks(obs) = Emitted(obs)
  BY DEF Benchmarks
<1>3. ASSUME NEW i \in Emitted(obs)
      PROVE  /\ KeyOK(Benchmarks(obs)[i].key)
             /\ RowOK(Benchmarks(obs)[i].row)
             /\ Benchmarks(obs)[i].key.cohort = obs[i].cohort
  <2>1. PICK cohort : cohort = obs[i].cohort
    OBVIOUS
  <2>2. PICK date : date = EffectiveDate(obs, cohort)
    OBVIOUS
  <2>3. date \in 0..Today
    <3>. DEFINE dates == { obs[k].date : k \in Of(obs, cohort) }
    <3>1. i \in Of(obs, cohort) /\ Of(obs, cohort) \subseteq DOMAIN obs
      BY <1>1, <2>1 DEF Of
    <3>2. dates \in SUBSET (0..Today) /\ dates # {}
      BY <3>1 DEF ObservationsOK
    <3>3. dates \in SUBSET Nat
      BY <3>2
    <3>4. Min(dates) \in dates
      BY <3>2, <3>3, MinOfSet
    <3>5. Min(dates) \in 0..Today
      BY <3>2, <3>4
    <3>. QED
      BY <2>2, <3>5 DEF EffectiveDate
  <2>4. PICK wages : wages = Wages(obs, cohort)
    OBVIOUS
  <2>5. Benchmarks(obs)[i] = [ key |-> Key(cohort, "DOL_OFLC", date),
                               row |-> Aged(Percentiles(wages), date, Today) ]
    BY <2>1, <2>2, <2>4 DEF Benchmarks, Benchmark
  <2>6. DOMAIN Percentiles(wages) = Column
    BY DEF Percentiles, Column, Figure
  <2>7. RowOK(Aged(Percentiles(wages), date, Today))
    BY <2>6 DEF RowOK, Aged
  <2>8. KeyOK(Key(cohort, "DOL_OFLC", date)) /\ Key(cohort, "DOL_OFLC", date).cohort = cohort
    BY <1>1, <2>1, <2>3, MarketAssumption DEF KeyOK, Key, ObservationsOK
  <2>. QED
    BY <2>1, <2>5, <2>7, <2>8
<1>4. ASSUME NEW i \in Emitted(obs), NEW k \in Emitted(obs), obs[i].cohort = obs[k].cohort
      PROVE  i = k
  <2>1. i \in First(obs) /\ k \in First(obs) /\ i \in Nat /\ k \in Nat
    BY <1>1 DEF ObservationsOK
  <2>2. i <= k /\ k <= i
    BY <1>1, <1>4, <2>1 DEF First, Of
  <2>. QED
    BY <2>1, <2>2
<1>5. Emitted(obs) \subseteq Nat
  BY <1>1 DEF ObservationsOK
<1>. QED
  BY <1>2, <1>3, <1>4, <1>5 DEF BenchmarksOK

LEMMA SeedOK == BenchmarksOK(SeedBenchmarks)
<1>1. DOMAIN SeedBenchmarks = DOMAIN Seeded /\ DOMAIN Seeded \subseteq Nat
  BY MarketAssumption DEF SeedBenchmarks
<1>2. ASSUME NEW i \in DOMAIN Seeded
      PROVE  /\ KeyOK(SeedBenchmarks[i].key)
             /\ RowOK(SeedBenchmarks[i].row)
             /\ SeedBenchmarks[i].key.cohort = Seeded[i]
  <2>1. SeedBenchmarks[i] = [ key |-> Key(Seeded[i], "SYNTHETIC", Today),
                              row |-> SeedFigures(Seeded[i]) ]
    BY DEF SeedBenchmarks
  <2>2. KeyOK(Key(Seeded[i], "SYNTHETIC", Today))
        /\ Key(Seeded[i], "SYNTHETIC", Today).cohort = Seeded[i]
    BY MarketAssumption DEF KeyOK, Key, ToSet
  <2>3. RowOK(SeedFigures(Seeded[i]))
    <3>1. DOMAIN SeedFigures(Seeded[i]) = Column
      BY DEF SeedFigures, Column, Figure
    <3>2. SeedFigures(Seeded[i])
            = [c \in DOMAIN SeedFigures(Seeded[i]) |-> SeedFigures(Seeded[i])[c]]
      BY DEF SeedFigures
    <3>. QED
      BY <3>1, <3>2 DEF RowOK
  <2>. QED
    BY <2>1, <2>2, <2>3
<1>. QED
  BY <1>1, <1>2, MarketAssumption DEF BenchmarksOK

LEMMA RunsOK ==
  ASSUME FeedsSeeded, NEW run \in CsvRuns \cup LiveRuns
  PROVE  BenchmarksOK(run.benchmarks)
<1>1. CASE run \in CsvRuns
  <2>1. PICK feed \in Feeds : run.benchmarks = Benchmarks(Parsed(feed))
    BY <1>1 DEF CsvRuns
  <2>2. feed \in Seq(FeedRow) /\ \A i \in DOMAIN feed : CohortOf(feed[i]) \in ToSet(Seeded)
    BY MarketAssumption DEF FeedsSeeded
  <2>. QED
    BY <2>1, <2>2, ParsedOK, BenchmarksOfObservations
<1>2. CASE run \in LiveRuns
  <2>1. PICK feed \in Feeds :
          \E sent, limit, dry :
            (sent \in Breaks \/ sent = Len(feed)) /\ run = LiveRun(feed, sent, limit, dry)
    BY <1>2 DEF LiveRuns
  <2>2. PICK sent, limit, dry :
          (sent \in Breaks \/ sent = Len(feed)) /\ run = LiveRun(feed, sent, limit, dry)
    BY <2>1
  <2>3. run.benchmarks = Benchmarks(Taken(Parsed(Streamed(feed, sent)), limit))
    BY <2>2 DEF LiveRun
  <2>4. ObservationsOK(Parsed(Streamed(feed, sent)))
    BY <2>2, StreamedOK, ParsedOK
  <2>. QED
    BY <2>3, <2>4, TakenOK, BenchmarksOfObservations
<1>. QED
  BY <1>1, <1>2

------------------------------------------------------------------------------
(* Ingestions.  What a job has selected, what it has still to write and    *)
(* what it wrote are the parts of what it computed.                        *)

Working == {"select", "write", "commit"}

JobOK(t) ==
  /\ t.pc \in {"new", "report", "done"} \cup Working
  /\ t.pc \in Working =>
       /\ t = [ pc |-> t.pc, benchmarks |-> t.benchmarks, seen |-> t.seen, todo |-> t.todo,
                wrote |-> t.wrote ]
       /\ BenchmarksOK(t.benchmarks)
       /\ DOMAIN t.seen \subseteq DOMAIN t.benchmarks
       /\ IF t.pc = "select"
          THEN DOMAIN t.seen # DOMAIN t.benchmarks /\ t.todo = {} /\ t.wrote = {}
          ELSE /\ DOMAIN t.seen = DOMAIN t.benchmarks
               /\ t.todo \subseteq ToWrite(t)
               /\ t.pc = "write" <=> t.todo # {}
               /\ t.wrote = { t.benchmarks[i].key : i \in ToWrite(t) \ t.todo }

TableOK == \A key \in DOMAIN table : KeyOK(key) /\ DOMAIN table[key] = Column

JobInv ==
  /\ txn = [s \in Job \cup Reader |-> txn[s]]
  /\ \A j \in Job : JobOK(txn[j])
  /\ TableOK

LEMMA JobMoves ==
  ASSUME JobInv, NEW j \in Job, NEW u, txn' = [txn EXCEPT ![j] = u], JobOK(u), TableOK'
  PROVE  JobInv'
BY DEF JobInv

LEMMA IdleJobs == JobOK(Fresh) /\ JobOK(Done)
BY DEF JobOK, Fresh, Done, Working

LEMMA JobInvInit == ASSUME FeedsSeeded, Init PROVE JobInv
<1>1. \A j \in Job : txn[j] = Fresh
  BY DEF Init
<1>2. txn = [s \in Job \cup Reader |-> txn[s]]
  BY DEF Init
<1>3. TableOK
  <2>1. PICK earlier \in Earlier :
          table = [ key \in { b.key : b \in Range(earlier) } |->
                      (CHOOSE b \in Range(earlier) : b.key = key).row ]
    BY DEF Init
  <2>2. ASSUME NEW key \in DOMAIN table PROVE KeyOK(key) /\ DOMAIN table[key] = Column
    <3>1. \E b \in Range(earlier) : b.key = key
      BY <2>1
    <3>2. PICK b : b = CHOOSE x \in Range(earlier) : x.key = key
      OBVIOUS
    <3>3. b \in Range(earlier) /\ b.key = key /\ table[key] = b.row
      BY <2>1, <3>1, <3>2
    <3>4. key.source = "DOL_OFLC" /\ key.date \in 0 .. Today /\ DOMAIN b.row = Column
      BY <3>3, MarketAssumption DEF Column
    <3>5. key.cohort \in ToSet(Seeded)
      BY <3>3 DEF FeedsSeeded
    <3>. QED
      BY <3>3, <3>4, <3>5, MarketAssumption DEF KeyOK
  <2>. QED
    BY <2>2 DEF TableOK
<1>. QED
  BY <1>1, <1>2, <1>3, IdleJobs DEF JobInv

LEMMA PersistOK ==
  ASSUME NEW b, BenchmarksOK(b)
  PROVE  JobOK(Persist(b))
<1>1. PICK pc : pc = IF DOMAIN b = {} THEN "commit" ELSE "select"
  OBVIOUS
<1>2. PICK t : t = [ pc |-> pc, benchmarks |-> b, seen |-> <<>>, todo |-> {}, wrote |-> {} ]
  OBVIOUS
<1>3. /\ t.pc = pc /\ t.benchmarks = b /\ t.seen = <<>> /\ t.todo = {} /\ t.wrote = {}
      /\ t = [ pc |-> t.pc, benchmarks |-> t.benchmarks, seen |-> t.seen, todo |-> t.todo,
               wrote |-> t.wrote ]
  BY <1>2
<1>4. DOMAIN <<>> = {}
  OBVIOUS
<1>5. pc = "commit" => ToWrite(t) = {}
  BY <1>1, <1>3 DEF ToWrite
<1>6. JobOK(t)
  BY <1>1, <1>3, <1>4, <1>5 DEF JobOK, Working
<1>. QED
  BY <1>1, <1>2, <1>6 DEF Persist

LEMMA BeginRunKeeps ==
  ASSUME FeedsSeeded, JobInv, NEW j \in Job, NEW run \in CsvRuns \cup LiveRuns, BeginRun(j, run)
  PROVE  JobInv'
<1>1. TableOK'
  BY DEF BeginRun, JobInv, TableOK, tableVars
<1>2. JobOK([ pc |-> "report", run |-> run ])
  BY DEF JobOK, Working
<1>3. JobOK(Persist(run.benchmarks))
  BY RunsOK, PersistOK
<1>4. \/ txn' = [txn EXCEPT ![j] = [ pc |-> "report", run |-> run ]]
      \/ txn' = [txn EXCEPT ![j] = Persist(run.benchmarks)]
  BY DEF BeginRun
<1>. QED
  BY <1>1, <1>2, <1>3, <1>4, JobMoves

LEMMA BeginSeedKeeps ==
  ASSUME JobInv, NEW j \in Job, BeginSeed(j)
  PROVE  JobInv'
<1>1. TableOK'
  BY DEF BeginSeed, JobInv, TableOK, tableVars
<1>. QED
  BY <1>1, SeedOK, PersistOK, JobMoves DEF BeginSeed

LEMMA SelectKeeps ==
  ASSUME JobInv, NEW j \in Job, SelectRow(j)
  PROVE  JobInv'
<1>1. PICK t : t = txn[j]
  OBVIOUS
<1>2. /\ t = [ pc |-> "select", benchmarks |-> t.benchmarks, seen |-> t.seen, todo |-> {},
               wrote |-> {} ]
      /\ BenchmarksOK(t.benchmarks)
      /\ DOMAIN t.seen \subseteq DOMAIN t.benchmarks
      /\ DOMAIN t.seen # DOMAIN t.benchmarks
  BY <1>1 DEF SelectRow, JobInv, JobOK, Working
<1>3. PICK i : i = Min(DOMAIN t.benchmarks \ DOMAIN t.seen)
  OBVIOUS
<1>4. i \in DOMAIN t.benchmarks
  <2>1. (DOMAIN t.benchmarks \ DOMAIN t.seen) \in SUBSET Nat
    BY <1>2 DEF BenchmarksOK
  <2>2. DOMAIN t.benchmarks \ DOMAIN t.seen # {}
    BY <1>2
  <2>. QED
    BY <1>3, <2>1, <2>2, MinOfSet
<1>5. PICK found : found = [ k \in DOMAIN t.seen \cup {i} |->
                               IF k = i THEN Row(t.benchmarks[i].key) ELSE t.seen[k] ]
  OBVIOUS
<1>6. DOMAIN found \subseteq DOMAIN t.benchmarks
  BY <1>2, <1>4, <1>5
<1>7. PICK job : job = [ pc |-> "select", benchmarks |-> t.benchmarks, seen |-> found,
                         todo |-> {}, wrote |-> {} ]
  OBVIOUS
<1>8. job = [t EXCEPT !.seen = found]
  BY <1>2, <1>7
<1>9. job.pc = "select" /\ job.benchmarks = t.benchmarks /\ job.seen = found /\ job.todo = {}
      /\ job.wrote = {}
  BY <1>7
<1>10. PICK u : u = IF DOMAIN found # DOMAIN job.benchmarks THEN job
                    ELSE IF ToWrite(job) = {} THEN [job EXCEPT !.pc = "commit"]
                    ELSE [job EXCEPT !.pc = "write", !.todo = ToWrite(job)]
  OBVIOUS
<1>11. txn' = [txn EXCEPT ![j] = u]
  BY <1>1, <1>3, <1>5, <1>8, <1>10 DEF SelectRow
<1>12. CASE DOMAIN found # DOMAIN job.benchmarks
  <2>1. u = job
    BY <1>10, <1>12
  <2>2. JobOK(job)
    BY <1>2, <1>6, <1>7, <1>9, <1>12 DEF JobOK, Working
  <2>. QED
    BY <1>11, <2>1, <2>2, JobMoves DEF SelectRow, JobInv, TableOK, tableVars
<1>13. ASSUME DOMAIN found = DOMAIN job.benchmarks, NEW pc \in {"commit", "write"},
              NEW todo, todo = ToWrite(job), pc = "write" <=> todo # {},
              u = [ pc |-> pc, benchmarks |-> t.benchmarks, seen |-> found, todo |-> todo,
                    wrote |-> {} ]
       PROVE  JobOK(u)
  <2>1. u.pc = pc /\ u.benchmarks = t.benchmarks /\ u.seen = found /\ u.todo = todo
        /\ u.wrote = {}
    BY <1>13
  <2>2. ToWrite(u) = ToWrite(job)
    BY <1>9, <2>1 DEF ToWrite
  <2>. QED
    BY <1>2, <1>9, <1>13, <2>1, <2>2 DEF JobOK, Working
<1>14. CASE DOMAIN found = DOMAIN job.benchmarks /\ ToWrite(job) = {}
  <2>1. u = [ pc |-> "commit", benchmarks |-> t.benchmarks, seen |-> found, todo |-> {},
              wrote |-> {} ]
    BY <1>7, <1>10, <1>14
  <2>2. JobOK(u)
    BY <1>13, <1>14, <2>1
  <2>. QED
    BY <1>11, <2>2, JobMoves DEF SelectRow, JobInv, TableOK, tableVars
<1>15. CASE DOMAIN found = DOMAIN job.benchmarks /\ ToWrite(job) # {}
  <2>1. u = [ pc |-> "write", benchmarks |-> t.benchmarks, seen |-> found,
              todo |-> ToWrite(job), wrote |-> {} ]
    BY <1>7, <1>10, <1>15
  <2>2. JobOK(u)
    BY <1>13, <1>15, <2>1
  <2>. QED
    BY <1>11, <2>2, JobMoves DEF SelectRow, JobInv, TableOK, tableVars
<1>. QED
  BY <1>12, <1>14, <1>15

\* The next row is one to be written.
LEMMA NextIsToDo ==
  ASSUME NEW t, JobOK(t), t.pc = "write"
  PROVE  NextWrite(t) \in t.todo
<1>1. BenchmarksOK(t.benchmarks) /\ t.todo # {} /\ t.todo \subseteq DOMAIN t.benchmarks
  BY DEF JobOK, Working, ToWrite
<1>2. t.todo \subseteq Nat
  BY <1>1 DEF BenchmarksOK
<1>. DEFINE updates == { i \in t.todo : t.seen[i] # NoRow }
            rank(i) == CHOOSE n \in DOMAIN Seeded : Seeded[n] = t.benchmarks[i].key.cohort
<1>3. CASE updates = {}
  <2>1. Min(t.todo) \in t.todo
    BY <1>1, <1>2, MinOfSet
  <2>. QED
    BY <1>3, <2>1 DEF NextWrite
<1>4. CASE updates # {}
  <2>. DEFINE ranks == { rank(i) : i \in updates }
  <2>1. ASSUME NEW i \in updates PROVE rank(i) \in Nat
    <3>1. t.benchmarks[i].key.cohort \in ToSet(Seeded)
      BY <1>1 DEF BenchmarksOK, KeyOK
    <3>2. \E n \in DOMAIN Seeded : Seeded[n] = t.benchmarks[i].key.cohort
      BY <3>1 DEF ToSet
    <3>3. rank(i) \in DOMAIN Seeded
      BY <3>2
    <3>4. DOMAIN Seeded \subseteq Nat
      BY MarketAssumption
    <3>. QED
      BY <3>3, <3>4
  <2>2. ranks \in SUBSET Nat /\ ranks # {}
    BY <1>4, <2>1
  <2>3. Min(ranks) \in ranks /\ \A y \in ranks : Min(ranks) <= y
    BY <2>2, MinOfSet
  <2>4. PICK i \in updates : rank(i) = Min(ranks)
    BY <2>3
  <2>5. \A k \in updates : rank(i) <= rank(k)
    BY <2>3, <2>4
  <2>6. (CHOOSE n \in updates : \A k \in updates : rank(n) <= rank(k)) \in updates
    BY <2>5
  <2>. QED
    BY <1>4, <2>6 DEF NextWrite
<1>. QED
  BY <1>3, <1>4

LEMMA WriteKeeps ==
  ASSUME JobInv, NEW j \in Job, WriteRow(j)
  PROVE  JobInv'
<1>1. PICK t : t = txn[j]
  OBVIOUS
<1>2. JobOK(t) /\ t.pc = "write"
  BY <1>1 DEF WriteRow, JobInv
<1>3. /\ t = [ pc |-> "write", benchmarks |-> t.benchmarks, seen |-> t.seen, todo |-> t.todo,
               wrote |-> t.wrote ]
      /\ BenchmarksOK(t.benchmarks)
      /\ DOMAIN t.seen = DOMAIN t.benchmarks
      /\ t.todo \subseteq ToWrite(t)
      /\ t.wrote = { t.benchmarks[i].key : i \in ToWrite(t) \ t.todo }
  BY <1>2 DEF JobOK, Working
<1>4. PICK i : i = NextWrite(t)
  OBVIOUS
<1>5. i \in t.todo
  BY <1>2, <1>4, NextIsToDo
<1>6. PICK pc : pc = IF t.todo = {i} THEN "commit" ELSE "write"
  OBVIOUS
<1>7. PICK u : u = [ pc |-> pc, benchmarks |-> t.benchmarks, seen |-> t.seen,
                     todo |-> t.todo \ {i}, wrote |-> t.wrote \cup {t.benchmarks[i].key} ]
  OBVIOUS
<1>8. Wrote(j) = u
  <2>1. Past(t) = [ pc |-> pc, benchmarks |-> t.benchmarks, seen |-> t.seen,
                    todo |-> t.todo \ {i}, wrote |-> t.wrote ]
    <3>1. Past(t) = [t EXCEPT !.todo = t.todo \ {i}, !.pc = pc]
      BY <1>4, <1>6 DEF Past
    <3>2. PICK todo : todo = t.todo \ {i}
      OBVIOUS
    <3>3. [t EXCEPT !.todo = todo, !.pc = pc]
            = [ pc |-> pc, benchmarks |-> t.benchmarks, seen |-> t.seen, todo |-> todo,
                wrote |-> t.wrote ]
      <4>1. PICK r : r = [ pc |-> "write", benchmarks |-> t.benchmarks, seen |-> t.seen,
                           todo |-> t.todo, wrote |-> t.wrote ]
        OBVIOUS
      <4>2. PICK past : past = [r EXCEPT !.todo = todo, !.pc = pc]
        OBVIOUS
      <4>3. t = r
        BY <1>3, <4>1
      <4>4. past = [ pc |-> pc, benchmarks |-> t.benchmarks, seen |-> t.seen, todo |-> todo,
                     wrote |-> t.wrote ]
        BY <4>1, <4>2
      <4>. QED
        BY <4>2, <4>3, <4>4, Zenon
    <3>. QED
      BY <3>1, <3>2, <3>3
  <2>2. NextKey(j) = t.benchmarks[i].key
    BY <1>1, <1>4 DEF NextKey
  <2>3. PICK past, key : past = Past(t) /\ key = t.benchmarks[i].key
    OBVIOUS
  <2>4. Wrote(j) = [past EXCEPT !.wrote = @ \cup {key}]
    BY <1>1, <2>2, <2>3 DEF Wrote
  <2>5. [past EXCEPT !.wrote = @ \cup {key}]
          = [ pc |-> pc, benchmarks |-> t.benchmarks, seen |-> t.seen, todo |-> t.todo \ {i},
              wrote |-> t.wrote \cup {key} ]
    BY <2>1, <2>3
  <2>. QED
    BY <1>7, <2>3, <2>4, <2>5
<1>9. JobOK(u)
  <2>1. u.pc = pc /\ u.benchmarks = t.benchmarks /\ u.seen = t.seen /\ u.todo = t.todo \ {i}
        /\ u.wrote = t.wrote \cup {t.benchmarks[i].key}
    BY <1>7
  <2>2. ToWrite(u) = ToWrite(t)
    BY <2>1 DEF ToWrite
  <2>3. u.wrote = { t.benchmarks[k].key : k \in ToWrite(t) \ u.todo }
    BY <1>3, <1>5, <2>1
  <2>4. u.pc \in {"commit", "write"} /\ (u.pc = "write" <=> u.todo # {})
    BY <1>5, <1>6, <2>1
  <2>5. u.todo \subseteq ToWrite(u)
    BY <1>3, <2>1, <2>2
  <2>6. u = [ pc |-> u.pc, benchmarks |-> u.benchmarks, seen |-> u.seen, todo |-> u.todo,
              wrote |-> u.wrote ]
    BY <1>7
  <2>. QED
    BY <1>3, <2>1, <2>2, <2>3, <2>4, <2>5, <2>6 DEF JobOK, Working
<1>10. txn' = [txn EXCEPT ![j] = u] \/ txn' = [txn EXCEPT ![j] = Done]
  BY <1>8 DEF WriteRow
<1>11. TableOK'
  BY DEF WriteRow, JobInv, TableOK, tableVars
<1>. QED
  BY <1>9, <1>10, <1>11, IdleJobs, JobMoves

\* A commit writes what the job computed, row by row; where another ingestion changed
\* the row after this one had selected it, columns of both remain.
LEMMA CommitWrites ==
  ASSUME JobInv, NEW j \in Job, Commit(j)
  PROVE  /\ \A i \in DOMAIN txn[j].benchmarks :
              LET b == txn[j].benchmarks[i] IN
                \/ table'[b.key] = b.row
                \/ txn[j].seen[i] # NoRow /\ txn[j].seen[i] # Row(b.key)
         /\ \A key \in DOMAIN table' :
              \/ /\ DOMAIN table'[key] = Column
                 /\ KeyOK(key)
                 /\ \E b \in Range(txn[j].benchmarks) : b.key = key
              \/ key \in DOMAIN table /\ table'[key] = table[key]
<1>1. PICK t : t = txn[j]
  OBVIOUS
<1>2. /\ BenchmarksOK(t.benchmarks)
      /\ DOMAIN t.seen = DOMAIN t.benchmarks
      /\ t.wrote = { t.benchmarks[i].key : i \in ToWrite(t) }
  BY <1>1 DEF Commit, JobInv, JobOK, Working
<1>3. DOMAIN table' = DOMAIN table \cup t.wrote
  BY <1>1 DEF Commit
<1>4. ASSUME NEW key \in DOMAIN table' PROVE key \notin t.wrote => table'[key] = table[key]
  BY <1>1, <1>4 DEF Commit
<1>5. ASSUME NEW i \in ToWrite(t)
      PROVE  /\ i \in DOMAIN t.benchmarks
             /\ table'[t.benchmarks[i].key]
                  = Written(Row(t.benchmarks[i].key), t.seen[i], t.benchmarks[i].row)
  <2>. DEFINE key == t.benchmarks[i].key
  <2>1. i \in DOMAIN t.benchmarks
    BY DEF ToWrite
  <2>2. key \in t.wrote
    BY <1>2
  <2>3. (CHOOSE k \in DOMAIN t.benchmarks : t.benchmarks[k].key = key) = i
    BY <1>2, <2>1 DEF BenchmarksOK
  <2>4. table'[key] = LET k == CHOOSE k \in DOMAIN t.benchmarks : t.benchmarks[k].key = key
                      IN Written(Row(key), t.seen[k], t.benchmarks[k].row)
    BY <1>1, <2>2 DEF Commit
  <2>. QED
    BY <2>1, <2>3, <2>4
<1>6. ASSUME NEW i \in DOMAIN t.benchmarks
      PROVE  LET b == t.benchmarks[i] IN
               \/ table'[b.key] = b.row
               \/ t.seen[i] # NoRow /\ t.seen[i] # Row(b.key)
  <2>. DEFINE key == t.benchmarks[i].key
              row == t.benchmarks[i].row
  <2>1. row = [c \in DOMAIN row |-> row[c]]
    BY <1>2 DEF BenchmarksOK, RowOK
  <2>2. CASE i \in ToWrite(t) /\ t.seen[i] = NoRow
    BY <1>5, <2>2 DEF Written
  <2>3. CASE i \in ToWrite(t) /\ t.seen[i] # NoRow /\ t.seen[i] = Row(key)
    <3>1. table'[key] = [c \in DOMAIN row |-> IF row[c] # t.seen[i][c] THEN row[c] ELSE Row(key)[c]]
      BY <1>5, <2>3 DEF Written
    <3>2. \A c \in DOMAIN row :
            (IF row[c] # t.seen[i][c] THEN row[c] ELSE Row(key)[c]) = row[c]
      BY <2>3
    <3>. QED
      BY <2>1, <3>1, <3>2
  <2>4. CASE i \notin ToWrite(t) /\ t.seen[i] = Row(key)
    <3>1. t.seen[i] # NoRow /\ t.seen[i] = row
      BY <2>4 DEF ToWrite
    <3>2. key \in DOMAIN table /\ table[key] = row
      BY <2>4, <3>1 DEF Row
    <3>3. key \notin t.wrote
      <4>1. ASSUME NEW k \in ToWrite(t), t.benchmarks[k].key = key PROVE FALSE
        <5>1. k \in DOMAIN t.benchmarks
          BY DEF ToWrite
        <5>. QED
          BY <1>2, <2>4, <4>1, <5>1 DEF BenchmarksOK
      <4>. QED
        BY <1>2, <4>1
    <3>. QED
      BY <1>3, <1>4, <3>2, <3>3
  <2>5. CASE i \notin ToWrite(t) /\ t.seen[i] # Row(key)
    BY <2>5 DEF ToWrite
  <2>. QED
    BY <2>2, <2>3, <2>4, <2>5
<1>7. ASSUME NEW key \in t.wrote
      PROVE  /\ DOMAIN table'[key] = Column
             /\ KeyOK(key)
             /\ \E b \in Range(t.benchmarks) : b.key = key
  <2>1. PICK i \in ToWrite(t) : key = t.benchmarks[i].key
    BY <1>2
  <2>2. i \in DOMAIN t.benchmarks
    BY DEF ToWrite
  <2>3. DOMAIN t.benchmarks[i].row = Column
    BY <1>2, <2>2 DEF BenchmarksOK, RowOK
  <2>4. DOMAIN table'[key] = Column
    BY <1>5, <2>1, <2>3 DEF Written
  <2>. QED
    BY <1>2, <2>1, <2>2, <2>4 DEF BenchmarksOK, Range
<1>. QED
  BY <1>1, <1>3, <1>4, <1>6, <1>7

LEMMA CommitKeeps ==
  ASSUME JobInv, NEW j \in Job, Commit(j)
  PROVE  JobInv'
<1>1. TableOK'
  BY CommitWrites DEF JobInv, TableOK, KeyOK
<1>. QED
  BY <1>1, IdleJobs, JobMoves DEF Commit

LEMMA AbortKeepsJobs ==
  ASSUME JobInv, NEW s \in Job \cup Reader, Abort(s)
  PROVE  JobInv'
<1>1. TableOK'
  BY DEF Abort, JobInv, TableOK, tableVars
<1>2. CASE s \in Job
  BY <1>1, <1>2, IdleJobs, JobMoves DEF Abort
<1>3. CASE s \in Reader
  BY <1>1, <1>3, ReadersAreNoJobs DEF Abort, JobInv
<1>. QED
  BY <1>2, <1>3

\* What readers do is none of the jobs' business.
LEMMA ReaderMovesItself ==
  ASSUME txn = [r \in Job \cup Reader |-> txn[r]], NEW s \in Reader,
         \/ \E k \in CacheKey : BeginLookup(s, k[2], k[3])
         \/ ReaderStep(s)
  PROVE  \E m : txn' = [txn EXCEPT ![s] = m]
<1>1. CASE \E k \in CacheKey : BeginLookup(s, k[2], k[3])
  BY <1>1 DEF BeginLookup
<1>2. CASE Lookup(s)
  BY <1>2 DEF Lookup
<1>3. CASE Query(s)
  <2>1. ASSUME NEW b PROVE \E m : [txn EXCEPT ![s].pc = "store", ![s].found = b] = [txn EXCEPT ![s] = m]
    <3>1. PICK mid : mid = [txn EXCEPT ![s].pc = "store"]
      OBVIOUS
    <3>2. PICK v : v = [mid EXCEPT ![s].found = b]
      OBVIOUS
    <3>3. /\ mid = [r \in Job \cup Reader |-> mid[r]]
          /\ \A r \in (Job \cup Reader) \ {s} : mid[r] = txn[r]
      BY <3>1
    <3>4. /\ v = [r \in Job \cup Reader |-> v[r]]
          /\ \A r \in (Job \cup Reader) \ {s} : v[r] = txn[r]
      BY <3>2, <3>3
    <3>5. v = [txn EXCEPT ![s] = v[s]]
      BY <3>4
    <3>. QED
      BY <3>1, <3>2, <3>5
  <2>. QED
    BY <1>3, <2>1 DEF Query
<1>4. CASE Store(s)
  BY <1>4 DEF Store
<1>. QED
  BY <1>1, <1>2, <1>3, <1>4 DEF ReaderStep

LEMMA ReadersKeepJobs ==
  ASSUME JobInv, NEW s \in Reader,
         \/ \E k \in CacheKey : BeginLookup(s, k[2], k[3])
         \/ ReaderStep(s)
  PROVE  JobInv'
<1>1. PICK m : txn' = [txn EXCEPT ![s] = m]
  BY ReaderMovesItself DEF JobInv
<1>2. UNCHANGED table
  BY DEF BeginLookup, ReaderStep, Lookup, Query, Store, tableVars
<1>. QED
  BY <1>1, <1>2, ReadersAreNoJobs DEF JobInv, TableOK

LEMMA JobInvNext ==
  ASSUME FeedsSeeded, JobInv, [Next]_vars
  PROVE  JobInv'
<1>1. CASE Begin
  <2>1. CASE \E j \in Job : \/ \E run \in CsvRuns \cup LiveRuns : BeginRun(j, run)
                            \/ BeginSeed(j)
    BY <2>1, BeginRunKeeps, BeginSeedKeeps
  <2>2. CASE \E s \in Reader, k \in CacheKey : BeginLookup(s, k[2], k[3])
    BY <2>2, ReadersKeepJobs
  <2>. QED
    BY <1>1, <2>1, <2>2 DEF Begin
<1>2. CASE \E j \in Job : JobStep(j)
  <2>1. ASSUME NEW j \in Job, ReturnReport(j) PROVE JobInv'
    <3>1. TableOK'
      BY <2>1 DEF ReturnReport, JobInv, TableOK, tableVars
    <3>. QED
      BY <2>1, <3>1, IdleJobs, JobMoves DEF ReturnReport
  <2>. QED
    BY <1>2, <2>1, SelectKeeps, WriteKeeps, CommitKeeps DEF JobStep
<1>3. CASE \E j \in Job : DeadlockAbort(j)
  BY <1>3, AbortKeepsJobs DEF DeadlockAbort
<1>4. CASE \E s \in Reader : ReaderStep(s)
  BY <1>4, ReadersKeepJobs
<1>5. CASE \E s \in Job \cup Reader : Abort(s)
  BY <1>5, AbortKeepsJobs
<1>6. CASE \E k \in CacheKey : CacheExpire(k)
  BY <1>6 DEF CacheExpire, JobInv, TableOK
<1>7. CASE UNCHANGED vars
  BY <1>7 DEF vars, JobInv, TableOK
<1>. QED
  BY <1>1, <1>2, <1>3, <1>4, <1>5, <1>6, <1>7 DEF Next

\* The invariant of the ingestions: what a job has still to write and what it wrote
\* make up what differed, key by key, when it selected (_persist_benchmarks).
THEOREM IngestionInvariant == FeedsSeeded => (Spec => []JobInv)
<1>. SUFFICES ASSUME FeedsSeeded PROVE Spec => []JobInv
  OBVIOUS
<1>1. Init => JobInv
  BY JobInvInit
<1>2. JobInv /\ [Next]_vars => JobInv'
  BY JobInvNext
<1>. QED
  BY <1>1, <1>2, PTL DEF Spec

\* Type correctness: every row in the table has a cohort of the seed table, a source
\* and a date that is not in the future, and every cached benchmark is of the cohort
\* it is cached for.
THEOREM MarketTypeCorrect == FeedsSeeded => (Spec => []MarketTypeOK)
<1>. SUFFICES ASSUME FeedsSeeded PROVE Spec => []MarketTypeOK
  OBVIOUS
<1>1. JobInv /\ LookupInv => MarketTypeOK
  BY DEF JobInv, LookupInv, JobOK, TableOK, KeyOK, Column, Working, MarketTypeOK
<1>2. Spec => []JobInv
  BY IngestionInvariant
<1>. QED
  BY <1>1, <1>2, LookupInvariant, PTL

\* An ingestion lands whole or not at all, and as it was computed but for rows that
\* another one changed between its SELECT and its UPDATE, whatever the files, however
\* many run at once and wherever a stream breaks off.
THEOREM IngestionsLandWhole == FeedsSeeded => (Spec => IngestionLandsWhole)
<1>. SUFFICES ASSUME FeedsSeeded PROVE Spec => IngestionLandsWhole
  OBVIOUS
<1>. DEFINE Lands ==
       table' # table =>
         \E j \in Job :
           /\ txn[j].pc = "commit" /\ txn'[j].pc # "commit"
           /\ \A i \in DOMAIN txn[j].benchmarks :
                LET b == txn[j].benchmarks[i] IN
                  \/ table'[b.key] = b.row
                  \/ txn[j].seen[i] # NoRow /\ txn[j].seen[i] # Row(b.key)
           /\ \A key \in DOMAIN table' :
                Row(key) # table'[key] => \E b \in Range(txn[j].benchmarks) : b.key = key
<1>1. ASSUME JobInv, NEW j \in Job, Commit(j) PROVE Lands
  <2>1. txn[j].pc = "commit" /\ txn'[j].pc # "commit"
    BY <1>1 DEF Commit, Done, JobInv
  <2>2. \A key \in DOMAIN table' :
          Row(key) # table'[key] => \E b \in Range(txn[j].benchmarks) : b.key = key
    BY <1>1, CommitWrites DEF Row
  <2>. QED
    BY <1>1, <2>1, <2>2, CommitWrites
<1>2. ASSUME [Next]_vars, ~ \E j \in Job : Commit(j) PROVE table' = table
  BY <1>2 DEF Next, Begin, BeginRun, BeginSeed, BeginLookup, JobStep, ReturnReport, SelectRow,
     WriteRow, DeadlockAbort, Abort, ReaderStep, Lookup, Query, Store, CacheExpire, vars,
     tableVars
<1>3. JobInv /\ [Next]_vars => [Lands]_vars
  BY <1>1, <1>2
<1>4. Spec => []JobInv
  BY IngestionInvariant
<1>. QED
  BY <1>3, <1>4, PTL DEF Spec, IngestionLandsWhole

------------------------------------------------------------------------------
(* Wages in order, and the percentiles read off them.                      *)

\* How many of the places I are not above i.
Place(I, i) == Cardinality({ k \in I : k <= i })

LEMMA Places ==
  ASSUME NEW I \in SUBSET Nat, IsFiniteSet(I), NEW i \in I
  PROVE  /\ Place(I, i) \in 1 .. Cardinality(I)
         /\ IsFiniteSet({ k \in I : k <= i })
<1>1. { k \in I : k <= i } \in SUBSET I /\ i \in { k \in I : k <= i }
  OBVIOUS
<1>2. IsFiniteSet({ k \in I : k <= i }) /\ Place(I, i) <= Cardinality(I)
  BY <1>1, FS_Subset DEF Place
<1>3. Place(I, i) \in Nat /\ Place(I, i) # 0 /\ Cardinality(I) \in Nat
  BY <1>1, <1>2, FS_CardinalityType, FS_EmptySet DEF Place
<1> QED BY <1>2, <1>3

\* Places follow each other.
LEMMA PlacesGrow ==
  ASSUME NEW I \in SUBSET Nat, IsFiniteSet(I), NEW i \in I, NEW j \in I, i < j
  PROVE  Place(I, i) < Place(I, j)
<1>1. PICK A, B : A = { k \in I : k <= i } /\ B = { k \in I : k <= j }
  OBVIOUS
<1>2. A \in SUBSET B /\ j \in B /\ j \notin A
  <2>1. i \in Nat /\ j \in Nat /\ ~ (j <= i) /\ j <= j
    OBVIOUS
  <2>2. \A k \in I : k <= i => k <= j
    BY <2>1
  <2> QED BY <1>1, <2>1, <2>2
<1>3. IsFiniteSet(B) /\ IsFiniteSet(A)
  BY <1>1, Places
<1>4. Cardinality(A) <= Cardinality(B) /\ Cardinality(A) # Cardinality(B)
  BY <1>2, <1>3, FS_Subset
<1>5. Cardinality(A) \in Nat /\ Cardinality(B) \in Nat
  BY <1>3, FS_CardinalityType
<1> QED BY <1>1, <1>4, <1>5 DEF Place

\* Every number up to the size of a set of places is one's place.
LEMMA PlaceTaken ==
  ASSUME NEW I \in SUBSET Nat, IsFiniteSet(I), NEW n \in 1 .. Cardinality(I)
  PROVE  \E i \in I : Place(I, i) = n
<1> DEFINE G == { i \in I : n <= Place(I, i) }
<1>1. Cardinality(I) \in Nat /\ I # {}
  BY FS_CardinalityType, FS_EmptySet
<1>2. G # {}
  <2>1. PICK m \in I : \A y \in I : y <= m
    BY <1>1, Greatest
  <2>2. { k \in I : k <= m } = I
    BY <2>1
  <2>3. Place(I, m) = Cardinality(I)
    BY <2>2 DEF Place
  <2> QED BY <1>1, <2>3
<1>3. PICK i \in I : n <= Place(I, i) /\ \A y \in I : n <= Place(I, y) => i <= y
  <2>1. G \in SUBSET Nat
    OBVIOUS
  <2>2. Min(G) \in G /\ \A y \in G : Min(G) <= y
    <3> HIDE DEF G
    <3> QED BY <1>2, <2>1, MinOfSet
  <2>3. PICK g : g = Min(G)
    OBVIOUS
  <2>4. g \in G /\ \A y \in G : g <= y
    BY <2>2, <2>3
  <2> QED BY <2>4
<1>4. PICK L, U : L = { k \in I : k < i } /\ U = { k \in I : k <= i }
  OBVIOUS
<1>5. U = L \cup {i} /\ i \notin L /\ L \in SUBSET I
  <2>1. i \in Nat /\ ~ (i < i)
    OBVIOUS
  <2>2. \A k \in I : k <= i <=> k < i \/ k = i
    BY <2>1
  <2> QED BY <1>4, <2>1, <2>2
<1>6. IsFiniteSet(L) /\ Cardinality(L) \in Nat
  BY <1>5, FS_Subset, FS_CardinalityType
<1>7. Place(I, i) = Cardinality(L) + 1
  <2>1. Cardinality(L \cup {i}) = Cardinality(L) + 1
    BY <1>5, <1>6, FS_AddElement
  <2> QED BY <1>4, <1>5, <2>1 DEF Place
<1>8. Cardinality(L) < n
  <2>1. CASE L = {}
    BY <2>1, FS_EmptySet
  <2>2. CASE L # {}
    <3>1. PICK m \in L : \A y \in L : y <= m
      <4>1. L \in SUBSET Nat
        BY <1>5
      <4> QED BY <1>6, <2>2, <4>1, Greatest
    <3>2. m \in I /\ m < i
      BY <1>4, <3>1
    <3>3. \A k \in I : k <= m <=> k \in L
      <4>1. ASSUME NEW k \in I, k <= m PROVE k < i
        <5>1. k \in Nat /\ m \in Nat /\ i \in Nat
          BY <3>2
        <5> QED BY <3>2, <4>1, <5>1
      <4> QED BY <1>4, <3>1, <4>1
    <3>4. Place(I, m) = Cardinality(L)
      <4>1. { k \in I : k <= m } = L
        BY <1>5, <3>3
      <4> QED BY <4>1 DEF Place
    <3>5. ~ (n <= Place(I, m))
      BY <1>3, <3>2
    <3> QED BY <1>6, <3>4, <3>5
  <2> QED BY <2>1, <2>2
<1> QED BY <1>3, <1>6, <1>7, <1>8

\* A subsequence has the values at its places, in their order.
LEMMA SubsequencePlaces ==
  ASSUME NEW f, NEW I \in SUBSET Nat, IsFiniteSet(I)
  PROVE  /\ DOMAIN Subsequence(f, I) = 1 .. Cardinality(I)
         /\ Cardinality(I) \in Nat
         /\ \E at \in [1 .. Cardinality(I) -> I] :
              /\ \A n \in 1 .. Cardinality(I) : Subsequence(f, I)[n] = f[at[n]]
              /\ \A m, n \in 1 .. Cardinality(I) : m < n => at[m] < at[n]
<1> DEFINE at(n) == CHOOSE i \in I : Cardinality({ k \in I : k <= i }) = n
<1>1. \A n \in 1 .. Cardinality(I) : at(n) \in I /\ Place(I, at(n)) = n
  <2> TAKE n \in 1 .. Cardinality(I)
  <2>1. \E i \in I : Cardinality({ k \in I : k <= i }) = n
    BY PlaceTaken DEF Place
  <2>2. at(n) \in I /\ Cardinality({ k \in I : k <= at(n) }) = n
    BY <2>1
  <2> QED BY <2>2 DEF Place
<1>2. Subsequence(f, I) = [n \in 1 .. Cardinality(I) |-> f[at(n)]]
  BY DEF Subsequence
<1> HIDE DEF at
<1>3. ASSUME NEW m \in 1 .. Cardinality(I), NEW n \in 1 .. Cardinality(I), m < n
      PROVE  at(m) < at(n)
  <2>1. at(m) \in I /\ at(n) \in I /\ Place(I, at(m)) = m /\ Place(I, at(n)) = n
    BY <1>1
  <2>2. ~ (at(n) < at(m))
    <3>1. at(n) < at(m) => Place(I, at(n)) < Place(I, at(m))
      BY <2>1, PlacesGrow
    <3> QED BY <1>3, <2>1, <3>1
  <2>3. at(n) # at(m)
    BY <1>3, <2>1
  <2>4. PICK a, b : a = at(m) /\ b = at(n)
    OBVIOUS
  <2>5. a \in Nat /\ b \in Nat /\ ~ (b < a) /\ b # a
    BY <2>1, <2>2, <2>3, <2>4
  <2>6. a < b
    BY <2>5
  <2> QED BY <2>4, <2>6
<1>4. Cardinality(I) \in Nat
  BY FS_CardinalityType
<1>5. PICK place : place = [n \in 1 .. Cardinality(I) |-> at(n)]
  OBVIOUS
<1>6. place \in [1 .. Cardinality(I) -> I]
  BY <1>1, <1>5
<1>7. \A n \in 1 .. Cardinality(I) : Subsequence(f, I)[n] = f[place[n]]
  BY <1>2, <1>5
<1>8. \A m, n \in 1 .. Cardinality(I) : m < n => place[m] < place[n]
  BY <1>3, <1>5
<1>9. DOMAIN Subsequence(f, I) = 1 .. Cardinality(I)
  BY <1>2
<1> QED BY <1>4, <1>6, <1>7, <1>8, <1>9

LEMMA SubsequenceOf ==
  ASSUME NEW f, NEW I \in SUBSET Nat, IsFiniteSet(I)
  PROVE  /\ DOMAIN Subsequence(f, I) = 1 .. Cardinality(I)
         /\ Cardinality(I) \in Nat
         /\ \A n \in 1 .. Cardinality(I) : \E i \in I : Subsequence(f, I)[n] = f[i]
<1>1. PICK at \in [1 .. Cardinality(I) -> I] :
        \A n \in 1 .. Cardinality(I) : Subsequence(f, I)[n] = f[at[n]]
  BY SubsequencePlaces
<1> QED BY <1>1, SubsequencePlaces

\* A sequence of wages from the lowest to the highest.
Rising(s) ==
  /\ s \in Seq(Nat)
  /\ \A m, n \in 1 .. Len(s) : m <= n => s[m] <= s[n]

LEMMA SubsequenceIsOne ==
  ASSUME NEW f, NEW I \in SUBSET Nat, IsFiniteSet(I), \A i \in I : f[i] \in Nat
  PROVE  Subsequence(f, I) \in Seq(Nat) /\ Len(Subsequence(f, I)) = Cardinality(I)
<1>1. PICK s : s = Subsequence(f, I)
  OBVIOUS
<1>2. PICK c : c = Cardinality(I)
  OBVIOUS
<1>3. c \in Nat /\ DOMAIN s = 1 .. c /\ \A n \in 1 .. c : s[n] \in Nat
  BY <1>1, <1>2, SubsequenceOf
<1>4. s = [n \in 1 .. c |-> s[n]]
  <2>1. s = [n \in DOMAIN s |-> s[n]]
    BY <1>1 DEF Subsequence
  <2> QED BY <1>3, <2>1
<1>5. s \in Seq(Nat) /\ Len(s) = c
  BY <1>3, <1>4
<1> QED BY <1>1, <1>2, <1>5

LEMMA SubsequenceRises ==
  ASSUME NEW s, Rising(s), NEW I \in SUBSET (1 .. Len(s))
  PROVE  /\ Rising(Subsequence(s, I))
         /\ \A n \in 1 .. Len(Subsequence(s, I)) : \E i \in I : Subsequence(s, I)[n] = s[i]
<1>1. s \in Seq(Nat) /\ Len(s) \in Nat
  BY DEF Rising
<1>2. IsFiniteSet(I) /\ I \in SUBSET Nat /\ \A i \in I : s[i] \in Nat
  <2>1. IsFiniteSet(1 .. Len(s))
    BY <1>1, FS_Interval
  <2>2. IsFiniteSet(I)
    BY <2>1, FS_Subset
  <2> QED BY <1>1, <2>2
<1>3. PICK t : t = Subsequence(s, I)
  OBVIOUS
<1>4. t \in Seq(Nat) /\ Len(t) = Cardinality(I)
  BY <1>2, <1>3, SubsequenceIsOne
<1>5. \A n \in 1 .. Len(t) : \E i \in I : t[n] = s[i]
  BY <1>2, <1>3, <1>4, SubsequenceOf
<1>6. ASSUME NEW m \in 1 .. Len(t), NEW n \in 1 .. Len(t), m <= n PROVE t[m] <= t[n]
  <2>1. CASE m = n
    BY <1>4, <2>1
  <2>2. CASE m # n
    <3>1. m < n
      BY <1>4, <1>6, <2>2
    <3>2. PICK i \in I, j \in I : i < j /\ t[m] = s[i] /\ t[n] = s[j]
      <4>1. PICK at \in [1 .. Cardinality(I) -> I] :
              /\ \A x \in 1 .. Cardinality(I) : t[x] = s[at[x]]
              /\ \A x, y \in 1 .. Cardinality(I) : x < y => at[x] < at[y]
        BY <1>2, <1>3, SubsequencePlaces
      <4>2. m \in 1 .. Cardinality(I) /\ n \in 1 .. Cardinality(I)
        BY <1>4
      <4> QED BY <3>1, <4>1, <4>2
    <3>3. i \in 1 .. Len(s) /\ j \in 1 .. Len(s) /\ i <= j
      BY <1>1, <3>2
    <3>4. s[i] <= s[j]
      BY <3>3 DEF Rising
    <3> QED BY <3>2, <3>4
  <2> QED BY <2>1, <2>2
<1>7. Rising(t)
  BY <1>4, <1>6 DEF Rising
<1> QED BY <1>3, <1>5, <1>7

\* sorted() sorts.
LEMMA AscendingRises ==
  ASSUME NEW wages \in Seq(Nat)
  PROVE  /\ Rising(Ascending(wages)) /\ Len(Ascending(wages)) = Len(wages)
         /\ \A n \in 1 .. Len(wages) : \E k \in 1 .. Len(wages) : Ascending(wages)[n] = wages[k]
<1> DEFINE below(w) == { k \in DOMAIN wages : wages[k] <= w }
           A(n) == { w \in Range(wages) : n <= Cardinality(below(w)) }
<1>1. Len(wages) \in Nat /\ DOMAIN wages = 1 .. Len(wages)
  OBVIOUS
<1>2. Range(wages) \in SUBSET Nat /\ IsFiniteSet(Range(wages))
  <2>1. IsFiniteSet(DOMAIN wages)
    BY <1>1, FS_Interval
  <2>2. IsFiniteSet({ wages[x] : x \in DOMAIN wages })
    BY <2>1, ImageFinite
  <2>3. Range(wages) = { wages[x] : x \in DOMAIN wages }
    BY DEF Range
  <2> QED BY <1>1, <2>2, <2>3
<1>3. ASSUME NEW n \in 1 .. Len(wages) PROVE A(n) \in SUBSET Nat /\ A(n) # {}
  <2>1. Range(wages) # {}
    BY <1>1 DEF Range
  <2>2. PICK m \in Range(wages) : \A y \in Range(wages) : y <= m
    BY <1>2, <2>1, Greatest
  <2>3. \A k \in DOMAIN wages : wages[k] \in Range(wages)
    BY DEF Range
  <2>4. below(m) = DOMAIN wages
    BY <2>2, <2>3
  <2>5. Cardinality(DOMAIN wages) = Len(wages)
    <3>1. 1 \in Int /\ Len(wages) \in Int /\ 1 <= Len(wages)
      BY <1>1
    <3>2. Cardinality(1 .. Len(wages)) = IF 1 > Len(wages) THEN 0 ELSE Len(wages) - 1 + 1
      BY <3>1, FS_Interval
    <3> QED BY <1>1, <3>1, <3>2
  <2>6. n <= Cardinality(below(m))
    BY <2>4, <2>5
  <2>7. m \in A(n)
    BY <2>6
  <2> QED BY <1>2, <2>7
<1> HIDE DEF A
<1>4. ASSUME NEW n \in 1 .. Len(wages)
      PROVE  Min(A(n)) \in A(n) /\ \A y \in A(n) : Min(A(n)) <= y
  BY <1>3, MinOfSet
<1>5. PICK s : s = Ascending(wages)
  OBVIOUS
<1>6. s = [n \in 1 .. Len(wages) |-> Min(A(n))]
  BY <1>5 DEF A, Ascending
<1>7. \A n \in 1 .. Len(wages) : s[n] \in A(n) /\ \A y \in A(n) : s[n] <= y
  BY <1>4, <1>6
<1>8. \A n \in 1 .. Len(wages) : A(n) \subseteq Range(wages)
  BY DEF A
<1>9. s \in Seq(Nat) /\ Len(s) = Len(wages)
  <2>1. \A n \in 1 .. Len(wages) : s[n] \in Nat
    BY <1>2, <1>7, <1>8
  <2> QED BY <1>1, <1>6, <2>1
<1>10. \A n \in 1 .. Len(wages) : \E k \in 1 .. Len(wages) : s[n] = wages[k]
  BY <1>1, <1>7, <1>8 DEF Range
<1>11. ASSUME NEW m \in 1 .. Len(wages), NEW n \in 1 .. Len(wages), m <= n PROVE s[m] <= s[n]
  <2>1. PICK w : w = s[n]
    OBVIOUS
  <2>2. w \in Range(wages) /\ n <= Cardinality(below(w))
    BY <1>7, <2>1 DEF A
  <2>3. Cardinality(below(w)) \in Nat
    <3>1. IsFiniteSet(DOMAIN wages) /\ below(w) \in SUBSET DOMAIN wages
      BY <1>1, FS_Interval
    <3> QED BY <3>1, FS_Subset, FS_CardinalityType
  <2>4. m <= Cardinality(below(w))
    <3>1. PICK c \in Nat : c = Cardinality(below(w))
      BY <2>3
    <3>2. m \in Nat /\ n \in Nat /\ n <= c
      BY <1>1, <2>2, <3>1
    <3>3. m <= c
      BY <1>11, <3>2
    <3> QED BY <3>1, <3>3
  <2>5. w \in A(m)
    BY <2>2, <2>4 DEF A
  <2> QED BY <1>7, <2>1, <2>5
<1>12. Rising(s)
  BY <1>9, <1>11 DEF Rising
<1> QED BY <1>5, <1>9, <1>10, <1>12

\* What is left of the wages when the outliers are pruned.
LEMMA CleanWagesRise ==
  ASSUME NEW wages \in Seq(Nat)
  PROVE  Rising(CleanWages(wages)) /\ \A n \in 1 .. Len(CleanWages(wages)) : CleanWages(wages)[n] >= 40
<1>1. PICK I : I = { i \in DOMAIN wages : wages[i] >= 40 }
  OBVIOUS
<1>2. I \in SUBSET Nat /\ IsFiniteSet(I) /\ \A i \in I : wages[i] \in Nat /\ wages[i] >= 40
  <2>1. IsFiniteSet(DOMAIN wages)
    <3>1. DOMAIN wages = 1 .. Len(wages) /\ Len(wages) \in Nat
      OBVIOUS
    <3> QED BY <3>1, FS_Interval
  <2> QED BY <1>1, <2>1, FS_Subset
<1>3. PICK read : read = Subsequence(wages, I)
  OBVIOUS
<1>4. read \in Seq(Nat) /\ Len(read) = Cardinality(I)
  BY <1>2, <1>3, SubsequenceIsOne
<1>5. \A n \in 1 .. Len(read) : read[n] >= 40
  <2>1. \A n \in 1 .. Cardinality(I) : \E i \in I : read[n] = wages[i]
    BY <1>2, <1>3, SubsequenceOf
  <2>2. \A n \in 1 .. Len(read) : n \in 1 .. Cardinality(I)
    BY <1>4
  <2> QED BY <1>2, <2>1, <2>2
<1>6. PICK sorted : sorted = Ascending(read)
  OBVIOUS
<1>7. /\ Rising(sorted) /\ Len(sorted) = Len(read)
      /\ \A n \in 1 .. Len(read) : \E k \in 1 .. Len(read) : sorted[n] = read[k]
  BY <1>4, <1>6, AscendingRises
<1>8. \A n \in 1 .. Len(sorted) : sorted[n] >= 40
  BY <1>5, <1>7
<1>9. PICK J : J \in SUBSET (1 .. Len(sorted)) /\
               CleanWages(wages) \in {sorted, Subsequence(sorted, J)}
  <2> DEFINE q1 == Percentile(sorted, 25)
             q3 == Percentile(sorted, 75)
             lower == Max({ 200 * 40, 2 * q1 - 3 * (q3 - q1) })
             upper == Min({ 200 * 1500, 2 * q3 + 3 * (q3 - q1) })
  <2>1. CleanWages(wages) = IF Len(sorted) < 4 THEN sorted
                            ELSE Subsequence(sorted, Between(sorted, lower, upper))
    BY <1>1, <1>3, <1>6 DEF CleanWages
  <2> HIDE DEF lower, upper
  <2>2. Between(sorted, lower, upper) \in SUBSET (1 .. Len(sorted))
    <3>1. DOMAIN sorted = 1 .. Len(sorted)
      BY <1>7 DEF Rising
    <3> QED BY <3>1, Zenon DEF Between
  <2>3. CleanWages(wages) \in {sorted, Subsequence(sorted, Between(sorted, lower, upper))}
    BY <2>1
  <2> QED BY <2>2, <2>3
<1>10. PICK t : t = Subsequence(sorted, J)
  OBVIOUS
<1>11. Rising(t) /\ \A n \in 1 .. Len(t) : t[n] >= 40
  BY <1>7, <1>8, <1>9, <1>10, SubsequenceRises
<1> QED BY <1>7, <1>8, <1>9, <1>10, <1>11

LEMMA Multiples ==
  ASSUME NEW a \in Nat, NEW b \in Nat, NEW m \in Nat, a <= b
  PROVE  a * m \in Nat /\ b * m \in Nat /\ a * m <= b * m
<1>1. PICK c \in Nat : b = a + c
  <2>1. b - a \in Nat /\ b = a + (b - a)
    OBVIOUS
  <2> QED BY <2>1
<1>2. b * m = a * m + c * m /\ a * m \in Nat /\ c * m \in Nat
  BY <1>1
<1> QED BY <1>2

\* The rank of a percentile, and what is interpolated there.
LEMMA PercentileAt ==
  ASSUME NEW s, Rising(s), Len(s) >= 1, NEW p \in 0 .. 99
  PROVE  \E i \in 1 .. Len(s), r \in 0 .. 99, d \in Nat :
           /\ p * (Len(s) - 1) = 100 * (i - 1) + r
           /\ Percentile(s, p) = 100 * s[i] + r * d
           /\ r # 0 => i + 1 \in 1 .. Len(s) /\ d = s[i + 1] - s[i]
<1>1. PICK m \in Nat : m = Len(s) - 1
  BY DEF Rising
<1>2. PICK rank : rank = p * m
  OBVIOUS
<1>3. rank \in Nat /\ rank <= 99 * m
  BY <1>2, Multiples
<1>4. PICK k \in Nat, r \in 0 .. 99 : k = rank \div 100 /\ r = rank % 100 /\ rank = 100 * k + r
  <2>1. rank \div 100 \in Nat /\ rank % 100 \in 0 .. 99
        /\ rank = 100 * (rank \div 100) + (rank % 100)
    BY <1>3
  <2> QED BY <2>1
<1>5. k <= m /\ (r # 0 => k < m)
  BY <1>3, <1>4
<1>6. k + 1 \in 1 .. Len(s) /\ (r # 0 => k + 2 \in 1 .. Len(s))
  BY <1>1, <1>5 DEF Rising
<1>7. s[k + 1] \in Nat /\ (r # 0 => s[k + 2] \in Nat /\ s[k + 1] <= s[k + 2])
  <2>1. k + 1 <= k + 2
    OBVIOUS
  <2>2. \A i \in 1 .. Len(s) : s[i] \in Nat
    BY DEF Rising
  <2> QED BY <1>6, <2>1, <2>2 DEF Rising
<1>8. PICK i : i = k + 1
  OBVIOUS
<1>9. i + 1 = k + 2 /\ i - 1 = k
  BY <1>8
<1>10. Percentile(s, p) = IF r = 0 THEN 100 * s[i] ELSE 100 * s[i] + r * (s[i + 1] - s[i])
  BY <1>1, <1>2, <1>4, <1>8, Zenon DEF Percentile
<1>11. p * (Len(s) - 1) = 100 * (i - 1) + r
  BY <1>1, <1>2, <1>4, <1>9
<1>12. CASE r = 0
  <2>1. Percentile(s, p) = 100 * s[i] + r * 0
    BY <1>7, <1>8, <1>10, <1>12
  <2> QED BY <1>6, <1>8, <1>11, <1>12, <2>1
<1>13. CASE r # 0
  <2>1. PICK d \in Nat : d = s[i + 1] - s[i]
    BY <1>7, <1>8, <1>9, <1>13
  <2>2. Percentile(s, p) = 100 * s[i] + r * d
    BY <1>10, <1>13, <2>1
  <2>3. i \in 1 .. Len(s) /\ i + 1 \in 1 .. Len(s)
    BY <1>6, <1>8, <1>9, <1>13
  <2> QED BY <1>11, <2>1, <2>2, <2>3
<1> QED BY <1>12, <1>13

\* A higher percentile is no lower wage.
LEMMA PercentilesFollow ==
  ASSUME NEW s, Rising(s), Len(s) >= 1, NEW p \in 0 .. 99, NEW q \in 0 .. 99, p <= q
  PROVE  /\ Percentile(s, p) \in Nat /\ Percentile(s, q) \in Nat
         /\ Percentile(s, p) <= Percentile(s, q)
         /\ 100 * s[1] <= Percentile(s, p)
<1>0. Len(s) \in Nat /\ Len(s) - 1 \in Nat /\ \A n \in 1 .. Len(s) : s[n] \in Nat
  BY DEF Rising
<1>1. PICK i \in 1 .. Len(s), r \in 0 .. 99, d \in Nat :
           /\ p * (Len(s) - 1) = 100 * (i - 1) + r
           /\ Percentile(s, p) = 100 * s[i] + r * d
           /\ r # 0 => i + 1 \in 1 .. Len(s) /\ d = s[i + 1] - s[i]
  BY PercentileAt
<1>2. PICK j \in 1 .. Len(s), u \in 0 .. 99, e \in Nat :
           /\ q * (Len(s) - 1) = 100 * (j - 1) + u
           /\ Percentile(s, q) = 100 * s[j] + u * e
           /\ u # 0 => j + 1 \in 1 .. Len(s) /\ e = s[j + 1] - s[j]
  BY PercentileAt
<1>3. i \in Nat /\ j \in Nat /\ s[i] \in Nat /\ s[j] \in Nat /\ s[1] \in Nat /\ s[1] <= s[i]
  <2>1. 1 \in 1 .. Len(s) /\ 1 <= i
    BY <1>0
  <2> QED BY <1>0, <2>1 DEF Rising
<1>4. PICK x, y, P, Q : x = r * d /\ y = u * e /\ P = Percentile(s, p) /\ Q = Percentile(s, q)
  OBVIOUS
<1>5. x \in Nat /\ y \in Nat /\ P = 100 * s[i] + x /\ Q = 100 * s[j] + y
  <2>1. r \in Nat /\ u \in Nat
    OBVIOUS
  <2>2. r * d \in Nat /\ u * e \in Nat
    BY <2>1, Multiples
  <2> QED BY <1>1, <1>2, <1>4, <2>2
<1>6. i < j \/ (i = j /\ r <= u)
  <2>1. PICK m \in Nat : m = Len(s) - 1
    BY <1>0
  <2>2. p \in Nat /\ q \in Nat
    OBVIOUS
  <2>3. p * m <= q * m
    BY <2>2, Multiples
  <2>4. p * m = 100 * (i - 1) + r /\ q * m = 100 * (j - 1) + u
    BY <1>1, <1>2, <2>1
  <2>5. 100 * (i - 1) + r <= 100 * (j - 1) + u
    BY <2>3, <2>4
  <2> QED BY <1>3, <2>5
<1>7. P <= Q
  <2>1. CASE i < j
    <3>1. s[i] <= s[j]
      BY <1>3, <2>1 DEF Rising
    <3>2. CASE r = 0
      <4>1. x = 0
        BY <1>4, <3>2
      <4> QED BY <1>3, <1>5, <3>1, <4>1
    <3>3. CASE r # 0
      <4>1. i + 1 \in 1 .. Len(s) /\ d = s[i + 1] - s[i]
        BY <1>1, <3>3
      <4>2. i + 1 <= j
        BY <1>3, <2>1
      <4>3. PICK z : z = s[i + 1]
        OBVIOUS
      <4>4. z \in Nat /\ z <= s[j] /\ d = z - s[i]
        BY <1>0, <4>1, <4>2, <4>3 DEF Rising
      <4>5. r * d <= 100 * d
        <5>1. r \in Nat /\ 100 \in Nat /\ r <= 100
          OBVIOUS
        <5> QED BY <5>1, Multiples
      <4>6. x <= 100 * d
        BY <1>4, <4>5
      <4>7. PICK v, w : v = s[i] /\ w = s[j]
        OBVIOUS
      <4>8. v \in Nat /\ w \in Nat /\ P = 100 * v + x /\ Q = 100 * w + y
            /\ z <= w /\ d = z - v /\ x \in Nat /\ y \in Nat
        BY <1>3, <1>5, <4>4, <4>7
      <4> QED BY <4>4, <4>6, <4>8
    <3> QED BY <3>2, <3>3
  <2>2. CASE i = j /\ r <= u
    <3>1. CASE r = 0
      <4>1. x = 0
        BY <1>4, <3>1
      <4> QED BY <1>3, <1>5, <2>2, <4>1
    <3>2. CASE r # 0
      <4>1. u # 0
        BY <2>2, <3>2
      <4>2. d = e
        BY <1>1, <1>2, <2>2, <3>2, <4>1, Zenon
      <4>3. r * d <= u * d
        <5>1. r \in Nat /\ u \in Nat
          OBVIOUS
        <5> QED BY <2>2, <5>1, Multiples
      <4>4. x <= y
        BY <1>4, <4>2, <4>3
      <4> QED BY <1>3, <1>5, <2>2, <4>4
    <3> QED BY <3>1, <3>2
  <2> QED BY <1>6, <2>1, <2>2
<1>8. P \in Nat /\ Q \in Nat /\ 100 * s[1] <= P
  <2>1. PICK v, w, z : v = s[i] /\ w = s[j] /\ z = s[1]
    OBVIOUS
  <2>2. v \in Nat /\ w \in Nat /\ P = 100 * v + x /\ Q = 100 * w + y /\ z \in Nat /\ z <= v
    BY <1>3, <1>5, <2>1
  <2>3. P \in Nat /\ Q \in Nat /\ 100 * z <= P
    BY <1>5, <2>2
  <2> QED BY <2>1, <2>3
<1> QED BY <1>4, <1>7, <1>8, Zenon

\* The figures of a benchmark, before and after aging.
FiguresOK(row) ==
  /\ row.p10 \in Nat /\ row.p25 \in Nat /\ row.p50 \in Nat /\ row.p75 \in Nat
  /\ row.p90 \in Nat /\ row.sample \in Nat
  /\ Ordered(row)

LEMMA PercentilesOK ==
  ASSUME NEW wages \in Seq(Nat)
  PROVE  /\ FiguresOK(Percentiles(wages))
         /\ Percentiles(wages).sample = Len(CleanWages(wages))
         /\ Percentiles(wages).sample > 0 => Percentiles(wages).p10 >= 4000
<1>1. PICK s : s = CleanWages(wages)
  OBVIOUS
<1>2. Rising(s) /\ \A n \in 1 .. Len(s) : s[n] >= 40
  BY <1>1, CleanWagesRise
<1>3. s \in Seq(Nat) /\ Len(s) \in Nat
  BY <1>2 DEF Rising
<1>4. CASE s = <<>>
  <2>1. Percentiles(wages) = [ p10 |-> 0, p25 |-> 0, p50 |-> 0, p75 |-> 0, p90 |-> 0,
                               sample |-> Len(s) ]
    BY <1>1, <1>4, Zenon DEF Percentiles
  <2> QED BY <1>1, <1>4, <2>1 DEF FiguresOK, Ordered
<1>5. CASE s # <<>>
  <2>1. Len(s) >= 1
    BY <1>3, <1>5
  <2>2. Percentiles(wages) = [ p10 |-> Percentile(s, 10), p25 |-> Percentile(s, 25),
                               p50 |-> Percentile(s, 50), p75 |-> Percentile(s, 75),
                               p90 |-> Percentile(s, 90), sample |-> Len(s) ]
    BY <1>1, <1>5, Zenon DEF Percentiles
  <2>3. /\ Percentile(s, 10) \in Nat /\ Percentile(s, 25) \in Nat
        /\ Percentile(s, 10) <= Percentile(s, 25) /\ 100 * s[1] <= Percentile(s, 10)
    <3>1. 10 \in 0 .. 99 /\ 25 \in 0 .. 99 /\ 10 <= 25
      OBVIOUS
    <3> QED BY <1>2, <2>1, <3>1, PercentilesFollow
  <2>4. Percentile(s, 50) \in Nat /\ Percentile(s, 25) <= Percentile(s, 50)
    <3>1. 25 \in 0 .. 99 /\ 50 \in 0 .. 99 /\ 25 <= 50
      OBVIOUS
    <3> QED BY <1>2, <2>1, <3>1, PercentilesFollow
  <2>5. Percentile(s, 75) \in Nat /\ Percentile(s, 50) <= Percentile(s, 75)
    <3>1. 50 \in 0 .. 99 /\ 75 \in 0 .. 99 /\ 50 <= 75
      OBVIOUS
    <3> QED BY <1>2, <2>1, <3>1, PercentilesFollow
  <2>6. Percentile(s, 90) \in Nat /\ Percentile(s, 75) <= Percentile(s, 90)
    <3>1. 75 \in 0 .. 99 /\ 90 \in 0 .. 99 /\ 75 <= 90
      OBVIOUS
    <3> QED BY <1>2, <2>1, <3>1, PercentilesFollow
  <2>7. Percentile(s, 10) >= 4000
    <3>1. s[1] \in Nat /\ s[1] >= 40
      BY <1>2, <1>3, <2>1
    <3> QED BY <2>3, <3>1
  <2>8. FiguresOK(Percentiles(wages))
    BY <1>3, <2>2, <2>3, <2>4, <2>5, <2>6 DEF FiguresOK, Ordered
  <2> QED BY <1>1, <2>2, <2>7, <2>8
<1> QED BY <1>4, <1>5

LEMMA AgedOK ==
  ASSUME NEW row, FiguresOK(row), DOMAIN row = Column, NEW from, NEW to
  PROVE  /\ FiguresOK(Aged(row, from, to))
         /\ Aged(row, from, to).sample = row.sample
         /\ row.p10 >= 4000 => Aged(row, from, to).p10 >= 400000
<1>1. PICK k \in {100, 104} : k = IF to <= from THEN 100 ELSE 104
  OBVIOUS
<1>2. PICK aged : aged = Aged(row, from, to)
  OBVIOUS
<1>3. aged = [ c \in Column |-> IF c \notin Figure THEN row[c] ELSE k * row[c] ]
  BY <1>1, <1>2, Zenon DEF Aged
<1>4. /\ aged.p10 = k * row.p10 /\ aged.p25 = k * row.p25 /\ aged.p50 = k * row.p50
      /\ aged.p75 = k * row.p75 /\ aged.p90 = k * row.p90 /\ aged.sample = row.sample
  BY <1>3 DEF Column, Figure
<1>5. CASE k = 100
  BY <1>2, <1>4, <1>5 DEF FiguresOK, Ordered
<1>6. CASE k = 104
  BY <1>2, <1>4, <1>6 DEF FiguresOK, Ordered
<1> QED BY <1>1, <1>5, <1>6

------------------------------------------------------------------------------
(* A salary's position in a benchmark.                                     *)

\* quantize rounds to one of the two numbers next to it, and never out of order.
LEMMA HalfEvenRounds ==
  ASSUME NEW n \in Nat, NEW d \in Nat, d > 0
  PROVE  \E q \in Nat, r \in Nat :
           /\ n = q * d + r /\ r < d
           /\ HalfEven(n, d) = IF 2 * r < d \/ (2 * r = d /\ q % 2 = 0) THEN q ELSE q + 1
<1>1. PICK q, r : q = n \div d /\ r = n % d
  OBVIOUS
<1>2. q \in Nat /\ r \in Nat /\ n = q * d + r /\ r < d
  BY <1>1
<1>3. HalfEven(n, d) = IF 2 * r < d \/ (2 * r = d /\ q % 2 = 0) THEN q ELSE q + 1
  BY <1>1, Zenon DEF HalfEven
<1> QED BY <1>2, <1>3

LEMMA Factors ==
  ASSUME NEW a \in Nat, NEW b \in Nat, NEW d \in Nat, a * d < b * d
  PROVE  a < b
<1>1. b <= a => b * d <= a * d
  BY Multiples
<1>2. a * d \in Nat /\ b * d \in Nat
  BY Multiples
<1> QED BY <1>1, <1>2

LEMMA HalfEvenBounds ==
  ASSUME NEW n \in Nat, NEW d \in Nat, d > 0, NEW k \in Nat
  PROVE  /\ HalfEven(n, d) \in Nat
         /\ k * d <= n => k <= HalfEven(n, d)
         /\ n <= k * d => HalfEven(n, d) <= k
<1>1. PICK q \in Nat, r \in Nat :
           /\ n = q * d + r /\ r < d
           /\ HalfEven(n, d) = IF 2 * r < d \/ (2 * r = d /\ q % 2 = 0) THEN q ELSE q + 1
  BY HalfEvenRounds
<1>2. q * d \in Nat /\ k * d \in Nat /\ (q + 1) * d = q * d + d
  BY Multiples
<1>3. HalfEven(n, d) \in {q, q + 1} /\ (r = 0 => HalfEven(n, d) = q)
  BY <1>1
<1>4. ASSUME k * d <= n PROVE k <= HalfEven(n, d)
  <2>1. k * d < (q + 1) * d
    BY <1>1, <1>2, <1>4
  <2>2. k < q + 1
    BY <2>1, Factors
  <2> QED BY <1>3, <2>2
<1>5. ASSUME n <= k * d PROVE HalfEven(n, d) <= k
  <2>1. CASE r = 0
    <3>1. q * d <= k * d
      BY <1>1, <1>2, <1>5, <2>1
    <3>2. q * d < (k + 1) * d
      <4>1. (k + 1) * d = k * d + d
        OBVIOUS
      <4> QED BY <1>2, <3>1, <4>1
    <3>3. q < k + 1
      BY <3>2, Factors
    <3> QED BY <1>3, <2>1, <3>3
  <2>2. CASE r # 0
    <3>1. q * d < k * d
      BY <1>1, <1>2, <1>5, <2>2
    <3>2. q < k
      BY <3>1, Factors
    <3> QED BY <1>3, <3>2
  <2> QED BY <2>1, <2>2
<1>6. HalfEven(n, d) \in Nat
  BY <1>3
<1> QED BY <1>4, <1>5, <1>6

LEMMA HalfEvenGrows ==
  ASSUME NEW n \in Nat, NEW m \in Nat, NEW d \in Nat, d > 0, n <= m
  PROVE  HalfEven(n, d) <= HalfEven(m, d)
<1>1. PICK q \in Nat, r \in Nat :
           /\ n = q * d + r /\ r < d
           /\ HalfEven(n, d) = IF 2 * r < d \/ (2 * r = d /\ q % 2 = 0) THEN q ELSE q + 1
  BY HalfEvenRounds
<1>2. PICK p \in Nat, s \in Nat :
           /\ m = p * d + s /\ s < d
           /\ HalfEven(m, d) = IF 2 * s < d \/ (2 * s = d /\ p % 2 = 0) THEN p ELSE p + 1
  BY HalfEvenRounds
<1>3. q * d \in Nat /\ p * d \in Nat /\ (p + 1) * d = p * d + d
  BY Multiples
<1>4. q < p + 1
  <2>1. q * d < (p + 1) * d
    BY <1>1, <1>2, <1>3
  <2> QED BY <2>1, Factors
<1>5. CASE q < p
  <2>1. HalfEven(n, d) \in {q, q + 1} /\ HalfEven(m, d) \in {p, p + 1}
    BY <1>1, <1>2
  <2> QED BY <1>5, <2>1
<1>6. CASE q = p
  <2>1. r <= s
    BY <1>1, <1>2, <1>3, <1>6
  <2>2. PICK even : even = (q % 2 = 0)
    OBVIOUS
  <2>3. /\ HalfEven(n, d) = IF 2 * r < d \/ (2 * r = d /\ even) THEN q ELSE q + 1
        /\ HalfEven(m, d) = IF 2 * s < d \/ (2 * s = d /\ even) THEN q ELSE q + 1
    BY <1>1, <1>2, <1>6, <2>2
  <2> QED BY <2>1, <2>3
<1> QED BY <1>4, <1>5, <1>6

\* Between two percentiles the position is interpolated.
Interpolated(base, from, start, to, width) ==
  10 * start + HalfEven(10 * width * (base - from), to - from)

LEMMA InterpolatedBetween ==
  ASSUME NEW from \in Nat, NEW to \in Nat, NEW start \in Nat, NEW width \in {15, 25},
         NEW base \in Nat, from < base, base <= to
  PROVE  /\ Interpolated(base, from, start, to, width) \in Nat
         /\ 10 * start <= Interpolated(base, from, start, to, width)
         /\ Interpolated(base, from, start, to, width) <= 10 * start + 10 * width
<1>1. PICK x \in Nat, d \in Nat : x = base - from /\ d = to - from /\ d > 0 /\ x <= d
  <2>1. base - from \in Nat /\ to - from \in Nat /\ to - from > 0 /\ base - from <= to - from
    OBVIOUS
  <2> QED BY <2>1
<1>2. PICK k \in Nat : k = 10 * width
  OBVIOUS
<1>3. k * x \in Nat /\ k * x <= k * d
  <2>1. x * k \in Nat /\ x * k <= d * k
    BY <1>1, Multiples
  <2>2. x * k = k * x /\ d * k = k * d
    OBVIOUS
  <2> QED BY <2>1, <2>2
<1>4. PICK h : h = HalfEven(k * x, d)
  OBVIOUS
<1>5. h \in Nat /\ h <= k
  BY <1>1, <1>3, <1>4, HalfEvenBounds
<1>6. Interpolated(base, from, start, to, width) = 10 * start + h
  BY <1>1, <1>2, <1>4 DEF Interpolated
<1> QED BY <1>2, <1>5, <1>6

LEMMA InterpolatedGrows ==
  ASSUME NEW from \in Nat, NEW to \in Nat, NEW start \in Nat, NEW width \in {15, 25},
         NEW base \in Nat, from < base, NEW more \in Nat, base <= more, more <= to
  PROVE  Interpolated(base, from, start, to, width) <= Interpolated(more, from, start, to, width)
<1>1. PICK x \in Nat, y \in Nat, d \in Nat :
        x = base - from /\ y = more - from /\ d = to - from /\ d > 0 /\ x <= y
  <2>1. /\ base - from \in Nat /\ more - from \in Nat /\ to - from \in Nat /\ to - from > 0
        /\ base - from <= more - from
    OBVIOUS
  <2> QED BY <2>1
<1>2. PICK k \in Nat : k = 10 * width
  OBVIOUS
<1>3. k * x \in Nat /\ k * y \in Nat /\ k * x <= k * y
  <2>1. x * k \in Nat /\ y * k \in Nat /\ x * k <= y * k
    BY <1>1, Multiples
  <2>2. x * k = k * x /\ y * k = k * y
    OBVIOUS
  <2> QED BY <2>1, <2>2
<1>4. PICK h, g : h = HalfEven(k * x, d) /\ g = HalfEven(k * y, d)
  OBVIOUS
<1>5. h \in Nat /\ g \in Nat /\ h <= g
  BY <1>1, <1>3, <1>4, HalfEvenBounds, HalfEvenGrows
<1>6. /\ Interpolated(base, from, start, to, width) = 10 * start + h
      /\ Interpolated(more, from, start, to, width) = 10 * start + g
  BY <1>1, <1>2, <1>4 DEF Interpolated
<1> QED BY <1>5, <1>6

BelowP10(base, p10) == HalfEven(Max({ 10 * p10, 100 * base }), p10)

AboveP90(base, p90) == Min({ 990, 900 + HalfEven(100 * (base - p90), p90) })

LEMMA MaxOfTwo == ASSUME NEW a \in Int, NEW b \in Int PROVE Max({a, b}) = IF a >= b THEN a ELSE b
<1>1. PICK m \in {a, b} : m = (IF a >= b THEN a ELSE b) /\ \A y \in {a, b} : m >= y
  OBVIOUS
<1>2. \A x \in {a, b} : (\A y \in {a, b} : x >= y) => x = m
  BY <1>1
<1>3. Max({a, b}) = m
  BY <1>1, <1>2 DEF Max
<1> QED BY <1>1, <1>3

LEMMA MinOfTwo == ASSUME NEW a \in Int, NEW b \in Int PROVE Min({a, b}) = IF a <= b THEN a ELSE b
<1>1. PICK m \in {a, b} : m = (IF a <= b THEN a ELSE b) /\ \A y \in {a, b} : m <= y
  OBVIOUS
<1>2. \A x \in {a, b} : (\A y \in {a, b} : x <= y) => x = m
  BY <1>1
<1>3. Min({a, b}) = m
  BY <1>1, <1>2 DEF Min
<1> QED BY <1>1, <1>3

LEMMA BelowP10Bounds ==
  ASSUME NEW p \in Nat, p > 0, NEW base \in Nat, base <= p
  PROVE  /\ BelowP10(base, p) \in Nat /\ 10 <= BelowP10(base, p) /\ BelowP10(base, p) <= 100
         /\ base = p => BelowP10(base, p) = 100
<1>1. PICK n \in Nat : n = Max({ 10 * p, 100 * base }) /\ 10 * p <= n /\ n <= 100 * p
                       /\ (base = p => n = 100 * p)
  <2>1. Max({ 10 * p, 100 * base }) = IF 10 * p >= 100 * base THEN 10 * p ELSE 100 * base
    BY MaxOfTwo
  <2> QED BY <2>1
<1>2. BelowP10(base, p) = HalfEven(n, p)
  BY <1>1 DEF BelowP10
<1>3. HalfEven(n, p) \in Nat /\ 10 <= HalfEven(n, p) /\ HalfEven(n, p) <= 100
  BY <1>1, HalfEvenBounds
<1>4. base = p => 100 <= HalfEven(n, p)
  BY <1>1, HalfEvenBounds
<1> QED BY <1>2, <1>3, <1>4

LEMMA BelowP10Grows ==
  ASSUME NEW p \in Nat, p > 0, NEW base \in Nat, NEW more \in Nat, base <= more
  PROVE  BelowP10(base, p) <= BelowP10(more, p)
<1>1. PICK n \in Nat, m \in Nat :
        n = Max({ 10 * p, 100 * base }) /\ m = Max({ 10 * p, 100 * more }) /\ n <= m
  <2>1. Max({ 10 * p, 100 * base }) = IF 10 * p >= 100 * base THEN 10 * p ELSE 100 * base
    BY MaxOfTwo
  <2>2. Max({ 10 * p, 100 * more }) = IF 10 * p >= 100 * more THEN 10 * p ELSE 100 * more
    BY MaxOfTwo
  <2> QED BY <2>1, <2>2
<1> QED BY <1>1, HalfEvenGrows DEF BelowP10

LEMMA AboveP90Bounds ==
  ASSUME NEW p \in Nat, p > 0, NEW base \in Nat, p < base
  PROVE  AboveP90(base, p) \in Nat /\ 900 <= AboveP90(base, p) /\ AboveP90(base, p) <= 990
<1>1. PICK h : h = HalfEven(100 * (base - p), p)
  OBVIOUS
<1>2. h \in Nat
  <2>1. 100 * (base - p) \in Nat
    OBVIOUS
  <2> QED BY <1>1, <2>1, HalfEvenBounds
<1>3. AboveP90(base, p) = IF 990 <= 900 + h THEN 990 ELSE 900 + h
  <2>1. AboveP90(base, p) = Min({ 990, 900 + h })
    BY <1>1 DEF AboveP90
  <2> QED BY <1>2, <2>1, MinOfTwo
<1> QED BY <1>2, <1>3

LEMMA AboveP90Grows ==
  ASSUME NEW p \in Nat, p > 0, NEW base \in Nat, p < base, NEW more \in Nat, base <= more
  PROVE  AboveP90(base, p) <= AboveP90(more, p)
<1>1. PICK h, g : h = HalfEven(100 * (base - p), p) /\ g = HalfEven(100 * (more - p), p)
  OBVIOUS
<1>2. h \in Nat /\ g \in Nat /\ h <= g
  <2>1. /\ 100 * (base - p) \in Nat /\ 100 * (more - p) \in Nat
        /\ 100 * (base - p) <= 100 * (more - p)
    OBVIOUS
  <2> QED BY <1>1, <2>1, HalfEvenBounds, HalfEvenGrows
<1>3. AboveP90(base, p) = IF 990 <= 900 + h THEN 990 ELSE 900 + h
  <2>1. AboveP90(base, p) = Min({ 990, 900 + h })
    BY <1>1 DEF AboveP90
  <2> QED BY <1>2, <2>1, MinOfTwo
<1>4. AboveP90(more, p) = IF 990 <= 900 + g THEN 990 ELSE 900 + g
  <2>1. AboveP90(more, p) = Min({ 990, 900 + g })
    BY <1>1 DEF AboveP90
  <2> QED BY <1>2, <2>1, MinOfTwo
<1> QED BY <1>2, <1>3, <1>4

LEMMA PositionIs ==
  ASSUME NEW salary, NEW b, NEW base, base = 10000 * salary
  PROVE  MarketPercentile(salary, b) =
           IF base <= b.p10 THEN BelowP10(base, b.p10)
           ELSE IF base <= b.p25 THEN Interpolated(base, b.p10, 10, b.p25, 15)
           ELSE IF base <= b.p50 THEN Interpolated(base, b.p25, 25, b.p50, 25)
           ELSE IF base <= b.p75 THEN Interpolated(base, b.p50, 50, b.p75, 25)
           ELSE IF base <= b.p90 THEN Interpolated(base, b.p75, 75, b.p90, 15)
           ELSE AboveP90(base, b.p90)
BY DEF MarketPercentile, BelowP10, Interpolated, AboveP90

\* Each stretch of the scale has positions of its own.
LEMMA PositionBounds ==
  ASSUME NEW b, FiguresOK(b), b.p10 > 0, NEW salary \in Nat,
         NEW base, base = 10000 * salary, NEW position, position = MarketPercentile(salary, b)
  PROVE  /\ position \in Nat
         /\ base <= b.p10 => 10 <= position /\ position <= 100
         /\ base = b.p10 => position = 100
         /\ b.p10 < base /\ base <= b.p25 => 100 <= position /\ position <= 250
         /\ b.p25 < base /\ base <= b.p50 => 250 <= position /\ position <= 500
         /\ b.p50 < base /\ base <= b.p75 => 500 <= position /\ position <= 750
         /\ b.p75 < base /\ base <= b.p90 => 750 <= position /\ position <= 900
         /\ b.p90 < base => 900 <= position /\ position <= 990
<1>1. PICK p10 \in Nat, p25 \in Nat, p50 \in Nat, p75 \in Nat, p90 \in Nat :
        /\ p10 = b.p10 /\ p25 = b.p25 /\ p50 = b.p50 /\ p75 = b.p75 /\ p90 = b.p90
        /\ 0 < p10 /\ p10 <= p25 /\ p25 <= p50 /\ p50 <= p75 /\ p75 <= p90
  BY DEF FiguresOK, Ordered
<1>2. base \in Nat
  OBVIOUS
<1>3. position = IF base <= p10 THEN BelowP10(base, p10)
                 ELSE IF base <= p25 THEN Interpolated(base, p10, 10, p25, 15)
                 ELSE IF base <= p50 THEN Interpolated(base, p25, 25, p50, 25)
                 ELSE IF base <= p75 THEN Interpolated(base, p50, 50, p75, 25)
                 ELSE IF base <= p90 THEN Interpolated(base, p75, 75, p90, 15)
                 ELSE AboveP90(base, p90)
  BY <1>1, PositionIs
<1>4. ASSUME base <= p10
      PROVE  position \in Nat /\ 10 <= position /\ position <= 100 /\ (base = p10 => position = 100)
  BY <1>1, <1>2, <1>3, <1>4, BelowP10Bounds
<1>5. ASSUME p10 < base, base <= p25 PROVE position \in Nat /\ 100 <= position /\ position <= 250
  <2>1. position = Interpolated(base, p10, 10, p25, 15)
    BY <1>1, <1>2, <1>3, <1>5
  <2> QED BY <1>2, <1>5, <2>1, InterpolatedBetween
<1>6. ASSUME p25 < base, base <= p50 PROVE position \in Nat /\ 250 <= position /\ position <= 500
  <2>1. position = Interpolated(base, p25, 25, p50, 25)
    BY <1>1, <1>2, <1>3, <1>6
  <2> QED BY <1>2, <1>6, <2>1, InterpolatedBetween
<1>7. ASSUME p50 < base, base <= p75 PROVE position \in Nat /\ 500 <= position /\ position <= 750
  <2>1. position = Interpolated(base, p50, 50, p75, 25)
    BY <1>1, <1>2, <1>3, <1>7
  <2> QED BY <1>2, <1>7, <2>1, InterpolatedBetween
<1>8. ASSUME p75 < base, base <= p90 PROVE position \in Nat /\ 750 <= position /\ position <= 900
  <2>1. position = Interpolated(base, p75, 75, p90, 15)
    BY <1>1, <1>2, <1>3, <1>8
  <2> QED BY <1>2, <1>8, <2>1, InterpolatedBetween
<1>9. ASSUME p90 < base PROVE position \in Nat /\ 900 <= position /\ position <= 990
  <2>1. position = AboveP90(base, p90) /\ p90 > 0
    BY <1>1, <1>2, <1>3, <1>9
  <2> QED BY <1>2, <1>9, <2>1, AboveP90Bounds
<1>10. \/ base <= p10 \/ (p10 < base /\ base <= p25) \/ (p25 < base /\ base <= p50)
       \/ (p50 < base /\ base <= p75) \/ (p75 < base /\ base <= p90) \/ p90 < base
  BY <1>1, <1>2
<1>11. position \in Nat
  BY <1>4, <1>5, <1>6, <1>7, <1>8, <1>9, <1>10
<1>12. base = p10 => base <= p10
  BY <1>1
<1> QED BY <1>1, <1>4, <1>5, <1>6, <1>7, <1>8, <1>9, <1>11, <1>12

LEMMA PositionGrows ==
  ASSUME NEW b, FiguresOK(b), b.p10 > 0, NEW s \in Nat, NEW t \in Nat, s < t
  PROVE  MarketPercentile(s, b) <= MarketPercentile(t, b)
<1>1. PICK p10 \in Nat, p25 \in Nat, p50 \in Nat, p75 \in Nat, p90 \in Nat :
        /\ p10 = b.p10 /\ p25 = b.p25 /\ p50 = b.p50 /\ p75 = b.p75 /\ p90 = b.p90
        /\ 0 < p10 /\ p10 <= p25 /\ p25 <= p50 /\ p50 <= p75 /\ p75 <= p90
  BY DEF FiguresOK, Ordered
<1>2. PICK base \in Nat, more \in Nat : base = 10000 * s /\ more = 10000 * t /\ base < more
  <2>1. 10000 * s \in Nat /\ 10000 * t \in Nat /\ 10000 * s < 10000 * t
    OBVIOUS
  <2> QED BY <2>1
<1>3. PICK u, v : u = MarketPercentile(s, b) /\ v = MarketPercentile(t, b)
  OBVIOUS
<1>4. /\ u \in Nat
      /\ base <= p10 => 10 <= u /\ u <= 100
      /\ p10 < base /\ base <= p25 => 100 <= u /\ u <= 250
      /\ p25 < base /\ base <= p50 => 250 <= u /\ u <= 500
      /\ p50 < base /\ base <= p75 => 500 <= u /\ u <= 750
      /\ p75 < base /\ base <= p90 => 750 <= u /\ u <= 900
      /\ p90 < base => 900 <= u /\ u <= 990
  BY <1>1, <1>2, <1>3, PositionBounds
<1>5. /\ v \in Nat
      /\ more <= p10 => 10 <= v /\ v <= 100
      /\ p10 < more /\ more <= p25 => 100 <= v /\ v <= 250
      /\ p25 < more /\ more <= p50 => 250 <= v /\ v <= 500
      /\ p50 < more /\ more <= p75 => 500 <= v /\ v <= 750
      /\ p75 < more /\ more <= p90 => 750 <= v /\ v <= 900
      /\ p90 < more => 900 <= v /\ v <= 990
  BY <1>1, <1>2, <1>3, PositionBounds
<1>6. u = IF base <= p10 THEN BelowP10(base, p10)
          ELSE IF base <= p25 THEN Interpolated(base, p10, 10, p25, 15)
          ELSE IF base <= p50 THEN Interpolated(base, p25, 25, p50, 25)
          ELSE IF base <= p75 THEN Interpolated(base, p50, 50, p75, 25)
          ELSE IF base <= p90 THEN Interpolated(base, p75, 75, p90, 15)
          ELSE AboveP90(base, p90)
  BY <1>1, <1>2, <1>3, PositionIs
<1>7. v = IF more <= p10 THEN BelowP10(more, p10)
          ELSE IF more <= p25 THEN Interpolated(more, p10, 10, p25, 15)
          ELSE IF more <= p50 THEN Interpolated(more, p25, 25, p50, 25)
          ELSE IF more <= p75 THEN Interpolated(more, p50, 50, p75, 25)
          ELSE IF more <= p90 THEN Interpolated(more, p75, 75, p90, 15)
          ELSE AboveP90(more, p90)
  BY <1>1, <1>2, <1>3, PositionIs
\* In one stretch.
<1>8. CASE more <= p10
  <2>1. u = BelowP10(base, p10) /\ v = BelowP10(more, p10) /\ base <= more
    BY <1>2, <1>6, <1>7, <1>8
  <2> QED BY <1>1, <1>3, <2>1, BelowP10Grows
<1>9. CASE p10 < base /\ more <= p25
  <2>1. /\ u = Interpolated(base, p10, 10, p25, 15) /\ v = Interpolated(more, p10, 10, p25, 15)
        /\ base <= more /\ p10 < base /\ more <= p25
    BY <1>2, <1>6, <1>7, <1>9
  <2> QED BY <1>3, <2>1, InterpolatedGrows
<1>10. CASE p25 < base /\ more <= p50
  <2>1. /\ u = Interpolated(base, p25, 25, p50, 25) /\ v = Interpolated(more, p25, 25, p50, 25)
        /\ base <= more /\ p25 < base /\ more <= p50
    BY <1>1, <1>2, <1>6, <1>7, <1>10
  <2> QED BY <1>3, <2>1, InterpolatedGrows
<1>11. CASE p50 < base /\ more <= p75
  <2>1. /\ u = Interpolated(base, p50, 50, p75, 25) /\ v = Interpolated(more, p50, 50, p75, 25)
        /\ base <= more /\ p50 < base /\ more <= p75
    BY <1>1, <1>2, <1>6, <1>7, <1>11
  <2> QED BY <1>3, <2>1, InterpolatedGrows
<1>12. CASE p75 < base /\ more <= p90
  <2>1. /\ u = Interpolated(base, p75, 75, p90, 15) /\ v = Interpolated(more, p75, 75, p90, 15)
        /\ base <= more /\ p75 < base /\ more <= p90
    BY <1>1, <1>2, <1>6, <1>7, <1>12
  <2> QED BY <1>3, <2>1, InterpolatedGrows
<1>13. CASE p90 < base
  <2>1. /\ u = AboveP90(base, p90) /\ v = AboveP90(more, p90) /\ base <= more /\ p90 > 0
    BY <1>1, <1>2, <1>6, <1>7, <1>13
  <2> QED BY <1>3, <1>13, <2>1, AboveP90Grows
\* In two.
<1>14. CASE \/ (base <= p10 /\ p10 < more) \/ (base <= p25 /\ p25 < more)
            \/ (base <= p50 /\ p50 < more) \/ (base <= p75 /\ p75 < more)
            \/ (base <= p90 /\ p90 < more)
  <2>1. u <= v
    BY <1>1, <1>2, <1>4, <1>5, <1>14
  <2> QED BY <1>3, <2>1
<1>15. \/ more <= p10 \/ (p10 < base /\ more <= p25) \/ (p25 < base /\ more <= p50)
       \/ (p50 < base /\ more <= p75) \/ (p75 < base /\ more <= p90) \/ p90 < base
       \/ (base <= p10 /\ p10 < more) \/ (base <= p25 /\ p25 < more)
       \/ (base <= p50 /\ p50 < more) \/ (base <= p75 /\ p75 < more)
       \/ (base <= p90 /\ p90 < more)
  <2>1. /\ base <= p10 \/ p10 < base
        /\ base <= p25 \/ p25 < base
        /\ base <= p50 \/ p50 < base
        /\ base <= p75 \/ p75 < base
        /\ base <= p90 \/ p90 < base
        /\ more <= p10 \/ p10 < more
        /\ more <= p25 \/ p25 < more
        /\ more <= p50 \/ p50 < more
        /\ more <= p75 \/ p75 < more
        /\ more <= p90 \/ p90 < more
    BY <1>1, <1>2
  <2> QED BY <2>1
<1> QED BY <1>8, <1>9, <1>10, <1>11, <1>12, <1>13, <1>14, <1>15

------------------------------------------------------------------------------
(* What an ingestion computes, from finitely many wages.                   *)

WagesOK(obs) ==
  /\ DOMAIN obs \subseteq Nat /\ IsFiniteSet(DOMAIN obs)
  /\ \A i \in DOMAIN obs : obs[i].wage \in Nat

LEMMA ParsedWages ==
  ASSUME NEW rows \in Seq(FeedRow)
  PROVE  WagesOK(Parsed(rows))
<1>1. DOMAIN rows = 1 .. Len(rows) /\ Len(rows) \in Nat
  OBVIOUS
<1>2. DOMAIN Parsed(rows) \in SUBSET DOMAIN rows
  BY DEF Parsed
<1>3. IsFiniteSet(DOMAIN Parsed(rows)) /\ DOMAIN Parsed(rows) \subseteq Nat
  <2>1. IsFiniteSet(DOMAIN rows)
    BY <1>1, FS_Interval
  <2>2. IsFiniteSet(DOMAIN Parsed(rows))
    BY <1>2, <2>1, FS_Subset
  <2> QED BY <1>1, <1>2, <2>2
<1>4. ASSUME NEW i \in DOMAIN Parsed(rows) PROVE Parsed(rows)[i].wage \in Nat
  <2>1. PICK amount : amount = rows[i].amount
    OBVIOUS
  <2>2. amount \in Nat
    <3>1. rows[i] \in FeedRow
      BY <1>2
    <3> QED BY <2>1, <3>1 DEF FeedRow
  <2>3. PICK perYear \in {2080, 52, 26, 12, 1} :
          Annual(amount, rows[i].unit) = (amount * perYear) \div 1000
    BY DEF Annual, HoursPerYear
  <2>4. amount * perYear \in Nat
    BY <2>2
  <2>5. PICK perThousand : perThousand = amount * perYear
    OBVIOUS
  <2>6. perThousand \div 1000 \in Nat
    BY <2>4, <2>5
  <2>7. Parsed(rows)[i].wage = Annual(amount, rows[i].unit)
    BY <2>1 DEF Parsed
  <2> QED BY <2>3, <2>5, <2>6, <2>7
<1> QED BY <1>3, <1>4 DEF WagesOK

LEMMA TakenWages ==
  ASSUME NEW obs, WagesOK(obs), NEW limit
  PROVE  WagesOK(Taken(obs, limit))
<1>1. DOMAIN Taken(obs, limit) \in SUBSET DOMAIN obs
  BY DEF Taken, Restrict
<1>2. \A i \in DOMAIN Taken(obs, limit) : Taken(obs, limit)[i] = obs[i]
  BY <1>1 DEF Taken, Restrict
<1>3. IsFiniteSet(DOMAIN Taken(obs, limit))
  BY <1>1, FS_Subset DEF WagesOK
<1> QED BY <1>1, <1>2, <1>3 DEF WagesOK

LEMMA StreamedRows ==
  ASSUME NEW feed \in Feeds, NEW sent, sent \in Breaks \/ sent = Len(feed)
  PROVE  Streamed(feed, sent) \in Seq(FeedRow)
<1>1. feed \in Seq(FeedRow) /\ Bundled \in Seq(FeedRow)
  BY MarketAssumption
<1>2. CASE sent = Len(feed)
  BY <1>1, <1>2 DEF Streamed
<1>3. CASE sent # Len(feed)
  <2>1. sent \in 0 .. Len(feed)
    BY <1>3, MarketAssumption
  <2>2. SubSeq(feed, 1, sent) \in Seq(FeedRow)
    BY <1>1, <2>1
  <2> QED BY <1>1, <1>3, <2>2 DEF Streamed
<1> QED BY <1>2, <1>3

\* Every run has observations it computes its benchmarks and its report from.
LEMMA RunObservations ==
  ASSUME NEW run \in CsvRuns \cup LiveRuns
  PROVE  \E obs, dry : /\ WagesOK(obs) /\ run.benchmarks = Benchmarks(obs)
                       /\ run.report \in {NoReport, Report(obs, dry)}
<1>1. CASE run \in CsvRuns
  <2>1. PICK feed \in Feeds :
          run.benchmarks = Benchmarks(Parsed(feed)) /\ run.report = NoReport
    BY <1>1 DEF CsvRuns
  <2>2. feed \in Seq(FeedRow)
    BY MarketAssumption
  <2> QED BY <2>1, <2>2, ParsedWages
<1>2. CASE run \in LiveRuns
  <2>1. PICK feed \in Feeds :
          \E sent, limit, dry :
            (sent \in Breaks \/ sent = Len(feed)) /\ run = LiveRun(feed, sent, limit, dry)
    BY <1>2 DEF LiveRuns
  <2>2. PICK sent, limit, dry :
          (sent \in Breaks \/ sent = Len(feed)) /\ run = LiveRun(feed, sent, limit, dry)
    BY <2>1
  <2>3. PICK obs : obs = Taken(Parsed(Streamed(feed, sent)), limit)
    OBVIOUS
  <2>4. run.benchmarks = Benchmarks(obs) /\ run.report = Report(obs, dry)
    BY <2>2, <2>3 DEF LiveRun
  <2>5. WagesOK(obs)
    BY <2>2, <2>3, StreamedRows, ParsedWages, TakenWages
  <2> QED BY <2>4, <2>5
<1> QED BY <1>1, <1>2

LEMMA WagesOfCohort ==
  ASSUME NEW obs, WagesOK(obs), NEW cohort
  PROVE  /\ Wages(obs, cohort) \in Seq(Nat)
         /\ Len(Wages(obs, cohort)) = Cardinality(Of(obs, cohort))
         /\ IsFiniteSet(Of(obs, cohort))
<1>1. PICK I, f : I = Of(obs, cohort) /\ f = [ i \in DOMAIN obs |-> obs[i].wage ]
  OBVIOUS
<1>2. I \in SUBSET DOMAIN obs
  BY <1>1 DEF Of
<1>3. IsFiniteSet(I)
  BY <1>2, FS_Subset DEF WagesOK
<1>4. I \in SUBSET Nat /\ \A i \in I : f[i] \in Nat
  BY <1>1, <1>2 DEF WagesOK
<1>5. Subsequence(f, I) \in Seq(Nat) /\ Len(Subsequence(f, I)) = Cardinality(I)
  BY <1>3, <1>4, SubsequenceIsOne
<1>6. Wages(obs, cohort) = Subsequence(f, I)
  BY <1>1, Zenon DEF Wages
<1> QED BY <1>1, <1>3, <1>5, <1>6

\* The figures of a benchmark, and the wages they come from.
LEMMA BenchmarkFigures ==
  ASSUME NEW obs, WagesOK(obs), NEW i \in Emitted(obs)
  PROVE  /\ FiguresOK(Benchmarks(obs)[i].row)
         /\ Benchmarks(obs)[i].row.sample = Len(CleanWages(Wages(obs, obs[i].cohort)))
         /\ Benchmarks(obs)[i].row.sample > 0 => Benchmarks(obs)[i].row.p10 >= 400000
<1>1. PICK wages, date : /\ wages = Wages(obs, obs[i].cohort)
                         /\ date = EffectiveDate(obs, obs[i].cohort)
  OBVIOUS
<1>2. Benchmarks(obs)[i].row = Aged(Percentiles(wages), date, Today)
  BY <1>1 DEF Benchmarks, Benchmark
<1>3. wages \in Seq(Nat)
  BY <1>1, WagesOfCohort
<1>4. PICK row : row = Percentiles(wages)
  OBVIOUS
<1>5. DOMAIN row = Column
  BY <1>4 DEF Percentiles, Column, Figure
<1>6. FiguresOK(row) /\ row.sample = Len(CleanWages(wages)) /\ (row.sample > 0 => row.p10 >= 4000)
  BY <1>3, <1>4, PercentilesOK
<1>7. /\ FiguresOK(Aged(row, date, Today)) /\ Aged(row, date, Today).sample = row.sample
      /\ row.p10 >= 4000 => Aged(row, date, Today).p10 >= 400000
  BY <1>5, <1>6, AgedOK
<1> QED BY <1>1, <1>2, <1>4, <1>6, <1>7

------------------------------------------------------------------------------
(* Runs that have reported.                                                *)

ReportOK(t) ==
  /\ t.pc \in {"new", "report", "done"} \cup Working
  /\ t.pc \in Working => t = [ pc |-> t.pc, benchmarks |-> t.benchmarks, seen |-> t.seen,
                               todo |-> t.todo, wrote |-> t.wrote ]
  /\ t.pc = "report" => t.run \in CsvRuns \cup LiveRuns

ReportInv ==
  /\ txn = [s \in Job \cup Reader |-> txn[s]]
  /\ \A j \in Job : ReportOK(txn[j])

LEMMA WorkingIsOK ==
  ASSUME NEW pc \in Working, NEW b, NEW seen, NEW todo, NEW wrote
  PROVE  ReportOK([ pc |-> pc, benchmarks |-> b, seen |-> seen, todo |-> todo, wrote |-> wrote ])
BY DEF ReportOK, Working

\* A record stays one when a field of it is set.
LEMMA FieldsSet ==
  ASSUME NEW pc, NEW b, NEW seen, NEW todo, NEW wrote, NEW v, NEW t,
         t = [ pc |-> pc, benchmarks |-> b, seen |-> seen, todo |-> todo, wrote |-> wrote ]
  PROVE  /\ [t EXCEPT !.pc = v] =
              [ pc |-> v, benchmarks |-> b, seen |-> seen, todo |-> todo, wrote |-> wrote ]
         /\ [t EXCEPT !.seen = v] =
              [ pc |-> pc, benchmarks |-> b, seen |-> v, todo |-> todo, wrote |-> wrote ]
         /\ [t EXCEPT !.todo = v] =
              [ pc |-> pc, benchmarks |-> b, seen |-> seen, todo |-> v, wrote |-> wrote ]
         /\ [t EXCEPT !.wrote = v] =
              [ pc |-> pc, benchmarks |-> b, seen |-> seen, todo |-> todo, wrote |-> v ]
OBVIOUS

LEMMA ReportMoves ==
  ASSUME ReportInv, NEW j \in Job, NEW u, txn' = [txn EXCEPT ![j] = u], ReportOK(u)
  PROVE  ReportInv'
BY DEF ReportInv

LEMMA SelectKeepsReports ==
  ASSUME ReportInv, NEW j \in Job, SelectRow(j)
  PROVE  ReportInv'
<1>1. PICK t : t = txn[j]
  OBVIOUS
<1>2. t = [ pc |-> "select", benchmarks |-> t.benchmarks, seen |-> t.seen, todo |-> t.todo,
            wrote |-> t.wrote ]
  BY <1>1 DEF SelectRow, ReportInv, ReportOK, Working
<1>3. PICK found :
        LET job == [t EXCEPT !.seen = found] IN
          txn' = [txn EXCEPT ![j] =
            IF DOMAIN found # DOMAIN job.benchmarks THEN job
            ELSE IF ToWrite(job) = {} THEN [job EXCEPT !.pc = "commit"]
            ELSE [job EXCEPT !.pc = "write", !.todo = ToWrite(job)]]
  BY <1>1, Zenon DEF SelectRow
<1>4. PICK job : job = [t EXCEPT !.seen = found]
  OBVIOUS
<1>5. job = [ pc |-> "select", benchmarks |-> t.benchmarks, seen |-> found, todo |-> t.todo,
              wrote |-> t.wrote ]
  BY <1>2, <1>4, FieldsSet
<1>6. PICK todo : todo = ToWrite(job)
  OBVIOUS
<1>7. [job EXCEPT !.pc = "write", !.todo = todo] =
        [ pc |-> "write", benchmarks |-> t.benchmarks, seen |-> found, todo |-> todo,
          wrote |-> t.wrote ]
  <2>1. PICK mid : mid = [job EXCEPT !.pc = "write"]
    OBVIOUS
  <2>2. mid = [ pc |-> "write", benchmarks |-> t.benchmarks, seen |-> found, todo |-> t.todo,
                wrote |-> t.wrote ]
    BY <1>5, <2>1, FieldsSet
  <2>3. [mid EXCEPT !.todo = todo] =
          [ pc |-> "write", benchmarks |-> t.benchmarks, seen |-> found, todo |-> todo,
            wrote |-> t.wrote ]
    BY <2>2, FieldsSet
  <2> QED BY <2>1, <2>3, Zenon
<1>8. [job EXCEPT !.pc = "commit"] =
        [ pc |-> "commit", benchmarks |-> t.benchmarks, seen |-> found, todo |-> t.todo,
          wrote |-> t.wrote ]
  BY <1>5, FieldsSet
<1>9. /\ ReportOK(job) /\ ReportOK([job EXCEPT !.pc = "commit"])
      /\ ReportOK([job EXCEPT !.pc = "write", !.todo = todo])
  BY <1>5, <1>7, <1>8, WorkingIsOK DEF Working
<1>10. PICK u : txn' = [txn EXCEPT ![j] = u] /\
                u \in { job, [job EXCEPT !.pc = "commit"], [job EXCEPT !.pc = "write", !.todo = todo] }
  BY <1>3, <1>4, <1>6
<1> QED BY <1>9, <1>10, ReportMoves

LEMMA WriteKeepsReports ==
  ASSUME ReportInv, NEW j \in Job, WriteRow(j)
  PROVE  ReportInv'
<1>1. PICK t : t = txn[j]
  OBVIOUS
<1>2. t = [ pc |-> "write", benchmarks |-> t.benchmarks, seen |-> t.seen, todo |-> t.todo,
            wrote |-> t.wrote ]
  BY <1>1 DEF WriteRow, ReportInv, ReportOK, Working
<1>3. PICK past, key, todo, pc :
        /\ past = Past(t) /\ key = NextKey(j) /\ todo = t.todo \ {NextWrite(t)}
        /\ pc = IF t.todo = {NextWrite(t)} THEN "commit" ELSE "write"
  OBVIOUS
<1>4. past = [ pc |-> pc, benchmarks |-> t.benchmarks, seen |-> t.seen, todo |-> todo,
               wrote |-> t.wrote ]
  <2>1. PICK mid : mid = [t EXCEPT !.todo = todo]
    OBVIOUS
  <2>2. mid = [ pc |-> "write", benchmarks |-> t.benchmarks, seen |-> t.seen, todo |-> todo,
                wrote |-> t.wrote ]
    BY <1>2, <2>1, FieldsSet
  <2>3. past = [mid EXCEPT !.pc = pc]
    BY <1>3, <2>1 DEF Past
  <2> QED BY <2>2, <2>3, FieldsSet
<1>5. Wrote(j) = [past EXCEPT !.wrote = @ \cup {key}]
  BY <1>1, <1>3 DEF Wrote
<1>6. PICK wrote : wrote = t.wrote \cup {key}
  OBVIOUS
<1>7. Wrote(j) = [ pc |-> pc, benchmarks |-> t.benchmarks, seen |-> t.seen, todo |-> todo,
                   wrote |-> wrote ]
  BY <1>4, <1>5, <1>6
<1>8. ReportOK(Wrote(j)) /\ ReportOK(Done)
  BY <1>3, <1>7, WorkingIsOK DEF Done, ReportOK, Working
<1>9. txn' = [txn EXCEPT ![j] = Wrote(j)] \/ txn' = [txn EXCEPT ![j] = Done]
  BY DEF WriteRow
<1> QED BY <1>8, <1>9, ReportMoves

LEMMA ReportInvNext == ReportInv /\ [Next]_vars => ReportInv'
<1> SUFFICES ASSUME ReportInv, [Next]_vars PROVE ReportInv'
  OBVIOUS
<1>0. ReportOK(Done)
  BY DEF ReportOK, Done, Working
<1>1. ASSUME NEW j \in Job, NEW run \in CsvRuns \cup LiveRuns, BeginRun(j, run) PROVE ReportInv'
  <2>1. ReportOK([ pc |-> "report", run |-> run ])
    BY DEF ReportOK, Working
  <2>2. ReportOK(Persist(run.benchmarks))
    BY WorkingIsOK DEF Persist, Working
  <2>3. \/ txn' = [txn EXCEPT ![j] = [ pc |-> "report", run |-> run ]]
        \/ txn' = [txn EXCEPT ![j] = Persist(run.benchmarks)]
    BY <1>1 DEF BeginRun
  <2> QED BY <2>1, <2>2, <2>3, ReportMoves
<1>2. ASSUME NEW j \in Job, BeginSeed(j) PROVE ReportInv'
  <2>1. ReportOK(Persist(SeedBenchmarks))
    BY WorkingIsOK DEF Persist, Working
  <2> QED BY <1>2, <2>1, ReportMoves DEF BeginSeed
<1>3. ASSUME NEW j \in Job, JobStep(j) PROVE ReportInv'
  <2>1. CASE ReturnReport(j)
    BY <1>0, <2>1, ReportMoves DEF ReturnReport
  <2>2. CASE Commit(j)
    BY <1>0, <2>2, ReportMoves DEF Commit
  <2> QED BY <1>3, <2>1, <2>2, SelectKeepsReports, WriteKeepsReports DEF JobStep
<1>4. ASSUME NEW s \in Job \cup Reader, Abort(s) PROVE ReportInv'
  <2>1. CASE s \in Job
    BY <1>0, <1>4, <2>1, ReportMoves DEF Abort
  <2>2. CASE s \in Reader
    BY <1>4, <2>2, ReadersAreNoJobs DEF Abort, ReportInv
  <2> QED BY <2>1, <2>2
<1>5. ASSUME NEW s \in Reader, \/ \E k \in CacheKey : BeginLookup(s, k[2], k[3])
                               \/ ReaderStep(s)
      PROVE  ReportInv'
  <2>1. PICK m : txn' = [txn EXCEPT ![s] = m]
    BY <1>5, ReaderMovesItself DEF ReportInv
  <2> QED BY <2>1, ReadersAreNoJobs DEF ReportInv
<1>6. CASE UNCHANGED txn
  BY <1>6 DEF ReportInv
<1> QED
  BY <1>1, <1>2, <1>3, <1>4, <1>5, <1>6
  DEF Next, Begin, DeadlockAbort, CacheExpire, vars

\* The invariant of the reports: what a finished run hands out is what ingest_dol_lca_csv
\* or ingest_live_dol_dataset computed from the rows it read.
THEOREM ReportInvariant == Spec => []ReportInv
<1>1. Init => ReportInv
  BY DEF Init, ReportInv, ReportOK, Fresh, Working
<1> QED BY <1>1, ReportInvNext, PTL DEF Spec

\* Of every run that is reported.
LEMMA ComputedFigures ==
  ASSUME ReportInv, NEW run \in Computed
  PROVE  \E obs, dry : /\ WagesOK(obs) /\ run.benchmarks = Benchmarks(obs)
                       /\ run.report \in {NoReport, Report(obs, dry)}
BY RunObservations DEF Computed, ReportInv, ReportOK

LEMMA ComputedBenchmark ==
  ASSUME ReportInv, NEW run \in Computed, NEW b \in Range(run.benchmarks)
  PROVE  FiguresOK(b.row) /\ (b.row.sample > 0 => b.row.p10 >= 400000)
<1>1. PICK obs, dry : WagesOK(obs) /\ run.benchmarks = Benchmarks(obs)
  BY ComputedFigures
<1>2. PICK i \in Emitted(obs) : b = Benchmarks(obs)[i]
  BY <1>1 DEF Range, Benchmarks
<1> QED BY <1>1, <1>2, BenchmarkFigures

\* statistical_engine.py:20-76: whatever is pruned from whichever file, the percentiles
\* come out in order and no lower than the lowest wage that is let through.
THEOREM PercentilesInOrder == Spec => []PercentilesOrdered
<1>1. ReportInv => PercentilesOrdered
  BY ComputedBenchmark DEF PercentilesOrdered, FiguresOK
<1> QED BY <1>1, ReportInvariant, PTL

\* compare_to_market: in every benchmark with a sample, positions never fall when the
\* salary rises, and the band's ends are where the scale says they are.
THEOREM PositionsFollowSalaries == Spec => []PositionFollowsSalary
<1>1. ASSUME ReportInv, NEW run \in Computed, NEW b \in Range(run.benchmarks), b.row.sample > 0,
             NEW s \in Salaries
      PROVE  /\ MarketPercentile(s, b.row) \in 10 .. 990
             /\ IF WithinMarketBand(s, b.row) THEN MarketPercentile(s, b.row) \in 100 .. 900
                ELSE MarketPercentile(s, b.row) <= 100 \/ MarketPercentile(s, b.row) >= 900
  <2>1. FiguresOK(b.row) /\ b.row.p10 > 0
    <3>1. FiguresOK(b.row) /\ b.row.p10 >= 400000
      BY <1>1, ComputedBenchmark
    <3>2. b.row.p10 \in Nat
      BY <3>1 DEF FiguresOK
    <3> QED BY <3>1, <3>2
  <2>2. PICK base, position :
          base \in Nat /\ base = 10000 * s /\ position = MarketPercentile(s, b.row)
    BY DEF Salaries
  <2>3. s \in Nat
    BY DEF Salaries
  <2>4. PICK p10 \in Nat, p25 \in Nat, p50 \in Nat, p75 \in Nat, p90 \in Nat :
          /\ p10 = b.row.p10 /\ p25 = b.row.p25 /\ p50 = b.row.p50 /\ p75 = b.row.p75
          /\ p90 = b.row.p90
          /\ p10 <= p25 /\ p25 <= p50 /\ p50 <= p75 /\ p75 <= p90
    BY <2>1 DEF FiguresOK, Ordered
  <2>5. /\ position \in Nat
        /\ base <= p10 => 10 <= position /\ position <= 100
        /\ base = p10 => position = 100
        /\ p10 < base /\ base <= p25 => 100 <= position /\ position <= 250
        /\ p25 < base /\ base <= p50 => 250 <= position /\ position <= 500
        /\ p50 < base /\ base <= p75 => 500 <= position /\ position <= 750
        /\ p75 < base /\ base <= p90 => 750 <= position /\ position <= 900
        /\ p90 < base => 900 <= position /\ position <= 990
    BY <2>1, <2>2, <2>3, <2>4, PositionBounds
  <2>6. WithinMarketBand(s, b.row) <=> p10 <= base /\ base <= p90
    BY <2>2, <2>4 DEF WithinMarketBand
  <2>7. position \in 10 .. 990
    BY <2>2, <2>4, <2>5
  <2>8. p10 <= base /\ base <= p90 => position \in 100 .. 900
    BY <2>2, <2>4, <2>5
  <2>9. ~ (p10 <= base /\ base <= p90) => position <= 100 \/ position >= 900
    BY <2>2, <2>4, <2>5
  <2> QED BY <2>2, <2>6, <2>7, <2>8, <2>9
<1>2. ASSUME ReportInv, NEW run \in Computed, NEW b \in Range(run.benchmarks), b.row.sample > 0,
             NEW s \in Salaries, NEW t \in Salaries, s < t
      PROVE  MarketPercentile(s, b.row) <= MarketPercentile(t, b.row)
  <2>1. FiguresOK(b.row) /\ b.row.p10 > 0
    <3>1. FiguresOK(b.row) /\ b.row.p10 >= 400000
      BY <1>2, ComputedBenchmark
    <3>2. b.row.p10 \in Nat
      BY <3>1 DEF FiguresOK
    <3> QED BY <3>1, <3>2
  <2>2. s \in Nat /\ t \in Nat
    BY DEF Salaries
  <2> QED BY <1>2, <2>1, <2>2, PositionGrows
<1>3. ReportInv => PositionFollowsSalary
  <2> SUFFICES ASSUME ReportInv, NEW run \in Computed, NEW b \in Range(run.benchmarks),
                      b.row.sample > 0, NEW s \in Salaries
               PROVE  /\ MarketPercentile(s, b.row) \in 10 .. 990
                      /\ IF WithinMarketBand(s, b.row) THEN MarketPercentile(s, b.row) \in 100 .. 900
                         ELSE MarketPercentile(s, b.row) <= 100 \/ MarketPercentile(s, b.row) >= 900
                      /\ \A t \in Salaries :
                           s < t => MarketPercentile(s, b.row) <= MarketPercentile(t, b.row)
    BY DEF PositionFollowsSalary
  <2> QED BY <1>1, <1>2
<1> QED BY <1>3, ReportInvariant, PTL

------------------------------------------------------------------------------
(* The report's account of the observations.                               *)

LEMMA KeptIsSum ==
  ASSUME NEW w, NEW S, w = [ b \in S |-> b.row.sample ]
  PROVE  MapThenSumSet(LAMBDA b : b.row.sample, S) = SumOf(w, S)
<1> DEFINE Loop(it) == it = [ s \in SUBSET S |->
                                IF s = {} THEN 0 ELSE Pick(s).row.sample + it[s \ {Pick(s)}] ]
<1>1. MapThenSumSet(LAMBDA b : b.row.sample, S) = (CHOOSE it : Loop(it))[S]
  BY DEF MapThenSumSet, MapThenFoldSet, Pick
<1>2. \A it : Loop(it) <=> Partial(w, S, it)
  <2> TAKE it
  <2>1. \A s \in SUBSET S : s # {} => w[Pick(s)] = Pick(s).row.sample
    <3> TAKE s \in SUBSET S
    <3>1. s # {} => Pick(s) \in S
      BY DEF Pick
    <3> QED BY <3>1
  <2>2. [ s \in SUBSET S |-> IF s = {} THEN 0 ELSE Pick(s).row.sample + it[s \ {Pick(s)}] ]
          = [ s \in SUBSET S |-> IF s = {} THEN 0 ELSE w[Pick(s)] + it[s \ {Pick(s)}] ]
    BY <2>1
  <2> QED BY <2>2 DEF Partial
<1>3. (CHOOSE it : Loop(it)) = (CHOOSE it : Partial(w, S, it))
  <2> HIDE DEF Loop
  <2> QED BY <1>2
<1> QED BY <1>1, <1>3, SumIsPartial

LEMMA PrunedIsSum ==
  ASSUME NEW obs, NEW w,
         w = [ i \in Emitted(obs) |-> Len(Wages(obs, obs[i].cohort))
                                        - Len(CleanWages(Wages(obs, obs[i].cohort))) ]
  PROVE  Pruned(obs) = SumOf(w, Emitted(obs))
<1> DEFINE S == Emitted(obs)
           v(i) == Len(Wages(obs, obs[i].cohort)) - Len(CleanWages(Wages(obs, obs[i].cohort)))
           Loop(it) == it = [ s \in SUBSET S |->
                                IF s = {} THEN 0 ELSE v(Pick(s)) + it[s \ {Pick(s)}] ]
<1>1. Pruned(obs) = (CHOOSE it : Loop(it))[S]
  BY DEF Pruned, MapThenSumSet, MapThenFoldSet, Pick
<1>2. w = [ i \in S |-> v(i) ]
  OBVIOUS
<1> HIDE DEF v, S
<1>3. \A it : Loop(it) <=> Partial(w, S, it)
  <2> TAKE it
  <2>1. \A s \in SUBSET S : s # {} => w[Pick(s)] = v(Pick(s))
    <3> TAKE s \in SUBSET S
    <3>1. s # {} => Pick(s) \in S
      BY DEF Pick
    <3> QED BY <1>2, <3>1
  <2>2. [ s \in SUBSET S |-> IF s = {} THEN 0 ELSE v(Pick(s)) + it[s \ {Pick(s)}] ]
          = [ s \in SUBSET S |-> IF s = {} THEN 0 ELSE w[Pick(s)] + it[s \ {Pick(s)}] ]
    BY <2>1
  <2> QED BY <2>2 DEF Partial
<1>4. (CHOOSE it : Loop(it)) = (CHOOSE it : Partial(w, S, it))
  <2> HIDE DEF Loop
  <2> QED BY <1>3
<1>5. SumOf(w, S) = (CHOOSE it : Partial(w, S, it))[S]
  BY SumIsPartial
<1> QED BY <1>1, <1>4, <1>5 DEF S

\* A set is counted by a sum of ones.
LEMMA SumOfOnes ==
  ASSUME NEW S, IsFiniteSet(S), NEW one, \A x \in S : one[x] = 1
  PROVE  SumOf(one, S) = Cardinality(S)
<1>1. PICK a \in Int : a = 1
  OBVIOUS
<1>2. \A x \in S : one[x] \in Int /\ a <= one[x] /\ one[x] <= a
  BY <1>1
<1>3. a * Cardinality(S) <= SumOf(one, S) /\ SumOf(one, S) <= a * Cardinality(S)
  BY <1>2, SumBounds, Zenon
<1>4. SumOf(one, S) \in Int /\ Cardinality(S) \in Nat
  BY <1>2, SumInt, FS_CardinalityType
<1> QED BY <1>1, <1>3, <1>4

\* The first observations of the cohorts, and the cohorts' sizes, make up the file.
LEMMA CohortsMakeUpFile ==
  ASSUME NEW obs, WagesOK(obs), NEW size,
         size = [ i \in First(obs) |-> Len(Wages(obs, obs[i].cohort)) ]
  PROVE  /\ IsFiniteSet(First(obs))
         /\ \A i \in First(obs) : size[i] \in Nat /\ size[i] >= 1
         /\ SumOf(size, First(obs)) = Cardinality(DOMAIN obs)
<1>1. PICK D, F : D = DOMAIN obs /\ F = First(obs)
  OBVIOUS
<1>2. IsFiniteSet(D) /\ D \in SUBSET Nat /\ F \in SUBSET D
  BY <1>1 DEF WagesOK, First
<1>3. IsFiniteSet(F)
  BY <1>2, FS_Subset
<1>4. PICK one, class : /\ one = [ x \in D |-> 1 ]
                        /\ class = [ x \in D |-> Min(Of(obs, obs[x].cohort)) ]
  OBVIOUS
<1>5. ASSUME NEW x \in D
      PROVE  /\ class[x] \in F /\ obs[class[x]].cohort = obs[x].cohort
             /\ \A y \in Of(obs, obs[x].cohort) : class[x] <= y
  <2>1. PICK S : S = Of(obs, obs[x].cohort)
    OBVIOUS
  <2>2. S \in SUBSET Nat /\ x \in S /\ S \subseteq D
    BY <1>1, <1>2, <2>1 DEF Of
  <2>3. Min(S) \in S /\ \A y \in S : Min(S) <= y
    BY <2>2, MinOfSet
  <2>4. PICK m \in S : m = class[x] /\ \A y \in S : m <= y
    BY <1>4, <2>1, <2>3
  <2>5. m \in D /\ obs[m].cohort = obs[x].cohort
    BY <1>1, <2>1, <2>4 DEF Of
  <2>6. m \in F
    BY <1>1, <2>1, <2>4, <2>5 DEF First
  <2> QED BY <2>1, <2>4, <2>5, <2>6
<1>6. ASSUME NEW d \in F PROVE { x \in D : class[x] = d } = Of(obs, obs[d].cohort)
  <2>1. d \in D /\ \A k \in Of(obs, obs[d].cohort) : d <= k
    BY <1>1, <1>2 DEF First
  <2>2. ASSUME NEW x \in D, class[x] = d PROVE x \in Of(obs, obs[d].cohort)
    BY <1>1, <1>5, <2>2 DEF Of
  <2>3. ASSUME NEW x \in Of(obs, obs[d].cohort) PROVE x \in D /\ class[x] = d
    <3>1. x \in D /\ obs[x].cohort = obs[d].cohort /\ d \in Of(obs, obs[x].cohort)
      BY <1>1, <2>1, <2>3 DEF Of
    <3>2. class[x] <= d /\ class[x] \in Of(obs, obs[d].cohort)
      BY <1>1, <1>2, <1>5, <3>1 DEF Of
    <3>3. d <= class[x]
      BY <2>1, <3>2
    <3>4. d \in Nat /\ class[x] \in Nat
      BY <1>2, <1>5, <3>1
    <3> QED BY <3>1, <3>2, <3>3, <3>4
  <2> QED BY <2>2, <2>3
<1>7. ASSUME NEW d \in F
      PROVE  size[d] \in Nat /\ size[d] >= 1 /\ SumOf(one, { x \in D : class[x] = d }) = size[d]
  <2>1. PICK S : S = Of(obs, obs[d].cohort)
    OBVIOUS
  <2>2. S \in SUBSET D /\ d \in S
    BY <1>1, <1>2, <2>1 DEF Of
  <2>3. IsFiniteSet(S) /\ Cardinality(S) \in Nat /\ Cardinality(S) # 0
    BY <1>2, <2>2, FS_Subset, FS_CardinalityType, FS_EmptySet
  <2>4. size[d] = Cardinality(S)
    BY <1>1, <2>1, WagesOfCohort
  <2>5. \A x \in S : one[x] = 1
    BY <1>4, <2>2
  <2>6. SumOf(one, S) = Cardinality(S)
    BY <2>3, <2>5, SumOfOnes
  <2>7. SumOf(one, { x \in D : class[x] = d }) = SumOf(one, S)
    <3>1. { x \in D : class[x] = d } = S
      BY <1>6, <2>1
    <3> QED BY <3>1, Zenon
  <2> QED BY <2>3, <2>4, <2>6, <2>7
<1>8. SumOf(one, D) = Cardinality(D)
  <2>1. \A x \in D : one[x] = 1
    BY <1>4
  <2> QED BY <1>2, <2>1, SumOfOnes
<1>9. SumOf([d \in F |-> SumOf(one, { x \in D : class[x] = d })], F) = SumOf(one, D)
  <2>1. \A x \in D : one[x] \in Int /\ class[x] \in F
    BY <1>4, <1>5
  <2>2. IsFiniteSet(D) /\ IsFiniteSet(F)
    BY <1>2, <1>3
  <2> QED BY <2>1, <2>2, SumByClass
<1>10. size = [d \in F |-> SumOf(one, { x \in D : class[x] = d })]
  <2>1. size = [ d \in F |-> size[d] ]
    BY <1>1
  <2> QED BY <1>7, <2>1
<1> QED BY <1>1, <1>3, <1>7, <1>8, <1>9, <1>10

\* What is kept of the emitted cohorts, one benchmark for each.
LEMMA KeptOfRun ==
  ASSUME NEW obs, WagesOK(obs), NEW kept,
         kept = [ i \in Emitted(obs) |-> Len(CleanWages(Wages(obs, obs[i].cohort))) ]
  PROVE  MapThenSumSet(LAMBDA b : b.row.sample, Range(Benchmarks(obs))) = SumOf(kept, Emitted(obs))
<1>1. PICK E, f, R : E = Emitted(obs) /\ f = Benchmarks(obs) /\ R = Range(f)
  OBVIOUS
<1>2. E \in SUBSET First(obs) /\ First(obs) \subseteq DOMAIN obs /\ DOMAIN obs \subseteq Nat
  BY <1>1 DEF Emitted, First, WagesOK
<1>3. IsFiniteSet(E)
  <2>1. E \in SUBSET DOMAIN obs
    BY <1>2
  <2> QED BY <2>1, FS_Subset DEF WagesOK
<1>4. R = { f[x] : x \in E }
  BY <1>1 DEF Range, Benchmarks
<1>5. ASSUME NEW x \in E, NEW y \in E, f[x] = f[y] PROVE x = y
  <2>1. \A i \in E : f[i].key.cohort = obs[i].cohort
    BY <1>1 DEF Benchmarks, Benchmark, Key
  <2>2. obs[x].cohort = obs[y].cohort
    BY <1>5, <2>1
  <2>3. x \in First(obs) /\ y \in First(obs) /\ x \in Nat /\ y \in Nat
    BY <1>2
  <2>4. x <= y /\ y <= x
    BY <1>2, <2>2, <2>3 DEF First, Of
  <2> QED BY <2>3, <2>4
<1>6. PICK w : w = [ b \in R |-> b.row.sample ]
  OBVIOUS
<1>7. \A x \in E : w[f[x]] = kept[x] /\ kept[x] \in Int
  <2> TAKE x \in E
  <2>1. w[f[x]] = f[x].row.sample
    BY <1>4, <1>6
  <2>2. f[x].row.sample = kept[x] /\ f[x].row.sample \in Nat
    BY <1>1, BenchmarkFigures DEF FiguresOK
  <2> QED BY <2>1, <2>2
<1>8. SumOf(w, R) = SumOf(kept, E)
  <2>1. \A x \in E : kept[x] \in Int /\ kept[x] = w[f[x]]
    BY <1>7
  <2>2. \A x, y \in E : f[x] = f[y] => x = y
    BY <1>5
  <2> QED BY <1>3, <1>4, <2>1, <2>2, SumOfImage
<1>9. MapThenSumSet(LAMBDA b : b.row.sample, R) = SumOf(w, R)
  BY <1>6, KeptIsSum
<1> QED BY <1>1, <1>8, <1>9, Zenon

LEMMA ReportAccounts ==
  ASSUME NEW obs, WagesOK(obs), NEW dry, NEW report, report = Report(obs, dry), NEW kept,
         kept = MapThenSumSet(LAMBDA b : b.row.sample, Range(Benchmarks(obs)))
  PROVE  /\ report.discarded <= report.valid - report.pruned - kept
         /\ report.valid - report.pruned - kept <= (MinSafeHarborCount - 1) * report.discarded
<1>1. PICK F, E, D : F = First(obs) /\ E = Emitted(obs) /\ D = F \ E
  OBVIOUS
<1>2. E \in SUBSET F /\ D \in SUBSET F
  BY <1>1 DEF Emitted
<1>3. PICK size : size = [ i \in F |-> Len(Wages(obs, obs[i].cohort)) ]
  OBVIOUS
<1>4. /\ IsFiniteSet(F) /\ \A i \in F : size[i] \in Nat /\ size[i] >= 1
      /\ SumOf(size, F) = Cardinality(DOMAIN obs)
  BY <1>1, <1>3, CohortsMakeUpFile
<1>5. IsFiniteSet(E) /\ IsFiniteSet(D)
  BY <1>2, <1>4, FS_Subset
<1>6. PICK clean, cut : /\ clean = [ i \in E |-> Len(CleanWages(Wages(obs, obs[i].cohort))) ]
                        /\ cut = [ i \in E |-> Len(Wages(obs, obs[i].cohort))
                                                 - Len(CleanWages(Wages(obs, obs[i].cohort))) ]
  OBVIOUS
<1>7. \A i \in E : clean[i] \in Int /\ cut[i] \in Int /\ size[i] \in Int /\ size[i] = cut[i] + clean[i]
  <2> TAKE i \in E
  <2>1. Wages(obs, obs[i].cohort) \in Seq(Nat)
    BY WagesOfCohort
  <2>2. CleanWages(Wages(obs, obs[i].cohort)) \in Seq(Nat)
    BY <2>1, CleanWagesRise DEF Rising
  <2>3. Len(CleanWages(Wages(obs, obs[i].cohort))) \in Nat
    BY <2>2
  <2>4. PICK n, c : /\ n = Len(Wages(obs, obs[i].cohort))
                    /\ c = Len(CleanWages(Wages(obs, obs[i].cohort)))
    OBVIOUS
  <2>5. size[i] = n /\ clean[i] = c /\ cut[i] = n - c /\ n \in Nat /\ c \in Nat
    BY <1>2, <1>3, <1>4, <1>6, <2>3, <2>4
  <2> QED BY <2>5
<1>8. SumOf(size, E) = SumOf(cut, E) + SumOf(clean, E)
  BY <1>5, <1>7, SumPlus
<1>9. kept = SumOf(clean, E)
  BY <1>1, <1>6, KeptOfRun
<1>10. Pruned(obs) = SumOf(cut, E)
  BY <1>1, <1>6, PrunedIsSum
<1>11. SumOf(size, F) = SumOf(size, E) + SumOf(size, D)
  <2>1. \A i \in F : size[i] \in Int
    BY <1>4
  <2>2. SumOf(size, F) = SumOf(size, E) + SumOf(size, F \ E)
    BY <1>2, <1>4, <2>1, SumSplit
  <2>3. SumOf(size, D) = SumOf(size, F \ E)
    BY <1>1, Zenon
  <2> QED BY <2>2, <2>3
<1>12. \A i \in D : size[i] \in Int /\ 1 <= size[i] /\ size[i] <= 4
  <2> TAKE i \in D
  <2>1. size[i] \in Nat /\ 1 <= size[i]
    BY <1>2, <1>4
  <2>2. i \in F /\ i \notin E
    BY <1>1
  <2>3. ~ SafeHarbor(Wages(obs, obs[i].cohort))
    BY <1>1, <2>2 DEF Emitted
  <2>4. ~ (size[i] >= 5)
    BY <1>3, <2>2, <2>3 DEF SafeHarbor, MinSafeHarborCount
  <2> QED BY <2>1, <2>4
<1>13. PICK one \in Int, four \in Int : one = 1 /\ four = 4
  OBVIOUS
<1>14. one * Cardinality(D) <= SumOf(size, D) /\ SumOf(size, D) <= four * Cardinality(D)
  <2>1. \A i \in D : size[i] \in Int /\ one <= size[i] /\ size[i] <= four
    BY <1>12, <1>13
  <2> QED BY <1>5, <2>1, SumBounds, Zenon
<1>15. Cardinality(F) - Cardinality(E) = Cardinality(D)
  <2>1. F \cap E = E
    BY <1>2
  <2>2. Cardinality(F \ E) = Cardinality(F) - Cardinality(F \cap E)
    BY <1>4, FS_Difference
  <2>3. Cardinality(F \cap E) = Cardinality(E) /\ Cardinality(F \ E) = Cardinality(D)
    BY <1>1, <2>1, Zenon
  <2>4. Cardinality(F) \in Nat /\ Cardinality(E) \in Nat
    BY <1>4, <1>5, FS_CardinalityType
  <2> QED BY <2>2, <2>3, <2>4
<1>16. /\ report.valid = Cardinality(DOMAIN obs) /\ report.pruned = Pruned(obs)
       /\ report.discarded = Cardinality(F) - Cardinality(E)
  BY <1>1 DEF Report
<1>17. PICK v, c, p, x, d :
         /\ v = SumOf(size, F) /\ c = SumOf(clean, E) /\ p = SumOf(cut, E)
         /\ x = SumOf(size, D) /\ d = Cardinality(D)
  OBVIOUS
<1>18. c \in Int /\ p \in Int /\ x \in Int /\ d \in Nat
  <2>1. c \in Int /\ p \in Int
    BY <1>5, <1>7, <1>17, SumInt
  <2>2. x \in Int
    BY <1>5, <1>12, <1>17, SumInt
  <2> QED BY <1>5, <1>17, <2>1, <2>2, FS_CardinalityType
<1>19. v = p + c + x
  BY <1>8, <1>11, <1>17, <1>18
<1>20. d <= x /\ x <= 4 * d
  BY <1>13, <1>14, <1>17, <1>18
<1>21. report.discarded = d /\ report.valid = v /\ report.pruned = p /\ kept = c
  BY <1>4, <1>9, <1>10, <1>15, <1>16, <1>17
<1>22. report.valid - report.pruned - kept = x
  BY <1>18, <1>19, <1>21
<1> QED BY <1>18, <1>20, <1>21, <1>22 DEF MinSafeHarborCount

\* pipeline.py:169-177, 231-245: for any file, any break of the stream and any limit, the
\* report accounts for every observation.
THEOREM ReportsAddUp == Spec => []ReportAddsUp
<1>1. ASSUME ReportInv, NEW run \in Computed, run.report # NoReport
      PROVE  LET report == run.report
                 kept == MapThenSumSet(LAMBDA b : b.row.sample, Range(run.benchmarks))
                 discarded == report.valid - report.pruned - kept
             IN /\ report.discarded <= discarded
                /\ discarded <= (MinSafeHarborCount - 1) * report.discarded
  <2>1. PICK obs, dry : /\ WagesOK(obs) /\ run.benchmarks = Benchmarks(obs)
                        /\ run.report = Report(obs, dry)
    BY <1>1, ComputedFigures
  <2>2. PICK report, benchmarks : report = run.report /\ benchmarks = run.benchmarks
    OBVIOUS
  <2>3. PICK kept : kept = MapThenSumSet(LAMBDA b : b.row.sample, Range(benchmarks))
    OBVIOUS
  <2>4. kept = MapThenSumSet(LAMBDA b : b.row.sample, Range(Benchmarks(obs)))
    BY <2>1, <2>2, <2>3, Zenon
  <2>5. /\ report.discarded <= report.valid - report.pruned - kept
        /\ report.valid - report.pruned - kept <= (MinSafeHarborCount - 1) * report.discarded
    BY <2>1, <2>2, <2>4, ReportAccounts, Zenon
  <2> QED BY <2>2, <2>3, <2>5, Zenon
<1>2. ReportInv => ReportAddsUp
  BY <1>1, Zenon DEF ReportAddsUp
<1> QED BY <1>2, ReportInvariant, PTL
==============================================================================
