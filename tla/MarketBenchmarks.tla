--------------------------- MODULE MarketBenchmarks ---------------------------
(***************************************************************************)
(* etl/pipeline.py with its sources, service/benchmark_service.py and the  *)
(* endpoints of api/v1/benchmarks.py that use them.  Ingestions turn wage   *)
(* disclosures into benchmark rows; lookups read through a cache that no    *)
(* ingestion touches.  Of core/redis.py only the server is kept here: when *)
(* a call fails, the process's own dictionary may answer or not.           *)
(***************************************************************************)
EXTENDS WageStatistics

CONSTANTS
  Job,        \* ingestion requests, one each
  Reader,     \* concurrent lookups
  Feeds,      \* disclosure files that may be uploaded or streamed, as rows
  Bundled,    \* the rows of the bundled sample
  Seeded,     \* all cohorts, in the order of the seed loader
  Breaks,     \* after how many rows a stream may break off (bound)
  Limits,     \* values of limit_records; 0 is none
  Today,      \* date.today()
  Earlier,    \* benchmarks that may have been ingested before
  CacheKey,   \* the lookups that are made
  NoRow, NoValue

Title == [ families : SUBSET Family, levels : SUBSET (1 .. 6), exact : 0 .. 6 ]

\* A row of a feed; an amount of 0 is one the parser cannot read.
FeedRow == [ title : Title, places : SUBSET {1, 2}, amount : Nat, unit : STRING, date : 0 .. Today ]

Cohort == [ family : Family, level : 1 .. 6, zone : {"US_ZONE_1", "US_ZONE_2", "US_ZONE_3"} ]

ASSUME MarketAssumption ==
  /\ Job \cap Reader = {}
  /\ Today \in Nat
  /\ Bundled \in Seq(FeedRow) /\ Feeds \subseteq Seq(FeedRow)
  /\ \A feed \in Feeds, sent \in Breaks : sent \in 0 .. Len(feed)
  /\ Seeded \in Seq(Cohort) /\ \A m, n \in DOMAIN Seeded : Seeded[m] = Seeded[n] => m = n
  /\ \A earlier \in Earlier : \A b \in Range(earlier) :
       /\ b.key.source = "DOL_OFLC" /\ b.key.date \in 0 .. Today
       /\ DOMAIN b.row = Figure \cup {"sample"}
  /\ \A k \in CacheKey : k = <<"benchmark", k[2], k[3]>>

VARIABLES
  cache,      \* the Redis server: per key, a benchmark or NoValue
  table,      \* market_benchmarks: a partial function of its unique key
  txn,        \* per request, its progress
  outdated    \* history: cache keys whose cohort was ingested since they were read

tableVars == <<table, outdated>>
vars == <<cache, table, txn, outdated>>

------------------------------------------------------------------------------
(* What an ingestion computes.                                             *)

CohortOf(row) ==
  [ family |-> FamilyOf(row.title), level |-> LevelOf(row.title), zone |-> ZoneOf(row.places) ]

\* _parse_single_row: what it cannot read is dropped.  Observations keep the place of
\* their row.
Parsed(rows) ==
  [ i \in { k \in DOMAIN rows : rows[k].amount > 0 } |->
      [ cohort |-> CohortOf(rows[i]), wage |-> Annual(rows[i].amount, rows[i].unit),
        date |-> rows[i].date ] ]

\* stream_lines: a stream that fails after some rows goes on with the bundled sample.
\* (The sample's header is then read as a row, which the parser drops.)
Streamed(feed, sent) == IF sent = Len(feed) THEN feed ELSE SubSeq(feed, 1, sent) \o Bundled

\* max_records.
Taken(observations, limit) ==
  IF limit = 0 THEN observations
  ELSE Restrict(observations,
         { i \in DOMAIN observations :
             Cardinality({ k \in DOMAIN observations : k <= i }) <= limit })

Of(observations, cohort) == { i \in DOMAIN observations : observations[i].cohort = cohort }

\* The observations that are the first of their cohort: they stand for it, in the order
\* the code meets the cohorts.
First(observations) ==
  { i \in DOMAIN observations : \A k \in Of(observations, observations[i].cohort) : i <= k }

Wages(observations, cohort) ==
  Subsequence([ i \in DOMAIN observations |-> observations[i].wage ], Of(observations, cohort))

\* A benchmark is dated by the earliest observation of its cohort.
EffectiveDate(observations, cohort) ==
  Min({ observations[i].date : i \in Of(observations, cohort) })

\* Mutant of SafeHarbor: a cohort of the minimum is discarded too.
SafeHarborMore(wages) == Len(wages) > MinSafeHarborCount

\* The count is taken before the outliers are pruned.
SafeHarbor(wages) == Len(wages) >= MinSafeHarborCount

Emitted(observations) ==
  { i \in First(observations) : SafeHarbor(Wages(observations, observations[i].cohort)) }

Key(cohort, source, date) == [ cohort |-> cohort, source |-> source, date |-> date ]

\* The benchmark of a cohort: a key and the columns of its row.
Benchmark(observations, cohort) ==
  LET date == EffectiveDate(observations, cohort)
  IN [ key |-> Key(cohort, "DOL_OFLC", date),
       row |-> Aged(Percentiles(Wages(observations, cohort)), date, Today) ]

Benchmarks(observations) ==
  [ i \in Emitted(observations) |-> Benchmark(observations, observations[i].cohort) ]

\* generate_seed_benchmarks: dated 2026-01-01, in the year of today.
SeedBenchmarks ==
  [ i \in DOMAIN Seeded |-> [ key |-> Key(Seeded[i], "SYNTHETIC", Today),
                              row |-> SeedFigures(Seeded[i]) ] ]

\* outliers_pruned, over the cohorts that are not discarded.
Pruned(observations) ==
  LET pruned(wages) == Len(wages) - Len(CleanWages(wages))
  IN MapThenSumSet(LAMBDA i : pruned(Wages(observations, observations[i].cohort)),
                   Emitted(observations))

Report(observations, dry) ==
  LET cohorts == Cardinality(First(observations))
      emitted == Cardinality(Emitted(observations))
  IN [ valid |-> Cardinality(DOMAIN observations), pruned |-> Pruned(observations),
       cohorts |-> cohorts, upserted |-> IF dry THEN 0 ELSE emitted,
       discarded |-> cohorts - emitted ]

NoReport == [ valid |-> 0 ]

------------------------------------------------------------------------------
(* Requests.                                                               *)

Fresh == [ pc |-> "new" ]

Idle == [ pc |-> "idle" ]

Done == [ pc |-> "done" ]

Active(s) == txn[s].pc \notin {"new", "idle", "done"}

\* What a job has computed and goes on to persist: it selects its rows one by one, and
\* `seen' are those it found; `todo' is still to be written.
Persist(benchmarks) ==
  [ pc |-> IF DOMAIN benchmarks = {} THEN "commit" ELSE "select",
    benchmarks |-> benchmarks, seen |-> <<>>, todo |-> {}, wrote |-> {} ]

\* ingest_dol_lca_csv, up to the persistence: no fetching, limit or report.
CsvRuns == { [ benchmarks |-> Benchmarks(Parsed(f)), report |-> NoReport, dry |-> FALSE ] :
               f \in { g \in Feeds : DOMAIN Parsed(g) # {} } }

\* ingest_live_dol_dataset, likewise: nothing of it touches what is shared.
LiveRun(feed, sent, limit, dry) ==
  LET observations == Taken(Parsed(Streamed(feed, sent)), limit)
  IN [ benchmarks |-> Benchmarks(observations), report |-> Report(observations, dry),
       dry |-> dry ]

LiveRuns == { LiveRun(f, sent, limit, dry) :
                f \in Feeds, sent \in Breaks, limit \in Limits, dry \in BOOLEAN }
       \cup { LiveRun(f, Len(f), limit, dry) : f \in Feeds, limit \in Limits, dry \in BOOLEAN }

\* The persistence is left out on a dry run, and on a live run with nothing to persist.
BeginRun(j, run) ==
  /\ txn[j] = Fresh
  /\ LET skip == run.dry \/ (run.report # NoReport /\ DOMAIN run.benchmarks = {})
     IN txn' = [txn EXCEPT ![j] = IF skip THEN [ pc |-> "report", run |-> run ]
                                  ELSE Persist(run.benchmarks)]
  /\ UNCHANGED <<cache, tableVars>>

\* The report goes to the caller, the process and the cache, and changes nothing else;
\* that of a run that persisted is left out.
ReturnReport(j) ==
  /\ txn[j].pc = "report"
  /\ txn' = [txn EXCEPT ![j] = Done]
  /\ UNCHANGED <<cache, tableVars>>

BeginSeed(j) ==
  /\ txn[j] = Fresh
  /\ txn' = [txn EXCEPT ![j] = Persist(SeedBenchmarks)]
  /\ UNCHANGED <<cache, tableVars>>

Row(key) == IF key \in DOMAIN table THEN table[key] ELSE NoRow

\* What the flush at the commit writes: new rows and changed ones.
ToWrite(job) ==
  { i \in DOMAIN job.benchmarks : job.seen[i] = NoRow \/ job.seen[i] # job.benchmarks[i].row }

\* _persist_benchmarks: a SELECT per benchmark; the session does not flush before one.
SelectRow(j) ==
  /\ txn[j].pc = "select"
  /\ LET i == Min(DOMAIN txn[j].benchmarks \ DOMAIN txn[j].seen)
         found == [ k \in DOMAIN txn[j].seen \cup {i} |->
                      IF k = i THEN Row(txn[j].benchmarks[i].key) ELSE txn[j].seen[k] ]
         job == [txn[j] EXCEPT !.seen = found]
     IN txn' = [txn EXCEPT ![j] =
          IF DOMAIN found # DOMAIN job.benchmarks THEN job
          ELSE IF ToWrite(job) = {} THEN [job EXCEPT !.pc = "commit"]
          ELSE [job EXCEPT !.pc = "write", !.todo = ToWrite(job)]]
  /\ UNCHANGED <<cache, tableVars>>

\* Updates come first, in the order of their primary keys (any fixed order), then the
\* inserts in the order they were added.
NextWrite(job) ==
  LET updates == { i \in job.todo : job.seen[i] # NoRow }
      rank(i) == CHOOSE n \in DOMAIN Seeded : Seeded[n] = job.benchmarks[i].key.cohort
  IN IF updates = {} THEN Min(job.todo)
     ELSE CHOOSE i \in updates : \A k \in updates : rank(i) <= rank(k)

\* The row a job writes next, the jobs that hold it, and deadlocks.
NextKey(j) == txn[j].benchmarks[NextWrite(txn[j])].key

Waits(j, h) == /\ h # j /\ txn[j].pc = "write" /\ Active(h)
               /\ txn[h].pc \in {"write", "commit"} /\ NextKey(j) \in txn[h].wrote

WaitCycle(S) ==
  S # {} /\ \A t \in S : (\E u \in S : Waits(t, u)) /\ (\E u \in S : Waits(u, t))

Deadlocked(j) == \E S \in SUBSET Job : j \in S /\ WaitCycle(S)

\* What a job goes on with when it is through with its next row.
Past(job) ==
  LET i == NextWrite(job)
  IN [job EXCEPT !.todo = @ \ {i}, !.pc = IF job.todo = {i} THEN "commit" ELSE "write"]

Wrote(j) == [Past(txn[j]) EXCEPT !.wrote = @ \cup {NextKey(j)}]

Insertable(j) == txn[j].seen[NextWrite(txn[j])] # NoRow \/ Row(NextKey(j)) = NoRow

\* Mutant of WriteRow: a row that is already there is skipped.
WriteRowOnConflictSkip(j) ==
  /\ txn[j].pc = "write"
  /\ \A h \in Job : ~ Waits(j, h)
  /\ txn' = [txn EXCEPT ![j] = IF Insertable(j) THEN Wrote(j) ELSE Past(txn[j])]
  /\ UNCHANGED <<cache, tableVars>>

\* Mutant of WriteRow: the statement is sent again until it succeeds.
WriteRowRetried(j) ==
  /\ txn[j].pc = "write"
  /\ \A h \in Job : ~ Waits(j, h)
  /\ txn' = [txn EXCEPT ![j] = IF Insertable(j) THEN Wrote(j) ELSE txn[j]]
  /\ UNCHANGED <<cache, tableVars>>

\* An UPDATE of a row that was seen or an INSERT, which fails when the row has been
\* committed meanwhile and takes the whole ingestion with it.
WriteRow(j) ==
  /\ txn[j].pc = "write"
  /\ \A h \in Job : ~ Waits(j, h)
  /\ txn' = [txn EXCEPT ![j] = IF Insertable(j) THEN Wrote(j) ELSE Done]
  /\ UNCHANGED <<cache, tableVars>>

\* An UPDATE sets the columns that differ from the row that was seen, and no other.
Written(old, seen, new) ==
  IF seen = NoRow THEN new
  ELSE [ c \in DOMAIN new |-> IF new[c] # seen[c] THEN new[c] ELSE old[c] ]

Commit(j) ==
  /\ txn[j].pc = "commit"
  /\ LET job == txn[j]
         index(key) == CHOOSE i \in DOMAIN job.benchmarks : job.benchmarks[i].key = key
         cohorts == { key.cohort : key \in job.wrote }
     IN /\ table' = [ key \in DOMAIN table \cup job.wrote |->
                        IF key \notin job.wrote THEN table[key]
                        ELSE Written(Row(key), job.seen[index(key)],
                                     job.benchmarks[index(key)].row) ]
        /\ outdated' = outdated \cup { k \in CacheKey : k[2] \in cohorts }
        /\ txn' = [txn EXCEPT ![j] = Done]
  /\ UNCHANGED cache

------------------------------------------------------------------------------
(* get_benchmark, as /lookup and /compare use it.                          *)

\* Mutant of CacheKeyOf: all sources share a key.
CacheKeyOfCohort(cohort, source) == <<"benchmark", cohort, "DEFAULT">>

\* DEFAULT asks for any source.
CacheKeyOf(cohort, source) == <<"benchmark", cohort, source>>

BeginLookup(s, cohort, source) ==
  /\ ~ Active(s)
  /\ txn' = [txn EXCEPT ![s] =
       [ pc |-> "lookup", cohort |-> cohort, source |-> source, found |-> NoValue ]]
  /\ UNCHANGED <<cache, tableVars>>

MyKey(s) == CacheKeyOf(txn[s].cohort, txn[s].source)

\* A hit ends the lookup; a call that fails ends in a hit or a miss of the dictionary.
Lookup(s) ==
  /\ txn[s].pc = "lookup"
  /\ \E hit \in {cache[MyKey(s)] # NoValue} \cup BOOLEAN :
       txn' = [txn EXCEPT ![s] = IF hit THEN Idle ELSE [@ EXCEPT !.pc = "query"]]
  /\ UNCHANGED <<cache, tableVars>>

\* The rows an ORDER BY effective_date DESC may put first.
Newest(cohort, source) ==
  LET mine == { k \in DOMAIN table : k.cohort = cohort /\ source \in {"DEFAULT", k.source} }
  IN { [ key |-> k, row |-> table[k] ] : k \in { m \in mine : \A o \in mine : o.date <= m.date } }

\* Nobody else is about to store under the same key.
Sole(s) ==
  \A o \in Reader \ {s} : Active(o) => ~ (txn[o].pc = "store" /\ MyKey(o) = MyKey(s))

\* No row is a 404.  What was ingested before the row is read is no longer news,
\* unless the server still has an entry from before.
Query(s) ==
  /\ txn[s].pc = "query"
  /\ LET found == Newest(txn[s].cohort, txn[s].source) IN
       IF found = {} THEN txn' = [txn EXCEPT ![s] = Idle] /\ UNCHANGED outdated
       ELSE /\ \E benchmark \in found :
                 txn' = [txn EXCEPT ![s].pc = "store", ![s].found = benchmark]
            /\ outdated' = IF cache[MyKey(s)] = NoValue /\ Sole(s)
                           THEN outdated \ {MyKey(s)} ELSE outdated
  /\ UNCHANGED <<cache, table>>

\* setex; the call may fail before or after the server has done it.
Store(s) ==
  /\ txn[s].pc = "store"
  /\ cache' \in { cache, [cache EXCEPT ![MyKey(s)] = txn[s].found] }
  /\ txn' = [txn EXCEPT ![s] = Idle]
  /\ UNCHANGED tableVars

------------------------------------------------------------------------------
(* The environment.                                                        *)

\* A request fails, or its connection dies, before its commit.
Abort(s) ==
  /\ Active(s)
  /\ txn' = [txn EXCEPT ![s] = IF s \in Job THEN Done ELSE Idle]
  /\ UNCHANGED <<cache, tableVars>>

DeadlockAbort(j) == Deadlocked(j) /\ Abort(j)

\* The expiry is reached, or the server evicts the key.
CacheExpire(k) ==
  /\ cache[k] # NoValue
  /\ cache' = [cache EXCEPT ![k] = NoValue]
  /\ UNCHANGED <<table, txn, outdated>>

\* Nothing has been ingested before, or one of the earlier ingestions has.
Init ==
  /\ cache = [k \in CacheKey |-> NoValue]
  /\ \E earlier \in Earlier :
       table = [ key \in { b.key : b \in Range(earlier) } |->
                   (CHOOSE b \in Range(earlier) : b.key = key).row ]
  /\ txn = [s \in Job \cup Reader |-> IF s \in Job THEN Fresh ELSE Idle]
  /\ outdated = {}

Begin ==
  \/ \E j \in Job :
       \/ \E run \in CsvRuns \cup LiveRuns : BeginRun(j, run)
       \/ BeginSeed(j)
  \/ \E s \in Reader, k \in CacheKey : BeginLookup(s, k[2], k[3])

JobStep(j) == ReturnReport(j) \/ SelectRow(j) \/ WriteRow(j) \/ Commit(j)

ReaderStep(s) == Lookup(s) \/ Query(s) \/ Store(s)

Next ==
  \/ Begin
  \/ \E j \in Job : JobStep(j) \/ DeadlockAbort(j)
  \/ \E s \in Reader : ReaderStep(s)
  \/ \E s \in Job \cup Reader : Abort(s)
  \/ \E k \in CacheKey : CacheExpire(k)

Spec == Init /\ [][Next]_vars

\* An ingestion goes on while it can, and PostgreSQL resolves deadlocks.
FairSpec == Spec /\ \A j \in Job : WF_vars(JobStep(j) \/ DeadlockAbort(j))

------------------------------------------------------------------------------
(* Properties.                                                             *)

Ordered(row) ==
  /\ row.p10 <= row.p25 /\ row.p25 <= row.p50 /\ row.p50 <= row.p75 /\ row.p75 <= row.p90

\* What ingestions compute: every live run has a dry run that computes the same.
Computed == { txn[j].run : j \in { h \in Job : txn[h].pc = "report" } }

MarketTypeOK ==
  /\ \A key \in DOMAIN table :
       /\ key.cohort \in ToSet(Seeded) /\ key.source \in {"DOL_OFLC", "SYNTHETIC"}
       /\ key.date <= Today
       /\ DOMAIN table[key] = Figure \cup {"sample"}
  /\ \A k \in CacheKey : cache[k] # NoValue => cache[k].key.cohort = k[2]
  /\ \A j \in Job : txn[j].pc = "write" => txn[j].todo # {}
  /\ outdated \subseteq CacheKey

\* statistical_engine.py:20-76: whatever is pruned, the percentiles of a cohort come out
\* in order and within the wages of its file, or all zero with a sample of none.
PercentilesOrdered ==
  \A run \in Computed : \A b \in Range(run.benchmarks) :
    /\ Ordered(b.row)
    /\ b.row.sample > 0 => b.row.p10 >= 40 * 10000

\* The report of an ingestion accounts for every observation: those not pruned are the
\* samples of its benchmarks, or in a discarded cohort, which has fewer than five
\* (pipeline.py:169-177, 231-245).
ReportAddsUp ==
  \A run \in Computed : run.report # NoReport =>
    LET report == run.report
        kept == MapThenSumSet(LAMBDA b : b.row.sample, Range(run.benchmarks))
        discarded == report.valid - report.pruned - kept
    IN /\ report.discarded <= discarded
       /\ discarded <= (MinSafeHarborCount - 1) * report.discarded

\* The salaries compared with a benchmark.
Salaries == { 20, 39, 40, 100, 140, 150, 155, 160, 170, 183, 205, 300, 900 }

\* compare_to_market: a higher salary never has a lower market percentile, and one
\* within the market band is between the tenth and the ninetieth, one outside is not
\* (up to rounding), in every benchmark an ingestion computes with a sample.
PositionFollowsSalary ==
  \A run \in Computed : \A b \in Range(run.benchmarks) : b.row.sample > 0 =>
    LET position == [ s \in Salaries |-> MarketPercentile(s, b.row) ] IN
      \A s \in Salaries :
        /\ position[s] \in 10 .. 990
        /\ IF WithinMarketBand(s, b.row) THEN position[s] \in 100 .. 900
           ELSE position[s] <= 100 \/ position[s] >= 900
        /\ \A t \in Salaries : s < t => position[s] <= position[t]

Stale(k) ==
  cache[k] # NoValue /\ cache[k] \notin Newest(k[2], k[3])

\* benchmark_service.py:33-79: no ingestion touches the cache, and nothing but an
\* ingestion makes it wrong: an entry differs from what the table would answer only if
\* its cohort was ingested since the entry's row was read.
StaleOnlyByIngestion == \A k \in CacheKey : Stale(k) => k \in outdated

\* pipeline.py:258-312: an ingestion lands whole or not at all, and as it was computed,
\* except for rows that another ingestion changed between its SELECT and its UPDATE.
IngestionLandsWhole ==
  [][ table' # table =>
        \E j \in Job :
          /\ txn[j].pc = "commit" /\ txn'[j].pc # "commit"
          /\ \A i \in DOMAIN txn[j].benchmarks :
               LET b == txn[j].benchmarks[i] IN
                 \/ table'[b.key] = b.row
                 \/ txn[j].seen[i] # NoRow /\ txn[j].seen[i] # Row(b.key)
          /\ \A key \in DOMAIN table' :
               Row(key) # table'[key] => \E b \in Range(txn[j].benchmarks) : b.key = key ]_vars

\* Every ingestion comes to an end, also when two insert the same rows in opposite
\* orders and deadlock.
IngestionsEnd == \A j \in Job : Active(j) ~> ~ Active(j)

\* statistical_engine.py:16 and the comment at pipeline.py:68: no benchmark is emitted
\* whose sample size is below the safe harbour.
SafeHarborKept == \A key \in DOMAIN table : table[key].sample >= MinSafeHarborCount
==============================================================================
