------------------------------- MODULE BandCache -------------------------------
(***************************************************************************)
(* service/band_service.py over PostgreSQL and the Redis of core/redis.py. *)
(* get_band reads through the cache and inserts a default band where the   *)
(* table has none; upsert_band writes the table.  Both write the cache     *)
(* before the request they are part of commits, and a request may still    *)
(* fail after that.                                                        *)
(***************************************************************************)
EXTENDS RedisManager, FiniteSets

CONSTANTS
  Session,      \* concurrent requests
  Band,         \* the figures a salary band may have
  DefaultBand(_) \* get_default_salary_band, per key

ASSUME BandAssumption ==
  /\ NoValue \notin Band
  /\ \A k \in CacheKey : DefaultBand(k) \in Band

VARIABLES
  bands,     \* salary_bands, by (level, family, zone), a unique key
  txn,       \* per session, the transaction of its request
  excused    \* history: keys whose cache entry has an excuse to be stale

vars == <<redis, client, local, bands, txn, excused>>

------------------------------------------------------------------------------
(* Transactions.  `band' is what is handed on (to the cache, and by         *)
(* get_band to its caller), `wrote' whether a flushed write of the row      *)
(* waits for the commit, `replica' where the request runs.                  *)

Idle == [ pc |-> "idle" ]

Active(s) == txn[s].pc # "idle"

Begin(pc, op, r, k, band) ==
  [ pc |-> pc, op |-> op, replica |-> r, key |-> k, band |-> band,
    wrote |-> FALSE, pinging |-> FALSE ]

\* The other open requests for the same band.
Others(s) == { t \in Session \ {s} : Active(t) /\ txn[t].key = txn[s].key }

\* A written row is locked, and its unique key held, until the writer ends.
Locked(s) == \E t \in Others(s) : txn[t].wrote

Init ==
  /\ RedisInit
  /\ bands = [k \in CacheKey |-> NoValue]
  /\ txn = [s \in Session |-> Idle]
  /\ excused = {}

\* Requests for one band that run at the same time excuse its entry, unless they
\* are lookups only.
Overlap(s, k, op) ==
  IF \E t \in Session \ {s} :
       Active(t) /\ txn[t].key = k /\ "upsert" \in {op, txn[t].op}
  THEN excused \cup {k} ELSE excused

BeginLookup(s, r, k) ==
  /\ ~ Active(s)
  /\ txn' = [txn EXCEPT ![s] = Begin("lookup", "lookup", r, k, NoValue)]
  /\ excused' = Overlap(s, k, "lookup")
  /\ UNCHANGED <<redisVars, bands>>

BeginUpsert(s, r, k, band) ==
  /\ ~ Active(s)
  /\ txn' = [txn EXCEPT ![s] = Begin("select", "upsert", r, k, band)]
  /\ excused' = Overlap(s, k, "upsert")
  /\ UNCHANGED <<redisVars, bands>>

------------------------------------------------------------------------------
(* The client.                                                             *)

OpenClient(s) ==
  /\ txn[s].pc \in {"lookup", "store"}
  /\ Connect(txn[s].replica)
  /\ txn' = [txn EXCEPT ![s].pinging = TRUE]
  /\ UNCHANGED <<bands, excused>>

ClientPinged(s) ==
  /\ Active(s) /\ txn[s].pinging
  /\ PingAnswers(txn[s].replica)
  /\ txn' = [txn EXCEPT ![s].pinging = FALSE]
  /\ UNCHANGED <<bands, excused>>

MayCall(s) == ~ txn[s].pinging /\ client[txn[s].replica] # "none"

------------------------------------------------------------------------------
(* get_band and upsert_band, statement by statement.                       *)

\* get_cached_band: a hit ends what the request has to do with bands.
Lookup(s) ==
  /\ txn[s].pc = "lookup" /\ MayCall(s)
  /\ \E answer \in Answers(txn[s].replica, txn[s].key) :
       txn' = [txn EXCEPT ![s] = IF answer = NoValue THEN [@ EXCEPT !.pc = "select"] ELSE Idle]
  /\ UNCHANGED <<redisVars, bands, excused>>

\* The SELECT.  get_band goes on with the row, or with the default to be inserted.
\* upsert_band assigns the columns of the row it loaded, and SQLAlchemy writes only
\* those that changed.
Select(s) ==
  /\ txn[s].pc = "select"
  /\ LET k == txn[s].key
         row == bands[k]
         band == IF txn[s].op = "upsert" THEN txn[s].band
                 ELSE IF row = NoValue THEN DefaultBand(k) ELSE row
     IN txn' = [txn EXCEPT ![s].pc = IF band = row THEN "store"
                                     ELSE IF row = NoValue THEN "insert" ELSE "update",
                           ![s].band = band]
  /\ UNCHANGED <<redisVars, bands, excused>>

\* Mutant of Write: the default is inserted or, when somebody was faster, updated.
WriteOnConflictUpdate(s) ==
  /\ txn[s].pc \in {"insert", "update"} /\ ~ Locked(s)
  /\ txn' = [txn EXCEPT ![s].pc = "store", ![s].wrote = TRUE]
  /\ UNCHANGED <<redisVars, bands, excused>>

\* The flush: an UPDATE of the row that was seen, or an INSERT, which fails when the
\* band has been committed meanwhile and takes the whole request with it.
Write(s) ==
  /\ txn[s].pc \in {"insert", "update"} /\ ~ Locked(s)
  /\ txn' = [txn EXCEPT ![s] =
       IF txn[s].pc = "insert" /\ bands[txn[s].key] # NoValue THEN Idle
       ELSE [@ EXCEPT !.pc = "store", !.wrote = TRUE]]
  /\ UNCHANGED <<redisVars, bands, excused>>

\* The server that does not have what was stored has an excuse.
Unrefreshed(s) ==
  IF redis'[txn[s].key].value # txn[s].band THEN excused \cup {txn[s].key} ELSE excused

\* A request that has written no row has nothing left to commit.
Cached(s) == IF txn[s].wrote THEN [txn[s] EXCEPT !.pc = "work"] ELSE Idle

\* Mutant of Store: an upsert leaves the cache alone.
StoreLookupsOnly(s) ==
  /\ txn[s].pc = "store" /\ MayCall(s)
  /\ IF txn[s].op = "upsert" THEN UNCHANGED redisVars
     ELSE Put(txn[s].replica, txn[s].key, txn[s].band)
  /\ txn' = [txn EXCEPT ![s] = Cached(s)]
  /\ UNCHANGED <<bands, excused>>

\* cache_band.
Store(s) ==
  /\ txn[s].pc = "store" /\ MayCall(s)
  /\ Put(txn[s].replica, txn[s].key, txn[s].band)
  /\ txn' = [txn EXCEPT ![s] = Cached(s)]
  /\ excused' = Unrefreshed(s)
  /\ UNCHANGED bands

\* The rest of the request, and its commit.
Commit(s) ==
  /\ txn[s].pc = "work"
  /\ bands' = [bands EXCEPT ![txn[s].key] = txn[s].band]
  /\ txn' = [txn EXCEPT ![s] = Idle]
  /\ UNCHANGED <<redisVars, excused>>

\* The request fails, or its connection dies: the row is rolled back, the cache not.
Abort(s) ==
  /\ Active(s)
  /\ txn' = [txn EXCEPT ![s] = Idle]
  /\ excused' = IF txn[s].pc = "work" THEN excused \cup {txn[s].key} ELSE excused
  /\ UNCHANGED <<redisVars, bands>>

\* A replica is restarted, with every request it runs.
Restart(r) ==
  LET lost == { s \in Session : Active(s) /\ txn[s].replica = r } IN
    /\ RestartManager(r)
    /\ txn' = [s \in Session |-> IF s \in lost THEN Idle ELSE txn[s]]
    /\ excused' = excused \cup { txn[s].key : s \in { t \in lost : txn[t].pc = "work" } }
    /\ UNCHANGED bands

\* With the entry and every request for it gone, the excuses are gone too.
CacheExpire(k) ==
  /\ Expire(k)
  /\ excused' = IF \E s \in Session : Active(s) /\ txn[s].key = k THEN excused
                ELSE excused \ {k}
  /\ UNCHANGED <<bands, txn>>

Step(s) ==
  \/ OpenClient(s) \/ ClientPinged(s)
  \/ Lookup(s) \/ Select(s) \/ Write(s) \/ Store(s)
  \/ Commit(s)

Next ==
  \/ \E s \in Session, r \in Replica, k \in CacheKey :
       \/ BeginLookup(s, r, k)
       \/ \E band \in Band : BeginUpsert(s, r, k, band)
  \/ \E s \in Session : Step(s) \/ Abort(s)
  \/ \E r \in Replica : Restart(r)
  \/ \E k \in CacheKey : CacheExpire(k)

Spec == Init /\ [][Next]_vars

\* Redis expires what has an expiry; nothing else is asked of the world.
FairSpec == Spec /\ \A k \in CacheKey : WF_vars(CacheExpire(k))

------------------------------------------------------------------------------
(* Properties.                                                             *)

Stale(k) == redis[k].value \notin {NoValue, bands[k]}

\* band_service.py:159: the cache is written before the commit and filled without a
\* lock, and yet it can disagree with the table only while a writer of the band is
\* open, or when, since the entry last expired, a write was rolled back, an upsert ran
\* at the same time as another request for the band, or a Redis call failed.
StaleHasExcuse ==
  \A k \in CacheKey :
    Stale(k) => \/ k \in excused
                \/ \E s \in Session : Active(s) /\ txn[s].key = k /\ txn[s].wrote

\* A lookup that found no band inserts the default, and never replaces a band that
\* an upsert or another lookup committed in the meantime (band_service.py:87).
LookupNeverOverwrites ==
  [][ \A k \in CacheKey : bands[k] # NoValue /\ bands'[k] # bands[k] =>
        \E s \in Session : /\ Active(s) /\ txn[s].key = k
                           /\ txn[s].op = "upsert" /\ txn'[s] = Idle ]_vars

\* Whatever made an entry of the server stale, it is gone in the end: every write of
\* a band carries an expiry (redis.py:126).
StaleEntryExpires == \A k \in CacheKey : Stale(k) ~> ~ Stale(k)
==============================================================================
