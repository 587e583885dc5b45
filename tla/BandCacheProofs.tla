---------------------------- MODULE BandCacheProofs ----------------------------
(***************************************************************************)
(* Proofs about the band cache, for any number of requests, replicas and   *)
(* bands: what the server serves is wrong only with an excuse, although    *)
(* the cache is filled without a lock and before the commit; and a lookup  *)
(* replaces no band.                                                       *)
(***************************************************************************)
EXTENDS BandCache, TLAPS

------------------------------------------------------------------------------
(* The inductive invariant.                                                *)

Stages == {"lookup", "select", "insert", "update", "store", "work"}

\* A request: what it has read is still what the table holds, or has an excuse; a
\* lookup that wrote a row wrote one the table does not have.
RequestOK(t) ==
  /\ t = [ pc |-> t.pc, op |-> t.op, replica |-> t.replica, key |-> t.key,
           band |-> t.band, wrote |-> t.wrote, pinging |-> t.pinging ]
  /\ t.pc \in Stages
  /\ t.key \in CacheKey
  /\ t.op \in {"lookup", "upsert"}
  /\ t.pc \notin {"lookup", "select"} \/ t.op = "upsert" => t.band \in Band
  /\ t.pc = "update" => t.op = "upsert"
  /\ t.wrote => t.pc \in {"store", "work"}
  /\ t.pc = "work" => t.wrote
  /\ t.wrote /\ t.op = "lookup" => bands[t.key] = NoValue
  /\ t.pc = "store" /\ ~ t.wrote => t.key \in excused \/ t.band = bands[t.key]
  /\ t.pc = "work" => t.key \in excused \/ redis[t.key].value \in {NoValue, t.band}

\* Two requests for one band: one writer, and an excuse if one is an upsert.
PairOK(t, u) ==
  t # Idle /\ u # Idle /\ t.key = u.key =>
    /\ ~ (t.wrote /\ u.wrote)
    /\ t.op = "upsert" \/ u.op = "upsert" => t.key \in excused

\* A stale entry is excused, or a writer that has stored it is about to commit.
EntryOK(k) ==
  Stale(k) => k \in excused \/ \E s \in Session : txn[s].pc = "work" /\ txn[s].key = k

CacheInv ==
  /\ redis = [k \in CacheKey |-> redis[k]]
  /\ bands \in [CacheKey -> Band \cup {NoValue}]
  /\ txn = [s \in Session |-> txn[s]]
  /\ \A s \in Session : txn[s] # Idle => RequestOK(txn[s])
  /\ \A s, t \in Session : s # t => PairOK(txn[s], txn[t])
  /\ \A k \in CacheKey : EntryOK(k)

LEMMA CacheInvInit == Init => CacheInv
<1>. SUFFICES ASSUME Init PROVE CacheInv
  OBVIOUS
<1>1. \A s \in Session : txn[s] = Idle
  BY DEF Init
<1>2. \A k \in CacheKey : redis[k].value = NoValue
  BY DEF Init, RedisInit, NoEntry
<1>. QED
  BY <1>1, <1>2 DEF Init, RedisInit, CacheInv, PairOK, EntryOK, Stale

LEMMA ActiveIsNotIdle ==
  ASSUME CacheInv, NEW s \in Session
  PROVE  Active(s) <=> txn[s] # Idle
BY DEF CacheInv, RequestOK, Active, Idle, Stages

\* Excuses once given stand.
LEMMA ExcusesStand ==
  ASSUME excused \subseteq excused', redis' = redis, bands' = bands
  PROVE  /\ \A t : RequestOK(t) => RequestOK(t)'
         /\ \A t, u : PairOK(t, u) => PairOK(t, u)'
         /\ \A k : Stale(k)' <=> Stale(k)
BY DEF RequestOK, PairOK, Stale

\* A step of one request that leaves the table and the server's entries alone.
LEMMA RequestMoves ==
  ASSUME CacheInv, NEW s \in Session, NEW u, txn' = [txn EXCEPT ![s] = u],
         redis' = redis, bands' = bands, excused \subseteq excused',
         u # Idle => RequestOK(u)',
         \A t \in Session \ {s} : PairOK(u, txn[t])' /\ PairOK(txn[t], u)',
         txn[s].pc = "work" =>
           (u.pc = "work" /\ u.key = txn[s].key) \/ txn[s].key \in excused'
  PROVE  CacheInv'
<1>1. /\ txn' = [t \in Session |-> txn'[t]]
      /\ txn'[s] = u
      /\ \A t \in Session \ {s} : txn'[t] = txn[t]
  BY DEF CacheInv
<1>2. ASSUME NEW t \in Session PROVE (txn[t] # Idle => RequestOK(txn[t]))'
  <2>1. PICK v : v = txn'[t]
    OBVIOUS
  <2>2. v # Idle => RequestOK(v)'
    BY <1>1, <2>1, ExcusesStand DEF CacheInv
  <2>. QED
    BY <2>1, <2>2
<1>3. ASSUME NEW t \in Session, NEW v \in Session, t # v PROVE PairOK(txn[t], txn[v])'
  <2>1. CASE t # s /\ v # s
    <3>1. PICK a, b : a = txn[t] /\ b = txn[v]
      OBVIOUS
    <3>2. PairOK(a, b)'
      BY <1>3, <3>1, ExcusesStand DEF CacheInv
    <3>. QED
      BY <1>1, <2>1, <3>1, <3>2
  <2>2. CASE t = s
    BY <1>1, <1>3, <2>2
  <2>3. CASE v = s
    BY <1>1, <1>3, <2>3
  <2>. QED
    BY <2>1, <2>2, <2>3
<1>4. ASSUME NEW k \in CacheKey PROVE EntryOK(k)'
  <2>1. Stale(k)' <=> Stale(k)
    BY ExcusesStand
  <2>2. ASSUME NEW t \in Session, txn[t].pc = "work", txn[t].key = k
        PROVE  (txn'[t].pc = "work" /\ txn'[t].key = k) \/ k \in excused'
    BY <1>1, <2>2
  <2>. QED
    BY <2>1, <2>2 DEF CacheInv, EntryOK
<1>. QED
  BY <1>1, <1>2, <1>3, <1>4 DEF CacheInv

\* A request that is over disturbs no other.
LEMMA IdlePairs == \A t : PairOK(Idle, t) /\ PairOK(t, Idle)
BY DEF PairOK

\* A new request: one that overlaps with another for its band, an upsert being one of
\* the two, is an excuse.
LEMMA BeginKeeps ==
  ASSUME CacheInv, NEW s \in Session, NEW r, NEW k \in CacheKey, NEW op \in {"lookup", "upsert"},
         NEW pc \in {"lookup", "select"}, NEW band, op = "upsert" => band \in Band,
         txn' = [txn EXCEPT ![s] = Begin(pc, op, r, k, band)],
         excused' = Overlap(s, k, op), ~ Active(s),
         redis' = redis, bands' = bands
  PROVE  CacheInv'
<1>1. PICK u : u = Begin(pc, op, r, k, band)
  OBVIOUS
<1>2. /\ u = [ pc |-> pc, op |-> op, replica |-> r, key |-> k, band |-> band,
               wrote |-> FALSE, pinging |-> FALSE ]
      /\ u.pc = pc /\ u.op = op /\ u.replica = r /\ u.key = k /\ u.band = band
      /\ u.wrote = FALSE /\ u.pinging = FALSE
  BY <1>1 DEF Begin
<1>3. u # Idle => RequestOK(u)'
  BY <1>2 DEF RequestOK, Stages
<1>4. ASSUME NEW t \in Session \ {s}, txn[t] # Idle, txn[t].key = k,
             op = "upsert" \/ txn[t].op = "upsert"
      PROVE  k \in excused'
  BY <1>4, ActiveIsNotIdle DEF Overlap
<1>5. \A t \in Session \ {s} : PairOK(u, txn[t])' /\ PairOK(txn[t], u)'
  <2>. SUFFICES ASSUME NEW t \in Session \ {s}
                PROVE  PairOK(u, txn[t])' /\ PairOK(txn[t], u)'
    OBVIOUS
  <2>1. txn'[t] = txn[t]
    BY DEF CacheInv
  <2>. QED
    BY <1>2, <1>4, <2>1 DEF PairOK
<1>6. excused \subseteq excused'
  BY DEF Overlap
<1>7. txn[s].pc # "work"
  BY DEF Active
<1>8. txn' = [txn EXCEPT ![s] = u]
  BY <1>1
<1>. QED
  BY <1>3, <1>5, <1>6, <1>7, <1>8, RequestMoves

------------------------------------------------------------------------------
(* The statements of a request.                                            *)

\* A statement that changes nothing of a request but its stage, its band, its write or
\* its ping.
LEMMA StatementKeeps ==
  ASSUME CacheInv, NEW s \in Session, txn[s] # Idle, NEW u,
         txn' = [txn EXCEPT ![s] = u],
         redis' = redis, bands' = bands, excused' = excused,
         RequestOK(u), u.op = txn[s].op, u.key = txn[s].key,
         u.wrote => txn[s].wrote \/ ~ Locked(s),
         txn[s].pc = "work" => u.pc = "work"
  PROVE  CacheInv'
<1>1. RequestOK(u)'
  BY DEF RequestOK
<1>2. ASSUME NEW t \in Session \ {s} PROVE PairOK(u, txn[t])' /\ PairOK(txn[t], u)'
  <2>1. txn'[t] = txn[t] /\ PairOK(txn[s], txn[t]) /\ PairOK(txn[t], txn[s])
    BY DEF CacheInv
  <2>2. txn[t] # Idle /\ txn[t].key = u.key => ~ (u.wrote /\ txn[t].wrote)
    BY <2>1, ActiveIsNotIdle DEF PairOK, Locked, Others
  <2>. QED
    BY <2>1, <2>2 DEF PairOK
<1>. QED
  BY <1>1, <1>2, RequestMoves

\* A request that ends without a commit; unless it has stored a band, no excuse is
\* needed.
LEMMA EndKeeps ==
  ASSUME CacheInv, NEW s \in Session, txn' = [txn EXCEPT ![s] = Idle],
         redis' = redis, bands' = bands, excused \subseteq excused',
         txn[s].pc = "work" => txn[s].key \in excused'
  PROVE  CacheInv'
<1>1. PICK u : u = Idle
  OBVIOUS
<1>2. \A t \in Session \ {s} : PairOK(u, txn[t])' /\ PairOK(txn[t], u)'
  BY <1>1 DEF PairOK
<1>3. txn' = [txn EXCEPT ![s] = u]
  BY <1>1
<1>. QED
  BY <1>1, <1>2, <1>3, RequestMoves

LEMMA PingKeeps ==
  ASSUME CacheInv, NEW s \in Session, OpenClient(s) \/ ClientPinged(s)
  PROVE  CacheInv'
<1>. DEFINE t == txn[s]
<1>1. t # Idle
  BY DEF OpenClient, ClientPinged, Idle, Active
<1>2. RequestOK(t)
  BY <1>1 DEF CacheInv
<1>3. PICK b : txn' = [txn EXCEPT ![s].pinging = b]
  BY DEF OpenClient, ClientPinged
<1>4. PICK u : u = [ pc |-> t.pc, op |-> t.op, replica |-> t.replica, key |-> t.key,
                     band |-> t.band, wrote |-> t.wrote, pinging |-> b ]
  OBVIOUS
<1>5. [t EXCEPT !.pinging = b] = u
  BY <1>2, <1>4 DEF RequestOK
<1>6. txn' = [txn EXCEPT ![s] = u]
  BY <1>3, <1>5
<1>7. /\ u.pc = t.pc /\ u.op = t.op /\ u.replica = t.replica /\ u.key = t.key
      /\ u.band = t.band /\ u.wrote = t.wrote
      /\ u = [ pc |-> u.pc, op |-> u.op, replica |-> u.replica, key |-> u.key,
               band |-> u.band, wrote |-> u.wrote, pinging |-> u.pinging ]
  BY <1>4
<1>8. RequestOK(u)
  BY <1>2, <1>7 DEF RequestOK
<1>9. UNCHANGED <<redis, bands, excused>>
  BY DEF OpenClient, ClientPinged, Connect, PingAnswers
<1>. QED
  BY <1>1, <1>6, <1>7, <1>8, <1>9, StatementKeeps

LEMMA LookupKeeps ==
  ASSUME CacheInv, NEW s \in Session, Lookup(s)
  PROVE  CacheInv'
<1>. DEFINE t == txn[s]
<1>1. t # Idle /\ t.pc = "lookup"
  BY DEF Lookup, Idle
<1>2. RequestOK(t)
  BY <1>1 DEF CacheInv
<1>3. UNCHANGED <<redis, bands, excused>>
  BY DEF Lookup, redisVars
<1>4. CASE txn' = [txn EXCEPT ![s] = Idle]
  BY <1>1, <1>3, <1>4, EndKeeps
<1>5. CASE txn' = [txn EXCEPT ![s] = [t EXCEPT !.pc = "select"]]
  <2>1. PICK u : u = [ pc |-> "select", op |-> t.op, replica |-> t.replica, key |-> t.key,
                       band |-> t.band, wrote |-> t.wrote, pinging |-> t.pinging ]
    OBVIOUS
  <2>2. [t EXCEPT !.pc = "select"] = u
    BY <1>2, <2>1 DEF RequestOK
  <2>3. txn' = [txn EXCEPT ![s] = u]
    BY <1>5, <2>2
  <2>4. /\ u.pc = "select" /\ u.op = t.op /\ u.replica = t.replica /\ u.key = t.key
        /\ u.band = t.band /\ u.wrote = t.wrote
        /\ u = [ pc |-> u.pc, op |-> u.op, replica |-> u.replica, key |-> u.key,
                 band |-> u.band, wrote |-> u.wrote, pinging |-> u.pinging ]
    BY <2>1
  <2>5. RequestOK(u)
    BY <1>1, <1>2, <2>4 DEF RequestOK, Stages
  <2>. QED
    BY <1>1, <1>3, <2>3, <2>4, <2>5, StatementKeeps
<1>. QED
  BY <1>4, <1>5 DEF Lookup

\* The SELECT: what it reads is what the table holds.
LEMMA SelectKeeps ==
  ASSUME CacheInv, NEW s \in Session, Select(s)
  PROVE  CacheInv'
<1>. DEFINE t == txn[s]
<1>1. t # Idle /\ t.pc = "select"
  BY DEF Select, Idle
<1>2. RequestOK(t)
  BY <1>1 DEF CacheInv
<1>3. UNCHANGED <<redis, bands, excused>>
  BY DEF Select, redisVars
<1>4. PICK band, pc :
        /\ band = IF t.op = "upsert" THEN t.band
                  ELSE IF bands[t.key] = NoValue THEN DefaultBand(t.key) ELSE bands[t.key]
        /\ pc = IF band = bands[t.key] THEN "store"
                ELSE IF bands[t.key] = NoValue THEN "insert" ELSE "update"
        /\ txn' = [txn EXCEPT ![s].pc = pc, ![s].band = band]
  BY DEF Select
<1>5. PICK u : u = [ pc |-> pc, op |-> t.op, replica |-> t.replica, key |-> t.key,
                     band |-> band, wrote |-> t.wrote, pinging |-> t.pinging ]
  OBVIOUS
<1>6. txn' = [txn EXCEPT ![s] = u]
  <2>1. PICK v : v = [ pc |-> pc, op |-> t.op, replica |-> t.replica, key |-> t.key,
                       band |-> t.band, wrote |-> t.wrote, pinging |-> t.pinging ]
    OBVIOUS
  <2>2. [t EXCEPT !.pc = pc] = v
    BY <1>2, <2>1 DEF RequestOK
  <2>3. [v EXCEPT !.band = band] = u
    BY <1>5, <2>1
  <2>4. txn = [x \in Session |-> txn[x]]
    BY DEF CacheInv
  <2>5. [txn EXCEPT ![s].pc = pc] = [txn EXCEPT ![s] = v]
    BY <2>2
  <2>6. [[txn EXCEPT ![s] = v] EXCEPT ![s].band = band] = [txn EXCEPT ![s] = u]
    BY <2>3, <2>4
  <2>. QED
    BY <1>4, <2>5, <2>6
<1>7. /\ u.pc = pc /\ u.op = t.op /\ u.replica = t.replica /\ u.key = t.key
      /\ u.band = band /\ u.wrote = t.wrote
      /\ u = [ pc |-> u.pc, op |-> u.op, replica |-> u.replica, key |-> u.key,
               band |-> u.band, wrote |-> u.wrote, pinging |-> u.pinging ]
  BY <1>5
<1>8. band \in Band
  BY <1>2, <1>4, BandAssumption DEF RequestOK, CacheInv
<1>9. RequestOK(u)
  BY <1>1, <1>2, <1>4, <1>7, <1>8 DEF RequestOK, Stages
<1>. QED
  BY <1>1, <1>3, <1>6, <1>7, <1>9, StatementKeeps

\* The flush: the writer's lock keeps other writers out, and a lookup that gets to write
\* found no row.
LEMMA WriteKeeps ==
  ASSUME CacheInv, NEW s \in Session, Write(s)
  PROVE  CacheInv'
<1>. DEFINE t == txn[s]
<1>1. t # Idle /\ t.pc \in {"insert", "update"} /\ ~ Locked(s)
  BY DEF Write, Idle
<1>2. RequestOK(t)
  BY <1>1 DEF CacheInv
<1>3. UNCHANGED <<redis, bands, excused>>
  BY DEF Write, redisVars
<1>4. CASE txn' = [txn EXCEPT ![s] = Idle]
  BY <1>1, <1>3, <1>4, EndKeeps
<1>5. CASE /\ \E b : b /\ txn' = [txn EXCEPT ![s] = [t EXCEPT !.pc = "store", !.wrote = b]]
           /\ t.pc = "insert" => bands[t.key] = NoValue
  <2>1. PICK b : b /\ txn' = [txn EXCEPT ![s] = [t EXCEPT !.pc = "store", !.wrote = b]]
    BY <1>5
  <2>2. PICK u : u = [ pc |-> "store", op |-> t.op, replica |-> t.replica, key |-> t.key,
                       band |-> t.band, wrote |-> b, pinging |-> t.pinging ]
    OBVIOUS
  <2>3. [t EXCEPT !.pc = "store", !.wrote = b] = u
    <3>1. t = [ pc |-> t.pc, op |-> t.op, replica |-> t.replica, key |-> t.key,
                band |-> t.band, wrote |-> t.wrote, pinging |-> t.pinging ]
      BY <1>2 DEF RequestOK
    <3>2. PICK v : v = [ pc |-> "store", op |-> t.op, replica |-> t.replica, key |-> t.key,
                         band |-> t.band, wrote |-> t.wrote, pinging |-> t.pinging ]
      OBVIOUS
    <3>3. [t EXCEPT !.pc = "store"] = v
      BY <3>1, <3>2
    <3>4. [v EXCEPT !.wrote = b] = u
      BY <2>2, <3>2
    <3>. QED
      BY <3>3, <3>4
  <2>4. txn' = [txn EXCEPT ![s] = u]
    BY <2>1, <2>3
  <2>5. /\ u.pc = "store" /\ u.op = t.op /\ u.replica = t.replica /\ u.key = t.key
        /\ u.band = t.band /\ u.wrote
        /\ u = [ pc |-> u.pc, op |-> u.op, replica |-> u.replica, key |-> u.key,
                 band |-> u.band, wrote |-> u.wrote, pinging |-> u.pinging ]
    BY <2>1, <2>2
  <2>6. RequestOK(u)
    BY <1>1, <1>2, <1>5, <2>5 DEF RequestOK, Stages
  <2>. QED
    BY <1>1, <1>3, <2>4, <2>5, <2>6, StatementKeeps
<1>. QED
  BY <1>4, <1>5 DEF Write

\* What the server has after a store: the band, or an excuse.
LEMMA StorePuts ==
  ASSUME CacheInv, NEW s \in Session, Store(s)
  PROVE  /\ redis' = [k \in CacheKey |-> redis'[k]]
         /\ \A k \in CacheKey \ {txn[s].key} : redis'[k] = redis[k]
         /\ redis'[txn[s].key].value = txn[s].band \/ txn[s].key \in excused'
         /\ excused \subseteq excused'
<1>1. redis' = redis \/ redis' = Stored(txn[s].key, txn[s].band)
  BY DEF Store, Put
<1>2. redis = [k \in CacheKey |-> redis[k]]
  BY DEF CacheInv
<1>3. /\ redis' = [k \in CacheKey |-> redis'[k]]
      /\ \A k \in CacheKey \ {txn[s].key} : redis'[k] = redis[k]
  BY <1>1, <1>2 DEF Stored
<1>. QED
  BY <1>3 DEF Store, Unrefreshed

\* Storing a band: a request that wrote no row stores what the table holds or has an
\* excuse, so it spoils nothing for a writer of the row.
LEMMA StoreKeeps ==
  ASSUME CacheInv, NEW s \in Session, Store(s)
  PROVE  CacheInv'
<1>. DEFINE t == txn[s]
<1>1. t # Idle /\ t.pc = "store"
  BY DEF Store, Idle
<1>2. RequestOK(t)
  BY <1>1 DEF CacheInv
<1>3. PICK k : k = t.key
  OBVIOUS
<1>4. /\ redis' = [j \in CacheKey |-> redis'[j]]
      /\ \A j \in CacheKey \ {k} : redis'[j] = redis[j]
      /\ redis'[k].value = t.band \/ k \in excused'
      /\ excused \subseteq excused'
      /\ bands' = bands
      /\ k \in CacheKey /\ t.band \in Band
  BY <1>1, <1>2, <1>3, StorePuts DEF Store, RequestOK
<1>5. PICK u : /\ txn' = [txn EXCEPT ![s] = u]
               /\ t.wrote => /\ u # Idle /\ RequestOK(u)'
                             /\ u.pc = "work" /\ u.op = t.op /\ u.key = k /\ u.wrote
               /\ ~ t.wrote => u = Idle
  <2>1. CASE t.wrote
    <3>1. PICK u : u = [ pc |-> "work", op |-> t.op, replica |-> t.replica, key |-> t.key,
                         band |-> t.band, wrote |-> t.wrote, pinging |-> t.pinging ]
      OBVIOUS
    <3>2. [t EXCEPT !.pc = "work"] = u
      BY <1>2, <3>1 DEF RequestOK
    <3>3. txn' = [txn EXCEPT ![s] = u]
      BY <2>1, <3>2 DEF Store, Cached
    <3>4. /\ u.pc = "work" /\ u.op = t.op /\ u.replica = t.replica /\ u.key = t.key
          /\ u.band = t.band /\ u.wrote
          /\ u = [ pc |-> u.pc, op |-> u.op, replica |-> u.replica, key |-> u.key,
                   band |-> u.band, wrote |-> u.wrote, pinging |-> u.pinging ]
      BY <2>1, <3>1
    <3>5. RequestOK(u)'
      BY <1>2, <1>3, <1>4, <2>1, <3>4 DEF RequestOK, Stages
    <3>6. u # Idle
      BY <3>4 DEF Idle
    <3>. QED
      BY <1>3, <2>1, <3>3, <3>4, <3>5, <3>6
  <2>2. CASE ~ t.wrote
    BY <2>2 DEF Store, Cached
  <2>. QED
    BY <2>1, <2>2
<1>6. /\ txn' = [x \in Session |-> txn'[x]]
      /\ txn'[s] = u
      /\ \A x \in Session \ {s} : txn'[x] = txn[x]
  BY <1>5 DEF CacheInv
<1>7. ~ t.wrote => k \in excused \/ (bands[k] \in Band /\ t.band = bands[k])
  BY <1>1, <1>2, <1>3, <1>4 DEF RequestOK
<1>8. ASSUME NEW x \in Session \ {s}, NEW v, v = txn[x], v # Idle PROVE RequestOK(v)'
  <2>1. RequestOK(v)
    BY <1>8 DEF CacheInv
  <2>2. CASE v.pc = "work" /\ v.key = k
    <3>1. PairOK(v, t)
      BY <1>8 DEF CacheInv
    <3>2. v.wrote /\ ~ t.wrote /\ (v.op = "upsert" => k \in excused)
      BY <1>1, <1>3, <1>8, <2>1, <2>2, <3>1 DEF RequestOK, PairOK
    <3>3. k \in excused
      BY <1>7, <2>1, <2>2, <3>2, BandAssumption DEF RequestOK
    <3>. QED
      BY <1>4, <2>1, <2>2, <3>3 DEF RequestOK
  <2>3. CASE ~ (v.pc = "work" /\ v.key = k)
    BY <1>4, <2>1, <2>3 DEF RequestOK
  <2>. QED
    BY <2>2, <2>3
<1>9. ASSUME NEW x \in Session PROVE (txn[x] # Idle => RequestOK(txn[x]))'
  <2>1. PICK v : v = txn'[x]
    OBVIOUS
  <2>2. v # Idle => RequestOK(v)'
    BY <1>5, <1>6, <1>8, <2>1
  <2>. QED
    BY <2>1, <2>2
<1>10. ASSUME NEW x \in Session, NEW y \in Session, x # y PROVE PairOK(txn[x], txn[y])'
  <2>1. PICK a, b : a = txn[x] /\ b = txn[y]
    OBVIOUS
  <2>2. PairOK(a, b)
    BY <1>10, <2>1 DEF CacheInv
  <2>3. PairOK(a, b)'
    BY <1>4, <2>2 DEF PairOK
  <2>4. PICK c, d : c = txn'[x] /\ d = txn'[y]
    OBVIOUS
  <2>5. PairOK(c, d)'
    <3>1. CASE x # s /\ y # s
      BY <1>6, <2>1, <2>3, <2>4, <3>1
    <3>2. CASE x = s
      <4>1. c = u /\ a = t /\ d = b
        BY <1>6, <1>10, <2>1, <2>4, <3>2
      <4>. QED
        BY <1>1, <1>3, <1>5, <2>3, <4>1 DEF PairOK
    <3>3. CASE y = s
      <4>1. d = u /\ b = t /\ c = a
        BY <1>6, <1>10, <2>1, <2>4, <3>3
      <4>. QED
        BY <1>1, <1>3, <1>5, <2>3, <4>1 DEF PairOK
    <3>. QED
      BY <3>1, <3>2, <3>3
  <2>. QED
    BY <2>4, <2>5
<1>11. ASSUME NEW j \in CacheKey PROVE EntryOK(j)'
  <2>1. CASE j # k
    <3>1. Stale(j)' <=> Stale(j)
      BY <1>4, <2>1 DEF Stale
    <3>2. ASSUME NEW x \in Session, txn[x].pc = "work", txn[x].key = j
          PROVE  txn'[x].pc = "work" /\ txn'[x].key = j
      BY <1>3, <1>6, <2>1, <3>2
    <3>. QED
      BY <1>4, <3>1, <3>2 DEF CacheInv, EntryOK
  <2>2. CASE j = k /\ t.wrote
    BY <1>5, <1>6, <2>2 DEF EntryOK
  <2>3. CASE j = k /\ ~ t.wrote
    BY <1>4, <1>7, <2>3 DEF EntryOK, Stale
  <2>. QED
    BY <2>1, <2>2, <2>3
<1>. QED
  BY <1>4, <1>6, <1>9, <1>10, <1>11 DEF CacheInv

------------------------------------------------------------------------------
(* The commit, and the steps that end requests from outside.               *)

\* A commit replaces what a lookup that is about to store has read only where an upsert
\* takes part: a lookup commits a row the table did not have.
LEMMA CommitKeeps ==
  ASSUME CacheInv, NEW s \in Session, Commit(s)
  PROVE  CacheInv'
<1>. DEFINE t == txn[s]
<1>1. t # Idle /\ t.pc = "work"
  BY DEF Commit, Idle
<1>2. RequestOK(t)
  BY <1>1 DEF CacheInv
<1>3. PICK k : k = t.key
  OBVIOUS
<1>4. /\ bands' \in [CacheKey -> Band \cup {NoValue}]
      /\ bands'[k] = t.band
      /\ \A j \in CacheKey \ {k} : bands'[j] = bands[j]
      /\ redis' = redis /\ excused' = excused
      /\ k \in CacheKey /\ t.band \in Band /\ t.wrote
  BY <1>1, <1>2, <1>3 DEF Commit, redisVars, RequestOK, CacheInv
<1>5. /\ txn' = [x \in Session |-> txn'[x]]
      /\ txn'[s] = Idle
      /\ \A x \in Session \ {s} : txn'[x] = txn[x]
  BY DEF Commit, CacheInv
<1>6. ASSUME NEW x \in Session \ {s}, NEW v, v = txn[x], v # Idle PROVE RequestOK(v)'
  <2>1. RequestOK(v) /\ PairOK(v, t)
    BY <1>6 DEF CacheInv
  <2>2. CASE v.key = k
    <3>1. ~ v.wrote /\ (t.op = "upsert" => k \in excused)
      BY <1>1, <1>3, <1>4, <1>6, <2>1, <2>2 DEF PairOK
    <3>2. t.op # "upsert" => bands[k] = NoValue
      BY <1>2, <1>3, <1>4 DEF RequestOK
    <3>3. v.pc = "store" => k \in excused
      BY <2>1, <2>2, <3>1, <3>2, BandAssumption DEF RequestOK
    <3>. QED
      BY <1>4, <2>1, <2>2, <3>1, <3>3 DEF RequestOK
  <2>3. CASE v.key # k
    <3>1. bands'[v.key] = bands[v.key]
      BY <1>4, <2>1, <2>3 DEF RequestOK
    <3>. QED
      BY <1>4, <2>1, <3>1 DEF RequestOK
  <2>. QED
    BY <2>2, <2>3
<1>7. ASSUME NEW x \in Session PROVE (txn[x] # Idle => RequestOK(txn[x]))'
  <2>1. PICK v : v = txn'[x]
    OBVIOUS
  <2>2. v # Idle => RequestOK(v)'
    BY <1>5, <1>6, <2>1
  <2>. QED
    BY <2>1, <2>2
<1>8. ASSUME NEW x \in Session, NEW y \in Session, x # y PROVE PairOK(txn[x], txn[y])'
  <2>1. PICK a, b : a = txn'[x] /\ b = txn'[y]
    OBVIOUS
  <2>2. PairOK(a, b)
    BY <1>5, <1>8, <2>1, IdlePairs DEF CacheInv
  <2>3. PairOK(a, b)'
    BY <1>4, <2>2 DEF PairOK
  <2>. QED
    BY <2>1, <2>3
<1>9. ASSUME NEW j \in CacheKey PROVE EntryOK(j)'
  <2>1. CASE j = k
    BY <1>1, <1>2, <1>3, <1>4, <2>1 DEF RequestOK, EntryOK, Stale
  <2>2. CASE j # k
    <3>1. Stale(j)' <=> Stale(j)
      BY <1>4, <2>2 DEF Stale
    <3>2. ASSUME NEW x \in Session, txn[x].pc = "work", txn[x].key = j
          PROVE  txn'[x].pc = "work" /\ txn'[x].key = j
      BY <1>3, <1>5, <2>2, <3>2
    <3>. QED
      BY <1>4, <3>1, <3>2 DEF CacheInv, EntryOK
  <2>. QED
    BY <2>1, <2>2
<1>. QED
  BY <1>4, <1>5, <1>7, <1>8, <1>9 DEF CacheInv

LEMMA AbortKeeps ==
  ASSUME CacheInv, NEW s \in Session, Abort(s)
  PROVE  CacheInv'
BY EndKeeps DEF Abort, redisVars

\* A restart ends all requests of a replica at once; those that had stored a band are
\* excuses.
LEMMA RestartKeeps ==
  ASSUME CacheInv, NEW r \in Replica, Restart(r)
  PROVE  CacheInv'
<1>1. redis' = redis /\ bands' = bands /\ excused \subseteq excused'
  BY DEF Restart, RestartManager
<1>2. /\ txn' = [s \in Session |-> txn'[s]]
      /\ \A s \in Session : txn'[s] = Idle \/ txn'[s] = txn[s]
  BY DEF Restart
<1>3. ASSUME NEW s \in Session, txn'[s] # txn[s], txn[s].pc = "work"
      PROVE  txn[s].key \in excused'
  BY <1>3 DEF Restart
<1>4. ASSUME NEW s \in Session PROVE (txn[s] # Idle => RequestOK(txn[s]))'
  <2>1. PICK v : v = txn'[s]
    OBVIOUS
  <2>2. v # Idle => RequestOK(v)'
    BY <1>1, <1>2, <2>1, ExcusesStand DEF CacheInv
  <2>. QED
    BY <2>1, <2>2
<1>5. ASSUME NEW s \in Session, NEW t \in Session, s # t PROVE PairOK(txn[s], txn[t])'
  <2>1. PICK a, b : a = txn'[s] /\ b = txn'[t]
    OBVIOUS
  <2>2. PairOK(a, b)
    BY <1>2, <1>5, <2>1, IdlePairs DEF CacheInv
  <2>3. PairOK(a, b)'
    BY <1>1, <2>2, ExcusesStand
  <2>. QED
    BY <2>1, <2>3
<1>6. ASSUME NEW k \in CacheKey PROVE EntryOK(k)'
  <2>1. Stale(k)' <=> Stale(k)
    BY <1>1, ExcusesStand
  <2>2. ASSUME NEW s \in Session, txn[s].pc = "work", txn[s].key = k
        PROVE  (txn'[s].pc = "work" /\ txn'[s].key = k) \/ k \in excused'
    BY <1>3, <2>2
  <2>. QED
    BY <1>1, <2>1, <2>2 DEF CacheInv, EntryOK
<1>. QED
  BY <1>1, <1>2, <1>4, <1>5, <1>6 DEF CacheInv

\* An entry expires; its excuse goes with it once no request for its band is left.
LEMMA ExpireKeeps ==
  ASSUME CacheInv, NEW k \in CacheKey, CacheExpire(k)
  PROVE  CacheInv'
<1>1. /\ redis' = [j \in CacheKey |-> redis'[j]]
      /\ redis'[k].value = NoValue
      /\ \A j \in CacheKey \ {k} : redis'[j] = redis[j]
      /\ bands' = bands /\ txn' = txn
  BY DEF CacheExpire, Expire, NoEntry, CacheInv
<1>2. \A s \in Session : txn[s] # Idle /\ txn[s].key \in excused => txn[s].key \in excused'
  BY ActiveIsNotIdle DEF CacheExpire
<1>3. \A j \in CacheKey \ {k} : j \in excused => j \in excused'
  BY DEF CacheExpire
<1>4. ASSUME NEW s \in Session PROVE (txn[s] # Idle => RequestOK(txn[s]))'
  <2>1. PICK v : v = txn[s]
    OBVIOUS
  <2>2. ASSUME v # Idle PROVE RequestOK(v)'
    <3>1. RequestOK(v) /\ (v.key \in excused => v.key \in excused')
      BY <1>2, <2>1, <2>2 DEF CacheInv
    <3>2. redis'[v.key].value = NoValue \/ redis'[v.key] = redis[v.key]
      BY <1>1, <3>1 DEF RequestOK
    <3>. QED
      BY <1>1, <3>1, <3>2 DEF RequestOK
  <2>. QED
    BY <1>1, <2>1, <2>2
<1>5. ASSUME NEW s \in Session, NEW t \in Session, s # t PROVE PairOK(txn[s], txn[t])'
  <2>1. PICK a, b : a = txn[s] /\ b = txn[t]
    OBVIOUS
  <2>2. PairOK(a, b) /\ (a # Idle /\ a.key \in excused => a.key \in excused')
    BY <1>2, <1>5, <2>1 DEF CacheInv
  <2>3. PairOK(a, b)'
    BY <2>2 DEF PairOK
  <2>. QED
    BY <1>1, <2>1, <2>3
<1>6. ASSUME NEW j \in CacheKey PROVE EntryOK(j)'
  <2>1. CASE j = k
    BY <1>1, <2>1 DEF EntryOK, Stale
  <2>2. CASE j # k
    BY <1>1, <1>3, <2>2 DEF CacheInv, EntryOK, Stale
  <2>. QED
    BY <2>1, <2>2
<1>. QED
  BY <1>1, <1>4, <1>5, <1>6 DEF CacheInv

LEMMA CacheInvStep == CacheInv /\ [Next]_vars => CacheInv'
<1>. SUFFICES ASSUME CacheInv, [Next]_vars PROVE CacheInv'
  OBVIOUS
<1>1. ASSUME NEW s \in Session, NEW r \in Replica, NEW k \in CacheKey, BeginLookup(s, r, k)
      PROVE  CacheInv'
  <2>1. /\ txn' = [txn EXCEPT ![s] = Begin("lookup", "lookup", r, k, NoValue)]
        /\ excused' = Overlap(s, k, "lookup") /\ ~ Active(s)
        /\ redis' = redis /\ bands' = bands
    BY <1>1 DEF BeginLookup, redisVars
  <2>. QED
    BY <2>1, BeginKeeps
<1>2. ASSUME NEW s \in Session, NEW r \in Replica, NEW k \in CacheKey, NEW band \in Band,
             BeginUpsert(s, r, k, band)
      PROVE  CacheInv'
  <2>1. /\ txn' = [txn EXCEPT ![s] = Begin("select", "upsert", r, k, band)]
        /\ excused' = Overlap(s, k, "upsert") /\ ~ Active(s)
        /\ redis' = redis /\ bands' = bands
    BY <1>2 DEF BeginUpsert, redisVars
  <2>. QED
    BY <2>1, BeginKeeps
<1>3. ASSUME NEW s \in Session, Step(s) PROVE CacheInv'
  BY <1>3, PingKeeps, LookupKeeps, SelectKeeps, WriteKeeps, StoreKeeps, CommitKeeps DEF Step
<1>4. CASE UNCHANGED vars
  <2>1. /\ redis' = redis /\ bands' = bands /\ excused' = excused /\ txn' = txn
    BY <1>4 DEF vars
  <2>. QED
    BY <2>1 DEF CacheInv, RequestOK, PairOK, EntryOK, Stale
<1>. QED
  BY <1>1, <1>2, <1>3, <1>4, AbortKeeps, RestartKeeps, ExpireKeeps DEF Next

\* However lookups, upserts, failing calls, rollbacks, restarts and expiries interleave:
\* what a request has read, and what the server serves, is right or has an excuse.
THEOREM CacheInvariant == Spec => []CacheInv
BY CacheInvInit, CacheInvStep, PTL DEF Spec

\* The cache is written before the commit and filled without a lock
\* (band_service.py:159), and yet for any number of requests and replicas a band is
\* served stale only while its writer is open or with one of the excuses.
THEOREM StaleIsExcused == Spec => []StaleHasExcuse
<1>1. CacheInv => StaleHasExcuse
  <2>. SUFFICES ASSUME CacheInv, NEW k \in CacheKey, Stale(k), k \notin excused
                PROVE  \E s \in Session : Active(s) /\ txn[s].key = k /\ txn[s].wrote
    BY DEF StaleHasExcuse
  <2>1. PICK s \in Session : txn[s].pc = "work" /\ txn[s].key = k
    BY DEF CacheInv, EntryOK
  <2>2. txn[s] # Idle
    BY <2>1 DEF Idle
  <2>. QED
    BY <2>1, <2>2, ActiveIsNotIdle DEF CacheInv, RequestOK
<1>. QED
  BY <1>1, CacheInvariant, PTL

\* A lookup that inserts a default band replaces none (band_service.py:87): only the
\* commit of an upsert changes a band that is there.
THEOREM LookupsReplaceNothing == Spec => LookupNeverOverwrites
<1>1. ASSUME CacheInv, Next, NEW k \in CacheKey, bands[k] # NoValue, bands'[k] # bands[k]
      PROVE  \E s \in Session : /\ Active(s) /\ txn[s].key = k
                                /\ txn[s].op = "upsert" /\ txn'[s] = Idle
  <2>1. PICK s \in Session : Commit(s)
    BY <1>1 DEF Next, BeginLookup, BeginUpsert, Step, OpenClient, ClientPinged, Lookup, Select,
                Write, Store, Abort, Restart, CacheExpire
  <2>2. txn[s].key = k /\ txn'[s] = Idle /\ txn[s].pc = "work"
    BY <1>1, <2>1 DEF Commit, CacheInv
  <2>3. txn[s] # Idle
    BY <2>2 DEF Idle
  <2>4. RequestOK(txn[s])
    BY <1>1, <2>3 DEF CacheInv
  <2>5. txn[s].op = "upsert"
    BY <1>1, <2>2, <2>4 DEF RequestOK
  <2>. QED
    BY <1>1, <2>2, <2>3, <2>5, ActiveIsNotIdle
<1>2. CacheInv /\ [Next]_vars =>
        [ \A k \in CacheKey : bands[k] # NoValue /\ bands'[k] # bands[k] =>
            \E s \in Session : /\ Active(s) /\ txn[s].key = k
                               /\ txn[s].op = "upsert" /\ txn'[s] = Idle ]_vars
  BY <1>1
<1>. QED
  BY <1>2, CacheInvariant, PTL DEF Spec, LookupNeverOverwrites
================================================================================
