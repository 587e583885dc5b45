----------------------------- MODULE RedisManager -----------------------------
(***************************************************************************)
(* core/redis.py: one RedisManager per replica.  A call goes to the server *)
(* when the replica has a client; when the call fails, or there is no      *)
(* client, it goes to a dictionary of the process, in which nothing ever   *)
(* expires.  A first ping that fails leaves the replica in fallback mode   *)
(* for good.                                                               *)
(***************************************************************************)
CONSTANTS
  Replica,    \* processes of the service
  CacheKey,
  NoValue     \* no entry under a key

VARIABLES
  redis,      \* the server: per key, a value and whether it expires
  client,     \* per replica: "none", "pinging", "open" or "fallback"
  local       \* per replica, _in_memory_fallback

redisVars == <<redis, client, local>>

NoEntry == [ value |-> NoValue, expires |-> FALSE ]

NoLocal == [k \in CacheKey |-> NoValue]

RedisInit ==
  /\ redis = [k \in CacheKey |-> NoEntry]
  /\ client = [r \in Replica |-> "none"]
  /\ local = [r \in Replica |-> NoLocal]

\* get_client creates the client and stores it before it awaits the ping ...
Connect(r) ==
  /\ client[r] = "none"
  /\ client' = [client EXCEPT ![r] = "pinging"]
  /\ UNCHANGED <<redis, local>>

\* ... and a ping that fails takes it away again, for ever.
PingAnswers(r) ==
  /\ client[r] = "pinging"
  /\ \E outcome \in {"open", "fallback"} : client' = [client EXCEPT ![r] = outcome]
  /\ UNCHANGED <<redis, local>>

\* A client that is still pinging is used by everybody else.
HasClient(r) == client[r] \in {"pinging", "open"}

\* What get may return: the server's value, or the dictionary's when the call fails
\* or there is no client.
Answers(r, k) ==
  { local[r][k] } \cup (IF HasClient(r) THEN { redis[k].value } ELSE {})

\* Mutant of Stored: set without the expiry.
StoredForever(k, value) == [redis EXCEPT ![k] = [ value |-> value, expires |-> FALSE ]]

\* setex: the value, with its expiry.
Stored(k, value) == [redis EXCEPT ![k] = [ value |-> value, expires |-> TRUE ]]

\* set with an expiry.  A call may fail before or after the server has done it.
Put(r, k, value) ==
  /\ \/ HasClient(r) /\ redis' = Stored(k, value) /\ UNCHANGED local
     \/ HasClient(r) /\ redis' = Stored(k, value) /\ local' = [local EXCEPT ![r][k] = value]
     \/ UNCHANGED redis /\ local' = [local EXCEPT ![r][k] = value]
  /\ UNCHANGED client

\* The expiry is reached, or the server evicts the key (it runs with an LRU limit).
Expire(k) ==
  /\ redis[k].expires
  /\ redis' = [redis EXCEPT ![k] = NoEntry]
  /\ UNCHANGED <<client, local>>

\* The process is restarted: its client and its dictionary are gone.
RestartManager(r) ==
  /\ client' = [client EXCEPT ![r] = "none"]
  /\ local' = [local EXCEPT ![r] = NoLocal]
  /\ UNCHANGED redis
==============================================================================
