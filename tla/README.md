# A TLA+ model of comp-flow-platform

comp-flow-platform runs merit cycles and candidate offers: managers propose, a
deterministic agent audits, a VP approves exceptions, HR finalizes, and every
decision is recorded twice, in `audit_logs` and in a hash-chained SOX ledger.
Market benchmarks are ingested from wage disclosures and looked up through a cache.
The service is a set of FastAPI replicas over PostgreSQL and Redis. Each request
is one database transaction at READ COMMITTED (`core/database.py`, `get_db`):
committed when the handler returns, rolled back when it raises. No statement
takes a lock explicitly, no row carries a version, and nothing is retried.

Paths below are relative to `src/src/comp_flow/` unless they start with `docs/`.

## Inventory

| part | state | operations | what is hard | what makes it correct |
|---|---|---|---|---|
| SOX ledger, `core/ledger.py` | `sox_audit_ledger`, by `sequence_id` | `record_entry` (SELECT the last block, then INSERT the next), `verify_chain` | two appenders read the same head; blocks of one transaction must stay together; rollback between blocks; UPDATEs behind the application's back | the committed table is one chain without gaps or forks; it is only appended to; a transaction's entries appear together or not at all; an altered row is reported |
| State machines, `domain/state_machine.py` | none | `can_transition`, `transition` | | the tables are what the handlers obey |
| Merit cycle, `service/cycle_service.py` | `compensation_cycles`, `employee_reviews`, `employees`, `audit_logs` | `create_cycle`, `create_proposal`, `audit_proposal`, `batch_audit_cycle`, `approve_proposal`, `finalize_cycle`, `get_department_budget_rollup` | status read and later overwritten by primary key; two SELECTs of `finalize_cycle` see different moments; batches take many row locks and the ledger key; proposals keep the salary and the level of another day | both logs agree with each other and with the status; pay only with an approval; FINALIZED is final; each grant applied once; what was audited still holds when it is paid |
| Offers, `service/offer_service.py` | `candidate_offers`, `audit_logs` | `create_offer`, `audit_offer`, `approve_offer`, `extend_offer`, `record_candidate_decision` | accept against rescind; random offer numbers; audits in flight while letters go out | unique numbers; the log accounts for the status; no letter without an approval |
| Salary bands, `service/band_service.py`, `core/redis.py` | `salary_bands`, a Redis key per band, a dictionary per process | `get_band`, `upsert_band`, `RedisManager` | cache written before the commit, stale fill, fallback without expiry, first ping | the cache disagrees with the table only for known reasons and not for ever |
| Policy rules, `tools/registry.py`, `agent/orchestrator.py` | none | rules on fixed-point figures, the decision | boundaries, rounding | what passes alone is inside the published limits |
| Workflow engine, `service/workflow_engine.py` | a dictionary of proposals | register, audit, approve, finalize | re-registration of a decided proposal | the verdict explains the status |
| Negotiation, `service/negotiation_service.py` | none | simulate, recommend a counter | three raises computed one without the other | following the advice settles; only offers inside the caps pass the agent |
| Triage and analytics, `service/tse_triage.py`, `service/analytics_service.py` | none | root cause of a review, spend and distribution of a cycle | judged by the bands of today | the reports agree with the audit, with each other and with what is paid |
| Benchmark ETL, `etl/` | `market_benchmarks` | parse, normalise, prune, percentiles, ageing, upsert; CSV, live and seed ingestion | broken streams, few wages, two ingestions at once | figures ordered and from one run; reports add up; ingestions land whole and end |
| Benchmark lookup, `service/benchmark_service.py` | a Redis key per lookup | read-through, comparison with a salary | never invalidated | stale only by an ingestion; a higher salary has no lower position |
| Security, tracing, metrics, configuration, middleware, CLI, seeding, migrations | | | | not modelled |

The services call each other inside one transaction: the cycle and offer
services call `BandService.get_band` and the agent, then `record_entry`. Requests
meet only in PostgreSQL, through rows, row locks and unique keys, and in Redis.

## Modules

| module | models |
|---|---|
| `StateMachines` | the two transition tables and `can_transition` |
| `SoxLedger` | the ledger table under concurrent transactions, and `verify_chain` |
| `AuditTrail` | the abstract ledger: a log to which a transaction's entries are added in one step |
| `LedgerTampering` | `SoxLedger` and direct UPDATEs of its table |
| `PlanningCycle` | the merit cycle's requests, statement by statement, over `StateMachines` and an instance of `SoxLedger` |
| `OfferLifecycle` | the offers' requests, likewise |
| `RedisManager` | the Redis client of one replica and its fallback dictionary |
| `BandCache` | band lookups and upserts over `RedisManager` and the table |
| `AuditPolicy` | the policy rules and the two agents' decisions, pure functions |
| `WorkflowEngine` | the in-memory engine over `AuditPolicy` and `StateMachines` |
| `Negotiation` | the counter-offer simulator, and the package put to the offer agent of `AuditPolicy` |
| `CycleFigures` | the merit cycle with its amounts, `AuditPolicy`'s verdicts, and the reports: rollup, analytics, triage |
| `WageStatistics` | normalisation, pruning, percentiles, ageing, market position, the seed table: pure functions |
| `MarketBenchmarks` | ingestions and lookups over `WageStatistics` |
| `SoxLedgerProofs`, `LedgerTamperingProofs`, `PlanningProofs`, `OfferProofs`, `BandCacheProofs`, `PolicyProofs`, `MarketProofs` | the theorems, by component; `PolicyProofs` has those of `WorkflowEngine`, `Negotiation` and `CycleFigures` |
| `FiniteSums` | lemmas: the sum of a function over a finite set |
| `MC...` | small instances for TLC; `MCPolicyDesk` puts `WorkflowEngine` and `Negotiation` side by side |

### SoxLedger

`ledger` is the committed table, `pending[s]` the rows session `s` has inserted
and not committed, `head[s]` the sequence number and previous hash that
`record_entry` computed from its SELECT (`ledger.py:115-124`). `Visible(s)` is
what a statement of `s` sees at READ COMMITTED. `ReadHead` and `InsertBlock` are
the two statements of `record_entry`; between them anything may happen.
PostgreSQL's part is what it does with the primary key `sequence_id`: an INSERT
waits while an open transaction holds the key (`KeyHolder`), fails when it is
committed (`InsertConflict`; the `IntegrityError` leaves `flush`, and `get_db`
rolls back), and goes on when the holder rolled back. `Commit` and `Rollback` are
the two ends of `get_db`. Hashes and signatures are free constructors (no
collisions), so a block hash determines everything hashed. The header stands for
all hashed columns except the number: timestamp to the second, trace id, entity,
action, actor. `VerifyChain` is the loop of `verify_chain` over an arbitrary
table, with or without its limit.

### LedgerTampering

One direct UPDATE at a time may write any column of any row (`DirectUpdate`): another
header or payload; into the three hash columns any digest in the table, any that follows
from the row's columns, and one that is neither (`Digests`); a signature copied from
another row or made up. `SECRET_KEY` is not in the database, so no new valid signature
can be made. A row may also be moved to another free `sequence_id` (`Renumbered`), and
`unhashed` is the part of a row that no hash covers: `entry_id`, the fraction of the
second that `format_timestamp` drops (`ledger.py:52`), and where in the colon-joined
header string (`ledger.py:83`) one free-text column ends and the next begins. `sealed`
remembers what the application committed, number and unhashed part included.
`TamperEvident` is about the hashed columns and the number; `AnyUpdateEvident`, about
every column, is violated.

### PlanningCycle

Each session runs one request at a time; `txn[s]` is its transaction: where it
is (`pc`), the proposals it has still to do (`todo`), the `audit_logs` rows it
has built (`logs`), the rows it has loaded (`seen`, `people`), the bands it has looked
up and not found (`missing`) and those it has inserted (`fresh`). A row of
`logs` is at once the `audit_logs` row, the ledger block's payload, and the
status written to the review; the three are written by different statements, and
`CommitDecisions` makes them visible together.

| code | actions |
|---|---|
| `create_cycle` | `CreateCycle` |
| `create_proposal` | `BeginCreate` (cycle check), `CheckExisting` (409 check, employee read, two band lookups), `InsertBand` and `BandConflict` (`get_band`'s INSERT of a default band), `InsertProposal` or `DuplicateProposal` |
| `audit_proposal` | `BeginAudit`, `ReadProposal` (with the lookup of the proposed level's band), `Flush`, `InsertBand` when the band is missing, `ReadLedgerHead`, `InsertLedgerBlock`, `CommitDecisions` |
| `batch_audit_cycle` | `BeginBatch` (ids), then the same steps per proposal, one commit |
| `approve_proposal` | `BeginApprove`, then from `Flush` on |
| `finalize_cycle` | `BeginFinalize`, `ReadReviews`, `ReadEmployees` (the second SELECT of `selectinload`), `Finalize` |
| an exception, a crash, a lost connection | `LedgerConflict`, `Abort`; PostgreSQL's detector: `DeadlockAbort` |

What is merged or left out, and why it changes nothing:

* a request refused with a 4xx has written nothing and is no step;
* an `IllegalStateTransitionError` is handled nowhere: the transaction is rolled
  back, and the session shows the refused request (`Illegal`) until it begins the
  next one, so that the refusal of an audit or an approval is a step one can see;
* INSERT and COMMIT of `create_proposal` are one step: nothing can be observed
  between them except the wait on the unique key, whose outcome is the same;
* UPDATEs and COMMIT of `finalize_cycle` are one step, taken when the reviews'
  locks are free: the values written were fixed in memory when the rows were read,
  and while it waits nobody reads what it has locked;
* SQLAlchemy does not write a column whose value has not changed from the loaded
  copy (`Raised`);
* of `get_band` the table's keys and what an INSERT of a default band does to others are
  modelled: it waits while an open transaction holds the key (`BandHolder`), fails when
  the band is committed meanwhile, and holds its own key to the end. A lookup may always
  find its band in the cache. When `audit_proposal` has to insert a band, it is
  `get_band`'s flush that sends the review's UPDATE, first. The figures of a band and
  the cache are `BandCache`. Offers and upserts insert bands too and are not requests of
  this model; in `OfferLifecycle` a band's unique-constraint failure is an `Abort`;
* the agent's decision is any of its three, since it depends on figures that are
  in `CycleFigures`; `ProposedBase` and `Grant` are a few values.

**Lost updates.** Nothing stops a request from overwriting a row that another one has
changed since it was read: rows are neither locked nor versioned when they are read. Two
history variables name exactly that. `stale[s]` are the rows session `s` has read and
another session's commit has written since (a review it decides; for a finalization also
the cycle, its reviews and their employees); `lost` are the rows ever written by a session
in whose `stale` they were. `FinalizedIsTerminal`, `EquityAppliedOnce`,
`LedgerContinuous` and `LatecomersUnpaid` hold of all rows not in `lost`, with any number
of requests at once: apart from a lost update of the very row they are about, nothing
(no conflict, deadlock, crash, race with another row) breaks them. `LogAgreesWithLedger`,
`LedgerTellsStatus` and `NoPayWithoutApproval` need no such exception. `NoGrantTwice`,
which makes none either, is violated (`grant_twice`).

### OfferLifecycle

The same shape as `PlanningCycle`, one offer per request: `BeginAudit`,
`BeginApprove`, `BeginExtend` and `BeginDecision` read the offer and ask the state
machine, `Flush` is the UPDATE and the `audit_logs` INSERT, audits and approvals go
on to `ReadLedgerHead` and `InsertLedgerBlock`, and `CommitDecision` makes all of it
visible. Letters and candidates' answers are not sealed in the ledger: the code
records them in `audit_logs` only. `audit_offer` moves a draft to AUDIT_PENDING in
memory before it asks for the verdict's transition (`AuditStart`). `BeginCreate`
draws a number, `InsertOffer` is the INSERT under the unique constraint: a number
already taken fails the request, and nothing draws another one. A transition the
table does not have is an exception before anything is written, and no step.

### RedisManager and BandCache

`client[r]` is the `_client` of a replica's `RedisManager`. `get_client` stores the
client before it awaits the first ping (`redis.py:30`), so that other requests use
it meanwhile (`pinging`), and a failed ping puts the replica in fallback mode until
it is restarted. A call fails before or after the server has done its part, and a failed
call goes to the process's dictionary, in which nothing expires (`Put`, `Answers`).

`BeginLookup`, `Lookup`, `Select`, `Write`, `Store`, `Commit` are the statements of
`get_band` in the request that called it; `BeginUpsert` and the same steps from
`Select` on are `upsert_band`. The cache is written before the commit
(`band_service.py:159`), and `Abort` rolls back the row and not the cache. `Restart`
takes the replica's requests, client and dictionary. `excused` is history: the keys
for which, since their entry last expired, something happened that the code does not
protect the cache from.

### AuditPolicy, WorkflowEngine, Negotiation

`AuditPolicy` has every rule a decision depends on and both decisions, in integers:
money in $100, compa-ratios in thousandths as the code rounds them, truncations and
roundings where the code has them. `WorkflowEngine`'s actions are the engine's four
methods; the engine keeps the caller's object, so registering it again resets its
status and keeps its verdict (`RegisterAgain`). `InMemProposal` checks no figure, so a
current base, a base or a grant may be any integer, and the rules that divide by the base
have the code's branch for a base that is not positive, where any raise passes
(`tools/registry.py:262`). `Negotiation` has the simulation in
units of $10 with the schemas' defaults; a recruiter takes up a candidate, adopts
recommended counters, and puts the package to the offer agent. The
talking points are left out; the win rate enters through its log-odds at the
threshold the recommendation looks at.

### CycleFigures

The merit cycle once more, one request at a time, with everything `PlanningCycle`
leaves open: base, bonus, equity, level and rating of each proposal, the current base
it copied at its creation, the merit budget allocated by `create_cycle`, the agent's
verdict by the band and the level of the day of the audit (`seen`, history), and the
bands an administrator may change in between (`UpsertBand`). The reports are operators over that
state: `Rollup` (`get_department_budget_rollup`), `Analytics` (`get_cycle_analytics`),
`RootCause` (`_diagnose_employee_review`).

### WageStatistics and MarketBenchmarks

`WageStatistics` has the pure functions, in exact integers: percentiles are
interpolated in hundredths of $1000, a stored figure is in units of $0.10, which is
exact for the default ageing of 4% over a whole year. A title is the set of keyword
classes it contains, an address the set of zones whose cities it names. The
observations of a run keep their places in the file, and sorting and filtering are
defined by counting (`Ascending`, `Subsequence`): the n-th wage is the lowest that n
wages are not above.

In `MarketBenchmarks` a job is one ingestion: what it parses and computes touches
nothing shared and is one step with its beginning (`BeginRun`, `BeginSeed`). A stream
that breaks off goes on with the bundled sample (`Streamed`). The persistence is
statement by statement: a SELECT per benchmark (`SelectRow`), then at the flush the
UPDATEs and INSERTs in SQLAlchemy's order (`ToWrite`, `NextWrite`, `WriteRow`), which wait for rows
and unique keys held by the other job, fail on a key committed meanwhile, or deadlock,
then `Commit`. An UPDATE sets the columns that differ from the row that was
read and no others (`Written`). `Lookup`, `Query`, `Store` are `get_benchmark`;
`outdated` is history: the cache keys whose cohort was ingested since their row was
read. Of Redis only the server is kept; a call that fails may end in a hit of the
dictionary, whose content is not modelled here (it is in `RedisManager`).

## Runs

| run | instance | shows |
|---|---|---|
| `ledger` | 3 sessions, 2 payloads, 4 blocks | `ChainSecure`, `OneAppender`, `AppendOnly`; `ImplementsTrail`: the table refines `AuditTrail` |
| `tampering` | 1 session, 2 headers, 2 payloads, 2 unhashed parts (symmetric), 2 blocks, 3 UPDATEs | `TamperEvident` for every limit |
| `planning_concurrent` | 2 sessions (symmetric) with requests of every kind, 2 cycles (symmetric), 1 employee, all bands stored, 3 blocks | `LedgerTellsStatus`, `NoPayWithoutApproval` under races; `EquityAppliedOnce`, `LedgerContinuous`, `FinalizedIsTerminal`, `LatecomersUnpaid` where no update was lost |
| `planning_live` | 2 sessions of creates, audits and batches, 1 cycle, 2 employees with swapped levels, no band stored, 4 blocks | `LogAgreesWithLedger`; `DeadlockNeedsBatchOrBands`: only batches, or proposals inserting default bands, can deadlock; `RequestsEnd` under fairness; `UsesLedger`, the refinement of `SoxLedger` |
| `offers` | 2 sessions, 2 offers, 2 numbers (symmetric), 2 blocks | unique numbers (`OfferTypeOK`), `LogsTellStatus`, `NoLetterWithoutApproval`, `OverwriteLeavesTrace`; `OffersUseLedger` |
| `bands` | 2 sessions, 2 replicas, 1 band with two sets of figures | `StaleHasExcuse`, `LookupNeverOverwrites`; `StaleEntryExpires` under fairness |
| `policy` | figures on and next to every limit at three levels and all zones, current bases of zero and below; 48 x 192 pairs of packages | `VerdictExplainsStatus`, `FinalizedWithinLimits`; `CountersSettle`, `ApprovedOfferWithinCaps` |
| `figures` | 2 overlapping cycles, 2 employees of 2 departments, a band that changes | `RollupsAddUp`, `TriageAgreesWithAudit`, `AutoRaiseWithinCap`, `AutoKeepsLadder`, `PayrollGrowthAnnounced` |
| `market` | 2 jobs, 1 reader, 2 cohorts, 2 feeds, 2 cache keys | `PercentilesOrdered`, `ReportAddsUp`, `PositionFollowsSalary`, `StaleOnlyByIngestion`, `IngestionLandsWhole`; `IngestionsEnd` under fairness |
| `grant_twice` | 2 sessions, 1 cycle, 1 employee | violated: two finalizations of one cycle apply a grant twice (`cycle_service.py:443`) |
| `safe_harbor` | the instance of `market` | violated: a benchmark of fewer than five people is published (`etl/pipeline.py:67`) |
| `unhashed_columns` | the instance of `tampering`, 1 UPDATE | violated: an UPDATE of a column no hash covers is not seen (`core/ledger.py:52`) |

The three violated properties are sentences of the code's docstrings, comments and README;
`PROJECT.json` quotes them.

**Bounds.** Three appenders are enough for one to commit, one to wait and one to
hold a stale head; four blocks let a stale head be two blocks behind and follow a
two-block batch. Three UPDATEs (`MaxUpdates`) change a column, redo
the block hash and copy a signature, or move a row and redo its hash, over two blocks so
that there is a signature to copy and a link to break; the theorem has no such bound. Two requests make every race of the read-then-overwrite pattern
of the merit cycle and of the offers. One employee in two cycles is what a lost grant, a
second finalization and a latecomer need; two employees make a batch, two batches a
deadlock, and two employees with swapped levels (`MCLevels`) the deadlock of two default
bands. `planning_live` gives every audit one verdict (`Exceptions`): which one it is
changes neither waiting nor the two logs' agreement. `MaxSeq` bounds the ledger: a request that would go past it is not begun
(`Room`), so no request is cut in the middle. In `offers` two blocks are an audit and
an approval, of one offer or of two; letters and answers are not bounded by it. Two
requests of a band, on one replica or two, are what a stale fill, a lost INSERT and a
shared ping need. In `policy` `MaxRounds` is two: settling is about the second
simulation. In `market` each job runs once (two ingestions in a row are the same as
one in `Earlier` and one now); `Breaks` and `Limits` say where a stream may break and
a run may stop (after ten observations, of files of ten and eleven that are
readable; CSV ingestions have no limit); dates are whole years, of which `Today` is the second; `Seeded` is two
of the seed loader's 90 cohorts; the positions are tested at a dozen
`Salaries` around the figures.

**Deadlock.** The planning and offer configurations switch TLC's deadlock check off:
when everything is decided and the ledger has reached its bound, every request is
refused, and refused requests are not steps. Waiting in a circle is a property of its
own (`DeadlockNeedsBatchOrBands`, `RequestsEnd`, `IngestionsEnd`).

**Fairness.** `PlanningCycle!FairSpec` asks strong fairness of each session's `Step`,
and nothing of requests beginning or aborting. An event loop runs every ready
handler, and a session that waits for a lock which is freed again and again gets
it because PostgreSQL queues waiters; a cycle of waits is broken by its deadlock
detector. Weak fairness would not be enough, as the wait's end is not continuous.
`MarketBenchmarks!FairSpec` asks weak fairness of each ingestion's own steps together
with the detector's abort: two one-shot jobs cannot take a key from each other again
and again. `BandCache!FairSpec` asks only that a key whose expiry is running does
expire; that fails to hold in the code only where a band is written again within
every time to live for ever, which renews the entry.

## Proofs

Every invariant and every action property of the passing runs, and the three
refinements, are theorems, for every value of the constants. TLC tried the inductive
invariants it can evaluate on the runs' instances first. Each module of proofs rests on
the named assumption of the module it is about (`MaxSeqAssumption`,
`PlanningAssumption`, `FiguresAssumption`, ...), which says that the inputs have their
types; further hypotheses are in the theorem and named below.

**`SoxLedgerProofs`**, for any sessions, headers, payloads and bound. `ChainSecure`
alone is not inductive: it says nothing of the rows about to be committed or of the
heads already read. `ChainInv` says that what each session sees is a chain, that a
session's own rows follow the committed ones without a gap, that at most one session
has any, and that a head in hand is the true link of the block it names, which is
either the next one or one that is taken. From it come `LedgerTypeCorrect`,
`ChainAlwaysSecure`, `OneAppenderAtATime` and `LedgerAppendOnly`. For
`LedgerImplementsTrail`, under the mapping `Log`, `Batch`, an `InsertBlock` is a
`Record`, a `Commit` a `Publish`, a `Rollback` or an `InsertConflict` a `Discard`, and
a `ReadHead` no step.

**`LedgerTamperingProofs`**: `TamperingIsEvident`, for any number of UPDATEs
(`MaxUpdates` is not assumed to be a number) of hashed columns and of `sequence_id`, with
any digest of `Digests`. `TamperInv` cannot say that rows are what was committed. It says
what an UPDATE cannot change: a valid signature in the table is one the application made
for some row, and uncommitted keys are nobody else's, so a commit overwrites nothing. An
intact row's signature then fixes its block hash, and the hash every other hashed column
and the number itself; the first altered row is therefore not intact, and `verify_chain`
stops there or before. Columns no hash covers are outside the statement.

**`PlanningProofs`**, for any sessions, cycles and employees.
* `PlanningUsesLedger`: every step is a step of the instance of `SoxLedger` or leaves
  the ledger alone. `TxnInv` says that a transaction that reaches `record_entry` has a
  row to record, of an existing cycle and employee and of two review statuses.
  `PlanningChainSecure` instantiates the proofs of `SoxLedger`.
* `DecisionInv` makes the four properties of concurrent requests inductive. A
  transaction carries the decisions it has taken and beside them, in the same order,
  their uncommitted blocks (`SessionInv`); since `ChainInv` gives uncommitted blocks to
  one session only, a commit appends the same rows to both logs
  (`PlanningLogAgrees`) and leaves each review with the status of its last block
  (`PlanningLedgerTellsStatus`). A finalization pays what its reads say, and a
  status it has read as approved has its approval on the ledger ever after
  (`PlanningPaysTheApproved`).
* `PlanningDeadlocksNeedBatchOrBands`: an audit or approval takes the review's lock, then at
  most one band, then one block. At its flush it holds nothing anybody waits for
  (`FlushHoldsNothing`), and at its block it waits for a session that has a block, which
  no waiting single decision has (`WaiterHasNoBlock`). In a circle without a batch
  everyone therefore waits for a band and has inserted one (`CircleOfBands`), which only
  a new proposal can.
* The four properties about rows that are not lost rest on `HistoryInv`: whatever copy a
  session holds is what the table still has, or the row is in its `stale` (`CopiesInv`).
  A commit writes only rows the session holds (`WritesOnly`), which makes other sessions'
  copies stale (`Marks`) and leaves the rest as they were (`OtherCopies`). So where
  nothing was lost a decision is taken from the status it overwrites (`Current`):
  `PlanningLedgerContinuous`, `PlanningFinalizedIsTerminal`, `PlanningLatecomersUnpaid`,
  and `PlanningEquityAppliedOnce`, a sum over the reviews that every commit keeps. The
  last also needs finitely many cycles: the sum over an infinite set means nothing. No
  theorem assumes anything of the number of sessions.

**`OfferProofs`**, for any sessions, offers and numbers. `OfferRequestsUseLedger` and
`OfferChainSecure` are as for the planning cycle. `LettersApproved` is not inductive,
because a letter is written long after its check: `LetterInv` adds that a transaction
about to write a letter or an answer stands on a committed approval (`Grounded`), that
one about to commit an approval carries the block, and that no two sessions hold the
same key (`KeysApart`), so that an approval, once committed, stays. `HistoryInv` ties
offers, `audit_logs` and ledger together: stored statuses and numbers, legal rows, at
most the one block of its own row in each open transaction. From it
`OfferTypeCorrect`, `OfferLogsAgree` and `OverwritesLeaveTrace`: an answer is never a
legal `previous_status`, so the row after one shows the break.

**`BandCacheProofs`**, for any sessions, replicas, keys and figures. `CacheInv`: what a
request has read is what the table holds, or its key is excused; of two requests for a
key one at most has written, and if one is an upsert the key is excused; a stale entry
is excused or belongs to a writer about to commit. It gives `StaleIsExcused` and
`LookupsReplaceNothing`.

**`PolicyProofs`**.
* Engine: `EngineInv` says of each record that its verdict is the one its figures get,
  and which statuses that verdict and the VP's approval allow (`VerdictsExplain`). The
  limits of `FinalizedAreWithinLimits` follow from the rules and the table of default
  bands (`BandExact`: the 90% and 80% bands are not rounded) for every base, raise
  and grant, positive or not (the raise limit is stated where there is a positive
  current base), where TLC tries those next to a limit of three bands.
* Negotiation: `DeskInv` gives the package its types. `AdviceSettles` is arithmetic on
  the three raises: each is computed without the other two, and adopting all of them
  closes the gap (`CounterCloses`). `ApprovalsWithinCaps` bounds the rounding of
  the compa-ratio.
* Figures: the cap is checked at the audit and matters at finalization. `FInv` carries
  across the time between them that an AUTO_APPROVED proposal keeps the figures the agent
  passed, against the base, the level and the band it was shown (`Justified`). From it
  `RaisesCapped`, `LadderKept` and `TriageMatchesAudit`; with the sums of `FiniteSums`,
  `RollupsMatchAnalytics` (employees are summed department by department) and
  `GrowthWasAnnounced`.

**`MarketProofs`**, for any jobs, readers, files and broken streams.
* Lookups: `LookupInv` (a reader about to store has a row the table still has, or
  its key is in `outdated`) gives `StaleByIngestionOnly`.
* Ingestions: `JobInv` says that the benchmarks of a run have keys of their own and that
  what a job has still to write and what it wrote make up what differed, key by key, when
  it selected. `IngestionsLandWhole` and `MarketTypeCorrect` follow, under
  `FeedsSeeded`: every cohort that comes in is in the seed table. The code's
  table has all of them: the normalizer only gives cohorts of its enumerations
  (`CohortOfRow`), so a complete table satisfies the hypothesis (`CompleteSeed`), and so
  does the instance of `market`.
* Figures, without that hypothesis: `ReportInv` says that what a finished run reports
  is what an ingestion computed from some rows. Then about those functions: a list in
  ascending order stays so when outliers are cut (`AscendingRises`, `SubsequenceRises`); the
  rank of a higher percentile is higher, and interpolating in an ascending list is
  monotone (`PercentilesFollow`); ageing and rounding half to even are monotone
  (`AgedOK`); so `PercentilesInOrder`. `PositionsFollowSalaries`: each stretch between two
  percentiles maps into its own interval, in order (`PositionBounds`, `PositionGrows`,
  which hold for every salary, not only the `Salaries` of the property). `ReportsAddUp`:
  the observations are summed cohort by cohort (`CohortsMakeUpFile`), the samples over
  the emitted ones (`KeptOfRun`), and each discarded cohort has at most four.

**`FiniteSums`** is what the reports and totals rest on: a sum is independent of the
order of the fold, and can be split, added up, bounded, taken by class or over an image.
The library's induction theorems take an operator as a parameter, which the provers
cannot instantiate. The induction is therefore over a set of numbers, by the least
number outside it (`Numbers`), and over the subsets of a finite set through their
cardinality (`Subsets`).

Only model-checked: liveness (`RequestsEnd`, `StaleEntryExpires`, `IngestionsEnd`),
which is outside the prover's reach. The three violated properties are TLC's traces.

## Disagreements met and not made runs

Each is what the code does where a document, a comment or a reader might expect
otherwise. They shaped the models, and the properties above say what holds instead.

* A decision that read its review before a finalization overwrites FINALIZED
  (`cycle_service.py:257`), two decisions of one review leave blocks that do not follow
  each other, two cycles finalized at once can lose a grant, and two overlapping
  finalizations of one cycle can pay a proposal in a closed cycle. These are the lost
  updates that `FinalizedIsTerminal`, `LedgerContinuous`, `EquityAppliedOnce` and
  `LatecomersUnpaid` except by name.
* Two `create_proposal` requests with swapped levels and no stored bands deadlock on the
  default bands `get_band` inserts for them (`cycle_service.py:159-162`,
  `band_service.py:87`); PostgreSQL aborts one, and the client gets a 500.
* A rejected review is expected to go back: `state_machine.py:30` maps REJECTED to DRAFT
  and `docs/design_doc.md:213` resets it for revision, but no service performs that
  transition, and `audit_proposal`, which `cycle_service.py:220` lets take REJECTED, asks
  for REJECTED to SUBMITTED, which the table refuses. In the running code a rejected
  review stays rejected; no property claims that it should.
* `README.md:192` says that any direct UPDATE of the ledger is detected; columns that no
  hash covers are not (`unhashed_columns`).
* `finalize_cycle` closes a cycle that has DRAFT proposals (`cycle_service.py:417`):
  only submitted, audited and exceptional ones count as pending.
* `offer_service.py:119` likewise offers rejected offers to the state machine, and
  nothing ever writes OFFER_REJECTED: a VP's denial (`docs/design_doc.md:224`)
  cannot be recorded.
* `docs/design_doc.md:241` says that every transition is recorded in `audit_logs`;
  a finalization writes one row for the cycle and none per proposal.
* The band cache is written before the commit, and a lookup's default band too
  (`band_service.py:102`, `:159`): a rollback leaves figures in the cache that
  no table has. The fallback dictionary keeps its values until the process ends and is
  not shared by replicas (`core/redis.py:73`).
* A market benchmark is served from the cache for a day after it was re-ingested.
* Two re-ingestions at once can leave a row with some columns of each; in opposite
  orders they deadlock and one is lost.
* A download that breaks off continues with the bundled sample behind the lines
  already read (`etl/sources/dol_fetcher.py`): the run mixes both.
* A title that contains the letter I anywhere is of level 1 where no higher keyword
  matches (`etl/normalizer.py`), so the default IC3 is rare.
* On a benchmark whose wages were all pruned, the comparison with a salary divides by
  zero (`benchmark_service.py`).
* The recommended counter is reported with a win rate of 85% that is not computed
  (`negotiation_service.py:291`). The comment at `:269` says 110% of the deficit; the
  code adds $10,000, and `quantize(Decimal("1000.00"))` rounds to cents.
* No code updates `depleted_merit_budget`, so triage's budget finding
  (`tse_triage.py:202`) cannot occur. A target bonus of zero switches the bonus check off.

## Not modelled

* `bls_oews_parser.py`: text in, rows out; `smooth_level_monotonicity`: nothing calls
  it.
* Triage of an offer and the dispatch on a ticket's text: only the employee review's
  diagnosis is compared with the audit. Negotiation talking points and the printed
  win rate.
* Security, tracing, metrics, configuration and middleware: they change no state that
  these components share.
* The CLI and the seeder: their calls are the modelled ones, or inserts of fixtures.
  Migrations: only the constraints they declare are used.
* Redis `delete` and `incrbyfloat`, which nothing calls, and the list and get
  endpoints, which only read.

## Plan

1. The functions behind the reports against reference definitions for all inputs, as
   for the percentiles: `Analytics`' distribution and `RootCause` beyond approved reviews.
2. A bound on how often a grant can be applied, by the finalizations that overlap.
3. Triage of offers, if the code comes to depend on it.
