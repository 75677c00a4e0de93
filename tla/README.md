# taproot-common: a verification development

TLA+ models of the parts of `taproot-common` that carry its own logic, TLC runs
that check them on small instances, and TLAPS proofs of the properties that
matter most for every instance. Paths below are relative to the package
`src/taproot_common/` of the repository unless they start with `alembic/` or
`tests/`.

## 1. The system

taproot-common is a library that Taproot services embed. Its core is the
**system of record** (TAP-38): every service writes interactions and activities
to one PostgreSQL schema, activities are linked into hash chains per project, a
compliance export reads them back and signs them. Around it are the pieces that
decide *what* is written (interaction contexts, their headers and tokens, the
ingress middleware, the legacy audit publisher), the HTTP client that carries
the context to the next service, and shared plumbing.

| Component | State it keeps | Operations | Hard behaviours | What makes it correct |
|---|---|---|---|---|
| Activity recorder, `activity/recorder.py` | none of its own beyond the call in progress | `record_activity`, `record_critical_activity`, `record_interaction`, `record_snapshot`, `record_diff`, `record_retention_application`, `record_purge_tombstone` | concurrent calls in many processes; several statements without a transaction; timeouts whose statement still commits; retries | an accepted result is in the database; a failure report is true; calls return; it implements an append-only log |
| Storage and schema, `activity/storage.py`, `activity/schema.py`, `alembic/versions/` | the tables | one `INSERT ... ON CONFLICT` per write, reads of chain head, chain and export | the migration to append-only runs while services write | unique keys and positions, foreign keys, immutability |
| Hash chain, `activity/chain.py` | none | hash a record, verify rows | verification during writes; time zones | chains are gapless and unforked; the verifier's verdict is exact |
| Compliance export and signing, `activity/export.py`, `activity/signing.py`, `cli/verify_export.py` | none | build, sign, verify | three reads that other writers interleave with; retention deletes rows | a package is coherent, complete as of its start, and verifiable |
| HTTP client, `http.py` | circuit breaker, shared by coroutines | `request` with retries, breaker | late answers; probes; retries that fail again | state and counter agree; whole requests open it; it recovers |
| Interaction context, `activity/context.py`, `activity/models.py` | a context variable | build from headers (public, internal, legacy), bind, propagate | many hops, forwarded headers, mixed versions | an interaction's parent is the one that called it |
| Ingress middleware, `activity/ingress.py` | the binding of the request in progress | bind, record, call next, unbind | awaits the recorder before the handler | requests proceed; the context ends with its request |
| Audit publisher and adapter, `audit/` | unfinished tasks (weak set) | `publish_audit_event`, `close_audit_pool` | tasks outlive their request; shutdown drains | events keep their interaction; a drain loses nothing it promises |
| Tokens and trust headers, `trust/`, `fastapi/delegated_actor.py` | none | mint, verify, delegated policy, strip headers | expiry between minting and arrival | only a valid token makes a context verified; delegations end |
| Auth context, `auth/` | metadata cache with TTL, load-once gateway secret | `get_auth_context`, cached lookups, `verify_gateway_proof` | a lookup in flight while another finishes; a failed load is remembered; rotation and restart | staleness is bounded; enforce mode fails closed |
| Secrets and database authentication, `secrets.py`, `db_auth.py` | the bundle read at startup | resolve identifiers, load at startup, connect | precedence of many variables; secrets missing, malformed, or changed between two reads | what resolves is the source the documented order picks; no service starts without what it requires |
| Database contract, `db_contract.py`, `alembic/env.py` | roles, owners, grants and default privileges in the database | render bootstrap and verify scripts, migrate under them | bootstraps repeated, interrupted, refused, concurrent with each other and with a live service | a completed run establishes the contract and it lasts; verified migrations can alter every table |
| Reconstruction, logging, config, errors, LLM providers | none | formatting and lookups | none | not modelled |

How they interact: the middleware binds an `InteractionContext` built from
headers (and a token) in a context variable and awaits `record_interaction`.
The handler calls the recorder, publishes audit events (asyncio tasks that copy
the context variable and call `record_activity` later), and calls other services
through `ServiceHttpClient`, which puts the bound context into headers. The
recorder awaits the storage adapter, one statement at a time. The export and the
chain verifier read what the recorders of all services wrote. Alembic migrations
and a retention job change the same tables from outside. The tables and the roles that own and use them are made by the database
contract's bootstrap, run by operators, which every enforced migration verifies
first. A service process begins by reading its secrets and its database
configuration, then admits requests through the gateway proof and the metadata cache.

## 2. The modules

| Module | Models | Built on |
|---|---|---|
| `ActivityChain` | `chain.py`: chain keys, record hashes, the verifier, as operators | |
| `SystemRecord` | the database as the adapter uses it: tables, one statement's outcome, the reads, the 0004 trigger | `ActivityChain` |
| `ActivityRecorder` | concurrent recorder calls over one `SystemRecord` | `SystemRecord` |
| `ActivityLog` | abstract specification: an append-only log that acknowledges only what it holds | |
| `ActivityRecorder_proofs`, `ActivityRecorder_durability` | theorems about `ActivityRecorder` | |
| `ComplianceExport`, `ComplianceExport_proofs` | exports, the package verifier and a retention job, over running recorders; theorems | `ActivityRecorder` |
| `AuditedRequests`, `AuditedRequests_proofs` | middleware, handlers, audit tasks, drain and shutdown, over running recorders; theorems | `ActivityRecorder` |
| `ServiceHttpClient`, `ServiceHttpClient_proofs` | breaker and retry loop, and theorems | |
| `InternalTrust` | tokens, contexts and headers, as operators | |
| `InteractionLineage`, `InteractionLineage_proofs` | services calling each other over a network, and theorems | `InternalTrust` |
| `RuntimeSecrets` | `secrets.py` and the configuration step of `db_auth.py`, as operators | |
| `ServiceAuth`, `ServiceAuth_proofs` | a service process: startup, gateway proof, key, cached metadata, among rotations and restarts; theorems | `RuntimeSecrets` |
| `DatabaseContract`, `DatabaseContract_proofs` | bootstrap scripts statement by statement, verification, migrations, a live service; theorems | |
| `MC...` | the instances TLC checks | |

### ActivityRecorder and SystemRecord

A call of the recorder is a coroutine; it can be interrupted only where it
awaits the storage adapter. So a call's state is the statement it awaits
(`pc`: `interaction`, `chain_head`, `activity`, `related`, `visibility`), its
`attempt`, the chain `head` it read, the package `item` it is at, and its result.
Each action is everything a call does from one answer to the next await:
`WriteInteraction` is `_ensure_activity_interaction` or
`_write_interaction_once`, `ReadChainHead` the read in `_chain_activity_record`,
`WriteActivity` the insert with the row made from that head, `WriteRelated` an
item of the package, `RejectRelated` an item that cannot be built,
`WriteFailureRow` the failure row that makes a failure visible. The retry policy
is in `after_failure`, called by every failing step.

A write that is not answered in time is `Lose`: the call goes on as the code does
after `TimeoutError` or a connection error, and the statement may remain in
`orphans`, from where `ExecuteOrphan` executes it at any later time, or never.
A crashed process is a call that takes no more steps. Another service on the
same database is another call.

Each write is one statement in its own transaction. `outcome` says what the
database answers: the row is created, or exists unchanged, or conflicts with
another content (the conflict rule's `WHERE`), or collides in the unique index on
`(chain_key, chain_seq)`, or dangles, or is rejected by the trigger of revision
0004. `Migrate` installs that trigger while calls run.

Left out: columns that no property tells apart (a row's content is one value),
redaction and validation (a call is `admissible` or raises before its first
await), ids of rows that do not matter. A hash is the pair of what it hashes:
two hashes are equal only if their inputs are. The database role is assumed to
have the `UPDATE` privilege that `ON CONFLICT DO UPDATE` needs, also after revision 0004,
whose `REVOKE` from the role that runs it is left out (see section 7).

### ComplianceExport

`BeginExport`, `FetchRecords`, `VerifyChain`, `CountFailures` are the three
awaited reads of `build_signed_compliance_export` and the steps between them;
`LoseExport` an exception of any. `Purge` is the retention job, which is not in
the repository: with the bypass setting of revision 0004 it can delete activity
rows that nothing references. `due` and `due_failures` record, for
`CompleteAsOfStart`, what callers had been told when the export began.

### AuditedRequests

`Enter` binds the context and makes the recorder call for its interaction;
`CallNext` is the handler's start, once that call is over; `Answer` its end and
the `finally` that unbinds. `Publish` builds an event and its task, which copies
the context; `StartTask` runs the task to the recorder's first await, after
which `Record` lets the recorder's own actions run. `BeginClose`, `FinishClose`
and `StopWaiting` are `close_audit_pool`; `StopProcess` the end of the event
loop, which cancels what is left. The service shuts down gracefully (the drain
starts when requests are answered), jobs may publish at any time.

### ServiceHttpClient

`Send` reads the breaker and starts the first attempt; `Succeed`,
`FailAttempt`, `Retry`, `Abandon` are the paths of `_execute_with_retry`
(`Abandon` being an exception other than `ConnectError`, or a cancellation: the
breaker is not told). Of time only one fact is kept: whether `reset_timeout` has
passed since the last failure.

### InternalTrust and InteractionLineage

Tokens are records of claims with the secret they were signed with; headers are
functions from names to values; contexts are records. `InteractionLineage`
moves requests over a network that delays, repeats and drops them. `Receive` is
the middleware's `_build_context`; `HandlerCalls` sends from an interaction
through `ServiceHttpClient` or `safe_service_headers`, with fresh headers or
with those of the request being handled; `JobCalls` sends with nothing bound.
Each request carries, as history, who really sent it from which context with
which token; the receiver's context is compared with that.

### RuntimeSecrets and ServiceAuth

A variable of the environment is a pair of prefix and suffix, and the identifier
it holds is named by the variable, so the object a lookup ends at tells which
variable decided. Payloads are texts, or objects whose fields are texts or JSON
values that are not strings (written in angle brackets): what the loaders, the
AWS unwrapping of one-key objects, `extract_secret_json_field` and the bundle
parser tell apart. A loader that returns `None`, for whatever reason, is `Absent`.

`load_startup_secret` is one pass of the loop of `load_startup_secrets`, so the
secret manager may change between two passes; `open_database` is
`load_db_auth_config` after it. `get_auth_context` is the coroutine up to the
await of the metadata store: the gateway proof with its load-once secret, the key
of the cloud's gateway, and the look into the cache; `InnerAnswers` and
`InnerFails` are the store's answer, `finish_lookup` what follows it.
`get_store_id` is the other cached question, with its own cache keys.
`RotateSecret`, `ChangeMetadata`, `Tick` and `Restart` are the surroundings. Three
history variables make the properties sayable: `possible`, the answers a lookup
could truly have got while it was under way; `filled`, when it ended; `held`, what
the gateway secret was worth in this life of the process.

Two definitions of the cloud provider exist and both are modelled: the loaders
take `TAPROOT_CLOUD_PROVIDER` or a service's own variable, the settings only the
first. A process with only `RETRIEVAL_CLOUD_PROVIDER` set loads secrets from that
cloud and takes keys as the local provider does, whose default is a development
key. The same holds of the environment's name, so the gateway secret of a process
with only `APP_ENV=production` is that of `dev`.

### DatabaseContract

The scripts are sequences of statements: `opening`, the blocks of the schemas
(`schemas_grants`, or `shared_grants` with its readers), `joining` for the
memberships of a service, and `closing`. `at` is the statement each session is
at, and there is one action per kind of statement. Each commits on its own, so
`Interrupt` may end a session anywhere, and the server then releases its advisory
lock; `Refuse` is a statement PostgreSQL does not permit an admin without
superuser rights. `permitted` and `controls` say what it permits, from how the
scripts prepare for it: membership, also through the DDL role, of the role that owns a
thing. A membership is one with `SET` and `INHERIT`.
The reassignment's memberships are given back inside its own `DO` block.

`Migrate` is a migration job of an environment: whether it verifies
(`should_enforce_contract`), which credential it has (`database_secret_purpose`), and
for the shared database the role it assumes, whose grant commits with it.
`RuntimeCreates` is the live service, `AdminCreates` an operator by hand. Tables
stand for all relations; sequences, functions, `USAGE`, `CONNECT`, passwords,
`search_path` and several readers behave alike and are left out.

## 3. The runs

Every constant that bounds an instance is named in the cfg or the `MC` module.
TLC explores each instance completely.

| Run | Instance | Shows |
|---|---|---|
| `recorder_safety` | three calls in five kinds of workload, two attempts | `TypeOK`, `ChainIntact`, `VerifierAgrees`, `AcceptedIsDurable`, `FailureReportTruthful`, `NoForeignKeyViolation`, `ChainGrowsAtHead`, and that the recorder implements `ActivityLog` |
| `recorder_progress` | four writers of a chain without losses, and two calls with losses and a migration; two attempts; only timeouts assumed | `ContentionBound`: where calls write different things (`Undisturbed`: the races), attempts are forced by rivals' commits, one each; `HangsOnlyUntimed`: a call stays unfinished only at the chain head read or the failure row; `EveryCallReturns`: it returns when those are answered |
| `recorder_rewrite` (violated) | two calls that repeat a row | `RepeatedWriteIsIdempotent`, see section 7 |
| `export_package` | two writers, one export, one deletion | `WholeChainExportVerifies`, `PackageCoherent`, `CompleteAsOfStart`, `SurvivorRevealsDeletion`, `ExportTypeOK` |
| `export_window` (violated) | an export that starts inside the chain | `EveryExportVerifies`, see section 7 |
| `http_breaker` | three coroutines, one retry, threshold two | `StateMatchesCount`, `OpenedByWholeRequests`, `ClosesAfterRecovery`, `TypeOK` |
| `audited_requests` | a request and a job with an event each, one attempt | `EventKeepsItsInteraction`, `InteractionRowStands`, `DrainLosesNothing`, `RequestWaitsOnlyOnFailureRow`, `AuditTypeOK` |
| `audit_scope` (violated) | the same | `AuditFailuresReported`, see section 7 |
| `lineage` | two services of different versions, three requests received, a clock of one tick | `ParentIsCaller`, `VerifiedEdge`, `OutsideValuesStayOutside`, `DelegationBounded`, `LineageTypeOK` |
| `database_contract` | a service with two schemas, one that creates tables itself, the shared database; superuser or not; new or legacy; two sessions, three bootstraps | `CompletedRunConforms`, `AppStaysDml`, `VerifiedIsAlterable`, `RefusedOnlyAtRuntimeTables`, `ContractTypeOK` |
| `database_verify` (violated) | the two service contracts | `VerifyFailsClosed`, see section 7 |
| `service_auth` | 1691 deployments in six families, three requests, two rotations, one change of metadata, one restart | `AnswerWasTrue`, `AdmittedHadProof`, `DecisionsPinned`, `StartupFailsClosed`, `AuthTypeOK` |

Why the bounds are enough for the interesting cases:

- *Three calls, two attempts.* The chain can be lost to a second writer while a
  third is in flight; a statement lost in the first attempt can execute before,
  between and after the statements of the second. The workloads make calls meet
  in every shared row: one chain, one interaction, one activity id with equal and
  with different content, a legacy row from before the chain, a project named
  `global`, a timestamp that is not UTC, an item that cannot be built.
  The theorems of section 6 remove these bounds, for every invariant of the runs.
- *Four writers, two attempts.* More rivals than a call has attempts, so
  both sides of `ContentionBound` occur. The two workloads of `recorder_progress`
  are checked side by side: races without losses, pairs with everything.
- *Exports.* Two rows are enough for a window that cuts a chain, for a time
  order against the chain's order, for a deletion before and at the end, and for
  a row committed between any two reads.
- *Breaker.* Three coroutines: one to open it, one that answers late, one
  probe. `MaxFailures` is twice the threshold.
- *Audited requests.* One request and one job give every order of task,
  answer, unbinding and shutdown; the recorder's retries are the other runs'
  subject, so one attempt is enough. `Workload = {}` because the arguments of
  calls are filled in when they are made.
- *Lineage.* Three hops are the fewest at which a grandparent exists and at
  which a token can come back to the service it was made for. One tick with lifetimes of one and
  two has tokens that expire on the way and tokens that do not.
  `MaxDelegatedTtl = 1` stands for the 300 seconds, `Ttls` reaches beyond it.
  Both services have the shared secret; a service without one binds every
  request as public, which is the same branch as a missing token.
- *Database contract.* Two sessions are enough for one to take away what the other
  uses; three bootstraps for one that stops, one that completes and one repeated
  over the result. Two tables per contract: one that a pattern or an exception
  names and one that none does, in one schema or in two. Environments of
  migrations: enforced by the cloud or by the switch, with and without the DDL
  credential.
- *Service.* The families vary one thing each: every subset of the identifier
  variables of two prefixes; every policy and payload of one requirement, and two
  requirements whose secrets change in between; every shape of the database bundle
  and of the identity fields; every proof mode with a secret that is rotated, lost, found or not a
  string; every header of every cloud; the cache. Three lookups
  are the fewest with two that overlap and one that reads what they left; a clock
  of three ticks has a TTL of two that ends. Time passes only while requests may notice: a
  process that serves, with caching, after the first of them; metadata changes
  only while it serves, since nothing is kept of earlier values.

Deadlock is not checked: all these systems may stop, when every call has
returned, a process has failed to start, or the bounds are reached.

## 4. Fairness

- `ProgressSpec`: `asyncio.wait_for` ends an await of a write after
  `write_timeout_seconds` with or without an answer, so `TimedStep` (answer or
  loss at one of those awaits) is weakly fair. The chain head read
  (`recorder.py:864`) and the failure row (`recorder.py:949`) have no timeout
  and no fairness; `EveryCallReturns` has their answers (`UntimedStep`) as its
  premise. Nothing is assumed of calls that have not begun.
- `AuditSpec`: the event loop resumes a middleware whose await is over
  (`CallNext`), and the timed awaits end as above while the process lives. A
  handler or task is not assumed to run on.
- `FairSpec` of the HTTP client: time passes, sleeps end, httpx's timeout ends
  requests in flight, and the coroutines keep sending. The last is demand, which
  recovery needs: the breaker half-opens only when a request reads it.

`LineageSpec`, `ExportSpec`, `ContractSpec` and the `Spec` of `ServiceAuth` have
safety properties only: an operator need not finish a bootstrap, a store need
not answer, and nobody retries a process that fails to start.

## 5. Mutants

A definition commented "Fault variant of X" is a defect the code could have: a
missing index, a dropped guard, an off-by-one, a retry that is not counted, a
reset that is forgotten. No specification uses it. Substituted for X, it makes
the property it is paired with in `PROJECT.json` fail under the property's own
run, which shows that the property depends on that piece of code and that the
instance is large enough to notice. Some are code the repository really has
beside the one that is used: `merge_propagation_headers` keeps the caller's own
headers, and `public_context_from_identity_headers` believes them, as the legacy
helper `interaction_context_from_headers` does.

## 6. What is proved

The theorems about the recorder hold for any set of calls, workload, number of attempts and legacy
rows that satisfy the named assumptions of the modules.

**The chain** (`ActivityRecorder_proofs`). `ChainIntact` is not inductive: it
says nothing of a call that is about to insert at a position computed from a
head it read long ago, nor of such statements among the orphans. `IInv` adds
- `DbInv`: keys and positions are unique, each chain's positions are contiguous
  from 1 and linked;
- `HeadsCommitted`: the head a call holds is a committed row of its chain, or
  none;
- `StatementInv` of every orphan: the row it would insert follows a committed
  row.

Committed rows never change, so a head stays committed however stale. When a
statement executes, the unique index admits it only if its position is free;
together with contiguity, a free position after a committed one is the end
(`HeadIsLast`, `ExecuteStep`). `NextIInv` proves `IInv'` and `GrowsAtHead` action by
action; `Invariance`, `TypeCorrect`, `ChainsIntact` and `ChainsGrowAtHead` follow.

**The verifier** (`VerifierIsRight`). `verify_activity_chain` walks the rows in the
order the database returns them; `in_chain_order` gives a row the place that
is the number of rows not after it, so what the walk finds at a place is a fact about
cardinalities and needs no induction. With `PlacesUnique` and `Contiguous` the
place of a row is its `chain_seq`, with `Linked` its predecessor is the row before
it, and `HashInv` (every row, committed or sent, is hashed with the offset it was
written with) leaves the time zone as the only thing a recomputed hash can differ by.

**Durability** (`ActivityRecorder_durability`). `DInv` says of each place a call
can be in its package which rows are committed: a call that reads the chain head
has its interaction, a call at item n has its activity and the items before n.
Committed rows stay, except that rows of items without an id are named by the
attempt that wrote them, so a new attempt starts again (`RestartedIsDurable`).
`AcceptedMeansDurable` follows.

**Failures** (`ActivityRecorder_durability`). `FInv` adds to `DInv` what a call reports
before and after it returns (`Reported`), and that the rows an orphaned activity
statement refers to are committed (`Anchored`). A package failure is reported only
from the item it happened at, when `DInv` has the activity and the items before
it (`FailureReported`); by the same places in the package, every statement but that of a
`record_related` call finds its foreign keys (`StatementAnchored`).
`FailuresAreReportedTruly` and `ForeignKeysHold` follow.

**Contention** (`ActivityRecorder_durability`). `RetriesCoverContention` is a
theorem of `FaultFreeSpec`, where every write is answered, and of calls that write different
things (`Undisturbed`: no id of an activity or a related row is shared, an interaction
id has one content, every item can be built). Then a write of `record_activity` can fail
only because its position is taken. `RaceInv` says why that is another's doing:
- `KeysFree`: the rows a call has not written are not there, so no key collides;
- `InteractionsAgree`: an interaction row that is there is the one the call would write;
- `AttemptsForced`: when an attempt began, the chain was as long as the attempts
  already lost, and the head that attempt holds, once read, is as far.

A lost attempt means that the position after that head is taken, so the chain has grown
past it. Every position up to there has its row (`Contiguous`), none of them the
caller's own, and `ReachedByRivals` counts them.

**Refinement.** The mapping takes the log to be the chained rows and the
acknowledged entries to be those of accepted calls. A step changes at most one
row (`OneRowAtMost`) and at most one result (`OneAckAtMost`); a new chained row
is the next place of its chain (`NewRowIsNext`), and if the same step accepts a
call, that call's entry is the new row's (`AckIsOfNewRow`); otherwise it was recorded
before, by an orphan or a rival with the same content. So every step is `Append`,
`Acknowledge` or a stutter: `RecorderImplementsLog`.

**The breaker** (`ServiceHttpClient_proofs`). The invariant `BreakerOK` ties
state and counter; with the history variable equal to the counter,
`StateFollowsCount` and `WholeRequestsOpen` follow for any number of coroutines, any
retries and any threshold.

**Admission and answers** (`ServiceAuth_proofs`). `DecisionsPinned` and
`AdmittedHadProof` say nothing of the requests to come, so `DecisionInv` adds
- `GatewayOK`: a secret that is loaded is truthy and was in the manager during
  this life, like the one it holds now;
- `DecidedByLoaded`: every request of this life was decided by the secret that is
  loaded now. `get_expected_secret` keeps what is loaded (`DecisionBegun`), and a
  restart begins a life of which there is no request yet (`ShapeOK`).

`AnswerWasTrue` needs to know what the lookups under way will be told: `LookupInv`
says that what the store would answer now is among what a waiting lookup may be
told (a change of the item adds its new answer), and that a cache entry was among
what its lookup could have been told. `AdmissionNeedsProof`,
`DecisionsArePinned` and `AnswersWereTrue` follow, for any deployments, calls, TTL and
bounds; these three rest on no assumption about the contents of the secret manager.

**Lineage** (`InteractionLineage_proofs`). The properties speak of received requests only;
`LineageInv` says the same of those on the network, and of what a handler may pass
on. `Carried`: the token minted for a call names its sender and its
receiver, no token names one service as both, and beside a token, minted or passed on,
the context headers are those of the sender's context (`OutboundHeaders`, `CallCarries`).
`HopOK`: a hop's context is what the middleware makes of its headers, so it has
an id (`BuiltContext`). `HopContext` reads off when a context is verified and whose child
it is; `ParentsAreCallers`, `EdgesAreVerified` and `DelegationsAreBounded` follow, for any services,
secrets, versions, lifetimes and number of hops. They use of the
assumptions that interaction ids exist and that lifetimes are natural numbers.

`ValuesInv` follows the values instead: beside a token, the context headers of every request,
on the network or received, were made by the platform (`CleanHeaders`), and no other headers
reach a context. `LineageTypeCorrect` and `OutsideStaysOutside` follow; the second needs
`OutsideAssumption`, that the value made up outside is none of the platform's own.

**Audit events** (`AuditedRequests_proofs`). Here the arguments of a recorder's call are not given
beforehand, so `IInv` does not apply as it is; its parts about the database and the
heads do (`ExecuteStep`, `HeadIsLast`), and `AuditInv` repeats them with
- `EventCallOK`: a call made for an event carries the interaction that event was
  published in, which no step changes once its task is scheduled (`TasksStay`);
- `StatementOK`: an activity row that a call has sent, waited for or not, is that event's;
- `DrainOK`: once the drain has begun no request runs, and each event of a request
  has ended or is waited for; before the process stops no task is cancelled.

`EventsKeepTheirInteraction`, `DrainsLoseNothing` and, of the recorder below the service,
`ServiceKeepsChains` follow, for any requests, jobs, events, projects and number of attempts.

That their types are right (`AuditTypeCorrect`) rests on the same invariant. `InteractionRowsStand`
has one of its own, `StandInv`: every context that is bound, copied by a task or used by a call
is the one its request was given, with its project (`ContextsStand`), every call writes that
project and, of one interaction, the same row (`CallStands`), and so do the rows that are
there (`RowsStand`). They use that no call or project is `None`, and that legacy rows have
other keys than events.

**Exports** (`ComplianceExport_proofs`). A deletion breaks the chain it takes a row from,
and with it `IInv`, which says of heads and statements that they name committed rows. So
`ExportInv` has `KeptInv`, which every step keeps, deletions included: keys and places are unique,
every row is well hashed, and what callers were told is in the tables or among the deleted
rows; `IInv` as long as nothing has been deleted; and of each export under way, what it
read (`ExportShape`), that its rows are a whole chain if nothing was deleted
(`WholeChainOK`), and that what was due when it began is in it or deleted (`DueOK`).
`ExportTypeCorrect`, `WholeChainsVerify`, `PackagesCohere`, `PackagesAreComplete` and
`DeletionsShow` follow, for any exports, windows, keys, workload and number of deletions.
For the last: if the chain verified, the place before the surviving row would hold
a row with the deleted row's hash, and a hash determines its row (`HashDeterminesRow`).

**Database contract** (`DatabaseContract_proofs`). `ContractInv` says what the statements
that a session has executed (`Past`) have left behind, although another session, the
service, migrations and an operator go on:
- `RunInv`: for each statement of a schema's block there is a `Fact` that holds from
  then on; for instance every table is owned by a role that may own it (`Placed`), then the
  app role holds no more than is declared (`Within`), then all of it (`Granted`);
- `AdminInv`: the memberships the script works with are there until it gives them back;
- `LockInv`: only the session with the advisory lock is past its first statement, so no
  other run gives those back meanwhile;
- `CatalogInv`: which owners, creators, members and default privileges there can be at all;
- `LastingInv`: once a run has completed, the facts that later runs only repeat.

The lemmas on the scripts say which statements come before which: a script is a concatenation,
and the statement at a place is found by which part the place is in. `ContractTypeCorrect`,
`AppStaysToDml`, `VerifiedTablesAlterable`, `CompletedRunsConform` and `RefusalsAreForeseen`
follow, for any contracts, tables, sessions, environments and number of runs. They rest
on `ContractAssumption`, which says of the contracts what the declarations of `db_contract.py` are.
The proof of `Granted` is where its condition comes from: a job that has the DDL credential and
does not verify can create a table after the grant on all tables and before the default
privileges, and that table has neither until the next run.

**Startup** (`ServiceAuth_proofs`). `StartInv` says what startup has established when it is at its
next requirement: the required ones before it are loaded, what is loaded is truthy, and came
from the object that the environment picks. `StartupsFailClosed` adds that this is the first
variable, in the documented order, that names one: the order is given by rank, so that first
is a least number. It rests on `DeploymentAssumption`: requirements with the same name are the same,
and payloads are payloads. `AuthTypeCorrect` states the types, with `AuthInv`.

**Only model-checked.** Every invariant and every action property of the passing runs is
stated by a theorem. What is left to TLC is liveness, which with `ENABLED` is beyond the
prover (`HangsOnlyUntimed`, `EveryCallReturns`, `ClosesAfterRecovery`,
`RequestWaitsOnlyOnFailureRow`), and the four runs that find a violation.

## 7. Where code and documentation disagree

Four runs check a sentence of the repository and find it violated by what the
code does:

- `recorder_rewrite`: at revision 0004 an identical write is rejected by the
  append-only trigger, since the conflict rule is an `UPDATE`. A retry after a
  lost answer fails, and so does the second activity of an interaction.
- `export_window`: the package of a time window of an intact chain does not
  verify, because the verifier counts from position 1.
- `audit_scope`: an event inside an interaction bound without a project is lost
  without a log line, because the tenant is filled in but the scope stays.
- `database_verify`: the verify script that migrations run passes on a database
  whose bootstrap was interrupted between taking the app role its privileges on the tables and
  granting them again. The service is down and the migration goes ahead.

`PROJECT.json` quotes the sentences and lists further disagreements that were
found while modelling and need no run. System of record: the grants of the shared
database contract, the `REVOKE` of revision 0004 where one role migrates and writes, the
critical path's race, tail deletion, non-UTC timestamps, the untimed await in the
middleware, the exception of an unconfigured publisher.
Requests: the 403 of `get_auth_context`; the breaker that a late success closes
from open, unlike its docstring's list; `parent_activity_id`, which from the third hop on is
the grandparent. Database contract: an admin without superuser rights is refused,
at every repetition, where a service's own tables exist before the DDL role has
joined its role; the membership a migration of the shared database keeps. Secrets:
one-key objects with a value that is no string, other clouds' variables,
`TAPROOT_SECRETS_ENABLED`, ports of non-ASCII digits, URL schemes asyncpg refuses.

Two consequences of the code that no sentence contradicts: a repeated bootstrap
has a window in which the live service holds no privilege (between the `REVOKE`
and the `GRANT` of each schema), and a `retention_policies` table created by a migration
after the bootstrap has no `UPDATE` for its writer until the bootstrap is repeated. The shared
database's verification ignores default privileges, and a job without verification sees none, so such a
migration may also run between a bootstrap's two kinds of grant. That is why `CompletedRunConforms`
asks for all privileges only from the second completed run on, unless it is a service's database and
every job with the DDL credential verifies (`DdlJobsVerify`).

## 8. Not modelled, and the plan

Not modelled: formatting, settings, log redaction, cloud clients and identity tokens (I/O), the
reconstruction view (a sort of what was read; its interaction and activities are
read in two statements, but it promises no moment), the tables of `llm_providers.py`, the
command lines, and the legacy audit connection pool, whose insert
`publish_audit_event` no longer reaches.

Next, in this order:

1. `InternalTrust`, `InteractionLineage`: `ensure_interaction_context`,
   `verify_internal_token_policy`, a passthrough client
   (`propagate_taproot_context=False`), with the lineage theorems extended to them.
2. `ActivityRecorder_durability`: a bound on attempts that counts what is lost beside
   what rivals commit, so that `ContentionBound` becomes a theorem of `Spec`.
3. `AuditedRequests_proofs`: durability of the events whose calls were accepted, which needs
   `DInv` for calls whose arguments are not given beforehand.
