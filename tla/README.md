# TLA+ models of the RAG platform

Models, model-checking runs and machine-checked proofs for `src/` (Go: a multi-tenant
retrieval-augmented-generation platform with one control-plane database, one database per
tenant, a River job queue and connectors that ingest documents).

`PROJECT.json` holds the index: components, runs, what each definition models (`map`),
mutants, hazards, findings and theorems. Run a configuration with
`tlc -config <X>.cfg <Module>`, check proofs with `tlapm <Module>_proofs.tla`.

## 1. Inventory

| Component | State | Operations | Hard because | Module |
| --- | --- | --- | --- | --- |
| document store (`internal/documents`) | tenant tables `documents`, `document_versions`, `chunks` | `TouchIfUnchanged`, `Put`, `SoftDeleteUnseen`, `SoftDelete`, `DeleteSource`, `CollectGarbage` | statements of several jobs interleave under READ COMMITTED | `DocumentStore` |
| ingestion sink, vector reuse (`internal/ingest/sink`, `embedcache`) | mode, delete boundary, statistics of a run | `Put` (parse, hash, touch, reuse, embed, commit), `Complete` | external calls between reads and writes; failures per document; a wrong vector is silent | `DocumentStore` |
| web crawl (`internal/connector/webcrawl`) | frontier, visited/emitted sets, `crawl_pages` | `run`, `process`, `emit`, `markUnchanged`, `finish` | concurrent fetches, resume after a crash, a site that changes | `WebCrawl` |
| API connector (`internal/connector/api`) | cursor per endpoint, state of a walk | `Sync`: five paginations, mapping, cursor, completion | collections change while they are walked; failures and retries | `SourceIndex`, `ApiConnector` |
| upload, `ingest_document`, embedding client | jobs, objects, breaker window | `Ingest`, `Run`, batches with retry and circuit breaker | uniqueness, idempotency keys, partial failure | `UploadIngest` |
| reindex (`internal/ingest/reindex`) | `chunks_new`, cursor | prepare, step, verify, swap, drop | live writes during the copy | `UploadIngest` |
| worker, jobs API (`internal/worker`, `cp/jobs`) | River rows, `jobs` rows, per-tenant slots | limiter, mirror, handlers, `Cancel`, `Reconcile` | two records of one job, crashes, snoozes, cancels | `JobMirror` |
| scheduler, sources service | `sources` rows, `next_run_at`, `sync_run_count` | `sweep`; create, update, delete, sync | one transaction for all sources; uniqueness swallows runs | `SourceLifecycle` |
| tenants, provisioning, migrations | registry rows, roles, databases, schema versions, settings | provision, migrate, suspend, schedule and run a delete, patch | steps outside transactions on three databases | `TenantLifecycle` |
| tenant resolver, keys (`internal/tenant`, `crypto`) | record cache, pool cache, key rings | `Open`, eviction, move, new and rotated keys | stale caches, racing builders, a fleet in transition | `TenantPools` |
| authentication (`internal/cp/auth`) | users, identities, sessions, members, keys, grants | login, OIDC callback, gates, membership, impersonation | handlers read, decide and write in separate statements | `AccessControl` |
| rate limiter, usage counter | buckets, buffered counts | `Allow`, `evictIdle`; `Add`, `Flush`, `restore` | eviction and flush beside requests; the process stops | `Metering` |
| query, retrieve, rerank, answer, llm, query log | settings, a request in flight, log rows | `Query`, `QueryStream`, `Retrieve`, `Log`, `Feedback` | degradation paths, providers that fail, an asynchronous log | `QueryPipeline` |
| sitemap, registry, parsers, chunker, configuration, observability, evaluation, web UI | none or text | | | not modelled, section 6 |

How they interact: the scheduler and the APIs insert a River job and a `jobs` row in one
transaction. A worker process fetches the job; the limiter, then the mirror wrap the
handler. The handler of `sync_source` builds a sink and a connector and lets the connector
push documents into the sink; the sink writes the tenant database. `gc_tenant`,
`delete_source`, `ingest_document` and the admin API write the same rows beside it.
Retrieval reads only the view `live_chunks`. Every access to a tenant database goes through
the resolver, which serves what the registry row says; provisioning, migration and moves
write that row. Every `/v1` request passes a gate and the rate limiter first.

## 2. Modules

`LiveIndex` is the abstract specification of what retrieval is promised: each document is
hidden or shows one whole version, and one step publishes one version or hides documents.

`DocumentStore` is the store and the sink for the documents of one source. `doc` and `ver`
are the `documents` and `document_versions`/`chunks` rows, `now` the tenant database's
clock, `job` the River row of the current `sync_source` job, `exec[w]` the attempt a worker
executes (the `sink.Config` and `DocsSeen > 0`), `put[w][d]` a `Sink.Put` in flight and
`gc` a `CollectGarbage` call. An action is one SQL statement, one transaction, or one
external call. A batch of the collector is a single statement in the code and two actions
here: Postgres chooses the victims from the statement's snapshot and locks the rows later,
testing again only `id in (victims)`. A content hash stands for the normalised text, and a
vector is the pair of the text it was computed of and the model it was computed by.
`DocumentStore` implements `LiveIndex` under the mapping `live <- Live`, the view
`live_chunks`.

`WebCrawl` is the crawler run by the attempts of successive sync jobs of one source. The source,
its configuration and what may go wrong with it are the variable `source`, chosen at the start
from the constant `Sources`, so one run covers several. `site` is what the server answers,
`pages` the `crawl_pages` rows, `doc` the documents by external id, `crawl` the frontier, the
visited, skipped and emitted sets, the page counter and one program counter per URL. `process`
is split at every request and statement, so pages of one level interleave and a crash can fall
anywhere. What a full sync has to come by (`Reachable`) is said without recursion, by walks over
the links (`Trails`), so that it can be proved. Timestamps are compared only with the job's
`created_at`, so they are abstracted to the number of the job.

`SourceIndex` has an API source, what is stored of it and what a sync promises; `ApiConnector`,
the steps, is the other connector that keeps state between runs: a walk over the pages of every
endpoint for each pagination (none, page, offset, cursor, link header), the identity of a
record, the cursor in `connector_state`, Retry-After, and the delete pass. The upstream
collections change between the pages. A page is the set of ids at the next places of the
endpoint's listing, emitted from the least. As history it keeps which records a walk may have
missed: those changed behind it, or shifted past it by a removal; those of an endpoint whose page
came without an items array or that was cut by the page ceiling; and those whose template or
embedding failed. A finished walk adds them to `missed`, where they stay.

`SyncContract` is the abstract specification of what a connector and the sink promise each
other (`connector.Sink`, `connector.SyncRun`, `sink.Mode`): an attempt enumerates the source,
then completes; documents are put while it enumerates; the one step in which a document
vanishes is the completion of a full run, which leaves exactly what some attempt of the job has
put, or everything. An attempt may end anywhere, and what it put counts for the next attempt of
the job. `WebCrawl` and `ApiConnector` both implement it under `phase <- Phase`,
`full <- job.full`, `live <- Live`, `seen <- Seen`: the phase is read off the crawler's level or
the walk's program counter, and `seen` is the active documents with this job's `last_seen_at`,
so that the resumed attempts of a job share one boundary is part of what is shown. It speaks of
one attempt at a time; that an attempt which River gave up on may still be putting documents is
`DocumentStore`'s subject (`IngestedNotSwept`).

`UploadIngest` follows a file from `POST /v1/documents` through the object store, the
idempotency lookup, the job with its uniqueness rule, the embedder's concurrent batches
behind a breaker, and the commit, beside deletes and the steps of a reindex. No command
drives the reindexer, so its steps come in any order the package allows.

`JobMirror` is the queue as the platform uses it: `river` rows (external: attempts,
retries, snoozes, rescues, cancels), `mirror` the `jobs` rows, `exec` the goroutine of a
job through limiter, mirror, handler and back, `slots` the limiter's counter and `api` a
cancel request by statement. River's `attempt` and `max_attempts` appear as their
difference.

`JobRecords` is the abstract specification of the two records of a job, whoever writes them:
inserted together; open to any report while River may still run the job, except that a
cancelled row stays cancelled; closed with River's outcome or by a cancel under way once River
is done; and then final. `JobMirror` implements it under `stage <- Stage`, `row <- Row`, which
forget attempts, goroutines and requests. Its `Report` is as weak as it is because the code is:
a row that says succeeded or failed is opened again when River runs the job once more, where
the diagram of SPEC-08 section 3 has both final.

`SourceRows` has the state of a tenant's sources and what is promised of them,
`SourceLifecycle` the steps. `src` is the row (status, schedule, whether due, run count),
`sync` the sync job of each source as a pair of River's row and the `jobs` row, `del` the
delete job, `collect` the collection job, `api` the delete requests in flight and `content`
the sources that have something in the tenant database. The jobs API may cancel any of the jobs
(`SyncEnds`, `DeleteCancelled`, `GcCancelled`). The leader's sweep is one action
because it is one transaction: it is enabled only when no insert in it collides. That the two
records of a sync come apart is `JobMirror`'s subject; here a fault does it.

`TenantLifecycle` has the registry row (`reg`), the `tenant_databases` row (`row`), the
role's password (`role`), the database (`db`: made, extensions, schema version) and calls in
flight, each one statement or transaction at a time; every step of a call may fail, and a
failed call is retried by starting again.

`TenantPools` is one process's resolver in detail (record cache with a TTL, pool cache with
its LRU cap, requests between lookup, dial, insert and use) and, of the rest of the fleet,
the keys each process holds. `Move`, key deployment and `rotate-dek` go on beside it.

`AccessControl` has one tenant's users, identities, sessions, members, one API key and one
impersonation grant; a handler is a thread that keeps what it read between statements, any of
which may fail (`StatementFails`, `WrongPassword` without its write). The
roles `editor` and `viewer` are alike to the permissions it uses.

`Metering` has the token buckets, each with a generation so that a request can hold an
evicted one, and the usage counter between memory, a flush and `usage_daily`.

`Question` has the state of a question and what its answer promises, `QueryPipeline` the steps:
it takes one request from its settings through rewriting or HyDE, hybrid search
with reciprocal-rank fusion, reranking with its fallback, the floor, the token budget,
generation or streaming, to its log row and a rating. A stream may break before or after the
event that brings its usage, and the process may exit with requests in flight. Every provider call is a bounded loop
of attempts behind a breaker of its own, because the factories build a provider per request.
With the shipped defaults (3 attempts, 5 failures) that breaker cannot open, so no query degrades;
the run takes a lower threshold, which `llm.Config` allows, to reach the degraded answers.
Chunks with equal fused scores come in any order (`Fusions`): the query orders by the score alone.

`MC*` modules give constants their values where a `.cfg` cannot; `*_proofs` modules hold the
theorems. A module that is proved about has its strengthened invariant, `IInv`, at its end;
that of `QueryPipeline` is `QueryInv` in `Metering_proofs`, beside its proof.

History variables and fields are kept where a property needs them, and no guard reads them
except to bound the state space: `job.ingested` (`DocumentStore`), `had` and `present`
(`WebCrawl`), `worked` (`JobMirror`), `torn` and `mixed` (`TenantLifecycle`), `hist`
(`AccessControl`, `Metering`), `missed` (`ApiConnector`), `rx.behind` and `ended`
(`UploadIngest`), `lapsed` (`SourceLifecycle`).

Abstractions that allow more than the code: two attempts of one job may run at once (the
attempt timeout is below `RescueStuckJobsAfter`, so this needs a paused or partitioned
worker), `PutTouch` finds a row made again since it was read, and any Put may fail.
One clock serves the control plane and the tenant database: skew is not modelled.

## 3. Runs

| Run | Shows | Bounds |
| --- | --- | --- |
| `store` | `LiveIsWhole`, `IngestedNotSwept`, `VersionsImmutable`, and that `DocumentStore` implements `LiveIndex` (`IndexSpec`) | 1 document, 2 contents that share a chunk, 2 workers on one job, retention 0, clock 0..1: a version can be replaced, collected, reused and rolled back to; the proofs cover every other size |
| `crawl` | `PresentNotSwept`, `FullSyncCovers`, `HashMeansIngested`, `OnePutPerCanonical`, `SweepsAfterFullPass`, and that `WebCrawl` implements `SyncContract` (`ContractSpec`) | four sources: a chain of 3 pages aborted anywhere while the site changes twice; a fork with every fault, a shared canonical URL and a cap below its pages; a fan of 4 pages with a robots exclusion and lost pending rows; 5 pages of which one is first found the long way and later by a shortcut. 2 jobs each but the first |
| `jobs` | `WithinCap`, `SucceededWasWorked`, that `JobMirror` implements `JobRecords` (`RecordsSpec`), and the liveness properties `MirrorConverges`, `JobsFinish` | 2 jobs for 1 slot, 2 attempts, one job under every fault (crash, lost mirror write, cancel, snooze), the other under crash and snooze |
| `sources` | `OpenRowHasJob`, `RemovalIsOwed`; liveness: `DueIsSwept`, `GcIsEnqueued` | 2 sources, one edited; every run full (no property depends on the count); 2 faults |
| `tenants` | `ServedIsBacked`, `DeletedIsGone` | 2 calls in flight, 2 passwords, 2 migrations, 1 failure at any statement |
| `pools` | `NoPoolLeaks`, `SecretsOpen`; liveness: `WritesStop` | 2 tenants for 1 pool, so that requests evict each other; 2 requests, 2 processes, 1 change of the registry |
| `query` | `CitationsResolve`, `CountedOnce`; liveness: `RequestsEnd`, `AnswersReachTheLog` | 1 request (requests share only the settings and the tenant's row), 3 hits, `final_k` above the ceiling of `top_k`, a budget of 2 blocks, a floor between a one-list and a two-list fusion score, 2 changes of settings or status |
| `access` | `OwnerRemains`, `OneUserPerSubject`, `LockoutHolds`, `CrossTenantAudited` | 3 users, 1 subject, 2 handlers at once, 3 handlers in all, lockout after 2 failures, any statement failing |
| `metering` | `WithinRate`, `UsageConserved` | 1 key, 2 requests at once, 3 in all, 2 buckets per name, 3 ticks over 2 days, 1 stop, 1 change of the limit, 1 fault |
| `ingest` | `LandedIsCurrent`, `LiveIsSearchable`; liveness: `AcceptedEnds` | 1 file, 3 uploads of 2 contents of which one has no chunks, 2 of them with an idempotency key, 2 attempts, 3 batches of which 2 failures open the breaker, 2 faults |
| `api` | `CursorCovers`, `FullSyncMirrors`, and that `ApiConnector` implements `SyncContract` (`ContractSpec`) | 2 endpoints of 2 records, the paginations with and without a size, 2 jobs of 2 attempts, 2 changes of the collections, 1 fault |
| `reupload` | expected to fail, section 5 | 1 file uploaded twice |

The bounds are small because each property fails, when a mutant makes it fail, with one or
two of everything: two attempts, two contents, two pages on one level, two jobs for one
slot, two requests for one pool, one failed statement. `CHECK_DEADLOCK FALSE` stands where
the model's bounds (clock, jobs, changes, handlers, faults) let a behaviour end and where a
finished queue really stops; only `pools` checks for deadlock.

Fairness, and why the code justifies it:

* `JobMirror`: weak fairness of the steps of each job (River polls, retries and rescues for
  ever; a handler returns because its attempt has a timeout) and of the reconciler (a
  periodic job and a pass at start). Crashes, cancels and enqueues are not fair. Every fetch
  takes an attempt, which bounds crashes; snoozes are bounded by `MaxSnoozes`.
* `SourceLifecycle`: weak fairness of the reconciler, of the collection job and of River's
  cleaner; strong fairness of `Sweep`, because the scheduler ticks for ever and a tick that
  fails changes nothing, so a sweep that could succeed again and again does. That syncs and
  deletes end is not needed. Requests, the passing of time and faults are not fair.
* `TenantPools`: requests in flight go on, and the TTL of a cached record passes.
* `QueryPipeline`: the handler's own steps go on (`Proceeds`: the database answers, the embedding
  client has a timeout of 60 s), and the log's goroutine inserts or fails within its timeout. Chat
  providers and rerankers owe nothing: their clients have no timeout and the request's context no
  deadline, so a call or a stream may hang for ever. `RequestsEnd` therefore takes their answers as
  its hypothesis (`WF_vars(ProviderAnswers(r))`), for each request, and without it TLC finds the
  request that hangs. That a client hangs up is not fair either.
* `UploadIngest`: the job of an upload is worked on.

## 4. Proofs

Every safety property of a component with a `_proofs` module is a theorem there, for every
value of the constants that meets the module's named assumption. Each proof has the same
shape: an inductive `IInv`, one lemma per action or per group of actions that move the same
part of the state, and one theorem per property. Every `IInv` was checked by TLC on the
module's run before it was proved. What an `IInv` adds to the properties, and why it is
needed. `TypeCorrect` is of the module's type invariant; TLC has checked these with the `IInv`.

**`DocumentStore_proofs`** (`ConstantsAssumption`: `TextOf` is a function, `NoHash` and
`NoVersion` are outside the values, at least one model, a positive batch size).
`TypeCorrect`, `LiveIsWholeAlways`, `IngestedNotSweptAlways`, `VersionsImmutableAlways`, and
`ImplementsLiveIndex`: initial states map to initial states, every step to a step of
`LiveIndex` or a stutter. `IInv` adds `VersionsWhole` (every stored version is whole, live or
not: without it a rollback could publish a broken one, and reuse could copy a wrong vector),
`CurrentStored` (what a row points at is stored: the foreign key), `PutsSound` (what a call in
flight carries is right, and complete past `Embed`), and `SeriesOrdered` (no attempt's delete
boundary is later than the creation of the current job, and what that job ingested was seen
since).

Its second half, from "The sources" on, is about the sources whose documents these are, taken
with `L == INSTANCE SourceLifecycle` (`SourcesAssumption`: finitely many sources, any of them
edited, any full-run interval and number of faults). `SourcesTypeCorrect`,
`OpenRowHasJobAlways`, `RemovalIsOwedAlways`. Typed, the two promises are inductive as they
stand (`SourcesInv`): a sync is enqueued with both records and both are forgotten together, and
every step that empties `del` or `api`, or fills `content`, of a deleting source either leaves
a delete job behind or is one of the five lapses.

**`WebCrawl_proofs`** (`CrawlAssumption`: finitely many URLs, and each source of `Sources`
is well formed: any site, links, canonical URLs, exclusions, `max_depth`, `max_pages`, faults,
jobs and changes). `TypeCorrect`, `OnePutPerCanonicalAlways`, `HashMeansIngestedAlways`,
`SweepsAfterFullPassAlways`, `PresentNotSweptAlways`, `FullSyncCoversAlways`. `IInv` adds
* `FrontierSound`: seeds, recorded pages and pages at work are in the frontier or skipped, and
  the levels below the current one are gone through. With `OnlyFinishDeletes` (no other step
  makes a document inactive) it gives `SweepsAfterFullPass`;
* `FetchSound`: the page counter counts each page once, so a cap at the size of the site cuts
  nothing off;
* `EmitSound`, `IngestSound`: the emitted set and the documents behind each stage of a page,
  for `OnePutPerCanonical` and `HashMeansIngested`;
* `SeriesSound`: through aborts and resumptions a page there since the job was created has its
  document seen as soon as the series is done with it, for `PresentNotSwept`;
* `WalkUnderWay`, `WalkSound`, `CoverSound`: for `FullSyncCovers`. That every walk of a site is
  followed would be an induction over walks, which the prover cannot do. It is turned into one
  over the levels of the crawl: walks of up to the current level end in the frontier
  (`CoverSound`); when a level is done the page before the last of a longer walk has been gone
  through, so what it links to is in the next level (`NextLevelWalks`).

`ImplementsSyncContract` rests on `FrontierSound` (an attempt belongs to an active job, and no page
is at work behind the last level, so no document is put once the crawl is "enumerated") and on
`SeenBound` (no `last_seen_at` is ahead of the job, so that a new job has seen nothing), which is
inductive given `IInv` and proved on its own (`SeenBounded`).

**`UploadIngest_proofs`** (`UploadAssumption`: positive bounds, `Blank` is a content).
`TypeCorrect`, `LandedIsCurrentAlways`, `LiveIsSearchableAlways`. `IInv` adds `JobsSound` and
`OneJobPerFile` (River's uniqueness: without it two attempts for one file could land in either
order), `LandSound` (an attempt about to return has made its content current) and
`SearchSound` (a version has its rows in `chunks` or is behind the swap).

**`JobMirror_proofs`** (`JobsAssumption`: any finite set of jobs, attempt budget, cap, and
faults per job). `TypeCorrect` (no budget is over- or underdrawn), `WithinCapAlways`,
`SucceededWasWorkedAlways`, `CancelledStaysAlways`, and `ImplementsJobRecords`. `IInv` adds `SlotsCounted`
(the counter is the number of goroutines that hold a slot, which is what makes release safe),
`BudgetsSound` (only running jobs are executed, a waiting job has an attempt left),
`WorkedSound` and `EnqueuedTogether` (the River job and its `jobs` row appear in one
transaction; without it a new row could overwrite a cancelled one). The step lemma `OneJob`
reduces every action to the row, status and goroutine of one job. The refinement is proved job
by job: `WorkRecorded`, `CancelRecorded` and `ReconcileRecorded` map every step to a step of
that job's records, `OthersKept` leaves those of the other jobs alone. It rests on
`BudgetsSound` (the mirror is only written of a job that River has as running, so a settled row
is never written) and on `EnqueuedTogether`.

Its second half, from "The API connector" on, is about the walks of `sync_source` jobs, taken with
`A == INSTANCE ApiConnector` (`ApiAssumption`: positive numbers of endpoints and records, page sizes
and bounds; any well-formed configurations). `ApiTypeCorrect`, `CursorCoversAlways`,
`FullSyncMirrorsAlways`, `ImplementsSyncContract` (one lemma per step of the contract:
`AttemptKeepsContract`, `EmitKeepsContract`, `CompleteKeepsContract`, `EnqueueKeepsContract`).
`ApiConnector` has its `IInv`:
* `WalkSound` is the core: a record of the endpoint at work that exists, is asked for and cannot have
  been missed is `Stored` by this job, `InHand` on the page or `ToCome`; one of an endpoint that is
  done is stored when the run is full. At the end of a walk only `Stored` is left;
* `ItemsSound`: an item on the page is the record as it is, unless the record was removed or has
  changed after the stored cursor, and one that changed is known to be missed. It also bounds the
  numbers given to records without an id, so that no later record of the walk overwrites an earlier one;
* `DocsSound`: a document seen by the job is of a record that was there since, and with ids its key is
  its record. `TimesSound` and `PlacesSound`: nothing is newer than the API's clock, and what each
  place of an attempt implies (a full run asks for everything).

That the walk ends only when nothing is left is arithmetic over places in a listing: a place is a
cardinality (`Rank`), every place up to the length is taken by some record (`RankHits`), so a page of
an API that honours the page size is short only when it is the last (`PageCovers`). Without
`HonoursSize` that is false: the API's own cap ends the walk at its first page.

**`TenantLifecycle_proofs`** (`TenantsAssumption`: at least one migration, finitely many
passwords; any number of calls). `TypeCorrect`, `ServedIsBackedAlways`, `DeletedIsGoneAlways`.
`IInv` adds `CallsSound` (the places of each operation), `StoresSound` (what the databases see
to themselves) and `Sound`, which says, unless an enrolment and a teardown overlapped, what
each place of a call implies of the four stores: the connection row is recorded first and
cleared last (`RowFirst`), an enrolment (`EnrolmentSound`) and a teardown (`RemovalSound`) have
their earlier steps behind them, and an activated tenant is backed until a teardown starts to
remove things (`Backed`).

**`TenantPools_proofs`** (`PoolsAssumption`: finitely many tenants and requests, a positive
cap; any fleet). `TypeCorrect`, `NoPoolLeaksAlways`, `SecretsOpenAlways`. `IInv` adds
`OnePoolPerTenant` (else moving a pool to the front of the LRU list would drop another) and
`RotationSound` (what each stage of `rotate-dek` guarantees of rows and rings).

**`Metering_proofs`** (`MeteringAssumption`: positive rates and bursts, and an idle TTL no
shorter than a refill, which the code's comment on the TTL promises). `TypeCorrect`,
`WithinRateAlways`, `UsageConservedAlways`. `WithinRate` speaks of all intervals and is not
inductive; `WithinPotential` is: what was admitted since any moment and what the current
bucket, or a fresh one, could admit at once stay within the rate. Without the assumption on the
TTL an evicted bucket would come back fuller than it left.

Its second half, from "One question" on, is about `QueryPipeline`, the handler a metered
request ends in, taken with `Q == INSTANCE QueryPipeline` (`QueryAssumption`: finitely many
requests; hits are lists, scores, budget and retries naturals; positive limits; any rankings
and floor).
`QueryTypeCorrect`, `CitationsResolveAlways`, `CountedOnceAlways`. `QueryInv` adds what is true
of a request at each stage: nothing is cited before a context is built, and the context is what
passed the floor (`ContextSound`); nothing is counted or billed before the end, and each way to
end has its counts and its logged citations (`CountSound`); the log row waits for the end, a
rating for the row (`LogSound`). That fusing, reranking, the floor and the budget return lists
of the candidates they were given is proved, not assumed: `AscendingLists`, `FusionsTyped`,
`ReorderByScoreTyped`, `PassFloorIs`.

**`AccessControl_proofs`** (`AccessAssumption`: finitely many users and handlers, a positive
lockout threshold). `TypeCorrect`, `OwnerRemainsAlways`, `OneUserPerSubjectAlways`,
`LockoutHoldsAlways`, `CrossTenantAuditedAlways`. `IInv` adds what a handler between two
statements may rely on unless its race was recorded in `hist.raced`: `HandlersSound`,
`LoginsSound`, `CallbacksSound` and `GuardSound`; and `LocksSound`, which gives `LockoutHolds`: the
stored count is the guesses that were written, it is below the threshold unless a lock was set, and
each lock window that passed lets one more through.

Eleven theorems are of type invariants that no run lists, three (`Invariance`) of a whole
inductive invariant, and `CancelledStaysAlways` of what `RecordsSpec` implies; every other one
listed states a property of a run. No invariant or action property is left to TLC alone: only model-checked is every liveness
property, because the prover handles neither `ENABLED` nor fairness. The library's induction theorems take an operator, which the
prover cannot instantiate; where a proof needs one it argues from a least counterexample instead
(`WellOrder`, which follows from `NatLessThanWellFounded`), and no module that is proved about
uses a recursive operator.

## 5. Where code and promise part

One disagreement between the code and its documents is a run of its own:

* `reupload`: `ingest_document` is unique by source and external id over River's default
  states, which include completed. A file that is uploaded again while the earlier job's row
  exists is answered 202 with that job, and the new bytes are never ingested; SPEC-04
  promises a new version.

Other behaviours of the code are in the models, and the properties are stated around them;
each is a hazard in `PROJECT.json` at its line:

* the collector chooses soft-deleted victims from a snapshot and deletes them by id, so a
  document restored in between goes too;
* a crash between the write of a crawled page and that of its links loses the links for the
  rest of the series (`FullSyncCovers` is stated of crawls that are not aborted); the worker may
  also die during the put of one of two pages that share a canonical URL, after the other was
  recorded on the strength of it (`PresentNotSwept` is stated of pages that share none); a
  recorded page keeps the depth it was first found at, so a shorter walk to it that appears later
  does not bring the pages behind it within `max_depth` (`FullSyncCovers` asks for all pages
  within it of the first sync only; `docs/connectors/web_crawl.md` calls the depth exact);
  an error of
  `Put` is logged and the crawl completes; a failed page counts as absent, which is why
  `PresentNotSwept` is stated without transient failures; a crawl cut by `max_pages` still
  runs the delete pass; a swept page that returns unchanged stays deleted until the next full
  sync;
* a snooze on the last attempt is mirrored as failed, and the row is opened again later; a
  cancel of a queued job that a worker picks up at that moment leaves the mirror cancelled
  while River may record completed;
* what a deleting source holds may stay for ever (FR-SRC-12 promises removal), in the five ways
  `lapsed` records: the enqueue fails after the source was marked, and later deletes are no-ops;
  the job collapses onto a completed one that River still keeps, which the queue takes for an
  active delete; every attempt is discarded; the jobs API, which takes a job of any kind, cancels
  it (`cp/jobs/service.go`); or a sync that was running or is requested, or an upload that names
  the source, writes after the delete job, because neither asks for the source's status
  (`RemovalIsOwed` is stated around these). A patch to active stops no delete job;
* a teardown drops database and role outside a transaction while the deletion can still be
  cancelled (`torn`), and an enrolment can overlap with it (`mixed`);
* after a move the pool of the old host stays in the cache until it is evicted, because no
  command starts the listener or the idle sweep;
* `rotate-dek` reads all secrets before it writes the first one back: a password changed in
  between is overwritten with the one it read (`SecretsOpen` is about keys, which stay right);
* overlapping statements can remove the last two owners, lose a count of failed logins, or
  give two callbacks of one subject different users (`hist.raced`); the comment at
  `membership.go:49-52` says the last-owner rule holds under concurrent removals;
* a wrong password whose count the database does not write is answered with that error and costs
  nothing (`LockoutHolds` adds these to the guesses it allows); an impersonation grant and its audit
  row are two statements, where the comment at `impersonation.go:84-85` has one transaction, so a
  grant may stand unaudited; the crawler calls a sink from several goroutines, which `sink.go:191`
  declares it not safe for;
* a provider that does not answer holds a request, its goroutine and its connection until the client
  leaves: the comments at `llm.go:190-193` and `rerank.go:61-63` leave the bound to the request's
  context, to which neither a handler nor the server gives a deadline (`RequestsEnd`);
* a stream that breaks after its usage has arrived is billed, with an error event to the client
  (`CountedOnce`);
* an upsert of usage that was applied but reported an error is counted twice (`hist.twice`),
  and what is buffered when the process dies is lost (`hist.lost`);
* when the reranker fails, the fused order keeps its scores and a floor meant for reranker
  scores refuses the answer; the degraded JSON answer shows an id that is not logged;
* an API that caps its pages below the limit asked for ends every walk at its first page
  (`HonoursSize`), and records without an id overwrite each other across runs (`cfg.ided`);
* `InsertChunksNew` does not fill `content_hash`, which the tenant schema declares NOT NULL,
  so a reindex step over a version that has rows is refused (`InsertRefused`); a version that
  was not live at the verification and comes back later has no rows after the swap
  (`rx.behind`).

## 6. Not modelled

* Sitemap connector: the crawler of `WebCrawl` with its frontier read from XML; its
  lastmod skip is a further reason not to fetch.
* Parsers, chunker, HTML extraction, URL normalisation, robots rules, templates, prompts,
  provider wire formats: text in, text out. Where the state machines need them they are
  parameters (links, canonical URLs, exclusions, chunks of a content) or may fail.
* Connector registry, configuration, logging, metrics, tracing, OpenAPI, rendering: static or
  without influence on the state.
* Evaluation: an offline report over `query_log`. Web UI and parser service: clients and a
  stateless server.
* `query_log` retention is independent of the documents the collector removes, and the
  crawl-page retention never runs (`gcWorker` passes an empty policy). Products and tags are
  plain columns.
* The control plane's own migrations; the half-open state of a chat provider's breaker, because
  that breaker lives as long as one call (an embedding job's is in `UploadIngest`); more than one
  tenant except in `TenantPools`.

## 7. Plan

1. `AccessControl`: invitations are not in the code yet; two tenants, so that a key of one is
   never accepted for the other.
2. `WebCrawl`: the sitemap frontier and partial bodies; `DocumentStore`: embedding failures
   and the delete pass.
3. A fourth abstract specification: the tenant's status machine, with `TenantLifecycle` shown
   to implement it.
