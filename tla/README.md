# Verification of Lighthouse Studio

TLA+ models of the parts of Lighthouse Studio whose correctness depends on the order in which
things happen: the audit log's hash chain, realtime delivery from the change stream to the
client's response, the upgrade of several databases to one version, file storage and its quota,
workspaces with their members and invitations, the pipeline of AI artifacts and their approvals, the
history and deployment of customer schemas, and idempotent requests to the data API. TLC
model-checks each model on small instances, TLAPS proves the safety properties of all of them for
every value of their constants. `PROJECT.json` lists for every definition the lines of source it
models, for every run what it checks, for every property a plausible bug that breaks it, and for
every hazard of the code the property that watches it.

    tlc -config AuditMongo.cfg MCAuditChain        # any run: cfg and MC module from PROJECT.json
    tlapm AuditChain_proofs.tla                    # the proofs of one component

Source paths below leave out `src/packages/`.

## 1. The system and its parts

Lighthouse Studio is a monorepo of ports and adapters: `core` holds the services, `ports/*` the
interfaces they call, `adapters/*` an implementation per database or external service (in-memory
ones for tests among them), `composition` wires them, `apps/*` are the web application, a worker
and the command-line tools. The state that outlives a request is in databases (PostgreSQL, SQL
Server or MongoDB) and, for realtime, in the memory of the API process. A process is one
JavaScript thread: what runs between two awaits is atomic, everything else interleaves.

### Modelled

| component | state it keeps | operations | talks to | what is hard | what makes it correct |
|---|---|---|---|---|---|
| Audit log (`adapters/audit-*`, `ports/audit`) | per workspace a chain row (last sequence, last hash) and log rows | write, writeBatch, verifyChain | every service writes to it; the database serialises it | three statements per entry, concurrent writers, failures and retries between statements | the chain verifies, sequences are unique, a batch is all or nothing, what is acknowledged is there |
| Change-stream fan-out (`adapters/changestream-shared`) | subscribers with a bounded buffer each | publish, terminate, close; next and return of the iterator | source adapters publish, iterables are consumed by for-await loops | drop-oldest, sleeping consumers, the end | every loss is announced, order, no lost wake-up, loops end |
| Realtime subscriptions (`core/.../realtime/subscription-manager.ts`) | per subscription position, counters, token bucket, buffer; what a disconnected client may resume | subscribe, resume, detach, force-close, schema change; the event generator | change stream below, SSE loop above, connection registry beside | abort seen only at the next event, permission checks that outlast a disconnect, objects copied by value around a shared array | one stream per client, no silent loss, no duplicates, cancelled means silent |
| SSE delivery loop (`sse-handler.ts`, mergeAndDeliver) | two arrays of iterators and promises | race, write, refill, remove | generators above, response below | index captured in a promise while splice renumbers | each event once, no stream starves, the loop ends |
| Realtime connections (`connection-manager.ts`, `sse-handler.ts`) | registry, two indexes, subscriptions per connection, resume state | register, open, close for six reasons, idle eviction | handler, event bus (revocations), timers, framework | closes between the handler's awaits | indexes agree, limits hold, close releases everything |
| Platform upgrade (`core/src/upgrade`, `adapters/platform-version-*`, platform CLI) | version rows of every database | upgrade, rollback | one row store per database, nothing spanning them | parallel records of which some fail, a process that dies between databases, re-runs | ok means everywhere, the window is kept, retry is possible, skew is bounded |

| Object storage (`core/.../storage/*.service.ts`, `storage-reconciliation.job.ts`) | file records, bytes, buckets, quota row, signed URLs | upload, copy, move, tag, delete, bucket deletion, URLs; the nightly job | web handlers; record repository and byte store, nothing spanning them | bytes and record written one after the other, the quota row read and written back whole | records have their bytes, the quota is what there is or what is known to be lost, limits are passed by no more than that |
| Workspaces, members and invitations (`core/src/services/{workspace,member,invitation,invitation-flow}.service.ts`) | workspaces, members, role grants, invitations | create, archive, restore, transfer, delete; add, change role, remove; invite, accept (two flows), revoke | web handlers; relational repositories with unique keys, no transaction across calls | check and write in different calls; results of writes not looked at | one user per invitation, roles as reported, a workspace keeps a member |
| Stage pipeline and approvals (`core/.../ai/{stage-pipeline,artifact,generation}.service.ts`, intent capture, PRD generation) | artifacts with version and quality signals, usage records | conversation turns, brief and PRD generation, edit, submit, approve, reject, archive | model providers for seconds between a read and a write; artifact table with optimistic versions | long waits between read and write, signals outside any transaction, a budget summed before and paid after | nothing written over, one decision on what was read, PRD of approved content, bounded overspend |
| Schema management (`core/.../schema.service.ts`, `migration-planner.ts`) | schema row, snapshots, the customer's tables | create, save, deploy, rollback, delete, template and import | designers; three transactions per deploy | DDL before the version check, snapshot after it | history complete and true, tables as recorded |
| Data API with idempotent operations (`api-request-handler.ts`, `idempotency.helper.ts`, `customer-repository.adapter.ts`) | customer rows, idempotency records | create, update, archive, restore, delete, bulk operations | client SDK that sends again; audit log | two requests with one key, lapsed records, bulk operations that stop halfway | one answer per key, a retry runs nothing, answers are true |

What is not modelled, and why, is section 7.

## 2. The modules

| module | models | depends on |
|---|---|---|
| `AuditLog` | abstract: an append-only log per workspace, batches appended in one step (this is what the in-memory adapter does) | |
| `AuditChain` | the database adapters, one action per SQL statement | instantiates `AuditLog` |
| `Fanout` | ChangeStreamFanout | |
| `ChangeFeed` | one subscription over its whole life | |
| `SseMerge` | mergeAndDeliver of one connection | |
| `Connections` | connection manager, SSE handler and the maps of the subscription manager, together | |
| `Upgrade` | orchestrator and version rows of all databases | |
| `Storage` | the storage services, their repositories and the reconciliation job, together | |
| `Tenancy` | the services of workspaces, members and invitations over one set of tables | |
| `ArtifactPipeline` | four services that write `ai_artifacts`, and the model calls between | |
| `SchemaService` | one customer schema, its snapshots and the tables built from it | |
| `DataApi` | the request handler, the idempotency helper and the row repository, together | |
| `MC*` | values of constants for the runs | the module of that name |
| `*_proofs` | theorems and proofs | the module of that name |
| `Realtime_proofs` | theorems and proofs of `Connections`, `Fanout` and `SseMerge`, whose names are kept apart (`FanoutSpec`, `MergeSpec`, ...) so that one module can extend all three | those three |
| `Versions_proofs` | theorems and proofs of `Upgrade` and `SchemaService`, whose names are kept apart in the same way (`UpgradeSpec`, `UpgradeTyped`, ...) | those two |

`Connections` composes three source files that share state (the registry, the subscriptions map and
the handler between its awaits); a connection there is a set of streams that run until they end.
What one of those streams delivers is `ChangeFeed`, and how the streams of one connection share a
response is `SseMerge`. Where two models meet, the upper one takes the lower one at its weakest:
`SseMerge` lets a stream answer or end at any moment, `Connections` lets it end at any moment, and
`ChangeFeed` reads a change stream that is in order.

`Storage`, `Tenancy`, `ArtifactPipeline` and `DataApi` each compose the services that write the same
tables, because a property of one (an invitation accepted once) depends on the steps of the others
(the member insert, the second accept flow). `SchemaService` and `DataApi` are not composed: the tables a
deploy creates lie in the schema `public` and lack the `_pf_` columns, so the repository of the data API cannot
serve them; `DataApi` starts from tables as its migrations and tests create them.

### AuditChain

`committed` is what other sessions read of a workspace: its row of `audit_chain_state` (present,
sequence, hash) and its rows of `audit_log`; `dirty` is the same as the transaction that holds the
row lock sees it. `pc` is the next statement of a writer, `at` the local variables of `_writeOne`,
`results` the array a batch collects, `reply` the answer its caller saw.

| action | code |
|---|---|
| `Call` | entry of write / writeBatch |
| `Reserve`, `ReserveMiss`, `Create` | UPDATE ... RETURNING; it matched no row; INSERT of the chain row |
| `InsertLog` | INSERT INTO audit_log |
| `WriteHash` | UPDATE of last_hash, then the next entry or the end of the call |
| `Commit` | COMMIT; its answer may be lost, so `reply` may stay as it was |
| `Fail` | any statement fails, the connection breaks, the process dies: rollback |
| `Retry` | mongo's withTransaction runs the callback again |

The backend decides two things: `InTransaction` (postgres `write()` takes a client and sends no
BEGIN; everything else is in a transaction) and whether a missing row is visible while another
transaction inserts it. mssql differs from mongo only in the latter, and has no retry: its
behaviours are among those of mongo, so it has no run of its own, and the theorems cover it.
A hash is the sequence of what was digested, i.e. SHA-256 is taken as collision-free.

### Fanout

One action per method, since each runs without an await: `publish`, `next`, `return`, `terminate`,
`close`, `createSubscription`. `consumer` says where the for-await loop of a subscriber stands
("waiting" is the promise that publish and close resolve). `received` and `offered` are history.
An event is its position in the source.

### ChangeFeed

Every subscribe or resume adds a stream: a generator over its own copy of the subscription object
(`{...saved}` copies the scalars) and the one buffer array all copies share. A stream runs from one
await to the next in one action: `Arrive` takes the next event of the change stream (the only
place the abort signal is read), `Checked` is the answer of the permission check. `Process` is the
token bucket, the buffer (`Buffered`) and the loop that flushes it. `resume` yields the backlog and
then watches from the saved position. `detachConnection`, `cancelAllForConnection`, `Expire` and
`notifySchemaChange` are the manager's other entry points; `StreamFails` is the error path.
Which positions pass the filter pipeline is the constant `Matching`.

Three things outside `src/`'s realtime code are taken as its interface states them: the change
stream (no adapter implements the `watch`/`supports` port of `ports/eventing` that the manager
calls; the change-stream adapters serve another port), the caller of `resume` (no handler calls
it), and the clock (tokens refill by any amount between two events).

### SseMerge

`ongoing` and `pending` are the two arrays, by slot. A promise is the call it waits for and the
slot it was made for. `Settle` answers the oldest open call of a stream; `Deliver` is one turn of the
loop: write and refill, or splice, then the next race. Among promises already settled the race takes the
lowest slot; otherwise the first to settle. Any stream may end at any time, and `Remove` splices the slot its promise was made for,
whoever is in it by then. `moved` remembers the streams a splice gave another slot. `Disconnect` sets `left`, the flag the loop reads between races.

### Connections

`register` is everything up to the await of the audit write, `open` / `openFails` everything after
the awaits. `Close` is `close()` for a set of ids with its three maps and with the manager's detach
(client left) or cancel (all other reasons). `sessionRevoked`, `memberRemoved` and
`evictIdleConnections` are its callers; `goesStale` is IDLE_TIMEOUT_MS without a heartbeat, which for a
streaming connection cannot happen because the handler's own interval beats for it. `streamEnds`
is a generator returning; with the last one, or the first after the client left, the handler returns.
`evictExpiredSessions` is left out: no caller sets `sessionExpiresAt`.

### Upgrade

`rows[d]` is `platform_versions` of database d, newest last. `upgrade` is the command up to the first
row (version read from the first database, window, breaking flag, preflight, dry run), `record(d)` the
insertion in one database, in any order because the code runs them in parallel, `recorded` the
answer. `rollback`, `rollbackDb`, `rolledBack` are the loop over the databases, in order, going on
after an error. `Crash` ends a command anywhere. On a failed `record` the row may or may not be there.
The orchestrator dispatches no migration (where it "migrates" it asks for the database's health),
so there are none in the model. One command runs at a time.

### Storage

`call[c]` is one request: `op` and `at` say which await it is at, the other fields what it read.
`uploadFile`, `copyFile`, `moveFile`, `renameFile`, `setTags`, `setMetadata`, `deleteFile`, the bulk and folder operations, `deleteBucket` and
the three operations on signed URLs begin one; then `getObject`,
`putObject`, `createRecord`, `updateRecord`, `deleteObject`, `archiveRecord` are the calls to the byte store and the repository,
`readQuota`, `writeQuota`, `checkWarnings` what `_updateQuota` does with the row it read. `jobStarts`, `jobSums`,
`jobWrites` is the reconciliation. Any step may fail up to `MaxFailures`; a failed write may have been made all the same (its answer is lost), and where the
code ignores a result (`storage.service.ts:844`, `:951`, `:1355`, `:1644`, `:1653`, `:1665`, `:1682`, `storage-reconciliation.job.ts:72`) the request goes on. The
repositories are the in-memory ones the application wires. When the quota row cannot be read, `_ensureQuota` (`:1610`) makes a second one of no bytes: the upload is checked
against that, and what is counted there is lost. The second row itself is not in the model because nobody reads it: rows are looked up in the order they were stored
(`core/src/testing/in-memory-repo.ts:62`), and both SQL schemas have a unique key on the workspace. `Init` is a workspace whose first file is there, so that two first uploads that
both make the row are not modelled.

History variables name what has happened after which a property cannot hold, and each is set at the very step that loses something, so that a property says "unless exactly
this happened": keys that two requests met at (`contested`), where a step of one failed (`halfway`), or that a file was moved onto that had the key
already (`ontoItself`); together they are `Excused`. `drifted` says that the quota row lost a change, `lost` by how many bytes at most it, or a check of it, is short;
`raced` are buckets archived while a request put a file there, `miscounted` URLs that lost a count.

### Tenancy

One action per await of the four services; `call[c].stale` becomes TRUE when something a request has
checked changes before it writes. Rows are never removed except with their workspace: archived members, grants
and invitations keep their unique keys, as in migration 0001. `flowAccept` is the second accept flow, which
sets `acceptedBy` and makes no member. `call[c].w` is the workspace a request is made in, `call[c].to` the one a transfer hands over. `expire` is the clock. `failRequest` is a repository error at any await.

### ArtifactPipeline

A content is the set of changes that went into it, so that "written over" can be said at all. A request
reads a row (`onArtifact`), waits for a model (`stream`, or per PRD section `generate`, with `checkBudget` and the response
cache before and the cost's record, `recordUsage`, after), and writes under the version it read (`decide`, `storeTurn`,
`saveEdit`, `linkBrief`). A row's `kind` is what it was created as, its `form` what its content looks like: an edit makes a brief of
whatever it is sent for. `readSignals`/`recordSignal` are the two statements of `recordQualitySignal`. `crash` ends
all requests, `accessFails` one database access: the budget check then fails open, the usage record is missing. An access may also take
effect and its answer be lost: `decide`, `saveEdit` and `createArtifact` have that branch. The
Postgres repository is modelled; the web application as committed wires an in-memory one, where archiving is a status
that a stale update undoes and where signals and usage are no-ops.

### SchemaService

A definition gives each table a shape; `db` is what DDL has built. The row has two versions: `rowVersion` is the repository's `_version`, which every
update counts up and every WHERE compares, `version` is `current_version`, which the service shows, expects and snapshots and which only a deploy or rollback
sets. No composition of the repository maps the rest of the row to its columns, so the columns are taken as the migration names them. `createSchema`, `updateSchema` (a save),
`applyChanges` (a deploy), `rollbackToVersion` and `deleteSchema` read the row; `insert` and `save` write it, `migrate` is the DDL
transaction, `persist` the version-checked update, `recordVersion` the insert into `customer_schema_versions`,
`applyTemplate` the deploy that follows a creation from a template or an import, `stops` a failure at any of these. ADD COLUMN
is planned without a type, so widening a table that exists fails in Postgres; a rollback brings a dropped table back without columns (`bare`).

### DataApi

`Receive` is a request that arrives on some day with its key; `stored` answers it from a live record, `lookup`
starts a run. `work` is the one statement of an operation, `list` and `each` the rows of a bulk operation, `write` its audit
event (`writeFails` the one that is lost), `store` the INSERT of the record, `race` the second read after its unique violation,
`stops` a process that dies or an operation that fails. A slot is what the unique key holds: the hashed key with the operation, i.e. table and
method without the row. A day that has passed lets records lapse. `ran` lists the runs that ended, `answers` who was told of which.

## 3. The runs

All runs pass: every property holds in every reachable state of the instance. A property whose name is a
plural statement (`StoreAgrees`, `AnswersKept`, ...) is a conjunction of named parts, each stated with its own comment in the module.

| run | instance | what it shows |
|---|---|---|
| `audit_mongo` | 1 workspace without a chain row, 2 writers, 2 events, batches up to 2, chain up to 3 | transactions on the chain row, run again after conflicts: chain intact, append-only, every commit is one atomic append of `AuditLog`, and a reply ends with the batch's own entries under consecutive sequences |
| `audit_postgres` | the same, postgres | where write() commits statement by statement next to transactional batches: sequences stay unique, and what was acknowledged is in the log |
| `fanout` | 2 subscribers (one table; both), buffers of 2, 4 events | losses announced even when the announcing gap is dropped, order, no lost wake-up; `Served`: what is published is seen, closing ends every loop |
| `feed` | buffer 1, bucket 1, 3 positions of which 1 and 3 match, 3 connections, 1 deploy | `StreamsWellFormed`: one live stream per client; `EventsAccounted`: no silent loss or repetition over two resumes, drops counted; cancelled means silent; a stream never stops at an event |
| `sse_merge` | 3 streams of 2 events, ending in any order | the two arrays stay together; a stream no splice has moved races in its own slot and is written once, completely, in order; until a splice moves one, all is written and the loop ends with its streams |
| `connections` | 3 requests, 2 users, 2 workspaces, limits of 1, 2 of at most 3 subscriptions | `PlacesCounted`: indexes agree with the registry, limits hold; `ClosedForGood`: only forced closes leave orphans, and nothing to resume; every place comes back |
| `upgrade` | 3 databases, 5 releases at the edges of the window, 2 faults, 3 rows | ok means everywhere, the first database stays in the window, skew bounded by faults, a failed recording can be retried; no deadlock |
| `storage` | 2 requests at a time and the job, 3 in all, 3 keys in 2 buckets, sizes 1 and 2, quota 3, one failing step, pages of 2 rows (895 000 states) | records have bytes and bytes records, no file in an archived bucket, quota exact and warned once, overrun and downloads bounded whatever went wrong with the row, a run of the job by itself leaves the row right |
| `tenancy` | 2 requests at a time, 3 in all, 3 users, 2 workspaces, 2 invitations, one role, 2 slugs, one failing access (445 000 states) | one user per invitation, joined while open, one open invitation per address, roles as reported, a workspace keeps a member and is handed to a member of the workspace the request was made in |
| `artifacts` | 3 requests at one time on a conversation and its brief, 2 turns, 2 sections, budget of 2, one failed access, lost answer or crash (428 000 states) | no stored change written over but by an edit of what is no brief, one decision on what was read, PRD of approved content, rejections counted, budget overrun bounded by requests and failures |
| `schema` | 4 calls of 2 designers, 2 tables, one failing step (1.95 million states) | versions and snapshots tell the truth, nobody writes over what they have not read, no deploy after a save, tables no save or failed deploy has touched are as recorded |
| `data_api` | 3 requests of every kind at 2 callers, 2 rows, 1 key, window of 1 day, a second day, failures (1.40 million states) | a retry runs nothing while the record lives, one answer per key, answers true and audited, archived rows untouched |

Why the bounds are enough for what the runs ask:

* AuditChain: an interleaving fault needs two writers; a fork or a lost link needs a predecessor and two
  successors, hence three sequences; batch atomicity needs two entries; the unseeded
  workspace has the race of the first INSERT, and one workspace suffices because calls touch nothing of
  another. Writers and events are symmetric.
* Fanout: a buffer of 2 lets a gap and an event coexist, and 4 events fill it, drop an event, and
  drop the gap that announced it. Two subscribers suffice for the shared map and different tables.
* ChangeFeed: with one slot and one token each event can be delivered, limited, or dropped, and
  a second drop overwrites the first; positions 1 and 3 leave a filtered one between; three connections
  are two resumes, so that a stale stream of the first can meet the third.
* SseMerge: three slots have a first, a middle and a last. Streams end
  in any order, so promises with stale indexes, emptied slots and repeated events all occur (section 6).
* Connections: limits of one with three requests make every request meet a full index by workspace and
  by principal.
* Upgrade: the releases have a second minor, a third minor, a next major (breaking) and a major beyond.
  Three databases with two faults reach every mix of written and unwritten rows.
* Storage: two overlapping requests are what a lost write of the quota or of the bytes needs, the third call
  comes after the damage; two buckets make a move cross one being deleted; a quota of 3 with sizes 1 and 2
  has uploads that pass, fit exactly, and overrun together; a page of 2 rows is too short for the 3 files there can be, as one of 100 rows is in the code.
* Tenancy: two requests overlap in every pair of operations, the third call meets what they left; two invitations for one
  address, two workspaces for one slug, three users: an owner, one who is invited, one who competes.
* ArtifactPipeline: an approval, a rejection and an edit of one brief need three requests at once; a budget of 2 is overrun by
  three; a PRD of two sections is one of which the other can be missing.
* SchemaService: a save, a deploy, a second deploy and a rollback are four calls, any two of which overlap. With one failure every one of the
  three transactions fails in some behaviour.
* DataApi: two requests race for one key and a third comes after; two rows make the same key meet another row
  and let a bulk operation stop in between; the second day lapses every record.

The constants' limits (`MaxSeq`, `MaxBatch`, `MaxEvents`, `MaxAnswers`, `MaxPos`, `MaxStreams`, `MaxDeploys`, `MaxRows`,
`MaxFaults`, `MaxFiles`, `MaxCalls`, `MaxFailures`, `MaxWorkspaces`, `MaxInvitations`, `MaxSteps`, `MaxDays`) appear in the guards that
use them and in the types of history variables, nowhere else. `LargestSize` stands for the code's maximum file size: it bounds `Sizes`, the bytes
`Total` counts and, with it, how far overlapping uploads may go over the quota. The retry bound of AuditChain is
stated at `Retry`. Runs that do not check for deadlock are of systems that really stop: a fan-out closed with all
loops ended, a feed with no more events, a loop that is over, requests that are finished.

## 4. Fairness

Only what the scheduler or a timer guarantees is fair; what users, operators or the database may or
may not do never is.

* Fanout: `next(s)`, because the body of a for-await loop ends and asks again.
* ChangeFeed: `Arrive`, `Checked`: the change stream delivers what the table has, the permission check
  answers. No fairness for commits, reconnects or deploys.
* SseMerge: `Deliver` (the event loop runs a settled promise's continuation), `Settle` of a stream that has ended
  (a finished generator answers at once). Whether a stream yields is up to its table.
* Connections: `open` or `openFails` (awaits return), `onClose` (the framework reports a client it saw
  leave), `goesStale` and `evictIdleConnections` (clock and timer). Clients and revocations are free.
* Storage has safety properties only. Nothing makes the job run: it is scheduled only where there is a scheduler (`packages/composition/src/services.ts:56`), `composeMemory` has
  none (`compose.ts:353`), and nothing calls `registerStorageJobs`. So `JobCorrects` says what a run leaves behind, not that there is one.
* Tenancy, ArtifactPipeline, SchemaService and DataApi have safety properties only and assume no fairness.

## 5. Proofs

Eleven components are proved about in eight modules, 43 theorems in all; each invariant below was first checked by TLC.
All hold for any number of writers, workspaces, events, subscribers, streams, tables, databases, users, invitations, callers, files or rows, any
buffer size, budget, quota or window, any set of releases, under the named ASSUMEs of the modules (typing of constants, finiteness of the sets whose
members are counted, and that `None` and `NoKey` are not members of the sets they are told apart from).

* `AuditChain_proofs`. `TypeCorrect` (every backend): `TInv` adds to the types the discipline of the
  row lock (whoever holds it is inside a transaction on that workspace; a writer past its first
  statement in a transaction holds it; a free row has no uncommitted draft) and the range of the batch
  position. `ChainAlwaysIntact`, `LogAppendOnly` (assuming
  `Backend # "postgres"`, i.e. every write is in a transaction): `ChainIntact` alone is not inductive, since the broken intermediate states
  of a transaction are real. `CInv` says that the committed rows are `Linked` up to the committed
  sequence and end in the stored hash; that the draft of a holder is linked up to the point its `pc` says
  (one row behind after the reservation, last hash behind after the INSERT); and that drafts only
  extend. One lemma extends a linked chain by a row, one derives verifyChain from Linked.
  `SequencesNeverRepeat` holds on every backend, so it needs an invariant that does without the lock: in `SInv` a sequence that is reserved
  and not inserted yet is at most the stored one, is carried by no row, and is held by one writer; the UPDATE ... RETURNING alone gives that.
  `AcknowledgedRowsAreCommitted` and `BatchAnsweredInOrder` hold on every backend. `RInv` follows the attempt under way, the last `Done` of the
  results: it is numbered without a gap up to the sequence the writer holds and inserted where the writer will commit it. Only in a mongo batch may results of aborted
  attempts stand before it, and an answer's last entries say only what is committed. `ChainImplementsLog` (assuming transactions) is the refinement: every step is a step of
  `AuditLog` or leaves its log as it was. `DInv` says what the step that matters, `Commit`, needs: the draft of a holder is the committed log and the first
  entries of its call, in their order.
* `Realtime_proofs`, three components.
  * Connections: `TypeCorrect`, `PlacesAlwaysCounted`, `ClosedIsForGood`. Beside the two properties the invariant says which of them
    a step may rely on: a request still in its handler's first await is neither registered, forced nor resumable, and a forced or resumable
    connection is not registered (`RegisteredOnce`), and a connection whose subscriptions are being opened is registered or was forced (`OpenOrForced`). Without the first, registering could count a
    place twice; without the second, subscriptions opened after a close could belong to anybody.
  * Fanout: `FanoutTyped`, `NeverSleepsOverWork`, `LossAlwaysAnnounced`, `AlwaysInOrder`. The invariant is
    stated per slot, `Slot(received, buffer, offered, published)`: both sequences ordered, everything
    received precedes everything buffered, nothing lies beyond what is published, and every offered event is
    received, buffered or announced by a later gap in either. Ordering is what makes a dropped
    gap harmless: the gap added with the new event is beyond it. Lemmas say that appending, delivering and
    Enqueue keep `Slot`, whatever the buffer size.
  * SseMerge: `EveryStreamKeepsRacing`, `DeliveredOnceInOrder`, for any number of streams and events. They end in any order. `MergeInv`: no
    promise names a slot below the one it is in (`InSlots`), so a stale promise reaches only streams above it, which are moved as well; the streams
    not moved are the first ones, each in its own slot with its newest call (`Unmoved`), and only moved or ended streams are out of the race (`StillIn`).
    An event's call is at most `MaxAnswers` (`Answered`), so the next call has a number of its own.
* `Versions_proofs`, two components.
  * Upgrade: `UpgradeTyped`, `OkIsEverywhere`, `FirstStaysInWindow`, `RetryAlwaysAdmitted` from an
    invariant that ties the answer to the rows while a command is half done (recorded databases have the
    version; what is admitted stays admitted while it is recorded). `SkewIsBounded` and `DatabasesAgree` compare
    histories as they will be once the command under way has had its turn on every database (`Effective`):
    that comparison is inductive although the rows differ in the middle of a command.
  * SchemaService: `TypeCorrect`, `HistoryAlwaysTrue`, `DeployedAlwaysAsRecorded`, `NothingEverOverwritten`. The invariant ties
    what a call holds to the row: whoever still matches the row's version has read this very row (`SeenIsRow`), because what a call expects is at most the row version it
    read; the shown version falls behind with the first save and stays behind, so a deploy that is accepted writes what was never saved
    (`VersionsGrow`). Table by table, while one deploy alone that changes a table is between its DDL and its write, the table is already what that deploy is to write, if it
    still matches (`DeployUnderWay`); a call between its write and its snapshot has its definition in `written` (`SnapshotsDue`). Without the first part a deploy could
    write over a save, without the second the tables could part from the row although nobody was refused.
* `DataApi_proofs`. `TypeCorrect`, `AnswersAlwaysKept`, `ArchivedNeverTouched`. The invariant says where the number of a run can
  be: numbers are given once, a run that is under way has changed what it has set out to change so far and is in no answer yet; a
  record names a run that ended under its slot; whoever waits at `race` has a record to find. `OneAnswerPerKey` then
  needs that no record is ever replaced, which is the unique key, and `RetryRunsNothing` that a run which was told of an answer
  began on a day that answer's record had lapsed.
* `Tenancy_proofs`. `MembersAlwaysAgree`, `InvitationsAlwaysKept`, `OwnershipAlwaysKept`. Every request here checks in one call and writes in
  another, so the invariant is about requests: what each has checked `Stands`, i.e. its invitation is still of its workspace and open (`InvitationHeld`), the
  address still free (`AddressFree`), the members still those it counted (`OwnerHeld`), unless the request has gone stale; and staleness is set by the very write that ends it, which is the lemma
  `OthersStand`: after a write every other request either still stands or is stale. `RolesOf` says per member that at most one request is changing its roles, and that they are
  what is due at the place where that request is, `JoinOf` per invitation that whoever joined by it is the only one: the request that did so has not
  marked it yet, or it is closed and every other request that accepts it is stale. Members and invitations a failure or an overlap has damaged are in the history
  variables `unsure` and `contested`, as in the properties.
* `ArtifactPipeline_proofs`. `TypeCorrect`, `ArtifactsAlwaysAgree`, `DecisionsAlwaysStand`, `NothingEverOverwritten`,
  `SpendAlwaysBounded`, in three layers. `IInv`: a request that still matches the version has read the
  row's content, form, status and link (`CallOK`), requests under way have numbers of their own under which nothing is made
  before its time (`Apart`), and what is approved, or generated from it, has only grown since some approval, unless an edit has replaced it,
  which cannot be taken back (`RowOK`, `Replaced`). `SpendOK`: of the calls
  charged only those still to be recorded, and for each failure as many as there are requests (`Lost`), are missing from what is spent, and those under
  way each found the budget not spent; one lemma (`AtSteps`) counts the requests at a place. `SignalsOK`: rejections counted plus rejections
  still to be recorded are at most those given, and
  exactly those unless the artifact is in `lossy`; a count that was read stays below what is given while it is carried. The action theorems
  come from one lemma that says what any step does to a row (`EveryStep`): nothing, or it makes it, or writes it as it was read, or replaces what is no brief.
* `ChangeFeed_proofs`. `StreamsAlwaysWellFormed`, `EventsAlwaysAccounted`, `CancelAlwaysStops`. A subscription object is judged by the
  last position it saw and the position its stream has passed, because that pair is what a disconnect saves and a resume starts from.
  `InOrder(last, cursor)`: nothing beyond `last` was told or is buffered, and the buffer ends at `last`. `Complete(last, cursor, dropped)`:
  what the stream has passed is told or announced by a gap, told or waiting, and what is missing is counted; no event of the subscription lies
  between `last` and `cursor`, so a resume from `last` skips none. One lemma (`CompletePreserved`) takes an object from one pair to
  the next; an overflowing buffer may lose an item in it because the gap it puts in lies at the newest position.
  `EventsAlwaysAccounted` assumes `CanReplay`: a source that cannot replay starts a resumed stream at the table's end.
* `Storage_proofs`. `StoreAlwaysAgrees`, `QuotaAlwaysAgrees`, `LimitsAlwaysHold`, for any number of requests, files, keys, buckets and failed steps.
  * What a request has read, by the place where it stands: `Shape` and `Described` (in `CallsOK`), and what a row can look like (`RowsOK`).
  * Who has to do with a key: `Records` says that the record a request holds is as it read it or its keys are excused; `KeysOK` that a key
    which is not excused has one request that empties it, one file, a request that fills it only when nobody else is there, and bytes that belong to
    its record or to that request. A failing step that has done its work disturbs only the keys it excuses (`Spares`). `BucketsOK` says that whoever places a file in a
    bucket finds it live, or the bucket is in `raced`.
  * `UrlsOK`: downloads given and about to be given are at most those counted, unless a count was lost.
  * `QuotaOK` has two halves. While no change of the row was lost, the row is exact (with what requests have still to count) and each threshold was reported once. Whatever was
    lost, `Covered` says that the files there are take no more than the row says, what is still to be counted, and `lost`; and `Within` that what was uploaded with
    what uploads under way are promised is within `QUOTA + (n - 1) * LargestSize + lost`. An upload that finds room gets the second from the first, because each
    other request adds or promises at most one file: that is the whole argument for the overrun ADR-0128 accepts, and for what it does not say (section 6).
  * Sums of sizes are counted byte by byte (`Total` is the cardinality of a set of bytes), so that the library's theorems on finite
    sets carry them, where a recursive sum would need an induction over data.

Only model-checked: `JobCorrects`, and liveness (`Served`, `StreamsServed` and the other leads-to properties), which is outside the
prover's reach, like ENABLED and induction over recursive definitions.

## 6. Where the code differs from what one might assume

All of the following is in the models as the code does it; the properties hold beside it.

What a document, comment or message of the repository says, and the code does otherwise:

* `adapters/audit-postgres/src/audit.adapter.ts:95`: `write()` runs on a pool client without BEGIN, so two concurrent calls take the same
  predecessor hash, or a failure in between leaves the stored hash behind, and `verifyChain` reports a log as tampered that nobody tampered with.
  The comment at `:266` says "Lock + update chain state atomically", `docs/adr/0068-hash-chained-audit-log.md:64` "Within a single workspace, audit
  writes are serialized". The postgres run therefore claims unique sequences, not an intact chain.
* `subscription-manager.ts:221`: a subscription that has delivered nothing has no position, so its resume starts at the current end of the table;
  what was committed meanwhile is neither delivered nor announced. `docs/adr/0116-five-minute-resume-window.md:12` says "no missed events". `NoSilentLoss` speaks
  from the first delivered event on.
* `sse-handler.ts:286`: when a stream ends, `splice` renumbers the later slots and their promises keep the old index: an event is written again
  and again, in a loop that lets nothing else of the process run, or a stream is lost from the race. The comment at `:304` says "Refill this slot", `docs/adr/0114-at-least-once-delivery.md:21` lists
  where duplicates can occur, and this is not among them. The model does the same, whichever stream ends; the history variable `moved`
  holds the streams above a slot that was spliced out, and the properties claim nothing more of those.
* `sse-handler.ts:201`: a connection closed between its registration and its subscriptions gets subscriptions no later close reaches;
  `subscription-manager.ts:266` says "Immediately cancel all subscriptions on a connection". `OrphansWereForced` says this is the only way to one.
* `core/src/upgrade/orchestrator.ts:370`: a re-run writes a version row a database already has;
  `docs/adr/0139-single-orchestrator-heterogeneous-databases.md:24` says rows are only written if they do not exist yet.
* `core/src/services/member.service.ts:294`: `_countActiveOwners` counts every active member, so with any second member the owner is removed, and the
  workspace's owner is a user that is no member; `errors.ts:208` says "Cannot remove the last owner of a workspace". `LastMemberStays` claims what is counted.
* `workspace.service.ts:410` looks for the new owner among the members of the workspace the request was made in (`ctx.workspaceId`), and `:423` hands over the
  workspace whose id was given; the two are not compared, and the message at `:419` says "New owner must be an active workspace member". `TransferToMember` claims
  membership in the former.
* `intent-capture.service.ts:319`: the result of storing a turn is not looked at, so a turn another write overtook is reported as complete and not
  stored; `docs/guides/intent-capture.md:140` says a conversation is saved after every turn. `AckedEditsKept` speaks of edits only.
* `intent-capture.service.ts:541`: `_editBrief` takes the id of any artifact and stores what `IntentBriefSchema` leaves of its content and the
  changes, so an edit sent for a conversation or a PRD replaces the whole of it, while the audit entry (`:562`) speaks of an `intent_brief`. `NothingOverwritten`
  and `PrdOfApproved` name this case (`Unreplaced`).
* `intent-capture.service.ts:151`: `sendMessage` looks at no budget, where `docs/guides/intent-capture.md:124` says conversations pause when
  the budget is approached; and a crash between a provider's answer (`generation.service.ts:153`) and its record (`:271`) loses the costs of all
  calls under way. `SpendBounded` speaks of the calls that look at the budget, and allows as many more per failure as there are requests.
* `schema.service.ts:533` and `:664`: a deploy expects `version`, which only deploys set, and the WHERE of the repository compares `_version`
  (`repository.adapter.ts:294`), which every update counts up (`:300`). So after the first save (`:403`) or deletion (`:1084`) every deploy and rollback of the schema runs its DDL and is
  refused with "Schema was modified during apply. Retry.", and a client that sends the version it is shown can save once. ADR-0096 calls a save a pending deployment. The properties
  hold with this: `NoDeployAfterSave` states it, `OneDefinitionPerVersion` claims one deployed definition per version, since a save leaves the version as it was.
* `schema.service.ts:615`: DDL is committed before the optimistic check, so a refused deploy has changed or dropped tables, where
  `docs/adr/0095` (`:36`, `:52`) expects a refused change to have no effect; and tables that were saved are what the next plan compares with, so nothing is built
  from them. `DeployedAsRecorded` leaves out exactly the tables concerned (`stranded`, `drafted`).
* `idempotency.helper.ts:101`: a lapsed record still owns the unique key, so after the window every retry runs again and gets the old answer;
  ADR-0081 (`:48`) says any operation can be retried safely, and `0005_idempotency_records.sql:4` that lapsed records are cleaned up daily. `cleanupExpiredIdempotencyRecords` (`audit-retention.service.ts:119`)
  ignores its condition, and nothing calls it.

Audit log and realtime:

* mongo `writeBatch` keeps pushing onto an array declared outside the transaction callback, so after a
  retry it also returns entries of the aborted attempt (`adapters/audit-mongo/src/audit.adapter.ts:125`). `AckedIsLogged`
  and `BatchReplyMatches` therefore speak of the entries a reply ends with. What is in the log is not affected.
* The application role has no INSERT on `audit_chain_state` (`0002_audit_log.sql:91`), which the first event of
  an unseeded workspace needs; privileges are not modelled.
* `Fanout.publish` (`adapters/changestream-shared/src/fanout.ts:58`) and `bufferEvent`
  (`subscription-manager.ts:418`) take one item out of a full buffer and put
  two in, so the bound of the buffer does not hold; the models keep that, and no property claims the bound.
* A gap for a rate-limited event waits in the buffer for the next data event (`subscription-manager.ts:389`).
* An event that is in its permission check when its connection is closed is still delivered to a live consumer
  (`:367`), and after a disconnect it works on the buffer the resumed subscription inherits (`:252`): hence the
  premise `ClosedBetweenEvents` of `NoSilentLoss`, `OnceInOrder` and `DropsCounted`.
* Positions advance when an event is handed to the socket, not when the client has it (`:372`).
* The SSE handler's own interval is the heartbeat of its connection (`sse-handler.ts:251`), so a streaming connection is
  never idle; `PlacesComeBack` is therefore checked where the framework sees clients leave (`CloseSeen`).
* A forced close aborts the generators, which look at their signal only when the next event comes (`connection-manager.ts:152`): the response of a
  quiet table stays open. Nothing bounds that time, so no property claims an end.

Upgrade:

* `rollback` of a database with a single version row removes it (ADR-0140 calls for an error), and
  the window is enforced on the first database only: after a partial failure the others may move outside it.
* Nothing keeps two operators from running the command at once (`orchestrator.ts:142`); the model runs one at a time, as the runbook does.

Storage, workspaces, artifacts, data API:

* A step of an upload, move or deletion that fails is not undone: bytes without a record, or a record without bytes, stay (`storage.service.ts:651`). Nobody looks
  whether the old bytes were deleted (`:844`, `:951`), a download counted (`:1355`), the quota row (`:1644`, `:1653`) or a warning's flag (`:1665`, `:1682`) written.
* A move or rename onto the key the file has puts its bytes (`:838`) and then deletes them (`:844`), in one request that succeeds: the record is left without bytes. `RecordsHaveBytes` leaves
  out these keys (`ontoItself`).
* The quota row is read and written back whole without a version, so it can lose a change, and a read of it that fails counts as a row of no bytes. The nightly
  job need not exist (section 4); where it runs it sums the first page of 100 rows of the container's repositories (`adapters/persistence-memory/src/repository.adapter.ts:60`, the same in the SQL ones), its own write can undo a count, and nobody looks whether it was
  written (`storage-reconciliation.job.ts:72`). `docs/adr/0128` (`:66`) accepts overruns of less than one file: they are of up to one file for each other request at one time, and of
  the bytes that were lost (`OverrunBounded`). It says (`:43`) that warnings reset when usage drops back; no code clears a flag, so a threshold is reported once for good (`WarnedOnce`).
* An archived workspace can never be restored, because `findById` hides it; archiving goes on when the version-checked write of its reason is refused;
  a removed member keeps a row and can never be added again; the flow's `acceptInvitation` makes no member.
* An approval that read an artifact before it was archived still approves it (`ai-artifact.repository.adapter.ts:229` looks at the version only). Nobody records a `submission` signal, so every approval counts as one of a first submission; an approved
  brief can be edited and stays approved; edits and approvals of PRD sections are answered and never stored; a section whose generation failed is
  missing from the PRD; two briefs can be made from one conversation.
* The key of an idempotent request is hashed without row or workspace, so the same key on another row gets the first row's answer; answers that
  refuse an invalid body are kept like others; bulk operations stop halfway and unaudited, and the retry of a half-done bulk creation meets its own rows; the version
  column is stripped from every answer, so `expectedVersion` cannot be used.

## 7. Not modelled

The models stop where the code has no further order of events to get wrong, or where the rest would be a second project:

* Data, not control: the schema planner's and validator's rules, query and GraphQL translation, transformations of a data migration, prompts and
  model answers, the stages of AI generation after the PRD, whose control is the pipeline of `ArtifactPipeline` again. They are most of the 150 000 lines, which is
  why the mapped share is small: it counts the lines in which state changes.
* Pure decisions and read-only parts: authorization (in the models every decision is a free choice), query console, data browser, user search.
* Single-row records with nothing but last-writer-wins: API keys, branding, assets, avatars, e-mail templates, data-subject requests.
* Clients of external services: AI providers, byte stores, identity, jobs, eventing, search, communication, secrets, observability; deployment and
  maintenance, whose steps are calls to other platforms.
* Systems with an order of events that would deserve a model of their own and have none: the resume of a data
  migration (`migration-executor.ts`), named locks, the reconnect of the change-stream sources and of the SDK's channels, the
  rate limiters. The hazards of the first two are listed in `PROJECT.json` without a property.
* User interface, worker shell, composition, configuration, HTTP server.

Within the modelled components: the 30-day expiry of conversations, signals nobody records, tool calls inside a generation, versions of a stored
file, the reads of the data API, audit verification by range, and the SQL Server variant of the audit log (its behaviours are among mongo's).
