# Formal models of Metronix memory

TLA+ models of the protocols inside Metronix (`src/src/metronix`), the TLC
runs that check them on small instances, and TLAPS proofs of their safety
properties for every instance. Paths below are relative to
`src/src/metronix/` unless they say otherwise.

How to run, from this directory:

    tlc -workers 2 -config FreshnessQueueFaults.cfg MCQueueCasts.tla
    tlapm FreshnessQueueProofs.tla

`PROJECT.json` lists the components, the runs and the properties each checks,
a mutation of the model that each property catches, the source lines of every
definition, the hazards, the findings and the theorems.

## 1. Inventory

| component | state | what is hard | what makes it correct | module |
|---|---|---|---|---|
| **Freshness queue and worker loop** `freshness/coordination.py`, `memory/freshness/worker.py` | Redis lists `queue:{ws}` and `processing:{worker}`, heartbeat keys, reclaim locks; per worker its counters, batch and reclaim pass | several processes, no transaction over Redis calls, TTLs, `SIGKILL`, calls that raise after they took effect | an accepted job is always on some list; one run of a job at a time; a reclaimed job returns to its workspace; a dead worker's list is drained | `FreshnessQueue`, `JobContract` |
| **Conversation compaction** `storage/conversation_postgres.py`, `memory/compaction.py` | `conversation_events`, `conversation_compaction_claims`, `session_ledgers` | competing requests, a lease of ten minutes, a crash between the memory writes and the acknowledgement | one ledger per acknowledged event, generations without gaps, one memory per content | `CompactionClaims`, `LedgerContract` |
| **Proxy** `proxy/service.py`, `proxy/upstream.py` | the generator of a stream, the capture task | clients leave, upstreams break off, the end of the stream may arrive in two frames | what is stored is the answer the client was given; one report per stream | `ProxyTurns` |
| **Connection sync and autosync** `connectors/connection_sync.py`, `api/autosync.py` | the row of a connection with its claim and cursor, background tasks | manual and automatic triggers race, edits while syncing, restarts | one sync per connection, a cursor that skips nothing, no false marks | `ConnectionSync` |
| **Connectors** `connectors/*.py` | the pages of a fetch, cursors, Drive's page token | the source changes while it is paged, per-item failures are swallowed | the cursor says no more than was fetched | `PageWalk`, `DriveFeed` |
| **Freshness lifecycle and review queue** `freshness/stages/*`, `freshness/apply_decision.py`, `memory/service.py` (`resolve_review`), `storage/freshness_pg.py` | the status and the merge of a record, review entries, stage locks, the status in the Qdrant payload | stages read a record and write it later without a condition, people resolve entries meanwhile, jobs run twice | a reviewer's decision stays, a pair of memories is filed once, search sees the row's status, old records are retired | `MemoryLifecycle` |
| **Memory records, session cache, snapshots** `memory/service.py`, `memory/snapshot.py`, `storage/memory_*.py` | PostgreSQL rows, Qdrant points, Redis records and the session's index, the newest snapshot | three stores without a transaction; check and insert are separate calls | a record stored for good stays, one row per content, index and row agree | `MemoryStores` |
| **Knowledge-base ingestion** `ingestion/pipeline.py`, `ingestion/sync.py`, `api/graph_sweep.py` | raw documents with their flags, points, fingerprints, graph nodes, an advisory lock | delete before add, a pass over a copy of the rows, overlapping ingests | the index is that of the text; what lacks its node says so | `ChunkIndex`, `GraphBacklog` |
| **Retrieval** `retrieval/*` | none of its own but an entity cache | four recall channels read at different times while documents are replaced | nothing closed is found, nothing present throughout is missed | `KnowledgeSearch` |
| **Listings and exports' walks** `knowledge/service.py`, `api/routes/knowledge.py` | none | paging by offset and key over changing rows | a row there all along is shown once | `Listings` |
| **Export jobs** `export/*` | job rows, archives, tokens, build tasks | find-then-create, restart, concurrent downloads | one build per scope, a token serves once | `ExportJobs` |
| **Agents** `agents/*` | agents and their versions | read and write in separate transactions | contiguous versions, no lost fields | `AgentRegistry` |
| **Write confirmations** `mcp/action_store.py`, `agent/router.py` | pending actions in memory | message threads that share the store without a lock | one "yes" runs one action once | `PendingActions` |
| **Chat channels** `channels/manager.py` | pollers, tables by connection and by token | awaits inside stop, crashes recorded later | no token polled twice, every poller can be stopped | `ChannelPollers` |
| **Platform users** `auth/user_mapping.py`, `auth/user_store.py` | accounts, mappings, a cache | first messages race, mappings edited meanwhile | the cache follows the mapping | `PlatformUsers` |
| **Workspaces** `workspaces/*`, `api/routes/workspaces.py` | dictionaries, Neo4j nodes, what five stores hold of a workspace | threads overlap, writes that fail are not tried again, a deletion clears two of the stores | what is cleared is empty, members are where they chose | `WorkspaceRegistry` |
| **MCP synchronisation** `mcp/sync.py` | a file of hashes for all workspaces | hashes saved before the ingest | what is skipped as unchanged is held | `ServerSync` |

How they interact: `memory/service.py` and `ingestion/pipeline.py` push jobs to
the freshness queue after they write a record; a worker takes a job, reads the
record and runs the stages, which write the record back and file review entries,
which people resolve through the API. The proxy stores exchanges as conversation
events, and compaction turns these into memory records. Connectors feed the
connection sync, which feeds ingestion, which writes chunks and leaves rows for
the graph pass; retrieval reads what these have written. A module's interface to
the next one is a set of rows or a list in a store, so each module takes its
neighbours as environment: the queue does not say what a run does, the lifecycle
takes its queue to be a set of which members may come again.

## 2. Plan

Done: the queue, compaction, connection sync (with their contracts), then the
lifecycle, the memory stores, the graph backlog, and the services listed above;
and a theorem for every invariant and action property a passing run checks (only
liveness is left to TLC, section 10). Left: a contract that `ConnectionSync`
implements, and the entity graph writes of `storage/graph_ops.py` (see "Not
modelled").

The runs. TLC takes twelve configurations:

| run | module, configuration | shows |
|---|---|---|
| `queue_faults` | `MCQueueCasts`, `FreshnessQueueFaults` | safety of the queue and its refinement of `JobContract` |
| `backlogs` | `MCBacklogs`, `Backlogs` | compaction, proxy and graph backlog, safety and liveness |
| `sync` | `MCConnectionSync`, `Sync` | connection sync, safety and liveness |
| `freshness` | `MCFreshness`, `Freshness` | dead workers are drained, jobs delivered; stages and reviews, safety and liveness |
| `services` | `MCServices`, `Services` | thirteen services, safety |
| `queue_orphans`, `queue_isolation`, `compaction_overlap`, `sync_overlap`, `sync_lost`, `listings_merged`, `workspaces_kept` | | a sentence of the code's documentation that the code does not keep (the *findings* below) |

Several runs have *casts* or *scenes*: a constant choice made at the start that
says which parts take steps, so that a run explores the sum of the state spaces
of the parts and not their product. Where the parts share no variable this loses
nothing. In a cast of one module it bounds who is on stage and how much trouble
there is, in several ways, each of which is small.

Everywhere: one action is one call to a store or a lock (one `await`, or one call
in a thread) with the local code after it, so every interleaving between two calls
is a behaviour. A call that raises may have been carried out where this makes a
difference. History variables (*ghosts*) are read by properties only. They record
the exceptions a property admits: what has to happen before it may fail. Each
exception is a behaviour of the code, found by TLC when the property is stated
without it. Counters are bounded by constants named `Max...` or by records of
budgets.

## 3. `FreshnessQueue`: the reliable job queue

### What is modelled

| variables | code |
|---|---|
| `lists` | the Redis lists `queue:{ws}` (keyed by workspace) and `processing:{worker}` (keyed by worker); `Head` is the Redis tail |
| `heartbeat`, `lock` | the heartbeat keys and the reclaim locks with their tokens |
| `pc` | the `await` a worker process is at |
| `iteration`, `errors` | `_iteration_count`, `consecutive_errors` |
| `todo`, `target`, `peeked` | locals of `_reclaim_all_orphans` and `reclaim_worker_orphans` |
| `spaces`, `space`, `room`, `batch` | locals of `run_once` and `dequeue_batch` |
| `accepted`, `begun`, `misjudged`, `lockLost` | history |
| `faults`, `lapses`, `stops` | budgets of the environment |

The actions follow `main` (`Start`), `run_once` (`BeginIteration`,
`SelectWorkspaces`, `PickWorkspace`, `EndIteration`), `dequeue_batch`
(`Fetch`), `_process_job` (`Receive`, `Work`, `Complete`, `CompleteFailed`) and
the reclaim pass (`Discover`, `Visit`, `AcquireReclaimLock`, `PeekTail`,
`DropMalformed`, `MoveTail`, `ReleaseReclaimLock`, `EndReclaim`). `Kill`,
`Interrupt`, `HeartbeatExpires`, `LockExpires` and the `Fault` branches are the
environment.

Abstractions: an entry is an occurrence of a job (two pushes of equal text are
two elements of `Job`); its content is its workspace and whether it parses. The
pipeline behind a job is one action, since it touches none of this state; its
stages are `MemoryLifecycle`. Worker ids are fresh per process, so a restarted
worker is another element of `Worker`. The one-shot `drain_legacy_unprefixed` and
the gauge `queue_depth` are left out, as is an entry that is JSON but no object, on which
`_deserialize_job` raises: no producer writes one.

### What is checked

`queue_faults` has three casts: two workers, two jobs of two workspaces and two
faults; the same with one fault and one lapse of a TTL; three workers with a
malformed entry and one fault. It shows `TypeOK`, `NoJobLost`, `SingleRunner`,
`SingleReclaimer`, `RoutedHome` and `ImplementsContract`: the queue refines
`JobContract`. The first half of `freshness` (`MCFreshness` takes, per behaviour, the
queue or the lifecycle of section 6, while the other stands still) has two workers and
two jobs, one of which is malformed in one cast, under fairness: `DeadWorkerDrained`,
`DeliveredDespiteKills`.

Bounds. Two jobs of two workspaces are the fewest that can be mixed on one
processing list and swapped between a peek and a move; `MaxBatch = 2` lets one
batch hold both. Two workers are enough for one to reclaim from the other, three
for two to compete for a third. `ReclaimInterval = 1` makes every iteration
reclaim, the case with most interleavings. Two faults allow a failure during the
handling of a failure and reach `MaxErrors = 2`. Deadlock is not checked: when
every worker has stopped, the system is meant to stand still.

Fairness. Each worker's next step is weakly fair: a process that runs keeps
running, `_run_loop` returns only after `MaxErrors` errors, and every call
answers or raises. This last part is an assumption about the network, since the
Redis client sets `socket_connect_timeout` only. Redis drops an expired key, so
the expiry of a dead worker's heartbeat and of an abandoned lock is fair too.
No kill, fault, lapse or enqueue is fair. `DeliveredDespiteKills` assumes that
no call fails and no live worker is taken for dead: a reclaimer checks liveness
once and then loops until the list is empty, so a worker that was misjudged may
be robbed of every job it fetches for as long as it keeps fetching; and a failed
run is acknowledged like a successful one.

### Findings

* `queue_orphans`: `complete_job` swallows a failing `LREM` and its docstring
  relies on the reclaim pass to pick the entry up. The pass never visits the
  list of the worker itself nor of one with a heartbeat, so the entry of a
  finished job stays until its worker dies, and is run again then.
* `queue_isolation`: `reclaim_worker_orphans` peeks at an entry, picks the
  destination by its workspace, and moves whatever is at the tail by then. When
  the target was a live worker whose heartbeat had run out, the entry moved may
  belong to another workspace. `RoutedHome` is the part that holds: routing is
  right as long as only dead workers are reclaimed from and no reclaim lock runs
  out.
* Not runs, but worth knowing: a run that fails, and a job of an unknown kind,
  are acknowledged (`LREM`) too, although `dequeue_batch` speaks of "successful
  processing"; the contract therefore lets a job go once its run has *begun*. And
  `save_machine_event` in the `finally` of `_process_job` skips `complete_job`
  when it raises.

### What is proved

`FreshnessQueueProofs`, for any finite or infinite sets of workers, jobs and
workspaces and any bounds, from `QueueAssumption` only: `TypeCorrect` (`TypeOK`),
`QueueImplementsContract` (`ImplementsContract`), `NothingLost` (`NoJobLost`),
`OneReclaimer` (`SingleReclaimer`), `OneRunner` (`SingleRunner`),
`ReclaimedJobsGoHome` (`RoutedHome`).

The inductive invariant is built in layers, each proved relative to the ones
below. `TypeInv` adds to `TypeOK` what each phase knows (`PhaseOK`), that an
entry is on one list at most and there once (`OnePlace`), that everything stored
or remembered was accepted (`KnownJobs`), and that a worker past "received" has
begun its job (`RunningBegun`). The refinement needs exactly this: an `LREM` of
the job at the head of a batch is a `Retire` because the job was begun. `NoJobLost`
is then an invariant of the *contract* carried over by the refinement.
`LockHeld` says that a reclaimer holds the lock of its target unless a lock was
lost, which gives `OneReclaimer`. `Justified` says that the target of a reclaimer
is dead or misjudged, `Owned` that a batch entry of a worker never misjudged is
still on that worker's list; with one place per entry this gives `OneRunner`.
`Routed` says that what a reclaimer peeked at is still at the tail, and with
`LockHeld` and `Justified` it gives `ReclaimedJobsGoHome`.

The lemmas on lists (`AppendMembers`, `TailMembers`, `RemoveMembers`,
`PushPlaces`, `RemovePlaces`, `MovePlaces`) say what each Redis command does to
the members of the lists and to the places of an entry.

## 4. `CompactionClaims`: compaction of conversation events

### What is modelled

One session (a session shares rows with no other), any number of requests in any
number of API processes.

| variables | code |
|---|---|
| `rows` | `conversation_events`: not captured, open, compacted, deleted |
| `claim`, `lapsed` | the session's row of `conversation_compaction_claims`, and whether its `expires_at` is over |
| `ledgers` | `session_ledgers`: generation to source events |
| `copies` | how many `memory_records` hold the content extracted from an event |
| `pc`, `batch`, `gen`, `left`, `item` | a request: its call, `claim.events`, the generation it will write, the candidates to save |
| `overrun` | history: a lease ran out while its request was at work |

`ClaimBatch`/`ClaimNothing` are `claim_uncompacted_batch`, `ReadLedger`,
`CheckMemory`, `InsertMemory` are `_compact_claim` with `MemoryService.save` cut
at its two calls, `FinalizeClaim` and `ReleaseClaim` the two ends, `AppendEvent`
the capture by the proxy, `ExpireEvents` the expiry worker. A transaction is one
action; a COMMIT whose reply is lost is a branch of its own. `SKIP LOCKED` is a
set of busy rows the SELECT does not see. An extractor is an interface in the
code; the default one extracts nothing, and the model lets it give one candidate
for some events, each with its own content.

A request that gets `None` leaves no trace, so it is no step (except for the
DELETE of a lapsed claim, which is committed: `ClaimNothing`). The text patterns
that reject unsafe content run before the first call and are data.

### What is checked

`backlogs`, scene "compaction": two events, one of which has a candidate, batches of
two, two requests at a time, two faults, one lease overrun, one crash; `TypeOK`,
`AcknowledgedOnce`, `OneMemoryPerContent`, `ClaimKept`, `ImplementsContract` (it
refines `LedgerContract`) and `EventuallyCompacted`. `compaction_overlap` has three
events and batches of two. Two requests at a time are enough for a late one and its
successor, and the places are used again, so the number of requests is not bounded.
Deadlock is not checked: when every event is compacted nothing is left to do.

Fairness: a request under way takes its next step; a request always comes that is
not unlucky with row locks and claims (this is the assumption that callers keep
asking: compaction is triggered by explicit requests only); ten minutes end. No
fault, crash, overrun, capture or expiry is fair.

Finding `compaction_overlap`: the docstring of `claim_uncompacted_batch` says that
only abandoned claims are reclaimed, the code looks at the clock only. The ledgers
stay right, which is what the refinement shows; memories may be saved twice, which
is why `OneMemoryPerContent` excepts an overrun.

### What is proved

`BacklogProofs`, for any events and requests and any bounds, from
`CompactionAssumption`: `TypeCorrect`, `EventsAcknowledgedOnce`,
`NoDuplicateMemory`, `ClaimsKept` and `CompactionImplementsContract`. `TypeInv` adds
that a request at work has events. `GenFresh` says the generations in use are
`0..n-1` and that a request which read the ledger and still has its claim will
write `n`: this is why a stale read is harmless, and it makes the mapped ledgers a
sequence. `Covered` strengthens `AcknowledgedOnce` to events that were never
captured. `Held` says that, without an overrun, whoever works holds the claim and
its lease is not over; so requests at work exclude each other, and `Unique` follows:
what is about to be inserted is not there yet.

## 5. `ConnectionSync`: keeping a connection in step with its source

### What is modelled

One enabled connection with a cron schedule, the requests and scheduler ticks that
want to sync it, the documents of its source, and what the API does to the row
meanwhile.

| variables | code |
|---|---|
| `status`, `token`, `cursor`, `config`, `due` | the row of `connections`: `status`, `sync_claim_id`, `last_synced_at`, `config_encrypted`, whether `next_run_at` is over |
| `raw` | `raw_documents`: the version stored and `qdrant_synced` |
| `index` | the version whose points are in Qdrant |
| `pc`, `since`, `using`, `began`, `fetched`, `changed`, `partly`, `outcome` | an attempt to sync and the locals of its task: `last_synced_at`, `config`, `fetch_started_at`, `documents`, `changed_source_ids`, `fetch_errors`, `status` |
| `up` | which API processes run |
| `clock`, `edited` | the source: how often it changed, and when each document changed last |
| `budget` | how much trouble is still to come |

Time is the number of changes of the source, and a version of a document is the
time it was made. A timestamp is used by this code for one question, which
changes came before and which after, and this keeps the answer.

`RequestSync`, `ClaimForSync`, `SyncRefused` are `trigger_sync` (and the MCP tool
`metronix_source_sync`, which does the same) cut at its awaits: the row is *read
before* it is claimed. `ListDue`, `ClaimForAutosync`, `ClaimLost`, `ReadClaimed`
are a tick of the scheduler, which claims first. `Release` is
`release_unstarted_sync_claim`. `Start` to `Finish` are `run_connection_sync`, with
a swallowed or raised exception, or a cancellation, at every await. `EditConfig`
and `TestConnection` are the writes of the API that do not ask for the lock,
`Kill` and `Restart` the death of a process and `recover_interrupted_syncs`.

The status of a sync is decided as the code does: `IngestStatus` from the result of
the ingest (which calls a document new if it had no points before, and a sync
without new documents and with an error `failed`), then `Reconciled` with the errors
of the fetch. The cursor follows from it (`CursorAfter`).

Left out: `sync_logs` (nothing decides on them), the `page_token` of Google Drive
(`DriveFeed`), the graph phase and `graph_synced` (`GraphBacklog`), a metadata change that
only clears `qdrant_synced`, documents with equal or empty content, creation,
deletion, enabling and scheduling of connections, a claim whose COMMIT is done but whose
answer is lost, the reset of all data by an
admin, the release of a claim when no Fernet key is set, and
`autosync_max_concurrent`, which a single connection cannot reach.

### What is checked

`sync` has three states of the source, one failed call, one kill, one loss and one
edit: `TypeOK`, `LockHeld`, `NothingSkipped`, `NoFalseMark`, `CursorKept` and, under
fairness, `EventuallySearchable`. `sync_overlap` has one edit that need not wait for
a sync, `sync_lost` one loss.

All have two attempts at a time, two documents, and two configurations, one of
which shows one document and the other both (so an edit makes old documents
appear). Two attempts are the fewest that race, and their places are used again,
so there is no bound on their number. Three states of the source let a change
fall between the start of a sync and its fetch, and another after the fetch.
A `loss` is a fetch that returns part of the news, or documents that fail alone in
an ingest; a fetch that reports errors and returns everything or nothing is a
`fault`.

Deadlock is checked: requests can always come.

Fairness: the event loop runs every task it has, so an attempt takes its next step;
the scheduler polls for ever and cron comes round (`ListDue`, `RunIsDue`); a killed
process is started again, as the comment on the lock in `trigger_sync` counts on.
No request, edit, test, change or trouble is fair. Repeated tests of the connection
do not stand in the way of `EventuallySearchable` because they wait for the sync.

Exceptions, each named in the property:

* `Careful` makes edits and tests wait until no attempt has read the row.
  `LockHeld` and what depends on it need this, and `sync_overlap` drops it. They
  also need a single API process: with two, the restart of one takes the claims of
  the other's live syncs (`recover_interrupted_syncs` does not ask whose they are).
* `Lossless`: a sync that is `partial` advances the cursor over documents that the
  fetch did not return. The code does this on purpose.
* `Wedged`: the terminal write of a sync is tried once and its exception swallowed;
  the row then says `syncing` until the next restart, as the code documents.

### Findings

* `sync_overlap`: `update_connection` and `test_connection` write `status` without
  a look at the lock. A sync that is under way goes on, a second one passes the
  claim, and the terminal write of the first, which does not compare the token,
  ends the claim of the second. The comments in `trigger_sync` ("exactly one
  request ever gets past this point") and in `run_connection_sync` ("Nothing can
  steal an in-flight claim") say otherwise.
* `sync_lost`: when a document fails in the ingest, the others succeed and
  `mark_documents_synced_by_source` is given *all* the documents that were fetched.
  The sync ends `failed` and the cursor stays, so that the document is fetched
  again; but then it is unchanged and marked, nothing is ingested, the sync is a
  success and the cursor passes the document, which is not in the index.

### What is proved

`ConnectionSyncProofs`, for any documents, configurations, attempts and bounds, from
`SyncAssumption`. All but the first assume `Exclusive`: one API process, and
`Careful`.

| theorem | property |
|---|---|
| `TypeCorrect` | `TypeOK` |
| `LockKept` | `LockHeld` |
| `CursorNeverBack` | `CursorKept` |
| `NoSkippedChange` | `NothingSkipped` |
| `MarksTrue` | `NoFalseMark` |

`LockHeld` is inductive with the types: a claim needs a row that is not `syncing`, so
nobody else is past his, and whoever gives the row back is the one who holds it.
Every later step uses it to show that an attempt that stores or marks is alone.
(`OneSyncAtATime` under the same assumption would say no more than that: without it
the code does not keep it, which is what `sync_overlap` shows.)
`Timely` orders the times: the cursor is not after the start of a running sync, and a
running sync uses the row's configuration and a cursor not after the row's.
`Undecided` says that `outcome` is `failed` until an ingest set it, so an interrupted
sync leaves the cursor. `Complete` is the chain along which nothing is skipped: what
was fetched is *full* up to the start of the sync (or empty, with errors), what is
stored is *kept* up to there, and a sync that is not `failed` has kept everything
when it writes the cursor. `Tracked` says which documents an attempt may mark: those
it fetched whose points are those of the stored version, `changed` being the ones
still to be ingested. `LossBound` and `LossStep` carry the exception `Lossless`: once
spent, it is spent for good.

Stated for TLC only: `EventuallySearchable` (liveness), and the two properties that
fail.

## 6. `MemoryLifecycle`: stages and the review queue

### What is modelled

| variables | code |
|---|---|
| `status`, `into`, `aged`, `stamped` | a row's `status`, `superseded_by`, whether `updated_at` is older than the threshold, `last_freshness_run_at` |
| `entries` | `review_entries`: target, related record, reason, id |
| `shown` | the status in the payload of the Qdrant point |
| `waiting`, `locks` | records with a job in the queue, the stage locks in Redis |
| `job`, `review`, `editing` | what a worker, a reviewer and an edit remember between two calls |
| the rest | history and budgets |

A worker's job goes from stage to stage: `Link`/`LinkAndMatch` (Linker and the
Reconciler's read), `File` (its entries, one call each), `Decided`/`Check`/
`CheckFindsNothing` (the decision engine and the Monitor), `Stamp`, `Mark`, `Mirror`
(the row, then the payload), `ApplyStale`, `ApplyReview` (`apply_decision`), with
`JobFails`, `Killed` and `LockLapses`. `Scan` is the scheduled scan, `JobAgain` a job
that the queue delivers twice. `ReadReview`, `CommitReview`, `MirrorReview` are
`resolve_review` cut at its awaits; `EditContent`, `IndexEdit`, `DeleteItem` the
writes of the API. What the contradiction model and the similarity search answer is
left open (`Verdict`). A hit for a document is a label (`source_id`), not the id of a
row: a document may match its own chunks, and the look for the pair in the other
direction finds nothing, so the pair may be filed once per direction. The comments in
`target_raw_document.py:138-143` take labels for ids. The statuses `candidate` and `review_needed` and a
`valid_until` have no producer in the code, so the Curator and the Monitor's
archiving rule, which ask for them, never fire and have no action. (A memory that
compaction extracts is `candidate` in the payload of its point alone, since the INSERT
leaves `status` to its default; such payloads are left out.)

### What is checked

The second half of `freshness` has four crews: two workers and a pair of records; a worker, a reviewer,
a pair and a lost call; a worker, two reviewers and a record; two workers and a
document with a lost call. It shows

* `LifecycleSound`: types; `OneEntryPerPair`, a pair is filed once for a reason
  (a pair of documents once per direction) unless two workers matched it at once (find and save are separate calls);
  `StatusShown`, when nobody is between the two writes the payload shows the row's
  status, unless two wrote it at once or a write of the payload failed;
* `KeptUntilAged`: what a reviewer keeps is not retired until it grows old again,
  unless it carries a merge or a stage that read it before the review writes after;
* `ResolvedOnce`: an entry is resolved twice only by reviewers that had both read it
  (both are told of success);
* `AgedRetired` under fairness: an old memory record does not stay active.

Fairness: a worker that has a job takes its next step, the scan comes round, locks
have a TTL. Failures, kills and touches are bounded and not fair. Two records are the
fewest that pair, two of each actor the fewest that race. Deadlock is not checked: a
system without jobs and entries stands still.

Worth knowing, each an exception above or a note: a failed job is acknowledged and
counts as done; `keep` does not clear `superseded_by`; the entries of a deleted record
can never be resolved, because the resolution first looks for the record.

### What is proved

`MemoryLifecycleProofs`, for any items, workers, reviewers and bounds, from
`LifecycleAssumption`: `LifecycleIsSound` (`LifecycleSound`), `KeptStay`
(`KeptUntilAged`), `EntriesResolvedOnce` (`ResolvedOnce`). The invariant is
`LifecycleInv`, five parts:

* `LifecycleShapes` strengthens the types: what each step of a job and of a review
  remembers, and that the entries to be filed fit the bound of entries (a
  cardinality, which is why the processors are finite);
* `KeptInv`: a kept record is active, has no merge, is not old, and no Monitor is
  about to write it;
* `PairInv`: of a pair filed again, or being filed by two, both records overlapped;
* `ResolvedInv`: a resolved entry is out of the queue or its record is gone, and
  whoever still holds a resolved entry is one of two who read it at once;
* `ShownInv`: whoever is between row and payload carries the row's status unless the
  record is contested.

`KeptUntilAged`, `ResolvedOnce` and the two halves of `LifecycleSound` are each about
the idle state; the invariant says what has to be true at every step in between for
them to hold there.

## 7. `GraphBacklog` and `ProxyTurns`

`GraphBacklog` has documents on their way into the relationship graph: the row with
its text and the flags `qdrant_synced` and `graph_synced` (`raw`), the chunks
(`indexed`), the node and the text it was built from (`node`), the handlers of store,
upload and sync (`call`: `Persist`, `DropChunks`, `DropNode`, `AddChunks`,
`MarkIndexed`, `Unmark`, `GraphPhase`), the graph pass under its advisory lock
(`pass`: `Begun`, `WriteNode`, `ExtractionFails`, `WriteFails`, `SkipBlank`,
`MarkGraph`, `NextRound`, `EndPass`), the sweeper (`SweeperLooks`, `SweeperStarts`)
and the operator's retries. The pass works on a copy of the rows.

`GraphKept` (part of `BacklogSound`): when no call is at work on a document, a row
marked `graph_synced` has its text in the graph. Exceptions, collected in `astray`: a
re-ingest of an unchanged text by a store call or an upload deletes the node of a row
that stays marked; a sync cut between its phases; a pass that marks a row which
changed under it; and a blank text, which keeps its old node. `ReachesGraph`: under
fairness a text reaches the graph unless it is given up on (`failed`) or astray.
The run `backlogs` has two shelves: one document, two texts and a retry; two
documents, one text, where an error ends the batch of both. The circuit breaker opens
after `Breaker = 1` errors. Fairness: a handler's next step, the pass's next step,
the sweeper's tick.

`ProxyTurns` has a proxied exchange: `exchange` is the generator (connected, what was
pulled from the upstream and given to the client, whether the end was seen, in one or
two frames), `capture` the background task that appends the user's message and the
reply, `said` the rows it stored, `emitted` the event that reports the call.
`TurnsHonest`: `RepliesWhole` (a stored reply is the whole answer of a good exchange,
as the client had it), `AnswersKeepQuestion`, `ReportedOnce`. A client that leaves
right after the last frame is not captured, which the properties allow.

Both are proved in `BacklogProofs` for any documents, texts, calls and turns.
`BacklogIsSound` rests on `BacklogInv`: the rows of a pass are not marked and are one per
document; a call whose pass has the lock is at its step "pass"; a row and its node are
parted only if astray, blank, or a handler is between the deletion and the flag.
`TurnsAreHonest` rests on the parser being level with the client wherever the generator
is not at a yield, and on a capture that begins only after the end was seen.

## 8. The services of one process

`MCServices` puts thirteen services beside each other, one scene each, and the run
`services` checks one invariant per scene. The values in `Services.cfg` are shared
by the scenes where they play the same part (`{c1, c2}` are the two callers of each
service), so that one group of permutations serves them all. Two callers and three to
five calls are enough for one call to overlap another and for a third to find what
they left; one failure or lapse more is `MaxFaults`, `MaxSlips`, `MaxMishaps`,
`MaxBreaks`, `MaxExpiries`, `MaxLapses`, `MaxTroubles`. Deadlock is not checked: the
calls are bounded.

| scene | code | invariant, and what it excepts |
|---|---|---|
| "memory": `MemoryStores` | save, session save, promote, update, delete, invalidate, snapshot, restore and the collector over PostgreSQL (`row`), Qdrant (`point`), Redis (`cached`, `listing`), cut at each call | `MemoryKept`: see below |
| "chunks": `ChunkIndex` | `ingest_documents`: read the fingerprints, `DropOld`, `AddPoints`, `SavePrints`, `Mark`; each may fail | `ChunksSound`: the points of a synced page are those of its text but for duplicates, a fingerprint stands for a point; but for failed or overlapping ingests. Blank text keeps the old chunks |
| "channels": `ChannelPollers` | `ChannelManager` start, stop, crash, restart, sweep and the endpoints | `ChannelsSound`: no token polled twice, each poller can be stopped, rows are obeyed between requests; but for a connection started again before its crash was recorded, a change behind the API, a request that failed half way |
| "exports": `ExportJobs` | start, build, token, download, sweep, restart | `ExportsHonest`: one build per scope, one download per token. The row of a dead build blocks its scope until a restart reaps it |
| "agents": `AgentRegistry` | read, then write in a transaction that locks the row | `RegistryConsistent`: contiguous versions; unset fields kept unless the update was outrun; the archive left by restore only, but for a transition that read the agent before it was archived |
| "actions": `PendingActions` | plan, confirm, decline, expire in threads without a lock | `ConfirmedOnce`: once, unless two messages were answered at once |
| "search": `KnowledgeSearch` | four recall channels as interleaved reads, the limit of the metadata channel, the merge by point id, the entity cache | `SearchHonest`: only open issues, archived ones hidden by dense recall and PageRank, entities current but for lookups that overlapped an announcement; a query for work in progress that names nobody finds it, but for the lifecycle's status in the place of the tracker's (one payload key `status` for both) and unless more was in progress, or matched, than `recall_top_n_metadata`. With a person detected the channel looks for assignees instead, and nothing is claimed |
| "users": `PlatformUsers` | `map_platform_user` cut at its awaits, edits by an administrator | `PlatformHonest`: the cache follows the mapping but for the window of a change; a failure comes from a first-message race or an account without its mapping |
| "server": `ServerSync` | `MCPSyncManager`: load the hashes, fetch, save them, ingest | `SkippedAreHeld`: what the hashes skip is held; but for ingests that failed or were cut after the hashes were saved, and other workspaces (one file for all) |
| "workspaces": `WorkspaceRegistry` | create, choose, delete with its stores, load at startup | `WorkspacesHonest`: the knowledge collection and the graph of a deleted workspace are empty, members are where they chose; but for swallowed failures and what was written since the deletion. That the rest goes too is said by the route and not so: finding `workspaces_kept` |
| "pages": `PageWalk` | the paged fetches of Confluence, Jira, Notion, GitHub | `FetchedUpToCursor`: up to the cursor everything was fetched; but for items whose fetch failed alone, and offsets and page numbers (Confluence, GitHub) after a removal. Assumes exact times of one zone: see below |
| "drive": `DriveFeed` | the sweep, the feed of changes, the rows and points the sync writes, the token | `TokenLeavesNothing`: what lies behind a saved token is searchable as it is; but for a folder moved into the scope, entries without parents, files that `_process_file` skips, and ingests that failed or had no text (their rows are stored, and marked, so the next sync finds nothing to ingest and saves the token) |
| "listings": `Listings` | the merged list by pages, its queries one by one, a source that fails and is left out of the page, the two walks of an export; pages are slices by rank (`Ranking`) | `ListingsCover`: a row there all along is shown once, unless rows were added or removed by offset; a document that changes while an export walks the key set is left out |

**`MemoryStores`** is the largest. Its `task` is what an operation remembers
between two calls. `MemoryKept` is four statements: `PersistentKept`, a record reported
as stored that no session created stays until it is deleted, reset or restored away;
`IndexAgrees`, when nobody works on a record its point has its row's content, and a
record stored for good has a point, unless an index call failed, two operations
overlapped on it or the collector took its row; `OneRowPerContent`, two rows have one
content only if two writes of it overlapped or an edit or restore brought it back;
`SessionListed`, a session record that Redis has is listed, unless changes of the index
overlapped, one failed, or the index expired. `PersistentKept` leaves out session
records because `promote` does not clear `ttl_expires_at` (`memory/service.py:644`),
so that the collector deletes a promoted row; the docstring at 628-631 says the record
becomes long-term. A save that finds its row already there (a retry of one whose index
call failed) does not index it, and the snapshot taken before a restore misses the
rows written after it.

**Finding** `listings_merged`: the module docstring of `api/routes/knowledge.py` says
that pages of both sources are exact. Each source is cut in its own order before
the merge, and the merge orders equal times by id descending where the document source
orders them ascending: the run has one record and two documents of a batch, pages of one
row and no change at all, and shows a document twice and the other never. (Records are
cut by `created_at` and merged by `updated_at`, which no run shows.) The route refuses
offsets above 10000, which the model does not reach. `ListingsCover` is what holds.

**Finding** `workspaces_kept`: `DELETE /workspaces/{id}` is documented as "Delete a
workspace and all its data." (`api/routes/workspaces.py:111`). It drops the knowledge
collection and the graph; `raw_documents`, `dedup_fingerprints`, `connections` and the
memories stay. The run is the shortest case, a connection that survives; `BeginFilling`
has what follows, since the scheduler goes on syncing it. In `WorkspaceRegistry` one
request at a time deletes a given workspace, ids that are not listed are accepted as the
routes do, and `refresh_from_persistence`, which nothing calls, has no action.

**Assumptions and simplifications of the services.**

* `PageWalk`: times are exact and of one zone. Confluence and Jira receive the cursor
  to the minute and without a zone, Notion's times are to the minute, GitHub's to the
  second; a change within the cursor's minute, or a server in another zone, is outside.
* `ChannelPollers`: all connections are of the default workspace, the only one that the
  sweep lists (it would stop the pollers of any other).
* `PlatformUsers`: the SELECT of the mapping after a lost race and the read of its user
  are one step. `MemoryStores`: the first SET of `cache_session` is answered.
* `ServerSync`: a revision that is blank or a duplicate has no points and counts as held.
* `ChunkIndex`: the workspace lives; its deletion keeps the fingerprints of passages
  whose points it drops, so that a workspace of the same id would leave those out. The
  rows found unchanged but without their graph sidecar are not ingested there.

## 9. What is proved about the services

Every theorem is for any sets of callers, items and contents and any bounds, from
the assumption its module states (that markers such as `NoRoom` are not members of
the sets they stand beside, and that bounds are numbers). Each is `Spec => []Inv` by
an inductive invariant; where the property speaks of what is at rest, the invariant
says, for each step of a call, how far the stores are.

| module | theorem | the invariant |
|---|---|---|
| `KnowledgeProofs` | `ChunksAreSound` | per ingest `TaskOK`: a clean ingest is alone on its page and the points are as far as its step, a soiled one has tainted and poisoned its page; the fingerprints it read or wrote are held |
| | `SearchesAreHonest` | `HitsHold` (what was found names the point it was, or an older one), `FoundHolds`, `Settled` (the graph's entities and the announcements), `WorkDone` (a metadata channel that is done, and had no more matches than its limit, has found what was visible throughout); points come in the order of writing |
| | `ExportsAreHonest` | per step of a build how far row, archive and token are |
| | `SkippedDocumentsAreHeld` | that `SkippedAreHeld` is inductive with the types |
| `PlatformProofs` | `ActionsConfirmedOnce` | an uncontested action that was executed is on its way out of the store, a declined one is out of it |
| | `ChannelsAreSound` | a poller is in the hands of one (the tables, or a stopping request); a crash still to be recorded clears another's place only where usurped; a request alone with its channel finds tables and row as it goes by |
| | `RegistryIsConsistent` | the version a call has read is not ahead of the row's, and while it is equal the configuration it read is the row's |
| | `PlatformIsHonest` | what a call has read of a mapping is still so or a change is noted; an account without a mapping belongs to the one call about to insert it |
| | `WorkspacesAreHonest` | contents of the two stores that a deletion clears belong to workspaces listed, being cleared, or noted; settings to choices, or lingering ones |
| `MemoryStoresProofs` | `MemoryIsKept` | a persistent row is on its way in or stays; rows, snapshot and the backup of a restore hold a content once, and a save that is alone has seen so; a session's listing is within the ids of whoever will write it next, and what is cached is listed or about to be; a record not strayed has at most one call at work on it, whose step says how far row, point and cache agree |
| `SourceProofs` | `CursorsSkipNothing` | an item changed since the cursor and not forgiven is had, has failed, is in hand, or is still ahead of the walk's offset or token. `Ranking` says what a page is (the elements whose *rank*, the number of elements before them, lies in a range), so no induction over pages is needed: a page takes all of its ranks (`RankOnto`), and an item that changes moves to the front, which pushes the others away from the start, never into it |
| | `TokensLeaveNothing` | per step of a sync (token captured, folders read, files listed or changes followed, token saved), why a file of the scope is not lost: it is fetched as it is, stored and still to be ingested, indexed, still to be read, or changed after the token that will be saved |
| | `ListingsFindAll` | `ListingInv`: per kind of paging, a row there all along was handed out, is in hand, or is at a place the offset (or the key) has not passed, and was handed out only from a place already passed. A place shrinks only when a row is removed and grows only when one is added or comes to the front, which is what the two ghosts of the property note. For the merged list, the first rows of each source hold the first rows of both (`TopKept`), so with every order alike and nothing moving each page is the slice of the union |

`CursorsSkipNothing` and `ListingsFindAll` cite what the rank of an element is in a
finite set under a strict total order (`Orders`): ranks are below the cardinality,
differ, and every place below it is taken, and a `Slice` is full unless the rows end
(`SliceFull`). The lemmas are proved in `SourceProofs` from the library's facts about
finite sets.

## 10. What is only model-checked

* Liveness (`DeadWorkerDrained`, `DeliveredDespiteKills`, `EventuallyCompacted`,
  `ReachesGraph`, `EventuallySearchable`, `AgedRetired`): TLAPS does not handle
  `ENABLED`.
* The properties that fail (the findings).

## Not modelled

* Neo4j's knowledge graph beyond "the node of a document": `storage/graph_ops.py`
  merges entities by name. (Its `MERGE (d:Document {doc_id})` is keyed by the source
  id alone, so two workspaces that ingest one source share the node.)
* `created_at` ties in listings: the code has no tie-break, the models order rows.
* Ranking, fusion scores, prompts, parsing, splitting and patterns on text: data work
  whose properties are not about steps and states.
* Session TTL extension and `delete_expired` (no caller), retention of snapshots, the
  file connector, Slack's history, token and password checks, benchmarks, the
  frontend, the packaged plug-in and migrations.
* Redis and PostgreSQL are assumed to carry out one command or one transaction
  atomically; their persistence and failover are not modelled, nor is clock skew
  between API processes.
