# TLA+ models of kube-sharding

kube-sharding runs sharded search services on Kubernetes. A **ShardGroup** owns
one **RollingSet** per shard, a rolling set owns replicas, a replica is a *pair*
of **WorkerNodes** (the current one and, while it is moved, a backup), and a
worker owns a pod. A **ServicePublisher** keeps the workers' IPs in a registry,
health checks report on them, evictions and reclaims move them. **CarbonJobs**
own workers directly. Controllers send their writes through one pool
(`AsyncExecutor`), and may keep their objects in **memkube**, an in-memory store
with files behind it and watches in front of it.

Each part is correct only together with the others: every controller reads a
cache that lags, writes objects others write too, and may stop at any point.

## Modules

| part | module | state | actions |
|---|---|---|---|
| memkube store | `MemStore` | indexer, pending objects, files, hashes, persist loop, callers | each call in its look-up, request and wait steps; each step of `run`; failed writes; `Restart` |
| its promise | `DurableStore` | durable, told, asked, gone | abstract: write, ask, tell |
| watches | `WatchCache` | channels, broadcaster, watcher goroutines, clients | one per blocking step of a goroutine |
| percentages, targets, choice of nodes | `RollAlgorithm`, `ShardScheduler`, `NodeSetScheduler` | none: pure operators | run by the next two |
| rolling set | `RollingSet` | API server, cache, undelivered events, expectations | `Sync`, `Deliver`, expiry of expectations, pods, failures, backups, the owner |
| shard group | `ShardGroup` | shards with their nodes, the group's cache of them, status, the Sync under way | Sync plan by plan and creation by creation, shards' own Syncs, events, new specs, crashes |
| worker state machine and pair | `WorkerNode` | none: what one Sync computes | run by `Replica` |
| replica, publisher, health check, eviction | `Replica` | both workers and pods, registry, records, queue, the slow actor | each controller's round, atomic or held with an old view |
| write pool | `Executor` | tickets, the goroutines of each call, commands | one per step of a goroutine |
| carbon job, collection of ownerless objects | `CarbonJob` | job, workers, both caches, queue, Sync, calls in flight | each step of a Sync, each call, each event, faults |

`MC*` modules give the constants values. Several scenarios share one run: `Init`
chooses one of a constant set of bounds (`Budgets`, `Settings`, `Scenarios`,
`Workloads`). `PROJECT.json` maps definitions to source lines.

## Runs

| run | distinct states | checks |
|---|---|---|
| `store_restart` | 3.5 M | deletions stay, `DurableStore` is implemented, events ordered, no lost update |
| `store_commit_race` | violation | a committed object is the one in its file |
| `replica_safety` | 268 k | never both workers given up; moved without a gap; no recorded IP forgotten; pods deleted after their IP |
| `replica_converges` | 11 k | the replica settles |
| `replica_lost_call` | violation | the same, with two failing pod updates in a row |
| `rollingset_safety` | 110 k | maxUnavailable, maxSurge, gray ratio, sane targets, no Sync without what the last one created, settled sets left alone |
| `rollingset_live` | 27 k | rollouts complete |
| `shardgroup_safety` | 1.1 M | complete rows stay available; complete is true; dropped shards go last |
| `shardgroup_live` | 34 k | rollouts and changes of the set of shards complete |
| `watch_cache` | 184 k | no send on a watcher's closed input, no holes, no deadlock but the documented one, no leak, informers converge |
| `executor` | 123 k | tickets, true results, callers return, no leak |
| `carbonjob` | 881 k | wanted workers are kept, jobs go after workers, the plan is reached |

Bounds are small: one object and three versions in the store, two shards, at
most five replicas, one pair, three calls, two job replicas. They are chosen so
that every action fires and every property is broken by a plausible bug (the
mutants). They are not a proof for larger instances; some scopes below matter.

## What does not hold

Two runs expect a violation and are findings: an update between marshal and
commit is committed unpersisted (`pending_object.go:172`), and a pod
update that fails twice in a row is never retried (`worker_processor.go:140`; the
first failure is, because the stored `ProcessStep` changes).

The passing runs and theorems hold *within a scope*. Outside it TLC finds
counterexamples; these were tried by hand and are not runs of the project:

| property | holds for | violated with |
|---|---|---|
| `DeletedStaysDeleted` | one object per file, or failed writes that do not land | two objects in a file and a write that fails after landing: `Persist` skips contents whose hash equals the last successful write's (`persister.go:187`) |
| `KeepsPromise`, `EventsInOrder` | one creator | two concurrent `Add`s of a name (`store.go:219`) |
| `MinAvailable`, `GrayBound` | one change under lag or with refused calls, two otherwise | two changes: `MinAvailable` under lag (`rollingset.go:358`), both with a refused release, since the updates that count on it go ahead (`simple_resource_manager.go:911`) |
| `SyncSeesCreated`, `SurgeBound` | expectations that count what they should (`NoMiscount`) | backup workers and lag (`rollingset.go:137`), or an expectation that expires while the informer still owes the creation |
| `RowsAvailable` | one rollout, maxUnavailable > 0 | two overlapping rollouts (`sync_rollingset.go:117`) |
| `CompleteIsTrue`, `DropAfterComplete` | owners that do not return to an earlier spec (`NoReturn`) | a rollback while the Sync for the spec in between still writes: the old version counts again (`calculateShardGroupSign`), and a shard that just left it passes for complete |
| `DropAfterComplete` | a Sync that finds every shard of its spec | one that finds some missing (it is just creating them, or a creation failed) counts only those that are there, perhaps none, and deletes the dropped shards (`sync_rollingset.go:376`) |
| `NeverBothReleased` | a current worker that can be recovered | a current worker that fails for good while its backup is leaving: `couldSwapWorkers` swaps onto the leaving backup and releases the old current too |
| `RecordKept` | IPs that were saved once | of an IP of a round whose save fails ten times, or that dies before it, only the worker has a record, and the worker may go first (`controller.go:564`). That the lister of the service shows the last save when the next round starts, five seconds later, is assumed |
| `Converges` of `Replica` | one disturbance at a time | an update taken back halfway (`allocator.go:550`) |
| `DeletedUnpublishedNow` | decisions while nobody is slow | a slow Sync or round: the pod goes while its IP is registered |
| `CallsReturn`, `NoLeaks`, `InformersConverge` | local clients that read a watch to the end | a local client that stops with events unread, while the distributor waits for room in its input under the lock `Stop` needs; the comment at `watch_cache.go:226` names it. Also, for the first two, a commit that is sending when `Shutdown` closes `incoming` (`watch_cache.go:130`), which panics |
| `InformersConverge` | local clients that met no gap | a commit between a local client's List and Watch (`watch_cache.go:105`) |
| `ReleasedFirst` | informers that keep up, calls that end with their batch | a lagging worker informer, without any fault (`syncer.go:285`); or a late call that makes a worker after the last look |

`store_restart` does let failed writes land, but with one object in the file,
where the hash test cannot go wrong; it says nothing of files with several.
`Converges` of `CarbonJob` exempts behaviours with a lost request (`lost`) and,
unless informers keep up, asks nothing once the job is gone.

## Fairness

Only weak fairness, of loops that the code restarts: work queues and resyncs,
informers' deliveries, the publisher's and the checker's rounds, goroutines that
can proceed, deadlines that pass, pods that come up. Faults, failures and the
owner's changes are never fair. In `Replica` a fair step is one whose delays are
over; in `CarbonJob` late calls run or are dropped. `MemStore` states safety only.

Deadlock is not checked for the store, the watches, the executor and the job,
which may stop: bounds are used up, the store is shut down, all calls are done.

## Proofs

For every value of the constants, by TLAPS:

| component | theorems | of the run's properties |
|---|---|---|
| store | `MemStore_proofs` | `TypeOK`, `DeletedStaysDeleted` |
| its promise, its versions | `MemStore_refines` | `KeepsPromise`, and what it gives a caller; `NoLostUpdate`, `EventsInOrder` |
| watches | `WatchCache_proofs` | `TypeOK`, `NeverSendsOnClosedInput`, `NoHoles` |
| publisher | `Replica_proofs` | `RecordKept` |
| rolling set | `RollingSet_proofs` | `SyncSeesCreated`, `SurgeBound` |
| shard group | `ShardGroup_proofs` | `CompleteIsTrue`, `DropAfterComplete` |
| write pool | `Executor_proofs` | `TypeOK`, `TicketsConserved`, `NilMeansResults`, `AnswersInTime` |
| carbon job | `CarbonJob_proofs` | `TypeOK`, `KeepsWanted`, `ReleasedFirst` |

The arguments:

- **Store**: `IInv` is inductive. Beside types it says which pending object a
  name has, what a batch under way may hold, that files are within the hashed
  contents, and that no reported deletion is in a file or about to be written;
  `DeletedStaysDeleted` alone is not inductive, as a marshalled batch may still
  hold the object. With `RInv` (the object indexed is the one in the batch,
  committed objects are stored) every step maps to a step of `DurableStore` or a
  stutter. `VInv` bounds versions by the seed, `EventsOK` puts each pending
  version above the last one broadcast.
- **Watches**: `IInv` follows an event through three channels. Commits are
  distributed, queued or being queued, in order; a watcher that is not stopped
  is registered, and its input and result hold a run of consecutive events that
  ends with the last one distributed to it; while `distribute` is adding to a
  watcher nobody closes its input, because every `dostop` but the watcher's own
  needs the lock that `distribute` holds. `NoHoles` talks of what was read; it is
  inductive only with what is still on its way.
- **Publisher**: `ResultCovers` says that the result of the round under way has
  every IP that is both recorded and registered, and `ReadsLatest` that a round
  holds the status of the service as it is stored: only the publisher writes it.
  A round that was planned from an old view of the workers therefore saves all
  that was recorded and is still registered. Whether rounds are saved at all does
  not matter to the argument, so it holds through crashes and failed saves.
- **Rolling set**: `Counted`, that `expect` is at least the number of replicas
  that are announced but not in the cache. It is kept because an event lowers
  `expect` only if it takes a replica out of that number, and none comes back
  into it: `GoneStays`, after the deletion of a name only deletions of it are
  under way, as a name with an undelivered event is not given again. `Coming`
  says that what the cache misses is announced, and `Overdue` that nothing is
  missing once they have expired; a creation that was refused is never announced
  and only keeps `expect` up. So a Sync with fulfilled or expired expectations
  misses nothing, and if it creates within `maxReplicas` by its
  cache it does so at the server, too.
- **Shard group**: the shard's status, the Sync's copy and the group's status
  lie between a node and `Status.Complete`; the group's cache of nodes is one
  more test, which can only delay it. `Honest`: a shard whose last status counts
  all its nodes as ready at the version it worked for has exactly these nodes,
  since its own Sync leaves a whole shard alone (the lemmas on `Schedule`,
  `rollingUpdateNodeSet` and `Act`) and counts a node it has just moved as not
  ready. `VersionsGrow`: no shard is ahead of the group, so one that worked for
  the group's version is at it. `JobSound`: what a Sync found full stays whole
  while it writes plan after plan, even if the spec changes. `Reported`: a
  status claims complete only of whole shards. Creations need `JobTyped`: no
  shard is to be written twice, and none that is to be created is there already.
  TLC has checked this invariant on the instance of `shardgroup_safety`.
- **Executor**: tickets, bookkeeping of the goroutines and traces left in the
  command, inductive together.
- **Carbon job**: caches and the Sync's view are never newer than the store, and
  a view newer than the last moment a replica was unwanted wants it; so no call
  made from it can release the worker. For `ReleasedFirst`, `PInv` says that with
  prompt informers the empty list on which the finalizer goes is still true.

Conditions, beside the named assumptions on the constants (which TLC evaluates):

- the store's theorems assume `~ FailedWriteLands`; `KeepsItsPromise`,
  `AnswersTrue` and `WatchersSeeProgress` also `OneCreator`;
- `JobOutlivesWorkers`: scenarios with prompt informers have no late calls;
- `ExpectationsDoTheirWork` and `SurgeIsBounded`: `NoMiscount`, see above.
  `SurgeIsBounded` also assumes `[]TargetsSane`, by which the schedule keeps within
  `maxReplicas` as far as its cache tells, which `rollingset_safety` checks;
- `CompleteCanBeBelieved` and `NothingDropsEarly`: `[]NodesTyped`, that shards
  hold finite sequences of nodes. It is a conjunct of `TypeOK`, which
  `shardgroup_safety` checks; to prove it, one would have to follow the types
  through all loops of the schedulers.

Each of the other conditions is needed: the table above has what goes wrong
without it.

Only model-checked: liveness (fairness and ENABLED are out of the prover's
reach); what the loops of the roll algorithm compute, which takes induction over
data, and with it the other properties of `RollingSet`, the rows and `TypeOK` of
`ShardGroup`; of `Replica`, `TypeOK`, `NeverBothReleased` (true only of the
scenarios chosen, see above), `RecoveredFirst` and `DeletedUnpublishedNow`.

## Assumptions of the models

- `Replica`, `WorkerNode`: one graceful service that is never deleted, defaults
  for online, recovery, timeouts and feature gates; no gang, standby or warm-up;
  evictions without preference; a health check is one step; equality of contents
  stands for the resource version; an IP is known when the pod is placed. The one
  allocator has no process versions, so a version counts as reached when the pod
  is written, before it restarts.
- `RollingSet`: a write ends with its batch: it is taken, fails, or never runs.
- `ShardGroup`: shards see their own nodes without lag and share one strategy; the
  group sees the shards' specs and statuses as they are, and their nodes late.
- `CarbonJob`: one worker per replica name, owner references present, the job is
  not created again, watch events compressed to the latest state. `prompt` stands
  for the three seconds by which worker events are delayed being enough.
- `Executor`: racing writes of a command take effect in either order.

## Not modelled

Most of the repository by lines is generated code (clients, deep copies,
protobuf), type definitions and conversion (`transfer`, `proxy`, `pkg/apis`),
which have no behaviour of this kind. Also left out: storage back ends and their
replication, leader election, the rpc transport, memorize (which copies objects
to another API server), http health checkers, standby replicas, group rolling
sets, gangs, per-shard strategies, deletion of services, configuration, metrics
and start-up. The components of `PROJECT.json` give the reason for each.
