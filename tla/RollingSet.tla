----------------------------- MODULE RollingSet -----------------------------
(***************************************************************************)
(* The rolling set controller (controller/rollingset): one Sync reads the  *)
(* replicas from the informer's cache, lets NodeSetScheduler decide, and   *)
(* writes the decision to the API server replica by replica.  Between the  *)
(* two lie the informer's lag, the optimistic concurrency of the API       *)
(* server, writes that fail or never run, and the creation expectations    *)
(* that keep a Sync from acting on a cache that misses replicas it created *)
(* itself, until they expire.                                              *)
(*                                                                         *)
(* A replica that was told to go (ToDelete) is out of every computation of *)
(* the controller, so it leaves api at once.  pending holds the watch      *)
(* events the informer has not delivered, oldest first; a replica with an  *)
(* undelivered event has a newer resource version than its cached copy, so *)
(* a write based on that copy is refused.                                  *)
(***************************************************************************)
EXTENDS NodeSetScheduler

CONSTANTS
  Ids,          \* replica names
  Plans,        \* schedule plans the owner may set
  MaxVersion,   \* bound: versions rolled out
  Budgets       \* bounds on the environment, one of which holds in a
                \* behaviour: changes of version or plan, failures (replicas
                \* that lose readiness or their pod), faults (API writes that
                \* fail, or, if refusing, never run), backups (backup workers
                \* created beside the replicas), stalls (expectations that
                \* expire while the informer still owes a creation) and lag
                \* (undelivered events when a write is made)

ASSUME IdsAssumption == Ids \subseteq Nat /\ IsFiniteSet(Ids)
ASSUME PlansAssumption ==
  \A p \in Plans : /\ p.replicas \in Nat
                   /\ p.maxSurge.val \in Nat /\ p.maxUnavailable.val \in Nat
ASSUME BudgetsAssumption ==
  Budgets \subseteq [changes : Nat, failures : Nat, faults : Nat, refusing : BOOLEAN,
                     backups : Nat, stalls : Nat, lag : Nat]

Versions == 1 .. MaxVersion

Nodes == [version : Versions, phase : Phases]

Gone == [version |-> 0, phase |-> "gone"]

\* The name the watch events of backup workers carry: not a replica.
Backup == -1

VARIABLES
  api,       \* the replicas at the API server
  cache,     \* the informer's copy of them
  pending,   \* watch events on their way to the informer
  expect,    \* creations the controller has not observed yet
  expired,   \* the time of that expectation is over
  version,   \* the rolling set's latest version
  plan,      \* its schedule plan
  budget     \* what the bounds still allow

vars == <<api, cache, pending, expect, expired, version, plan, budget>>

NodeSets == UNION {[S -> Nodes] : S \in SUBSET Ids}

\* Every variable has its type: no replica of a version or phase the
\* controller does not know, and no budget overdrawn.
TypeOK ==
  /\ api \in NodeSets /\ cache \in NodeSets
  /\ \A e \in Range(pending) : e.id \in Ids \cup {Backup} /\ e.node \in Nodes \cup {Gone}
  /\ expect \in Int /\ expired \in BOOLEAN
  /\ version \in Versions /\ plan \in Plans
  /\ budget \in [changes : Nat, failures : Nat, faults : Nat, refusing : BOOLEAN,
                  backups : Nat, stalls : Nat, lag : Nat]

\* A rolling set that has settled on its first version.
Init ==
  /\ plan \in Plans
  /\ version = 1
  /\ \E S \in SUBSET Ids :
       /\ Cardinality(S) = plan.replicas
       /\ api = [i \in S |-> [version |-> 1, phase |-> "ready"]]
  /\ cache = api
  /\ pending = <<>>
  /\ expect = 0 /\ expired = FALSE
  /\ budget \in Budgets

---------------------------------------------------------------------------
(* The API server and the informer *)

Without(nodes, x) == [i \in DOMAIN nodes \ {x} |-> nodes[i]]

Put(nodes, x, node) ==
  [i \in DOMAIN nodes \cup {x} |-> IF i = x THEN node ELSE nodes[i]]

\* Mutant: a deletion is applied as if it were an update.
Upsert(nodes, e) == IF e.id = Backup THEN nodes ELSE Put(nodes, e.id, e.node)

Apply(nodes, e) ==
  CASE e.id = Backup -> nodes
    [] e.id # Backup /\ e.node = Gone -> Without(nodes, e.id)
    [] e.id # Backup /\ e.node # Gone -> Put(nodes, e.id, e.node)

\* Mutant: the server takes writes that rest on an old copy.
NeverStale == {}

\* Replicas whose cached copy is out of date: a write based on it conflicts.
Stale == {e.id : e \in Range(pending)}

\* The server has taken writes, and the watch reports them in their order.
Write(nodes, told) ==
  /\ api' = nodes
  /\ IF budget.lag = 0
       THEN pending' = pending /\ cache' = api'
       ELSE pending' = pending \o told /\ cache' = cache

Event(i, node) == [id |-> i, node |-> node]

\* One write of one replica.
Replace(i, node) == Write([api EXCEPT ![i] = node], <<Event(i, node)>>)

CanWrite == budget.lag = 0 \/ Len(pending) < budget.lag

\* Mutant: any event of a replica is taken for its creation.
AnyEvent(e) == TRUE

\* addReplica: every worker that is added under the rolling set, a backup
\* worker included, counts as one of the expected creations.
IsAdd(e) == e.id = Backup \/ (e.node # Gone /\ e.id \notin DOMAIN cache)

Deliver ==
  /\ pending # <<>>
  /\ cache' = Apply(cache, Head(pending))
  /\ pending' = Tail(pending)
  /\ expect' = IF IsAdd(Head(pending)) THEN expect - 1 ELSE expect
  /\ UNCHANGED <<api, expired, version, plan, budget>>

---------------------------------------------------------------------------
(* Sync *)

\* SatisfiedExpectations: fulfilled, or too old.
rsNeedsSync == expect <= 0 \/ expired

\* Five minutes after ExpectCreations the informer has shown what was created,
\* and what is still expected was never made.
Expire ==
  /\ expect > 0 /\ ~expired
  /\ \A e \in Range(pending) : ~IsAdd(e)
  /\ expired' = TRUE
  /\ UNCHANGED <<api, cache, pending, expect, version, plan, budget>>

\* The informer is further behind than that.
Stall ==
  /\ expect > 0 /\ ~expired
  /\ budget.stalls > 0
  /\ expired' = TRUE
  /\ budget' = [budget EXCEPT !.stalls = @ - 1]
  /\ UNCHANGED <<api, cache, pending, expect, version, plan>>

targetMatrix == Schedule(GetVersionStatus(cache), plan, version, FALSE)

\* The supply loop's order is the map iteration's.
decisions ==
  With(targetMatrix, LAMBDA target :
    {rollingUpdateNodeSet(cache, target, order) : order \in Orders(cache, target)})

\* createReplicaTemplate gives every new replica a fresh name.
NewReplicas(create) ==
  LET n == Total(create)
      free == Ids \ (DOMAIN api \cup DOMAIN cache \cup Stale)
  IN  UNION {{f \in [S -> DOMAIN create] :
                \A v \in DOMAIN create : Cardinality({i \in S : f[i] = v}) = create[v]} :
             S \in {T \in SUBSET free : Cardinality(T) = n}}

updated(i, v) ==
  [version |-> v, phase |-> IF IsEmpty(cache[i]) THEN "empty" ELSE "starting"]

\* sync and syncReplicas: release the redundant replicas, create the missing
\* ones, then update the others; a batch with a failed write ends the Sync.
\* failed is the set of replicas whose write the server does not take; it takes
\* those that rest on an up-to-date copy.  refused are those whose call the
\* pool refuses or does not start in time: batchReplicaOperate does not see
\* that, the batch counts as done, and a creation is expected for ever.
batches(decision, new, failed, refused) ==
  LET taken == DOMAIN cache \ (failed \cup refused \cup Stale)
      releasesDone == decision.delete \subseteq taken \cup refused
      createsDone == releasesDone /\ DOMAIN new \cap failed = {}
  IN  [release |-> decision.delete \cap taken,
       expected |-> IF releasesDone THEN DOMAIN new ELSE {},
       create |-> IF releasesDone THEN DOMAIN new \ (failed \cup refused) ELSE {},
       owed |-> IF releasesDone THEN DOMAIN new \cap refused ELSE {},
       update |-> IF createsDone THEN DOMAIN decision.update \cap taken ELSE {}]

written(decision, new, done, i) ==
  IF i \in done.release THEN Gone
  ELSE IF i \in done.create THEN [version |-> new[i], phase |-> "empty"]
  ELSE IF i \in done.update THEN updated(i, decision.update[i])
  ELSE api[i]

left(decision, new, done) ==
  [i \in (DOMAIN api \ done.release) \cup done.create |-> written(decision, new, done, i)]

events(decision, new, done, order) ==
  [k \in 1 .. Len(order) |-> Event(order[k], written(decision, new, done, order[k]))]

sync(decision, new, done) ==
  /\ \E r \in SetToSeqs(done.release), c \in SetToSeqs(done.create),
        m \in SetToSeqs(done.update) :
       Write(left(decision, new, done), events(decision, new, done, r \o c \o m))
  /\ IF done.expected = {}
       THEN UNCHANGED <<expect, expired>>
       ELSE /\ expect' = Cardinality(IF budget.lag = 0 THEN done.owed
                                     ELSE done.create \cup done.owed)
            /\ expired' = FALSE

Sync ==
  /\ rsNeedsSync
  /\ CanWrite
  /\ \E decision \in decisions :
       \E new \in NewReplicas(decision.create) :
         \E faulty \in SUBSET (decision.delete \cup DOMAIN decision.update \cup DOMAIN new) :
           \E refused \in IF budget.refusing THEN SUBSET faulty ELSE {{}} :
             /\ Cardinality(faulty) <= budget.faults
             /\ \E done \in {batches(decision, new, faulty \ refused, refused)} :
                  sync(decision, new, done)
             /\ budget' = [budget EXCEPT !.faults = @ - Cardinality(faulty)]
  /\ UNCHANGED <<version, plan>>

---------------------------------------------------------------------------
(* The workers and the owner *)

\* The worker controller assigns a pod and brings its version into service.
Progress(i) ==
  /\ CanWrite
  /\ i \in DOMAIN api /\ api[i].phase # "ready"
  /\ Replace(i, [api[i] EXCEPT !.phase = IF @ = "empty" THEN "starting" ELSE "ready"])
  /\ UNCHANGED <<expect, expired, version, plan, budget>>

\* A replica stops serving, or loses its pod.
Fail(i) ==
  /\ CanWrite
  /\ budget.failures > 0
  /\ i \in DOMAIN api
  /\ \E p \in {"starting", "empty"} :
       /\ GetScore([api[i] EXCEPT !.phase = p]) < GetScore(api[i])
       /\ Replace(i, [api[i] EXCEPT !.phase = p])
  /\ budget' = [budget EXCEPT !.failures = @ - 1]
  /\ UNCHANGED <<expect, expired, version, plan>>

\* The worker controller creates a backup worker to recover a replica.
CreateBackup ==
  /\ budget.lag > 0 /\ CanWrite
  /\ budget.backups > 0
  /\ Write(api, <<Event(Backup, Gone)>>)
  /\ budget' = [budget EXCEPT !.backups = @ - 1]
  /\ UNCHANGED <<expect, expired, version, plan>>

\* updateVersion: a new version plan is a new generation.
Rollout ==
  /\ budget.changes > 0
  /\ version < MaxVersion
  /\ version' = version + 1
  /\ budget' = [budget EXCEPT !.changes = @ - 1]
  /\ UNCHANGED <<api, cache, pending, expect, expired, plan>>

\* The owner writes another plan: replicas, gray ratio, strategy.
ChangePlan ==
  /\ budget.changes > 0
  /\ \E p \in Plans \ {plan} : plan' = p
  /\ budget' = [budget EXCEPT !.changes = @ - 1]
  /\ UNCHANGED <<api, cache, pending, expect, expired, version>>

Next ==
  \/ Sync
  \/ Deliver
  \/ Expire
  \/ Stall
  \/ \E i \in Ids : Progress(i)
  \/ \E i \in Ids : Fail(i)
  \/ CreateBackup
  \/ Rollout
  \/ ChangePlan

\* A changed object requeues its rolling set, a failed Sync is retried, one
\* that waits for its expectations is queued again, and the worker informer
\* resyncs; a replica that is left alone starts; the informer catches up.
Fairness ==
  /\ WF_vars(Sync)
  /\ WF_vars(Deliver)
  /\ WF_vars(Expire)
  /\ \A i \in Ids : WF_vars(Progress(i))

SafetySpec == Init /\ [][Next]_vars

Spec == SafetySpec /\ Fairness

---------------------------------------------------------------------------
(* Properties *)

ReadyIn(nodes) == Cardinality({i \in DOMAIN nodes : nodes[i].phase = "ready"})
OfVersion(nodes, v) == Cardinality({i \in DOMAIN nodes : nodes[i].version = v})

Strategy == ParseScheduleStrategy(plan)
maxReplicas == initScheduleArgs(GetVersionStatus(cache), plan, version).maxReplicas

\* overview.md promises that a rollout stays within maxUnavailable: apart
\* from a replica's own failure, no step takes the number of serving replicas
\* below replicas - maxUnavailable, or lower than it already is.  (For one
\* change while the cache lags or calls are refused, or several otherwise: a
\* second change can meet a cache in which replicas given up for the first
\* still serve, and a replica whose refused release nobody noticed.)
MinAvailable ==
  [][budget'.failures = budget.failures /\ plan' = plan
       => ReadyIn(api') >= Int32Min(ReadyIn(api), Strategy.minAvailable)]_vars

\* maxReplicas ("the maximum number of replicas"): no step adds replicas
\* beyond it, however many events the cache is behind and whichever writes
\* failed or never ran.  (Without miscounts, see NoMiscount: with one, a Sync
\* runs too early and creates the missing replicas again.)
SurgeBound ==
  [][Cardinality(DOMAIN api') > Cardinality(DOMAIN api)
       => Cardinality(DOMAIN api') <= maxReplicas]_vars

\* The expectations count what they should: addReplica takes no backup worker
\* for a creation, and the informer shows every creation before the expectation
\* of it expires (after ExpectationsTimeout, five minutes).
NoMiscount == \A b \in Budgets : b.backups = 0 /\ b.stalls = 0

\* Then the expectations do their work: whenever SatisfiedExpectations lets a
\* Sync run, fulfilled or expired, the cache has every replica that is at the
\* server.
SyncSeesCreated == NoMiscount /\ rsNeedsSync => DOMAIN api \subseteq DOMAIN cache

\* collectRedundantNode before supplyNode: new nodes are asked for only within
\* maxReplicas, as far as the cache tells.
CreatesWithin ==
  \A decision \in decisions :
    Total(decision.create) > 0 =>
      Cardinality(DOMAIN cache) + Total(decision.create) <= maxReplicas

\* A gray release: unless the latest version is all there is, a Sync raises
\* the number of its replicas to no more than the ratio's share of maxReplicas,
\* rounded up, or down but not to none, as the plan has it.  (For as many
\* changes as MinAvailable.)
WithinShare(n, share, carry) ==
  IF carry = "Floor" THEN 100 * n <= share \/ (n = 1 /\ share > 0)
                     ELSE 100 * (n - 1) < share
Raises(v) == version' = version /\ plan' = plan /\ OfVersion(api', v) > OfVersion(api, v)
Mixed == \E i \in DOMAIN cache : cache[i].version # version
GrayBound ==
  [][Raises(version) /\ Mixed
       => WithinShare(OfVersion(api', version), plan.ratio * maxReplicas, plan.carry)]_vars

\* collectRedundantNode slices with the target count: a negative one panics.
\* The targets also never ask for more nodes than exist or are allowed, nor
\* the decision that follows from them for new nodes beyond what is allowed.
TargetsSane ==
  /\ \A target \in {targetMatrix} :
       /\ \A v \in DOMAIN target : target[v] >= 0
       /\ Total(target) <= Int32Max(Cardinality(DOMAIN cache), maxReplicas)
  /\ CreatesWithin

\* What the plan asks for: the right number of replicas, all serving, and of
\* the latest version as many as the ratio says (all, without another version).
LatestWanted ==
  IF \A i \in DOMAIN api : api[i].version = version
    THEN plan.replicas
    ELSE ComputeLatestReplicas(plan.ratio, plan.replicas, plan.carry)
Settled ==
  /\ Cardinality(DOMAIN api) = plan.replicas
  /\ ReadyIn(api) = plan.replicas
  /\ OfVersion(api, version) = LatestWanted

\* A settled rolling set is left alone: while the cache is up to date, no
\* step but a failure or a new plan changes any replica.
LeftAlone ==
  [][Settled /\ cache = api /\ budget'.failures = budget.failures
       => api' = api]_vars

\* Once the owner and the replicas stop interfering, the rollout completes.
Converges == <>[]Settled
=============================================================================
