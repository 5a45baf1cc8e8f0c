----------------------------- MODULE ShardGroup -----------------------------
(***************************************************************************)
(* The shard group controller (controller/shardgroup) over its rolling     *)
(* sets: one Sync of the group reads the nodes of all shards, lets         *)
(* GroupSyncSlidingScheduler compute one plan per shard, and writes the    *)
(* plans one after the other, while every shard goes on rolling by the     *)
(* plan it has.  A row is one serving node of the same version in every    *)
(* shard; the promise of the group is about rows, and no single step of    *)
(* the code looks at all shards and acts on all of them.                   *)
(*                                                                         *)
(* A version is the generation that prefixes ShardGroupVersion, and        *)
(* signs[g] stands for the signed part of the spec of generation g.  The   *)
(* nodes of a shard are kept in a canonical order, because the schedulers  *)
(* tell nodes of equal version and phase apart only by their names.        *)
(*                                                                         *)
(* The group reads a shard's spec and status as the shard left them, and   *)
(* counts the nodes of every shard itself, in its own cache of nodes,      *)
(* which may be behind.  How a shard copes with a lagging informer is the  *)
(* subject of RollingSet; here a shard sees its own nodes.                 *)
(***************************************************************************)
EXTENDS NodeSetScheduler

CONSTANTS
  Shards,          \* names of shards
  Settings,        \* [strategy, budget, start, templates]: the strategy is
                   \* [replicas, maxUnavailable, maxSurge], the nodes of each
                   \* shard and the limits of a rollout in percent; the budget
                   \* bounds rollouts (changes of the signed spec that keep the
                   \* shards), regrays (changes of LatestPercent), reshards
                   \* (changes of the set of shards), failures (nodes that lose
                   \* readiness or their pod) and faults (failed writes and
                   \* crashes of the controller), and says whether the group's
                   \* cache is lagging; a group starts "new", or "settled" on a
                   \* first spec, and that spec names the templates
  Signs,           \* signed specs
  Percents,        \* values the owner gives to LatestPercent
  MaxGeneration    \* bound: generations of the group's spec

ASSUME SettingsAssumption ==
  \A x \in Settings :
    /\ x.strategy \in [replicas : Nat \ {0}, maxUnavailable : 0 .. 100, maxSurge : 0 .. 100]
    /\ x.budget \in [rollouts : Nat, regrays : Nat, reshards : Nat, failures : Nat,
                     faults : Nat, lagging : BOOLEAN]
    /\ x.start \in {"new", "settled"}
    /\ x.templates \in (SUBSET Shards) \ {{}}
ASSUME NamesAssumption == IsFiniteSet(Shards) /\ Signs # {}

Generations == 1 .. MaxGeneration

VARIABLES
  strategy,   \* replicas and limits of the spec; the owner never changes them
  signs,      \* the signed spec of every generation so far
  templates,  \* the shards the spec names
  percent,    \* LatestPercent
  shards,     \* the rolling sets: nodes; plan and version, the spec that the
              \* group writes; own and seen, the version a shard's last Sync
              \* worked for and the counts it left in the status; cached, the
              \* counts of its nodes in the group's cache, where that lags
  status,     \* the group's status: [version, phase, names, complete,
              \* once, observed]
  job,        \* the Sync under way, if any
  budget,     \* what the bounds still allow
  healthy     \* history: no node has failed

vars == <<strategy, signs, templates, percent, shards, status, job, budget, healthy>>

Replicas == strategy.replicas
MaxUnavailable == strategy.maxUnavailable
MaxSurge == strategy.maxSurge

generation == Len(signs)

\* Mutant: the version of the spec to come.
NextVersion == generation + 1

\* calculateShardGroupSign: a spec with the sign of the recorded version
\* keeps that version.
ShardGroupVersion ==
  IF status.version # 0 /\ signs[status.version] = signs[generation]
    THEN status.version ELSE generation

Strategy(replicas, latest, padded, hold, carry) ==
  [replicas |-> replicas, maxUnavailable |-> [pct |-> TRUE, val |-> MaxUnavailable],
   maxSurge |-> [pct |-> TRUE, val |-> MaxSurge], ratio |-> latest, padded |-> padded,
   hold |-> hold, carry |-> carry, strategy |-> ""]

---------------------------------------------------------------------------
(* GroupSyncSlidingScheduler *)

\* The GroupVersionStatusMap of a shard as the Sync computes it, from the nodes
\* that are in the cache.
ShardStatus(s) ==
  IF budget.lagging THEN shards[s].cached ELSE GetVersionStatus(shards[s].nodes)

\* A shard's ratio never goes back while the group's target is above it.
fixLatestVersionRatio(s, target) ==
  LET spec == IF shards[s].version = ShardGroupVersion THEN shards[s].plan.ratio ELSE 0
  IN  IF target < spec /\ percent >= spec THEN spec ELSE target

\* Mutant: every shard gets the whole ratio at once.
ScheduleWithoutWindow ==
  [s \in templates |-> Strategy(Replicas, percent, 100, (ShardGroupVersion :> Hundred), "")]

\* A shard is new until the group has been complete with it.
initGroupScheduleParams ==
  [fence |-> ResolveFenceposts([pct |-> TRUE, val |-> MaxSurge],
                               [pct |-> TRUE, val |-> MaxUnavailable], 100),
   shards |-> [s \in templates |-> [replicas |-> Replicas, status |-> ShardStatus(s)]],
   newShards |-> templates \ status.once]

GroupSchedule ==
  LET params == initGroupScheduleParams
      matrix == calculateHoldMatrix(params.shards, percent, "", ShardGroupVersion,
                                    params.fence.unavailable, params.fence.surge, params.newShards)
      plan(m, s) == Strategy(Replicas, fixLatestVersionRatio(s, Int32Min(m.target, 100)),
                             m.padded, m.hold, "")
      carry(p) == IF ParseScheduleStrategy(p).maxUnavailable = 0 THEN "Ceil" ELSE ""
  IN  With(matrix, LAMBDA m :
        [s \in templates |-> [plan(m, s) EXCEPT !.carry = carry(plan(m, s))]])

---------------------------------------------------------------------------
(* The group's Sync.  It works on the copy of the group and of the rolling  *)
(* sets it read at the start: job holds what it will still use of them.     *)

NoJob == [running |-> FALSE]

AllReady(v) == [u \in {v} |-> [replicas |-> Replicas, ready |-> Replicas]]

AllOf(v, counts) ==
  v \in DOMAIN counts /\ counts[v] = [replicas |-> Replicas, ready |-> Replicas]

\* Mutant: a shard counts its surge node.
FullWithSurge ==
  {s \in DOMAIN shards : \E v \in DOMAIN ShardStatus(s) :
                           v = ShardGroupVersion /\ ShardStatus(s)[v].ready > Replicas}

\* The shards that are complete at the group's version, by the status they wrote
\* and by the nodes in the cache.  (The code compares Status.Version with
\* Spec.Version, which the shard derives from the version in its plan.)
Full ==
  {s \in DOMAIN shards : /\ shards[s].own = ShardGroupVersion
                         /\ shards[s].seen = AllReady(ShardGroupVersion)
                         /\ AllOf(ShardGroupVersion, ShardStatus(s))}

\* plans are the plans the loop has reached, todo the writes it has left, and
\* stale the shards whose own controller has written them since.
Job(plans, todo) ==
  [running |-> TRUE, generation |-> generation, version |-> ShardGroupVersion,
   templates |-> templates, percent |-> percent, existing |-> DOMAIN shards,
   full |-> Full, plans |-> plans, todo |-> todo, stale |-> {}]

\* createRollingsets: where shards are missing they are created, in some order,
\* and nothing is scheduled.
CreateShards ==
  LET missing == templates \ DOMAIN shards
  IN  /\ missing # {}
      /\ \E order \in SetToSeqs(missing) :
           job' = Job([s \in missing |-> Strategy(Replicas, percent, 0, EmptyMap, "")], order)

needUpdate(s, plans) ==
  plans[s] # shards[s].plan \/ ShardGroupVersion # shards[s].version

\* syncRollingSetSpec: the plans of all shards, from one look at their status;
\* a write that would change nothing is left out.
ScheduleShards ==
  /\ templates \subseteq DOMAIN shards
  /\ \E plans \in {GroupSchedule} :
       \E order \in SetToSeqs({s \in templates : needUpdate(s, plans)}) : job' = Job(plans, order)

StartSync ==
  /\ ~ job.running
  /\ CreateShards \/ ScheduleShards
  /\ UNCHANGED <<strategy, healthy, signs, templates, percent, shards, status, budget>>

CreateShard ==
  /\ job.running /\ job.todo # <<>>
  /\ Head(job.todo) \notin job.existing
  /\ LET s == Head(job.todo)
         new == [nodes |-> <<>>, version |-> job.version, own |-> 0, seen |-> EmptyMap,
                 cached |-> EmptyMap, plan |-> job.plans[s]]
     IN  shards' = [t \in {s} \cup DOMAIN shards |-> IF t = s THEN new ELSE shards[t]]
  /\ job' = [job EXCEPT !.todo = Tail(@)]
  /\ UNCHANGED <<strategy, healthy, signs, templates, percent, status, budget>>

WritePlan ==
  /\ job.running /\ job.todo # <<>>
  /\ Head(job.todo) \in job.existing \ job.stale
  /\ LET s == Head(job.todo)
     IN  shards' = [shards EXCEPT ![s].plan = job.plans[s], ![s].version = job.version]
  /\ job' = [job EXCEPT !.todo = Tail(@)]
  /\ UNCHANGED <<strategy, healthy, signs, templates, percent, status, budget>>

\* A write or a creation that does not go through ends the loop over the shards,
\* not the Sync; the shard it was for keeps the new plan in the Sync's own copy.
Abort == job' = [job EXCEPT !.todo = <<>>,
                            !.plans = [s \in DOMAIN @ \ Range(Tail(job.todo)) |-> @[s]]]

\* The server refuses a plan for a shard that was written since it was read.
WriteConflict ==
  /\ job.running /\ job.todo # <<>>
  /\ Head(job.todo) \in job.stale
  /\ Abort
  /\ UNCHANGED <<strategy, healthy, signs, templates, percent, shards, status, budget>>

WriteFails ==
  /\ job.running /\ job.todo # <<>>
  /\ budget.faults > 0
  /\ Abort
  /\ budget' = [budget EXCEPT !.faults = @ - 1]
  /\ UNCHANGED <<strategy, healthy, signs, templates, percent, shards, status>>

\* Mutant: a shard is complete when its plan is.
PlanComplete(s) == s \in DOMAIN job.plans => job.plans[s].ratio = job.percent

\* isRollingsetNotComplete, negated, on the Sync's own copy of the shard.
IsComplete(s) ==
  LET ratio == IF s \in DOMAIN job.plans THEN job.plans[s].ratio ELSE shards[s].plan.ratio
      version == IF s \in DOMAIN job.plans THEN job.version ELSE shards[s].version
  IN  /\ version = job.version
      /\ ratio = job.percent /\ ratio \in {0, 100}
      /\ s \in job.full

\* Mutant: they go at once.
DeleteAtOnce(unused, ready) == unused

\* Shards the spec no longer names go when all the others are complete.
Deletable(unused, ready) == IF ready = job.existing \ unused THEN unused ELSE {}

\* syncRollingSetGroupStatus: the status says what the Sync saw, unless the
\* group was written in the meantime and the server refuses it.
UpdateStatus ==
  /\ job.running /\ job.todo = <<>>
  /\ LET unused == job.existing \ job.templates
         ready == {s \in job.existing \cap job.templates : IsComplete(s)}
         complete == ready = job.templates
         rolling == \E s \in job.existing : ~ IsComplete(s)
         new == [version |-> job.version, complete |-> complete,
                 phase |-> IF rolling THEN "Rolling" ELSE "Running",
                 names |-> job.existing \ unused, observed |-> job.generation,
                 once |-> IF complete THEN ready ELSE status.once]
         same == [new EXCEPT !.once = status.once, !.observed = status.observed] = status
     IN  /\ shards' = [s \in DOMAIN shards \ Deletable(unused, ready) |-> shards[s]]
         /\ status' = IF same \/ job.generation # generation THEN status ELSE new
  /\ job' = NoJob
  /\ UNCHANGED <<strategy, healthy, signs, templates, percent, budget>>

\* The controller dies, or the status write is refused.
Crash ==
  /\ job.running
  /\ budget.faults > 0
  /\ job' = NoJob
  /\ budget' = [budget EXCEPT !.faults = @ - 1]
  /\ UNCHANGED <<strategy, healthy, signs, templates, percent, shards, status>>

---------------------------------------------------------------------------
(* The shards *)

Canonical(nodes) ==
  LET s == SortBy(DOMAIN nodes, LAMBDA a, b :
             \/ nodes[a].version < nodes[b].version
             \/ /\ nodes[a].version = nodes[b].version
                /\ \/ GetScore(nodes[a]) > GetScore(nodes[b])
                   \/ GetScore(nodes[a]) = GetScore(nodes[b]) /\ a < b)
  IN  [k \in 1 .. Len(s) |-> nodes[s[k]]]

\* An update in place takes a node out of service.
Updated(nodes, decision) ==
  [i \in DOMAIN nodes |->
     IF i \in DOMAIN decision.update
       THEN [version |-> decision.update[i],
             phase |-> IF IsEmpty(nodes[i]) THEN "empty" ELSE "starting"]
       ELSE nodes[i]]

\* What a decision of the scheduler makes of the updated nodes: a new node
\* starts without a pod.
Act(nodes, decision) ==
  LET created(v) == [k \in 1 .. decision.create[v] |-> [version |-> v, phase |-> "empty"]]
      new == FoldLeft(LAMBDA acc, v : acc \o created(v), <<>>, SetToSeq(DOMAIN decision.create))
  IN  Canonical([k \in {Len(nodes) + j : j \in DOMAIN new} \cup (DOMAIN nodes \ decision.delete) |->
                   IF k > Len(nodes) THEN new[k - Len(nodes)] ELSE nodes[k]])

\* One Sync of the shard's rolling set, by the plan it has.  Its status counts
\* the nodes it read, as updated, and is complete if they all serve.
SyncShard(s) ==
  /\ s \in DOMAIN shards
  /\ \E target \in {Schedule(GetVersionStatus(shards[s].nodes), shards[s].plan,
                             shards[s].version, FALSE)} :
       \E order \in Orders(shards[s].nodes, target) :
         \E decision \in {rollingUpdateNodeSet(shards[s].nodes, target, order)} :
           \E nodes \in {Updated(shards[s].nodes, decision)} :
             shards' = [shards EXCEPT ![s].nodes = Act(nodes, decision),
                                      ![s].own = shards[s].version,
                                      ![s].seen = GetVersionStatus(nodes)]
  /\ job' = IF /\ job.running
               /\ shards'[s].own # shards[s].own \/ shards'[s].seen # shards[s].seen
              THEN [job EXCEPT !.stale = @ \cup {s}] ELSE job
  /\ UNCHANGED <<strategy, healthy, signs, templates, percent, status, budget>>

\* A node of the shard gets its pod, and then serves.
Progress(s) ==
  /\ s \in DOMAIN shards
  /\ \E i \in DOMAIN shards[s].nodes :
       /\ shards[s].nodes[i].phase # "ready"
       /\ shards' = [shards EXCEPT ![s].nodes = Canonical([@ EXCEPT ![i].phase =
                       IF @ = "empty" THEN "starting" ELSE "ready"])]
  /\ UNCHANGED <<strategy, healthy, signs, templates, percent, status, job, budget>>

\* A node stops serving, or loses its pod.
Fail(s) ==
  /\ s \in DOMAIN shards
  /\ budget.failures > 0
  /\ \E i \in DOMAIN shards[s].nodes, p \in {"starting", "empty"} :
       /\ GetScore([shards[s].nodes[i] EXCEPT !.phase = p]) < GetScore(shards[s].nodes[i])
       /\ shards' = [shards EXCEPT ![s].nodes = Canonical([@ EXCEPT ![i].phase = p])]
  /\ healthy' = FALSE
  /\ budget' = [budget EXCEPT !.failures = @ - 1]
  /\ UNCHANGED <<strategy, signs, templates, percent, status, job>>

\* The group's cache catches up with the nodes of a shard.
Observe(s) ==
  /\ budget.lagging /\ s \in DOMAIN shards
  /\ shards[s].cached # GetVersionStatus(shards[s].nodes)
  /\ shards' = [shards EXCEPT ![s].cached = GetVersionStatus(shards[s].nodes)]
  /\ UNCHANGED <<strategy, healthy, signs, templates, percent, status, job, budget>>

---------------------------------------------------------------------------
(* The owner of the group writes a new generation of its spec. *)

NewSpec ==
  /\ generation < MaxGeneration
  /\ \/ /\ budget.rollouts > 0
        /\ \E x \in Signs \ {signs[generation]} : signs' = Append(signs, x)
        /\ budget' = [budget EXCEPT !.rollouts = @ - 1]
        /\ percent' = percent
     \/ /\ percent' \in Percents \ {percent}
        /\ budget.regrays > 0
        /\ signs' = Append(signs, signs[generation])
        /\ budget' = [budget EXCEPT !.regrays = @ - 1]
  /\ UNCHANGED <<strategy, healthy, templates, shards, status, job>>

\* The shard templates are part of the signed spec.
Reshard ==
  /\ generation < MaxGeneration
  /\ budget.reshards > 0
  /\ \E T \in (SUBSET Shards) \ {{}, templates}, x \in Signs \ {signs[generation]} :
       templates' = T /\ signs' = Append(signs, x)
  /\ budget' = [budget EXCEPT !.reshards = @ - 1]
  /\ UNCHANGED <<strategy, healthy, percent, shards, status, job>>

---------------------------------------------------------------------------
\* A group that has settled on its first generation, and a new one.
Settled(T) ==
  /\ shards = [s \in T |->
                 [nodes |-> [k \in 1 .. Replicas |-> [version |-> 1, phase |-> "ready"]],
                  version |-> 1, own |-> 1, seen |-> AllReady(1), cached |-> AllReady(1),
                  plan |-> Strategy(Replicas, 100, 100, (1 :> Hundred), "")]]
  /\ status = [version |-> 1, phase |-> "Running", names |-> T,
               complete |-> TRUE, once |-> T, observed |-> 1]

Fresh ==
  /\ shards = EmptyMap
  /\ status = [version |-> 0, phase |-> "", names |-> {},
               complete |-> FALSE, once |-> {}, observed |-> 0]

Init ==
  /\ \E x \in Settings :
       /\ strategy = x.strategy /\ budget = x.budget /\ templates = x.templates
       /\ IF x.start = "new" THEN Fresh ELSE Settled(templates)
  /\ healthy = TRUE
  /\ signs = <<CHOOSE x \in Signs : TRUE>>
  /\ percent = 100
  /\ job = NoJob

Next ==
  \/ StartSync \/ CreateShard \/ WritePlan \/ WriteConflict \/ WriteFails \/ UpdateStatus \/ Crash
  \/ \E s \in Shards : SyncShard(s) \/ Progress(s) \/ Fail(s) \/ Observe(s)
  \/ NewSpec \/ Reshard

SafetySpec == Init /\ [][Next]_vars

\* The work queues call Sync again and again; a started pod comes up; the cache
\* gets every event.
Fairness ==
  /\ WF_vars(StartSync) /\ WF_vars(CreateShard \/ WritePlan \/ WriteConflict)
  /\ WF_vars(UpdateStatus)
  /\ \A s \in Shards : WF_vars(SyncShard(s)) /\ WF_vars(Progress(s)) /\ WF_vars(Observe(s))

Spec == SafetySpec /\ Fairness

---------------------------------------------------------------------------
(* Properties *)

Nodes == [version : Generations, phase : Phases]

NodesTyped == \A s \in DOMAIN shards : shards[s].nodes \in Seq(Nodes)

\* Every variable has its type; a version is a generation that was written.
TypeOK ==
  /\ \E x \in Settings : strategy = x.strategy
  /\ budget \in [rollouts : Nat, regrays : Nat, reshards : Nat, failures : Nat, faults : Nat,
                 lagging : BOOLEAN]
  /\ healthy \in BOOLEAN
  /\ generation \in Generations /\ Range(signs) \subseteq Signs
  /\ templates \in (SUBSET Shards) \ {{}} /\ percent \in Percents \cup {100}
  /\ DOMAIN shards \subseteq Shards /\ NodesTyped
  /\ \A s \in DOMAIN shards :
       shards[s].version \in 1 .. generation /\ shards[s].own \in 0 .. generation
  /\ status.version \in 0 .. generation /\ status.observed \in 0 .. generation
  /\ status.complete \in BOOLEAN
  /\ status.phase \in {"", "Rolling", "Running"}
  /\ status.names \cup status.once \subseteq Shards
  /\ job.running => Range(job.todo) \subseteq DOMAIN job.plans /\ job.version <= generation

Ready(ss, s, v) ==
  Cardinality({i \in DOMAIN ss[s].nodes : ss[s].nodes[i] = [version |-> v, phase |-> "ready"]})

\* Serving rows: of each version, as many as the poorest shard can complete.
Rows(ss, T) ==
  MapThenSumSet(LAMBDA v : Min({Ready(ss, s, v) : s \in T}), Generations)

minRows == Replicas - (Replicas * MaxUnavailable) \div 100

\* overview.md: the shards need not be aligned row by row, "the overall
\* availability only has to respect maxUnavailable".  As long as no node has
\* failed and no shard is new, no step takes the number of serving rows below
\* what maxUnavailable leaves, or lower than it already is.  (A group that may
\* only surge, maxUnavailable 0, is out: its shards finish one by one, and a
\* shard that is done has no node of the old version for the others' rows.)
SchedulerStep ==
  /\ MaxUnavailable > 0
  /\ healthy'
  /\ templates' = templates
  /\ templates \subseteq DOMAIN shards \cap status.once
RowsAvailable ==
  [][SchedulerStep =>
       Rows(shards', templates) >= Int32Min(Rows(shards, templates), minRows)]_vars

\* A shard that the group's current spec names serves all its nodes at v.
Serves(s, v) == s \in DOMAIN shards /\ Ready(shards, s, v) = Replicas

\* The owner has never gone back to a spec it had left.
NoReturn ==
  \A h \in 1 .. generation : \A g \in 1 .. h : signs[g] = signs[h] =>
    \A k \in g .. h : signs[k] = signs[h]

\* Status.Complete ("all columns are complete"): as long as no node fails, a
\* group that reports its current spec as complete serves nothing else.  (An
\* owner that goes back is out: the version of the old spec counts again, and
\* a Sync may take a shard that just left it for one that is complete.)
ReportsComplete ==
  /\ status.complete /\ status.observed = generation
  /\ healthy /\ NoReturn
CompleteIsTrue == ReportsComplete => \A s \in templates : Serves(s, status.version)

\* deleteUnusedRollingSet: a Sync that has found all the shards of the spec there
\* removes a shard that the spec drops only once they all serve all their nodes.
\* (A Sync that finds some of them missing does not count these: it removes the
\* dropped shards as soon as the others, or none at all, are complete.)
Drops == job.running /\ job.templates \subseteq job.existing /\ healthy /\ NoReturn
DropAfterComplete ==
  [][Drops => \A s \in DOMAIN shards \ DOMAIN shards' :
                \A t \in job.templates : Serves(t, job.version)]_vars

\* Whatever the specs, the failures and the refused writes, a group whose
\* owner wants all of the last spec ends up complete, with no other shard.
Converges ==
  <>[](percent = 100 => /\ status.complete /\ DOMAIN shards = templates
                        /\ \A s \in templates : Serves(s, ShardGroupVersion))
=============================================================================
