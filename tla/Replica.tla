------------------------------ MODULE Replica ------------------------------
(***************************************************************************)
(* One replica of a rolling set: a pair of worker nodes and their pods,    *)
(* with the actors that write them.                                        *)
(*   - the worker controller (controller/worker), driven by its work       *)
(*     queue, which runs the operators of module WorkerNode;               *)
(*   - the service publisher (controller/service-publisher), one loop that *)
(*     reads, changes the registry, and reports back;                      *)
(*   - the default health checker (controller/healthcheck);                *)
(*   - the owner: the rolling set that updates, releases and recreates the *)
(*     replica, and the eviction controller;                               *)
(*   - the scheduler and the kubelet, which move pods.                     *)
(* A controller may also work on an old view: the informer lags, or the    *)
(* Sync is slow (held).  Writes of a worker fail on a conflict, as the API *)
(* server makes them; deletes of a worker have no precondition.            *)
(***************************************************************************)
EXTENDS WorkerNode, FiniteSets, FiniteSetsExt

CONSTANTS
  W,            \* the two names of the pair
  Signs,        \* the templates the owner may ask for, by their signatures
  Subresource,  \* the API server keeps spec and status writes apart
  Scenarios     \* the plan, the first state, and how often the environment
                \* may do what it need not do

ASSUME ReplicaAssumption ==
  /\ Cardinality(W) = 2
  /\ {"publisher", "nobody"} \cap W = {}
  /\ Signs \subseteq Nat \ {NoVersion.sign}
  /\ 1 \in Signs
  /\ Subresource \in BOOLEAN

VARIABLES
  worker,    \* the worker nodes at the API server, Nil where there is none
  pod,       \* the pods at the API server
  queue,     \* the keys in the work queue of the worker controller
  gone,      \* the role of a deleted worker, the event not yet handled
  held,      \* what is slow, with what it has read: a Sync, a publisher, or nobody
  registry,  \* the IPs in the service registry
  ips,       \* ServicePublisher.Status.IPs: what was published, as recorded
  owner,     \* what the rolling set wants of the replica
  left       \* what is left of the scenario's limits

vars == <<worker, pod, queue, gone, held, registry, ips, owner, left>>

getPairWorkerName(w) == CHOOSE p \in W : p # w

NoRole == "none"

(* The value of held while no Sync and no round is slow.                   *)
Nobody == [key |-> "nobody"]

-----------------------------------------------------------------------------
(* Pods.                                                                   *)

Ids == 1..12

NewPod(id, sign) ==
  [id |-> id, state |-> "pending", sign |-> sign, run |-> sign,
   deleting |-> FALSE, reclaim |-> FALSE]

IdsOf(x) == IF x = Nil THEN {} ELSE {x.id}

HeldIds ==
  CASE held = Nobody -> {}
    [] held.key = "publisher" ->
         {held.workers[w].status.ip : w \in {x \in W : held.workers[x] # Nil}}
    [] held.key \in W ->
         IdsOf(held.view.pod) \cup
           {x.status.ip : x \in {held.view.worker, held.view.pair} \ {Nil}}

(* An IP is given to another pod once nobody has it in any record.         *)
UsedIds ==
  UNION {IdsOf(pod[w]) : w \in W} \cup registry \cup ips \cup HeldIds
    \cup {worker[w].status.ip : w \in {x \in W : worker[x] # Nil}}

FreshId == Min(Ids \ UsedIds)

-----------------------------------------------------------------------------
(* One Sync of the worker controller.                                      *)

getResources(w) ==
  [worker |-> worker[w], pair |-> worker[getPairWorkerName(w)], pod |-> pod[w]]

(* Does the call about the pod succeed?  A create needs the name free, the *)
(* others carry the resource version or the UID that was read.             *)
podCallOk(w, call, seen) ==
  CASE call = "create" -> pod[w] = Nil
    [] call \in {"update", "delete"} -> pod[w] \in {Nil, seen}
    [] call = "none" -> TRUE

podAfter(w, call, ok, sign) ==
  CASE call = "create" /\ ok -> NewPod(FreshId, sign)
    [] call = "update" /\ ok /\ pod[w] # Nil -> [pod[w] EXCEPT !.sign = sign]
    [] call = "delete" /\ ok /\ pod[w] # Nil -> [pod[w] EXCEPT !.deleting = TRUE]
    [] OTHER -> pod[w]

(* worker_scheduler.schedule: the processor runs on the key's own worker,  *)
(* unless the adjuster has only synchronised the plans.                    *)
schedule(v, over, quota, ok) ==
  LET processed(a) == IF a.synced THEN [w |-> a.worker, pod |-> v.pod, call |-> "none"]
                      ELSE process(a.worker, v.pod, ok)
  IN  With(adjust(v.worker, v.pair, over, quota), LAMBDA a :
        With(processed(a), LAMBDA r : [worker |-> r.w, pair |-> a.pair, call |-> r.call]))

\* Mutant: a released worker is written like any other.
keepReleased(now, before, after, ok) == IF ok /\ now = before THEN after ELSE now

(* What one updateWorker leaves of the object now at the API server.       *)
updateWorker(now, before, after, ok) ==
  LET fresh == now = before /\ now # Nil
  IN  CASE ~ok \/ after = Nil -> now
        [] ok /\ after # Nil /\ after.status.alloc = "Released" -> Nil
        [] ok /\ after # Nil /\ after.status.alloc # "Released" /\ before = Nil ->
             IF now = Nil THEN after ELSE now
        [] OTHER ->
             IF ~fresh THEN now
             ELSE IF after.spec = now.spec THEN [now EXCEPT !.status = after.status]
             ELSE IF Subresource THEN [now EXCEPT !.spec = after.spec]
             ELSE after

updateFailed(now, before, after, ok) ==
  /\ after # Nil
  /\ before # after
  /\ \/ ~ok
     \/ before # Nil /\ after.status.alloc # "Released" /\ now \notin {Nil, before}

\* Mutant: a release that was put off is forgotten.
neverDelayed(x) == FALSE

(* The adjuster has put off releasing the backup.                          *)
releaseDelayed(x) ==
  x # Nil /\ x.spec.role = "backup" /\ x.status.lastDelete /\ ~x.status.toRelease

(* The state after a Sync of w on view v in which the calls in fails fail: *)
(* "pod", "current" (the object updateWorkers writes first) or "backup".   *)
(* The queue gets the keys of changed workers, the key itself again after  *)
(* an error, a refused quota or a failed create, and the current worker's  *)
(* when the release of the backup is put off.                              *)
Sync(w, v, over, quota, fails) ==
  LET p == getPairWorkerName(w)
      call == schedule(v, over, quota, TRUE).call
      ok == "pod" \notin fails /\ podCallOk(w, call, v.pod)
      refused(t) == ~quota /\ t # schedule(v, over, TRUE, ok)
      before == [x \in W |-> IF x = w THEN v.worker ELSE v.pair]
      target(t) == [x \in W |-> IF x = w THEN t.worker ELSE t.pair]
      current(t) == IF t.worker.spec.role = "current" THEN w ELSE p
      okOf(t, x) == (IF x = current(t) THEN "current" ELSE "backup") \notin fails
      written(t) == [x \in W |-> updateWorker(worker[x], before[x], target(t)[x], okOf(t, x))]
      failed(t) == \E x \in W : updateFailed(worker[x], before[x], target(t)[x], okOf(t, x))
      result(t, after, pod2) ==
        [worker |-> after,
         pod |-> [pod EXCEPT ![w] = pod2],
         queue |-> {x \in W :
           \/ after[x] \notin {Nil, worker[x]}
           \/ x = w /\ pod2 # pod[w]
           \/ x = w /\ (failed(t) \/ refused(t) \/ (t.call = "create" /\ ~ok))
           \/ x = current(t) /\ \E y \in W : releaseDelayed(target(t)[y])},
         gone |-> [x \in W |-> IF after[x] = Nil /\ worker[x] # Nil
                               THEN worker[x].spec.role ELSE gone[x]]]
  IN  With(schedule(v, over, quota, ok), LAMBDA t :
        With(written(t), LAMBDA after :
          With(podAfter(w, t.call, ok, t.worker.spec.version.sign), LAMBDA pod2 :
            result(t, after, pod2))))

-----------------------------------------------------------------------------
(* Actions of the worker controller.                                       *)

Spend(what) ==
  /\ left[what] > 0
  /\ left' = [left EXCEPT ![what] = @ - 1]

Apply(s, keys) ==
  /\ worker' = s.worker
  /\ pod' = s.pod
  /\ queue' = keys \cup s.queue
  /\ gone' = s.gone

(* The timer of a process runs out only while the process is pending: the  *)
(* last Sync has put the key in the queue for that time.                   *)
TimerOver(w, over) ==
  "process" \in over => worker[w] # Nil /\ IsWorkerProcessPending(worker[w])

(* What one Sync may spend: calls that fail, or a timer that runs out.     *)
Failing(fails, over) ==
  IF "process" \in over THEN fails = {} /\ Spend("timeouts")
  ELSE \/ fails = {} /\ UNCHANGED left
       \/ fails = {"pod"} /\ Spend("drops")
       \/ fails \in {{"current"}, {"backup"}, {"current", "backup"}} /\ Spend("faults")

(* processNextWorkItem: a key of the queue, on what the lister has now.    *)
ProcessNextWorkItem(w, over, quota, fails) ==
  /\ w \in queue \/ "process" \in over
  /\ held.key # w
  /\ TimerOver(w, over)
  /\ Failing(fails, over)
  /\ IF worker[w] = Nil
     THEN queue' = queue \ {w} /\ UNCHANGED <<worker, pod, gone>>
     ELSE \E s \in {Sync(w, getResources(w), over, quota, fails)} :
            Apply(s, queue \ {w})
  /\ UNCHANGED <<held, registry, ips, owner>>

(* A Sync that has read and is slow; the queue holds its key back.         *)
BeginSync(w) ==
  /\ w \in queue
  /\ held = Nobody
  /\ worker[w] # Nil
  /\ held' = [key |-> w, view |-> getResources(w)]
  /\ queue' = queue \ {w}
  /\ Spend("syncs")
  /\ UNCHANGED <<worker, pod, gone, registry, ips, owner>>

FinishSync(over, quota, fails) ==
  /\ held.key \in W
  /\ Failing(fails, over)
  /\ held' = Nobody
  /\ \E s \in {Sync(held.key, held.view, over, quota, fails)} : Apply(s, queue)
  /\ UNCHANGED <<registry, ips, owner>>

DeleteSubObj(p) == IF p = Nil THEN Nil ELSE [p EXCEPT !.deleting = TRUE]

(* The informer tells that a worker is deleted.  For a backup the handler  *)
(* calls Sync on its pair itself, past the queue; then it deletes the pod. *)
OnDeleteWorker(w, over, quota, fails) ==
  LET p == getPairWorkerName(w)
      same == [worker |-> worker, pod |-> pod, queue |-> {}, gone |-> gone]
      syncs == gone[w] = "backup" /\ worker[p] # Nil
  IN  /\ gone[w] # NoRole
      /\ Failing(fails, over)
      /\ fails # {} => syncs
      /\ \E s \in {IF syncs THEN Sync(p, getResources(p), over, quota, fails) ELSE same} :
           Apply([s EXCEPT !.pod[w] = IF s.worker[w] = Nil THEN DeleteSubObj(@) ELSE @,
                           !.gone[w] = NoRole], queue)
      /\ UNCHANGED <<held, registry, ips, owner>>

-----------------------------------------------------------------------------
(* The health checker (defaulthealthchecker.go).                           *)

(* A new version starts from Unknown, whatever the check says.             *)
healthOf(w) ==
  IF w.status.version # w.status.healthVersion THEN "Unknown"
  ELSE CASE w.status.alloc = "Lost" -> w.status.health
         [] w.status.alloc # "Lost" /\ w.status.phase = "Running" ->
              IF w.status.ready THEN "Alive" ELSE "Unknown"
         [] w.status.alloc # "Lost" /\ w.status.phase = "Failed" -> "Dead"
         [] OTHER -> "Unknown"

doCheck(w) ==
  LET new == [worker[w] EXCEPT !.status.health = healthOf(worker[w]),
                               !.status.healthVersion = worker[w].status.version]
  IN  /\ worker[w] # Nil
      /\ new # worker[w]
      /\ worker' = [worker EXCEPT ![w] = new]
      /\ queue' = queue \cup {w}
      /\ UNCHANGED <<pod, gone, held, registry, ips, owner, left>>

-----------------------------------------------------------------------------
(* The publisher: publishTask.sync and abstractPublisher.sync.             *)

local(view) == {view[w] : w \in W} \ {Nil}
localIPs(view) == {x.status.ip : x \in local(view)} \ {NoIP}
toPublish(view) ==
  {x.status.ip : x \in {y \in local(view) : ~y.status.offline}} \ {NoIP}
lostOrFailed(view) == {x.status.ip : x \in {y \in local(view) : IsWorkerIrrecoverable(y)}}

\* Mutant: the result leaves out what was published for workers now gone.
syncHereOnly(view, recorded, reached) ==
  LET here == localIPs(view)
      remotes == registry \cup (IF reached > 0 THEN toPublish(view) \ lostOrFailed(view) ELSE {})
  IN  [registry |-> IF reached > 1 THEN remotes \ (here \ toPublish(view)) ELSE remotes,
       added |-> remotes \ registry, result |-> remotes \cap here]

(* What abstractPublisher.sync does with the registry, on a view of the    *)
(* workers and of the recorded IPs: diff, then addNodes, updateNodes and   *)
(* delNodes.  A failure of one of them ends the round without an error;    *)
(* reached says how many went through.                                     *)
publisherSync(view, recorded, reached) ==
  LET here == localIPs(view)
      want == toPublish(view)
      known == registry \cap here
      adds == want \ known
      dels == (((known \ want) \cap recorded) \cup (recorded \ here)) \cap registry
      added == IF reached > 0 THEN adds \ lostOrFailed(view) ELSE {}
      remotes == registry \cup added
      quiet == adds = {} /\ dels = {} /\ want \cap known = {}
  IN  [registry |-> IF reached > 1 THEN remotes \ dels ELSE remotes,
       added |-> added,
       result |-> (remotes \cap here) \cup (IF quiet THEN {} ELSE remotes \cap recorded)]

(* A registered IP is healthy when its pod is; a node just added has not   *)
(* been checked.                                                           *)
remoteHealth(ip, added) ==
  ip \notin added /\ \E w \in W : pod[w] # Nil /\ pod[w].id = ip /\ pod[w].state = "ready"

(* ok: getNodes has answered.                                              *)
syncWorkerServiceStatus(x, result, added, ok) ==
  LET found == ok /\ x.status.ip \in result
      health == found /\ remoteHealth(x.status.ip, added)
      reason == IF ~ok THEN "QueryError" ELSE IF ~found THEN "NotExist"
                ELSE IF ~health THEN "CheckFalse" ELSE ""
  IN  IF IsWorkerToRelease(x) /\ ~found THEN DeleteWorkerServiceHealthCondition(x, ~ok)
      ELSE SetWorkerServiceHealthCondition(x, health, reason, IF ok THEN "" ELSE "error")

(* saveRemoteNodes, and the condition of every worker of the view that has *)
(* not been written since it was read.  saved: one of the ten tries has    *)
(* gone through; otherwise the error is dropped and the round goes on.     *)
report(view, result, added, ok, saved) ==
  LET new == [w \in W |-> IF worker[w] # Nil /\ worker[w] = view[w]
                          THEN syncWorkerServiceStatus(worker[w], result, added, ok)
                          ELSE worker[w]]
  IN  /\ worker' = new
      /\ queue' = queue \cup {w \in W : new[w] # worker[w]}
      /\ ips' = IF ok /\ saved THEN result ELSE ips
      /\ UNCHANGED <<pod, gone, owner>>

Dropping(lost) == IF lost THEN Spend("drops") ELSE UNCHANGED left

(* One round of the publisher's loop, nothing in between.  The lister of   *)
(* the service shows the last save: the rounds are seconds apart.          *)
Publish(reached, saved) ==
  /\ held.key # "publisher"
  /\ Dropping(reached < 2 \/ ~saved)
  /\ \E s \in {publisherSync(worker, ips, reached)} :
       registry' = s.registry /\ report(worker, s.result, s.added, TRUE, saved)
  /\ UNCHANGED held

(* getNodes fails: the conditions say so.                                  *)
PublishQueryError ==
  /\ held.key # "publisher"
  /\ Spend("drops")
  /\ report(worker, {}, {}, FALSE, FALSE)
  /\ UNCHANGED <<registry, held>>

(* A slow round: it reads the listers, changes the registry, and reports.  *)
BeginPublish ==
  /\ held = Nobody
  /\ held' = [key |-> "publisher", workers |-> worker, ips |-> ips, synced |-> FALSE]
  /\ Spend("rounds")
  /\ UNCHANGED <<worker, pod, queue, gone, registry, ips, owner>>

SyncPublish(reached) ==
  /\ held.key = "publisher" /\ ~held.synced
  /\ Dropping(reached < 2)
  /\ \E s \in {publisherSync(held.workers, held.ips, reached)} :
       /\ registry' = s.registry
       /\ held' = [key |-> "publisher", workers |-> held.workers, synced |-> TRUE,
                   result |-> s.result, added |-> s.added]
  /\ UNCHANGED <<worker, pod, queue, gone, ips, owner>>

FinishPublish(saved) ==
  /\ held.key = "publisher" /\ held.synced
  /\ Dropping(~saved)
  /\ held' = Nobody
  /\ report(held.workers, held.result, held.added, TRUE, saved)
  /\ UNCHANGED registry

(* The process dies in the middle of what it does, and another takes over. *)
Crash ==
  /\ held # Nobody
  /\ held' = Nobody
  /\ queue' = {w \in W : worker[w] # Nil}
  /\ Spend("crashes")
  /\ UNCHANGED <<worker, pod, gone, registry, ips, owner>>

-----------------------------------------------------------------------------
(* The owner: what the rolling set does to one of its replicas.            *)

NewWorker(plan, version, gen) ==
  [spec |-> [role |-> "current", prefer |-> FALSE, version |-> version, gen |-> gen,
             toDelete |-> FALSE, releasing |-> FALSE,
             graceful |-> plan.graceful, delay |-> plan.delay, inplace |-> plan.inplace],
   status |-> NewStatus]

(* The worker the rolling set takes for the current one: the two of a pair *)
(* are listed in either order.                                             *)
Current(w) ==
  LET p == worker[getPairWorkerName(w)]
  IN  /\ worker[w] # Nil
      /\ p # Nil => FirstIsCurrent(worker[w], p) \/ ~FirstIsCurrent(p, worker[w])

OwnerWrite(w, new) ==
  /\ new # worker[w]
  /\ worker' = [worker EXCEPT ![w] = new]
  /\ queue' = queue \cup {w}
  /\ UNCHANGED <<pod, gone, held, registry, ips, owner, left>>

Released == \A w \in W : worker[w] = Nil

CreateReplica(w) ==
  /\ Released
  /\ ~owner.deleted
  /\ OwnerWrite(w, NewWorker(owner.plan, owner.version, owner.gen))

UpdateReplica(w) ==
  /\ Current(w)
  /\ worker[w].spec.version # owner.version
  /\ OwnerWrite(w, [worker[w] EXCEPT !.spec.role = "current", !.spec.version = owner.version,
                                     !.spec.gen = owner.gen])

ReleaseReplica(w) ==
  /\ Current(w)
  /\ owner.deleted
  /\ OwnerWrite(w, [worker[w] EXCEPT !.spec.role = "current", !.spec.toDelete = TRUE])

(* workerNodeReclaimed of the eviction controller: a worker that has a pod *)
(* is marked to be released.                                               *)
Evict(w) ==
  /\ worker[w] # Nil /\ pod[w] # Nil
  /\ ~worker[w].spec.releasing
  /\ worker' = [worker EXCEPT ![w].spec.releasing = TRUE]
  /\ queue' = queue \cup {w}
  /\ Spend("evictions")
  /\ UNCHANGED <<pod, gone, held, registry, ips, owner>>

(* A new template, or an old one again: getGenerationVersion gives it a    *)
(* version of its own.                                                     *)
ChangeTemplate(sign) ==
  /\ ~owner.deleted
  /\ sign # owner.version.sign
  /\ owner' = [owner EXCEPT !.version = [gen |-> owner.gen + 1, sign |-> sign],
                            !.gen = @ + 1, !.last = owner.version]
  /\ Spend("updates")
  /\ UNCHANGED <<worker, pod, queue, gone, held, registry, ips>>

(* The ratio of the latest version is lowered: the replica goes back to    *)
(* the version before, which the rolling set still keeps.                  *)
LowerRatio ==
  /\ ~owner.deleted
  /\ owner.last # owner.version
  /\ owner' = [owner EXCEPT !.version = owner.last, !.gen = @ + 1]
  /\ Spend("updates")
  /\ UNCHANGED <<worker, pod, queue, gone, held, registry, ips>>

ScaleIn ==
  /\ ~owner.deleted
  /\ owner' = [owner EXCEPT !.deleted = TRUE]
  /\ Spend("deletes")
  /\ UNCHANGED <<worker, pod, queue, gone, held, registry, ips>>

-----------------------------------------------------------------------------
(* The scheduler and the kubelet.                                          *)

(* handleSubObject: the worker of a changed pod is queued, and a pod whose *)
(* worker is gone is deleted.                                              *)
PodWrite(w, new) ==
  /\ pod' = [pod EXCEPT ![w] = IF worker[w] = Nil THEN DeleteSubObj(new) ELSE new]
  /\ queue' = IF worker[w] = Nil THEN queue ELSE queue \cup {w}
  /\ UNCHANGED <<worker, gone, held, registry, ips, owner>>

SchedulePod(w) ==
  /\ pod[w] # Nil /\ pod[w].state = "pending" /\ ~pod[w].deleting
  /\ PodWrite(w, [pod[w] EXCEPT !.state = "starting", !.run = pod[w].sign])
  /\ UNCHANGED left

StartPod(w) ==
  /\ pod[w] # Nil /\ pod[w].state = "starting" /\ ~pod[w].deleting
  /\ pod[w].run = pod[w].sign
  /\ PodWrite(w, [pod[w] EXCEPT !.state = "ready"])
  /\ UNCHANGED left

RestartPod(w) ==
  /\ pod[w] # Nil /\ pod[w].state \in {"starting", "ready"} /\ ~pod[w].deleting
  /\ pod[w].run # pod[w].sign
  /\ PodWrite(w, [pod[w] EXCEPT !.state = "starting", !.run = pod[w].sign])
  /\ UNCHANGED left

FailPod(w) ==
  /\ pod[w] # Nil /\ pod[w].state \in {"starting", "ready"} /\ ~pod[w].deleting
  /\ PodWrite(w, [pod[w] EXCEPT !.state = "failed"])
  /\ Spend("failures")

KillPod(w) ==
  /\ pod[w] # Nil /\ ~pod[w].deleting
  /\ PodWrite(w, [pod[w] EXCEPT !.deleting = TRUE])
  /\ Spend("failures")

ReclaimPod(w) ==
  /\ pod[w] # Nil /\ ~pod[w].reclaim /\ ~pod[w].deleting
  /\ PodWrite(w, [pod[w] EXCEPT !.reclaim = TRUE])
  /\ Spend("reclaims")

PodGone(w) ==
  /\ pod[w] # Nil /\ pod[w].deleting
  /\ PodWrite(w, Nil)
  /\ UNCHANGED left

-----------------------------------------------------------------------------

(* A worker as it is once its pod is up and published.                     *)
ServingWorker(new, ip) ==
  [new EXCEPT !.status =
     [@ EXCEPT !.alloc = "Assigned", !.entity = TRUE, !.alloced = TRUE, !.ip = ip,
               !.version = new.spec.version, !.res = TRUE, !.phase = "Running",
               !.step = "ServiceInfo", !.ready = TRUE, !.health = "Alive", !.healthVersion = new.spec.version,
               !.service = TRUE, !.since = 1,
               !.cond = [ok |-> TRUE, reason |-> "", message |-> "published",
                         deletes |-> DeleteCount, version |-> new.spec.version]]]

FirstVersion == [gen |-> 1, sign |-> 1]

(* The replica is new, or has been up for a while.                         *)
Init ==
  \E s \in Scenarios, w \in {CHOOSE x \in W : TRUE} :
    \E new \in {NewWorker(s.plan, FirstVersion, 1)}, ip \in {IF s.serving THEN 1 ELSE NoIP} :
      /\ worker = [x \in W |-> IF x # w THEN Nil
                               ELSE IF s.serving THEN ServingWorker(new, ip) ELSE new]
      /\ pod = [x \in W |-> IF x = w /\ s.serving
                            THEN [NewPod(ip, 1) EXCEPT !.state = "ready"] ELSE Nil]
      /\ queue = {w}
      /\ gone = [x \in W |-> NoRole]
      /\ held = Nobody
      /\ registry = {ip} \ {NoIP}
      /\ ips = registry
      /\ owner = [version |-> FirstVersion, last |-> FirstVersion, gen |-> 1,
                  deleted |-> FALSE, plan |-> s.plan]
      /\ left = s.limits

Timers == {"delay", "process"}

Fails == {{}, {"pod"}, {"current"}, {"backup"}, {"current", "backup"}}

Controller ==
  \/ \E w \in W, over \in SUBSET Timers, quota \in BOOLEAN, fails \in Fails :
       ProcessNextWorkItem(w, over, quota, fails)
  \/ \E w \in W, over \in SUBSET {"delay"}, quota \in BOOLEAN, fails \in Fails :
       OnDeleteWorker(w, over, quota, fails)
  \/ \E w \in W : BeginSync(w)
  \/ \E over \in SUBSET {"delay"}, quota \in BOOLEAN, fails \in Fails : FinishSync(over, quota, fails)

Publisher ==
  \/ \E reached \in 0..2 : SyncPublish(reached) \/ \E saved \in BOOLEAN : Publish(reached, saved)
  \/ PublishQueryError
  \/ BeginPublish
  \/ \E saved \in BOOLEAN : FinishPublish(saved)

Owner ==
  \/ \E w \in W : CreateReplica(w) \/ UpdateReplica(w) \/ ReleaseReplica(w) \/ Evict(w)
  \/ \E sign \in Signs : ChangeTemplate(sign)
  \/ LowerRatio
  \/ ScaleIn

Pods ==
  \E w \in W : \/ SchedulePod(w) \/ StartPod(w) \/ RestartPod(w) \/ PodGone(w)
               \/ FailPod(w) \/ KillPod(w) \/ ReclaimPod(w)

Next == Controller \/ Publisher \/ Owner \/ Pods \/ Crash \/ \E w \in W : doCheck(w)

SafetySpec == Init /\ [][Next]_vars

(* Every loop goes on: the workers of the queue take every key and retry,  *)
(* by which time a delay is over and the quota has refilled, a slow Sync   *)
(* ends, the publisher starts another round, the checker another check;    *)
(* the owner's Sync, the scheduler and the kubelet do their part.  Nothing *)
(* that spends a limit has to happen.                                      *)
Fairness ==
  /\ \A w \in W : /\ WF_vars(ProcessNextWorkItem(w, {"delay"}, TRUE, {}))
                  /\ WF_vars(OnDeleteWorker(w, {"delay"}, TRUE, {}))
                  /\ WF_vars(doCheck(w))
                  /\ WF_vars(UpdateReplica(w))
                  /\ WF_vars(ReleaseReplica(w))
                  /\ WF_vars(SchedulePod(w))
                  /\ WF_vars(StartPod(w))
                  /\ WF_vars(RestartPod(w))
                  /\ WF_vars(PodGone(w))
  /\ WF_vars(\E w \in W : CreateReplica(w))
  /\ WF_vars(FinishSync({"delay"}, TRUE, {}))
  /\ WF_vars(Publish(2, TRUE))
  /\ WF_vars(SyncPublish(2))
  /\ WF_vars(FinishPublish(TRUE))

Spec == SafetySpec /\ Fairness

-----------------------------------------------------------------------------
(* Properties.                                                             *)

Version == [gen : Nat, sign : Signs \cup {NoVersion.sign}]

Condition ==
  [ok : BOOLEAN, reason : {"", "Init", "NotExist", "QueryError", "CheckFalse"},
   message : {"", "error", "published"}, deletes : Int, version : Version]

WorkerSpec ==
  [role : {"current", "backup"}, prefer : BOOLEAN, version : Version \ {NoVersion},
   gen : Nat, toDelete : BOOLEAN, releasing : BOOLEAN, graceful : BOOLEAN,
   delay : BOOLEAN, inplace : BOOLEAN]

WorkerStatus ==
  [alloc : {"UnAssigned", "Assigned", "Lost", "Offlining", "Releasing"},
   entity : BOOLEAN, alloced : BOOLEAN, ip : Ids \cup {NoIP}, version : Version,
   res : BOOLEAN, phase : {"Unknown", "Pending", "Running", "Failed"},
   step : {"", "Begin", "UpdateGracefully", "Plan", "HealthInfo", "ServiceInfo", "Lost",
           "ToRelease"},
   ready : BOOLEAN, reclaim : BOOLEAN, internal : BOOLEAN,
   health : {"Unknown", "Alive", "Dead"}, healthVersion : Version,
   cond : Condition \cup {Nil}, service : BOOLEAN, offline : BOOLEAN,
   toRelease : BOOLEAN, bad : {"None", "Lost", "Dead", "ProcessNotMatch", "ProcessNotReady", "Reclaim"},
   since : Nat, lastDelete : BOOLEAN]

Pod ==
  [id : Ids, state : {"pending", "starting", "ready", "failed"}, sign : Signs,
   run : Signs, deleting : BOOLEAN, reclaim : BOOLEAN]

(* Types.  A worker that is Released is removed (updateWorker), so the API *)
(* server never holds one in that state.                                   *)
TypeOK ==
  /\ \A w \in W : worker[w] # Nil => /\ worker[w].spec \in WorkerSpec
                                     /\ worker[w].status \in WorkerStatus
  /\ pod \in [W -> Pod \cup {Nil}]
  /\ queue \subseteq W
  /\ gone \in [W -> {NoRole, "current", "backup"}]
  /\ registry \subseteq Ids
  /\ ips \subseteq Ids

(* The pod is up and clients reach it.                                     *)
Serving(w) ==
  /\ pod[w] # Nil
  /\ pod[w].state = "ready"
  /\ ~pod[w].deleting
  /\ pod[w].id \in registry

Leaving(w) ==
  worker[w] = Nil \/ worker[w].status.toRelease \/ pod[w] = Nil \/ pod[w].deleting

(* Nobody has asked for the replica to go.                                 *)
Wanted ==
  ~owner.deleted /\ \A w \in W : worker[w] # Nil => ~worker[w].spec.releasing

Failure == left'.failures < left.failures

GivesUp(w) ==
  Wanted /\ ~Failure /\ Serving(w) /\ ~Leaving(w) /\ Leaving(w)'

(* While the owner has asked for nothing new, a controller gives up a      *)
(* worker that serves only when its pair serves (worker_adjuster.go: swap  *)
(* first, then release): the migration of a replica off a reclaimed,       *)
(* failed or late machine is not seen by clients.                          *)
RecoveredFirst ==
  [][\A w \in W : GivesUp(w) /\ owner.gen = 1 => Serving(getPairWorkerName(w))]_vars

(* The adjuster never gives up both workers of a replica that is wanted,   *)
(* however old the copies are on which it judges them.  (As long as the    *)
(* current worker can be recovered while its backup leaves: couldSwapWorkers *)
(* takes a leaving backup for one that fails for good, and releases both.) *)
NeverBothReleased ==
  Wanted /\ (\A w \in W : worker[w] # Nil) => \E w \in W : ~worker[w].status.toRelease

(* Once saveRemoteNodes has put an IP in Status.IPs, it stays there as     *)
(* long as the IP is in the registry, and so the publisher will find it    *)
(* again when its worker is gone: whichever calls of a round fail, whether *)
(* its save fails or the process dies before it, and however old the view  *)
(* of the workers is.  (Of an IP that was registered and not yet saved     *)
(* there is only the worker's record, and the worker may go first.)        *)
RecordKept == [][ips \cap registry' \subseteq ips']_vars

DeletesPod(w) ==
  pod[w] # Nil /\ ~pod[w].deleting /\ pod'[w] # Nil /\ pod'[w].deleting /\ ~Failure

GracefulDelete(w) ==
  /\ worker[w] # Nil
  /\ worker[w].spec.graceful
  /\ ~IsWorkerIrrecoverable(worker[w])
  /\ DeletesPod(w)

(* A graceful worker's pod is deleted after its IP has left the registry   *)
(* (CouldDeletePod, dealwithOfflining); one that has failed or is lost is  *)
(* deleted at once.  A round that nobody else is in the middle of decides  *)
(* on what it sees, so this is about what is decided while nobody is slow.  *)
DeletedUnpublishedNow ==
  [][\A w \in W : GracefulDelete(w) /\ held = Nobody => pod[w].id \notin registry]_vars

(* What the owner asked for: one worker on the owner's version, current,   *)
(* serving and alone in the registry; or nothing at all.                   *)
Settled ==
  IF owner.deleted
  THEN registry = {} /\ \A w \in W : worker[w] = Nil /\ pod[w] = Nil
  ELSE \E w \in W :
         /\ Serving(w) /\ pod[w].run = owner.version.sign
         /\ registry = {pod[w].id}
         /\ worker[w] # Nil /\ worker[w].spec.role = "current"
         /\ worker[getPairWorkerName(w)] = Nil /\ pod[getPairWorkerName(w)] = Nil

(* Sync "compares the actual state with the desired, and attempts to       *)
(* converge the two": the replica settles and stays so.                    *)
Converges == <>[]Settled
=============================================================================
