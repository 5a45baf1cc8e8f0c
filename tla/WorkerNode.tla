----------------------------- MODULE WorkerNode -----------------------------
(***************************************************************************)
(* What one Sync of the worker controller computes.  A replica is a pair   *)
(* of worker nodes; the adjuster (controller/worker/worker_adjuster.go)    *)
(* decides which of the two is current and whether the pair needs a swap,  *)
(* a release or a backup, and the processor (worker_processor.go) drives   *)
(* one worker and its pod through                                          *)
(*   UnAssigned, Assigned, Lost, Offlining, Releasing, Released.           *)
(* Both work on copies of the objects and return the copies they want      *)
(* written, so they are operators here; module Replica runs them.          *)
(*                                                                         *)
(* One service with a graceful registry type selects the workers.  Online  *)
(* is left at its default, there is no gang, no standby mode and no        *)
(* warmup; the recover strategy, the timeouts and all the feature gates    *)
(* have their defaults: only ProcessMatchTimeout and the delay of a backup *)
(* are timers that run (WorkerReadyTimeout and NotScheduleTimeout are 0,   *)
(* the resource version of a pod is the one it was written with, and the   *)
(* registry asks for no reclaim).  A Sync is told in  over  which of the   *)
(* two have run out by then: "delay" and "process".                        *)
(*                                                                         *)
(* The one allocator, ackPodAllocator, has no process versions: the target *)
(* and the current one are both empty, so the process counts as matched    *)
(* as soon as the pod is written, and ProcessMatch, ProcessReady and       *)
(* PodReady are all  ready  here.                                          *)
(***************************************************************************)
EXTENDS Integers

CONSTANTS
  Nil,          \* no worker, no pod, no condition: nil in Go
  DeleteCount   \* misses before a condition goes: 1 for ServiceGeneral, else 0

ASSUME WorkerAssumption == DeleteCount \in {0, 1}

(* Body(e), where e is evaluated once: TLC evaluates a LET definition anew *)
(* at each of its uses in an ENABLED test.                                 *)
With(e, Body(_)) == CHOOSE r \in {Body(x) : x \in {e}} : TRUE

(* A version is the generation that introduced it, a dash, and a signature *)
(* of the template.  NoVersion is the empty string.                        *)
NoVersion == [gen |-> 0, sign |-> 0]
NoIP == 0        \* the empty IP

-----------------------------------------------------------------------------
(* Predicates of a worker, from helpers.go and service_publisher.go.       *)

IsWorkerToDelete(w) == w.spec.toDelete

IsWorkerToRelease(w) ==
  w.spec.toDelete \/ w.status.toRelease \/ w.spec.releasing

IsWorkerInnerVerMatch(w) ==
  w.spec.version # w.status.version /\ w.spec.version.sign = w.status.version.sign

IsWorkerVersionMisMatch(w) ==
  w.spec.version # w.status.version /\ ~IsWorkerInnerVerMatch(w)

IsWorkerRollback(w) == w.spec.version.gen < w.status.version.gen

IsWorkerEntityAlloced(w) == w.status.entity /\ w.status.alloced

IsWorkerReclaiming(w) ==
  \/ /\ w.status.alloc = "Assigned"
     /\ w.status.reclaim \/ (w.status.internal /\ IsWorkerVersionMisMatch(w))
  \/ /\ w.status.alloc = "UnAssigned"
     /\ w.status.reclaim \/ w.status.internal

IsWorkerIrrecoverable(w) ==
  w.status.alloc = "Lost" \/ w.status.phase = "Failed"

IsWorkerDead(w) == w.status.health = "Dead" \/ IsWorkerIrrecoverable(w)

IsWorkerHealth(w) == w.status.phase = "Running" /\ w.status.health = "Alive"

IsWorkerHealthInfoReady(w) ==
  /\ w.status.alloc = "Assigned"
  /\ w.status.ready
  /\ IsWorkerHealth(w)
  /\ w.status.healthVersion = w.spec.version

(* Does the timer of the process run?  It starts when a status is read in  *)
(* which the process is not ready.                                         *)
IsWorkerProcessPending(w) ==
  /\ w.status.alloc = "Assigned" /\ ~IsWorkerDead(w)
  /\ w.status.res
  /\ ~w.status.ready

IsWorkerBroken(w, over) ==
  CASE w.status.alloc = "Lost" -> "Lost"
    [] w.status.alloc = "Assigned" /\ IsWorkerDead(w) -> "Dead"
    [] IsWorkerProcessPending(w) /\ "process" \in over ->
         IF IsWorkerVersionMisMatch(w) THEN "ProcessNotMatch" ELSE "ProcessNotReady"
    [] OTHER -> "None"

GetWorkerBadState(w, over) ==
  IF IsWorkerBroken(w, over) # "None" THEN IsWorkerBroken(w, over)
  ELSE IF IsWorkerReclaiming(w) THEN "Reclaim"
  ELSE "None"

Published(w) == w.status.cond # Nil /\ w.status.cond.ok

(* The service status a worker's conditions add up to, TRUE for available. *)
GetServiceStatusFromCondition(w) ==
  Published(w) \/ (w.status.cond = Nil /\ ~w.status.offline)

(* Nothing of the worker is left in the registry, as the condition tells.  *)
(* (DeleteCount never gets to -3600 within the bounds.)                    *)
IsWorkerUnpublished(w) ==
  \/ w.status.cond = Nil
  \/ /\ ~w.status.cond.ok
     /\ \/ w.status.cond.reason \in {"NotExist", "Init"}
        \/ w.status.cond.message = "error"

\* Mutant: an unavailable service is taken for one that has left the registry.
serviceOff(w) == ~w.status.service

IsWorkerOfflined(w) == ~w.status.service /\ IsWorkerUnpublished(w)

CouldDeletePod(w) ==
  ~w.status.service \/ (~w.spec.graceful /\ IsWorkerToRelease(w))

IsWorkerServiceMatch(w) ==
  /\ w.status.cond # Nil => w.status.cond.version \in {w.spec.version, NoVersion}
  /\ w.status.service

\* Mutant: a worker is complete when it is healthy, published or not.
completeUnpublished(w) == ~IsWorkerReclaiming(w) /\ IsWorkerHealthInfoReady(w)

IsWorkerComplete(w) ==
  /\ w.status.res
  /\ ~IsWorkerReclaiming(w)
  /\ ~IsWorkerVersionMisMatch(w)
  /\ IsWorkerHealthInfoReady(w)
  /\ IsWorkerServiceMatch(w)

-----------------------------------------------------------------------------
(* Writing one worker.                                                     *)

NewStatus ==
  [alloc |-> "UnAssigned", entity |-> FALSE, alloced |-> FALSE, ip |-> NoIP,
   version |-> NoVersion, res |-> FALSE, phase |-> "Unknown", step |-> "",
   ready |-> FALSE, reclaim |-> FALSE, internal |-> FALSE,
   health |-> "Unknown", healthVersion |-> NoVersion, cond |-> Nil,
   service |-> FALSE, offline |-> FALSE, toRelease |-> FALSE, bad |-> "None",
   since |-> 0, lastDelete |-> FALSE]

SyncWorkerServiceHealthStatus(w) ==
  [w EXCEPT !.status.service = GetServiceStatusFromCondition(w)]

(* A message that says the node was published stays until a True.          *)
SetWorkerServiceHealthCondition(w, ok, reason, message) ==
  LET old == w.status.cond
      text == IF \/ ok \/ reason = "CheckFalse"
                 \/ old # Nil /\ old.message = "published"
              THEN "published" ELSE message
      cond == [ok |-> ok, reason |-> reason, message |-> text,
               deletes |-> DeleteCount, version |-> w.status.version]
  IN  SyncWorkerServiceHealthStatus([w EXCEPT !.status.cond = cond])

DeleteWorkerServiceHealthCondition(w, failed) ==
  LET old  == w.status.cond
      held == failed /\ old # Nil /\ old.message = "published"
      new  == IF old = Nil \/ (old.deletes <= 0 /\ ~held) THEN Nil
              ELSE [old EXCEPT !.deletes = @ - 1,
                               !.reason = IF held THEN "QueryError" ELSE @]
  IN  SyncWorkerServiceHealthStatus([w EXCEPT !.status.cond = new])

SetWorkerCurrent(w, now) ==
  [w EXCEPT !.spec.role = "current", !.status.since = now,
            !.status.bad = "None"]

SetWorkerBackup(w) == [w EXCEPT !.spec.role = "backup"]

(* A label tells the scheduler to avoid the machine of a broken worker.    *)
SetWorkerProhibit(w, over) ==
  [w EXCEPT !.spec.prefer = @ \/ IsWorkerBroken(w, over) # "None" \/ w.status.reclaim]

ReleaseWorker(w, over) ==
  SetWorkerProhibit([w EXCEPT !.status.toRelease = TRUE, !.status.offline = TRUE], over)

createBackup(c) ==
  [spec |-> [c.spec EXCEPT !.role = "backup", !.prefer = FALSE],
   status |-> NewStatus]

-----------------------------------------------------------------------------
(* The adjuster: worker_adjuster.go and the choice of the current worker.  *)

Latest(a, b) == IF a >= b THEN a ELSE b

(* Seconds since the epoch, as far as two BecomeCurrentTimes compare.      *)
Now(w, p) == 1 + (IF p = Nil THEN w.status.since
                  ELSE Latest(w.status.since, p.status.since))

(* Is the first of the two the current one?  Of two backups the second is, *)
(* of two currents the one that became current last.                       *)
FirstIsCurrent(w, p) ==
  \/ p = Nil
  \/ w.spec.role = "current" /\ p.spec.role = "backup"
  \/ /\ w.spec.role = "current" /\ p.spec.role = "current"
     /\ w.status.since > p.status.since

(* An owner's delete counts on a worker that is labelled current.          *)
OwnerReleases(w, p) ==
  \E x \in {w, p} : x # Nil /\ x.spec.role = "current" /\ IsWorkerToDelete(x)

FixWorkerRole(c, now) ==
  IF c.spec.role = "current" /\ c.status.since # 0 THEN c
  ELSE SetWorkerCurrent(c, now)

isWorkersSame(c, b) == c.spec.version = b.spec.version

(* The plan of the newer generation goes to the other one; the generation  *)
(* itself is not copied.                                                   *)
syncWorkers(c, b) ==
  IF c.spec.gen >= b.spec.gen
  THEN [c |-> c, b |-> [b EXCEPT !.spec.version = c.spec.version]]
  ELSE [c |-> [c EXCEPT !.spec.version = b.spec.version], b |-> b]

couldSwapWorkers(c, b) ==
  /\ \/ IsWorkerComplete(b)
     \/ /\ IsWorkerIrrecoverable(c)
        /\ IsWorkerHealthInfoReady(b)
        /\ b.status.offline
  /\ ~IsWorkerComplete(c)
  /\ isWorkersSame(c, b) \/ IsWorkerIrrecoverable(c)

(* A backup that is assigned is kept until its delay is over, if that has  *)
(* started before this Sync.                                               *)
releaseBackup(b, over) ==
  LET delayed == /\ b.status.alloc # "UnAssigned"
                 /\ b.spec.delay \/ IsWorkerServiceMatch(b)
      timed == [b EXCEPT !.status.lastDelete = @ \/ delayed]
  IN  IF delayed /\ ~(b.status.lastDelete /\ "delay" \in over) THEN timed
      ELSE ReleaseWorker(timed, over)

recoverWithoutCreatebackup(c) ==
  c.status.alloc = "UnAssigned" \/ IsWorkerIrrecoverable(c)

shouldRecover(c, b, over) ==
  b = Nil /\ ~IsWorkerToRelease(c) /\ GetWorkerBadState(c, over) # "None"

\* Mutant: whichever of the two is bad is released.
releaseBad(c, b, over, now) ==
  LET judged(x) == IF GetWorkerBadState(x, over) # "None" THEN ReleaseWorker(x, over) ELSE x
  IN  [c |-> judged(c), b |-> judged(b)]

(* Both workers are there: swap them, release the backup, or neither.  The *)
(* names c and b stay with the objects when the roles are swapped.         *)
adjustPair(c, b, over, now) ==
  LET cBad == GetWorkerBadState(c, over)
      bBad == GetWorkerBadState(b, over)
      marked == [c |-> [c EXCEPT !.status.bad = cBad], b |-> [b EXCEPT !.status.bad = bBad]]
      swapped(x) == IF couldSwapWorkers(x.c, x.b)
                    THEN [c |-> SetWorkerBackup(x.c), b |-> SetWorkerCurrent(x.b, now)] ELSE x
      released(x) ==
        IF bBad # "None" \/ IsWorkerComplete(x.c)
        THEN [c |-> IF cBad = "None" THEN [x.c EXCEPT !.spec.prefer = FALSE] ELSE x.c,
              b |-> releaseBackup(x.b, over)]
        ELSE [c |-> x.c, b |-> [x.b EXCEPT !.status.lastDelete = FALSE]]
      prohibited(x) == IF cBad # "None" THEN [x EXCEPT !.c = SetWorkerProhibit(@, over)] ELSE x
  IN  With(marked, LAMBDA x : With(swapped(x), LAMBDA y : With(released(y), prohibited)))

(* Only one worker: recover it if it is bad and the quota allows.          *)
adjustSingle(c, over, quota) ==
  LET bad == GetWorkerBadState(c, over)
      c1 == [c EXCEPT !.status.bad = bad]
      c2 == IF bad # "None" THEN SetWorkerProhibit(c1, over) ELSE c1
      recover == shouldRecover(c2, Nil, over) /\ (IsWorkerDead(c2) => quota)
  IN  IF ~recover THEN [c |-> c2, b |-> Nil]
      ELSE IF recoverWithoutCreatebackup(c2) THEN [c |-> ReleaseWorker(c2, over), b |-> Nil]
      ELSE [c |-> c2, b |-> createBackup(c2)]

(* The worker of the key and its pair, and whether only their plans were   *)
(* synchronised, in which case the processor does not run.                 *)
adjust(w, p, over, quota) ==
  LET first == FirstIsCurrent(w, p)
      now == Now(w, p)
      current == FixWorkerRole(IF first THEN w ELSE p, now)
      backup == IF p = Nil THEN Nil ELSE SetWorkerBackup(IF first THEN p ELSE w)
      release(x) == IF x # Nil /\ OwnerReleases(w, p)
                    THEN [x EXCEPT !.status.toRelease = TRUE] ELSE x
      adjusted(c, b) == IF b = Nil THEN adjustSingle(c, over, quota) ELSE adjustPair(c, b, over, now)
      answer(r, synced) == [worker |-> IF first THEN r.c ELSE r.b,
                            pair |-> IF first THEN r.b ELSE r.c, synced |-> synced]
  IN  With(current, LAMBDA c : With(backup, LAMBDA b :
        IF b # Nil /\ ~isWorkersSame(c, b) THEN answer(syncWorkers(c, b), TRUE)
        ELSE With(release(c), LAMBDA c1 : With(release(b), LAMBDA b1 :
               With(adjusted(c1, b1), LAMBDA r : answer(r, FALSE))))))

-----------------------------------------------------------------------------
(* The processor: worker_processor.go with allocator.go and executor.go.   *)
(* Its state is x: the worker w, the pod it has read, and the one call to  *)
(* the API server it makes about the pod ("none", "create", "update" or    *)
(* "delete"); ok says whether that call succeeds.                          *)

syncWorkerAllocStatus(w, pod) ==
  LET lost == w.status.alloc = "Lost"
  IN  IF pod = Nil THEN [w EXCEPT !.status.entity = lost /\ @]
      ELSE IF pod.state = "pending" THEN [w EXCEPT !.status.reclaim = pod.reclaim]
      ELSE [w EXCEPT !.status.reclaim = pod.reclaim,
                     !.status.alloced = ~(w.status.alloc = "Assigned" /\ pod.deleting),
                     !.status.entity = @ \/ ~lost,
                     !.status.ip = pod.id]

PodPhase(pod) ==
  CASE pod.state \in {"pending", "starting"} -> "Pending"
    [] pod.state = "ready" -> "Running"
    [] pod.state = "failed" -> "Failed"

(* The scheduler grants the resources a pod asks for: the resource version *)
(* matches as soon as there is a status to read.  The version is taken for *)
(* reached once the pod is written, before its process has restarted.      *)
syncWorkerStatus(w, pod) ==
  LET a == syncWorkerAllocStatus(w, pod)
      podUpdated == pod.sign = w.spec.version.sign
  IN  [a EXCEPT !.status.res = TRUE,
                !.status.phase = PodPhase(pod),
                !.status.ready = pod.state = "ready",
                !.status.version = IF podUpdated THEN w.spec.version ELSE @]

(* An in-place update of the pod.  One that no machine has accepted yet is *)
(* reclaimed instead, and so is one of a template that cannot be changed   *)
(* in place: other containers, other names, or a change that the API       *)
(* server or a webhook rejects.                                            *)
syncPodSpec(x) ==
  LET w == x.w
      unplaced == ~w.status.res /\ x.pod.state = "pending"
      current == \/ ~IsWorkerVersionMisMatch(w) /\ w.status.res
                 \/ x.pod.sign = w.spec.version.sign
      mayUpdate == /\ w.status.res \/ w.status.alloc = "UnAssigned"
                   /\ IsWorkerVersionMisMatch(w)
  IN  IF current THEN [x EXCEPT !.w.status.internal = FALSE]
      ELSE IF ~mayUpdate THEN x
      ELSE IF unplaced \/ ~w.spec.inplace THEN [x EXCEPT !.w.status.internal = TRUE]
      ELSE [x EXCEPT !.w.status.internal = FALSE, !.call = "update"]

initServiceConditions(w) ==
  IF IsWorkerToRelease(w) \/ w.status.cond # Nil THEN w
  ELSE SetWorkerServiceHealthCondition(w, FALSE, "Init", "")

(* podAllocator.delete: nothing happens while the service is available.    *)
deletePod(x) ==
  LET w == SyncWorkerServiceHealthStatus(x.w)
  IN  [x EXCEPT !.w = w, !.call = IF CouldDeletePod(w) THEN "delete" ELSE "none"]

tryToReleaseWorker(w) ==
  [w EXCEPT !.status.alloc = IF w.spec.graceful THEN "Offlining" ELSE "Releasing"]

dealwithUnAssigned(x0, ok) ==
  LET x == [x0 EXCEPT !.w = initServiceConditions(@)]
      w == x.w
      d == deletePod(x)
  IN  CASE IsWorkerEntityAlloced(w) -> [x EXCEPT !.w.status.alloc = "Assigned"]
        [] ~w.status.entity /\ IsWorkerToRelease(w) /\ x.pod # Nil ->
             IF d.call = "delete" /\ ~ok THEN d
             ELSE [d EXCEPT !.w.status.alloc = "Released", !.pod = Nil]
        [] ~w.status.entity /\ IsWorkerToRelease(w) /\ x.pod = Nil ->
             [x EXCEPT !.w.status.alloc = "Released"]
        [] w.status.entity /\ IsWorkerToRelease(w) /\ ~w.status.alloced ->
             [x EXCEPT !.w = tryToReleaseWorker(@)]
        [] ~w.status.entity /\ ~IsWorkerToRelease(w) /\ x.pod = Nil ->
             [x EXCEPT !.w.status.entity = ok, !.call = "create"]
        [] OTHER -> IF x.pod = Nil THEN x ELSE syncPodSpec(x)

(* Out of the registry first, when the update is graceful; proceed says    *)
(* whether the plan may be applied now.                                    *)
processUpdateGracefully(w) ==
  LET off == SyncWorkerServiceHealthStatus([w EXCEPT !.status.offline = TRUE])
  IN  IF ~w.spec.graceful THEN [w |-> [w EXCEPT !.status.offline = FALSE], proceed |-> TRUE]
      ELSE IF ~IsWorkerVersionMisMatch(w) THEN [w |-> w, proceed |-> TRUE]
      ELSE [w |-> off, proceed |-> IsWorkerUnpublished(off)]

processServiceInfo(w) ==
  SyncWorkerServiceHealthStatus(
    [w EXCEPT !.status.offline = IF w.spec.graceful THEN FALSE ELSE @])

processPlan(x, ok) ==
  IF IsWorkerRollback(x.w) THEN [x EXCEPT !.w.status.version = NoVersion]
  ELSE IF IsWorkerInnerVerMatch(x.w) THEN [x EXCEPT !.w.status.version = x.w.spec.version]
  ELSE LET s == syncPodSpec(x)
       IN  IF s.call = "update" /\ ~ok THEN s
           ELSE [s EXCEPT !.w = syncWorkerStatus(@, x.pod)]

(* ProcessStep tells how far this Sync has got.  It is stored, so a Sync   *)
(* that fails further on, or less far, than the last one is written, and   *)
(* its key is queued again.                                                *)
SetStep(x, step) == [x EXCEPT !.w.status.step = step]

(* The health and service steps follow once the version is in place.       *)
dealwithAssigned(x, ok) ==
  LET planned(g, p) == /\ ~IsWorkerRollback(g.w)
                       /\ p.call # "update" \/ ok
                       /\ ~IsWorkerVersionMisMatch(p.w)
      served(p) == [p EXCEPT !.w = processServiceInfo(@)]
  IN  CASE IsWorkerToRelease(x.w) ->
             SetStep([x EXCEPT !.w = tryToReleaseWorker(@)], "ToRelease")
        [] ~IsWorkerToRelease(x.w) /\ ~IsWorkerEntityAlloced(x.w) ->
             SetStep([x EXCEPT !.w.status.alloc = "Lost"], "Lost")
        [] OTHER ->
             With(processUpdateGracefully(x.w), LAMBDA g :
               IF ~g.proceed THEN SetStep([x EXCEPT !.w = g.w], "Begin")
               ELSE With(processPlan([x EXCEPT !.w = g.w], ok), LAMBDA p :
                      IF ~planned(g, p) THEN SetStep(p, "UpdateGracefully")
                      ELSE IF ~IsWorkerHealthInfoReady(p.w) THEN SetStep(p, "Plan")
                      ELSE With(served(p), LAMBDA q :
                             SetStep(q, IF IsWorkerServiceMatch(q.w)
                                        THEN "ServiceInfo" ELSE "HealthInfo"))))

dealwithLost(w) == IF IsWorkerToRelease(w) THEN tryToReleaseWorker(w) ELSE w

dealwithOfflining(w) ==
  LET off == SyncWorkerServiceHealthStatus([w EXCEPT !.status.offline = TRUE])
  IN  IF IsWorkerOfflined(off) \/ IsWorkerIrrecoverable(off)
      THEN [off EXCEPT !.status.alloc = "Releasing"] ELSE off

dealwithReleasing(x, ok) ==
  LET d == deletePod(x)
      cleared == [d EXCEPT !.pod = Nil, !.w.status.alloced = FALSE,
                           !.w.status.entity = FALSE]
      y == IF x.pod = Nil THEN x ELSE cleared
  IN  IF x.pod # Nil /\ d.call = "delete" /\ ~ok THEN d
      ELSE IF y.w.status.entity THEN y
      ELSE [y EXCEPT !.w.status.alloc = "Released"]

(* The states in the order the processor tries them, each on what the one  *)
(* before has left.  An error does not leave: that of postSync, which      *)
(* copies the state of the worker to annotations of its pod, takes its     *)
(* place (and, when postSync fails, nothing is written: for the model as   *)
(* if both writes of the workers had failed).                              *)
process(w, pod, ok) ==
  LET unassigned(x) == IF x.w.status.alloc = "UnAssigned" THEN dealwithUnAssigned(x, ok) ELSE x
      assigned(x) == IF x.w.status.alloc = "Assigned" THEN dealwithAssigned(x, ok) ELSE x
      lost(x) == IF x.w.status.alloc = "Lost" THEN [x EXCEPT !.w = dealwithLost(@)] ELSE x
      offlining(x) == IF x.w.status.alloc = "Offlining" THEN [x EXCEPT !.w = dealwithOfflining(@)] ELSE x
      releasing(x) == IF x.w.status.alloc = "Releasing" THEN dealwithReleasing(x, ok) ELSE x
      prepared == [w |-> syncWorkerAllocStatus(w, pod), pod |-> pod, call |-> "none"]
  IN  With(prepared, LAMBDA a : With(unassigned(a), LAMBDA b : With(assigned(b), LAMBDA c :
        With(lost(c), LAMBDA d : With(offlining(d), releasing)))))

=============================================================================
