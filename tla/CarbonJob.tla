------------------------------ MODULE CarbonJob ------------------------------
(***************************************************************************)
(* The carbon job controller: one CarbonJob, whose plan holds a template    *)
(* for each of its replicas, and the WorkerNodes the controller makes from  *)
(* the templates.  The store, the two informer caches, the work queue, the  *)
(* steps of one Sync, the batch of calls it issues and the handler of       *)
(* worker events interleave freely.                                         *)
(*                                                                          *)
(* A version is a number that every write of an object raises, deletions    *)
(* included, so that a version names one state of one incarnation.          *)
(***************************************************************************)
EXTENDS Naturals

CONSTANTS Names,      \* replica names
          Immutable,  \* the replicas whose template is marked immutable
          Plans,      \* plans the user may write: version per name, 0 = none
          Scenarios   \* what may happen in a behaviour, chosen in Init

Faults == {"finalizer", "call", "gc", "release"}

(* plan: the plan of the new job; plans: those it may change to; changes,   *)
(* statuses, failures, deadlines, crashes, deletes: how many of each;       *)
(* faults: the kinds of request that may fail; prompt: the informers are up *)
(* to date when a Sync begins.                                              *)
Scenario == [plan : Plans, plans : SUBSET Plans, changes : Nat,
             statuses : Nat, failures : Nat, deadlines : Nat, crashes : Nat,
             deletes : Nat, faults : SUBSET Faults, prompt : BOOLEAN]

ASSUME PlansAssumption == Plans \subseteq [Names -> Nat]

ASSUME ScenariosAssumption == Scenarios \subseteq Scenario

VARIABLES
  job,          \* the CarbonJob in the store
  cachedJob,    \* the object the job informer holds
  worker,       \* the WorkerNodes in the store, by replica
  cachedWorker, \* the objects the worker informer holds
  unread,       \* replicas with a worker event the handler has still to see
  queued,       \* the job's key is in the work queue
  pc,           \* where the running Sync is
  view,         \* the job object the running Sync works on
  calls,        \* calls of the running batch without a result
  late,         \* calls whose batch has stopped waiting for them
  failed,       \* a call of the running batch has failed
  snapshot,     \* what the user's Delete request has read of the job
  left,         \* what may still happen: the rest of the scenario
  unwanted,     \* last version of the job that did not want a replica
  kept,         \* replicas wanted since before their worker was made
  lost          \* a request failed that nothing repeats

store == <<job, worker>>
caches == <<cachedJob, cachedWorker, unread>>
sync == <<pc, view, calls, failed>>
history == <<unwanted, kept, lost>>
vars == <<store, caches, queued, sync, late, snapshot, left, history>>

Job == [there : BOOLEAN, deleting : BOOLEAN, final : BOOLEAN,
        plan : [Names -> Nat], rv : Nat]
Worker == [there : BOOLEAN, toDelete : BOOLEAN, ver : Nat, rv : Nat]
Call == [op : {"create", "update", "release"}, name : Names,
         ver : Nat, rv : Nat, jobrv : Nat]

NewJob(p) == [there |-> TRUE, deleting |-> FALSE, final |-> FALSE,
              plan |-> p, rv |-> 1]
NoJob(p) == [NewJob(p) EXCEPT !.there = FALSE, !.rv = 0]
NoWorker == [there |-> FALSE, toDelete |-> FALSE, ver |-> 0, rv |-> 0]

Wants(j, n) == j.there /\ ~j.deleting /\ j.plan[n] # 0

Init ==
  /\ left \in Scenarios
  /\ job = NewJob(left.plan)
  /\ cachedJob = NoJob(left.plan)
  /\ worker = [n \in Names |-> NoWorker]
  /\ cachedWorker = [n \in Names |-> NoWorker]
  /\ unread = {} /\ queued = FALSE
  /\ pc = "idle" /\ view = cachedJob /\ calls = {} /\ failed = FALSE
  /\ late = {} /\ snapshot = cachedJob
  /\ unwanted = [n \in Names |-> IF Wants(job, n) THEN 0 ELSE job.rv]
  /\ kept = {} /\ lost = FALSE

Gone(object) == [object EXCEPT !.there = FALSE, !.rv = @ + 1]

(* The job in the store becomes j; what the history keeps of it.            *)
WriteJob(j) ==
  /\ job' = j
  /\ unwanted' = [n \in Names |-> IF Wants(j, n) THEN unwanted[n] ELSE j.rv]
  /\ kept' = {n \in kept : Wants(j, n)}

MayFail(kind) ==
  /\ left.failures > 0 /\ kind \in left.faults
  /\ left' = [left EXCEPT !.failures = @ - 1]

-----------------------------------------------------------------------------
(* The user.                                                                *)

(* A new plan replaces the stored one.  The proxy refuses to touch a job    *)
(* that is being deleted.                                                   *)
UpdateCarbonJob(p) ==
  /\ left.changes > 0 /\ p # job.plan
  /\ job.there /\ ~job.deleting
  /\ WriteJob([job EXCEPT !.plan = p, !.rv = @ + 1])
  /\ left' = [left EXCEPT !.changes = @ - 1]
  /\ UNCHANGED <<worker, caches, queued, sync, late, snapshot, lost>>

(* A delete request first reads the job ...                                 *)
DeleteReads ==
  /\ left.deletes > 0
  /\ ~snapshot.there /\ job.there /\ ~job.deleting
  /\ snapshot' = job
  /\ UNCHANGED <<store, caches, queued, sync, late, left, history>>

(* ... and then, by what it has read, stamps the deletion time on it, which *)
(* fails on a conflict, or removes it outright, which does not.             *)
Delete ==
  /\ snapshot.there /\ left.deletes > 0
  /\ snapshot' = [snapshot EXCEPT !.there = FALSE]
  /\ LET conflict == ~job.there \/ (snapshot.final /\ snapshot.rv # job.rv)
     IN  IF conflict
           THEN UNCHANGED <<job, left, unwanted, kept>>
           ELSE /\ WriteJob(IF snapshot.final
                              THEN [job EXCEPT !.deleting = TRUE, !.rv = @ + 1]
                              ELSE Gone(job))
                /\ left' = [left EXCEPT !.deletes = @ - 1]
  /\ UNCHANGED <<worker, caches, queued, sync, late, lost>>

-----------------------------------------------------------------------------
(* The informers and their handlers.                                        *)

(* The job informer catches up; its handlers put the key in the queue.      *)
JobEvent ==
  /\ cachedJob.rv # job.rv
  /\ cachedJob' = job
  /\ queued' = TRUE
  /\ UNCHANGED <<store, cachedWorker, unread, sync, late, snapshot, left,
                 history>>

WorkerEvent(n) ==
  /\ cachedWorker[n].rv # worker[n].rv
  /\ cachedWorker' = [cachedWorker EXCEPT ![n] = worker[n]]
  /\ unread' = unread \union {n}
  /\ UNCHANGED <<store, cachedJob, queued, sync, late, snapshot, left, history>>

(* A worker event queues the owner's key; when the owner is not in the job  *)
(* cache the worker is garbage, and is deleted if the worker cache has it.  *)
HandleSubObject(n) ==
  /\ n \in unread
  /\ unread' = unread \ {n}
  /\ IF cachedJob.there
       THEN queued' = TRUE /\ UNCHANGED worker
       ELSE /\ worker' = IF cachedWorker[n].there /\ worker[n].there
                           THEN [worker EXCEPT ![n] = Gone(@)]
                           ELSE worker
            /\ UNCHANGED queued
  /\ UNCHANGED <<job, cachedJob, cachedWorker, sync, late, snapshot, left,
                 history>>

(* The deletion fails; the handler only logs it.                            *)
DeleteSubObjFails(n) ==
  /\ n \in unread /\ ~cachedJob.there /\ cachedWorker[n].there
  /\ MayFail("gc")
  /\ unread' = unread \ {n}
  /\ lost' = TRUE
  /\ UNCHANGED <<store, cachedJob, cachedWorker, queued, sync, late, snapshot,
                 unwanted, kept>>

-----------------------------------------------------------------------------
(* One Sync of the key.                                                     *)

UpToDate ==
  left.prompt => /\ cachedJob.rv = job.rv
                 /\ \A n \in Names : cachedWorker[n].rv = worker[n].rv

(* An error puts the key back into the queue.                               *)
Requeue ==
  /\ pc' = "idle" /\ queued' = TRUE
  /\ UNCHANGED <<view, calls, failed>>

(* The job is not in the cache: nothing to do.                              *)
SyncNothing ==
  /\ queued /\ pc = "idle" /\ UpToDate
  /\ ~cachedJob.there
  /\ queued' = FALSE
  /\ UNCHANGED <<store, caches, sync, late, snapshot, left, history>>

(* The Sync takes the cached object itself, and sets a missing finalizer in *)
(* that object before it writes it.                                         *)
SyncBegin ==
  /\ queued /\ pc = "idle" /\ UpToDate
  /\ cachedJob.there
  /\ queued' = FALSE
  /\ cachedJob' = [cachedJob EXCEPT !.final = TRUE]
  /\ view' = cachedJob'
  /\ pc' = IF cachedJob.final THEN "list" ELSE "finalizer"
  /\ UNCHANGED <<store, cachedWorker, unread, calls, failed, late, snapshot,
                 left, history>>

(* The write lands unless the store holds a newer version or no job; then   *)
(* the Sync goes on with what the cache holds by now.                       *)
AddFinalizer ==
  /\ pc = "finalizer"
  /\ LET ok == job.there /\ view.rv = job.rv
     IN  /\ IF ok THEN WriteJob([job EXCEPT !.final = TRUE, !.rv = @ + 1])
                  ELSE UNCHANGED <<job, unwanted, kept>>
         /\ IF ok /\ cachedJob.there
              THEN pc' = "list" /\ view' = cachedJob
                   /\ UNCHANGED <<queued, calls, failed>>
              ELSE Requeue
  /\ UNCHANGED <<worker, caches, late, snapshot, left, lost>>

AddFinalizerFails ==
  /\ pc = "finalizer" /\ MayFail("finalizer")
  /\ Requeue
  /\ UNCHANGED <<store, caches, late, snapshot, history>>

CallFor(o, n) == [op |-> o, name |-> n, ver |-> view.plan[n],
                  rv |-> cachedWorker[n].rv, jobrv |-> view.rv]

(* What the plan and the cached workers ask for: a worker for each template *)
(* without one, an update where the versions differ, and the release of the *)
(* workers without a template.                                              *)
SpecCalls ==
  LET has == {n \in Names : cachedWorker[n].there}
      wants == {n \in Names : view.plan[n] # 0}
  IN  {CallFor("create", n) : n \in wants \ has}
        \union {CallFor("update", n) : n \in
                  {m \in (wants \intersect has) \ Immutable :
                     cachedWorker[m].ver # view.plan[m]}}
        \union {CallFor("release", n) : n \in has \ wants}

(* Mutant: the workers are deleted instead of released.                     *)
DeleteCalls == {CallFor("delete", n) :
                  n \in {m \in Names : cachedWorker[m].there}}

ReleaseCalls == {CallFor("release", n) :
                   n \in {m \in Names : cachedWorker[m].there}}

(* The batch is handed to the executor.                                     *)
SyncSpec ==
  /\ pc = "list" /\ ~view.deleting
  /\ calls' = SpecCalls /\ failed' = FALSE
  /\ pc' = "wait"
  /\ UNCHANGED <<store, caches, queued, view, late, snapshot, left, history>>

(* Mutant: the job is let go once its workers are marked.                   *)
DoDeleteOnceMarked ==
  /\ pc = "list" /\ view.deleting
  /\ calls' = {c \in ReleaseCalls : ~cachedWorker[c.name].toDelete}
  /\ failed' = FALSE
  /\ pc' = IF calls' = {} THEN "clear" ELSE "wait"
  /\ UNCHANGED <<store, caches, queued, view, late, snapshot, left, history>>

(* A job being deleted releases the workers the cache shows; when it shows  *)
(* none, the job itself is let go.                                          *)
DoDelete ==
  /\ pc = "list" /\ view.deleting
  /\ calls' = ReleaseCalls /\ failed' = FALSE
  /\ pc' = IF calls' = {} THEN "clear" ELSE "wait"
  /\ UNCHANGED <<store, caches, queued, view, late, snapshot, left, history>>

ClearFinalizer ==
  /\ pc = "clear"
  /\ IF job.there /\ view.rv = job.rv
       THEN /\ WriteJob([job EXCEPT !.final = FALSE, !.rv = @ + 1])
            /\ pc' = "remove"
            /\ UNCHANGED <<queued, view, calls, failed>>
       ELSE UNCHANGED <<job, unwanted, kept>> /\ Requeue
  /\ UNCHANGED <<worker, caches, late, snapshot, left, lost>>

RemoveJob ==
  /\ pc = "remove"
  /\ IF job.there /\ ~job.final THEN WriteJob(Gone(job))
                               ELSE UNCHANGED <<job, unwanted, kept>>
  /\ pc' = "idle"
  /\ UNCHANGED <<worker, caches, queued, view, calls, failed, late, snapshot,
                 left, lost>>

ReleaseFails ==
  /\ pc \in {"clear", "remove"} /\ MayFail("release")
  /\ Requeue
  /\ UNCHANGED <<store, caches, late, snapshot, history>>

-----------------------------------------------------------------------------
(* The calls of a batch.                                                    *)

(* Mutant: a write lands whatever version it was made from.                 *)
LandsOnAny(c) ==
  LET w == worker[c.name]
  IN  IF c.op = "create" THEN ~w.there ELSE w.there

(* A create needs the name to be free, a write the version it was made from.*)
Lands(c) ==
  LET w == worker[c.name]
  IN  IF c.op = "create" THEN ~w.there ELSE w.there /\ w.rv = c.rv

(* An update writes the template, whose ToDelete is false; the release of a *)
(* worker already marked changes nothing.                                   *)
Written(c) ==
  LET w == worker[c.name]
  IN  IF c.op # "release"
        THEN [there |-> TRUE, toDelete |-> FALSE,
              ver |-> c.ver, rv |-> w.rv + 1]
        ELSE [w EXCEPT !.toDelete = TRUE,
                       !.rv = IF w.toDelete THEN @ ELSE @ + 1]

(* A release marks the object it was given, which is the cached one, before *)
(* it writes it.                                                            *)
Marked(c) ==
  IF c.op = "release" /\ cachedWorker[c.name].rv = c.rv
    THEN [cachedWorker EXCEPT ![c.name].toDelete = TRUE]
    ELSE cachedWorker

Perform(c) ==
  /\ worker' = IF Lands(c) THEN [worker EXCEPT ![c.name] = Written(c)]
                           ELSE worker
  /\ cachedWorker' = Marked(c)
  /\ kept' = IF c.op = "create" /\ Lands(c) /\ unwanted[c.name] < c.jobrv
               THEN kept \union {c.name} ELSE kept
  /\ UNCHANGED <<job, cachedJob, unread, snapshot, unwanted>>

RunCall(c) ==
  /\ c \in calls
  /\ calls' = calls \ {c}
  /\ failed' = (failed \/ ~Lands(c))
  /\ Perform(c)
  /\ UNCHANGED <<queued, pc, view, late, left, lost>>

(* The request does not reach the store.                                    *)
CallFails(c) ==
  /\ c \in calls /\ MayFail("call")
  /\ calls' = calls \ {c} /\ failed' = TRUE
  /\ cachedWorker' = Marked(c)
  /\ UNCHANGED <<store, cachedJob, unread, queued, pc, view, late, snapshot,
                 history>>

(* Mutant: the batch's errors are only logged.                              *)
SyncEndForgets ==
  /\ pc = "wait" /\ calls = {}
  /\ pc' = "idle"
  /\ UNCHANGED <<store, caches, queued, view, calls, failed, late, snapshot,
                 left, history>>

SyncEnd ==
  /\ pc = "wait" /\ calls = {}
  /\ pc' = "idle" /\ queued' = (queued \/ failed)
  /\ UNCHANGED <<store, caches, view, calls, failed, late, snapshot, left,
                 history>>

(* The batch's deadline: the calls without a result count as successes.     *)
Deadline ==
  /\ pc = "wait" /\ calls # {} /\ left.deadlines > 0
  /\ left' = [left EXCEPT !.deadlines = @ - 1]
  /\ late' = late \union calls /\ calls' = {}
  /\ pc' = "idle" /\ queued' = (queued \/ failed)
  /\ UNCHANGED <<store, caches, view, failed, snapshot, history>>

(* A call that had its ticket ends after the deadline ...                   *)
RunLate(c) ==
  /\ c \in late
  /\ late' = late \ {c}
  /\ Perform(c)
  /\ UNCHANGED <<queued, sync, left, lost>>

(* ... and one that had none is never made.                                 *)
DropLate(c) ==
  /\ c \in late
  /\ late' = late \ {c}
  /\ lost' = TRUE
  /\ UNCHANGED <<store, caches, queued, sync, snapshot, left, unwanted, kept>>

-----------------------------------------------------------------------------
(* The environment.                                                         *)

(* The worker controller removes a released worker, and writes statuses.    *)
WorkerReleased(n) ==
  /\ worker[n].there /\ worker[n].toDelete
  /\ worker' = [worker EXCEPT ![n] = Gone(@)]
  /\ UNCHANGED <<job, caches, queued, sync, late, snapshot, left, history>>

WorkerStatus(n) ==
  /\ worker[n].there /\ left.statuses > 0
  /\ worker' = [worker EXCEPT ![n].rv = @ + 1]
  /\ left' = [left EXCEPT !.statuses = @ - 1]
  /\ UNCHANGED <<job, caches, queued, sync, late, snapshot, history>>

(* The controller process restarts: the informers list everything anew and  *)
(* report each object as added.                                             *)
Restart ==
  /\ left.crashes > 0
  /\ left' = [left EXCEPT !.crashes = @ - 1]
  /\ cachedJob' = job /\ cachedWorker' = worker
  /\ unread' = {n \in Names : worker[n].there}
  /\ queued' = job.there
  /\ pc' = "idle" /\ view' = job /\ calls' = {} /\ late' = {} /\ failed' = FALSE
  /\ UNCHANGED <<store, snapshot, history>>

-----------------------------------------------------------------------------
User ==
  \/ \E p \in left.plans : UpdateCarbonJob(p)
  \/ DeleteReads \/ Delete

Sync ==
  \/ SyncNothing \/ SyncBegin \/ AddFinalizer \/ SyncSpec \/ DoDelete
  \/ ClearFinalizer \/ RemoveJob \/ SyncEnd
  \/ \E c \in calls : RunCall(c)

Fault ==
  \/ AddFinalizerFails \/ ReleaseFails \/ Deadline \/ Restart
  \/ \E c \in calls : CallFails(c)
  \/ \E c \in late : DropLate(c)
  \/ \E n \in Names : DeleteSubObjFails(n) \/ WorkerStatus(n)

Next ==
  \/ User \/ Sync \/ Fault \/ JobEvent
  \/ \E c \in late : RunLate(c)
  \/ \E n \in Names : WorkerEvent(n) \/ HandleSubObject(n) \/ WorkerReleased(n)

(* The queue's worker, the informers with their handlers, the calls under   *)
(* way and the worker controller go on; users and faults owe nothing.       *)
Fairness ==
  /\ WF_vars(Sync) /\ WF_vars(JobEvent)
  /\ WF_vars(\E c \in late : RunLate(c))
  /\ \A n \in Names : /\ WF_vars(WorkerEvent(n))
                      /\ WF_vars(HandleSubObject(n))
                      /\ WF_vars(WorkerReleased(n))

Safe == Init /\ [][Next]_vars

Spec == Safe /\ Fairness

-----------------------------------------------------------------------------
(* Every piece of state keeps its type, the calls under way included.       *)
TypeOK ==
  /\ job \in Job /\ cachedJob \in Job /\ view \in Job /\ snapshot \in Job
  /\ worker \in [Names -> Worker] /\ cachedWorker \in [Names -> Worker]
  /\ unread \subseteq Names /\ kept \subseteq Names
  /\ queued \in BOOLEAN /\ failed \in BOOLEAN /\ lost \in BOOLEAN
  /\ pc \in {"idle", "finalizer", "list", "wait", "clear", "remove"}
  /\ calls \subseteq Call /\ late \subseteq Call
  /\ left \in Scenario
  /\ unwanted \in [Names -> Nat]

(* A worker whose template has been in the plan since before it was made is *)
(* neither released, in the store or in the shared cache, nor deleted: not  *)
(* by a Sync that works on an old job or old workers, not by a call that    *)
(* outlived its batch, not by the handler that collects ownerless workers.  *)
KeepsWanted ==
  \A n \in kept :
    /\ worker[n].there /\ ~worker[n].toDelete
    /\ cachedWorker[n].rv = worker[n].rv => ~cachedWorker[n].toDelete

(* When informers keep up, a job deleted under its finalizer disappears     *)
(* only after its last worker ("workers all released, release carbonJob").  *)
ReleasedFirst ==
  [][left.prompt /\ job.there /\ job.deleting /\ ~job'.there
       => \A n \in Names : ~worker[n].there]_vars

Settled ==
  IF job.there
    THEN /\ ~job.deleting
         /\ \A n \in Names :
              /\ worker[n].there <=> job.plan[n] # 0
              /\ worker[n].there =>
                   /\ ~worker[n].toDelete
                   /\ n \notin Immutable => worker[n].ver = job.plan[n]
    ELSE left.prompt /\ job.deleting => \A n \in Names : ~worker[n].there

(* Unless a request that nothing repeats was lost, the workers end up as    *)
(* the last plan wants them, however the informers lag and whatever failed, *)
(* conflicted or restarted on the way, and a job being deleted goes away.   *)
Converges == <>[](lost \/ Settled)
=============================================================================
