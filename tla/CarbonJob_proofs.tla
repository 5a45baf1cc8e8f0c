--------------------------- MODULE CarbonJob_proofs ---------------------------
(***************************************************************************)
(* For every set of replicas, every set of plans and any number of changes, *)
(* failures, deadlines and restarts: the carbon job controller keeps the    *)
(* workers whose templates stay in the plan.                                *)
(*                                                                          *)
(* KeepsWanted is not inductive.  What makes it so: the job objects that    *)
(* the cache and the running Sync hold are never older than the one that    *)
(* the calls under way were made from (Ordered), an object newer than the   *)
(* last version that did not want a replica wants it (Fresh), and a release *)
(* under way for a kept worker was made from an older version of it         *)
(* (CallsOK), so that it can only conflict.                                 *)
(***************************************************************************)
EXTENDS CarbonJob, TLAPS

Fresh(j) == \A n \in Names : j.rv > unwanted[n] => Wants(j, n)

Ordered ==
  /\ view.rv <= cachedJob.rv /\ cachedJob.rv <= job.rv
  /\ \A n \in Names : cachedWorker[n].rv <= worker[n].rv

CallsOK ==
  \A c \in calls \union late :
    /\ c.jobrv <= view.rv
    /\ c.rv <= worker[c.name].rv
    /\ c.op = "release" /\ c.name \in kept => c.rv < worker[c.name].rv

IInv ==
  /\ TypeOK
  /\ Ordered
  /\ Fresh(job) /\ Fresh(cachedJob) /\ Fresh(view)
  /\ CallsOK
  /\ \A n \in kept : view.rv > unwanted[n]
  /\ KeepsWanted

-----------------------------------------------------------------------------
(* The initial states: no worker, no call, and a job cache that is empty.   *)
LEMMA InitIInv == Init => IInv
<1> SUFFICES ASSUME Init PROVE IInv
  BY Zenon
<1>1. left \in Scenario /\ left.plan \in [Names -> Nat]
  BY Zenon, PlansAssumption, ScenariosAssumption DEF Init, Scenario
<1>2. TypeOK
  BY Zenon, <1>1 DEF Init, TypeOK, Job, Worker, NewJob, NoJob, NoWorker, Wants
<1>3. Ordered /\ CallsOK /\ KeepsWanted
  BY <1>1 DEF Init, Ordered, CallsOK, KeepsWanted, NewJob, NoJob, NoWorker
<1>4. Fresh(job) /\ Fresh(cachedJob) /\ Fresh(view)
  BY <1>1 DEF Init, Fresh, Wants, NewJob, NoJob
<1> QED
  BY Zenon, <1>2, <1>3, <1>4 DEF Init, IInv

-----------------------------------------------------------------------------
(* Types.                                                                   *)

(* Each write of a job gives a job with the next version.                   *)
LEMMA JobWrites ==
  ASSUME NEW j \in Job
  PROVE  /\ \A p \in [Names -> Nat] :
              LET k == [j EXCEPT !.plan = p, !.rv = @ + 1]
              IN  k \in Job /\ k.rv = j.rv + 1
         /\ LET k == [j EXCEPT !.deleting = TRUE, !.rv = @ + 1]
            IN  k \in Job /\ k.rv = j.rv + 1
         /\ \A b \in BOOLEAN : LET k == [j EXCEPT !.final = b, !.rv = @ + 1]
                               IN  k \in Job /\ k.rv = j.rv + 1
         /\ Gone(j) \in Job /\ Gone(j).rv = j.rv + 1
         /\ [j EXCEPT !.final = TRUE] \in Job
         /\ [j EXCEPT !.there = FALSE] \in Job
<1>1. PICK v \in Nat : v = j.rv + 1
  BY DEF Job
<1> QED
  BY Zenon, <1>1 DEF Job, Gone

(* Writing a job keeps the types of what the write touches.                 *)
LEMMA WriteJobType ==
  ASSUME TypeOK, NEW j \in Job, WriteJob(j)
  PROVE  job' \in Job /\ unwanted' \in [Names -> Nat] /\ kept' \subseteq Names
BY Zenon DEF TypeOK, WriteJob, Job

(* A spent failure leaves a scenario.                                       *)
LEMMA MayFailType ==
  ASSUME TypeOK, NEW k, MayFail(k)
  PROVE  left' \in Scenario
BY DEF TypeOK, MayFail, Scenario

LEMMA UserType ==
  ASSUME TypeOK, User PROVE TypeOK'
<1>1. ASSUME NEW p \in left.plans, UpdateCarbonJob(p) PROVE TypeOK'
  <2>1. p \in [Names -> Nat]
    BY Zenon, PlansAssumption DEF TypeOK, Scenario
  <2>2. [job EXCEPT !.plan = p, !.rv = @ + 1] \in Job
    BY Zenon, <2>1, JobWrites DEF TypeOK
  <2>3. job' \in Job /\ unwanted' \in [Names -> Nat] /\ kept' \subseteq Names
    BY Zenon, <1>1, <2>2, WriteJobType DEF UpdateCarbonJob
  <2>4. left' \in Scenario
    BY <1>1 DEF UpdateCarbonJob, TypeOK, Scenario
  <2> QED
    BY Zenon, <1>1, <2>3, <2>4 DEF UpdateCarbonJob, TypeOK, caches, sync
<1>2. CASE DeleteReads
  BY Zenon, <1>2 DEF DeleteReads, TypeOK, store, caches, sync, history
<1>3. CASE Delete
  <2> DEFINE j == IF snapshot.final
                    THEN [job EXCEPT !.deleting = TRUE, !.rv = @ + 1]
                    ELSE Gone(job)
  <2>1. j \in Job
    BY Zenon, JobWrites DEF TypeOK
  <2>2. /\ job' \in Job /\ unwanted' \in [Names -> Nat] /\ kept' \subseteq Names
        /\ left' \in Scenario
    <3>1. CASE UNCHANGED <<job, left, unwanted, kept>>
      BY Zenon, <3>1 DEF TypeOK
    <3>2. CASE WriteJob(j) /\ left' = [left EXCEPT !.deletes = @ - 1]
      <4>1. left' \in Scenario
        BY <1>3, <3>2 DEF Delete, TypeOK, Scenario
      <4> QED
        BY Zenon, <2>1, <3>2, <4>1, WriteJobType
    <3> QED
      BY Zenon, <1>3, <3>1, <3>2 DEF Delete
  <2>3. snapshot' \in Job
    BY Zenon, <1>3, JobWrites DEF Delete, TypeOK
  <2> QED
    BY Zenon, <1>3, <2>2, <2>3 DEF Delete, TypeOK, caches, sync
<1> QED
  BY Zenon, <1>1, <1>2, <1>3 DEF User

(* What a Sync asks for are calls.                                          *)
LEMMA CallsType ==
  ASSUME TypeOK
  PROVE  SpecCalls \subseteq Call /\ ReleaseCalls \subseteq Call
<1>1. \A o \in {"create", "update", "release"}, n \in Names : CallFor(o, n) \in Call
  BY Zenon DEF TypeOK, CallFor, Call, Job, Worker
<1> QED
  BY Zenon, <1>1 DEF SpecCalls, ReleaseCalls

(* The steps of a Sync before and after its batch.                          *)
LEMMA SyncType ==
  ASSUME TypeOK,
         \/ SyncNothing \/ SyncBegin \/ AddFinalizer \/ SyncSpec \/ DoDelete
         \/ ClearFinalizer \/ RemoveJob \/ SyncEnd
  PROVE  TypeOK'
<1>1. CASE SyncNothing
  BY Zenon, <1>1 DEF SyncNothing, TypeOK, store, caches, sync, history
<1>2. CASE SyncBegin
  <2>1. cachedJob' \in Job /\ view' \in Job
    BY Zenon, <1>2, JobWrites DEF SyncBegin, TypeOK
  <2>2. pc' \in {"idle", "finalizer", "list", "wait", "clear", "remove"}
    BY Zenon, <1>2 DEF SyncBegin
  <2> QED
    BY Zenon, <1>2, <2>1, <2>2 DEF SyncBegin, TypeOK, store, history
<1>3. CASE AddFinalizer
  <2>1. job' \in Job /\ unwanted' \in [Names -> Nat] /\ kept' \subseteq Names
    <3>1. CASE UNCHANGED <<job, unwanted, kept>>
      BY Zenon, <3>1 DEF TypeOK
    <3>2. CASE WriteJob([job EXCEPT !.final = TRUE, !.rv = @ + 1])
      <4>1. [job EXCEPT !.final = TRUE, !.rv = @ + 1] \in Job
        BY Zenon, JobWrites DEF TypeOK
      <4> QED
        BY Zenon, <3>2, <4>1, WriteJobType
    <3> QED
      BY Zenon, <1>3, <3>1, <3>2 DEF AddFinalizer
  <2>2. /\ view' \in Job /\ calls' = calls /\ failed' = failed
        /\ queued' \in BOOLEAN /\ pc' \in {"idle", "list"}
    BY Zenon, <1>3 DEF AddFinalizer, Requeue, TypeOK
  <2> QED
    BY Zenon, <1>3, <2>1, <2>2 DEF AddFinalizer, TypeOK, caches
<1>4. CASE SyncSpec
  BY Zenon, <1>4, CallsType DEF SyncSpec, TypeOK, store, caches, history
<1>5. CASE DoDelete
  BY Zenon, <1>5, CallsType DEF DoDelete, TypeOK, store, caches, history
<1>6. CASE ClearFinalizer
  <2>1. job' \in Job /\ unwanted' \in [Names -> Nat] /\ kept' \subseteq Names
    <3>1. CASE UNCHANGED <<job, unwanted, kept>>
      BY Zenon, <3>1 DEF TypeOK
    <3>2. CASE WriteJob([job EXCEPT !.final = FALSE, !.rv = @ + 1])
      <4>1. [job EXCEPT !.final = FALSE, !.rv = @ + 1] \in Job
        BY Zenon, JobWrites DEF TypeOK
      <4> QED
        BY Zenon, <3>2, <4>1, WriteJobType
    <3> QED
      BY Zenon, <1>6, <3>1, <3>2 DEF ClearFinalizer
  <2>2. /\ view' = view /\ calls' = calls /\ failed' = failed
        /\ queued' \in BOOLEAN /\ pc' \in {"idle", "remove"}
    BY Zenon, <1>6 DEF ClearFinalizer, Requeue, TypeOK
  <2> QED
    BY Zenon, <1>6, <2>1, <2>2 DEF ClearFinalizer, TypeOK, caches
<1>7. CASE RemoveJob
  <2>1. job' \in Job /\ unwanted' \in [Names -> Nat] /\ kept' \subseteq Names
    <3>1. CASE UNCHANGED <<job, unwanted, kept>>
      BY Zenon, <3>1 DEF TypeOK
    <3>2. CASE WriteJob(Gone(job))
      BY Zenon, <3>2, JobWrites, WriteJobType DEF TypeOK
    <3> QED
      BY Zenon, <1>7, <3>1, <3>2 DEF RemoveJob
  <2> QED
    BY Zenon, <1>7, <2>1 DEF RemoveJob, TypeOK, caches
<1>8. CASE SyncEnd
  BY Zenon, <1>8 DEF SyncEnd, TypeOK, store, caches, history
<1> QED
  BY Zenon, <1>1, <1>2, <1>3, <1>4, <1>5, <1>6, <1>7, <1>8

(* What a call does to the workers, by the outcome.                         *)
LEMMA PerformEffect ==
  ASSUME TypeOK, NEW c \in Call, Perform(c)
  PROVE  /\ worker' \in [Names -> Worker] /\ cachedWorker' \in [Names -> Worker]
         /\ kept' \subseteq Names
         /\ \A n \in Names : n # c.name =>
              worker'[n] = worker[n] /\ cachedWorker'[n] = cachedWorker[n]
         /\ worker[c.name].rv <= worker'[c.name].rv
         /\ cachedWorker'[c.name].rv = cachedWorker[c.name].rv
<1> DEFINE m == c.name
           w == worker[m]
<1>1. m \in Names /\ w \in Worker /\ c.ver \in Nat /\ c.rv \in Nat
  BY Zenon DEF TypeOK, Call
<1>2. PICK v \in Nat : v = w.rv + 1
  BY <1>1 DEF Worker
<1>3. Written(c) \in Worker /\ w.rv <= Written(c).rv
  <2>1. CASE c.op # "release"
    BY <1>1, <1>2, <2>1 DEF Written, Worker
  <2>2. CASE c.op = "release"
    <3>1. \A u \in Nat : /\ [w EXCEPT !.toDelete = TRUE, !.rv = u] \in Worker
                         /\ [w EXCEPT !.toDelete = TRUE, !.rv = u].rv = u
      BY Zenon, <1>1 DEF Worker
    <3>2. w.rv \in Nat
      BY Zenon, <1>1 DEF Worker
    <3> DEFINE u == IF w.toDelete THEN w.rv ELSE w.rv + 1
    <3>3. u \in Nat /\ w.rv <= u
      BY <3>2
    <3>4. Written(c) = [w EXCEPT !.toDelete = TRUE, !.rv = u]
      BY Zenon, <2>2 DEF Written
    <3> HIDE DEF u
    <3> QED
      BY Zenon, <3>1, <3>3, <3>4
  <2> QED
    BY Zenon, <2>1, <2>2
<1>4. worker' = worker \/ worker' = [worker EXCEPT ![m] = Written(c)]
  BY Zenon DEF Perform
<1>5. /\ worker' \in [Names -> Worker] /\ w.rv <= worker'[m].rv
      /\ \A n \in Names : n # m => worker'[n] = worker[n]
  <2>1. w.rv \in Nat
    BY Zenon, <1>1 DEF Worker
  <2> HIDE DEF m
  <2> QED
    BY <1>1, <1>3, <1>4, <2>1 DEF TypeOK
<1>6. \/ cachedWorker' = cachedWorker
      \/ cachedWorker' = [cachedWorker EXCEPT ![m] =
                            [cachedWorker[m] EXCEPT !.toDelete = TRUE]]
  BY Zenon DEF Perform, Marked
<1>7. /\ cachedWorker' \in [Names -> Worker]
      /\ cachedWorker'[m].rv = cachedWorker[m].rv
      /\ \A n \in Names : n # m => cachedWorker'[n] = cachedWorker[n]
  <2> DEFINE k == [cachedWorker[m] EXCEPT !.toDelete = TRUE]
  <2>1. k \in Worker /\ k.rv = cachedWorker[m].rv
    BY Zenon, <1>1 DEF TypeOK, Worker
  <2> HIDE DEF k, m
  <2> QED
    BY Zenon, <1>1, <1>6, <2>1 DEF TypeOK, k
<1>8. kept' \subseteq Names
  BY Zenon, <1>1 DEF Perform, TypeOK
<1> QED
  BY Zenon, <1>5, <1>7, <1>8

(* Running a call, in its batch or after it.                                *)
LEMMA CallType ==
  ASSUME TypeOK, \/ \E c \in calls : RunCall(c) \/ CallFails(c)
                 \/ \E c \in late : RunLate(c) \/ DropLate(c)
  PROVE  TypeOK'
<1>1. ASSUME NEW c \in calls, RunCall(c) PROVE TypeOK'
  <2>1. c \in Call
    BY Zenon DEF TypeOK
  <2>2. Perform(c)
    BY Zenon, <1>1 DEF RunCall
  <2>3. /\ worker' \in [Names -> Worker] /\ cachedWorker' \in [Names -> Worker]
        /\ kept' \subseteq Names
    BY Zenon, <2>1, <2>2, PerformEffect
  <2>4. calls' \subseteq Call /\ failed' \in BOOLEAN
    BY Zenon, <1>1 DEF RunCall, TypeOK
  <2> QED
    BY Zenon, <1>1, <2>2, <2>3, <2>4 DEF RunCall, Perform, TypeOK
<1>2. ASSUME NEW c \in calls, CallFails(c) PROVE TypeOK'
  <2>1. cachedWorker' \in [Names -> Worker]
    <3>1. \A w \in Worker : [w EXCEPT !.toDelete = TRUE] \in Worker
      BY Zenon DEF Worker
    <3>2. c.name \in Names
      BY Zenon DEF TypeOK, Call
    <3> QED
      BY Zenon, <1>2, <3>1, <3>2 DEF CallFails, Marked, TypeOK
  <2>2. left' \in Scenario
    BY Zenon, <1>2, MayFailType DEF CallFails
  <2> QED
    BY Zenon, <1>2, <2>1, <2>2 DEF CallFails, TypeOK, store, history
<1>3. ASSUME NEW c \in late, RunLate(c) PROVE TypeOK'
  <2>1. c \in Call
    BY Zenon DEF TypeOK
  <2>2. Perform(c)
    BY Zenon, <1>3 DEF RunLate
  <2>3. /\ worker' \in [Names -> Worker] /\ cachedWorker' \in [Names -> Worker]
        /\ kept' \subseteq Names
    BY Zenon, <2>1, <2>2, PerformEffect
  <2> QED
    BY Zenon, <1>3, <2>2, <2>3 DEF RunLate, Perform, TypeOK, sync
<1>4. ASSUME NEW c \in late, DropLate(c) PROVE TypeOK'
  BY Zenon, <1>4 DEF DropLate, TypeOK, store, caches, sync
<1> QED
  BY Zenon, <1>1, <1>2, <1>3, <1>4

(* The other steps: the informers, the handler, the faults and the worker   *)
(* controller.                                                              *)
LEMMA OtherType ==
  ASSUME TypeOK,
         \/ JobEvent \/ AddFinalizerFails \/ ReleaseFails \/ Deadline \/ Restart
         \/ \E n \in Names : \/ DeleteSubObjFails(n) \/ WorkerStatus(n)
                             \/ WorkerEvent(n) \/ HandleSubObject(n)
                             \/ WorkerReleased(n)
  PROVE  TypeOK'
<1>g. \A w \in Worker : Gone(w) \in Worker /\ [w EXCEPT !.rv = @ + 1] \in Worker
  <2> TAKE w \in Worker
  <2>1. PICK v \in Nat : v = w.rv + 1
    BY DEF Worker
  <2> QED
    BY Zenon, <2>1 DEF Worker, Gone
<1>1. CASE JobEvent
  BY Zenon, <1>1 DEF JobEvent, TypeOK, store, sync, history
<1>2. CASE AddFinalizerFails \/ ReleaseFails
  <2>1. left' \in Scenario
    BY Zenon, <1>2, MayFailType DEF AddFinalizerFails, ReleaseFails
  <2> QED
    BY Zenon, <1>2, <2>1
    DEF AddFinalizerFails, ReleaseFails, Requeue, TypeOK, store, caches, history
<1>3. CASE Deadline
  <2>1. left' \in Scenario
    BY <1>3 DEF Deadline, TypeOK, Scenario
  <2> QED
    BY Zenon, <1>3, <2>1 DEF Deadline, TypeOK, store, caches, history
<1>4. CASE Restart
  <2>1. left' \in Scenario
    BY <1>4 DEF Restart, TypeOK, Scenario
  <2>2. queued' \in BOOLEAN
    BY Zenon, <1>4 DEF Restart, TypeOK, Job
  <2> QED
    BY Zenon, <1>4, <2>1, <2>2 DEF Restart, TypeOK, store, history
<1>5. ASSUME NEW n \in Names, DeleteSubObjFails(n) PROVE TypeOK'
  <2>1. left' \in Scenario
    BY Zenon, <1>5, MayFailType DEF DeleteSubObjFails
  <2> QED
    BY Zenon, <1>5, <2>1 DEF DeleteSubObjFails, TypeOK, store, sync
<1>6. ASSUME NEW n \in Names, WorkerStatus(n) PROVE TypeOK'
  <2>1. left' \in Scenario
    BY <1>6 DEF WorkerStatus, TypeOK, Scenario
  <2>2. worker' = [worker EXCEPT ![n] = [worker[n] EXCEPT !.rv = @ + 1]]
    BY Zenon, <1>6 DEF WorkerStatus
  <2>3. worker' \in [Names -> Worker]
    BY Zenon, <1>g, <2>2 DEF TypeOK
  <2> QED
    BY Zenon, <1>6, <2>1, <2>3 DEF WorkerStatus, TypeOK, caches, sync, history
<1>7. ASSUME NEW n \in Names, WorkerEvent(n) PROVE TypeOK'
  BY Zenon, <1>7 DEF WorkerEvent, TypeOK, store, sync, history
<1>8. ASSUME NEW n \in Names, HandleSubObject(n) PROVE TypeOK'
  <2>1. worker' \in [Names -> Worker] /\ queued' \in BOOLEAN
    BY Zenon, <1>g, <1>8 DEF HandleSubObject, TypeOK
  <2> QED
    BY Zenon, <1>8, <2>1 DEF HandleSubObject, TypeOK, sync, history
<1>9. ASSUME NEW n \in Names, WorkerReleased(n) PROVE TypeOK'
  <2>1. worker' \in [Names -> Worker]
    BY Zenon, <1>g, <1>9 DEF WorkerReleased, TypeOK
  <2> QED
    BY Zenon, <1>9, <2>1 DEF WorkerReleased, TypeOK, caches, sync, history
<1> QED
  BY Zenon, <1>1, <1>2, <1>3, <1>4, <1>5, <1>6, <1>7, <1>8, <1>9

(* Every step keeps the types.                                              *)
LEMMA NextType == ASSUME TypeOK, [Next]_vars PROVE TypeOK'
<1>1. CASE UNCHANGED vars
  BY Zenon, <1>1 DEF vars, store, caches, sync, history, TypeOK
<1> QED
  BY Zenon, <1>1, UserType, SyncType, CallType, OtherType DEF Next, Sync, Fault

-----------------------------------------------------------------------------
(* The invariant.                                                           *)

(* A step that leaves the store, the caches, the history and what the Sync  *)
(* holds alone, and only takes calls away or hands them over, keeps it.     *)
LEMMA QuietStep ==
  ASSUME IInv, TypeOK',
         UNCHANGED <<job, cachedJob, view, worker, cachedWorker, unwanted, kept>>,
         calls' \union late' \subseteq calls \union late
  PROVE  IInv'
<1>1. Ordered' /\ Fresh(job)' /\ Fresh(cachedJob)' /\ Fresh(view)'
  BY Zenon DEF IInv, Ordered, Fresh, Wants
<1>2. CallsOK'
  BY Zenon DEF IInv, CallsOK
<1> QED
  BY Zenon, <1>1, <1>2 DEF IInv, KeepsWanted

(* A write of the job with the next version keeps it: what the caches hold  *)
(* is older than a version that does not want a replica any more.           *)
LEMMA WriteJobStep ==
  ASSUME IInv, TypeOK', NEW j \in Job, j.rv = job.rv + 1, WriteJob(j),
         UNCHANGED <<cachedJob, worker, cachedWorker, calls, late>>,
         view' \in {view, cachedJob}
  PROVE  IInv'
<1>1. /\ job.rv \in Nat /\ cachedJob.rv \in Nat /\ view.rv \in Nat
      /\ view'.rv \in Nat /\ j.rv \in Nat
      /\ unwanted \in [Names -> Nat] /\ kept \subseteq Names
      /\ calls \union late \subseteq Call
  BY Zenon DEF IInv, TypeOK, Job
<1>2. job' = j /\ kept' = {n \in kept : Wants(j, n)}
  BY Zenon DEF WriteJob
<1>3. \A n \in Names : unwanted'[n] = IF Wants(j, n) THEN unwanted[n] ELSE j.rv
  BY Zenon DEF WriteJob
<1>4. view.rv <= view'.rv /\ view'.rv <= cachedJob.rv
  BY <1>1 DEF IInv, Ordered
<1>5. Ordered'
  BY <1>1, <1>2, <1>4 DEF IInv, Ordered
<1>6. Fresh(job)'
  BY <1>1, <1>2, <1>3 DEF Fresh
<1>7. \A k \in {cachedJob, view} :
        \A n \in Names : k.rv > unwanted'[n] => Wants(k, n)
  <2> TAKE k \in {cachedJob, view}
  <2> TAKE n \in Names
  <2>1. k.rv \in Nat /\ k.rv < j.rv
    BY <1>1 DEF IInv, Ordered
  <2>2. CASE Wants(j, n)
    BY Zenon, <1>3, <2>2 DEF IInv, Fresh
  <2>3. CASE ~Wants(j, n)
    BY <1>1, <1>3, <2>1, <2>3
  <2> QED
    BY Zenon, <2>2, <2>3
<1>8. Fresh(cachedJob)' /\ Fresh(view)'
  BY Zenon, <1>7 DEF Fresh, Wants
<1>9. CallsOK'
  BY <1>1, <1>2, <1>4 DEF IInv, CallsOK, Call
<1>10. \A n \in kept' : view'.rv > unwanted'[n]
  BY <1>1, <1>2, <1>3, <1>4 DEF IInv
<1>11. KeepsWanted'
  BY Zenon, <1>2 DEF IInv, KeepsWanted
<1> QED
  BY Zenon, <1>5, <1>6, <1>8, <1>9, <1>10, <1>11 DEF IInv

(* Newer objects in the job cache or the Sync's hands keep it.              *)
LEMMA NewViewStep ==
  ASSUME IInv, TypeOK',
         UNCHANGED <<job, worker, cachedWorker, unwanted, kept>>,
         calls' \union late' \subseteq calls \union late,
         view.rv <= view'.rv, view'.rv <= cachedJob'.rv, cachedJob'.rv <= job.rv,
         Fresh(cachedJob'), Fresh(view')
  PROVE  IInv'
<1>1. /\ view.rv \in Nat /\ view'.rv \in Nat /\ unwanted \in [Names -> Nat]
      /\ kept \subseteq Names /\ calls \union late \subseteq Call
  BY Zenon DEF IInv, TypeOK, Job
<1>2. Ordered' /\ Fresh(job)' /\ Fresh(cachedJob)' /\ Fresh(view)'
  BY Zenon DEF IInv, Ordered, Fresh, Wants
<1>3. CallsOK'
  BY <1>1 DEF IInv, CallsOK, Call
<1>4. \A n \in kept' : view'.rv > unwanted'[n]
  BY <1>1 DEF IInv
<1> QED
  BY Zenon, <1>2, <1>3, <1>4 DEF IInv, KeepsWanted

(* New versions of workers, in the store or in the cache, keep it as long   *)
(* as the kept ones are left alone.                                         *)
LEMMA WorkerStep ==
  ASSUME IInv, TypeOK',
         UNCHANGED <<job, cachedJob, view, unwanted, kept>>,
         calls' \union late' \subseteq calls \union late,
         \A n \in Names : /\ worker[n].rv <= worker'[n].rv
                          /\ cachedWorker'[n].rv <= worker'[n].rv,
         KeepsWanted'
  PROVE  IInv'
<1>1. calls \union late \subseteq Call
  BY Zenon DEF IInv, TypeOK
<1>2. \A n \in Names : worker[n].rv \in Nat /\ worker'[n].rv \in Nat
  BY Zenon DEF IInv, TypeOK, Worker
<1>3. Ordered' /\ Fresh(job)' /\ Fresh(cachedJob)' /\ Fresh(view)'
  BY Zenon DEF IInv, Ordered, Fresh, Wants
<1>4. CallsOK'
  <2> SUFFICES ASSUME NEW c \in calls' \union late'
               PROVE  /\ c.jobrv <= view.rv
                      /\ c.rv <= worker'[c.name].rv
                      /\ c.op = "release" /\ c.name \in kept
                           => c.rv < worker'[c.name].rv
    BY Zenon DEF CallsOK
  <2>1. c \in calls \union late /\ c.name \in Names /\ c.rv \in Nat
    BY Zenon, <1>1 DEF Call
  <2>2. /\ c.jobrv <= view.rv
        /\ c.rv <= worker[c.name].rv
        /\ c.op = "release" /\ c.name \in kept => c.rv < worker[c.name].rv
    BY Zenon, <2>1 DEF IInv, CallsOK
  <2> QED
    BY <1>2, <2>1, <2>2
<1> QED
  BY Zenon, <1>3, <1>4 DEF IInv

(* A kept replica is wanted by every job object the controller holds.       *)
LEMMA KeptWanted ==
  ASSUME IInv
  PROVE  \A n \in kept : n \in Names /\ Wants(view, n) /\ Wants(cachedJob, n)
<1> TAKE n \in kept
<1>1. /\ n \in Names /\ view.rv \in Nat /\ cachedJob.rv \in Nat
      /\ unwanted[n] \in Nat
  BY Zenon DEF IInv, TypeOK, Job
<1>2. view.rv > unwanted[n] /\ cachedJob.rv > unwanted[n]
  BY <1>1 DEF IInv, Ordered
<1> QED
  BY Zenon, <1>1, <1>2 DEF IInv, Fresh

(* The calls of a new batch release no kept worker.                         *)
LEMMA BatchStep ==
  ASSUME IInv, TypeOK', SyncSpec \/ DoDelete
  PROVE  IInv'
<1>1. UNCHANGED <<job, cachedJob, view, worker, cachedWorker, unwanted, kept, late>>
  BY Zenon DEF SyncSpec, DoDelete, store, caches, history
<1>2. \A c \in calls' : /\ c.jobrv = view.rv /\ c.name \in Names
                        /\ c.rv = cachedWorker[c.name].rv
                        /\ c.op = "release" => ~Wants(view, c.name)
  <2>1. CASE SyncSpec
    BY <2>1 DEF SyncSpec, SpecCalls, CallFor, Wants
  <2>2. CASE DoDelete
    BY <2>2 DEF DoDelete, ReleaseCalls, CallFor, Wants
  <2> QED
    BY Zenon, <2>1, <2>2
<1>3. CallsOK'
  <2> SUFFICES ASSUME NEW c \in calls' \union late
               PROVE  /\ c.jobrv <= view.rv
                      /\ c.rv <= worker[c.name].rv
                      /\ c.op = "release" /\ c.name \in kept
                           => c.rv < worker[c.name].rv
    BY Zenon, <1>1 DEF CallsOK
  <2>1. CASE c \in late
    BY Zenon, <2>1 DEF IInv, CallsOK
  <2>2. CASE c \in calls'
    <3>1. view.rv \in Nat
      BY Zenon DEF IInv, TypeOK, Job
    <3> QED
      BY <1>2, <2>2, <3>1, KeptWanted DEF IInv, Ordered
  <2> QED
    BY Zenon, <2>1, <2>2
<1>4. Ordered' /\ Fresh(job)' /\ Fresh(cachedJob)' /\ Fresh(view)' /\ KeepsWanted'
  BY Zenon, <1>1 DEF IInv, Ordered, Fresh, Wants, KeepsWanted
<1> QED
  BY Zenon, <1>1, <1>3, <1>4 DEF IInv

(* A call, in time or late: a release under way for a kept worker does not  *)
(* land, and a worker that is made is newer than any call for its name.     *)
LEMMA PerformStep ==
  ASSUME IInv, TypeOK', NEW c \in calls \union late, Perform(c),
         view' = view, calls' \union late' \subseteq calls \union late
  PROVE  IInv'
<1> DEFINE m == c.name
<1>1. /\ c \in Call /\ TypeOK /\ m \in Names /\ c.rv \in Nat /\ c.jobrv \in Nat
      /\ kept \subseteq Names
  BY Zenon DEF IInv, TypeOK, Call
<1>2. /\ UNCHANGED <<job, cachedJob, unwanted>>
      /\ kept' = IF c.op = "create" /\ Lands(c) /\ unwanted[m] < c.jobrv
                   THEN kept \union {m} ELSE kept
  BY Zenon DEF Perform
<1>3. /\ \A n \in Names : n # m =>
           worker'[n] = worker[n] /\ cachedWorker'[n] = cachedWorker[n]
      /\ worker[m].rv <= worker'[m].rv
      /\ cachedWorker'[m].rv = cachedWorker[m].rv
  BY Zenon, <1>1, PerformEffect
<1>4. \A n \in Names : /\ worker[n].rv \in Nat /\ worker'[n].rv \in Nat
                       /\ cachedWorker[n].rv \in Nat
                       /\ worker[n].rv <= worker'[n].rv
                       /\ cachedWorker'[n].rv <= worker'[n].rv
  <2>1. \A n \in Names : /\ worker[n].rv \in Nat /\ worker'[n].rv \in Nat
                         /\ cachedWorker[n].rv \in Nat
    BY Zenon DEF IInv, TypeOK, Worker
  <2>2. \A n \in Names : cachedWorker[n].rv <= worker[n].rv
    BY Zenon DEF IInv, Ordered
  <2> QED
    BY <1>3, <2>1, <2>2
<1>5. /\ c.jobrv <= view.rv /\ c.rv <= worker[m].rv
      /\ c.op = "release" /\ m \in kept => c.rv < worker[m].rv
  BY Zenon DEF IInv, CallsOK
<1>6. CASE Lands(c) /\ c.op # "release"
  <2>1. worker'[m] = Written(c)
    BY Zenon, <1>1, <1>6 DEF Perform, TypeOK
  <2>2. /\ worker'[m].there /\ ~worker'[m].toDelete
        /\ worker'[m].rv = worker[m].rv + 1
    BY <1>6, <2>1 DEF Written
  <2>3. \A n \in kept' : n \in kept \/ n = m
    BY Zenon, <1>2
  <2>4. KeepsWanted'
    <3> SUFFICES ASSUME NEW n \in kept'
                 PROVE  /\ worker'[n].there /\ ~worker'[n].toDelete
                        /\ cachedWorker'[n].rv = worker'[n].rv
                             => ~cachedWorker'[n].toDelete
      BY Zenon DEF KeepsWanted
    <3>1. CASE n = m
      <4>1. cachedWorker'[m].rv # worker'[m].rv
        <5>1. cachedWorker[m].rv <= worker[m].rv
          BY Zenon, <1>1 DEF IInv, Ordered
        <5> QED
          BY <1>1, <1>3, <1>4, <2>2, <5>1
      <4> QED
        BY Zenon, <2>2, <3>1, <4>1
    <3>2. CASE n # m
      BY Zenon, <1>1, <1>3, <2>3, <3>2 DEF IInv, KeepsWanted
    <3> QED
      BY Zenon, <3>1, <3>2
  <2>5. \A n \in kept' : view'.rv > unwanted'[n]
    <3>1. /\ view.rv \in Nat /\ unwanted[m] \in Nat
          /\ \A n \in kept : view.rv > unwanted[n]
      BY Zenon, <1>1 DEF IInv, TypeOK, Job
    <3> QED
      BY <1>1, <1>2, <1>5, <3>1
  <2>6. CallsOK'
    <3> SUFFICES ASSUME NEW d \in calls \union late
                 PROVE  /\ d.jobrv <= view.rv
                        /\ d.rv <= worker'[d.name].rv
                        /\ d.op = "release" /\ d.name \in kept'
                             => d.rv < worker'[d.name].rv
      BY Zenon DEF CallsOK
    <3>1. d.name \in Names /\ d.rv \in Nat
      BY Zenon DEF IInv, TypeOK, Call
    <3>2. /\ d.jobrv <= view.rv /\ d.rv <= worker[d.name].rv
          /\ d.op = "release" /\ d.name \in kept => d.rv < worker[d.name].rv
      BY Zenon DEF IInv, CallsOK
    <3>3. CASE d.name = m
      BY <1>1, <1>4, <2>2, <3>1, <3>2, <3>3
    <3>4. CASE d.name # m
      BY Zenon, <1>3, <2>3, <3>1, <3>2, <3>4
    <3> QED
      BY Zenon, <3>3, <3>4
  <2>7. Ordered' /\ Fresh(job)' /\ Fresh(cachedJob)' /\ Fresh(view)'
    BY Zenon, <1>2, <1>4 DEF IInv, Ordered, Fresh, Wants
  <2> QED
    BY Zenon, <2>4, <2>5, <2>6, <2>7 DEF IInv
<1>7. CASE ~(Lands(c) /\ c.op # "release")
  <2>1. kept' = kept
    BY Zenon, <1>2, <1>7
  <2>2. KeepsWanted'
    <3> SUFFICES ASSUME NEW n \in kept
                 PROVE  /\ worker'[n].there /\ ~worker'[n].toDelete
                        /\ cachedWorker'[n].rv = worker'[n].rv
                             => ~cachedWorker'[n].toDelete
      BY Zenon, <2>1 DEF KeepsWanted
    <3>1. /\ worker[n].there /\ ~worker[n].toDelete
          /\ cachedWorker[n].rv = worker[n].rv => ~cachedWorker[n].toDelete
      BY Zenon DEF IInv, KeepsWanted
    <3>2. CASE n # m
      BY Zenon, <1>1, <1>3, <3>1, <3>2
    <3>3. CASE n = m
      <4>1. ~Lands(c)
        BY <1>1, <1>4, <1>5, <1>7, <3>3 DEF Lands
      <4>2. worker' = worker
        BY Zenon, <4>1 DEF Perform
      <4>3. cachedWorker[m].rv = worker[m].rv => cachedWorker' = cachedWorker
        BY <1>1, <1>4, <1>5, <3>3 DEF Perform, Marked
      <4> QED
        BY Zenon, <1>3, <3>1, <3>3, <4>2, <4>3
    <3> QED
      BY Zenon, <3>2, <3>3
  <2> QED
    BY Zenon, <1>2, <1>4, <2>1, <2>2, WorkerStep
<1> QED
  BY Zenon, <1>6, <1>7

(* The user's writes.                                                       *)
LEMMA UserStep == ASSUME IInv, TypeOK', User PROVE IInv'
<1>1. TypeOK
  BY Zenon DEF IInv
<1>2. ASSUME NEW p \in left.plans, UpdateCarbonJob(p) PROVE IInv'
  <2> DEFINE j == [job EXCEPT !.plan = p, !.rv = @ + 1]
  <2>1. p \in [Names -> Nat]
    BY Zenon, <1>1, PlansAssumption DEF TypeOK, Scenario
  <2>2. j \in Job /\ j.rv = job.rv + 1
    BY Zenon, <1>1, <2>1, JobWrites DEF TypeOK
  <2>3. /\ WriteJob(j) /\ view' = view
        /\ UNCHANGED <<cachedJob, worker, cachedWorker, calls, late>>
    BY Zenon, <1>2 DEF UpdateCarbonJob, caches, sync
  <2> HIDE DEF j
  <2> QED
    BY Zenon, <2>2, <2>3, WriteJobStep
<1>3. CASE DeleteReads
  BY Zenon, <1>3, QuietStep DEF DeleteReads, store, caches, sync, history
<1>4. CASE Delete
  <2> DEFINE j == IF snapshot.final
                    THEN [job EXCEPT !.deleting = TRUE, !.rv = @ + 1]
                    ELSE Gone(job)
  <2>1. j \in Job /\ j.rv = job.rv + 1
    BY Zenon, <1>1, JobWrites DEF TypeOK
  <2>2. view' = view /\ UNCHANGED <<cachedJob, worker, cachedWorker, calls, late>>
    BY Zenon, <1>4 DEF Delete, caches, sync
  <2>3. CASE WriteJob(j)
    <3> HIDE DEF j
    <3> QED
      BY Zenon, <2>1, <2>2, <2>3, WriteJobStep
  <2>4. CASE UNCHANGED <<job, left, unwanted, kept>>
    BY Zenon, <2>2, <2>4, QuietStep
  <2> QED
    BY Zenon, <1>4, <2>3, <2>4 DEF Delete
<1> QED
  BY Zenon, <1>2, <1>3, <1>4 DEF User

(* The steps of a Sync that write the job or take a job object.             *)
LEMMA SyncStep ==
  ASSUME IInv, TypeOK', \/ SyncNothing \/ SyncBegin \/ AddFinalizer
                        \/ ClearFinalizer \/ RemoveJob \/ SyncEnd
  PROVE  IInv'
<1>1. TypeOK
  BY Zenon DEF IInv
<1>2. CASE SyncNothing \/ SyncEnd
  BY Zenon, <1>2, QuietStep DEF SyncNothing, SyncEnd, store, caches, sync, history
<1>3. CASE SyncBegin
  <2> DEFINE j == [cachedJob EXCEPT !.final = TRUE]
  <2>1. /\ j \in Job /\ j.rv = cachedJob.rv
        /\ \A n \in Names : Wants(j, n) <=> Wants(cachedJob, n)
    BY Zenon, <1>1 DEF TypeOK, Job, Wants
  <2>2. /\ cachedJob' = j /\ view' = j
        /\ UNCHANGED <<job, worker, cachedWorker, unwanted, kept, calls, late>>
    BY Zenon, <1>3 DEF SyncBegin, store, history
  <2> HIDE DEF j
  <2>3. Fresh(cachedJob') /\ Fresh(view')
    BY Zenon, <2>1, <2>2 DEF IInv, Fresh
  <2>4. cachedJob.rv \in Nat /\ view.rv <= cachedJob.rv /\ cachedJob.rv <= job.rv
    BY Zenon, <1>1 DEF IInv, Ordered, TypeOK, Job
  <2> QED
    BY <2>1, <2>2, <2>3, <2>4, NewViewStep
<1>4. CASE AddFinalizer
  <2> DEFINE j == [job EXCEPT !.final = TRUE, !.rv = @ + 1]
  <2>1. j \in Job /\ j.rv = job.rv + 1
    BY Zenon, <1>1, JobWrites DEF TypeOK
  <2>2. UNCHANGED <<cachedJob, worker, cachedWorker, calls, late>>
    BY Zenon, <1>4 DEF AddFinalizer, Requeue, caches
  <2>3. \/ WriteJob(j) /\ view' \in {view, cachedJob}
        \/ UNCHANGED <<job, unwanted, kept>> /\ view' = view
    BY Zenon, <1>4 DEF AddFinalizer, Requeue
  <2> HIDE DEF j
  <2> QED
    BY Zenon, <2>1, <2>2, <2>3, WriteJobStep, QuietStep
<1>5. CASE ClearFinalizer
  <2> DEFINE j == [job EXCEPT !.final = FALSE, !.rv = @ + 1]
  <2>1. j \in Job /\ j.rv = job.rv + 1
    BY Zenon, <1>1, JobWrites DEF TypeOK
  <2>2. view' = view /\ UNCHANGED <<cachedJob, worker, cachedWorker, calls, late>>
    BY Zenon, <1>5 DEF ClearFinalizer, Requeue, caches
  <2>3. WriteJob(j) \/ UNCHANGED <<job, unwanted, kept>>
    BY Zenon, <1>5 DEF ClearFinalizer
  <2> HIDE DEF j
  <2> QED
    BY Zenon, <2>1, <2>2, <2>3, WriteJobStep, QuietStep
<1>6. CASE RemoveJob
  <2> DEFINE j == Gone(job)
  <2>1. j \in Job /\ j.rv = job.rv + 1
    BY Zenon, <1>1, JobWrites DEF TypeOK
  <2>2. view' = view /\ UNCHANGED <<cachedJob, worker, cachedWorker, calls, late>>
    BY Zenon, <1>6 DEF RemoveJob, caches
  <2>3. WriteJob(j) \/ UNCHANGED <<job, unwanted, kept>>
    BY Zenon, <1>6 DEF RemoveJob
  <2> HIDE DEF j
  <2> QED
    BY Zenon, <2>1, <2>2, <2>3, WriteJobStep, QuietStep
<1> QED
  BY Zenon, <1>2, <1>3, <1>4, <1>5, <1>6

(* The calls of a batch.                                                    *)
LEMMA CallStep ==
  ASSUME IInv, TypeOK', \/ \E c \in calls : RunCall(c) \/ CallFails(c)
                        \/ \E c \in late : RunLate(c) \/ DropLate(c)
  PROVE  IInv'
<1>1. ASSUME NEW c \in calls, RunCall(c) PROVE IInv'
  BY Zenon, <1>1, PerformStep DEF RunCall
<1>2. ASSUME NEW c \in calls, CallFails(c) PROVE IInv'
  <2> DEFINE m == c.name
             k == [cachedWorker[m] EXCEPT !.toDelete = TRUE]
  <2>1. /\ m \in Names /\ c.rv \in Nat
        /\ \A n \in Names : worker[n].rv \in Nat /\ cachedWorker[n].rv \in Nat
        /\ \A n \in Names : cachedWorker[n].rv <= worker[n].rv
        /\ c.op = "release" /\ m \in kept => c.rv < worker[m].rv
    BY Zenon DEF IInv, TypeOK, Call, Worker, Ordered, CallsOK
  <2>2. k.rv = cachedWorker[m].rv
    BY <2>1 DEF IInv, TypeOK, Worker
  <2>3. UNCHANGED <<job, cachedJob, view, worker, unwanted, kept>>
        /\ calls' \union late' \subseteq calls \union late
    BY Zenon, <1>2 DEF CallFails, store, history
  <2>4. \/ cachedWorker' = cachedWorker
        \/ /\ c.op = "release" /\ cachedWorker[m].rv = c.rv
           /\ cachedWorker' = [cachedWorker EXCEPT ![m] = k]
    BY Zenon, <1>2 DEF CallFails, Marked
  <2> HIDE DEF m, k
  <2>5. \A n \in Names : /\ cachedWorker'[n].rv = cachedWorker[n].rv
                         /\ \/ cachedWorker'[n] = cachedWorker[n]
                            \/ n = m /\ c.op = "release" /\ cachedWorker[m].rv = c.rv
    <3>1. DOMAIN cachedWorker = Names
      BY Zenon DEF IInv, TypeOK
    <3> QED
      BY <2>1, <2>2, <2>4, <3>1
  <2>6. KeepsWanted'
    <3>1. kept \subseteq Names /\ KeepsWanted
      BY Zenon DEF IInv, TypeOK
    <3> QED
      BY <2>1, <2>3, <2>5, <3>1 DEF KeepsWanted
  <2>7. \A n \in Names : /\ worker[n].rv <= worker'[n].rv
                          /\ cachedWorker'[n].rv <= worker'[n].rv
    BY <2>1, <2>3, <2>5
  <2> QED
    BY Zenon, <2>3, <2>6, <2>7, WorkerStep
<1>3. ASSUME NEW c \in late, RunLate(c) PROVE IInv'
  BY Zenon, <1>3, PerformStep DEF RunLate, sync
<1>4. ASSUME NEW c \in late, DropLate(c) PROVE IInv'
  BY Zenon, <1>4, QuietStep DEF DropLate, store, caches, sync
<1> QED
  BY Zenon, <1>1, <1>2, <1>3, <1>4

(* The informers, the handler, the faults and the worker controller.  The   *)
(* handler takes no kept worker for garbage: the cache holds its owner.     *)
LEMMA OtherStep ==
  ASSUME IInv, TypeOK',
         \/ JobEvent \/ AddFinalizerFails \/ ReleaseFails \/ Deadline \/ Restart
         \/ \E n \in Names : \/ DeleteSubObjFails(n) \/ WorkerStatus(n)
                             \/ WorkerEvent(n) \/ HandleSubObject(n)
                             \/ WorkerReleased(n)
  PROVE  IInv'
<1>0. /\ TypeOK /\ KeepsWanted /\ kept \subseteq Names
      /\ worker \in [Names -> Worker] /\ cachedWorker \in [Names -> Worker]
  BY Zenon DEF IInv, TypeOK
<1>1. /\ TypeOK /\ kept \subseteq Names
      /\ job.rv \in Nat /\ cachedJob.rv \in Nat /\ view.rv \in Nat
      /\ view.rv <= cachedJob.rv /\ cachedJob.rv <= job.rv
      /\ \A n \in Names : /\ worker[n].rv \in Nat /\ cachedWorker[n].rv \in Nat
                          /\ cachedWorker[n].rv <= worker[n].rv
  BY Zenon DEF IInv, TypeOK, Ordered, Job, Worker
<1>2. \A n \in Names : Gone(worker[n]).rv = worker[n].rv + 1
  BY <1>1 DEF Gone, TypeOK, Worker
<1>3. CASE JobEvent
  <2>1. /\ cachedJob' = job /\ view' = view
        /\ UNCHANGED <<job, worker, cachedWorker, unwanted, kept, calls, late>>
    BY Zenon, <1>3 DEF JobEvent, store, sync, history
  <2>2. Fresh(cachedJob') /\ Fresh(view')
    BY Zenon, <2>1 DEF IInv, Fresh, Wants
  <2> QED
    BY <1>1, <2>1, <2>2, NewViewStep
<1>4. CASE AddFinalizerFails \/ ReleaseFails
  BY Zenon, <1>4, QuietStep
  DEF AddFinalizerFails, ReleaseFails, Requeue, store, caches, history
<1>5. CASE Deadline
  BY Zenon, <1>5, QuietStep DEF Deadline, store, caches, history
<1>6. CASE Restart
  <2>1. /\ cachedJob' = job /\ view' = job /\ cachedWorker' = worker
        /\ calls' = {} /\ late' = {}
        /\ UNCHANGED <<job, worker, unwanted, kept>>
    BY Zenon, <1>6 DEF Restart, store, history
  <2>2. Ordered' /\ CallsOK'
    BY <1>1, <2>1 DEF Ordered, CallsOK
  <2>3. Fresh(job)' /\ Fresh(cachedJob)' /\ Fresh(view)'
    BY Zenon, <2>1 DEF IInv, Fresh, Wants
  <2>4. \A n \in kept' : view'.rv > unwanted'[n]
    <3>1. \A n \in kept : unwanted[n] \in Nat /\ view.rv > unwanted[n]
      BY Zenon, <1>1 DEF IInv, TypeOK
    <3> QED
      BY <1>1, <2>1, <3>1
  <2>5. KeepsWanted'
    BY Zenon, <2>1 DEF IInv, KeepsWanted
  <2> QED
    BY Zenon, <2>2, <2>3, <2>4, <2>5 DEF IInv
<1>7. ASSUME NEW n \in Names, DeleteSubObjFails(n) PROVE IInv'
  BY Zenon, <1>7, QuietStep DEF DeleteSubObjFails, store, sync
<1>8. ASSUME NEW n \in Names, WorkerStatus(n) PROVE IInv'
  <2> DEFINE w == [worker[n] EXCEPT !.rv = @ + 1]
  <2>1. /\ w.rv = worker[n].rv + 1 /\ w.there = worker[n].there
        /\ w.toDelete = worker[n].toDelete
    <3>1. worker[n] \in Worker
      BY Zenon, <1>0
    <3> QED
      BY ZenonT(30), <3>1 DEF Worker
  <2>2. /\ worker' = [worker EXCEPT ![n] = w]
        /\ UNCHANGED <<job, cachedJob, view, unwanted, kept, cachedWorker, calls, late>>
    BY Zenon, <1>8 DEF WorkerStatus, caches, sync, history
  <2> HIDE DEF w
  <2>3. \A m \in Names : worker'[m] = IF m = n THEN w ELSE worker[m]
    BY Zenon, <1>0, <2>2
  <2>4. KeepsWanted'
    <3>1. \A m \in Names : cachedWorker[m].rv <= worker[m].rv /\ worker[m].rv \in Nat
      BY Zenon, <1>1
    <3>2. cachedWorker' = cachedWorker /\ kept' = kept
      BY Zenon, <2>2
    <3> QED
      BY <1>0, <2>1, <2>3, <3>1, <3>2 DEF KeepsWanted
  <2>5. \A m \in Names : /\ worker[m].rv <= worker'[m].rv
                          /\ cachedWorker'[m].rv <= worker'[m].rv
    BY <1>1, <2>1, <2>2, <2>3
  <2> QED
    BY Zenon, <2>2, <2>4, <2>5, WorkerStep
<1>9. ASSUME NEW n \in Names, WorkerEvent(n) PROVE IInv'
  <2>1. /\ cachedWorker' = [cachedWorker EXCEPT ![n] = worker[n]]
        /\ UNCHANGED <<job, cachedJob, view, unwanted, kept, worker, calls, late>>
    BY Zenon, <1>9 DEF WorkerEvent, store, sync, history
  <2>2. \A m \in Names :
          cachedWorker'[m] = IF m = n THEN worker[m] ELSE cachedWorker[m]
    BY Zenon, <1>0, <2>1
  <2>3. KeepsWanted'
    BY Zenon, <1>0, <2>1, <2>2 DEF KeepsWanted
  <2>4. \A m \in Names : /\ worker[m].rv <= worker'[m].rv
                          /\ cachedWorker'[m].rv <= worker'[m].rv
    BY <1>1, <2>1, <2>2
  <2> QED
    BY Zenon, <2>1, <2>3, <2>4, WorkerStep
<1>10. ASSUME NEW n \in Names, n \notin kept,
              worker' = [worker EXCEPT ![n] = Gone(worker[n])],
              UNCHANGED <<job, cachedJob, view, unwanted, kept, cachedWorker,
                          calls, late>>
       PROVE  IInv'
  <2>1. \A m \in Names : worker'[m] = IF m = n THEN Gone(worker[n]) ELSE worker[m]
    BY Zenon, <1>0, <1>10
  <2>2. KeepsWanted'
    BY Zenon, <1>0, <1>10, <2>1 DEF KeepsWanted
  <2>3. \A m \in Names : /\ worker[m].rv <= worker'[m].rv
                          /\ cachedWorker'[m].rv <= worker'[m].rv
    BY <1>1, <1>2, <1>10, <2>1
  <2> QED
    BY Zenon, <1>10, <2>2, <2>3, WorkerStep
<1>11. ASSUME NEW n \in Names, HandleSubObject(n) PROVE IInv'
  <2>1. UNCHANGED <<job, cachedJob, view, unwanted, kept, cachedWorker, calls, late>>
    BY Zenon, <1>11 DEF HandleSubObject, sync, history
  <2>2. CASE UNCHANGED worker
    BY Zenon, <2>1, <2>2, QuietStep
  <2>3. CASE ~cachedJob.there /\ worker' = [worker EXCEPT ![n] = Gone(worker[n])]
    BY Zenon, <1>10, <2>1, <2>3, KeptWanted DEF Wants
  <2> QED
    BY Zenon, <1>11, <2>2, <2>3 DEF HandleSubObject
<1>12. ASSUME NEW n \in Names, WorkerReleased(n) PROVE IInv'
  <2>1. /\ UNCHANGED <<job, cachedJob, view, unwanted, kept, cachedWorker, calls, late>>
        /\ worker' = [worker EXCEPT ![n] = Gone(worker[n])]
    BY Zenon, <1>12 DEF WorkerReleased, caches, sync, history
  <2>2. n \notin kept
    BY Zenon, <1>12 DEF WorkerReleased, IInv, KeepsWanted
  <2> QED
    BY Zenon, <1>10, <2>1, <2>2
<1> QED
  BY Zenon, <1>3, <1>4, <1>5, <1>6, <1>7, <1>8, <1>9, <1>11, <1>12

(* Every step keeps the invariant.                                          *)
LEMMA NextIInv == ASSUME IInv, [Next]_vars PROVE IInv'
<1>1. TypeOK'
  BY Zenon, NextType DEF IInv
<1>2. CASE UNCHANGED vars
  BY Zenon, <1>1, <1>2, QuietStep DEF vars, store, caches, sync, history
<1> QED
  BY Zenon, <1>1, <1>2, UserStep, SyncStep, BatchStep, CallStep, OtherStep, PerformStep
  DEF Next, Sync, Fault

-----------------------------------------------------------------------------
(* The controller never releases or deletes a worker whose template has     *)
(* been in the plan since before the worker was made, whatever its caches   *)
(* show, whichever calls fail or outlive their batch and whenever it        *)
(* restarts (carbonjob Sync, BatchDoWorkerNodes, handleSubObject).          *)
THEOREM WantedKept == Spec => []KeepsWanted
<1>1. Spec => []IInv
  BY InitIInv, NextIInv, PTL DEF Spec, Safe
<1>2. IInv => KeepsWanted
  BY Zenon DEF IInv
<1> QED
  BY <1>1, <1>2, PTL

(* The state of the job, its caches, its calls and the work queue keeps its *)
(* type.                                                                    *)
THEOREM TypeCorrect == Spec => []TypeOK
<1>1. Init => TypeOK
  BY Zenon, InitIInv DEF IInv
<1> QED
  BY <1>1, NextType, PTL DEF Spec, Safe

-----------------------------------------------------------------------------
(***************************************************************************)
(* ReleasedFirst is about the informers that keep up.  What makes it         *)
(* inductive: a cached worker of the current version is there when the       *)
(* worker is (Matched), a delete request under way finds a job nobody else   *)
(* is deleting (Requested), no call outlives its batch (NothingLate), and so *)
(* what a Sync has listed stays true until it lets the job go (Listed).      *)
(***************************************************************************)
Matched ==
  \A n \in Names : cachedWorker[n].rv = worker[n].rv
                     => (worker[n].there <=> cachedWorker[n].there)

Requested == snapshot.there /\ job.there => ~job.deleting

NothingLate == left.prompt => left.deadlines = 0 /\ late = {}

Listed ==
  left.prompt =>
    /\ calls # {} => pc = "wait"
    /\ pc \in {"finalizer", "list"} =>
         \A n \in Names : worker[n].there => cachedWorker[n].there
    /\ pc \in {"clear", "remove"} => \A n \in Names : ~worker[n].there

PInv == IInv /\ Matched /\ Requested /\ NothingLate /\ Listed

(* What a step may do to worker n and to its copy in the cache: a write      *)
(* raises the version, the cache is left or catches up, and only a call      *)
(* makes a worker.                                                           *)
Moves(n) ==
  /\ \/ worker'[n].there = worker[n].there /\ worker'[n].rv = worker[n].rv
     \/ /\ worker'[n].rv > worker[n].rv
        /\ cachedWorker'[n].rv = cachedWorker[n].rv
  /\ \/ /\ cachedWorker'[n].there = cachedWorker[n].there
        /\ cachedWorker'[n].rv = cachedWorker[n].rv
     \/ cachedWorker'[n] = worker'[n]
  /\ worker'[n].there /\ ~worker[n].there => calls \union late # {}

(* The copy a release marks keeps its version.                               *)
LEMMA MarkedMoves ==
  ASSUME TypeOK, NEW c \in Call, NEW n \in Names, cachedWorker' = Marked(c)
  PROVE  /\ cachedWorker'[n].there = cachedWorker[n].there
         /\ cachedWorker'[n].rv = cachedWorker[n].rv
<1> DEFINE m == c.name
           k == [cachedWorker[m] EXCEPT !.toDelete = TRUE]
<1>1. m \in Names /\ cachedWorker \in [Names -> Worker]
  BY Zenon DEF TypeOK, Call
<1>2. k.there = cachedWorker[m].there /\ k.rv = cachedWorker[m].rv
  BY Zenon, <1>1 DEF Worker
<1>3. cachedWorker' = cachedWorker \/ cachedWorker' = [cachedWorker EXCEPT ![m] = k]
  BY Zenon DEF Marked
<1> HIDE DEF k, m
<1> QED
  BY Zenon, <1>1, <1>2, <1>3

LEMMA PerformMoves ==
  ASSUME TypeOK, NEW c \in calls \union late, Perform(c), NEW n \in Names
  PROVE  Moves(n)
<1> DEFINE m == c.name
           w == worker[m]
<1>1. /\ c \in Call /\ m \in Names /\ w \in Worker /\ w.rv \in Nat
      /\ worker \in [Names -> Worker]
  BY Zenon DEF TypeOK, Call, Worker
<1>2. /\ cachedWorker'[n].there = cachedWorker[n].there
      /\ cachedWorker'[n].rv = cachedWorker[n].rv
  BY Zenon, <1>1, MarkedMoves DEF Perform
<1>3. CASE n # m \/ ~Lands(c)
  BY Zenon, <1>1, <1>2, <1>3 DEF Perform, Moves
<1>4. CASE n = m /\ Lands(c)
  <2>1. worker'[m] = Written(c)
    BY Zenon, <1>1, <1>4 DEF Perform
  <2>2. CASE c.op # "release"
    <3>1. worker'[m].rv = w.rv + 1
      BY <2>1, <2>2 DEF Written
    <3> QED
      BY <1>1, <1>2, <1>4, <3>1 DEF Moves
  <2>3. CASE c.op = "release"
    <3> DEFINE u == IF w.toDelete THEN w.rv ELSE w.rv + 1
    <3>1. worker'[m] = [w EXCEPT !.toDelete = TRUE, !.rv = u]
      BY Zenon, <2>1, <2>3 DEF Written
    <3>2. u = w.rv \/ u > w.rv
      BY <1>1
    <3> HIDE DEF u
    <3>3. worker'[m].there = w.there /\ worker'[m].rv = u
      BY Zenon, <1>1, <3>1 DEF Worker
    <3> QED
      BY Zenon, <1>1, <1>2, <1>4, <3>2, <3>3 DEF Moves
  <2> QED
    BY Zenon, <2>2, <2>3
<1> QED
  BY Zenon, <1>3, <1>4

LEMMA NextMoves ==
  ASSUME TypeOK, [Next]_vars, NEW n \in Names
  PROVE  Moves(n)
<1>0. /\ worker \in [Names -> Worker] /\ cachedWorker \in [Names -> Worker]
      /\ calls \subseteq Call /\ late \subseteq Call
      /\ \A m \in Names : worker[m].rv \in Nat
  BY Zenon DEF TypeOK, Worker
<1>1. ASSUME UNCHANGED <<worker, cachedWorker>> PROVE Moves(n)
  BY Zenon, <1>1 DEF Moves
<1>2. CASE User \/ JobEvent \/ UNCHANGED vars
  BY Zenon, <1>1, <1>2 DEF User, UpdateCarbonJob, DeleteReads, Delete, JobEvent, vars, store, caches
<1>3. CASE SyncNothing \/ SyncBegin \/ AddFinalizer \/ SyncSpec \/ DoDelete
  BY Zenon, <1>1, <1>3 DEF SyncNothing, SyncBegin, AddFinalizer, SyncSpec, DoDelete, store, caches
<1>4. CASE ClearFinalizer \/ RemoveJob \/ SyncEnd
  BY Zenon, <1>1, <1>4 DEF ClearFinalizer, RemoveJob, SyncEnd, store, caches
<1>5. CASE AddFinalizerFails \/ ReleaseFails \/ Deadline \/ (\E c \in late : DropLate(c))
  BY Zenon, <1>1, <1>5 DEF AddFinalizerFails, ReleaseFails, Deadline, DropLate, store, caches
<1>6. CASE \E m \in Names : DeleteSubObjFails(m)
  BY Zenon, <1>1, <1>6 DEF DeleteSubObjFails, store
<1>7. CASE \E c \in calls : RunCall(c)
  BY Zenon, <1>7, PerformMoves DEF RunCall
<1>8. CASE \E c \in late : RunLate(c)
  BY Zenon, <1>8, PerformMoves DEF RunLate
<1>9. CASE \E c \in calls : CallFails(c)
  BY Zenon, <1>0, <1>9, MarkedMoves DEF CallFails, store, Moves
<1>10. CASE Restart
  BY Zenon, <1>10 DEF Restart, store, Moves
<1>11. ASSUME NEW m \in Names, WorkerEvent(m) PROVE Moves(n)
  BY Zenon, <1>0, <1>11 DEF WorkerEvent, store, Moves
<1>12. ASSUME NEW m \in Names, worker' = [worker EXCEPT ![m] = Gone(worker[m])],
              UNCHANGED cachedWorker
       PROVE  Moves(n)
  <2>1. Gone(worker[m]).rv = worker[m].rv + 1 /\ ~Gone(worker[m]).there
    BY Zenon, <1>0 DEF Gone, Worker
  <2> QED
    BY <1>0, <1>12, <2>1 DEF Moves
<1>13. CASE \E m \in Names : HandleSubObject(m)
  BY Zenon, <1>1, <1>12, <1>13 DEF HandleSubObject
<1>14. CASE \E m \in Names : WorkerReleased(m)
  BY Zenon, <1>12, <1>14 DEF WorkerReleased, caches
<1>15. ASSUME NEW m \in Names, WorkerStatus(m) PROVE Moves(n)
  <2> DEFINE w == [worker[m] EXCEPT !.rv = @ + 1]
  <2>1. w.rv = worker[m].rv + 1 /\ w.there = worker[m].there
    BY Zenon, <1>0 DEF Worker
  <2>2. worker' = [worker EXCEPT ![m] = w] /\ UNCHANGED cachedWorker
    BY Zenon, <1>15 DEF WorkerStatus, caches
  <2> HIDE DEF w
  <2> QED
    BY <1>0, <2>1, <2>2 DEF Moves
<1> QED
  BY Zenon, <1>2, <1>3, <1>4, <1>5, <1>6, <1>7, <1>8, <1>9, <1>10, <1>11, <1>13, <1>14, <1>15
  DEF Next, Sync, Fault

LEMMA NextMatched == ASSUME PInv, [Next]_vars PROVE Matched'
<1> SUFFICES ASSUME NEW n \in Names, cachedWorker'[n].rv = worker'[n].rv
             PROVE  worker'[n].there <=> cachedWorker'[n].there
  BY Zenon DEF Matched
<1>1. TypeOK /\ TypeOK'
  BY Zenon, NextType DEF PInv, IInv
<1>2. Moves(n)
  BY Zenon, <1>1, NextMoves
<1>3. /\ worker[n].rv \in Nat /\ worker'[n].rv \in Nat /\ cachedWorker[n].rv \in Nat
      /\ cachedWorker[n].rv <= worker[n].rv
  BY Zenon, <1>1 DEF PInv, IInv, Ordered, TypeOK, Worker
<1>4. cachedWorker[n].rv = worker[n].rv => (worker[n].there <=> cachedWorker[n].there)
  BY Zenon DEF PInv, Matched
<1>5. CASE cachedWorker'[n] = worker'[n]
  BY Zenon, <1>5
<1>6. CASE cachedWorker'[n] # worker'[n]
  BY <1>2, <1>3, <1>4, <1>6 DEF Moves
<1> QED
  BY Zenon, <1>5, <1>6

LEMMA NextRequested == ASSUME PInv, [Next]_vars PROVE Requested'
<1>1. job \in Job /\ snapshot \in Job
  BY Zenon DEF PInv, IInv, TypeOK
<1>2. ASSUME UNCHANGED <<job, snapshot>> PROVE Requested'
  BY Zenon, <1>2 DEF PInv, Requested
\* A write that leaves the mark of the deletion as it is.
<1>3. ASSUME NEW j, WriteJob(j), j.deleting = job.deleting, j.there => job.there,
             UNCHANGED snapshot
      PROVE  Requested'
  BY Zenon, <1>3 DEF PInv, Requested, WriteJob
<1>4. ASSUME NEW p \in left.plans, UpdateCarbonJob(p) PROVE Requested'
  <2> DEFINE j == [job EXCEPT !.plan = p, !.rv = @ + 1]
  <2>1. j.deleting = job.deleting /\ j.there = job.there
    BY Zenon, <1>1 DEF Job
  <2> QED
    BY Zenon, <1>3, <1>4, <2>1 DEF UpdateCarbonJob
<1>5. CASE DeleteReads
  BY Zenon, <1>5 DEF DeleteReads, Requested, store
<1>6. CASE Delete
  <2>1. ~snapshot'.there
    BY Zenon, <1>1, <1>6 DEF Delete, Job
  <2> QED
    BY Zenon, <2>1 DEF Requested
<1>7. \A b \in BOOLEAN : LET j == [job EXCEPT !.final = b, !.rv = @ + 1]
                         IN  j.deleting = job.deleting /\ j.there = job.there
  BY Zenon, <1>1 DEF Job
<1>8. CASE AddFinalizer
  BY Zenon, <1>2, <1>3, <1>7, <1>8 DEF AddFinalizer
<1>9. CASE ClearFinalizer
  BY Zenon, <1>2, <1>3, <1>7, <1>9 DEF ClearFinalizer
<1>10. CASE RemoveJob
  <2>1. Gone(job).deleting = job.deleting /\ ~Gone(job).there
    BY Zenon, <1>1 DEF Gone, Job
  <2> QED
    BY Zenon, <1>2, <1>3, <1>10, <2>1 DEF RemoveJob
<1>11. CASE SyncNothing \/ SyncBegin \/ SyncSpec \/ DoDelete \/ SyncEnd \/ UNCHANGED vars
  BY Zenon, <1>2, <1>11 DEF SyncNothing, SyncBegin, SyncSpec, DoDelete, SyncEnd, vars, store
<1>12. CASE \/ \E c \in calls : RunCall(c) \/ CallFails(c)
            \/ \E c \in late : RunLate(c) \/ DropLate(c)
  BY Zenon, <1>2, <1>12 DEF RunCall, CallFails, RunLate, DropLate, Perform, store
<1>13. CASE AddFinalizerFails \/ ReleaseFails \/ Deadline \/ Restart \/ JobEvent
  BY Zenon, <1>2, <1>13 DEF AddFinalizerFails, ReleaseFails, Deadline, Restart, JobEvent, store
<1>14. CASE \E n \in Names : \/ DeleteSubObjFails(n) \/ WorkerStatus(n) \/ WorkerEvent(n)
                             \/ HandleSubObject(n) \/ WorkerReleased(n)
  BY Zenon, <1>2, <1>14
  DEF DeleteSubObjFails, WorkerStatus, WorkerEvent, HandleSubObject, WorkerReleased, store
<1> QED
  BY Zenon, <1>4, <1>5, <1>6, <1>8, <1>9, <1>10, <1>11, <1>12, <1>13, <1>14
  DEF Next, User, Sync, Fault

(* Whether the informers keep up does not change, and no batch of theirs     *)
(* stops waiting.                                                            *)
LEMMA NextPrompt ==
  ASSUME PInv, [Next]_vars
  PROVE  left'.prompt = left.prompt /\ NothingLate'
<1>1. left \in Scenario
  BY Zenon DEF PInv, IInv, TypeOK
<1>2. NothingLate
  BY Zenon DEF PInv
<1>3. ASSUME left' = left, late' \subseteq late
      PROVE  left'.prompt = left.prompt /\ NothingLate'
  BY Zenon, <1>2, <1>3 DEF NothingLate
<1>4. ASSUME left'.prompt = left.prompt, left'.deadlines = left.deadlines, late' \subseteq late
      PROVE  left'.prompt = left.prompt /\ NothingLate'
  BY Zenon, <1>2, <1>4 DEF NothingLate
<1>5. ASSUME NEW k, MayFail(k), late' \subseteq late
      PROVE  left'.prompt = left.prompt /\ NothingLate'
  BY Zenon, <1>1, <1>4, <1>5 DEF MayFail, Scenario
<1>6. CASE User
  BY Zenon, <1>1, <1>4, <1>6 DEF User, UpdateCarbonJob, DeleteReads, Delete, Scenario
<1>7. CASE \/ SyncNothing \/ SyncBegin \/ AddFinalizer \/ SyncSpec \/ DoDelete \/ ClearFinalizer
           \/ RemoveJob \/ SyncEnd \/ JobEvent \/ UNCHANGED vars
  BY Zenon, <1>3, <1>7 DEF SyncNothing, SyncBegin, AddFinalizer, SyncSpec, DoDelete, ClearFinalizer,
                    RemoveJob, SyncEnd, JobEvent, vars
<1>8. CASE \/ \E c \in calls : RunCall(c)
           \/ \E c \in late : RunLate(c) \/ DropLate(c)
  BY Zenon, <1>3, <1>8 DEF RunCall, RunLate, DropLate
<1>9. CASE \/ AddFinalizerFails \/ ReleaseFails
           \/ \E c \in calls : CallFails(c)
           \/ \E n \in Names : DeleteSubObjFails(n)
  BY Zenon, <1>5, <1>9 DEF AddFinalizerFails, ReleaseFails, CallFails, DeleteSubObjFails
<1>10. CASE Deadline
  <2>1. /\ left.deadlines > 0 /\ left' = [left EXCEPT !.deadlines = @ - 1]
    BY Zenon, <1>10 DEF Deadline
  <2>2. ~left.prompt
    BY <1>2, <2>1 DEF NothingLate
  <2>3. left'.prompt = left.prompt
    BY Zenon, <1>1, <2>1 DEF Scenario
  <2> QED
    BY Zenon, <2>2, <2>3 DEF NothingLate
<1>11. CASE Restart
  <2>1. left' = [left EXCEPT !.crashes = @ - 1] /\ late' = {}
    BY Zenon, <1>11 DEF Restart
  <2> QED
    BY Zenon, <1>1, <1>4, <2>1 DEF Scenario
<1>12. CASE \E n \in Names : WorkerStatus(n)
  <2>1. left' = [left EXCEPT !.statuses = @ - 1] /\ late' = late
    BY Zenon, <1>12 DEF WorkerStatus
  <2> QED
    BY Zenon, <1>1, <1>4, <2>1 DEF Scenario
<1>13. CASE \E n \in Names : WorkerEvent(n) \/ HandleSubObject(n) \/ WorkerReleased(n)
  BY Zenon, <1>3, <1>13 DEF WorkerEvent, HandleSubObject, WorkerReleased
<1> QED
  BY Zenon, <1>6, <1>7, <1>8, <1>9, <1>10, <1>11, <1>12, <1>13 DEF Next, Sync, Fault

LEMMA NextListed == ASSUME PInv, [Next]_vars PROVE Listed'
<1> SUFFICES ASSUME left'.prompt
             PROVE  /\ calls' # {} => pc' = "wait"
                    /\ pc' \in {"finalizer", "list"} =>
                         \A n \in Names : worker'[n].there => cachedWorker'[n].there
                    /\ pc' \in {"clear", "remove"} => \A n \in Names : ~worker'[n].there
  BY Zenon DEF Listed
<1>1. TypeOK /\ left.prompt /\ late = {}
  BY Zenon, NextPrompt DEF PInv, IInv, NothingLate
<1>2. /\ calls # {} => pc = "wait"
      /\ pc \in {"finalizer", "list"} =>
           \A n \in Names : worker[n].there => cachedWorker[n].there
      /\ pc \in {"clear", "remove"} => \A n \in Names : ~worker[n].there
  BY Zenon, <1>1 DEF PInv, Listed
\* The workers a Sync has listed or found gone, while no call runs.
<1>3. ASSUME calls = {}, NEW n \in Names
      PROVE  /\ worker'[n].there => worker[n].there
             /\ cachedWorker'[n].there \/ ~worker'[n].there \/ ~cachedWorker[n].there
  BY Zenon, <1>1, <1>3, NextMoves DEF Moves
<1>4. ASSUME pc' = pc, calls' \subseteq calls
      PROVE  Listed'
  BY Zenon, <1>2, <1>3, <1>4 DEF Listed
<1>5. ASSUME pc' = "idle", calls' = {} PROVE Listed'
  BY Zenon, <1>5 DEF Listed
<1>6. CASE SyncBegin
  <2>1. /\ pc = "idle" /\ UpToDate /\ pc' \in {"list", "finalizer"}
        /\ UNCHANGED <<worker, cachedWorker, calls>>
    BY Zenon, <1>6 DEF SyncBegin, store
  <2>2. \A n \in Names : worker[n].there => cachedWorker[n].there
    BY Zenon, <1>1, <2>1 DEF UpToDate, PInv, Matched
  <2> QED
    BY Zenon, <1>2, <2>1, <2>2
<1>7. CASE AddFinalizer
  BY Zenon, <1>2, <1>7 DEF AddFinalizer, Requeue, caches
<1>8. CASE SyncSpec
  BY Zenon, <1>8 DEF SyncSpec
<1>9. CASE DoDelete
  <2>1. /\ pc = "list" /\ calls' = ReleaseCalls /\ pc' = IF calls' = {} THEN "clear" ELSE "wait"
        /\ UNCHANGED worker
    BY Zenon, <1>9 DEF DoDelete, store
  <2>2. ReleaseCalls = {} => \A n \in Names : ~cachedWorker[n].there
    BY Zenon DEF ReleaseCalls
  <2> QED
    BY Zenon, <1>2, <2>1, <2>2
<1>10. CASE ClearFinalizer
  BY Zenon, <1>2, <1>10 DEF ClearFinalizer, Requeue
<1>11. CASE RemoveJob \/ SyncEnd \/ Restart \/ AddFinalizerFails \/ ReleaseFails \/ Deadline
  BY Zenon, <1>2, <1>5, <1>11 DEF RemoveJob, SyncEnd, Restart, AddFinalizerFails, ReleaseFails, Deadline,
                           Requeue, Listed
<1>12. CASE User \/ SyncNothing \/ JobEvent \/ UNCHANGED vars
  BY Zenon, <1>4, <1>12 DEF User, UpdateCarbonJob, DeleteReads, Delete, SyncNothing, JobEvent, vars,
                     sync, Listed
<1>13. CASE \E c \in calls : RunCall(c) \/ CallFails(c)
  BY Zenon, <1>4, <1>13 DEF RunCall, CallFails, Listed
<1>14. CASE \E c \in late : RunLate(c) \/ DropLate(c)
  BY Zenon, <1>1, <1>14
<1>15. CASE \E n \in Names : \/ DeleteSubObjFails(n) \/ WorkerStatus(n) \/ WorkerEvent(n)
                             \/ HandleSubObject(n) \/ WorkerReleased(n)
  BY Zenon, <1>4, <1>15 DEF DeleteSubObjFails, WorkerStatus, WorkerEvent, HandleSubObject,
                     WorkerReleased, sync, Listed
<1> QED
  BY Zenon, <1>6, <1>7, <1>8, <1>9, <1>10, <1>11, <1>12, <1>13, <1>14, <1>15 DEF Next, Sync, Fault

LEMMA InitPInv ==
  ASSUME \A s \in Scenarios : s.prompt => s.deadlines = 0, Init
  PROVE  PInv
<1>1. IInv
  BY Zenon, InitIInv
<1>2. Requested /\ NothingLate /\ Listed
  BY Zenon DEF Init, Requested, NoJob, NewJob, NothingLate, Listed
<1>3. Matched
  BY Zenon DEF Init, Matched
<1> QED
  BY Zenon, <1>1, <1>2, <1>3 DEF PInv

(* Only the Delete of a job without finalizer and the last step of a Sync    *)
(* remove the job.                                                           *)
LEMMA RemovedBy ==
  ASSUME TypeOK, [Next]_vars, job.there, ~job'.there
  PROVE  pc = "remove" \/ snapshot.there
<1>1. job \in Job
  BY Zenon DEF TypeOK
<1>2. ASSUME NEW p, UpdateCarbonJob(p) PROVE job'.there
  BY Zenon, <1>1, <1>2 DEF UpdateCarbonJob, WriteJob, Job
<1>3. CASE AddFinalizer \/ ClearFinalizer
  <2>1. \A b \in BOOLEAN : [job EXCEPT !.final = b, !.rv = @ + 1].there
    BY Zenon, <1>1 DEF Job
  <2> QED
    BY Zenon, <1>3, <2>1 DEF AddFinalizer, ClearFinalizer, WriteJob
<1>4. CASE DeleteReads \/ SyncNothing \/ SyncBegin \/ SyncSpec \/ DoDelete \/ SyncEnd \/ UNCHANGED vars
  BY Zenon, <1>4 DEF DeleteReads, SyncNothing, SyncBegin, SyncSpec, DoDelete, SyncEnd, vars, store
<1>5. CASE \/ \E c \in calls : RunCall(c) \/ CallFails(c)
           \/ \E c \in late : RunLate(c) \/ DropLate(c)
  BY Zenon, <1>5 DEF RunCall, CallFails, RunLate, DropLate, Perform, store
<1>6. CASE AddFinalizerFails \/ ReleaseFails \/ Deadline \/ Restart \/ JobEvent
  BY Zenon, <1>6 DEF AddFinalizerFails, ReleaseFails, Deadline, Restart, JobEvent, store
<1>7. CASE \E n \in Names : \/ DeleteSubObjFails(n) \/ WorkerStatus(n) \/ WorkerEvent(n)
                            \/ HandleSubObject(n) \/ WorkerReleased(n)
  BY Zenon, <1>7
  DEF DeleteSubObjFails, WorkerStatus, WorkerEvent, HandleSubObject, WorkerReleased, store
<1>8. CASE Delete \/ RemoveJob
  BY Zenon, <1>8 DEF Delete, RemoveJob
<1> QED
  BY Zenon, <1>2, <1>3, <1>4, <1>5, <1>6, <1>7, <1>8 DEF Next, User, Sync, Fault

(* With informers that keep up and batches that are waited for to the end, a *)
(* job deleted under its finalizer disappears only after its last worker,    *)
(* whatever fails or restarts on the way: what doDelete lists is still true   *)
(* when its Sync clears the finalizer and removes the job.  (A call that      *)
(* outlives its batch may make a worker in between.)                         *)
THEOREM JobOutlivesWorkers ==
  ASSUME \A s \in Scenarios : s.prompt => s.deadlines = 0
  PROVE  Spec => ReleasedFirst
<1>1. Init => PInv
  BY Zenon, InitPInv
<1>2. PInv /\ [Next]_vars => PInv'
  BY Zenon, NextIInv, NextMatched, NextRequested, NextPrompt, NextListed DEF PInv
<1>3. ASSUME PInv, [Next]_vars, left.prompt, job.there, job.deleting, ~job'.there
      PROVE  \A n \in Names : ~worker[n].there
  <2>1. pc = "remove"
    BY Zenon, <1>3, RemovedBy DEF PInv, IInv, Requested
  <2> QED
    BY Zenon, <1>3, <2>1 DEF PInv, Listed
<1>4. PInv /\ [Next]_vars =>
        [left.prompt /\ job.there /\ job.deleting /\ ~job'.there
           => \A n \in Names : ~worker[n].there]_vars
  BY Zenon, <1>3
<1> QED
  BY <1>1, <1>2, <1>4, PTL DEF Spec, Safe, ReleasedFirst
=============================================================================
