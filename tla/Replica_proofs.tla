--------------------------- MODULE Replica_proofs ---------------------------
(***************************************************************************)
(* The service publisher never forgets an IP it has recorded and not yet   *)
(* taken out of the registry.                                              *)
(*                                                                         *)
(* RecordKept speaks of the step that writes Status.IPs, and what a slow   *)
(* round writes was computed steps before.  The invariant carries it over: *)
(* a round works on the IPs that are still recorded when it changes the    *)
(* registry, and from then on its result covers all that is both recorded  *)
(* and registered.  Neither needs the round to be saved in the end, so the *)
(* theorem has no assumption on crashes or on failing calls.               *)
(***************************************************************************)
EXTENDS Replica, TLAPS

(* A slow round that has changed the registry and not yet reported.        *)
Publishing == held.key = "publisher" /\ held.synced

(* What is recorded and registered is in the result of the round.          *)
ResultCovers == Publishing => ips \cap registry \subseteq held.result

(* The loop of the publisher is the only one that writes Status.IPs, so a  *)
(* slow round has read what is there.                                      *)
ReadsLatest == held.key = "publisher" /\ ~Publishing => held.ips = ips

IInv == ResultCovers /\ ReadsLatest

-----------------------------------------------------------------------------

(* The result of abstractPublisher.sync has every IP of the record it      *)
(* starts from that it leaves in the registry, whatever view of the        *)
(* workers it has and however far it gets.  Where the round is quiet, and  *)
(* the record is dropped, nothing was to be deleted: all that is recorded  *)
(* and registered is of the view.                                          *)
LEMMA SyncKeepsRecorded ==
  ASSUME NEW view, NEW recorded, NEW reached
  PROVE  recorded \cap publisherSync(view, recorded, reached).registry
           \subseteq publisherSync(view, recorded, reached).result
  <1> DEFINE here == localIPs(view)
             want == toPublish(view)
             known == registry \cap here
             adds == want \ known
             dels == (((known \ want) \cap recorded) \cup (recorded \ here)) \cap registry
             added == IF reached > 0 THEN adds \ lostOrFailed(view) ELSE {}
             remotes == registry \cup added
             quiet == adds = {} /\ dels = {} /\ want \cap known = {}
             after == IF reached > 1 THEN remotes \ dels ELSE remotes
             result == (remotes \cap here) \cup (IF quiet THEN {} ELSE remotes \cap recorded)
  <1>1. want \subseteq here
    BY Zenon DEF toPublish, localIPs
  <1>2. added \subseteq here
    BY Zenon, <1>1
  <1>3. ASSUME quiet  PROVE recorded \cap registry \subseteq here
    BY Zenon, <1>3
  <1> HIDE DEF here, want, adds, dels, added, quiet
  <1>4. recorded \cap remotes \subseteq result
    BY Zenon, <1>2, <1>3
  <1>5. recorded \cap after \subseteq result
    BY Zenon, <1>4
  <1>6. /\ publisherSync(view, recorded, reached).registry = after
        /\ publisherSync(view, recorded, reached).result = result
    BY Zenon DEF publisherSync, here, want, adds, dels, added, quiet
  <1> QED
    BY Zenon, <1>5, <1>6

(* What every step owes: the invariant, and the record it leaves.          *)
Kept == IInv' /\ ips \cap registry' \subseteq ips'

(* A step that leaves the registry, its record and held alone.             *)
LEMMA OthersKeep ==
  ASSUME IInv, UNCHANGED <<held, registry, ips>>
  PROVE  Kept
  BY Zenon DEF IInv, ResultCovers, ReadsLatest, Publishing, Kept

(* Nobody is slow after the step.                                          *)
LEMMA NobodyKeeps ==
  ASSUME held' = Nobody, ips \cap registry' \subseteq ips'
  PROVE  Kept
  <1>1. held'.key # "publisher"
    BY Zenon DEF Nobody
  <1> QED
    BY Zenon, <1>1 DEF IInv, ResultCovers, ReadsLatest, Publishing, Kept

(* A round in one step: it starts from the record and leaves its result,   *)
(* or the record as it was.                                                *)
LEMMA PublishKeeps ==
  ASSUME IInv, NEW reached, NEW saved, Publish(reached, saved)
  PROVE  Kept
  <1> DEFINE s == publisherSync(worker, ips, reached)
  <1>1. ips \cap s.registry \subseteq s.result
    BY Zenon, SyncKeepsRecorded
  <1>2. /\ registry' = s.registry /\ held' = held
        /\ ips' = s.result \/ ips' = ips
    BY Zenon DEF Publish, report
  <1> HIDE DEF s
  <1>3. ~Publishing' /\ held'.key # "publisher"
    BY Zenon, <1>2 DEF Publish, Publishing
  <1> QED
    BY Zenon, <1>1, <1>2, <1>3 DEF IInv, ResultCovers, ReadsLatest, Kept

(* The first half of a slow round.                                         *)
LEMMA SyncPublishKeeps ==
  ASSUME IInv, NEW reached, SyncPublish(reached)
  PROVE  Kept
  <1> DEFINE s == publisherSync(held.workers, held.ips, reached)
  <1>1. held.ips = ips
    BY Zenon DEF IInv, ReadsLatest, Publishing, SyncPublish
  <1>2. held.ips \cap s.registry \subseteq s.result
    BY Zenon, SyncKeepsRecorded
  <1>3. /\ registry' = s.registry /\ ips' = ips
        /\ held' = [key |-> "publisher", workers |-> held.workers, synced |-> TRUE,
                    result |-> s.result, added |-> s.added]
    BY Zenon DEF SyncPublish
  <1> HIDE DEF s
  <1>4. Publishing' /\ held'.result = s.result
    BY Zenon, <1>3 DEF Publishing
  <1> QED
    BY Zenon, <1>1, <1>2, <1>3, <1>4 DEF IInv, ResultCovers, ReadsLatest, Kept

(* The second half: its result is written, or the save fails.              *)
LEMMA FinishPublishKeeps ==
  ASSUME IInv, NEW saved, FinishPublish(saved)
  PROVE  Kept
  <1>1. /\ ips \cap registry \subseteq held.result
        /\ held' = Nobody /\ registry' = registry
        /\ ips' = held.result \/ ips' = ips
    BY Zenon DEF FinishPublish, report, IInv, ResultCovers, Publishing
  <1> QED
    BY Zenon, <1>1, NobodyKeeps

(* Every step keeps the record, a crash in the middle of a round too.      *)
LEMMA NextKeeps ==
  ASSUME IInv, [Next]_vars
  PROVE  Kept
  <1>1. CASE UNCHANGED <<held, registry, ips>>
    BY Zenon, <1>1, OthersKeep
  <1>2. ASSUME NEW w \in W, BeginSync(w)  PROVE Kept
    <2>1. held'.key = w /\ w # "publisher"
      BY Zenon, <1>2, ReplicaAssumption DEF BeginSync
    <2> QED
      BY Zenon, <1>2, <2>1 DEF BeginSync, IInv, ResultCovers, ReadsLatest, Publishing, Kept
  <1>3. ASSUME NEW over, NEW quota, NEW fails, FinishSync(over, quota, fails)  PROVE Kept
    BY Zenon, <1>3, NobodyKeeps DEF FinishSync
  <1>4. CASE BeginPublish
    <2>1. held'.key = "publisher" /\ held'.ips = ips /\ ~held'.synced
      BY Zenon, <1>4 DEF BeginPublish
    <2> QED
      BY Zenon, <1>4, <2>1 DEF BeginPublish, IInv, ResultCovers, ReadsLatest, Publishing, Kept
  <1>5. CASE PublishQueryError
    BY Zenon, <1>5, OthersKeep DEF PublishQueryError, report
  <1>6. CASE Crash
    BY Zenon, <1>6, NobodyKeeps DEF Crash
  <1>7. CASE Controller
    <2>1. ASSUME NEW w \in W, NEW over, NEW quota, NEW fails,
                 \/ ProcessNextWorkItem(w, over, quota, fails)
                 \/ OnDeleteWorker(w, over, quota, fails)
          PROVE  UNCHANGED <<held, registry, ips>>
      BY Zenon, <2>1 DEF ProcessNextWorkItem, OnDeleteWorker
    <2> QED
      BY Zenon, <1>7, <1>1, <1>2, <1>3, <2>1 DEF Controller
  <1>8. CASE Publisher
    BY Zenon, <1>8, <1>4, <1>5, PublishKeeps, SyncPublishKeeps, FinishPublishKeeps DEF Publisher
  <1>9. CASE Owner
    <2>1. UNCHANGED <<held, registry, ips>>
      BY Zenon, <1>9 DEF Owner, CreateReplica, UpdateReplica, ReleaseReplica, OwnerWrite, Evict,
                   ChangeTemplate, LowerRatio, ScaleIn
    <2> QED
      BY Zenon, <1>1, <2>1
  <1>10. CASE Pods
    <2>1. UNCHANGED <<held, registry, ips>>
      BY Zenon, <1>10 DEF Pods, SchedulePod, StartPod, RestartPod, PodGone, FailPod, KillPod,
                   ReclaimPod, PodWrite
    <2> QED
      BY Zenon, <1>1, <2>1
  <1>11. CASE \E w \in W : doCheck(w)
    BY Zenon, <1>11, <1>1 DEF doCheck
  <1>12. CASE UNCHANGED vars
    BY Zenon, <1>12, <1>1 DEF vars
  <1> QED
    BY Zenon, <1>6, <1>7, <1>8, <1>9, <1>10, <1>11, <1>12 DEF Next

(* At first no round is on.                                                *)
LEMMA InitOK ==
  ASSUME Init
  PROVE  IInv
  <1>1. held = Nobody
    BY Zenon DEF Init
  <1> QED
    BY Zenon, <1>1 DEF IInv, ResultCovers, ReadsLatest, Publishing, Nobody

(* For every pair, every plan and every number of failures, lost calls,    *)
(* lost saves, crashes, slow Syncs and slow rounds: an IP that is in       *)
(* Status.IPs stays there until the registry no longer has it, so that     *)
(* saveRemoteNodes never loses what a round has still to take out.         *)
THEOREM RecordIsKept ==
  SafetySpec => RecordKept
  <1>1. Init => IInv
    BY Zenon, InitOK
  <1>2. IInv /\ [Next]_vars => IInv' /\ [ips \cap registry' \subseteq ips']_vars
    BY Zenon, NextKeeps DEF Kept
  <1> QED
    BY <1>1, <1>2, PTL DEF SafetySpec, RecordKept
=============================================================================
