-------------------------- MODULE MemStore_refines --------------------------
(* What rests on the invariant of MemStore_proofs, for any number of objects,   *)
(* batch files, callers, writes and restarts.                                   *)
(*                                                                              *)
(* The store of pkg/memkube/mem implements DurableStore when one caller creates *)
(* the objects and the storage takes no write it reports as failed.  The        *)
(* argument rests on a second inductive invariant, RInv: what the store has     *)
(* committed is in its files, unless its deletion was asked for.                *)
(*                                                                              *)
(* The resource versions do their work: no update is lost, and the events of a  *)
(* name are broadcast in order.  This rests on VInv and EventsOK.               *)
EXTENDS MemStore_proofs, Integers

(* The steps of the callers preserve RInv *)

\* A store that has just been created satisfies the invariant.
LEMMA InitRInv == Init => RInv
BY NamesAssumption, KeyFuncAssumption, BoundsAssumption
   DEF Init, RInv, AddersOK, IndexedOK, DeletionsOK, CommittedOK, WritesOK, HashesOK,
       NoPending, NoEvent, NoJob, NoObj, Deleting, Live

\* The parts of the invariant that do not depend on the callers.
LEMMA StoreFrame ==
  ASSUME RInv, UNCHANGED <<indexer, pobj, lastUid, files, lastHash, jobs, delAsked>>
  PROVE  IndexedOK' /\ CommittedOK' /\ WritesOK' /\ HashesOK'
<1>1. IndexedOK'
    BY Zenon DEF RInv, IndexedOK
<1>2. CommittedOK'
    BY Zenon DEF RInv, CommittedOK, Live, Deleting, InFile
<1>3. WritesOK'
    BY Zenon DEF RInv, WritesOK, InFile
<1>4. HashesOK'
    BY Zenon DEF RInv, HashesOK, Live, Deleting
<1> QED BY Zenon, <1>1, <1>2, <1>3, <1>4

\* A step that leaves the store alone and takes no caller into an addition or
\* into the wait for a deletion.
LEMMA QuietRInv ==
  ASSUME RInv, UNCHANGED <<indexer, pobj, lastUid, files, lastHash, jobs, delAsked>>,
         \A d \in Clients : cl'[d] # cl[d] => cl'[d].pc \notin {"adding", "waitdel"}
  PROVE  RInv'
<1>1. AddersOK'
    BY Zenon DEF RInv, AddersOK
<1>2. DeletionsOK'
    BY Zenon DEF RInv, DeletionsOK, Deleting
<1> QED BY Zenon, <1>1, <1>2, StoreFrame DEF RInv

\* The lookups of the callers and the ends of their Waits.
LEMMA CallersRInv ==
  ASSUME TypeOK, RInv, NEW c \in Clients, NEW n,
         \/ Read(c, n) \/ UpdateLookup(c, n) \/ DeleteLookup(c, n)
         \/ WaitCommitted(c) \/ WaitDeleted(c) \/ WaitFailed(c)
  PROVE  RInv'
<1>1. UNCHANGED <<indexer, pobj, lastUid, files, lastHash, jobs, delAsked>>
    BY Zenon DEF Read, UpdateLookup, DeleteLookup, WaitCommitted, WaitDeleted, WaitFailed,
           storeVars, diskVars, loopVars, histVars
<1>2. \A d \in Clients : cl[d] \in Client
    BY Zenon DEF TypeOK
<1>3. Idle(c).pc = "idle"
    BY Zenon, <1>2 DEF Idle, Client
<1>4. \A d \in Clients : cl'[d] # cl[d] => cl'[d].pc \notin {"adding", "waitdel"}
  <2>1. CASE Read(c, n) \/ UpdateLookup(c, n) \/ DeleteLookup(c, n)
      BY <2>1, <1>2 DEF Read, UpdateLookup, DeleteLookup, TypeOK, Client
  <2>2. CASE WaitDeleted(c) \/ WaitFailed(c)
      BY Zenon, <2>2, <1>2, <1>3 DEF WaitDeleted, WaitFailed, TypeOK
  <2>3. CASE WaitCommitted(c)
      BY Zenon, <2>3, <1>2 DEF WaitCommitted, Idle, TypeOK, Client
  <2> QED BY Zenon, <2>1, <2>2, <2>3
<1> QED BY Zenon, <1>1, <1>4, QuietRInv

\* store.Add finds the name free.
LEMMA AddLookupRInv ==
  ASSUME TypeOK, RInv, NEW c \in Creators, NEW n \in Names, AddLookup(c, n)
  PROVE  RInv'
<1>1. UNCHANGED <<indexer, pobj, lastUid, files, lastHash, jobs, delAsked>>
    BY Zenon DEF AddLookup, storeVars, diskVars, loopVars, histVars
<1>2. c \in Clients /\ cl[c] \in Client
    BY Zenon, CreatorsAssumption DEF TypeOK
<1>3. cl'[c].pc = "adding" /\ cl'[c].name = n /\ indexer[n] = 0
    BY Zenon, <1>2 DEF AddLookup, TypeOK, Client
<1>4. \A d \in Clients : d # c => cl'[d] = cl[d]
    BY Zenon DEF AddLookup, TypeOK
<1>5. AddersOK'
    BY Zenon, <1>1, <1>3, <1>4 DEF RInv, AddersOK
<1>6. DeletionsOK'
    BY Zenon, <1>1, <1>3, <1>4 DEF RInv, DeletionsOK, Deleting
<1> QED BY Zenon, <1>1, <1>5, <1>6, StoreFrame DEF RInv

\* run persists the seed, and waits for its goroutines.
LEMMA LoopRInv == ASSUME RInv, PersistMeta \/ WaitAll PROVE RInv'
BY Zenon, QuietRInv DEF PersistMeta, WaitAll, storeVars, diskVars, histVars

\* The types of what the invariant quantifies over.
LEMMA Ranges ==
  ASSUME TypeOK
  PROVE  /\ \A b \in Batches : \A o \in files[b] : o.uid \in Uids /\ o.name \in Names
         /\ \A b \in Batches : \A o \in lastHash[b] : o.uid \in Uids
         /\ \A b \in Batches : jobs[b].items \subseteq Uids /\ jobs[b].deletings \subseteq Uids
         /\ \A b \in Batches : jobs[b].drop # 0 => jobs[b].drop \in Uids
         /\ \A u \in Uids : pobj[u] \in PendingObject
         /\ \A c \in Clients : cl[c] \in Client
<1>1. /\ \A b \in Batches : \A o \in files[b] : o.uid \in Uids /\ o.name \in Names
      /\ \A b \in Batches : \A o \in lastHash[b] : o.uid \in Uids
    BY DEF TypeOK, Obj
<1>2. /\ \A b \in Batches : jobs[b].items \subseteq Uids /\ jobs[b].deletings \subseteq Uids
      /\ \A b \in Batches : jobs[b].drop # 0 => jobs[b].drop \in Uids
    BY BoundsAssumption DEF TypeOK, Job, Uids
<1> QED BY Zenon, <1>1, <1>2 DEF TypeOK

\* A step that puts events on pendingObjects, deletions on request only.
LEMMA EventRInv ==
  ASSUME TypeOK, RInv,
         UNCHANGED <<indexer, lastUid, files, lastHash, jobs>>,
         delAsked \subseteq delAsked',
         \A w \in Uids : /\ pobj'[w].name = pobj[w].name
                         /\ pobj'[w].deleted <=> pobj[w].deleted
                         /\ pobj'[w].current # NoObj => pobj[w].current # NoObj
                         /\ Deleting(pobj[w]) => Deleting(pobj'[w])
                         /\ Deleting(pobj'[w]) => Deleting(pobj[w]) \/ w \in delAsked',
         \A d \in Clients : cl'[d] # cl[d] =>
                         /\ cl'[d].pc # "adding"
                         /\ cl'[d].pc = "waitdel" => cl'[d].ptr \in delAsked'
  PROVE  RInv'
<1>1. AddersOK'
    BY Zenon DEF RInv, AddersOK
<1>2. IndexedOK'
    BY Ranges DEF RInv, IndexedOK
<1>3. DeletionsOK'
  <2>1. \A u \in Uids : Deleting(pobj'[u]) => u \in delAsked'
      BY Zenon DEF RInv, DeletionsOK
  <2>2. \A b \in Batches : \A u \in jobs'[b].deletings : Deleting(pobj'[u])
      BY Zenon, Ranges DEF RInv, DeletionsOK
  <2>3. \A c \in Clients : cl'[c].pc = "waitdel" => cl'[c].ptr \in delAsked'
      BY Zenon DEF RInv, DeletionsOK
  <2> QED BY Zenon, <2>1, <2>2, <2>3 DEF DeletionsOK, Deleting
<1>4. \A w \in Uids : Live(w)' <=> Live(w)
    BY Zenon DEF Live
<1>5. CommittedOK'
  <2> SUFFICES ASSUME NEW u \in Uids, Live(u)', pobj'[u].current # NoObj, ~ Deleting(pobj'[u])
               PROVE  \E o \in files'[KeyFunc[pobj'[u].name]] : o.uid = u
      BY Zenon DEF CommittedOK, Deleting, InFile
  <2>1. \E o \in files[KeyFunc[pobj[u].name]] : o.uid = u
      BY Zenon, <1>4 DEF RInv, CommittedOK, InFile
  <2>2. pobj'[u].name = pobj[u].name /\ files' = files
      BY Zenon
  <2> QED BY Zenon, <2>1, <2>2
<1>6. WritesOK'
    BY Zenon DEF RInv, WritesOK, InFile
<1>7. HashesOK'
  <2>1. \A b \in Batches : \A o \in lastHash[b] :
          (Live(o.uid) => Deleting(pobj[o.uid])) => (Live(o.uid)' => Deleting(pobj'[o.uid]))
      BY Zenon, <1>4, Ranges
  <2> QED BY Zenon, <2>1 DEF RInv, HashesOK, Deleting
<1> QED BY Zenon, <1>1, <1>2, <1>3, <1>5, <1>6, <1>7 DEF RInv

\* pendingObject.RequestUpdate puts an event on the object or refuses it.
LEMMA RequestUpdateRInv ==
  ASSUME IInv, RInv, NEW c \in Clients, RequestUpdate(c) PROVE RInv'
<1>1. TypeOK /\ ClientsOK /\ cl[c] \in Client
    BY Zenon DEF IInv, TypeOK
<1>2. UNCHANGED <<indexer, lastUid, files, lastHash, jobs, delAsked>>
    BY Zenon DEF RequestUpdate, diskVars, loopVars, histVars
<1>3. CASE ~ Acceptable(pobj[cl[c].ptr], cl[c].held.obj)
  <2>1. UNCHANGED pobj /\ cl' = [cl EXCEPT ![c] = Idle(c)]
      BY Zenon, <1>3 DEF RequestUpdate
  <2>2. Idle(c).pc = "idle"
      BY Zenon, <1>1, IdleClient
  <2>3. \A d \in Clients : cl'[d] # cl[d] => cl'[d].pc \notin {"adding", "waitdel"}
      BY Zenon, <2>1, <2>2, <1>1 DEF TypeOK
  <2> QED BY Zenon, <1>2, <2>1, <2>3, QuietRInv
<1>4. CASE Acceptable(pobj[cl[c].ptr], cl[c].held.obj)
  <2> DEFINE u == cl[c].ptr
             o == [cl[c].held.obj EXCEPT !.data = seed + 1, !.ver = seed + 1]
  <2>1. /\ pobj' = [pobj EXCEPT ![u].event = [type |-> "Modified", obj |-> o]]
        /\ cl' = [cl EXCEPT ![c].pc = "waiting", ![c].ver = seed + 1]
        /\ ~ Deleting(pobj[u])
      BY Zenon, <1>4 DEF RequestUpdate, Acceptable
  <2>2. u \in Uids /\ pobj[u] \in PendingObject
    <3>1. cl[c] \in Client /\ pobj \in [Uids -> PendingObject]
        BY Zenon, <1>1 DEF TypeOK
    <3>2. cl[c].pc = "updating"
        BY Zenon DEF RequestUpdate
    <3>3. u # 0
        BY Zenon, <1>1, <3>2 DEF ClientsOK
    <3>4. u \in 0..MaxUid
        BY Zenon, <3>1 DEF Client
    <3>5. u \in Uids
        BY <3>3, <3>4, BoundsAssumption DEF Uids
    <3> QED BY Zenon, <3>1, <3>5
  <2> HIDE DEF u, o
  <2>3. \A w \in Uids : w # u => pobj'[w] = pobj[w]
      BY Zenon, <2>1, <1>1 DEF TypeOK
  <2>4. /\ pobj'[u].name = pobj[u].name /\ pobj'[u].deleted = pobj[u].deleted
        /\ pobj'[u].current = pobj[u].current /\ ~ Deleting(pobj'[u])
      BY Zenon, <2>1, <2>2, <1>1 DEF TypeOK, PendingObject, Deleting
  <2>5. \A d \in Clients : cl'[d] # cl[d] => cl'[d].pc = "waiting"
      BY Zenon, <2>1, <1>1 DEF TypeOK, Client
  <2> QED BY Zenon, <1>1, <1>2, <2>1, <2>3, <2>4, <2>5, EventRInv
<1> QED BY Zenon, <1>3, <1>4

\* pendingObject.RequestDelete records a deletion, asked for from then on.
LEMMA RequestDeleteRInv ==
  ASSUME IInv, RInv, NEW c \in Clients, RequestDelete(c) PROVE RInv'
<1>1. TypeOK /\ ClientsOK /\ cl[c] \in Client
    BY Zenon DEF IInv, TypeOK
<1>2. UNCHANGED <<indexer, lastUid, files, lastHash, jobs>>
    BY Zenon DEF RequestDelete, diskVars, loopVars
<1> DEFINE u == cl[c].ptr
<1>3. CASE DeleteTarget(pobj[u]) = NoObj
  <2>1. UNCHANGED <<pobj, delAsked>> /\ cl' = [cl EXCEPT ![c].pc = "panicked"]
      BY Zenon, <1>3 DEF RequestDelete
  <2>3. \A d \in Clients : cl'[d] # cl[d] => cl'[d].pc \notin {"adding", "waitdel"}
      BY Zenon, <2>1, <1>1 DEF TypeOK, Client
  <2> QED BY Zenon, <1>2, <2>1, <2>3, QuietRInv
<1>4. CASE DeleteTarget(pobj[u]) # NoObj
  <2> DEFINE o == [DeleteTarget(pobj[u]) EXCEPT !.ver = seed + 1]
  <2>1. /\ pobj' = [pobj EXCEPT ![u].event = [type |-> "Deleted", obj |-> o],
                                ![u].current = IF @ = NoObj THEN @ ELSE o]
        /\ cl' = [cl EXCEPT ![c].pc = "waitdel"]
        /\ delAsked' = delAsked \cup {u}
      BY Zenon, <1>4 DEF RequestDelete
  <2>a. u # 0
      BY Zenon, <1>1 DEF ClientsOK, RequestDelete
  <2>2. u \in Uids /\ pobj[u] \in PendingObject
      BY <1>1, <2>a, BoundsAssumption DEF Client, Uids, TypeOK
  <2>0. cl[c].ptr = u
      BY Zenon
  <2> HIDE DEF u, o
  <2>3. \A w \in Uids : w # u => pobj'[w] = pobj[w]
      BY Zenon, <2>1, <1>1 DEF TypeOK
  <2>4. /\ pobj'[u].name = pobj[u].name /\ pobj'[u].deleted = pobj[u].deleted
        /\ pobj'[u].current # NoObj => pobj[u].current # NoObj
        /\ Deleting(pobj'[u])
      BY Zenon, <2>1, <2>2, <1>1 DEF TypeOK, PendingObject, Deleting
  <2>5. \A d \in Clients : cl'[d] # cl[d] => cl'[d].pc = "waitdel" /\ cl'[d].ptr = u
      BY Zenon, <2>0, <2>1, <1>1 DEF TypeOK, Client
  <2>6. delAsked \subseteq delAsked' /\ u \in delAsked'
      BY Zenon, <2>1
  <2>7. \A w \in Uids : /\ pobj'[w].name = pobj[w].name
                        /\ pobj'[w].deleted <=> pobj[w].deleted
                        /\ pobj'[w].current # NoObj => pobj[w].current # NoObj
                        /\ Deleting(pobj[w]) => Deleting(pobj'[w])
                        /\ Deleting(pobj'[w]) => Deleting(pobj[w]) \/ w \in delAsked'
      BY Zenon, <2>3, <2>4, <2>6
  <2> QED BY Zenon, <1>1, <1>2, <2>5, <2>6, <2>7, EventRInv
<1> QED BY Zenon, <1>3, <1>4

\* store.Add puts a pendingObject of a new uid under a name nobody uses.
LEMMA AddInsertRInv ==
  ASSUME OneCreator, IInv, RInv, NEW c \in Clients, AddInsert(c) PROVE RInv'
<1>1. TypeOK /\ PendingsOK /\ JobsOK /\ FilesOK /\ ClientsOK
    BY Zenon DEF IInv
<1>2. AddersOK /\ IndexedOK /\ DeletionsOK /\ CommittedOK /\ WritesOK /\ HashesOK
    BY Zenon DEF RInv
<1>3. PICK n \in Names : n = cl[c].name
    BY Zenon, <1>1 DEF AddInsert, ClientsOK
<1>4. lastUid + 1 \in Uids
    BY <1>1, BoundsAssumption DEF AddInsert, TypeOK, Uids
<1>5. PICK u \in Uids : u = lastUid + 1
    BY Zenon, <1>4
<1>6. PICK v : v = seed + 1
    BY Zenon
<1>7. /\ pobj' = [pobj EXCEPT ![u] = newPendingObject(n, u, v)]
      /\ indexer' = [indexer EXCEPT ![n] = u]
      /\ cl' = [cl EXCEPT ![c].pc = "waiting", ![c].ptr = u, ![c].ver = v]
      /\ lastUid' = u
      /\ UNCHANGED <<files, lastHash, jobs, delAsked>>
    BY Zenon, <1>3, <1>5, <1>6 DEF AddInsert, diskVars, loopVars, histVars
<1>8. c \in Creators /\ indexer[n] = 0
    BY Zenon, <1>2, <1>3 DEF AddInsert, AddersOK
<1>9. /\ \A w \in Uids : w # u => pobj'[w] = pobj[w]
      /\ pobj'[u].current = NoObj /\ ~ Deleting(pobj'[u])
      /\ \A m \in Names : m # n => indexer'[m] = indexer[m]
      /\ \A d \in Clients : d # c => cl'[d] = cl[d]
      /\ cl'[c].pc = "waiting"
    BY Zenon, <1>1, <1>7 DEF TypeOK, newPendingObject, Deleting, Client
<1>10. \A w \in Uids : pobj[w].name # 0 => w # u
  <2>1. lastUid \in 0 .. MaxUid /\ \A w \in Uids : pobj[w].name # 0 => w <= lastUid
      BY Zenon, <1>1 DEF TypeOK, PendingsOK
  <2>2. \A w : w <= lastUid => w # u
      BY ONLY <1>5, <2>1, BoundsAssumption, SMT
  <2> QED BY Zenon, <2>1, <2>2
<1>11. \A w \in Uids : w # 0
    BY DEF Uids
<1>12. AddersOK'
    BY Zenon, <1>2, <1>8, <1>9 DEF AddersOK, OneCreator
<1>13. ASSUME NEW b \in Batches, NEW w \in jobs[b].items \cup jobs[b].deletings
       PROVE  w \in Uids /\ pobj'[w] = pobj[w] /\ pobj[w].name \in Names /\ indexer'[pobj[w].name] = w
  <2>1. w \in Uids /\ pobj[w] \in PendingObject
      BY Zenon, <1>1, Ranges
  <2>2. pobj[w].name # 0
      BY Zenon, <1>1 DEF JobsOK, Live
  <2>3. pobj[w].name \in Names /\ indexer[pobj[w].name] = w
      BY Zenon, <1>2, <2>1, <2>2 DEF IndexedOK, PendingObject
  <2> QED BY Zenon, <1>8, <1>9, <1>10, <1>11, <2>1, <2>2, <2>3
<1>14. IndexedOK'
  <2>1. ASSUME NEW b \in Batches, NEW o \in files[b]
        PROVE  indexer'[o.name] = o.uid
    <3>1. o.uid \in Uids /\ o.name \in Names
        BY Zenon, <1>1, Ranges
    <3> QED BY <1>2, <1>8, <1>9, <1>11, <3>1 DEF IndexedOK
  <2>2. ASSUME NEW b \in Batches, jobs[b].drop # 0
        PROVE  /\ pobj'[jobs[b].drop].deleted
               /\ KeyFunc[pobj'[jobs[b].drop].name] = b
               /\ indexer'[pobj'[jobs[b].drop].name] = jobs[b].drop
    <3>1. PICK w \in Uids : w = jobs[b].drop
        BY Zenon, <1>1, <2>2, Ranges
    <3>2. pobj[w].name # 0 /\ pobj[w] \in PendingObject
        BY Zenon, <1>1, <2>2, <3>1, Ranges DEF JobsOK
    <3>3. pobj[w].name \in Names /\ pobj'[w] = pobj[w]
        BY Zenon, <1>9, <1>10, <3>2 DEF PendingObject
    <3>4. pobj[w].deleted /\ KeyFunc[pobj[w].name] = b /\ indexer[pobj[w].name] = w
        BY Zenon, <1>2, <2>2, <3>1 DEF IndexedOK
    <3> QED BY <1>8, <1>9, <1>11, <3>1, <3>3, <3>4
  <2> QED BY <1>7, <1>13, <2>1, <2>2 DEF IndexedOK
<1>15. DeletionsOK'
  <2>1. \A w \in Uids : Deleting(pobj'[w]) => w \in delAsked'
      BY Zenon, <1>2, <1>7, <1>9 DEF DeletionsOK
  <2>2. \A b \in Batches : \A w \in jobs'[b].deletings : Deleting(pobj'[w])
      BY Zenon, <1>2, <1>7, <1>13 DEF DeletionsOK
  <2>3. ASSUME NEW d \in Clients, cl'[d].pc = "waitdel"
        PROVE  cl'[d].ptr \in delAsked'
    <3>1. cl'[d] = cl[d]
        BY Zenon, <1>9, <2>3
    <3>2. delAsked' = delAsked
        BY Zenon, <1>7
    <3> QED BY Zenon, <1>2, <2>3, <3>1, <3>2 DEF DeletionsOK
  <2> QED BY Zenon, <2>1, <2>2, <2>3 DEF DeletionsOK, Deleting
<1>16. CommittedOK'
    BY <1>2, <1>7, <1>9 DEF CommittedOK, InFile, Live, Deleting
<1>17. WritesOK'
    BY Zenon, <1>2, <1>7 DEF WritesOK, InFile
<1>18. HashesOK'
  <2>1. ASSUME NEW b \in Batches, NEW o \in lastHash[b]
        PROVE  o.uid <= lastUid' /\ pobj'[o.uid] = pobj[o.uid]
    <3>a. o.uid \in Uids
        BY Zenon, <1>1, Ranges
    <3>b. o.uid <= lastUid
        BY Zenon, <1>2 DEF HashesOK
    <3>1. o.uid \in Uids /\ o.uid <= lastUid
        BY Zenon, <3>a, <3>b
    <3>2. o.uid # u /\ o.uid <= u
        BY <1>1, <1>5, <3>1 DEF TypeOK, Uids
    <3> QED BY Zenon, <1>7, <1>9, <3>1, <3>2
  <2> QED BY Zenon, <1>2, <1>7, <2>1 DEF HashesOK, Live, Deleting
<1> QED BY Zenon, <1>12, <1>14, <1>15, <1>16, <1>17, <1>18 DEF RInv

-----------------------------------------------------------------------------
(* The steps of the background loop and a restart preserve RInv *)

\* A step of the goroutine of batch b that leaves the store alone.
LEMMA JobRInv ==
  ASSUME TypeOK, RInv, NEW b \in Batches,
         UNCHANGED <<indexer, pobj, lastUid, cl, delAsked>>,
         \A a \in Batches : a # b => /\ jobs'[a] = jobs[a]
                                     /\ files'[a] = files[a]
                                     /\ lastHash'[a] = lastHash[a],
         jobs'[b].items \subseteq jobs[b].items,
         jobs'[b].deletings \subseteq jobs[b].deletings,
         jobs'[b].drop \in {0, jobs[b].drop},
         jobs'[b].pc # "persist",
         \A o \in files'[b] : indexer[o.name] = o.uid,
         jobs'[b].pc = "commit" => \A u \in jobs'[b].items : \E o \in files'[b] : o.uid = u,
         \A o \in lastHash'[b] : o.uid <= lastUid,
         files'[b] # lastHash'[b] => \A o \in lastHash'[b] : Live(o.uid) => Deleting(pobj[o.uid]),
         \A u \in Uids : /\ Live(u)
                         /\ pobj[u].current # NoObj
                         /\ ~ Deleting(pobj[u])
                         /\ KeyFunc[pobj[u].name] = b
                         => \E o \in files'[b] : o.uid = u
  PROVE  RInv'
<1>1. AddersOK /\ IndexedOK /\ DeletionsOK /\ CommittedOK /\ WritesOK /\ HashesOK
    BY Zenon DEF RInv
<1>2. AddersOK'
    BY Zenon, <1>1 DEF AddersOK
<1>3. IndexedOK'
  <2> SUFFICES ASSUME NEW a \in Batches
               PROVE  /\ \A o \in files'[a] : indexer[o.name] = o.uid
                      /\ \A u \in jobs'[a].items \cup jobs'[a].deletings : indexer[pobj[u].name] = u
                      /\ jobs'[a].drop # 0 =>
                            /\ pobj[jobs'[a].drop].deleted
                            /\ KeyFunc[pobj[jobs'[a].drop].name] = a
                            /\ indexer[pobj[jobs'[a].drop].name] = jobs'[a].drop
      BY DEF IndexedOK
  <2>1. CASE a # b
      BY <1>1, <2>1 DEF IndexedOK
  <2>2. CASE a = b
    <3>1. \A u \in jobs'[b].items \cup jobs'[b].deletings : indexer[pobj[u].name] = u
        BY Zenon, <1>1 DEF IndexedOK
    <3>2. jobs'[b].drop # 0 => jobs'[b].drop = jobs[b].drop
        BY Zenon
    <3> QED BY <1>1, <2>2, <3>1, <3>2 DEF IndexedOK
  <2> QED BY Zenon, <2>1, <2>2
<1>4. DeletionsOK'
  <2>1. \A a \in Batches : \A u \in jobs'[a].deletings : Deleting(pobj[u])
      BY Zenon, <1>1 DEF DeletionsOK
  <2> QED BY Zenon, <1>1, <2>1 DEF DeletionsOK, Deleting
<1>5. CommittedOK'
  <2> SUFFICES ASSUME NEW u \in Uids, Live(u), pobj[u].current # NoObj, ~ Deleting(pobj[u])
               PROVE  \E o \in files'[KeyFunc[pobj[u].name]] : o.uid = u
      BY Zenon DEF CommittedOK, InFile, Live, Deleting
  <2>1. CASE KeyFunc[pobj[u].name] = b
      BY Zenon, <2>1
  <2>2. CASE KeyFunc[pobj[u].name] # b
    <3>1. \E o \in files[KeyFunc[pobj[u].name]] : o.uid = u
        BY Zenon, <1>1 DEF CommittedOK, InFile
    <3>2. KeyFunc[pobj[u].name] \in Batches
      <4>1. pobj[u].name \in Names
          BY Zenon, Ranges DEF Live, PendingObject
      <4> QED BY Zenon, <4>1, KeyFuncAssumption
    <3> QED BY Zenon, <2>2, <3>1, <3>2
  <2> QED BY Zenon, <2>1, <2>2
<1>6. WritesOK'
  <2> SUFFICES ASSUME NEW a \in Batches
               PROVE  /\ jobs'[a].pc = "persist" =>
                            \A o \in files'[a] : o.uid \in jobs'[a].items \cup jobs'[a].deletings
                      /\ jobs'[a].pc = "commit" =>
                            \A u \in jobs'[a].items : \E o \in files'[a] : o.uid = u
      BY Zenon DEF WritesOK, InFile
  <2>1. CASE a # b
      BY <1>1, <2>1 DEF WritesOK, InFile
  <2> QED BY Zenon, <2>1
<1>7. HashesOK'
  <2> SUFFICES ASSUME NEW a \in Batches
               PROVE  /\ \A o \in lastHash'[a] : o.uid <= lastUid
                      /\ files'[a] # lastHash'[a] =>
                            /\ \A o \in lastHash'[a] : Live(o.uid) => Deleting(pobj[o.uid])
                            /\ jobs'[a].pc = "persist" =>
                                  \A o \in lastHash'[a] : o.uid \notin jobs'[a].items
      BY Zenon DEF HashesOK, Live, Deleting
  <2>1. CASE a # b
      BY Zenon, <1>1, <2>1 DEF HashesOK
  <2> QED BY Zenon, <2>1
<1> QED BY Zenon, <1>2, <1>3, <1>4, <1>5, <1>6, <1>7 DEF RInv

\* The goroutine of a batch has committed everything.
LEMMA JobDoneRInv ==
  ASSUME IInv, RInv, NEW b \in Batches, JobDone(b) PROVE RInv'
<1>1. TypeOK /\ IndexedOK /\ CommittedOK /\ HashesOK
    BY Zenon DEF IInv, RInv
<1>2. /\ UNCHANGED <<indexer, pobj, lastUid, cl, delAsked, files, lastHash>>
      /\ jobs'[b] = NoJob
      /\ \A a \in Batches : a # b => jobs'[a] = jobs[a]
    BY Zenon, <1>1 DEF JobDone, TypeOK, storeVars, diskVars, histVars
<1>3. \A o \in files[b] : indexer[o.name] = o.uid
    BY Zenon, <1>1 DEF IndexedOK
<1>4. /\ \A o \in lastHash[b] : o.uid <= lastUid
      /\ files[b] # lastHash[b] => \A o \in lastHash[b] : Live(o.uid) => Deleting(pobj[o.uid])
    BY Zenon, <1>1 DEF HashesOK
<1>5. \A u \in Uids : /\ Live(u)
                      /\ pobj[u].current # NoObj
                      /\ ~ Deleting(pobj[u])
                      /\ KeyFunc[pobj[u].name] = b
                      => \E o \in files[b] : o.uid = u
    BY Zenon, <1>1 DEF CommittedOK, InFile
<1>6. /\ jobs'[b].items = {} /\ jobs'[b].deletings = {} /\ jobs'[b].drop = 0
      /\ jobs'[b].pc = "done"
    BY <1>2 DEF NoJob
<1> QED BY <1>1, <1>2, <1>3, <1>4, <1>5, <1>6, JobRInv

\* A failed write ends the goroutine and commits nothing.
LEMMA PersistFailsRInv ==
  ASSUME ~ FailedWriteLands, IInv, RInv, NEW b \in Batches, PersistFails(b) PROVE RInv'
<1>1. TypeOK /\ IndexedOK /\ CommittedOK /\ HashesOK
    BY Zenon DEF IInv, RInv
<1>2. /\ UNCHANGED <<indexer, pobj, lastUid, cl, delAsked, files, lastHash>>
      /\ jobs'[b] = NoJob
      /\ \A a \in Batches : a # b => jobs'[a] = jobs[a]
    BY Zenon, <1>1 DEF PersistFails, TypeOK, storeVars, histVars
<1>3. \A o \in files[b] : indexer[o.name] = o.uid
    BY Zenon, <1>1 DEF IndexedOK
<1>4. /\ \A o \in lastHash[b] : o.uid <= lastUid
      /\ files[b] # lastHash[b] => \A o \in lastHash[b] : Live(o.uid) => Deleting(pobj[o.uid])
    BY Zenon, <1>1 DEF HashesOK
<1>5. \A u \in Uids : /\ Live(u)
                      /\ pobj[u].current # NoObj
                      /\ ~ Deleting(pobj[u])
                      /\ KeyFunc[pobj[u].name] = b
                      => \E o \in files[b] : o.uid = u
    BY Zenon, <1>1 DEF CommittedOK, InFile
<1>6. /\ jobs'[b].items = {} /\ jobs'[b].deletings = {} /\ jobs'[b].drop = 0
      /\ jobs'[b].pc = "done"
    BY <1>2 DEF NoJob
<1> QED BY <1>1, <1>2, <1>3, <1>4, <1>5, <1>6, JobRInv

\* The write is skipped, or the file has the items of the batch and no others.
LEMMA PersistRInv ==
  ASSUME IInv, RInv, NEW b \in Batches, Persist(b) PROVE RInv'
<1>1. TypeOK /\ PendingsOK /\ JobsOK /\ FilesOK
    BY Zenon DEF IInv
<1>2. AddersOK /\ IndexedOK /\ DeletionsOK /\ CommittedOK /\ WritesOK /\ HashesOK
    BY Zenon DEF RInv
<1>3. /\ UNCHANGED <<indexer, pobj, lastUid, cl, delAsked>>
      /\ jobs[b].pc = "persist"
      /\ jobs'[b].items = jobs[b].items /\ jobs'[b].deletings = jobs[b].deletings
      /\ jobs'[b].drop = jobs[b].drop /\ jobs'[b].pc = "commit"
      /\ \A a \in Batches : a # b => jobs'[a] = jobs[a]
    BY <1>1 DEF Persist, TypeOK, Job, storeVars, histVars
<1>4. \A o \in Marshal(b) :
        /\ o.uid \in jobs[b].items
        /\ o.name = pobj[o.uid].name
        /\ Live(o.uid)
    BY Zenon, <1>1, MarshalObjects
<1>5. ASSUME NEW u \in jobs[b].items
      PROVE  \E o \in Marshal(b) : o.uid = u
  <2>1. u \in Uids /\ Live(u)
      BY Zenon, <1>1, Ranges DEF JobsOK
  <2>2. getLatest(pobj[u]).uid = u
      BY Zenon, <1>1, <2>1 DEF PendingsOK, getLatest
  <2>3. getLatest(pobj[u]) \in Marshal(b)
      BY Zenon DEF Marshal
  <2> QED BY Zenon, <2>2, <2>3
<1>6. \A u \in jobs[b].items \cup jobs[b].deletings :
        u \in Uids /\ Live(u) /\ KeyFunc[pobj[u].name] = b /\ indexer[pobj[u].name] = u
    BY <1>1, <1>2, Ranges DEF JobsOK, IndexedOK
<1>7. /\ \A o \in lastHash[b] : o.uid <= lastUid
      /\ files[b] # lastHash[b] => \A o \in lastHash[b] : Live(o.uid) => Deleting(pobj[o.uid])
      /\ files[b] # lastHash[b] => \A o \in lastHash[b] : o.uid \notin jobs[b].items
    BY Zenon, <1>2, <1>3 DEF HashesOK
<1>8. \A u \in Uids : /\ Live(u)
                      /\ pobj[u].current # NoObj
                      /\ ~ Deleting(pobj[u])
                      /\ KeyFunc[pobj[u].name] = b
                      => \E o \in files[b] : o.uid = u
    BY Zenon, <1>2 DEF CommittedOK, InFile
<1>9. \A o \in files[b] : o.uid \in jobs[b].items \/ o.uid \in jobs[b].deletings
    BY Zenon, <1>2, <1>3 DEF WritesOK
<1>10. \A u \in jobs[b].deletings : Deleting(pobj[u])
    BY Zenon, <1>2 DEF DeletionsOK
<1>11. CASE SkipsWrite(b)
  <2>1. files' = files /\ lastHash' = lastHash
      BY Zenon, <1>11 DEF Persist
  <2>2. ASSUME NEW u \in jobs[b].items
        PROVE  \E o \in files[b] : o.uid = u
    <3>1. CASE Marshal(b) = lastHash[b]
        BY Zenon, <1>4, <1>5, <1>7, <3>1
    <3>2. CASE ~ IsDirty(b)
      <4>1. u \in Uids /\ Live(u) /\ KeyFunc[pobj[u].name] = b
          BY Zenon, <1>6
      <4>2. pobj[u].event.type = "None"
          BY Zenon, <3>2 DEF IsDirty, IsPending
      <4>3. pobj[u].current # NoObj /\ ~ Deleting(pobj[u])
          BY Zenon, <1>1, <4>1, <4>2 DEF PendingsOK, getLatest, Deleting
      <4> QED BY Zenon, <1>8, <4>1, <4>3
    <3> QED BY Zenon, <1>11, <3>1, <3>2 DEF SkipsWrite
  <2>3. \A o \in files[b] : indexer[o.name] = o.uid
      BY Zenon, <1>2 DEF IndexedOK
  <2> QED BY Zenon, <1>1, <1>3, <1>7, <1>8, <2>1, <2>2, <2>3, JobRInv
<1>12. CASE ~ SkipsWrite(b)
  <2>1. /\ files'[b] = Marshal(b)
        /\ lastHash'[b] = IF jobs[b].items = {} THEN lastHash[b] ELSE Marshal(b)
        /\ \A a \in Batches : a # b => files'[a] = files[a] /\ lastHash'[a] = lastHash[a]
      BY Zenon, <1>1, <1>12 DEF Persist, TypeOK
  <2>2. \A o \in files'[b] : indexer[o.name] = o.uid
      BY Zenon, <1>4, <1>6, <2>1
  <2>3. \A u \in jobs[b].items : \E o \in files'[b] : o.uid = u
      BY Zenon, <1>5, <2>1
  <2>4. \A u \in Uids : /\ Live(u)
                        /\ pobj[u].current # NoObj
                        /\ ~ Deleting(pobj[u])
                        /\ KeyFunc[pobj[u].name] = b
                        => \E o \in files'[b] : o.uid = u
      BY Zenon, <1>8, <1>9, <1>10, <2>3
  <2>5. \A o \in Marshal(b) : o.uid <= lastUid
      BY Zenon, <1>1, <1>4, <1>6 DEF PendingsOK, Live
  <2>6. \A o \in lastHash'[b] : o.uid <= lastUid
      BY Zenon, <1>7, <2>1, <2>5
  <2>7. ASSUME files'[b] # lastHash'[b], NEW o \in lastHash'[b], Live(o.uid)
        PROVE  Deleting(pobj[o.uid])
    <3>1. jobs[b].items = {} /\ lastHash'[b] = lastHash[b]
        BY Zenon, <2>1, <2>7
    <3>2. CASE files[b] # lastHash[b]
        BY Zenon, <1>7, <2>7, <3>1, <3>2
    <3>3. CASE files[b] = lastHash[b]
        BY Zenon, <1>9, <1>10, <3>1, <3>3
    <3> QED BY Zenon, <3>2, <3>3
  <2> QED BY <1>1, <1>3, <2>1, <2>2, <2>3, <2>4, <2>6, <2>7, JobRInv
<1> QED BY Zenon, <1>11, <1>12

\* Batch takes every object of the indexer, so every object of the file.
LEMMA BatchRInv == ASSUME IInv, RInv, Batch PROVE RInv'
<1>1. TypeOK /\ PendingsOK /\ IndexerOK /\ JobsOK /\ FilesOK
    BY Zenon DEF IInv
<1>2. AddersOK /\ IndexedOK /\ DeletionsOK /\ CommittedOK /\ WritesOK /\ HashesOK
    BY Zenon DEF RInv
<1> DEFINE In(b) == {indexer[n] : n \in {m \in Names : KeyFunc[m] = b /\ indexer[m] # 0}}
<1>3. /\ UNCHANGED <<indexer, pobj, lastUid, cl, delAsked, files, lastHash>>
      /\ \A b \in Batches : /\ jobs'[b].items = {u \in In(b) : ~ Deleting(pobj[u])}
                            /\ jobs'[b].deletings = {u \in In(b) : Deleting(pobj[u])}
                            /\ jobs'[b].drop = 0
                            /\ jobs'[b].pc # "commit"
    BY Zenon DEF Batch, storeVars, diskVars, histVars
<1>4. \A b \in Batches : jobs[b].drop = 0
    BY Zenon, <1>1 DEF Batch, JobsOK, NoJob
<1>5. ASSUME NEW b \in Batches, NEW u \in In(b)
      PROVE  indexer[pobj[u].name] = u /\ Live(u)
    BY <1>1, <1>4 DEF IndexerOK
<1>6. ASSUME NEW b \in Batches, NEW o \in files[b]
      PROVE  o.uid \in In(b)
  <2>1. o.uid \in Uids /\ o.name \in Names
      BY Zenon, <1>1, Ranges
  <2>2. o.uid # 0
      BY <2>1 DEF Uids
  <2>3. indexer[o.name] = o.uid /\ KeyFunc[o.name] = b
      BY <1>1, <1>2 DEF IndexedOK, FilesOK
  <2> QED BY Zenon, <2>1, <2>2, <2>3
<1> HIDE DEF In
<1>7. AddersOK' /\ CommittedOK'
    BY Zenon, <1>2, <1>3 DEF AddersOK, CommittedOK, InFile, Live, Deleting
<1>8. IndexedOK'
    BY <1>2, <1>3, <1>5 DEF IndexedOK
<1>9. DeletionsOK'
    BY Zenon, <1>2, <1>3 DEF DeletionsOK, Deleting
<1>10. WritesOK'
    BY Zenon, <1>3, <1>6 DEF WritesOK
<1>11. HashesOK'
  <2>1. \A b \in Batches : \A u \in jobs'[b].items : Live(u) /\ ~ Deleting(pobj[u])
      BY Zenon, <1>3, <1>5
  <2>2. \A b \in Batches :
          /\ \A o \in lastHash[b] : o.uid <= lastUid
          /\ files[b] # lastHash[b] => \A o \in lastHash[b] : Live(o.uid) => Deleting(pobj[o.uid])
      BY Zenon, <1>2 DEF HashesOK
  <2>3. \A b \in Batches : files[b] # lastHash[b] =>
          \A o \in lastHash[b] : o.uid \notin jobs'[b].items
      BY Zenon, <2>1, <2>2
  <2> QED BY Zenon, <1>3, <2>2, <2>3 DEF HashesOK, Live, Deleting
<1> QED BY Zenon, <1>7, <1>8, <1>9, <1>10, <1>11 DEF RInv

\* commitOne commits an update of what was written, or a deletion.
LEMMA CommitOneRInv ==
  ASSUME IInv, RInv, NEW b \in Batches, CommitOne(b) PROVE RInv'
<1>1. TypeOK /\ JobsOK /\ FilesOK
    BY Zenon DEF IInv
<1>2. AddersOK /\ IndexedOK /\ DeletionsOK /\ CommittedOK /\ WritesOK /\ HashesOK
    BY Zenon DEF RInv
<1>3. UNCHANGED <<indexer, lastUid, cl, delAsked, files, lastHash>> /\ jobs[b].pc = "commit"
    BY Zenon DEF CommitOne, diskVars, histVars
<1>4. PICK u \in NextToCommit(b) :
        LET p == pobj[u]
            deletes == ~ Skipped(b, u) /\ Deleting(p)
        IN  /\ IF Skipped(b, u)
               THEN UNCHANGED pobj
               ELSE pobj' = [pobj EXCEPT ![u] = CommitObject(p)]
            /\ jobs' = [jobs EXCEPT
                          ![b].items = @ \ {u},
                          ![b].deletings = @ \ {u},
                          ![b].drop = IF deletes THEN u ELSE 0,
                          ![b].dropVer = IF deletes THEN p.event.obj.ver ELSE 0]
    BY Zenon DEF CommitOne
<1>5. u \in jobs[b].items \cup jobs[b].deletings
    BY Zenon DEF NextToCommit
<1>6. u \in Uids /\ Live(u) /\ KeyFunc[pobj[u].name] = b /\ pobj[u] \in PendingObject
    BY Zenon, <1>1, <1>5, Ranges DEF JobsOK
<1>7. /\ jobs'[b].items = jobs[b].items \ {u}
      /\ jobs'[b].deletings = jobs[b].deletings \ {u}
      /\ jobs'[b].drop = IF ~ Skipped(b, u) /\ Deleting(pobj[u]) THEN u ELSE 0
      /\ jobs'[b].pc = "commit"
      /\ \A a \in Batches : a # b => jobs'[a] = jobs[a]
    BY <1>1, <1>3, <1>4 DEF TypeOK, Job
<1>8. /\ \A w \in Uids : w # u => pobj'[w] = pobj[w]
      /\ Skipped(b, u) => pobj'[u] = pobj[u]
      /\ ~ Skipped(b, u) => pobj'[u] = CommitObject(pobj[u])
    BY Zenon, <1>1, <1>4, <1>6 DEF TypeOK
<1>9. ~ Skipped(b, u) => /\ pobj'[u].name = pobj[u].name
                         /\ pobj'[u].deleted <=> Deleting(pobj[u])
                         /\ ~ Deleting(pobj'[u])
  <2> DEFINE q == CommitObject(pobj[u])
  <2>1. /\ q.name = pobj[u].name /\ q.event = NoEvent
        /\ q.deleted <=> Deleting(pobj[u])
      BY Zenon, <1>6 DEF CommitObject, PendingObject
  <2>2. ~ Deleting(q)
      BY <2>1 DEF Deleting, NoEvent
  <2> HIDE DEF q
  <2> QED BY Zenon, <1>8, <2>1, <2>2 DEF q
<1>10. \A w \in Uids : pobj'[w].name = pobj[w].name
    BY Zenon, <1>8, <1>9
<1>11. \A a \in Batches : /\ jobs'[a].items \subseteq jobs[a].items
                          /\ jobs'[a].deletings \subseteq jobs[a].deletings
                          /\ jobs'[a].pc = jobs[a].pc
    BY Zenon, <1>3, <1>7
<1>12. \A a \in Batches : \A w \in jobs'[a].items \cup jobs'[a].deletings :
         w \in Uids /\ w # u /\ pobj'[w] = pobj[w]
  <2>1. \A a \in Batches : \A w \in jobs[a].items \cup jobs[a].deletings :
          w \in Uids /\ KeyFunc[pobj[w].name] = a
      BY Zenon, <1>1, Ranges DEF JobsOK
  <2> QED BY <1>6, <1>7, <1>8, <1>11, <2>1
<1>13. AddersOK'
    BY Zenon, <1>2, <1>3 DEF AddersOK
<1>14. IndexedOK'
  <2>1. \A a \in Batches : \A w \in jobs'[a].items \cup jobs'[a].deletings : indexer[pobj'[w].name] = w
    <3> SUFFICES ASSUME NEW a \in Batches, NEW w \in jobs'[a].items \cup jobs'[a].deletings
                 PROVE  indexer[pobj'[w].name] = w
        BY Zenon
    <3>1. w \in jobs[a].items \cup jobs[a].deletings
        BY Zenon, <1>11
    <3>2. indexer[pobj[w].name] = w
        BY <1>2, <3>1, Zenon DEF IndexedOK
    <3>3. pobj'[w] = pobj[w]
        BY <1>12, Zenon
    <3> QED BY ONLY <3>2, <3>3, Zenon
  <2>2. ASSUME NEW a \in Batches, jobs'[a].drop # 0
        PROVE  /\ pobj'[jobs'[a].drop].deleted
               /\ KeyFunc[pobj'[jobs'[a].drop].name] = a
               /\ indexer[pobj'[jobs'[a].drop].name] = jobs'[a].drop
    <3>1. CASE a = b
      <4>1. jobs'[a].drop = u /\ ~ Skipped(b, u) /\ Deleting(pobj[u])
          BY Zenon, <1>7, <2>2, <3>1
      <4>2. indexer[pobj[u].name] = u
          BY <1>2, <1>5, Zenon DEF IndexedOK
      <4>3. pobj'[u].deleted /\ pobj'[u].name = pobj[u].name
          BY Zenon, <1>9, <4>1
      <4> QED BY <1>6, <3>1, <4>1, <4>2, <4>3, Zenon
    <3>2. CASE a # b
      <4>1. PICK w \in Uids : w = jobs[a].drop /\ jobs'[a].drop = w
          BY Zenon, <1>1, <1>7, <2>2, <3>2, Ranges
      <4>2. pobj[w].deleted /\ KeyFunc[pobj[w].name] = a /\ indexer[pobj[w].name] = w
        <5>1. jobs[a].drop # 0
            BY <2>2, <4>1, Zenon
        <5>2. /\ pobj[jobs[a].drop].deleted
              /\ KeyFunc[pobj[jobs[a].drop].name] = a
              /\ indexer[pobj[jobs[a].drop].name] = jobs[a].drop
            BY <1>2, <5>1, Zenon DEF IndexedOK
        <5> QED BY ONLY <4>1, <5>2, Zenon
      <4>3. w # u
          BY Zenon, <1>6, <4>2 DEF Live
      <4> QED BY Zenon, <1>8, <4>1, <4>2, <4>3
    <3> QED BY Zenon, <3>1, <3>2
  <2>3. \A a \in Batches : \A o \in files[a] : indexer[o.name] = o.uid
      BY Zenon, <1>2 DEF IndexedOK
  <2> QED BY Zenon, <1>3, <2>1, <2>2, <2>3 DEF IndexedOK
<1>15. DeletionsOK'
  <2>1. \A w \in Uids : Deleting(pobj'[w]) => w \in delAsked
      BY Zenon, <1>2, <1>8, <1>9 DEF DeletionsOK
  <2>2. \A a \in Batches : \A w \in jobs'[a].deletings : Deleting(pobj'[w])
      BY Zenon, <1>2, <1>11, <1>12 DEF DeletionsOK
  <2> QED BY Zenon, <1>2, <1>3, <2>1, <2>2 DEF DeletionsOK, Deleting
<1>16. CommittedOK'
  <2> SUFFICES ASSUME NEW w \in Uids, Live(w)', pobj'[w].current # NoObj, ~ Deleting(pobj'[w])
               PROVE  \E o \in files[KeyFunc[pobj[w].name]] : o.uid = w
      BY Zenon, <1>3, <1>10 DEF CommittedOK, InFile, Deleting
  <2>1. CASE pobj'[w] = pobj[w]
      BY Zenon, <1>2, <2>1 DEF CommittedOK, InFile, Live
  <2>2. CASE pobj'[w] # pobj[w]
    <3>1. w = u /\ ~ Skipped(b, u)
        BY Zenon, <1>8, <2>2
    <3>2. ~ Deleting(pobj[u])
        BY Zenon, <1>9, <3>1 DEF Live
    <3>3. u \in jobs[b].items
        BY Zenon, <1>2, <1>5, <3>2 DEF DeletionsOK
    <3> QED BY Zenon, <1>2, <1>3, <1>6, <3>1, <3>3 DEF WritesOK, InFile
  <2> QED BY Zenon, <2>1, <2>2
<1>17. WritesOK'
  <2>1. \A a \in Batches : jobs'[a].pc = "persist" => a # b
      BY Zenon, <1>7
  <2>2. \A a \in Batches : jobs'[a].pc = "persist" =>
          \A o \in files[a] : o.uid \in jobs'[a].items \cup jobs'[a].deletings
      BY Zenon, <1>2, <1>7, <2>1 DEF WritesOK
  <2>3. \A a \in Batches : jobs'[a].pc = "commit" =>
          \A w \in jobs'[a].items : \E o \in files[a] : o.uid = w
      BY Zenon, <1>2, <1>11 DEF WritesOK, InFile
  <2> QED BY Zenon, <1>3, <2>2, <2>3 DEF WritesOK, InFile
<1>18. HashesOK'
  <2>1. \A a \in Batches : \A o \in lastHash[a] : o.uid \in Uids
      BY Zenon, <1>1, Ranges
  <2>2. \A a \in Batches :
          /\ \A o \in lastHash[a] : o.uid <= lastUid
          /\ files[a] # lastHash[a] =>
                /\ \A o \in lastHash[a] : Live(o.uid) => Deleting(pobj[o.uid])
                /\ jobs[a].pc = "persist" => \A o \in lastHash[a] : o.uid \notin jobs[a].items
      BY Zenon, <1>2 DEF HashesOK
  <2>3. \A w \in Uids : (Live(w) => Deleting(pobj[w])) => (Live(w)' => Deleting(pobj'[w]))
    <3> SUFFICES ASSUME NEW w \in Uids, Live(w) => Deleting(pobj[w]), Live(w)'
                 PROVE  Deleting(pobj'[w])
        BY Zenon
    <3>1. CASE pobj'[w] = pobj[w]
        BY Zenon, <3>1 DEF Live
    <3>2. CASE pobj'[w] # pobj[w]
      <4>1. w = u /\ ~ Skipped(b, u)
          BY Zenon, <1>8, <3>2
      <4> QED BY Zenon, <1>6, <1>9, <4>1 DEF Live
    <3> QED BY Zenon, <3>1, <3>2
  <2>4. \A a \in Batches : files[a] # lastHash[a] =>
          /\ \A o \in lastHash[a] : Live(o.uid)' => Deleting(pobj'[o.uid])
          /\ jobs'[a].pc = "persist" => \A o \in lastHash[a] : o.uid \notin jobs'[a].items
      BY Zenon, <1>11, <2>1, <2>2, <2>3
  <2> QED BY Zenon, <1>3, <2>2, <2>4 DEF HashesOK, Deleting
<1> QED BY Zenon, <1>13, <1>14, <1>15, <1>16, <1>17, <1>18 DEF RInv

\* indexer.Delete removes the name of a deleted object, which no file has.
LEMMA DropDeletedRInv ==
  ASSUME IInv, RInv, NEW b \in Batches, DropDeleted(b) PROVE RInv'
<1>1. TypeOK /\ JobsOK /\ FilesOK
    BY Zenon DEF IInv
<1>2. AddersOK /\ IndexedOK /\ DeletionsOK /\ CommittedOK /\ WritesOK /\ HashesOK
    BY Zenon DEF RInv
<1>3. /\ UNCHANGED <<pobj, lastUid, cl, delAsked, files, lastHash>>
      /\ jobs[b].drop # 0
    BY Zenon DEF DropDeleted, diskVars, histVars
<1>4. PICK u \in Uids : u = jobs[b].drop
    BY Zenon, <1>1, <1>3, Ranges
<1>5. PICK n : n = pobj[u].name
    BY Zenon
<1>6. pobj[u].deleted /\ KeyFunc[n] = b /\ indexer[n] = u
    BY Zenon, <1>2, <1>3, <1>4, <1>5 DEF IndexedOK
<1>7. /\ indexer' = [indexer EXCEPT ![n] = 0]
      /\ jobs' = [jobs EXCEPT ![b].drop = 0, ![b].dropVer = 0]
    BY Zenon, <1>4, <1>5 DEF DropDeleted
<1>8. /\ \A a \in Batches : /\ jobs'[a].items = jobs[a].items
                            /\ jobs'[a].deletings = jobs[a].deletings
                            /\ jobs'[a].pc = jobs[a].pc
                            /\ a # b => jobs'[a].drop = jobs[a].drop
      /\ jobs'[b].drop = 0
    BY <1>1, <1>7 DEF TypeOK, Job
<1>9. \A m \in Names : indexer'[m] = IF m = n THEN 0 ELSE indexer[m]
    BY Zenon, <1>1, <1>7 DEF TypeOK
<1>10. AddersOK'
    BY Zenon, <1>1, <1>2, <1>3, <1>9 DEF AddersOK, IInv, ClientsOK
<1>11. IndexedOK'
  <2>1. ASSUME NEW a \in Batches, NEW o \in files[a]
        PROVE  indexer'[o.name] = o.uid
    <3>1. o.name \in Names /\ indexer[o.name] = o.uid /\ Live(o.uid)
      <4>1. o.name \in Names
          BY Zenon, <1>1, Ranges
      <4>2. indexer[o.name] = o.uid
          BY <1>2, Zenon DEF IndexedOK
      <4>3. Live(o.uid)
          BY <1>1, Zenon DEF FilesOK
      <4> QED BY Zenon, <4>1, <4>2, <4>3
    <3>2. o.name # n
        BY Zenon, <1>6, <3>1 DEF Live
    <3> QED BY Zenon, <1>9, <3>1, <3>2
  <2>2. ASSUME NEW a \in Batches, NEW w \in jobs[a].items \cup jobs[a].deletings
        PROVE  indexer'[pobj[w].name] = w
    <3>1. w \in Uids /\ Live(w) /\ indexer[pobj[w].name] = w
        BY Zenon, <1>1, <1>2, Ranges DEF JobsOK, IndexedOK
    <3>2. pobj[w].name \in Names
        BY Zenon, <1>1, <3>1 DEF TypeOK, PendingObject, Live
    <3>3. pobj[w].name # n
        BY Zenon, <1>6, <3>1 DEF Live
    <3> QED BY Zenon, <1>9, <3>1, <3>2, <3>3
  <2>3. ASSUME NEW a \in Batches, jobs'[a].drop # 0
        PROVE  /\ pobj[jobs'[a].drop].deleted
               /\ KeyFunc[pobj[jobs'[a].drop].name] = a
               /\ indexer'[pobj[jobs'[a].drop].name] = jobs'[a].drop
    <3>1. a # b /\ jobs'[a].drop = jobs[a].drop
        BY Zenon, <1>8, <2>3
    <3>2. PICK w \in Uids : w = jobs[a].drop
        BY Zenon, <1>1, <2>3, <3>1, Ranges
    <3>3. pobj[w].deleted /\ KeyFunc[pobj[w].name] = a /\ indexer[pobj[w].name] = w
        BY Zenon, <1>2, <2>3, <3>1, <3>2 DEF IndexedOK
    <3>4. pobj[w].name # 0
        BY Zenon, <1>1, <2>3, <3>1, <3>2 DEF JobsOK
    <3>5. pobj[w].name \in Names
        BY Zenon, <1>1, <3>4 DEF TypeOK, PendingObject
    <3>6. pobj[w].name # n
        BY Zenon, <1>6, <3>1, <3>3
    <3> QED BY Zenon, <1>9, <3>1, <3>2, <3>3, <3>5, <3>6
  <2> QED BY Zenon, <1>3, <1>8, <2>1, <2>2, <2>3 DEF IndexedOK
<1>12. DeletionsOK'
    BY Zenon, <1>2, <1>3, <1>8 DEF DeletionsOK, Deleting
<1>13. CommittedOK' /\ WritesOK'
    BY <1>2, <1>3, <1>8 DEF CommittedOK, WritesOK, InFile, Live, Deleting
<1>14. HashesOK'
    BY Zenon, <1>2, <1>3, <1>8 DEF HashesOK, Live, Deleting
<1> QED BY Zenon, <1>10, <1>11, <1>12, <1>13, <1>14 DEF RInv

\* After a restart the indexer and the pendingObjects are those of the files.
LEMMA RestartRInv == ASSUME IInv, RInv, Restart PROVE RInv'
<1>1. TypeOK /\ PendingsOK /\ FilesOK /\ ClientsOK
    BY Zenon DEF IInv
<1>2. AddersOK /\ IndexedOK /\ DeletionsOK
    BY Zenon DEF RInv
<1>3. /\ UNCHANGED <<lastUid, files, delAsked>> /\ lastHash' = files
      /\ \A b \in Batches : jobs'[b] = NoJob
      /\ \A c \in Clients : cl'[c] = Idle(c)
    BY Zenon DEF Restart, histVars
<1>4. \A c \in Clients : cl'[c].pc = "idle"
  <2>1. \A c \in Clients : cl[c] \in Client
      BY Zenon, <1>1 DEF TypeOK
  <2>2. \A c \in Clients : Idle(c).pc = "idle"
      BY Zenon, <2>1, IdleClient
  <2> QED BY Zenon, <1>3, <2>2
<1>5. \A b \in Batches : /\ jobs'[b].items = {} /\ jobs'[b].deletings = {}
                         /\ jobs'[b].drop = 0 /\ jobs'[b].pc = "done"
    BY <1>3 DEF NoJob
<1>6. ASSUME NEW o \in Stored
      PROVE  \E b \in Batches : /\ o \in files[b] /\ KeyFunc[o.name] = b
                                /\ indexer[o.name] = o.uid /\ o.name \in Names
                                /\ o.uid <= lastUid
  <2>1. PICK b \in Batches : o \in files[b]
      BY Zenon DEF Stored
  <2>2. o.uid \in Uids /\ o.name \in Names
      BY Zenon, <1>1, <2>1, Ranges
  <2>3. KeyFunc[o.name] = b /\ Live(o.uid) /\ indexer[o.name] = o.uid
      BY <1>1, <1>2, <2>1 DEF FilesOK, IndexedOK
  <2>4. o.uid <= lastUid
      BY Zenon, <1>1, <2>2, <2>3 DEF PendingsOK, Live
  <2> QED BY Zenon, <2>1, <2>2, <2>3, <2>4
<1>7. ASSUME NEW o \in Stored
      PROVE  indexer'[o.name] = o.uid
  <2>1. PICK q \in Stored : q.name = o.name /\ indexer'[o.name] = q.uid
    <3>1. o.name \in Names
        BY Zenon, <1>6
    <3>2. indexer'[o.name] = (CHOOSE q \in Stored : q.name = o.name).uid
        BY Zenon, <3>1 DEF Restart
    <3> QED BY Zenon, <3>2
  <2>2. q.uid = indexer[q.name] /\ o.uid = indexer[o.name]
      BY Zenon, <1>6
  <2> QED BY Zenon, <2>1, <2>2
<1>8. ASSUME NEW u \in Uids
      PROVE  /\ ~ Deleting(pobj'[u])
             /\ pobj'[u].current # NoObj => \E o \in Stored : o.uid = u /\ pobj'[u].name = o.name
  <2>1. CASE \E o \in Stored : o.uid = u
    <3>1. PICK q \in Stored : q.uid = u /\ pobj'[u] = initPendingObject(q)
        BY Zenon, <2>1 DEF Restart
    <3> QED BY <3>1 DEF initPendingObject, Deleting, NoEvent
  <2>2. CASE ~ \E o \in Stored : o.uid = u
    <3>1. pobj'[u] = NoPending
        BY Zenon, <2>2 DEF Restart
    <3> QED BY <3>1 DEF NoPending, Deleting, NoEvent
  <2> QED BY Zenon, <2>1, <2>2
<1>9. \A b \in Batches : files[b] \subseteq Stored
    BY Zenon DEF Stored
<1>10. AddersOK'
    BY Zenon, <1>4 DEF AddersOK
<1>11. IndexedOK'
    BY Zenon, <1>3, <1>5, <1>7, <1>9 DEF IndexedOK
<1>12. DeletionsOK'
    BY Zenon, <1>4, <1>5, <1>8 DEF DeletionsOK, Deleting
<1>13. CommittedOK'
  <2> SUFFICES ASSUME NEW u \in Uids, pobj'[u].current # NoObj
               PROVE  \E o \in files[KeyFunc[pobj'[u].name]] : o.uid = u
      BY Zenon, <1>3 DEF CommittedOK, InFile
  <2>1. PICK o \in Stored : o.uid = u /\ pobj'[u].name = o.name
      BY Zenon, <1>8
  <2> QED BY Zenon, <1>6, <2>1
<1>14. WritesOK'
    BY Zenon, <1>5 DEF WritesOK
<1>15. HashesOK'
    BY Zenon, <1>3, <1>6, <1>9 DEF HashesOK
<1> QED BY Zenon, <1>10, <1>11, <1>12, <1>13, <1>14, <1>15 DEF RInv

-----------------------------------------------------------------------------
(* The refinement *)

\* Every step preserves the invariant.
LEMMA NextRInv ==
  ASSUME ~ FailedWriteLands, OneCreator, IInv, RInv, [Next]_vars PROVE RInv'
<1>0. TypeOK
    BY Zenon DEF IInv
<1>1. CASE \E c \in Creators, n \in Names : AddLookup(c, n)
    BY Zenon, <1>0, <1>1, AddLookupRInv
<1>2. CASE \E c \in Clients, n \in Names : Read(c, n) \/ UpdateLookup(c, n) \/ DeleteLookup(c, n)
    BY Zenon, <1>0, <1>2, CallersRInv
<1>3. CASE \E c \in Clients : AddInsert(c) \/ RequestUpdate(c) \/ RequestDelete(c)
    BY Zenon, <1>3, AddInsertRInv, RequestUpdateRInv, RequestDeleteRInv
<1>4. CASE \E c \in Clients : WaitCommitted(c) \/ WaitDeleted(c) \/ WaitFailed(c)
    BY Zenon, <1>0, <1>4, CallersRInv
<1>5. CASE PersistMeta \/ Batch \/ WaitAll \/ Restart
    BY Zenon, <1>5, LoopRInv, BatchRInv, RestartRInv
<1>6. CASE \E b \in Batches : Persist(b) \/ PersistFails(b)
    BY Zenon, <1>6, PersistRInv, PersistFailsRInv
<1>7. CASE \E b \in Batches : CommitOne(b) \/ DropDeleted(b) \/ JobDone(b)
    BY Zenon, <1>7, CommitOneRInv, DropDeletedRInv, JobDoneRInv
<1>8. CASE UNCHANGED vars
    BY Zenon, <1>8, QuietRInv DEF vars
<1> QED BY Zenon, <1>1, <1>2, <1>3, <1>4, <1>5, <1>6, <1>7, <1>8 DEF Next
-----------------------------------------------------------------------------
\* What DurableStore sees of the store.
Disk == {o.uid : o \in Stored}
Told == {u \in Uids : acked[u] > 0}

\* A write of a batch loses only objects whose deletion was asked for, and brings
\* back none that was reported as deleted.
LEMMA PersistStep ==
  ASSUME IInv, RInv, NEW b \in Batches, Persist(b)
  PROVE  /\ Disk' \subseteq Uids
         /\ Disk \ Disk' \subseteq delAsked
         /\ Disk' \cap delAcked = {}
         /\ UNCHANGED <<acked, delAsked, delAcked>>
<1>1. TypeOK /\ JobsOK /\ AckedDeletionsOK /\ WritesOK /\ DeletionsOK
    BY Zenon DEF IInv, RInv
<1>2. TypeOK' /\ FilesOK' /\ WritesOK'
    BY Zenon, PersistIInv, PersistRInv DEF IInv, RInv
<1>3. /\ UNCHANGED <<pobj, acked, delAsked, delAcked>>
      /\ jobs[b].pc = "persist" /\ jobs'[b].pc = "commit" /\ jobs'[b].items = jobs[b].items
    BY Zenon, <1>1 DEF Persist, TypeOK, Job, storeVars, histVars
<1>4. \A a \in Batches : a # b => files'[a] = files[a]
    BY Zenon, <1>1 DEF Persist, TypeOK
<1>5. Disk' \subseteq Uids
    BY <1>2 DEF Disk, Stored, TypeOK, Obj
<1>6. ASSUME NEW w \in Disk, w \notin Disk'
      PROVE  w \in delAsked
  <2>1. PICK a \in Batches : \E o \in files[a] : o.uid = w
      BY Zenon DEF Disk, Stored
  <2>2. a = b
      BY Zenon, <1>4, <1>6, <2>1 DEF Disk, Stored
  <2>3. w \in jobs[b].items \/ w \in jobs[b].deletings
      BY Zenon, <1>1, <1>3, <2>1, <2>2 DEF WritesOK
  <2>4. w \notin jobs[b].items
      BY <1>2, <1>3, <1>6 DEF WritesOK, InFile, Disk, Stored
  <2>5. w \in Uids /\ Deleting(pobj[w])
      BY Zenon, <1>1, <2>3, <2>4, Ranges DEF DeletionsOK
  <2> QED BY Zenon, <1>1, <2>5 DEF DeletionsOK
<1>7. Disk' \cap delAcked = {}
  <2>1. \A w \in Disk' : Live(w)'
      BY <1>2 DEF Disk, Stored, FilesOK
  <2> QED BY Zenon, <1>1, <1>3, <2>1 DEF AckedDeletionsOK, Live
<1> QED BY Zenon, <1>3, <1>5, <1>6, <1>7

\* An Add or an Update that returns leaves its object in a file, unless somebody
\* asked to delete it meanwhile.
LEMMA WaitCommittedStep ==
  ASSUME IInv, RInv, NEW c \in Clients, WaitCommitted(c)
  PROVE  /\ UNCHANGED <<Disk, delAsked, delAcked>>
         /\ \/ Told' = Told
            \/ \E u \in Uids : u \in Disk \cup delAsked /\ Told' = Told \cup {u}
<1>1. TypeOK /\ ClientsOK /\ CommittedOK /\ DeletionsOK /\ cl[c] \in Client
    BY Zenon DEF IInv, RInv, TypeOK
<1>2. cl[c].pc = "waiting" /\ UNCHANGED <<files, delAsked, delAcked>>
    BY Zenon DEF WaitCommitted, diskVars
<1>3. Disk' = Disk
    BY Zenon, <1>2 DEF Disk, Stored
<1>4. cl[c].ptr # 0 /\ pobj[cl[c].ptr].name # 0
    BY Zenon, <1>1, <1>2 DEF ClientsOK
<1>5. PICK u \in Uids : u = cl[c].ptr
    BY <1>1, <1>4, BoundsAssumption DEF Client, Uids
<1>6. Live(u) /\ pobj[u].current # NoObj /\ pobj[u] \in PendingObject
    BY Zenon, <1>1, <1>4, <1>5 DEF WaitCommitted, Live, TypeOK
<1>7. u \in Disk \cup delAsked
  <2>1. KeyFunc[pobj[u].name] \in Batches
      BY Zenon, <1>6, KeyFuncAssumption DEF Live, PendingObject
  <2>2. Deleting(pobj[u]) \/ \E o \in files[KeyFunc[pobj[u].name]] : o.uid = u
      BY Zenon, <1>1, <1>6 DEF CommittedOK, InFile
  <2> QED BY Zenon, <1>1, <2>1, <2>2 DEF DeletionsOK, Disk, Stored
<1>8. Told' = Told \/ Told' = Told \cup {u}
  <2>1. acked' = [acked EXCEPT ![u] = IF @ < cl[c].ver THEN cl[c].ver ELSE @]
      BY Zenon, <1>5 DEF WaitCommitted
  <2>2. /\ \A w \in Uids : w # u => acked'[w] = acked[w]
        /\ acked'[u] = acked[u] \/ acked'[u] > acked[u]
      BY Zenon, <1>1, <2>1, BoundsAssumption DEF TypeOK, Client
  <2>3. acked[u] \in Nat /\ acked'[u] \in Nat
      BY <1>1, <2>1, BoundsAssumption DEF TypeOK, Client
  <2>4. CASE acked'[u] = acked[u]
      BY Zenon, <2>2, <2>4 DEF Told
  <2>5. CASE acked'[u] > acked[u]
    <3>1. acked'[u] > 0
        BY <2>3, <2>5
    <3> QED BY Zenon, <2>2, <3>1 DEF Told
  <2> QED BY Zenon, <2>2, <2>4, <2>5
<1> QED BY Zenon, <1>2, <1>3, <1>7, <1>8

\* A Delete that returns leaves no file with its object.
LEMMA WaitDeletedStep ==
  ASSUME IInv, RInv, NEW c \in Clients, WaitDeleted(c)
  PROVE  /\ UNCHANGED <<Disk, Told, delAsked>>
         /\ \E u \in Uids : u \in delAsked \ Disk /\ delAcked' = delAcked \cup {u}
<1>1. TypeOK /\ ClientsOK /\ FilesOK /\ DeletionsOK /\ cl[c] \in Client
    BY Zenon DEF IInv, RInv, TypeOK
<1>2. /\ cl[c].pc = "waitdel" /\ UNCHANGED <<files, acked, delAsked>>
      /\ pobj[cl[c].ptr].event.type = "None" /\ delAcked' = delAcked \cup {cl[c].ptr}
    BY Zenon DEF WaitDeleted, diskVars, IsPending
<1>3. Disk' = Disk /\ Told' = Told
    BY Zenon, <1>2 DEF Disk, Told, Stored
<1>4. cl[c].ptr # 0 /\ pobj[cl[c].ptr].deleted
    BY Zenon, <1>1, <1>2 DEF ClientsOK, Deleting
<1>5. PICK u \in Uids : u = cl[c].ptr
    BY <1>1, <1>4, BoundsAssumption DEF Client, Uids
<1>6. u \in delAsked
    BY Zenon, <1>1, <1>2, <1>5 DEF DeletionsOK
<1>7. u \notin Disk
    BY <1>1, <1>4, <1>5 DEF FilesOK, Live, Disk, Stored
<1> QED BY Zenon, <1>2, <1>3, <1>5, <1>6, <1>7

\* A Delete that is accepted is a request to delete.
LEMMA RequestDeleteStep ==
  ASSUME IInv, NEW c \in Clients, RequestDelete(c)
  PROVE  /\ UNCHANGED <<Disk, Told, delAcked>>
         /\ \/ delAsked' = delAsked
            \/ \E u \in Uids : delAsked' = delAsked \cup {u}
<1>1. TypeOK /\ ClientsOK /\ cl[c] \in Client
    BY Zenon DEF IInv, TypeOK
<1>2. cl[c].ptr # 0
    BY Zenon, <1>1 DEF RequestDelete, ClientsOK
<1>3. PICK u \in Uids : u = cl[c].ptr
    BY <1>1, <1>2, BoundsAssumption DEF Client, Uids
<1>4. UNCHANGED <<files, acked, delAcked>>
    BY Zenon DEF RequestDelete, diskVars
<1>5. delAsked' = delAsked \/ delAsked' = delAsked \cup {u}
    BY Zenon, <1>3 DEF RequestDelete
<1> QED BY Zenon, <1>4, <1>5 DEF Disk, Told, Stored

\* Every other step leaves alone what DurableStore sees, a restart included.
LEMMA OtherStep ==
  ASSUME ~ FailedWriteLands, NEW c, NEW n, NEW b,
         \/ AddLookup(c, n) \/ AddInsert(c)
         \/ Read(c, n) \/ UpdateLookup(c, n) \/ DeleteLookup(c, n)
         \/ RequestUpdate(c) \/ WaitFailed(c)
         \/ PersistMeta \/ Batch \/ PersistFails(b)
         \/ CommitOne(b) \/ DropDeleted(b) \/ JobDone(b) \/ WaitAll
         \/ Restart
         \/ UNCHANGED vars
  PROVE  UNCHANGED <<Disk, Told, delAsked, delAcked>>
<1>1. UNCHANGED <<files, acked, delAsked, delAcked>>
    BY Zenon DEF AddLookup, AddInsert, Read, UpdateLookup, DeleteLookup, RequestUpdate, WaitFailed,
           PersistMeta, Batch, PersistFails, CommitOne, DropDeleted, JobDone, WaitAll, Restart,
           vars, storeVars, diskVars, loopVars, histVars
<1> QED BY Zenon, <1>1 DEF Disk, Told, Stored

\* Every step of the store is a step of DurableStore, or one it does not see.
LEMMA StepPromise ==
  ASSUME ~ FailedWriteLands, IInv, RInv, [Next]_vars
  PROVE  [Promise!Next]_Promise!vars
<1>1. ASSUME UNCHANGED <<Disk, Told, delAsked, delAcked>>
      PROVE  UNCHANGED Promise!vars
    BY Zenon, <1>1 DEF Promise!vars, Disk, Told
<1>2. CASE \E b \in Batches : Persist(b)
  <2>1. Promise!Write
      BY Zenon, <1>2, PersistStep DEF Promise!Write, Disk, Told
  <2> QED BY Zenon, <2>1 DEF Promise!Next
<1>3. CASE \E c \in Clients : WaitCommitted(c)
  <2>1. UNCHANGED <<Disk, delAsked, delAcked>>
      BY Zenon, <1>3, WaitCommittedStep
  <2>2. CASE Told' = Told
      BY Zenon, <1>1, <2>1, <2>2
  <2>3. CASE \E u \in Uids : u \in Disk \cup delAsked /\ Told' = Told \cup {u}
    <3>1. PICK u \in Uids : Promise!TellStored(u)
        BY Zenon, <2>1, <2>3 DEF Promise!TellStored, Disk, Told
    <3> QED BY Zenon, <3>1 DEF Promise!Next
  <2> QED BY Zenon, <1>3, <2>2, <2>3, WaitCommittedStep
<1>4. CASE \E c \in Clients : WaitDeleted(c)
  <2>1. PICK u \in Uids : Promise!TellDeleted(u)
      BY Zenon, <1>4, WaitDeletedStep DEF Promise!TellDeleted, Disk, Told
  <2> QED BY Zenon, <2>1 DEF Promise!Next
<1>5. CASE \E c \in Clients : RequestDelete(c)
  <2>1. UNCHANGED <<Disk, Told, delAcked>>
      BY Zenon, <1>5, RequestDeleteStep
  <2>2. CASE delAsked' = delAsked
      BY Zenon, <1>1, <2>1, <2>2
  <2>3. CASE \E u \in Uids : delAsked' = delAsked \cup {u}
    <3>1. PICK u \in Uids : Promise!AskDelete(u)
        BY Zenon, <2>1, <2>3 DEF Promise!AskDelete, Disk, Told
    <3> QED BY Zenon, <3>1 DEF Promise!Next
  <2> QED BY Zenon, <1>5, <2>2, <2>3, RequestDeleteStep
<1>6. CASE \/ \E c \in Creators, n \in Names : AddLookup(c, n)
           \/ \E c \in Clients, n \in Names : Read(c, n) \/ UpdateLookup(c, n) \/ DeleteLookup(c, n)
           \/ \E c \in Clients : AddInsert(c) \/ RequestUpdate(c) \/ WaitFailed(c)
           \/ PersistMeta \/ Batch \/ WaitAll \/ Restart \/ UNCHANGED vars
           \/ \E b \in Batches : PersistFails(b) \/ CommitOne(b) \/ DropDeleted(b) \/ JobDone(b)
  <2>1. UNCHANGED <<Disk, Told, delAsked, delAcked>>
      BY Zenon, <1>6, OtherStep
  <2> QED BY Zenon, <1>1, <2>1
<1> QED BY Zenon, <1>2, <1>3, <1>4, <1>5, <1>6 DEF Next

\* A new store has no files and has told nothing.
LEMMA InitPromise == Init => Promise!Init
<1> SUFFICES ASSUME Init PROVE Promise!Init
    BY Zenon
<1>1. Disk = {}
    BY Zenon DEF Init, Disk, Stored
<1>2. Told = {}
    BY DEF Init, Told
<1> QED BY Zenon, <1>1, <1>2 DEF Promise!Init, Init, Disk, Told

\* What the store's answers tell its callers is true of its files: on a storage
\* that takes no write it reports as failed, and with one caller creating the
\* objects, the files, the Waits that returned and the deletions asked for behave
\* as DurableStore says, through any number of restarts.
THEOREM KeepsItsPromise == ~ FailedWriteLands /\ OneCreator => (Spec => KeepsPromise)
<1> SUFFICES ASSUME ~ FailedWriteLands, OneCreator PROVE Spec => KeepsPromise
    BY Zenon
<1>1. Spec => []IInv
    BY Zenon, Invariance
<1>2. Init => RInv
    BY Zenon, InitRInv
<1>3. IInv /\ RInv /\ [Next]_vars => RInv'
    BY Zenon, NextRInv
<1>4. Init => Promise!Init
    BY Zenon, InitPromise
<1>5. IInv /\ RInv /\ [Next]_vars => [Promise!Next]_Promise!vars
    BY Zenon, StepPromise
<1> QED BY <1>1, <1>2, <1>3, <1>4, <1>5, PTL DEF Spec, KeepsPromise, Promise!Spec

\* What DurableStore allows keeps the answers true.
LEMMA PromiseTruthful ==
  ASSUME Promise!Truthful, [Promise!Next]_Promise!vars PROVE Promise!Truthful'
<1>1. CASE Promise!Write
    BY Zenon, <1>1 DEF Promise!Truthful, Promise!Write
<1>2. CASE \E u \in Uids : Promise!AskDelete(u)
    BY Zenon, <1>2 DEF Promise!Truthful, Promise!AskDelete
<1>3. CASE \E u \in Uids : Promise!TellStored(u)
    BY Zenon, <1>3 DEF Promise!Truthful, Promise!TellStored
<1>4. CASE \E u \in Uids : Promise!TellDeleted(u)
    BY Zenon, <1>4 DEF Promise!Truthful, Promise!TellDeleted
<1>5. CASE UNCHANGED Promise!vars
    BY Zenon, <1>5 DEF Promise!Truthful, Promise!vars
<1> QED BY Zenon, <1>1, <1>2, <1>3, <1>4, <1>5 DEF Promise!Next

\* An object whose Add or Update was reported as done is in the files until its
\* deletion is asked for, and one whose Delete was reported as done never is.
THEOREM AnswersTrue == ~ FailedWriteLands /\ OneCreator => (Spec => []Promise!Truthful)
<1> SUFFICES ASSUME ~ FailedWriteLands, OneCreator PROVE Spec => []Promise!Truthful
    BY Zenon
<1>1. Spec => KeepsPromise
    BY Zenon, KeepsItsPromise
<1>2. Promise!Init => Promise!Truthful
    BY Zenon DEF Promise!Init, Promise!Truthful
<1>3. Promise!Truthful /\ [Promise!Next]_Promise!vars => Promise!Truthful'
    BY Zenon, PromiseTruthful
<1> QED BY <1>1, <1>2, <1>3, PTL DEF KeepsPromise, Promise!Spec

-----------------------------------------------------------------------------
(* The resource versions *)

\* No version is ahead of the seed, and a pending event is ahead of the committed
\* object; RequestDelete sets the version of both.
Versioned(p, s) ==
    /\ p.event.obj # NoObj => p.event.obj.ver <= s
    /\ p.current # NoObj => p.current.ver <= s
    /\ p.event.obj # NoObj /\ p.current # NoObj =>
          IF Deleting(p) THEN p.event.obj = p.current
          ELSE p.event.obj.ver > p.current.ver

VersionsOK == \A u \in Uids : Versioned(pobj[u], seed)

\* An object read since the last restart that is not older than the latest one
\* has the contents of the latest one.
UpToDate(o, p, s) ==
    /\ o.ver <= s /\ p.current # NoObj
    /\ o.ver >= getLatest(p).ver => o.data = getLatest(p).data

HeldOK ==
    \A c \in Clients :
      LET h == cl[c].held
      IN  /\ h.epoch <= crashes
          /\ h.obj # NoObj /\ h.epoch = crashes => UpToDate(h.obj, pobj[h.obj.uid], seed)

VInv == VersionsOK /\ HeldOK

\* The events still to be broadcast are newer than the last one of their name.
EventsOK ==
    /\ \A n \in Names : lastEvt[n] <= seed
    /\ \A n \in Names : indexer[n] # 0 /\ IsPending(pobj[indexer[n]]) =>
          pobj[indexer[n]].event.obj.ver > lastEvt[n]
    /\ \A b \in Batches : jobs[b].drop # 0 =>
          jobs[b].dropVer <= seed /\ jobs[b].dropVer > lastEvt[pobj[jobs[b].drop].name]
-----------------------------------------------------------------------------
\* The versions of objects are integers, and 0 only for no object.
LEMMA Objects ==
  ASSUME TypeOK
  PROVE  /\ seed \in Int /\ crashes \in Int
         /\ \A u \in Uids : /\ pobj[u] \in PendingObject
                            /\ pobj[u].event.obj \in Obj \cup {NoObj}
                            /\ pobj[u].current \in Obj \cup {NoObj}
         /\ \A o \in Obj \cup {NoObj} : o.ver \in Int
         /\ \A o \in Obj : o.ver > 0 /\ o # NoObj /\ o.uid \in Uids
         /\ \A c \in Clients : /\ cl[c] \in Client /\ cl[c].held.epoch \in Int
                               /\ cl[c].held.obj \in Obj \cup {NoObj}
         /\ \A n \in Names : lastEvt[n] \in Int
         /\ NoObj.ver = 0
<1>1. seed \in Int /\ crashes \in Int /\ \A n \in Names : lastEvt[n] \in Int
    BY BoundsAssumption DEF TypeOK
<1>2. /\ \A o \in Obj \cup {NoObj} : o.ver \in Int
      /\ \A o \in Obj : o.ver > 0 /\ o # NoObj /\ o.uid \in Uids
      /\ NoObj.ver = 0
    BY BoundsAssumption DEF Obj, NoObj
<1>3. \A c \in Clients : /\ cl[c] \in Client /\ cl[c].held.epoch \in Int
                         /\ cl[c].held.obj \in Obj \cup {NoObj}
    BY BoundsAssumption DEF TypeOK, Client
<1>4. \A u \in Uids : /\ pobj[u] \in PendingObject
                      /\ pobj[u].event.obj \in Obj \cup {NoObj}
                      /\ pobj[u].current \in Obj \cup {NoObj}
    BY Zenon DEF TypeOK, PendingObject
<1> QED BY Zenon, <1>1, <1>2, <1>3, <1>4

LEMMA InitVInv == Init => VInv /\ EventsOK
BY NamesAssumption, BoundsAssumption
   DEF Init, VInv, VersionsOK, Versioned, HeldOK, EventsOK, NoPending, NoEvent, NoJob, IsPending

\* A step that leaves the objects of the store and of the callers alone.
LEMMA QuietVInv ==
  ASSUME VInv, UNCHANGED <<pobj, seed, crashes>>,
         \A c \in Clients : cl'[c].held = cl[c].held
  PROVE  VInv'
BY Zenon DEF VInv, VersionsOK, HeldOK

\* Get, and the Wait of an Add or an Update: the caller takes a committed object.
LEMMA TakesCommitted ==
  ASSUME TypeOK, PendingsOK, VInv, UNCHANGED <<pobj, seed, crashes>>,
         NEW c \in Clients, NEW u \in Uids, pobj[u].current # NoObj,
         cl'[c].held = Held(pobj[u].current),
         \A d \in Clients : d # c => cl'[d].held = cl[d].held
  PROVE  VInv'
<1>1. VersionsOK'
    BY Zenon DEF VInv, VersionsOK
<1>2. cl'[c].held.obj = pobj[u].current /\ cl'[c].held.epoch = crashes
    BY DEF Held
<1>3. pobj[u].current.uid = u
    BY Zenon DEF PendingsOK
<1>4. UpToDate(pobj[u].current, pobj[u], seed)
  <2>1. Versioned(pobj[u], seed)
      BY Zenon DEF VInv, VersionsOK
  <2> QED BY <2>1, Objects DEF UpToDate, Versioned, getLatest
<1>5. HeldOK'
    BY <1>2, <1>3, <1>4, Objects DEF VInv, HeldOK
<1> QED BY Zenon, <1>1, <1>5 DEF VInv

\* A step that gives pendingObject u a new event, with the next version.
LEMMA EventVInv ==
  ASSUME TypeOK, VInv, NEW u \in Uids, NEW q \in PendingObject,
         pobj' = [pobj EXCEPT ![u] = q], seed' = seed + 1, crashes' = crashes,
         \A d \in Clients : cl'[d].held = cl[d].held,
         q.event.obj # NoObj, q.event.obj.ver = seed + 1,
         pobj[u].current # NoObj => q.current # NoObj,
         \/ Deleting(q) /\ q.current \in {NoObj, q.event.obj}
         \/ ~ Deleting(q) /\ q.current = pobj[u].current
  PROVE  VInv'
<1>1. pobj'[u] = q /\ \A w \in Uids : w # u => pobj'[w] = pobj[w]
    BY Zenon DEF TypeOK
<1>2. VersionsOK'
  <2>1. Versioned(q, seed + 1)
    <3>1. Versioned(pobj[u], seed)
        BY Zenon DEF VInv, VersionsOK
    <3> QED BY <3>1, Objects DEF Versioned
  <2>2. ASSUME NEW w \in Uids, w # u PROVE Versioned(pobj[w], seed + 1)
    <3>1. Versioned(pobj[w], seed)
        BY Zenon DEF VInv, VersionsOK
    <3> QED BY <3>1, Objects DEF Versioned
  <2> QED BY Zenon, <1>1, <2>1, <2>2 DEF VersionsOK
<1>3. ASSUME NEW d \in Clients
      PROVE  LET h == cl[d].held
             IN  /\ h.epoch <= crashes
                 /\ h.obj # NoObj /\ h.epoch = crashes =>
                       UpToDate(h.obj, pobj'[h.obj.uid], seed + 1)
  <2> DEFINE h == cl[d].held
  <2>1. /\ h.epoch <= crashes
        /\ h.obj # NoObj /\ h.epoch = crashes => UpToDate(h.obj, pobj[h.obj.uid], seed)
      BY Zenon DEF VInv, HeldOK
  <2> SUFFICES ASSUME h.obj # NoObj, h.epoch = crashes
               PROVE  UpToDate(h.obj, pobj'[h.obj.uid], seed + 1)
      BY Zenon, <2>1
  <2>2. h.obj.uid \in Uids /\ h.obj.ver \in Int
      BY Zenon, Objects
  <2>3. UpToDate(h.obj, pobj[h.obj.uid], seed)
      BY Zenon, <2>1
  <2> HIDE DEF h
  <2>4. CASE h.obj.uid = u
      BY <1>1, <2>2, <2>3, <2>4, Objects DEF UpToDate, getLatest
  <2>5. CASE h.obj.uid # u
      BY <1>1, <2>2, <2>3, <2>5, Objects DEF UpToDate
  <2> QED BY Zenon, <2>4, <2>5
<1>4. HeldOK'
    BY Zenon, <1>3 DEF HeldOK
<1> QED BY Zenon, <1>2, <1>4 DEF VInv

\* What Update and Delete do to a pendingObject: nothing, or a new event with
\* the next version.
Requested(u, q) ==
    /\ pobj' = [pobj EXCEPT ![u] = q]
    /\ q.name = pobj[u].name /\ q.event.obj # NoObj
    /\ q.event.obj.ver = seed + 1 /\ seed' = seed + 1
    /\ pobj[u].current # NoObj => q.current # NoObj
    /\ \/ Deleting(q) /\ q.current \in {NoObj, q.event.obj}
       \/ ~ Deleting(q) /\ q.current = pobj[u].current

LEMMA RequestUpdateEffect ==
  ASSUME IInv, NEW c \in Clients, RequestUpdate(c)
  PROVE  /\ \A d \in Clients : cl'[d].held = cl[d].held
         /\ \/ UNCHANGED <<pobj, seed>>
            \/ \E u \in Uids, q \in PendingObject : Requested(u, q)
<1>1. TypeOK /\ PendingsOK /\ ClientsOK /\ cl[c] \in Client
    BY Zenon DEF IInv, TypeOK
<1>2. PICK u \in Uids, v \in 1..MaxVersion :
        /\ u = cl[c].ptr /\ v = seed + 1 /\ cl[c].held.obj.uid = u
  <2>1. cl[c].pc = "updating" /\ seed < MaxVersion
      BY Zenon DEF RequestUpdate
  <2>2. cl[c].ptr # 0 /\ cl[c].held.obj.uid = cl[c].ptr
      BY Zenon, <1>1, <2>1 DEF ClientsOK
  <2>3. cl[c].ptr \in 0..MaxUid
      BY Zenon, <1>1 DEF Client
  <2>4. seed \in 0..MaxVersion
      BY Zenon, <1>1 DEF TypeOK
  <2>5. cl[c].ptr \in Uids /\ seed + 1 \in 1..MaxVersion
      BY <2>1, <2>2, <2>3, <2>4, BoundsAssumption DEF Uids
  <2> QED BY Zenon, <2>2, <2>5
<1>3. CASE Acceptable(pobj[u], cl[c].held.obj)
  <2> DEFINE o == [cl[c].held.obj EXCEPT !.data = v, !.ver = v]
             q == [pobj[u] EXCEPT !.event = [type |-> "Modified", obj |-> o]]
             r == [cl[c] EXCEPT !.pc = "waiting", !.ver = v]
  <2>1. /\ pobj' = [pobj EXCEPT ![u] = q]
        /\ seed' = v
        /\ cl' = [cl EXCEPT ![c] = r]
      BY Zenon, <1>2, <1>3 DEF RequestUpdate
  <2>2. cl[c].held.obj \in Obj
      BY <1>1, <1>2, BoundsAssumption DEF Client, Uids, NoObj
  <2>3. o \in Obj /\ o.ver = v
      BY Zenon, <1>2, <2>2, BoundsAssumption DEF Obj
  <2>4. o # NoObj
      BY Zenon, <1>1, <2>3, Objects
  <2>5. pobj[u] \in PendingObject
      BY Zenon, <1>1 DEF TypeOK
  <2> HIDE DEF o
  <2>6. /\ q \in PendingObject /\ q.name = pobj[u].name
        /\ q.current = pobj[u].current /\ q.event.type = "Modified" /\ q.event.obj = o
      BY Zenon, <2>3, <2>5 DEF PendingObject, EventTypes
  <2>7. r.held = cl[c].held
      BY Zenon, <1>1 DEF Client
  <2> HIDE DEF q, r
  <2>8. \A d \in Clients : cl'[d].held = cl[d].held
      BY Zenon, <1>1, <2>1, <2>7 DEF TypeOK
  <2>9. Requested(u, q)
      BY Zenon, <1>2, <2>1, <2>3, <2>4, <2>6 DEF Requested, Deleting
  <2> QED BY Zenon, <2>6, <2>8, <2>9
<1>4. CASE ~ Acceptable(pobj[u], cl[c].held.obj)
  <2>1. cl' = [cl EXCEPT ![c] = Idle(c)] /\ UNCHANGED <<pobj, seed>>
      BY Zenon, <1>2, <1>4 DEF RequestUpdate
  <2>2. Idle(c).held = cl[c].held
      BY Zenon, <1>1 DEF Idle, Client
  <2> QED BY Zenon, <1>1, <2>1, <2>2 DEF TypeOK
<1> QED BY Zenon, <1>3, <1>4

LEMMA RequestDeleteEffect ==
  ASSUME IInv, NEW c \in Clients, RequestDelete(c)
  PROVE  /\ \A d \in Clients : cl'[d].held = cl[d].held
         /\ \/ UNCHANGED <<pobj, seed>>
            \/ \E u \in Uids, q \in PendingObject : Requested(u, q)
<1>1. TypeOK /\ PendingsOK /\ ClientsOK /\ cl[c] \in Client
    BY Zenon DEF IInv, TypeOK
<1>2. cl[c].pc = "deleting" /\ seed < MaxVersion /\ cl[c].ptr # 0
    BY Zenon, <1>1 DEF RequestDelete, ClientsOK
<1>3. PICK u \in Uids : u = cl[c].ptr
    BY <1>1, <1>2, BoundsAssumption DEF Client, Uids
<1>4. PICK v \in 1..MaxVersion : v = seed + 1
    BY <1>1, <1>2, BoundsAssumption DEF TypeOK
<1>5. CASE DeleteTarget(pobj[u]) # NoObj
  <2> DEFINE o == [DeleteTarget(pobj[u]) EXCEPT !.ver = v]
             q == [pobj[u] EXCEPT !.event = [type |-> "Deleted", obj |-> o],
                                  !.current = IF @ = NoObj THEN @ ELSE o]
             r == [cl[c] EXCEPT !.pc = "waitdel"]
  <2>1. /\ pobj' = [pobj EXCEPT ![u] = q]
        /\ seed' = v
        /\ cl' = [cl EXCEPT ![c] = r]
      BY ZenonT(30), <1>3, <1>4, <1>5 DEF RequestDelete
  <2>2. pobj[u] \in PendingObject
      BY Zenon, <1>1 DEF TypeOK
  <2>3. DeleteTarget(pobj[u]) \in Obj
      BY Zenon, <1>5, <2>2 DEF DeleteTarget, PendingObject
  <2>4. o \in Obj /\ o.ver = v
      BY Zenon, <2>3, BoundsAssumption DEF Obj
  <2>5. o # NoObj
      BY Zenon, <1>1, <2>4, Objects
  <2> HIDE DEF o
  <2>6. /\ q \in PendingObject /\ q.name = pobj[u].name
        /\ q.current = IF pobj[u].current = NoObj THEN pobj[u].current ELSE o
        /\ q.event.type = "Deleted" /\ q.event.obj = o
      BY Zenon, <2>2, <2>4 DEF PendingObject, EventTypes
  <2>7. r.held = cl[c].held
      BY Zenon, <1>1 DEF Client
  <2> HIDE DEF q, r
  <2>8. \A d \in Clients : cl'[d].held = cl[d].held
      BY Zenon, <1>1, <2>1, <2>7 DEF TypeOK
  <2>9. Requested(u, q)
      BY Zenon, <1>4, <2>1, <2>4, <2>5, <2>6 DEF Requested, Deleting
  <2> QED BY Zenon, <2>6, <2>8, <2>9
<1>6. CASE DeleteTarget(pobj[u]) = NoObj
  <2> DEFINE r == [cl[c] EXCEPT !.pc = "panicked"]
  <2>1. cl' = [cl EXCEPT ![c] = r] /\ UNCHANGED <<pobj, seed>>
      BY Zenon, <1>3, <1>6 DEF RequestDelete
  <2>2. r.held = cl[c].held
      BY Zenon, <1>1 DEF Client
  <2> HIDE DEF r
  <2> QED BY Zenon, <1>1, <2>1, <2>2 DEF TypeOK
<1> QED BY Zenon, <1>5, <1>6

LEMMA RequestVInv ==
  ASSUME IInv, VInv, NEW c \in Clients, RequestUpdate(c) \/ RequestDelete(c) PROVE VInv'
<1>1. crashes' = crashes /\ TypeOK
    BY Zenon DEF RequestUpdate, RequestDelete, IInv
<1>2. /\ \A d \in Clients : cl'[d].held = cl[d].held
      /\ \/ UNCHANGED <<pobj, seed>>
         \/ \E u \in Uids, q \in PendingObject : Requested(u, q)
    BY Zenon, RequestUpdateEffect, RequestDeleteEffect
<1>3. CASE UNCHANGED <<pobj, seed>>
    BY Zenon, <1>1, <1>2, <1>3, QuietVInv
<1>4. CASE \E u \in Uids, q \in PendingObject : Requested(u, q)
  <2>1. PICK u \in Uids, q \in PendingObject : Requested(u, q)
      BY Zenon, <1>4
  <2> QED BY Zenon, <1>1, <1>2, <2>1, EventVInv DEF Requested
<1> QED BY Zenon, <1>2, <1>3, <1>4

LEMMA AddInsertVInv ==
  ASSUME IInv, VInv, NEW c \in Clients, AddInsert(c) PROVE VInv'
<1>1. TypeOK /\ PendingsOK /\ ClientsOK /\ cl[c] \in Client /\ cl[c].name \in Names
    BY Zenon DEF IInv, TypeOK, AddInsert, ClientsOK
<1>2. PICK u \in Uids : u = lastUid + 1
    BY <1>1, BoundsAssumption DEF AddInsert, TypeOK, Uids
<1>3. PICK v \in 1..MaxVersion : v = seed + 1
    BY <1>1, BoundsAssumption DEF AddInsert, TypeOK
<1> DEFINE q == newPendingObject(cl[c].name, u, v)
           r == [cl[c] EXCEPT !.pc = "waiting", !.ptr = u, !.ver = v]
<1>4. /\ pobj' = [pobj EXCEPT ![u] = q] /\ seed' = v /\ crashes' = crashes
      /\ cl' = [cl EXCEPT ![c] = r]
    BY Zenon, <1>2, <1>3 DEF AddInsert
<1>5. pobj[u].current = NoObj
  <2>1. pobj[u].name = 0
      BY <1>1, <1>2 DEF PendingsOK, TypeOK
  <2> QED BY <1>1, <2>1 DEF PendingsOK, NoPending
<1>6. /\ q \in PendingObject /\ q.current = NoObj /\ q.event.obj.ver = v
      /\ q.event.obj \in Obj /\ q.event.type = "Added"
    BY Zenon, <1>1, BoundsAssumption DEF newPendingObject, PendingObject, Obj, EventTypes, NoObj
<1>7. r.held = cl[c].held
    BY Zenon, <1>1 DEF Client
<1> HIDE DEF q, r
<1>8. \A d \in Clients : cl'[d].held = cl[d].held
    BY Zenon, <1>1, <1>4, <1>7 DEF TypeOK
<1>9. q.event.obj # NoObj /\ ~ Deleting(q)
    BY Zenon, <1>1, <1>6, Objects DEF Deleting
<1> QED BY Zenon, <1>1, <1>3, <1>4, <1>5, <1>6, <1>8, <1>9, EventVInv

LEMMA ReadVInv ==
  ASSUME IInv, VInv, NEW c \in Clients, NEW n \in Names, Read(c, n) PROVE VInv'
<1>1. TypeOK /\ PendingsOK
    BY Zenon DEF IInv
<1>2. PICK u \in Uids : u = indexer[n] /\ pobj[u].current # NoObj
    BY <1>1, BoundsAssumption DEF Read, TypeOK, Uids
<1> DEFINE h == Held(pobj[u].current)
           r == [cl[c] EXCEPT !.held = h]
<1>3. cl' = [cl EXCEPT ![c] = r] /\ UNCHANGED <<pobj, seed, crashes>>
    BY Zenon, <1>2 DEF Read, storeVars
<1>4. r.held = h
    BY Zenon, <1>1 DEF TypeOK, Client
<1> HIDE DEF r
<1>5. cl'[c].held = h /\ \A d \in Clients : d # c => cl'[d].held = cl[d].held
    BY Zenon, <1>1, <1>3, <1>4 DEF TypeOK
<1> QED BY Zenon, <1>1, <1>2, <1>3, <1>5, TakesCommitted

LEMMA WaitCommittedVInv ==
  ASSUME IInv, VInv, NEW c \in Clients, WaitCommitted(c) PROVE VInv'
<1>1. TypeOK /\ PendingsOK /\ ClientsOK /\ cl[c] \in Client
    BY Zenon DEF IInv, TypeOK
<1>2. cl[c].ptr # 0
    BY Zenon, <1>1 DEF WaitCommitted, ClientsOK
<1>3. PICK u \in Uids : u = cl[c].ptr /\ pobj[u].current # NoObj
    BY <1>1, <1>2, BoundsAssumption DEF WaitCommitted, Client, Uids
<1> DEFINE h == Held(pobj[u].current)
           r == [Idle(c) EXCEPT !.held = h]
<1>4. cl' = [cl EXCEPT ![c] = r] /\ UNCHANGED <<pobj, seed, crashes>>
    BY Zenon, <1>3 DEF WaitCommitted, storeVars
<1>5. r.held = h
    BY Zenon, <1>1 DEF Idle, Client
<1> HIDE DEF r
<1>6. cl'[c].held = h /\ \A d \in Clients : d # c => cl'[d].held = cl[d].held
    BY Zenon, <1>1, <1>4, <1>5 DEF TypeOK
<1> QED BY Zenon, <1>1, <1>3, <1>4, <1>6, TakesCommitted

\* The other steps of the callers.
LEMMA OtherCallsVInv ==
  ASSUME IInv, VInv, NEW c \in Clients, NEW n,
         \/ AddLookup(c, n) \/ UpdateLookup(c, n) \/ DeleteLookup(c, n)
         \/ WaitDeleted(c) \/ WaitFailed(c)
  PROVE  VInv'
<1>1. TypeOK /\ cl[c] \in Client
    BY Zenon DEF IInv, TypeOK
<1>2. UNCHANGED <<pobj, seed, crashes>>
    BY Zenon DEF AddLookup, UpdateLookup, DeleteLookup, WaitDeleted, WaitFailed, storeVars
<1>3. cl' = [cl EXCEPT ![c] = cl'[c]]
    BY Zenon, <1>1 DEF TypeOK, AddLookup, UpdateLookup, DeleteLookup, WaitDeleted, WaitFailed
<1>4. cl'[c].held = cl[c].held
  <2>1. CASE AddLookup(c, n)
      BY Zenon, <1>1, <2>1 DEF TypeOK, AddLookup, Client
  <2>2. CASE UpdateLookup(c, n)
      BY Zenon, <1>1, <2>2 DEF TypeOK, UpdateLookup, Client
  <2>3. CASE DeleteLookup(c, n)
      BY Zenon, <1>1, <2>3 DEF TypeOK, DeleteLookup, Client
  <2>4. CASE WaitDeleted(c) \/ WaitFailed(c)
    <3>1. cl'[c] = Idle(c)
        BY Zenon, <1>1, <2>4 DEF TypeOK, WaitDeleted, WaitFailed
    <3> QED BY Zenon, <1>1, <3>1 DEF Idle, Client
  <2> QED BY Zenon, <2>1, <2>2, <2>3, <2>4
<1>5. \A d \in Clients : cl'[d].held = cl[d].held
    BY Zenon, <1>1, <1>3, <1>4 DEF TypeOK
<1> QED BY Zenon, <1>2, <1>5, QuietVInv

\* The steps of the loop that commit nothing.
LEMMA LoopVInv ==
  ASSUME VInv, NEW b,
         \/ PersistMeta \/ Batch \/ Persist(b) \/ PersistFails(b)
         \/ DropDeleted(b) \/ JobDone(b) \/ WaitAll \/ UNCHANGED vars
  PROVE  VInv'
<1>1. UNCHANGED <<pobj, seed, crashes, cl>>
    BY Zenon DEF PersistMeta, Batch, Persist, PersistFails, DropDeleted, JobDone, WaitAll,
           vars, storeVars
<1> QED BY Zenon, <1>1, QuietVInv

\* commitOne leaves an object alone, or commits its event.
LEMMA CommitOneEffect ==
  ASSUME IInv, NEW b \in Batches, CommitOne(b)
  PROVE  /\ UNCHANGED <<seed, indexer, crashes, cl>>
         /\ \E u \in jobs[b].items \cup jobs[b].deletings :
              LET deletes == ~ Skipped(b, u) /\ Deleting(pobj[u])
              IN  /\ IF Skipped(b, u)
                     THEN UNCHANGED <<pobj, lastEvt>>
                     ELSE /\ pobj' = [pobj EXCEPT ![u] = CommitObject(pobj[u])]
                          /\ lastEvt' = IF deletes THEN lastEvt
                                        ELSE [lastEvt EXCEPT ![pobj[u].name] = pobj[u].event.obj.ver]
                  /\ jobs'[b].drop = IF deletes THEN u ELSE 0
                  /\ jobs'[b].dropVer = IF deletes THEN pobj[u].event.obj.ver ELSE 0
                  /\ \A a \in Batches : a # b => jobs'[a] = jobs[a]
<1>1. TypeOK
    BY Zenon DEF IInv
<1>2. UNCHANGED <<seed, indexer, crashes, cl>>
    BY Zenon DEF CommitOne
<1>3. PICK u \in NextToCommit(b) :
        LET deletes == ~ Skipped(b, u) /\ Deleting(pobj[u])
        IN  /\ IF Skipped(b, u)
               THEN UNCHANGED <<pobj, lastEvt>>
               ELSE /\ pobj' = [pobj EXCEPT ![u] = CommitObject(pobj[u])]
                    /\ lastEvt' = IF deletes THEN lastEvt
                                  ELSE [lastEvt EXCEPT ![pobj[u].name] = pobj[u].event.obj.ver]
            /\ jobs' = [jobs EXCEPT
                          ![b].items = @ \ {u},
                          ![b].deletings = @ \ {u},
                          ![b].drop = IF deletes THEN u ELSE 0,
                          ![b].dropVer = IF deletes THEN pobj[u].event.obj.ver ELSE 0]
    BY Zenon DEF CommitOne
<1>4. u \in jobs[b].items \cup jobs[b].deletings
    BY Zenon DEF NextToCommit
<1>5. /\ jobs'[b].drop = IF ~ Skipped(b, u) /\ Deleting(pobj[u]) THEN u ELSE 0
      /\ jobs'[b].dropVer = IF ~ Skipped(b, u) /\ Deleting(pobj[u]) THEN pobj[u].event.obj.ver ELSE 0
      /\ \A a \in Batches : a # b => jobs'[a] = jobs[a]
    BY <1>1, <1>3 DEF TypeOK, Job
<1> QED BY Zenon, <1>2, <1>3, <1>4, <1>5

LEMMA CommitOneVInv ==
  ASSUME IInv, VInv, NEW b \in Batches, CommitOne(b) PROVE VInv'
<1>1. TypeOK /\ UNCHANGED <<seed, crashes, cl>>
    BY Zenon, CommitOneEffect DEF IInv
<1>2. PICK u \in jobs[b].items \cup jobs[b].deletings :
        IF Skipped(b, u) THEN pobj' = pobj
        ELSE pobj' = [pobj EXCEPT ![u] = CommitObject(pobj[u])]
    BY Zenon, CommitOneEffect
<1>3. CASE Skipped(b, u)
    BY Zenon, <1>1, <1>2, <1>3, QuietVInv
<1>4. CASE ~ Skipped(b, u)
  <2> DEFINE p == pobj[u]
             q == CommitObject(p)
  <2>1. u \in Uids /\ p \in PendingObject /\ p.event.obj # NoObj
        /\ p.event.obj \in Obj \cup {NoObj} /\ p.current \in Obj \cup {NoObj}
    <3>1. u \in Uids /\ PendingsOK
        BY Zenon, <1>1, Ranges DEF IInv
    <3> QED BY Zenon, <1>1, <1>4, <3>1, Objects DEF PendingsOK, Skipped, IsPending
  <2>2. Versioned(p, seed)
      BY Zenon, <2>1 DEF VInv, VersionsOK
  <2>3. /\ q.event = NoEvent
        /\ q.current = IF Deleting(p) THEN p.current ELSE p.event.obj
      BY Zenon, <2>1 DEF CommitObject, PendingObject
  <2>4. q.event.obj = NoObj
      BY <2>3 DEF NoEvent
  <2> HIDE DEF p, q
  <2>5. Versioned(q, seed)
      BY Zenon, <1>1, <2>1, <2>2, <2>3, <2>4, Objects DEF Versioned
  <2>6. p.current # NoObj => q.current # NoObj /\ getLatest(q) = getLatest(p)
      BY Zenon, <2>1, <2>2, <2>3, <2>4 DEF getLatest, Versioned
  <2>7. pobj'[u] = q /\ \A w \in Uids : w # u => pobj'[w] = pobj[w]
      BY Zenon, <1>1, <1>2, <1>4, <2>1 DEF TypeOK, p, q
  <2>8. VersionsOK'
      BY Zenon, <1>1, <2>5, <2>7 DEF VInv, VersionsOK
  <2>9. ASSUME NEW d \in Clients
        PROVE  LET h == cl[d].held
               IN  /\ h.epoch <= crashes
                   /\ h.obj # NoObj /\ h.epoch = crashes => UpToDate(h.obj, pobj'[h.obj.uid], seed)
    <3> DEFINE h == cl[d].held
    <3>1. /\ h.epoch <= crashes
          /\ h.obj # NoObj /\ h.epoch = crashes => UpToDate(h.obj, pobj[h.obj.uid], seed)
        BY Zenon DEF VInv, HeldOK
    <3> SUFFICES ASSUME h.obj # NoObj, h.epoch = crashes
                 PROVE  UpToDate(h.obj, pobj'[h.obj.uid], seed)
        BY Zenon, <3>1
    <3>2. h.obj.uid \in Uids
        BY Zenon, <1>1, Objects
    <3>3. UpToDate(h.obj, pobj[h.obj.uid], seed)
        BY Zenon, <3>1
    <3> HIDE DEF h
    <3>4. CASE h.obj.uid = u
        BY Zenon, <2>6, <2>7, <3>3, <3>4 DEF UpToDate, p
    <3>5. CASE h.obj.uid # u
        BY Zenon, <2>7, <3>2, <3>3, <3>5
    <3> QED BY Zenon, <3>4, <3>5
  <2>10. HeldOK'
      BY Zenon, <1>1, <2>9 DEF HeldOK
  <2> QED BY Zenon, <2>8, <2>10 DEF VInv
<1> QED BY Zenon, <1>3, <1>4

LEMMA RestartVInv == ASSUME IInv, VInv, Restart PROVE VInv'
<1>1. TypeOK /\ crashes' = crashes + 1 /\ cl' = [c \in Clients |-> Idle(c)]
      /\ \A o \in Stored : o.ver <= seed'
    BY Zenon DEF IInv, Restart
<1>2. ASSUME NEW c \in Clients PROVE cl'[c].held = cl[c].held
  <2>1. cl[c] \in Client /\ cl'[c] = Idle(c)
      BY Zenon, <1>1 DEF TypeOK
  <2> QED BY Zenon, <2>1 DEF Idle, Client
<1>3. ASSUME NEW c \in Clients PROVE cl[c].held.epoch < crashes + 1
    BY <1>1, Objects DEF VInv, HeldOK
<1>4. HeldOK'
  <2>1. \A c \in Clients : cl'[c].held.epoch \in Int /\ cl'[c].held.epoch < crashes'
      BY Zenon, <1>1, <1>2, <1>3, Objects
  <2>2. crashes' \in Int
      BY <1>1, Objects
  <2> QED BY <2>1, <2>2 DEF HeldOK
<1>5. ASSUME NEW u \in Uids PROVE Versioned(pobj'[u], seed')
  <2>1. pobj'[u] = IF \E o \in Stored : o.uid = u
                   THEN initPendingObject(CHOOSE o \in Stored : o.uid = u)
                   ELSE NoPending
      BY Zenon DEF Restart
  <2>2. CASE \E o \in Stored : o.uid = u
    <3>1. PICK o \in Stored : o = CHOOSE x \in Stored : x.uid = u
        BY Zenon, <2>2
    <3>2. pobj'[u] = initPendingObject(o)
        BY Zenon, <2>1, <2>2, <3>1
    <3>3. pobj'[u].current = o /\ pobj'[u].event.obj = NoObj
        BY <3>2 DEF initPendingObject, NoEvent
    <3> QED BY Zenon, <1>1, <3>3 DEF Versioned
  <2>3. CASE ~ \E o \in Stored : o.uid = u
      BY <2>1, <2>3 DEF Versioned, NoPending, NoEvent
  <2> QED BY Zenon, <2>2, <2>3
<1>6. VersionsOK'
    BY Zenon, <1>5 DEF VersionsOK
<1> QED BY Zenon, <1>4, <1>6 DEF VInv

LEMMA NextVInv == ASSUME IInv, VInv, [Next]_vars PROVE VInv'
<1>1. CASE \E c \in Creators, n \in Names : AddLookup(c, n)
    BY Zenon, <1>1, OtherCallsVInv, CreatorsAssumption
<1>2. CASE \E c \in Clients, n \in Names : Read(c, n) \/ UpdateLookup(c, n) \/ DeleteLookup(c, n)
    BY Zenon, <1>2, ReadVInv, OtherCallsVInv
<1>3. CASE \E c \in Clients : RequestUpdate(c) \/ RequestDelete(c) \/ AddInsert(c) \/ WaitCommitted(c)
    BY Zenon, <1>3, RequestVInv, AddInsertVInv, WaitCommittedVInv
<1>4. CASE \E c \in Clients : WaitDeleted(c) \/ WaitFailed(c)
    BY Zenon, <1>4, OtherCallsVInv
<1>5. CASE PersistMeta \/ Batch \/ WaitAll \/ UNCHANGED vars
    BY Zenon, <1>5, LoopVInv
<1>6. CASE \E b \in Batches : Persist(b) \/ PersistFails(b) \/ DropDeleted(b) \/ JobDone(b)
    BY Zenon, <1>6, LoopVInv
<1>7. CASE \E b \in Batches : CommitOne(b)
    BY Zenon, <1>7, CommitOneVInv
<1>8. CASE Restart
    BY Zenon, <1>8, RestartVInv
<1> QED BY Zenon, <1>1, <1>2, <1>3, <1>4, <1>5, <1>6, <1>7, <1>8 DEF Next
-----------------------------------------------------------------------------
\* Only RequestUpdate takes a caller from its lookup to its Wait, and only when
\* it accepts the object.
LEMMA UpdateStep ==
  ASSUME IInv, [Next]_vars, NEW c \in Clients, cl[c].pc = "updating", cl'[c].pc = "waiting"
  PROVE  Acceptable(pobj[cl[c].ptr], cl[c].held.obj)
<1>1. TypeOK /\ cl[c] \in Client
    BY Zenon DEF IInv, TypeOK
<1>2. \A d \in Clients : Idle(d).pc = "idle"
    BY Zenon, <1>1 DEF TypeOK, Idle, Client
<1>3. cl'[c] # cl[c]
    BY Zenon
<1>4. CASE \E d \in Creators, n \in Names : AddLookup(d, n)
    BY Zenon, <1>1, <1>3, <1>4, CreatorsAssumption DEF TypeOK, AddLookup
<1>5. CASE \E d \in Clients, n \in Names : Read(d, n) \/ UpdateLookup(d, n) \/ DeleteLookup(d, n)
    BY Zenon, <1>1, <1>3, <1>5 DEF TypeOK, Read, UpdateLookup, DeleteLookup
<1>6. CASE \E d \in Clients : AddInsert(d) \/ RequestDelete(d)
    BY Zenon, <1>1, <1>3, <1>6 DEF TypeOK, AddInsert, RequestDelete
<1>7. CASE \E d \in Clients : RequestUpdate(d)
  <2>1. PICK d \in Clients : RequestUpdate(d)
      BY Zenon, <1>7
  <2>2. d = c
      BY Zenon, <1>1, <1>3, <2>1 DEF TypeOK, RequestUpdate
  <2>3. CASE ~ Acceptable(pobj[cl[c].ptr], cl[c].held.obj)
    <3>1. cl' = [cl EXCEPT ![c] = Idle(c)]
        BY Zenon, <2>1, <2>2, <2>3 DEF RequestUpdate
    <3> QED BY Zenon, <1>1, <1>2, <3>1 DEF TypeOK
  <2> QED BY Zenon, <2>3
<1>8. CASE \E d \in Clients : WaitCommitted(d) \/ WaitDeleted(d) \/ WaitFailed(d)
    BY Zenon, <1>1, <1>3, <1>8 DEF TypeOK, WaitCommitted, WaitDeleted, WaitFailed
<1>9. CASE \/ PersistMeta \/ Batch \/ WaitAll \/ UNCHANGED vars
           \/ \E b \in Batches : Persist(b) \/ PersistFails(b) \/ CommitOne(b) \/ DropDeleted(b) \/ JobDone(b)
    BY Zenon, <1>3, <1>9 DEF PersistMeta, Batch, WaitAll, vars, Persist, PersistFails, CommitOne,
                      DropDeleted, JobDone
<1>10. CASE Restart
    BY Zenon, <1>2, <1>10 DEF Restart
<1> QED BY Zenon, <1>4, <1>5, <1>6, <1>7, <1>8, <1>9, <1>10 DEF Next

\* An update RequestUpdate accepts was made from the newest contents, unless the
\* caller read them before the last restart: for any number of callers, objects
\* and restarts, no accepted write is silently overwritten.
THEOREM UpdatesNotLost == ~ FailedWriteLands => (Spec => NoLostUpdate)
<1> SUFFICES ASSUME ~ FailedWriteLands PROVE Spec => NoLostUpdate
    BY Zenon
<1>1. Spec => []IInv
    BY Zenon, Invariance
<1>2. Init => VInv
    BY Zenon, InitVInv
<1>3. IInv /\ VInv /\ [Next]_vars => VInv'
    BY Zenon, NextVInv
<1>4. ASSUME IInv, VInv, [Next]_vars, NEW c \in Clients,
             cl[c].pc = "updating", cl'[c].pc = "waiting", cl[c].held.epoch = crashes
      PROVE  cl[c].held.obj.data = getLatest(pobj[cl[c].ptr]).data
  <2>1. Acceptable(pobj[cl[c].ptr], cl[c].held.obj)
      BY Zenon, <1>4, UpdateStep
  <2>2. cl[c].ptr # 0 /\ cl[c].held.obj.uid = cl[c].ptr
      BY Zenon, <1>4 DEF IInv, ClientsOK
  <2>3. cl[c].held.obj # NoObj
      BY <2>2 DEF NoObj
  <2>4. UpToDate(cl[c].held.obj, pobj[cl[c].ptr], seed)
      BY Zenon, <1>4, <2>2, <2>3 DEF VInv, HeldOK
  <2> QED BY Zenon, <2>1, <2>4 DEF Acceptable, UpToDate
<1>5. IInv /\ VInv /\ [Next]_vars =>
        [\A c \in Clients :
           cl[c].pc = "updating" /\ cl'[c].pc = "waiting" /\ cl[c].held.epoch = crashes
             => cl[c].held.obj.data = getLatest(pobj[cl[c].ptr]).data]_vars
    BY Zenon, <1>4
<1> QED BY <1>1, <1>2, <1>3, <1>5, PTL DEF Spec, NoLostUpdate
-----------------------------------------------------------------------------
\* A step that neither makes, commits nor broadcasts an event.
LEMMA QuietEvents ==
  ASSUME EventsOK, UNCHANGED <<seed, indexer, pobj, lastEvt>>,
         \A b \in Batches : jobs'[b].drop # 0 =>
           jobs'[b].drop = jobs[b].drop /\ jobs'[b].dropVer = jobs[b].dropVer
  PROVE  EventsOK'
BY Zenon DEF EventsOK, IsPending

\* A step that gives pendingObject u a new event, with the next version.
LEMMA NewEvent ==
  ASSUME TypeOK, JobsOK, EventsOK, NEW u \in Uids, NEW q \in PendingObject,
         pobj' = [pobj EXCEPT ![u] = q], seed' = seed + 1, q.event.obj.ver = seed + 1,
         pobj[u].name # 0 => q.name = pobj[u].name,
         \A n \in Names : indexer'[n] \in {indexer[n], u},
         UNCHANGED <<jobs, lastEvt>>
  PROVE  EventsOK'
<1>1. pobj'[u] = q /\ \A w \in Uids : w # u => pobj'[w] = pobj[w]
    BY Zenon DEF TypeOK
<1>2. \A n \in Names : lastEvt[n] \in Int /\ lastEvt[n] <= seed /\ seed \in Int
    BY Zenon, Objects DEF EventsOK
<1>3. \A n \in Names : indexer[n] \in Uids \cup {0}
    BY BoundsAssumption DEF TypeOK, Uids
<1>4. ASSUME NEW n \in Names, indexer'[n] # 0, IsPending(pobj'[indexer'[n]])
      PROVE  pobj'[indexer'[n]].event.obj.ver > lastEvt[n]
  <2>1. CASE indexer'[n] = u
      BY <1>1, <1>2, <2>1
  <2>2. CASE indexer'[n] # u
      BY <1>1, <1>3, <1>4, <2>2 DEF EventsOK
  <2> QED BY Zenon, <2>1, <2>2
<1>5. ASSUME NEW b \in Batches, jobs[b].drop # 0
      PROVE  /\ jobs[b].dropVer <= seed + 1
             /\ jobs[b].dropVer > lastEvt[pobj'[jobs[b].drop].name]
  <2>1. PICK w \in Uids : w = jobs[b].drop /\ pobj[w].name # 0
      BY Zenon, <1>5, Ranges DEF JobsOK
  <2>2. pobj'[w].name = pobj[w].name
      BY Zenon, <1>1, <2>1
  <2>3. jobs[b].dropVer <= seed /\ jobs[b].dropVer > lastEvt[pobj[w].name]
      BY Zenon, <1>5, <2>1 DEF EventsOK
  <2>4. jobs[b].dropVer \in Int /\ seed \in Int
    <3>1. jobs \in [Batches -> Job] /\ seed \in 0..MaxVersion
        BY Zenon DEF TypeOK
    <3>2. jobs[b] \in Job
        BY Zenon, <3>1
    <3> QED BY <3>1, <3>2, BoundsAssumption DEF Job
  <2> QED BY <2>1, <2>2, <2>3, <2>4
<1> QED BY <1>2, <1>4, <1>5 DEF EventsOK, IsPending

LEMMA RequestEvents ==
  ASSUME IInv, EventsOK, NEW c \in Clients, RequestUpdate(c) \/ RequestDelete(c) PROVE EventsOK'
<1>1. TypeOK /\ JobsOK /\ UNCHANGED <<indexer, jobs, lastEvt>>
    BY Zenon DEF IInv, RequestUpdate, RequestDelete, loopVars
<1>2. \/ UNCHANGED <<pobj, seed>>
      \/ \E u \in Uids, q \in PendingObject : Requested(u, q)
    BY Zenon, RequestUpdateEffect, RequestDeleteEffect
<1>3. CASE UNCHANGED <<pobj, seed>>
    BY Zenon, <1>1, <1>3, QuietEvents
<1>4. CASE \E u \in Uids, q \in PendingObject : Requested(u, q)
  <2>1. PICK u \in Uids, q \in PendingObject : Requested(u, q)
      BY Zenon, <1>4
  <2> QED BY Zenon, <1>1, <2>1, NewEvent DEF Requested
<1> QED BY Zenon, <1>2, <1>3, <1>4

LEMMA AddInsertEvents ==
  ASSUME IInv, EventsOK, NEW c \in Clients, AddInsert(c) PROVE EventsOK'
<1>1. TypeOK /\ JobsOK /\ PendingsOK /\ cl[c].name \in Names
    BY Zenon DEF IInv, AddInsert, ClientsOK
<1>2. PICK u \in Uids : u = lastUid + 1
    BY <1>1, BoundsAssumption DEF AddInsert, TypeOK, Uids
<1>3. PICK v \in 1..MaxVersion : v = seed + 1
    BY <1>1, BoundsAssumption DEF AddInsert, TypeOK
<1> DEFINE q == newPendingObject(cl[c].name, u, v)
<1>4. /\ pobj' = [pobj EXCEPT ![u] = q] /\ seed' = v
      /\ indexer' = [indexer EXCEPT ![cl[c].name] = u]
      /\ UNCHANGED <<jobs, lastEvt>>
    BY Zenon, <1>2, <1>3 DEF AddInsert, loopVars
<1>5. pobj[u].name = 0
    BY <1>1, <1>2 DEF PendingsOK, TypeOK
<1>6. q \in PendingObject /\ q.event.obj.ver = v
    BY Zenon, <1>1, BoundsAssumption DEF newPendingObject, PendingObject, Obj, EventTypes
<1> HIDE DEF q
<1>7. \A n \in Names : indexer'[n] \in {indexer[n], u}
    BY Zenon, <1>1, <1>4 DEF TypeOK
<1> QED BY Zenon, <1>1, <1>3, <1>4, <1>5, <1>6, <1>7, NewEvent

\* A broadcast for the name of batch b: the other batches have other names.
LEMMA OtherDrops ==
  ASSUME TypeOK, JobsOK, IndexedOK, EventsOK, NEW b \in Batches, NEW n \in Names, KeyFunc[n] = b,
         NEW v, lastEvt' = [lastEvt EXCEPT ![n] = v], seed' = seed,
         \A w \in Uids : pobj'[w].name = pobj[w].name,
         \A a \in Batches : a # b => jobs'[a] = jobs[a]
  PROVE  \A a \in Batches : a # b /\ jobs'[a].drop # 0 =>
           jobs'[a].dropVer <= seed' /\ jobs'[a].dropVer > lastEvt'[pobj'[jobs'[a].drop].name]
<1> SUFFICES ASSUME NEW a \in Batches, a # b, jobs[a].drop # 0
             PROVE  jobs[a].dropVer <= seed /\ jobs[a].dropVer > lastEvt'[pobj'[jobs[a].drop].name]
    BY Zenon
<1>1. PICK w \in Uids : w = jobs[a].drop /\ pobj[w].name # 0
    BY Zenon, Ranges DEF JobsOK
<1>2. KeyFunc[pobj[w].name] = a
    BY Zenon, <1>1 DEF IndexedOK
<1>3. pobj[w].name \in Names
    BY Zenon, <1>1 DEF TypeOK, PendingObject
<1>4. lastEvt'[pobj[w].name] = lastEvt[pobj[w].name]
    BY Zenon, <1>2, <1>3 DEF TypeOK
<1> QED BY Zenon, <1>1, <1>4 DEF EventsOK

LEMMA CommitOneEvents ==
  ASSUME IInv, RInv, VInv, EventsOK, NEW b \in Batches, CommitOne(b)
  PROVE  /\ EventsOK'
         /\ \A n \in Names : lastEvt'[n] # lastEvt[n] => lastEvt'[n] > lastEvt[n]
<1>1. TypeOK /\ JobsOK /\ PendingsOK /\ IndexerOK /\ IndexedOK
    BY Zenon DEF IInv, RInv
<1>2. UNCHANGED <<seed, indexer>>
    BY Zenon, CommitOneEffect
<1>3. PICK u \in jobs[b].items \cup jobs[b].deletings :
        LET deletes == ~ Skipped(b, u) /\ Deleting(pobj[u])
        IN  /\ IF Skipped(b, u)
               THEN UNCHANGED <<pobj, lastEvt>>
               ELSE /\ pobj' = [pobj EXCEPT ![u] = CommitObject(pobj[u])]
                    /\ lastEvt' = IF deletes THEN lastEvt
                                  ELSE [lastEvt EXCEPT ![pobj[u].name] = pobj[u].event.obj.ver]
            /\ jobs'[b].drop = IF deletes THEN u ELSE 0
            /\ jobs'[b].dropVer = IF deletes THEN pobj[u].event.obj.ver ELSE 0
            /\ \A a \in Batches : a # b => jobs'[a] = jobs[a]
    BY Zenon, CommitOneEffect
<1>4. CASE Skipped(b, u)
  <2>1. \A a \in Batches : jobs'[a].drop # 0 =>
          jobs'[a].drop = jobs[a].drop /\ jobs'[a].dropVer = jobs[a].dropVer
      BY Zenon, <1>3, <1>4
  <2> QED BY Zenon, <1>2, <1>3, <1>4, <2>1, QuietEvents
<1>5. CASE ~ Skipped(b, u)
  <2> DEFINE m == pobj[u].name
             v == pobj[u].event.obj.ver
  <2>1. u \in Uids /\ Live(u) /\ KeyFunc[m] = b /\ indexer[m] = u /\ pobj[u] \in PendingObject
      BY <1>1, Ranges DEF JobsOK, IndexedOK
  <2>2. m \in Names /\ u # 0
      BY SMTT(40), <2>1, BoundsAssumption DEF Live, PendingObject, Uids
  <2>3. pobj[u].event.obj # NoObj /\ IsPending(pobj[u])
      BY Zenon, <1>1, <1>5, <2>1 DEF Skipped, IsPending, PendingsOK
  <2>4. v <= seed /\ v > lastEvt[m] /\ v \in Int /\ seed \in Int
    <3>1. v <= seed
        BY Zenon, <2>1, <2>3 DEF VInv, VersionsOK, Versioned
    <3>2. v > lastEvt[m]
        BY Zenon, <2>1, <2>2, <2>3 DEF EventsOK
    <3> QED BY Zenon, <1>1, <2>1, <3>1, <3>2, Objects
  <2>5. ~ IsPending(CommitObject(pobj[u])) /\ CommitObject(pobj[u]).name = m
      BY Zenon, <2>1 DEF CommitObject, IsPending, NoEvent, PendingObject
  <2>6. /\ pobj'[u] = CommitObject(pobj[u]) /\ \A w \in Uids : w # u => pobj'[w] = pobj[w]
        /\ \A w \in Uids : pobj'[w].name = pobj[w].name
      BY Zenon, <1>1, <1>3, <1>5, <2>1, <2>5 DEF TypeOK
  <2> HIDE DEF v
  <2>7. ASSUME NEW n \in Names, indexer[n] # 0, IsPending(pobj'[indexer[n]])
        PROVE  /\ n # m
               /\ pobj'[indexer[n]].event.obj.ver > lastEvt[n]
    <3>1. PICK w \in Uids : w = indexer[n]
        BY <1>1, <2>7, BoundsAssumption DEF TypeOK, Uids
    <3>2. w # u
        BY Zenon, <2>5, <2>6, <2>7, <3>1
    <3> QED BY Zenon, <2>1, <2>6, <2>7, <3>1, <3>2 DEF EventsOK
  <2>8. CASE Deleting(pobj[u])
    <3>1. lastEvt' = lastEvt /\ jobs'[b].drop = u /\ jobs'[b].dropVer = v
        BY Zenon, <1>3, <1>5, <2>8 DEF v
    <3>2. ASSUME NEW a \in Batches, jobs'[a].drop # 0
          PROVE  jobs'[a].dropVer <= seed /\ jobs'[a].dropVer > lastEvt[pobj'[jobs'[a].drop].name]
      <4>1. CASE a = b
          BY Zenon, <2>1, <2>4, <2>6, <3>1, <4>1
      <4>2. CASE a # b
        <5>1. jobs'[a] = jobs[a]
            BY Zenon, <1>3, <4>2
        <5>2. PICK w \in Uids : w = jobs[a].drop
            BY Zenon, <1>1, <3>2, <5>1, Ranges
        <5> QED BY Zenon, <2>6, <3>2, <5>1, <5>2 DEF EventsOK
      <4> QED BY Zenon, <4>1, <4>2
    <3>3. EventsOK'
        BY Zenon, <1>2, <2>7, <3>1, <3>2 DEF EventsOK, IsPending
    <3> QED BY Zenon, <3>1, <3>3
  <2>9. CASE ~ Deleting(pobj[u])
    <3>1. lastEvt' = [lastEvt EXCEPT ![m] = v] /\ jobs'[b].drop = 0
        BY Zenon, <1>3, <1>5, <2>9 DEF v
    <3>2. lastEvt'[m] = v /\ \A n \in Names : n # m => lastEvt'[n] = lastEvt[n]
        BY Zenon, <1>1, <2>2, <3>1 DEF TypeOK
    <3>3. \A a \in Batches : jobs'[a].drop # 0 =>
            jobs'[a].dropVer <= seed' /\ jobs'[a].dropVer > lastEvt'[pobj'[jobs'[a].drop].name]
      <4>1. \A a \in Batches : a # b => jobs'[a] = jobs[a]
          BY Zenon, <1>3
      <4> QED BY Zenon, <1>1, <1>2, <2>1, <2>2, <2>6, <3>1, <4>1, OtherDrops
    <3>4. \A n \in Names : lastEvt'[n] <= seed
        BY Zenon, <2>2, <2>4, <3>2 DEF EventsOK
    <3>5. \A n \in Names : indexer[n] # 0 /\ IsPending(pobj'[indexer[n]]) =>
            pobj'[indexer[n]].event.obj.ver > lastEvt'[n]
        BY Zenon, <2>7, <3>2
    <3>6. EventsOK'
        BY Zenon, <1>2, <3>3, <3>4, <3>5 DEF EventsOK, IsPending
    <3> QED BY Zenon, <2>4, <3>2, <3>6
  <2> QED BY Zenon, <2>8, <2>9
<1> QED BY Zenon, <1>4, <1>5

LEMMA DropDeletedEvents ==
  ASSUME IInv, RInv, EventsOK, NEW b \in Batches, DropDeleted(b)
  PROVE  /\ EventsOK'
         /\ \A n \in Names : lastEvt'[n] # lastEvt[n] => lastEvt'[n] > lastEvt[n]
<1>1. TypeOK /\ JobsOK /\ IndexedOK /\ UNCHANGED <<seed, pobj>> /\ jobs[b].drop # 0
    BY Zenon DEF IInv, RInv, DropDeleted
<1>2. PICK u \in Uids : u = jobs[b].drop /\ pobj[u].name # 0
    BY Zenon, <1>1, Ranges DEF JobsOK
<1> DEFINE m == pobj[u].name
           v == jobs[b].dropVer
<1>3. m \in Names /\ KeyFunc[m] = b
    BY Zenon, <1>1, <1>2 DEF TypeOK, PendingObject, IndexedOK
<1>4. v <= seed /\ v > lastEvt[m]
    BY Zenon, <1>1, <1>2 DEF EventsOK
<1>5. /\ indexer' = [indexer EXCEPT ![m] = 0]
      /\ lastEvt' = [lastEvt EXCEPT ![m] = v]
      /\ jobs' = [jobs EXCEPT ![b].drop = 0, ![b].dropVer = 0]
    BY Zenon, <1>2 DEF DropDeleted
<1>6. jobs'[b].drop = 0 /\ \A a \in Batches : a # b => jobs'[a] = jobs[a]
    BY Zenon, <1>1, <1>5 DEF TypeOK, Job
<1> HIDE DEF v
<1>7. /\ lastEvt'[m] = v /\ \A n \in Names : n # m => lastEvt'[n] = lastEvt[n]
      /\ indexer'[m] = 0 /\ \A n \in Names : n # m => indexer'[n] = indexer[n]
    BY Zenon, <1>1, <1>3, <1>5 DEF TypeOK
<1>8. \A a \in Batches : jobs'[a].drop # 0 =>
        jobs'[a].dropVer <= seed' /\ jobs'[a].dropVer > lastEvt'[pobj'[jobs'[a].drop].name]
  <2>1. \A w \in Uids : pobj'[w].name = pobj[w].name
      BY Zenon, <1>1
  <2> QED BY Zenon, <1>1, <1>3, <1>5, <1>6, <2>1, OtherDrops
<1>9. EventsOK'
  <2>1. \A n \in Names : lastEvt'[n] <= seed
      BY Zenon, <1>3, <1>4, <1>7 DEF EventsOK
  <2>2. \A n \in Names : indexer'[n] # 0 /\ IsPending(pobj[indexer'[n]]) =>
          pobj[indexer'[n]].event.obj.ver > lastEvt'[n]
      BY Zenon, <1>7 DEF EventsOK
  <2> QED BY Zenon, <1>1, <1>8, <2>1, <2>2 DEF EventsOK, IsPending
<1> QED BY Zenon, <1>4, <1>7, <1>9

LEMMA RestartEvents == ASSUME IInv, Restart PROVE EventsOK'
<1>1. TypeOK' /\ PendingsOK'
    BY Zenon, RestartIInv DEF IInv
<1>2. \A b \in Batches : jobs'[b].drop = 0
    BY Zenon DEF Restart, NoJob
<1>3. \A n \in Names : lastEvt'[n] = 0
    BY Zenon DEF Restart
<1>4. \A n \in Names : lastEvt'[n] <= seed'
    BY <1>1, <1>3, BoundsAssumption DEF TypeOK
<1>5. ASSUME NEW u \in Uids PROVE ~ IsPending(pobj'[u])
  <2>1. pobj'[u] = IF \E o \in Stored : o.uid = u
                   THEN initPendingObject(CHOOSE o \in Stored : o.uid = u)
                   ELSE NoPending
      BY Zenon DEF Restart
  <2>2. pobj'[u].event = NoEvent
      BY <2>1 DEF initPendingObject, NoPending
  <2> QED BY <2>2 DEF IsPending, NoEvent
<1>6. \A n \in Names : indexer'[n] # 0 => indexer'[n] \in Uids
    BY <1>1, BoundsAssumption DEF TypeOK, Uids
<1> QED BY Zenon, <1>2, <1>4, <1>5, <1>6 DEF EventsOK, IsPending

\* The other steps make, commit and broadcast no event.
LEMMA OtherEvents ==
  ASSUME IInv, EventsOK, NEW c, NEW n, NEW b \in Batches,
         \/ AddLookup(c, n) \/ Read(c, n) \/ UpdateLookup(c, n) \/ DeleteLookup(c, n)
         \/ WaitCommitted(c) \/ WaitDeleted(c) \/ WaitFailed(c)
         \/ PersistMeta \/ Batch \/ WaitAll \/ UNCHANGED vars
         \/ Persist(b) \/ PersistFails(b) \/ JobDone(b)
  PROVE  EventsOK' /\ lastEvt' = lastEvt
<1>1. UNCHANGED <<seed, indexer, pobj, lastEvt>>
    BY Zenon DEF AddLookup, Read, UpdateLookup, DeleteLookup, WaitCommitted, WaitDeleted, WaitFailed,
           PersistMeta, Batch, WaitAll, vars, Persist, PersistFails, JobDone, storeVars
<1>2. \A a \in Batches : jobs'[a].drop # 0 =>
        jobs'[a].drop = jobs[a].drop /\ jobs'[a].dropVer = jobs[a].dropVer
  <2>1. CASE Batch
      BY Zenon, <2>1 DEF Batch
  <2>2. CASE Persist(b)
    <3>1. jobs' = [jobs EXCEPT ![b].pc = "commit"]
        BY Zenon, <2>2 DEF Persist
    <3>2. jobs \in [Batches -> Job]
        BY Zenon DEF IInv, TypeOK
    <3> QED BY Zenon, <3>1, <3>2 DEF Job
  <2>3. CASE PersistFails(b) \/ JobDone(b)
    <3>1. jobs' = [jobs EXCEPT ![b] = NoJob]
        BY Zenon, <2>3 DEF PersistFails, JobDone
    <3>2. DOMAIN jobs = Batches
        BY Zenon DEF IInv, TypeOK
    <3> QED BY Zenon, <3>1, <3>2 DEF NoJob
  <2>4. CASE jobs' = jobs
      BY Zenon, <2>4
  <2> QED BY Zenon, <2>1, <2>2, <2>3, <2>4
      DEF AddLookup, Read, UpdateLookup, DeleteLookup, WaitCommitted, WaitDeleted, WaitFailed,
          PersistMeta, WaitAll, vars, loopVars
<1> QED BY Zenon, <1>1, <1>2, QuietEvents

LEMMA NextEvents ==
  ASSUME IInv, RInv, VInv, EventsOK, [Next]_vars
  PROVE  /\ EventsOK'
         /\ crashes' = crashes =>
              \A n \in Names : lastEvt'[n] # lastEvt[n] => lastEvt'[n] > lastEvt[n]
<1>1. CASE \/ \E c \in Creators, n \in Names : AddLookup(c, n)
           \/ \E c \in Clients, n \in Names : Read(c, n) \/ UpdateLookup(c, n) \/ DeleteLookup(c, n)
           \/ \E c \in Clients : WaitCommitted(c) \/ WaitDeleted(c) \/ WaitFailed(c)
           \/ PersistMeta \/ Batch \/ WaitAll \/ UNCHANGED vars
  <2>1. CASE Batches = {}
      BY Zenon, <1>1, <2>1, QuietEvents
      DEF AddLookup, Read, UpdateLookup, DeleteLookup, WaitCommitted, WaitDeleted, WaitFailed,
          PersistMeta, Batch, WaitAll, vars, storeVars
  <2>2. CASE Batches # {}
      BY Zenon, <1>1, <2>2, OtherEvents
  <2> QED BY Zenon, <2>1, <2>2
<1>2. CASE \E b \in Batches : Persist(b) \/ PersistFails(b) \/ JobDone(b)
    BY Zenon, <1>2, OtherEvents
<1>3. CASE \E c \in Clients : AddInsert(c)
    BY Zenon, <1>3, AddInsertEvents DEF AddInsert
<1>4. CASE \E c \in Clients : RequestUpdate(c) \/ RequestDelete(c)
    BY Zenon, <1>4, RequestEvents DEF RequestUpdate, RequestDelete
<1>5. CASE \E b \in Batches : CommitOne(b) \/ DropDeleted(b)
    BY Zenon, <1>5, CommitOneEvents, DropDeletedEvents
<1>6. CASE Restart
  <2>1. crashes' # crashes
      BY <1>6, BoundsAssumption DEF Restart, IInv, TypeOK
  <2> QED BY Zenon, <1>6, <2>1, RestartEvents
<1> QED BY Zenon, <1>1, <1>2, <1>3, <1>4, <1>5, <1>6 DEF Next

\* With one caller creating the objects, the events the store broadcasts for a
\* name have increasing versions between restarts, however many batches are
\* committed at the same time: a watcher never sees an older state of an object
\* after a newer one.
THEOREM WatchersSeeProgress == ~ FailedWriteLands /\ OneCreator => (Spec => EventsInOrder)
<1> SUFFICES ASSUME ~ FailedWriteLands, OneCreator PROVE Spec => EventsInOrder
    BY Zenon
<1>1. Spec => []IInv
    BY Zenon, Invariance
<1>2. Init => RInv /\ VInv /\ EventsOK
    BY Zenon, InitRInv, InitVInv
<1>3. IInv /\ RInv /\ [Next]_vars => RInv'
    BY Zenon, NextRInv
<1>4. IInv /\ VInv /\ [Next]_vars => VInv'
    BY Zenon, NextVInv
<1>5. IInv /\ RInv /\ VInv /\ EventsOK /\ [Next]_vars =>
        /\ EventsOK'
        /\ [crashes' = crashes =>
              \A n \in Names : lastEvt'[n] # lastEvt[n] => lastEvt'[n] > lastEvt[n]]_vars
    BY Zenon, NextEvents
<1> QED BY <1>1, <1>2, <1>3, <1>4, <1>5, PTL DEF Spec, EventsInOrder
=============================================================================
