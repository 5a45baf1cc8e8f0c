--------------------------- MODULE MemStore_proofs ---------------------------
(* Proofs about the store of pkg/memkube/mem, for any number of objects, batch *)
(* files, clients, writes and restarts: the initial states satisfy the         *)
(* inductive invariant IInv, every step preserves it, and what follows from it. *)
EXTENDS MemStore, TLAPS

(* The initial states and the steps of a caller *)

LEMMA InitIInv == Init => IInv
<1> SUFFICES ASSUME Init PROVE IInv
    BY Zenon
<1> USE NamesAssumption, KeyFuncAssumption, BoundsAssumption DEF Init
<1>1. TypeOK
    BY DEF TypeOK, PendingObject, NoPending, NoEvent, EventTypes, Job, NoJob,
           Client, NoObj, Uids, Obj
<1>2. PendingsOK /\ FilesOK /\ AckedDeletionsOK
    BY Zenon DEF PendingsOK, FilesOK, AckedDeletionsOK, NoPending, NoEvent, NoObj, Live,
           getLatest
<1>3. IndexerOK /\ JobsOK /\ ClientsOK
    BY Zenon DEF IndexerOK, JobsOK, ClientsOK, NoJob, NoObj
<1> QED BY Zenon, <1>1, <1>2, <1>3 DEF IInv

\* Each part of the invariant depends on a few variables only.
LEMMA PendingsFrame ==
  ASSUME PendingsOK, UNCHANGED <<pobj, lastUid>> PROVE PendingsOK'
BY Zenon DEF PendingsOK, Live, getLatest

LEMMA IndexerFrame ==
  ASSUME IndexerOK, UNCHANGED <<indexer, pobj, jobs>> PROVE IndexerOK'
BY Zenon DEF IndexerOK, Live

LEMMA JobsFrame ==
  ASSUME JobsOK, UNCHANGED <<jobs, loop, pobj, files>> PROVE JobsOK'
BY DEF JobsOK, Live

LEMMA FilesFrame ==
  ASSUME FilesOK, UNCHANGED <<files, lastHash, pobj>> PROVE FilesOK'
BY Zenon DEF FilesOK, Live

LEMMA ClientsFrame ==
  ASSUME ClientsOK, UNCHANGED <<cl, pobj, lastUid>> PROVE ClientsOK'
BY Zenon DEF ClientsOK, Deleting

LEMMA AckedDeletionsFrame ==
  ASSUME AckedDeletionsOK, UNCHANGED <<delAcked, pobj, lastUid>> PROVE AckedDeletionsOK'
BY Zenon DEF AckedDeletionsOK, Live

\* A step that only moves client c on: the store, its files and its loop are as
\* they were, and the new state of the client is consistent with them.
LEMMA ClientStep ==
  ASSUME IInv, NEW c \in Clients, NEW r \in Client,
         cl' = [cl EXCEPT ![c] = r],
         UNCHANGED <<storeVars, diskVars, loopVars, lastEvt, crashes, delAsked>>,
         acked' \in [Uids -> 0..MaxVersion],
         delAcked' \subseteq Uids,
         \A u \in delAcked' : ~ Live(u) /\ u <= lastUid,
         r.pc = "adding" => r.name \in Names,
         r.pc \in {"updating", "deleting", "waiting", "waitdel"} =>
            r.ptr # 0 /\ pobj[r.ptr].name # 0,
         r.pc = "updating" => r.held.obj.uid = r.ptr,
         r.held.obj # NoObj => /\ r.held.obj.uid <= lastUid
                               /\ pobj[r.held.obj.uid].name \in {0, r.held.obj.name},
         r.pc = "waitdel" => Deleting(pobj[r.ptr]) \/ pobj[r.ptr].deleted
  PROVE  IInv'
<1> USE DEF IInv, storeVars, diskVars, loopVars
<1>1. TypeOK'
    BY Zenon DEF TypeOK
<1>2. PendingsOK' /\ FilesOK' /\ IndexerOK' /\ JobsOK'
    BY Zenon, PendingsFrame, FilesFrame, IndexerFrame, JobsFrame
<1>3. AckedDeletionsOK'
    BY Zenon DEF AckedDeletionsOK, Live
<1>4. ClientsOK'
  <2>1. cl'[c] = r /\ \A d \in Clients : d # c => cl'[d] = cl[d]
      BY Zenon DEF TypeOK
  <2> QED BY SMTT(40), <2>1 DEF ClientsOK, Deleting
<1> QED BY Zenon, <1>1, <1>2, <1>3, <1>4

\* A uid field that is not 0 holds the uid of an object.
LEMMA UidOrZero ==
  ASSUME NEW k \in 0..MaxUid, k # 0 PROVE k \in Uids
BY BoundsAssumption DEF Uids

\* The uid fields of a job and of a client.
LEMMA UidFields ==
  /\ \A x \in Job : x.drop # 0 => x.drop \in Uids
  /\ \A x \in Client : x.ptr # 0 => x.ptr \in Uids
<1>1. /\ \A x \in Job : x.drop \in 0..MaxUid
      /\ \A x \in Client : x.ptr \in 0..MaxUid
    BY Zenon DEF Job, Client
<1> QED BY ONLY <1>1, UidOrZero, Zenon

\* The versions of the objects that an event and the files hold.
LEMMA Versions ==
  /\ \A x \in PendingObject : x.event.obj.ver \in 0..MaxVersion
  /\ \A o \in Obj : o.ver \in 0..MaxVersion
<1>1. 1..MaxVersion \subseteq 0..MaxVersion /\ 0 \in 0..MaxVersion
    BY BoundsAssumption
<1>2. NoObj.ver = 0
    BY Zenon DEF NoObj
<1>3. \A o \in Obj : o.ver \in 0..MaxVersion
    BY <1>1, Zenon DEF Obj
<1>4. \A x \in PendingObject : x.event.obj \in Obj \cup {NoObj}
    BY Zenon DEF PendingObject
<1> QED BY ONLY <1>1, <1>2, <1>3, <1>4, Zenon

\* A client that returns to idle keeps the object it holds.
LEMMA IdleClient ==
  ASSUME NEW c, cl[c] \in Client
  PROVE  Idle(c) \in Client /\ Idle(c).pc = "idle" /\ Idle(c).held = cl[c].held
<1>1. 0 \in 0..MaxUid /\ 0 \in 0..MaxVersion
    BY BoundsAssumption
<1>2. Idle(c) \in Client
    BY Zenon, <1>1 DEF Idle, Client
<1> QED BY Zenon, <1>2 DEF Idle, Client

LEMMA AddLookupIInv ==
  ASSUME IInv, NEW c \in Clients, NEW n \in Names, AddLookup(c, n) PROVE IInv'
<1> DEFINE r == [cl[c] EXCEPT !.pc = "adding", !.name = n]
<1>1. TypeOK /\ ClientsOK /\ AckedDeletionsOK /\ cl[c] \in Client
    BY Zenon DEF IInv, TypeOK
<1>2. r \in Client
    BY Zenon, <1>1 DEF Client
<1>3. cl' = [cl EXCEPT ![c] = r]
    BY Zenon DEF AddLookup
<1>4. UNCHANGED <<storeVars, diskVars, loopVars, lastEvt, crashes, histVars>>
    BY Zenon DEF AddLookup
<1>5. r.pc = "adding" /\ r.name = n /\ r.held = cl[c].held
    BY Zenon, <1>1 DEF Client
<1> HIDE DEF r
<1> QED BY Zenon, <1>1, <1>2, <1>3, <1>4, <1>5, ClientStep DEF TypeOK, ClientsOK, AckedDeletionsOK, histVars

LEMMA ReadIInv ==
  ASSUME IInv, NEW c \in Clients, NEW n \in Names, Read(c, n) PROVE IInv'
<1> DEFINE p == pobj[indexer[n]]
           r == [cl[c] EXCEPT !.held = Held(p.current)]
<1>1. TypeOK /\ PendingsOK /\ ClientsOK /\ AckedDeletionsOK /\ cl[c] \in Client
    BY Zenon DEF IInv, TypeOK
<1>2. indexer[n] \in Uids /\ p.current # NoObj
    BY <1>1, BoundsAssumption DEF Read, TypeOK, Uids
<1>3. p \in PendingObject /\ p.current.uid = indexer[n] /\ p.current.name = p.name
      /\ p.name # 0 /\ indexer[n] <= lastUid /\ p.current \in Obj
    BY <1>1, <1>2, NamesAssumption DEF TypeOK, PendingsOK, PendingObject, Obj
<1>4. Held(p.current) \in [obj : Obj \cup {NoObj}, epoch : 0..MaxCrashes]
    BY Zenon, <1>1, <1>3 DEF Held, TypeOK
<1>5. r \in Client
    BY Zenon, <1>1, <1>4 DEF Client
<1>6. cl' = [cl EXCEPT ![c] = r] /\ UNCHANGED <<storeVars, diskVars, loopVars, lastEvt, crashes, histVars>>
    BY Zenon DEF Read
<1>7. r.pc = "idle" /\ r.held.obj = p.current
    BY Zenon, <1>1 DEF Client, Held, Read
<1> HIDE DEF r
<1> QED BY Zenon, <1>1, <1>3, <1>5, <1>6, <1>7, ClientStep DEF TypeOK, AckedDeletionsOK, histVars

LEMMA UpdateLookupIInv ==
  ASSUME IInv, NEW c \in Clients, NEW n \in Names, UpdateLookup(c, n) PROVE IInv'
<1> DEFINE r == [cl[c] EXCEPT !.pc = "updating", !.ptr = indexer[n]]
<1>1. TypeOK /\ IndexerOK /\ ClientsOK /\ AckedDeletionsOK /\ cl[c] \in Client
    BY Zenon DEF IInv, TypeOK
<1>2. r \in Client
    BY Zenon, <1>1 DEF Client, TypeOK
<1>3. cl' = [cl EXCEPT ![c] = r] /\ UNCHANGED <<storeVars, diskVars, loopVars, lastEvt, crashes, histVars>>
    BY Zenon DEF UpdateLookup
<1>4. r.pc = "updating" /\ r.ptr = indexer[n] /\ r.held = cl[c].held
    BY Zenon, <1>1 DEF Client
<1>5. indexer[n] # 0 /\ pobj[indexer[n]].name # 0 /\ cl[c].held.obj.uid = indexer[n]
    BY Zenon, <1>1, NamesAssumption DEF UpdateLookup, IndexerOK
<1> HIDE DEF r
<1> QED BY Zenon, <1>1, <1>2, <1>3, <1>4, <1>5, ClientStep DEF TypeOK, ClientsOK, AckedDeletionsOK, histVars

LEMMA DeleteLookupIInv ==
  ASSUME IInv, NEW c \in Clients, NEW n \in Names, DeleteLookup(c, n) PROVE IInv'
<1> DEFINE r == [cl[c] EXCEPT !.pc = "deleting", !.ptr = indexer[n]]
<1>1. TypeOK /\ IndexerOK /\ ClientsOK /\ AckedDeletionsOK /\ cl[c] \in Client
    BY Zenon DEF IInv, TypeOK
<1>2. r \in Client
    BY Zenon, <1>1 DEF Client, TypeOK
<1>3. cl' = [cl EXCEPT ![c] = r] /\ UNCHANGED <<storeVars, diskVars, loopVars, lastEvt, crashes, histVars>>
    BY Zenon DEF DeleteLookup
<1>4. r.pc = "deleting" /\ r.ptr = indexer[n] /\ r.held = cl[c].held
    BY Zenon, <1>1 DEF Client
<1>5. indexer[n] # 0 /\ pobj[indexer[n]].name # 0
    BY Zenon, <1>1, NamesAssumption DEF DeleteLookup, IndexerOK
<1> HIDE DEF r
<1> QED BY Zenon, <1>1, <1>2, <1>3, <1>4, <1>5, ClientStep DEF TypeOK, ClientsOK, AckedDeletionsOK, histVars

LEMMA AddInsertIInv ==
  ASSUME IInv, NEW c \in Clients, AddInsert(c) PROVE IInv'
<1>b. TypeOK /\ PendingsOK /\ IndexerOK /\ JobsOK /\ FilesOK /\ ClientsOK /\ AckedDeletionsOK
    BY Zenon DEF IInv
<1>c. cl[c] \in Client
    BY Zenon, <1>b DEF TypeOK
<1>0. PICK u \in Uids, v \in 1..MaxVersion, n \in Names :
        u = lastUid + 1 /\ v = seed + 1 /\ n = cl[c].name
    BY <1>b, BoundsAssumption DEF TypeOK, Uids, ClientsOK, AddInsert
<1>a. /\ cl[c].pc = "adding"
      /\ pobj' = [pobj EXCEPT ![u] = newPendingObject(n, u, v)]
      /\ indexer' = [indexer EXCEPT ![n] = u]
      /\ cl' = [cl EXCEPT ![c].pc = "waiting", ![c].ptr = u, ![c].ver = v]
      /\ lastUid' = u
      /\ seed' = v
      /\ UNCHANGED <<diskVars, loopVars, lastEvt, crashes, histVars>>
    BY Zenon, <1>0 DEF AddInsert
<1>2. pobj[u] = NoPending
    BY <1>0, <1>b, NamesAssumption DEF TypeOK, PendingsOK, PendingObject, Uids
<1>3. TypeOK'
  <2>1. newPendingObject(n, u, v) \in PendingObject
      BY Zenon, <1>0 DEF newPendingObject, PendingObject, Obj, EventTypes, NoObj
  <2>2. pobj' \in [Uids -> PendingObject]
      BY Zenon, <2>1, <1>a, <1>b DEF TypeOK
  <2>3. cl' \in [Clients -> Client]
    <3>1. u \in 0..MaxUid /\ v \in 0..MaxVersion
        BY BoundsAssumption DEF Uids
    <3>2. [cl[c] EXCEPT !.pc = "waiting", !.ptr = u, !.ver = v] \in Client
        BY Zenon, <3>1, <1>c DEF Client
    <3>3. cl' = [cl EXCEPT ![c] = [cl[c] EXCEPT !.pc = "waiting", !.ptr = u, !.ver = v]]
        BY Zenon, <1>a
    <3> QED BY Zenon, <3>2, <3>3, <1>b DEF TypeOK
  <2>4. lastUid' \in 0..MaxUid /\ seed' \in 0..MaxVersion /\ indexer' \in [Names -> 0..MaxUid]
      BY <1>0, <1>a, <1>b, BoundsAssumption DEF TypeOK, Uids
  <2> QED BY Zenon, <2>2, <2>3, <2>4, <1>a, <1>b DEF TypeOK, diskVars, loopVars, histVars
<1>4. /\ \A w \in Uids : w # u => pobj'[w] = pobj[w]
      /\ pobj'[u] = newPendingObject(n, u, v)
    BY Zenon, <1>0, <1>a, <1>b DEF TypeOK
<1>5. \A w \in Uids : Live(w) => w # u /\ Live(w)' /\ pobj'[w] = pobj[w]
    BY <1>2, <1>4 DEF Live, NoPending
<1>6. PendingsOK'
  <2>1. lastUid' = lastUid + 1 /\ lastUid \in Nat
      BY <1>0, <1>a, <1>b, BoundsAssumption DEF TypeOK
  <2>2. ASSUME NEW w \in Uids, w # u
        PROVE  pobj'[w].name # 0 => w <= lastUid'
      BY <2>1, <1>b, <1>4, <2>2 DEF PendingsOK, Uids
  <2>3. n # 0 /\ u <= lastUid'
      BY <1>a, BoundsAssumption, NamesAssumption DEF Uids
  <2> QED BY <2>2, <2>3, <1>4, <1>b DEF PendingsOK, newPendingObject, NoObj, Live, getLatest
<1>7. FilesOK'
    BY <1>5, <1>a, <1>b DEF FilesOK, TypeOK, Obj, diskVars
<1>8. JobsOK'
  <2>1. \A b \in Batches : jobs[b].drop # 0 => jobs[b].drop \in Uids
      BY <1>b DEF TypeOK, Job, Uids
  <2>2. \A b \in Batches : jobs[b].items \cup jobs[b].deletings \subseteq Uids
      BY Zenon, <1>b DEF TypeOK, Job
  <2> QED BY <2>1, <2>2, <1>5, <1>4, <1>2, <1>a, <1>b
          DEF JobsOK, NoPending, diskVars, loopVars
<1>9. IndexerOK'
  <2>1. \A m \in Names : indexer[m] # 0 => indexer[m] \in Uids /\ indexer[m] # u
      BY SMTT(20), <1>2, <1>b, NamesAssumption DEF TypeOK, Uids, IndexerOK, NoPending
  <2>2. Live(u)'
      BY <1>4, NamesAssumption DEF Live, newPendingObject
  <2> QED BY <2>1, <2>2, <1>4, <1>5, <1>a, <1>b DEF IndexerOK, newPendingObject, TypeOK, loopVars
<1>10. ClientsOK'
  <2>1. \A d \in Clients : d # c => cl'[d] = cl[d]
      BY Zenon, <1>a, <1>b DEF TypeOK
  <2>2. cl'[c].pc = "waiting" /\ cl'[c].ptr = u /\ cl'[c].held = cl[c].held
      BY Zenon, <1>a, <1>b, <1>c DEF TypeOK, Client
  <2>3. \A d \in Clients : cl[d].held.obj # NoObj => cl[d].held.obj.uid \in Uids
      BY Zenon, <1>b DEF TypeOK, Client, Obj
  <2>4. \A d \in Clients : cl[d].ptr # 0 => cl[d].ptr \in Uids
      BY <1>b DEF TypeOK, Client, Uids
  <2>5. lastUid' = lastUid + 1 /\ lastUid \in Nat /\ u = lastUid + 1
      BY <1>0, <1>a, <1>b, BoundsAssumption DEF TypeOK
  <2>6. n # 0 /\ u # 0
      BY BoundsAssumption, NamesAssumption DEF Uids
  <2>7. \A d \in Clients : cl[d].held.obj # NoObj =>
          /\ cl[d].held.obj.uid <= lastUid'
          /\ pobj'[cl[d].held.obj.uid] = pobj[cl[d].held.obj.uid]
      BY <2>3, <2>5, <1>4, <1>b DEF ClientsOK, Uids
  <2> QED BY SMTT(40), <2>1, <2>2, <2>4, <2>6, <2>7, <1>2, <1>4, <1>b
          DEF ClientsOK, Deleting, newPendingObject, NoPending
<1>11. AckedDeletionsOK'
    BY SMTT(20), <1>0, <1>4, BoundsAssumption, <1>a, <1>b DEF AckedDeletionsOK, Live, TypeOK, Uids, histVars
<1> QED BY Zenon, <1>3, <1>6, <1>7, <1>8, <1>9, <1>10, <1>11 DEF IInv

LEMMA WaitCommittedIInv ==
  ASSUME IInv, NEW c \in Clients, WaitCommitted(c) PROVE IInv'
<1> DEFINE p == pobj[cl[c].ptr]
           r == [Idle(c) EXCEPT !.held = Held(p.current)]
<1>1. TypeOK /\ PendingsOK /\ ClientsOK /\ AckedDeletionsOK /\ cl[c] \in Client
    BY Zenon DEF IInv, TypeOK
<1>2. cl[c].ptr \in Uids /\ p.current # NoObj
    BY <1>1, BoundsAssumption DEF WaitCommitted, ClientsOK, Client, Uids
<1>3. p \in PendingObject /\ p.current.uid = cl[c].ptr /\ p.current.name = p.name
      /\ p.name # 0 /\ cl[c].ptr <= lastUid /\ p.current \in Obj
    BY <1>1, <1>2, NamesAssumption DEF TypeOK, PendingsOK, PendingObject, Obj
<1>4. Held(p.current) \in [obj : Obj \cup {NoObj}, epoch : 0..MaxCrashes]
    BY Zenon, <1>1, <1>3 DEF Held, TypeOK
<1>5. r \in Client
    BY Zenon, <1>1, <1>4, IdleClient DEF Client
<1>6. cl' = [cl EXCEPT ![c] = r] /\ UNCHANGED <<storeVars, diskVars, loopVars, lastEvt, crashes, delAsked, delAcked>>
    BY Zenon DEF WaitCommitted
<1>7. r.pc = "idle" /\ r.held.obj = p.current
    BY Zenon, <1>1, IdleClient DEF Client, Held
<1>8. acked' \in [Uids -> 0..MaxVersion]
    BY Zenon, <1>1, <1>2 DEF TypeOK, Client, WaitCommitted
<1> HIDE DEF r
<1> QED BY Zenon, <1>1, <1>3, <1>5, <1>6, <1>7, <1>8, ClientStep DEF TypeOK, AckedDeletionsOK

LEMMA WaitDeletedIInv ==
  ASSUME IInv, NEW c \in Clients, WaitDeleted(c) PROVE IInv'
<1> DEFINE u == cl[c].ptr
           r == Idle(c)
<1>1. TypeOK /\ PendingsOK /\ ClientsOK /\ AckedDeletionsOK /\ cl[c] \in Client
    BY Zenon DEF IInv, TypeOK
<1>2. u \in Uids /\ pobj[u].name # 0 /\ (Deleting(pobj[u]) \/ pobj[u].deleted)
    BY <1>1, BoundsAssumption DEF WaitDeleted, ClientsOK, Client, Uids
<1>3. pobj[u].deleted /\ u <= lastUid
    BY Zenon, <1>1, <1>2 DEF WaitDeleted, IsPending, Deleting, PendingsOK
<1>4. r \in Client /\ r.pc = "idle" /\ r.held = cl[c].held
    BY Zenon, <1>1, IdleClient
<1>5. cl' = [cl EXCEPT ![c] = r] /\ delAcked' = delAcked \cup {u}
      /\ UNCHANGED <<storeVars, diskVars, loopVars, lastEvt, crashes, acked, delAsked>>
    BY Zenon DEF WaitDeleted
<1> HIDE DEF r, u
<1>6. delAcked' \subseteq Uids /\ \A w \in delAcked' : ~ Live(w) /\ w <= lastUid
    BY Zenon, <1>1, <1>2, <1>3, <1>5 DEF TypeOK, AckedDeletionsOK, Live
<1> QED BY Zenon, <1>1, <1>4, <1>5, <1>6, ClientStep DEF TypeOK, ClientsOK

LEMMA WaitFailedIInv ==
  ASSUME IInv, NEW c \in Clients, WaitFailed(c) PROVE IInv'
<1> DEFINE r == Idle(c)
<1>1. TypeOK /\ ClientsOK /\ AckedDeletionsOK /\ cl[c] \in Client
    BY Zenon DEF IInv, TypeOK
<1>2. r \in Client /\ r.pc = "idle" /\ r.held = cl[c].held
    BY Zenon, <1>1, IdleClient
<1>3. cl' = [cl EXCEPT ![c] = r] /\ UNCHANGED <<storeVars, diskVars, loopVars, lastEvt, crashes, histVars>>
    BY Zenon DEF WaitFailed
<1> HIDE DEF r
<1> QED BY Zenon, <1>1, <1>2, <1>3, ClientStep DEF TypeOK, ClientsOK, AckedDeletionsOK, histVars

\* The calls in progress stay consistent when client c moves on and no
\* pendingObject loses its name or stops being deleted.
LEMMA ClientsStep ==
  ASSUME TypeOK, ClientsOK, NEW c \in Clients, NEW r \in Client,
         cl'[c] = r, \A d \in Clients : d # c => cl'[d] = cl[d],
         lastUid' = lastUid,
         \A w \in Uids : /\ Live(w)' <=> Live(w)
                         /\ pobj'[w].name = pobj[w].name
                         /\ pobj'[w].deleted = pobj[w].deleted
                         /\ Deleting(pobj[w]) => Deleting(pobj'[w]),
         r.pc \in {"waiting", "waitdel"}, r.ptr # 0, pobj'[r.ptr].name # 0,
         r.held = cl[c].held,
         r.pc = "waitdel" => Deleting(pobj'[r.ptr])
  PROVE  ClientsOK'
<1> SUFFICES ASSUME NEW d \in Clients
             PROVE  (/\ cl[d].pc = "adding" => cl[d].name \in Names
                     /\ cl[d].pc \in {"updating", "deleting", "waiting", "waitdel"} =>
                          cl[d].ptr # 0 /\ pobj[cl[d].ptr].name # 0
                     /\ cl[d].pc = "updating" => cl[d].held.obj.uid = cl[d].ptr
                     /\ cl[d].held.obj # NoObj =>
                          /\ cl[d].held.obj.uid <= lastUid
                          /\ pobj[cl[d].held.obj.uid].name \in {0, cl[d].held.obj.name}
                     /\ cl[d].pc = "waitdel" =>
                          Deleting(pobj[cl[d].ptr]) \/ pobj[cl[d].ptr].deleted)'
    BY Zenon DEF ClientsOK
<1>1. cl[d] \in Client
    BY Zenon DEF TypeOK
<1>2. cl[d].ptr # 0 => cl[d].ptr \in Uids
    BY <1>1, BoundsAssumption DEF Client, Uids
<1>3. cl[d].held.obj # NoObj => cl[d].held.obj.uid \in Uids
    BY Zenon, <1>1 DEF Client, Obj
<1>4. cl'[d].held = cl[d].held
    BY Zenon
<1>5. cl[d].held.obj # NoObj => /\ cl[d].held.obj.uid <= lastUid
                                /\ pobj'[cl[d].held.obj.uid].name \in {0, cl[d].held.obj.name}
    BY Zenon, <1>3 DEF ClientsOK
<1>6. CASE d = c
    BY Zenon, <1>4, <1>5, <1>6
<1>7. CASE d # c
  <2>1. cl'[d] = cl[d]
      BY Zenon, <1>7
  <2> QED BY <1>2, <1>5, <2>1 DEF ClientsOK
<1> QED BY Zenon, <1>6, <1>7

\* The files stay consistent when no pendingObject in use loses its name or is
\* deleted.
LEMMA FilesStep ==
  ASSUME TypeOK, FilesOK, UNCHANGED <<files, lastHash>>,
         \A w \in Uids : (Live(w)' <=> Live(w)) /\ pobj'[w].name = pobj[w].name
  PROVE  FilesOK'
<1>1. \A b \in Batches : \A o \in files[b] : o.uid \in Uids
    BY DEF TypeOK, Obj
<1> QED BY Zenon, <1>1 DEF FilesOK

\* A step by which client c gives the pendingObject u a new event and then waits.
LEMMA EventStep ==
  ASSUME IInv, NEW c \in Clients, NEW r \in Client, NEW u \in Uids, NEW q \in PendingObject,
         pobj' = [pobj EXCEPT ![u] = q],
         q.name = pobj[u].name, q.name # 0, q.deleted = pobj[u].deleted,
         q.event.type # "None", q.event.obj # NoObj,
         q.event.obj.uid = u, q.event.obj.name = q.name,
         q.current # NoObj => q.current.uid = u /\ q.current.name = q.name,
         Deleting(pobj[u]) => Deleting(q),
         seed' \in 0..MaxVersion,
         UNCHANGED <<indexer, lastUid, diskVars, loopVars, lastEvt, crashes, acked, delAcked>>,
         delAsked' \subseteq Uids,
         cl' = [cl EXCEPT ![c] = r],
         r.pc \in {"waiting", "waitdel"}, r.ptr = u, r.held = cl[c].held,
         r.pc = "waitdel" => Deleting(q)
  PROVE  IInv'
<1>1. TypeOK /\ PendingsOK /\ IndexerOK /\ JobsOK /\ FilesOK /\ ClientsOK /\ AckedDeletionsOK
    BY Zenon DEF IInv
<1>2. TypeOK'
    BY Zenon, <1>1 DEF TypeOK, diskVars, loopVars
<1>3. pobj'[u] = q /\ \A w \in Uids : w # u => pobj'[w] = pobj[w]
    BY Zenon, <1>1 DEF TypeOK
<1>4. \A w \in Uids : (Live(w)' <=> Live(w)) /\ pobj'[w].name = pobj[w].name
                      /\ pobj'[w].deleted = pobj[w].deleted
                      /\ (Deleting(pobj[w]) => Deleting(pobj'[w]))
    BY Zenon, <1>3 DEF Live
<1>5. PendingsOK'
    BY SMTT(20), <1>1, <1>3 DEF PendingsOK, getLatest, Live
<1>6. IndexerOK'
  <2>1. \A n \in Names : indexer[n] # 0 => indexer[n] \in Uids
      BY <1>1, BoundsAssumption DEF TypeOK, Uids
  <2> QED BY <2>1, <1>1, <1>4 DEF IndexerOK, loopVars
<1>7. JobsOK'
  <2>1. \A b \in Batches : /\ jobs[b].drop # 0 => jobs[b].drop \in Uids
                            /\ \A w \in jobs[b].items \cup jobs[b].deletings : w \in Uids
      BY SMTT(20), <1>1, BoundsAssumption DEF TypeOK, Job, Uids
  <2>2. jobs' = jobs /\ loop' = loop /\ files' = files
      BY Zenon DEF loopVars, diskVars
  <2>3. ASSUME NEW b \in Batches
        PROVE  /\ jobs[b].drop # 0 => pobj'[jobs[b].drop].name # 0
               /\ \A w \in jobs[b].items \cup jobs[b].deletings :
                    Live(w)' /\ KeyFunc[pobj'[w].name] = b
    <3>1. jobs[b].drop # 0 => pobj'[jobs[b].drop].name # 0
        BY Zenon, <2>1, <1>1, <1>4 DEF JobsOK
    <3>2. ASSUME NEW w \in jobs[b].items \cup jobs[b].deletings
          PROVE  Live(w)' /\ KeyFunc[pobj'[w].name] = b
      <4>1. jobs[b].items \subseteq Uids /\ jobs[b].deletings \subseteq Uids
          BY Zenon, <1>1 DEF TypeOK, Job
      <4>2. Live(w) /\ KeyFunc[pobj[w].name] = b
          BY Zenon, <1>1 DEF JobsOK
      <4>3. w \in Uids
          BY Zenon, <4>1
      <4> QED BY Zenon, <4>2, <4>3, <1>4
    <3> QED BY Zenon, <3>1, <3>2
  <2> QED BY Zenon, <2>2, <2>3, <1>1 DEF JobsOK
<1>8. FilesOK'
    BY Zenon, <1>1, <1>4, FilesStep DEF diskVars
<1>9. ClientsOK'
  <2>1. cl'[c] = r /\ \A d \in Clients : d # c => cl'[d] = cl[d]
      BY Zenon, <1>1 DEF TypeOK
  <2>2. u # 0 /\ pobj'[r.ptr].name # 0
      BY <1>3, BoundsAssumption DEF Uids
  <2>3. r.pc = "waitdel" => Deleting(pobj'[r.ptr])
      BY Zenon, <1>3
  <2> QED BY Zenon, <1>1, <1>4, <2>1, <2>2, <2>3, ClientsStep
<1>10. AckedDeletionsOK'
    BY Zenon, <1>1, <1>4 DEF AckedDeletionsOK, TypeOK
<1> QED BY Zenon, <1>2, <1>5, <1>6, <1>7, <1>8, <1>9, <1>10 DEF IInv

LEMMA RequestUpdateIInv ==
  ASSUME IInv, NEW c \in Clients, RequestUpdate(c) PROVE IInv'
<1>1. TypeOK /\ PendingsOK /\ ClientsOK /\ AckedDeletionsOK /\ cl[c] \in Client
    BY Zenon DEF IInv, TypeOK
<1>2. PICK u \in Uids, v \in 1..MaxVersion :
        /\ u = cl[c].ptr /\ v = seed + 1 /\ pobj[u].name # 0 /\ cl[c].held.obj.uid = u
    BY SMTT(20), <1>1, BoundsAssumption DEF RequestUpdate, TypeOK, ClientsOK, Client, Uids
<1>3. CASE Acceptable(pobj[u], cl[c].held.obj)
  <2> DEFINE o == [cl[c].held.obj EXCEPT !.data = v, !.ver = v]
             q == [pobj[u] EXCEPT !.event = [type |-> "Modified", obj |-> o]]
             r == [cl[c] EXCEPT !.pc = "waiting", !.ver = v]
  <2>1. /\ pobj' = [pobj EXCEPT ![u] = q]
        /\ seed' = v
        /\ cl' = [cl EXCEPT ![c] = r]
        /\ UNCHANGED <<indexer, lastUid, diskVars, loopVars, lastEvt, crashes, histVars>>
      BY Zenon, <1>2, <1>3 DEF RequestUpdate
  <2>2. cl[c].held.obj \in Obj /\ cl[c].held.obj.name = pobj[u].name /\ cl[c].held.obj # NoObj
      BY <1>1, <1>2, BoundsAssumption DEF ClientsOK, Client, Uids, NoObj
  <2>3. o \in Obj /\ o # NoObj /\ o.uid = u /\ o.name = pobj[u].name
      BY Zenon, <1>2, <2>2, BoundsAssumption DEF Obj, NoObj
  <2>4. pobj[u] \in PendingObject
      BY Zenon, <1>1 DEF TypeOK
  <2> HIDE DEF o
  <2>5. /\ q \in PendingObject /\ q.name = pobj[u].name /\ q.deleted = pobj[u].deleted
        /\ q.current = pobj[u].current /\ q.event.type = "Modified" /\ q.event.obj = o
      BY Zenon, <2>3, <2>4 DEF PendingObject, EventTypes
  <2>6. v \in 0..MaxVersion
      BY BoundsAssumption
  <2>7. r \in Client /\ r.pc = "waiting" /\ r.ptr = u /\ r.held = cl[c].held
      BY Zenon, <1>1, <1>2, <2>6 DEF Client
  <2>8. ~ Deleting(pobj[u])
      BY Zenon, <1>3 DEF Acceptable
  <2>9. pobj[u].current # NoObj => pobj[u].current.uid = u /\ pobj[u].current.name = pobj[u].name
      BY Zenon, <1>1 DEF PendingsOK
  <2> HIDE DEF q, r
  <2>10. delAsked' \subseteq Uids /\ seed' \in 0..MaxVersion
         /\ UNCHANGED <<indexer, lastUid, diskVars, loopVars, lastEvt, crashes, acked, delAcked>>
      BY Zenon, <1>1, <2>1, <2>6 DEF TypeOK, histVars
  <2>11. /\ q.name # 0 /\ q.event.type # "None" /\ q.event.obj # NoObj
         /\ q.event.obj.uid = u /\ q.event.obj.name = q.name
         /\ q.current # NoObj => q.current.uid = u /\ q.current.name = q.name
         /\ r.pc \in {"waiting", "waitdel"} /\ r.pc # "waitdel"
      BY Zenon, <1>2, <2>3, <2>5, <2>7, <2>9
  <2> QED BY Zenon, <2>1, <2>5, <2>7, <2>8, <2>10, <2>11, EventStep
<1>4. CASE ~ Acceptable(pobj[u], cl[c].held.obj)
  <2>1. cl' = [cl EXCEPT ![c] = Idle(c)]
        /\ UNCHANGED <<storeVars, diskVars, loopVars, lastEvt, crashes, histVars>>
      BY Zenon, <1>2, <1>4 DEF RequestUpdate, storeVars
  <2> QED BY Zenon, <2>1, <1>1, IdleClient, ClientStep DEF TypeOK, ClientsOK, AckedDeletionsOK, histVars
<1> QED BY Zenon, <1>3, <1>4

LEMMA RequestDeleteIInv ==
  ASSUME IInv, NEW c \in Clients, RequestDelete(c) PROVE IInv'
<1>1. TypeOK /\ PendingsOK /\ ClientsOK /\ AckedDeletionsOK /\ cl[c] \in Client
    BY Zenon DEF IInv, TypeOK
<1>a. cl[c].pc = "deleting" /\ seed < MaxVersion
    BY Zenon DEF RequestDelete
<1>2. PICK u \in Uids, v \in 1..MaxVersion :
        u = cl[c].ptr /\ v = seed + 1 /\ pobj[u].name # 0
  <2>1. cl[c].ptr # 0 /\ pobj[cl[c].ptr].name # 0
      BY Zenon, <1>1, <1>a DEF ClientsOK
  <2>2. cl[c].ptr \in Uids
      BY <1>1, <2>1, BoundsAssumption DEF Client, Uids
  <2>3. seed + 1 \in 1..MaxVersion
      BY <1>1, <1>a, BoundsAssumption DEF TypeOK
  <2>4. PICK u \in Uids : u = cl[c].ptr
      BY Zenon, <2>2
  <2>5. PICK v \in 1..MaxVersion : v = seed + 1
      BY Zenon, <2>3
  <2> QED BY Zenon, <2>1, <2>4, <2>5
<1>3. CASE DeleteTarget(pobj[u]) # NoObj
  <2> DEFINE o == [DeleteTarget(pobj[u]) EXCEPT !.ver = v]
             q == [pobj[u] EXCEPT !.event = [type |-> "Deleted", obj |-> o],
                                  !.current = IF @ = NoObj THEN @ ELSE o]
             r == [cl[c] EXCEPT !.pc = "waitdel"]
  <2>1. /\ pobj' = [pobj EXCEPT ![u] = q]
        /\ seed' = v
        /\ delAsked' = delAsked \cup {u}
        /\ cl' = [cl EXCEPT ![c] = r]
        /\ UNCHANGED <<indexer, lastUid, diskVars, loopVars, lastEvt, crashes, acked, delAcked>>
      BY ZenonT(30), <1>2, <1>3 DEF RequestDelete
  <2>2. pobj[u] \in PendingObject
      BY Zenon, <1>1 DEF TypeOK
  <2>3. DeleteTarget(pobj[u]) \in Obj /\ DeleteTarget(pobj[u]).uid = u
        /\ DeleteTarget(pobj[u]).name = pobj[u].name
      BY Zenon, <1>1, <1>3, <2>2 DEF PendingsOK, DeleteTarget, PendingObject
  <2>4. o \in Obj /\ o # NoObj /\ o.uid = u /\ o.name = pobj[u].name
      BY Zenon, <1>2, <2>3, BoundsAssumption DEF Obj, NoObj, Uids
  <2> HIDE DEF o
  <2>5. /\ q \in PendingObject /\ q.name = pobj[u].name /\ q.deleted = pobj[u].deleted
        /\ q.current \in {NoObj, o} /\ q.event.type = "Deleted" /\ q.event.obj = o
      BY Zenon, <2>2, <2>4 DEF PendingObject, EventTypes
  <2>6. v \in 0..MaxVersion
      BY BoundsAssumption
  <2>7. r \in Client /\ r.pc = "waitdel" /\ r.ptr = u /\ r.held = cl[c].held
      BY Zenon, <1>1, <1>2 DEF Client
  <2> HIDE DEF q, r
  <2>8. delAsked' \subseteq Uids /\ seed' \in 0..MaxVersion
      BY Zenon, <1>1, <2>1, <2>6 DEF TypeOK
  <2>9. /\ q.name # 0 /\ q.event.type # "None" /\ q.event.obj # NoObj
        /\ q.event.obj.uid = u /\ q.event.obj.name = q.name /\ Deleting(q)
        /\ q.current # NoObj => q.current.uid = u /\ q.current.name = q.name
        /\ r.pc \in {"waiting", "waitdel"}
      BY Zenon, <1>2, <2>4, <2>5, <2>7 DEF Deleting
  <2> QED BY Zenon, <2>1, <2>5, <2>7, <2>8, <2>9, EventStep
<1>4. CASE DeleteTarget(pobj[u]) = NoObj
  <2> DEFINE r == [cl[c] EXCEPT !.pc = "panicked"]
  <2>1. cl' = [cl EXCEPT ![c] = r]
        /\ UNCHANGED <<storeVars, diskVars, loopVars, lastEvt, crashes, histVars>>
      BY Zenon, <1>2, <1>4 DEF RequestDelete, storeVars, histVars
  <2>2. r \in Client /\ r.pc = "panicked" /\ r.held = cl[c].held
      BY Zenon, <1>1 DEF Client
  <2> HIDE DEF r
  <2> QED BY Zenon, <2>1, <2>2, <1>1, ClientStep DEF TypeOK, ClientsOK, AckedDeletionsOK, histVars
<1> QED BY Zenon, <1>3, <1>4

-----------------------------------------------------------------------------
(* The steps of the persist loop, and the theorems *)

LEMMA PersistMetaIInv == ASSUME IInv, PersistMeta PROVE IInv'
<1>1. TypeOK /\ PendingsOK /\ IndexerOK /\ JobsOK /\ FilesOK /\ ClientsOK /\ AckedDeletionsOK
    BY Zenon DEF IInv
<1>2. UNCHANGED <<indexer, pobj, lastUid, files, lastHash, jobs, cl, delAcked>>
    BY Zenon DEF PersistMeta, storeVars, histVars
<1>3. TypeOK'
    BY Zenon, <1>1 DEF TypeOK, PersistMeta, storeVars, histVars
<1>4. PendingsOK' /\ IndexerOK' /\ FilesOK' /\ ClientsOK' /\ AckedDeletionsOK'
    BY Zenon, <1>1, <1>2, PendingsFrame, IndexerFrame, FilesFrame, ClientsFrame, AckedDeletionsFrame
<1>5. JobsOK'
    BY Zenon, <1>1, <1>2 DEF JobsOK, Live, PersistMeta
<1> QED BY Zenon, <1>3, <1>4, <1>5 DEF IInv

LEMMA WaitAllIInv == ASSUME IInv, WaitAll PROVE IInv'
<1>1. TypeOK /\ PendingsOK /\ IndexerOK /\ JobsOK /\ FilesOK /\ ClientsOK /\ AckedDeletionsOK
    BY Zenon DEF IInv
<1>2. UNCHANGED <<indexer, pobj, lastUid, files, lastHash, jobs, cl, delAcked>>
    BY Zenon DEF WaitAll, storeVars, histVars, diskVars
<1>3. TypeOK'
    BY Zenon, <1>1 DEF TypeOK, WaitAll, storeVars, histVars, diskVars
<1>4. PendingsOK' /\ IndexerOK' /\ FilesOK' /\ ClientsOK' /\ AckedDeletionsOK'
    BY Zenon, <1>1, <1>2, PendingsFrame, IndexerFrame, FilesFrame, ClientsFrame, AckedDeletionsFrame
<1>5. JobsOK'
    BY <1>1, <1>2 DEF JobsOK, Live, WaitAll
<1> QED BY Zenon, <1>3, <1>4, <1>5 DEF IInv

\* A step of the goroutine of batch b that changes neither the pendingObjects nor
\* the indexer.
LEMMA JobStep ==
  ASSUME IInv, NEW b \in Batches, NEW j \in Job,
         jobs' = [jobs EXCEPT ![b] = j],
         UNCHANGED <<storeVars, metaFile, loop, cl, lastEvt, crashes, histVars>>,
         files' \in [Batches -> SUBSET Obj], lastHash' \in [Batches -> SUBSET Obj],
         FilesOK',
         \A a \in Batches : a # b => files'[a] = files[a],
         j.drop = jobs[b].drop,
         j.drop # 0 => j.pc = "commit",
         j.pc = "done" => j = NoJob,
         loop # "jobs" => j.pc = "done",
         j.items \subseteq jobs[b].items, j.deletings \subseteq jobs[b].deletings,
         j.pc = "commit" => \A o \in files'[b] : o.uid \notin j.deletings
  PROVE  IInv'
<1>1. TypeOK /\ PendingsOK /\ IndexerOK /\ JobsOK /\ FilesOK /\ ClientsOK /\ AckedDeletionsOK
    BY Zenon DEF IInv
<1>2. UNCHANGED <<seed, indexer, pobj, lastUid>>
    BY Zenon DEF storeVars
<1>3. jobs'[b] = j /\ \A a \in Batches : a # b => jobs'[a] = jobs[a]
    BY Zenon, <1>1 DEF TypeOK
<1>4. TypeOK'
    BY Zenon, <1>1, <1>2 DEF TypeOK, histVars
<1>5. PendingsOK' /\ ClientsOK' /\ AckedDeletionsOK'
    BY Zenon, <1>1, <1>2, PendingsFrame, ClientsFrame, AckedDeletionsFrame DEF histVars
<1>6. IndexerOK'
    BY <1>1, <1>2, <1>3 DEF IndexerOK, Live
<1>7. JobsOK'
    BY <1>1, <1>2, <1>3 DEF JobsOK, Live
<1> QED BY Zenon, <1>4, <1>5, <1>6, <1>7 DEF IInv

LEMMA JobDoneIInv ==
  ASSUME IInv, NEW b \in Batches, JobDone(b) PROVE IInv'
<1>1. TypeOK /\ FilesOK
    BY Zenon DEF IInv
<1>2. NoJob \in Job /\ NoJob.drop = jobs[b].drop /\ NoJob.items \subseteq jobs[b].items
      /\ NoJob.deletings \subseteq jobs[b].deletings /\ NoJob.pc = "done" /\ NoJob.drop = 0
    BY BoundsAssumption DEF JobDone, NoJob, Job, Uids
<1>3. /\ jobs' = [jobs EXCEPT ![b] = NoJob]
      /\ UNCHANGED <<storeVars, diskVars, loop, cl, lastEvt, crashes, histVars>>
    BY Zenon DEF JobDone
<1>4. FilesOK'
    BY Zenon, <1>1, <1>3 DEF FilesOK, Live, storeVars, diskVars
<1> QED BY Zenon, <1>1, <1>2, <1>3, <1>4, JobStep DEF TypeOK, diskVars

\* What a batch writes: one object for each of its items.
LEMMA MarshalObjects ==
  ASSUME TypeOK, PendingsOK, JobsOK, NEW b \in Batches
  PROVE  \A o \in Marshal(b) :
           /\ o \in Obj
           /\ o.uid \in jobs[b].items
           /\ o.name = pobj[o.uid].name
           /\ Live(o.uid) /\ KeyFunc[o.name] = b
<1> SUFFICES ASSUME NEW u \in jobs[b].items
             PROVE  LET o == getLatest(pobj[u])
                    IN  o \in Obj /\ o.uid = u /\ o.name = pobj[u].name
                        /\ Live(u) /\ KeyFunc[pobj[u].name] = b
    BY DEF Marshal
<1>1. jobs[b].items \subseteq Uids
    BY Zenon DEF TypeOK, Job
<1>2. u \in Uids /\ pobj[u] \in PendingObject
    BY Zenon, <1>1 DEF TypeOK
<1>3. Live(u) /\ KeyFunc[pobj[u].name] = b
    BY Zenon DEF JobsOK
<1>4. getLatest(pobj[u]) # NoObj /\ getLatest(pobj[u]) \in Obj
    BY Zenon, <1>2, <1>3 DEF PendingsOK, getLatest, PendingObject
<1>5. getLatest(pobj[u]).uid = u /\ getLatest(pobj[u]).name = pobj[u].name
    BY Zenon, <1>2, <1>4 DEF PendingsOK, getLatest
<1> QED BY Zenon, <1>3, <1>4, <1>5

LEMMA PersistIInv ==
  ASSUME IInv, NEW b \in Batches, Persist(b) PROVE IInv'
<1>1. TypeOK /\ PendingsOK /\ JobsOK /\ FilesOK /\ jobs[b] \in Job
    BY Zenon DEF IInv, TypeOK
<1> DEFINE j == [jobs[b] EXCEPT !.pc = "commit"]
<1>2. j \in Job /\ j.pc = "commit" /\ j.drop = jobs[b].drop /\ j.items = jobs[b].items
      /\ j.deletings = jobs[b].deletings
    BY Zenon, <1>1 DEF Job
<1>3. /\ jobs' = [jobs EXCEPT ![b] = j]
      /\ UNCHANGED <<storeVars, metaFile, loop, cl, lastEvt, crashes, histVars>>
      /\ loop = "jobs"
    BY Zenon DEF Persist
<1>4. \A o \in Marshal(b) :
           /\ o \in Obj
           /\ o.uid \in jobs[b].items
           /\ o.name = pobj[o.uid].name
           /\ Live(o.uid) /\ KeyFunc[o.name] = b
    BY Zenon, <1>1, MarshalObjects
<1>5. jobs[b].items \cap jobs[b].deletings = {}
    BY Zenon, <1>1 DEF JobsOK
<1> HIDE DEF j
<1>6. CASE SkipsWrite(b)
  <2>1. UNCHANGED <<files, lastHash>>
      BY Zenon, <1>6 DEF Persist
  <2>2. FilesOK'
      BY <1>1, <1>3, <2>1 DEF FilesOK, Live, storeVars
  <2>3. \A o \in files[b] : o.uid \notin jobs[b].deletings
    <3>1. CASE jobs[b].deletings = {}
        BY Zenon, <3>1
    <3>2. CASE jobs[b].deletings # {}
      <4>1. Marshal(b) = lastHash[b]
          BY Zenon, <1>6, <3>2 DEF SkipsWrite, IsDirty
      <4>2. files[b] \subseteq Marshal(b)
          BY ZenonT(30), <1>1, <4>1 DEF FilesOK
      <4> QED BY Zenon, <4>2, <1>4, <1>5
    <3> QED BY Zenon, <3>1, <3>2
  <2> QED BY Zenon, <1>1, <1>2, <1>3, <2>1, <2>2, <2>3, JobStep DEF TypeOK
<1>7. CASE ~ SkipsWrite(b)
  <2>1. /\ files' = [files EXCEPT ![b] = Marshal(b)]
        /\ lastHash' = IF jobs[b].items = {} THEN lastHash
                       ELSE [lastHash EXCEPT ![b] = Marshal(b)]
      BY Zenon, <1>7 DEF Persist
  <2>2. Marshal(b) \subseteq Obj
      BY Zenon, <1>4
  <2>3. jobs[b].items = {} => Marshal(b) = {}
      BY Zenon DEF Marshal
  <2>4. /\ files' \in [Batches -> SUBSET Obj] /\ lastHash' \in [Batches -> SUBSET Obj]
        /\ files'[b] = Marshal(b)
        /\ \A a \in Batches : a # b => files'[a] = files[a]
        /\ Marshal(b) \subseteq lastHash'[b]
        /\ \A a \in Batches : a # b => lastHash'[a] = lastHash[a]
      BY Zenon, <1>1, <2>1, <2>2, <2>3 DEF TypeOK
  <2>5. FilesOK'
    <3> SUFFICES ASSUME NEW a \in Batches
                 PROVE  /\ files'[a] \subseteq lastHash'[a]
                        /\ \A o \in files'[a] :
                             Live(o.uid)' /\ o.name = pobj'[o.uid].name /\ KeyFunc[o.name] = a
        BY Zenon DEF FilesOK
    <3>1. pobj' = pobj
        BY Zenon, <1>3 DEF storeVars
    <3>2. CASE a = b
      <4>1. files'[a] = Marshal(b) /\ files'[a] \subseteq lastHash'[a]
          BY Zenon, <2>4, <3>2
      <4>2. ASSUME NEW o \in Marshal(b)
            PROVE  Live(o.uid)' /\ o.name = pobj'[o.uid].name /\ KeyFunc[o.name] = a
          BY Zenon, <1>4, <3>1, <3>2, <4>2 DEF Live
      <4> QED BY Zenon, <4>1, <4>2
    <3>3. CASE a # b
        BY Zenon, <1>1, <2>4, <3>1, <3>3 DEF FilesOK, Live
    <3> QED BY Zenon, <3>2, <3>3
  <2>6. \A o \in files'[b] : o.uid \notin jobs[b].deletings
      BY Zenon, <1>4, <1>5, <2>4
  <2> QED BY Zenon, <1>1, <1>2, <1>3, <2>4, <2>5, <2>6, JobStep
<1> QED BY Zenon, <1>6, <1>7

LEMMA PersistFailsIInv ==
  ASSUME ~ FailedWriteLands, IInv, NEW b \in Batches, PersistFails(b) PROVE IInv'
<1>1. TypeOK /\ FilesOK /\ JobsOK
    BY Zenon DEF IInv
<1>2. NoJob \in Job /\ NoJob.drop = 0 /\ NoJob.items = {} /\ NoJob.deletings = {}
      /\ NoJob.pc = "done"
    BY BoundsAssumption DEF NoJob, Job, Uids
<1>3. /\ jobs' = [jobs EXCEPT ![b] = NoJob]
      /\ UNCHANGED <<storeVars, diskVars, loop, cl, lastEvt, crashes, histVars>>
    BY Zenon DEF PersistFails, diskVars
<1>4. FilesOK'
    BY Zenon, <1>1, <1>3 DEF FilesOK, Live, storeVars, diskVars
<1>5. jobs[b].drop = 0
    BY Zenon, <1>1 DEF JobsOK, PersistFails
<1> QED BY Zenon, <1>1, <1>2, <1>3, <1>4, <1>5, JobStep DEF TypeOK, diskVars

LEMMA BatchIInv == ASSUME IInv, Batch PROVE IInv'
<1>1. TypeOK /\ PendingsOK /\ IndexerOK /\ JobsOK /\ FilesOK /\ ClientsOK /\ AckedDeletionsOK
    BY Zenon DEF IInv
<1> DEFINE In(b) == {indexer[n] : n \in {m \in Names : KeyFunc[m] = b /\ indexer[m] # 0}}
           job(b) == [pc |-> IF In(b) = {} THEN "done" ELSE "persist",
                      items |-> {u \in In(b) : ~ Deleting(pobj[u])},
                      deletings |-> {u \in In(b) : Deleting(pobj[u])},
                      drop |-> 0,
                      dropVer |-> 0]
<1>2. /\ jobs' = [b \in Batches |-> job(b)]
      /\ loop' = "jobs"
      /\ UNCHANGED <<seed, indexer, pobj, lastUid, files, metaFile, lastHash, cl, lastEvt, crashes,
                     acked, delAsked, delAcked>>
    BY Zenon DEF Batch, storeVars, diskVars, histVars
<1>3. \A b \in Batches : jobs[b].drop = 0
    BY Zenon, <1>1 DEF Batch, JobsOK, NoJob
<1>4. ASSUME NEW n \in Names, indexer[n] # 0
      PROVE  indexer[n] \in Uids /\ Live(indexer[n]) /\ pobj[indexer[n]].name = n
  <2>1. indexer[n] \in Uids
      BY <1>1, <1>4, BoundsAssumption DEF TypeOK, Uids
  <2>2. pobj[indexer[n]].name = n /\ Live(indexer[n])
      BY Zenon, <1>1, <1>3, <1>4 DEF IndexerOK
  <2> QED BY Zenon, <2>1, <2>2
<1>5. ASSUME NEW b \in Batches, NEW u \in In(b)
      PROVE  u \in Uids /\ Live(u) /\ KeyFunc[pobj[u].name] = b
    BY <1>4
<1>6. ASSUME NEW b \in Batches
      PROVE  /\ job(b) \in Job
             /\ job(b).pc = "done" => job(b) = NoJob
             /\ job(b).drop = 0
             /\ job(b).pc # "commit"
             /\ job(b).items \cap job(b).deletings = {}
             /\ \A u \in job(b).items \cup job(b).deletings :
                  Live(u) /\ KeyFunc[pobj[u].name] = b
  <2>1. In(b) \subseteq Uids
      BY Zenon, <1>5
  <2> HIDE DEF In
  <2>2. job(b) \in Job
      BY <2>1, BoundsAssumption DEF Job
  <2>3. job(b).pc = "done" => job(b) = NoJob
      BY Zenon DEF NoJob
  <2>4. /\ job(b).drop = 0
        /\ job(b).pc # "commit"
        /\ job(b).items \cap job(b).deletings = {}
      BY Zenon
  <2>5. job(b).items \subseteq In(b) /\ job(b).deletings \subseteq In(b)
      BY Zenon
  <2> HIDE DEF job
  <2> QED BY Zenon, <1>5, <2>2, <2>3, <2>4, <2>5
<1> HIDE DEF job, In
<1>7. \A b \in Batches : jobs'[b] = job(b)
    BY Zenon, <1>2
<1>8. TypeOK'
  <2>1. jobs' \in [Batches -> Job]
      BY Zenon, <1>2, <1>6
  <2> QED BY Zenon, <1>1, <1>2, <2>1 DEF TypeOK
<1>9. PendingsOK' /\ ClientsOK' /\ AckedDeletionsOK' /\ FilesOK'
    BY Zenon, <1>1, <1>2, PendingsFrame, ClientsFrame, AckedDeletionsFrame, FilesFrame
<1>10. IndexerOK'
    BY Zenon, <1>1, <1>2, <1>4 DEF IndexerOK, Live
<1>11. JobsOK'
    BY ZenonT(30), <1>2, <1>6, <1>7 DEF JobsOK, Live
<1> QED BY Zenon, <1>8, <1>9, <1>10, <1>11 DEF IInv

\* commitOne skips the object or commits an update or a deletion of it.
LEMMA CommitOneIInv ==
  ASSUME IInv, NEW b \in Batches, CommitOne(b) PROVE IInv'
<1>1. TypeOK /\ PendingsOK /\ IndexerOK /\ JobsOK /\ FilesOK /\ ClientsOK /\ AckedDeletionsOK
    BY Zenon DEF IInv
<1>2. PICK u \in NextToCommit(b) :
        LET p == pobj[u]
            deletes == ~ Skipped(b, u) /\ Deleting(p)
        IN  /\ IF Skipped(b, u)
               THEN UNCHANGED <<pobj, lastEvt>>
               ELSE /\ pobj' = [pobj EXCEPT ![u] = CommitObject(p)]
                    /\ lastEvt' = IF deletes THEN lastEvt
                                  ELSE [lastEvt EXCEPT ![p.name] = p.event.obj.ver]
            /\ jobs' = [jobs EXCEPT
                          ![b].items = @ \ {u},
                          ![b].deletings = @ \ {u},
                          ![b].drop = IF deletes THEN u ELSE 0,
                          ![b].dropVer = IF deletes THEN p.event.obj.ver ELSE 0]
    BY Zenon DEF CommitOne
<1>3. /\ jobs[b].pc = "commit" /\ jobs[b].drop = 0
      /\ UNCHANGED <<seed, indexer, lastUid, files, metaFile, lastHash, loop, cl, crashes,
                     acked, delAsked, delAcked>>
    BY Zenon DEF CommitOne, diskVars, histVars
<1>4. jobs[b].items \subseteq Uids /\ jobs[b].deletings \subseteq Uids /\ jobs[b] \in Job
    BY Zenon, <1>1 DEF TypeOK, Job
<1>5. u \in jobs[b].items \cup jobs[b].deletings
    BY Zenon DEF NextToCommit
<1>6. u \in Uids /\ Live(u) /\ KeyFunc[pobj[u].name] = b
    BY Zenon, <1>1, <1>4, <1>5 DEF JobsOK
<1>7. pobj[u] \in PendingObject
    BY Zenon, <1>1, <1>6 DEF TypeOK
<1>8. PICK v \in 0..MaxVersion, d \in 0..MaxUid :
        /\ d = IF ~ Skipped(b, u) /\ Deleting(pobj[u]) THEN u ELSE 0
        /\ jobs' = [jobs EXCEPT ![b] = [jobs[b] EXCEPT !.items = @ \ {u},
                                                      !.deletings = @ \ {u},
                                                      !.drop = d,
                                                      !.dropVer = v]]
  <2>1. pobj[u].event.obj.ver \in 0..MaxVersion
      BY <1>7, Versions, Zenon
  <2>2. 0 \in 0..MaxVersion /\ 0 \in 0..MaxUid /\ u \in 0..MaxUid
      BY <1>6, BoundsAssumption DEF Uids
  <2>3. PICK d \in 0..MaxUid : d = IF ~ Skipped(b, u) /\ Deleting(pobj[u]) THEN u ELSE 0
      BY Zenon, <2>2
  <2>4. PICK v \in 0..MaxVersion :
          v = IF ~ Skipped(b, u) /\ Deleting(pobj[u]) THEN pobj[u].event.obj.ver ELSE 0
      BY Zenon, <2>1, <2>2
  <2>5. jobs' = [jobs EXCEPT ![b] = [jobs[b] EXCEPT !.items = @ \ {u},
                                                    !.deletings = @ \ {u},
                                                    !.drop = d,
                                                    !.dropVer = v]]
      BY Zenon, <1>2, <2>3, <2>4
  <2> QED BY Zenon, <2>3, <2>5
<1> DEFINE j == [jobs[b] EXCEPT !.items = @ \ {u}, !.deletings = @ \ {u},
                                !.drop = d, !.dropVer = v]
<1>9. /\ j \in Job /\ j.pc = "commit" /\ j.drop = d
      /\ j.items = jobs[b].items \ {u} /\ j.deletings = jobs[b].deletings \ {u}
    BY Zenon, <1>3, <1>4 DEF Job
<1>10. jobs' = [jobs EXCEPT ![b] = j]
    BY Zenon, <1>8
<1> HIDE DEF j
<1>11. jobs' \in [Batches -> Job] /\ jobs'[b] = j /\ \A a \in Batches : a # b => jobs'[a] = jobs[a]
    BY Zenon, <1>1, <1>9, <1>10 DEF TypeOK
<1>12. loop = "jobs"
    BY Zenon, <1>1, <1>3 DEF JobsOK
<1>13. CASE Skipped(b, u)
  <2>1. UNCHANGED <<pobj, lastEvt>> /\ d = 0
      BY Zenon, <1>2, <1>8, <1>13
  <2>2. FilesOK'
      BY <1>1, <1>3, <2>1 DEF FilesOK, Live
  <2>3. \A o \in files'[b] : o.uid \notin j.deletings
      BY Zenon, <1>1, <1>3, <1>9 DEF JobsOK
  <2> QED BY Zenon, <1>1, <1>3, <1>9, <1>10, <1>12, <2>1, <2>2, <2>3, JobStep
          DEF TypeOK, storeVars, histVars
<1>14. CASE ~ Skipped(b, u)
  <2> DEFINE q == CommitObject(pobj[u])
  <2>1. /\ pobj[u].event.type # "None" /\ pobj[u].event.obj # NoObj
        /\ pobj[u].event.obj.uid = u /\ pobj[u].event.obj.name = pobj[u].name
        /\ pobj[u].event.obj \in Obj
        /\ pobj[u].name \in Names
    <3>1. pobj[u].event.type # "None"
        BY Zenon, <1>14 DEF Skipped, IsPending
    <3>2. pobj[u].event.obj # NoObj
        BY Zenon, <1>1, <1>6, <3>1 DEF PendingsOK
    <3>3. pobj[u].event.obj.uid = u /\ pobj[u].event.obj.name = pobj[u].name
        BY Zenon, <1>1, <1>6, <3>2 DEF PendingsOK
    <3> QED BY Zenon, <1>6, <1>7, <3>1, <3>2, <3>3 DEF PendingObject, Live
  <2>2. /\ q \in PendingObject /\ q.name = pobj[u].name /\ q.event = NoEvent
        /\ q.deleted <=> Deleting(pobj[u])
        /\ q.current = IF Deleting(pobj[u]) THEN pobj[u].current ELSE pobj[u].event.obj
      BY Zenon, <1>7, <2>1 DEF CommitObject, PendingObject, Deleting, NoEvent, EventTypes
  <2>3. pobj' = [pobj EXCEPT ![u] = q]
      BY Zenon, <1>2, <1>14
  <2> HIDE DEF q
  <2>4. pobj' \in [Uids -> PendingObject] /\ pobj'[u] = q
        /\ \A w \in Uids : w # u => pobj'[w] = pobj[w]
      BY Zenon, <1>1, <1>6, <2>2, <2>3 DEF TypeOK
  <2>5. \A w \in Uids : pobj'[w].name = pobj[w].name
      BY Zenon, <2>2, <2>4
  <2>6. NoEvent.type = "None" /\ NoEvent.obj = NoObj
      BY Zenon DEF NoEvent
  <2>7. \A w \in Uids : Live(w)' <=> (Live(w) /\ ~ (w = u /\ Deleting(pobj[u])))
      BY Zenon, <1>6, <2>2, <2>4, <2>5 DEF Live
  <2>8. lastEvt' \in [Names -> 0..MaxVersion]
    <3>1. pobj[u].event.obj.ver \in 0..MaxVersion
        BY <2>1, BoundsAssumption DEF Obj
    <3> QED BY Zenon, <1>1, <1>2, <1>14, <3>1 DEF TypeOK
  <2>9. TypeOK'
      BY Zenon, <1>1, <1>3, <1>11, <2>4, <2>8 DEF TypeOK
  <2>10. PendingsOK'
    <3> SUFFICES ASSUME NEW w \in Uids
                 PROVE  LET p == pobj'[w]
                        IN  /\ p.name # 0 => w <= lastUid'
                            /\ p.name = 0 => p = NoPending
                            /\ p.event.obj # NoObj => p.event.obj.uid = w /\ p.event.obj.name = p.name
                            /\ p.current # NoObj => p.current.uid = w /\ p.current.name = p.name
                            /\ p.event.type = "None" <=> p.event.obj = NoObj
                            /\ Live(w)' => getLatest(p) # NoObj
        BY Zenon DEF PendingsOK, getLatest
    <3>1. CASE w = u
      <4>1. /\ pobj[u].name # 0 => u <= lastUid
            /\ pobj[u].current # NoObj => pobj[u].current.uid = u /\ pobj[u].current.name = pobj[u].name
          BY Zenon, <1>1, <1>6 DEF PendingsOK
      <4>2. pobj[u].name # 0
          BY Zenon, <1>6 DEF Live
      <4>3. q.current # NoObj => q.current.uid = u /\ q.current.name = q.name
          BY Zenon, <2>1, <2>2, <4>1
      <4>4. Live(u)' => getLatest(q) # NoObj
          BY Zenon, <1>6, <2>1, <2>2, <2>6, <2>7 DEF getLatest
      <4> QED BY Zenon, <1>3, <2>2, <2>4, <2>6, <3>1, <4>1, <4>2, <4>3, <4>4
    <3>2. CASE w # u
        BY <1>1, <1>3, <2>4, <2>7, <3>2 DEF PendingsOK
    <3> QED BY Zenon, <3>1, <3>2
  <2>11. \A a \in Batches : \A o \in files[a] : o.uid \in Uids
      BY <1>1 DEF TypeOK, Obj
  <2>12. \A a \in Batches : \A o \in files[a] : ~ (o.uid = u /\ Deleting(pobj[u]))
    <3> SUFFICES ASSUME NEW a \in Batches, NEW o \in files[a], o.uid = u, Deleting(pobj[u])
                 PROVE  FALSE
        BY Zenon
    <3>1. a = b
        BY <1>1, <1>6 DEF FilesOK
    <3>2. u \in jobs[b].deletings
        BY Zenon, <1>14 DEF Skipped
    <3> QED BY Zenon, <1>1, <1>3, <3>1, <3>2 DEF JobsOK
  <2>13. FilesOK'
      BY <1>1, <1>3, <2>5, <2>7, <2>11, <2>12 DEF FilesOK
  <2>14. IndexerOK'
    <3> SUFFICES ASSUME NEW n \in Names, indexer'[n] # 0
                 PROVE  (/\ pobj[indexer[n]].name = n
                         /\ Live(indexer[n]) \/ \E a \in Batches : jobs[a].drop = indexer[n])'
        BY Zenon DEF IndexerOK
    <3>1. indexer[n] \in Uids /\ indexer[n] # 0 /\ indexer'[n] = indexer[n]
        BY <1>1, <1>3, BoundsAssumption DEF TypeOK, Uids
    <3>2. PICK w \in Uids : w = indexer[n]
        BY Zenon, <3>1
    <3>3. pobj'[w].name = n
        BY Zenon, <1>1, <2>5, <3>1, <3>2 DEF IndexerOK
    <3>4. Live(w)' \/ \E a \in Batches : jobs'[a].drop = w
      <4>1. CASE w = u /\ Deleting(pobj[u])
        <5>1. d = u
            BY Zenon, <1>8, <1>14, <4>1
        <5> QED BY Zenon, <1>9, <1>11, <4>1, <5>1
      <4>2. CASE ~ (w = u /\ Deleting(pobj[u])) /\ Live(w)
          BY Zenon, <2>7, <4>2
      <4>3. CASE ~ Live(w)
        <5>1. PICK a \in Batches : jobs[a].drop = w
            BY Zenon, <1>1, <3>1, <3>2, <4>3 DEF IndexerOK
        <5>2. a # b
            BY Zenon, <1>3, <3>1, <3>2, <5>1
        <5> QED BY Zenon, <1>11, <5>1, <5>2
      <4> QED BY Zenon, <4>1, <4>2, <4>3
    <3>5. w = indexer'[n]
        BY Zenon, <3>1, <3>2
    <3> QED BY Zenon, <3>3, <3>4, <3>5 DEF Live
  <2>15. JobsOK'
    <3> SUFFICES ASSUME NEW a \in Batches
                 PROVE  /\ jobs'[a].pc = "done" => jobs'[a] = NoJob
                        /\ loop' # "jobs" => jobs'[a].pc = "done"
                        /\ jobs'[a].drop # 0 =>
                              jobs'[a].pc = "commit" /\ (pobj[jobs[a].drop].name # 0)'
                        /\ jobs'[a].items \cap jobs'[a].deletings = {}
                        /\ \A w \in jobs'[a].items \cup jobs'[a].deletings :
                              Live(w)' /\ KeyFunc[pobj'[w].name] = a
                        /\ jobs'[a].pc = "commit" =>
                              \A o \in files'[a] : o.uid \notin jobs'[a].deletings
        BY Zenon DEF JobsOK
    <3>1. CASE a = b
      <4>1. jobs[b].items \cap jobs[b].deletings = {}
            /\ \A o \in files[b] : o.uid \notin jobs[b].deletings
          BY Zenon, <1>1, <1>3 DEF JobsOK
      <4>2. \A w \in j.items \cup j.deletings : w \in Uids /\ Live(w) /\ KeyFunc[pobj[w].name] = b
                                               /\ w # u
          BY <1>1, <1>4, <1>9 DEF JobsOK
      <4>3. \A w \in j.items \cup j.deletings : Live(w)' /\ KeyFunc[pobj'[w].name] = b
          BY Zenon, <2>5, <2>7, <4>2
      <4>4. d # 0 => pobj'[d].name # 0
          BY Zenon, <1>6, <1>8, <2>5 DEF Live
      <4> QED BY Zenon, <1>3, <1>9, <1>11, <1>12, <3>1, <4>1, <4>3, <4>4
    <3>2. CASE a # b
      <4>1. jobs'[a] = jobs[a] /\ jobs[a] \in Job
          BY Zenon, <1>1, <1>11, <3>2 DEF TypeOK
      <4>2. \A w \in jobs[a].items \cup jobs[a].deletings :
               w \in Uids /\ Live(w) /\ KeyFunc[pobj[w].name] = a
          BY Zenon, <1>1, <4>1 DEF JobsOK, Job
      <4>3. \A w \in jobs[a].items \cup jobs[a].deletings :
               Live(w)' /\ KeyFunc[pobj'[w].name] = a
          BY Zenon, <1>6, <2>5, <2>7, <3>2, <4>2
      <4>4. jobs[a].drop # 0 => jobs[a].drop \in Uids /\ pobj[jobs[a].drop].name # 0
                                /\ jobs[a].pc = "commit"
          BY <1>1, <4>1, UidFields, Zenon DEF JobsOK
      <4>5. jobs[a].drop # 0 => pobj'[jobs[a].drop].name # 0
          BY Zenon, <2>5, <4>4
      <4> QED BY Zenon, <1>1, <1>3, <4>1, <4>3, <4>4, <4>5 DEF JobsOK
    <3> QED BY Zenon, <3>1, <3>2
  <2>16. ClientsOK'
    <3> SUFFICES ASSUME NEW c \in Clients
                 PROVE  /\ cl[c].pc = "adding" => cl[c].name \in Names
                        /\ cl[c].pc \in {"updating", "deleting", "waiting", "waitdel"} =>
                              cl[c].ptr # 0 /\ pobj'[cl[c].ptr].name # 0
                        /\ cl[c].pc = "updating" => cl[c].held.obj.uid = cl[c].ptr
                        /\ cl[c].held.obj # NoObj =>
                              /\ cl[c].held.obj.uid <= lastUid
                              /\ pobj'[cl[c].held.obj.uid].name \in {0, cl[c].held.obj.name}
                        /\ cl[c].pc = "waitdel" =>
                              Deleting(pobj'[cl[c].ptr]) \/ pobj'[cl[c].ptr].deleted
        BY Zenon, <1>3 DEF ClientsOK, Deleting
    <3>1. cl[c] \in Client
        BY Zenon, <1>1 DEF TypeOK
    <3>2. cl[c].ptr # 0 => cl[c].ptr \in Uids
        BY <3>1, UidFields, Zenon
    <3>3. cl[c].held.obj # NoObj => cl[c].held.obj.uid \in Uids
        BY Zenon, <3>1 DEF Client, Obj
    <3>4. cl[c].pc = "waitdel" => Deleting(pobj'[cl[c].ptr]) \/ pobj'[cl[c].ptr].deleted
      <4> SUFFICES ASSUME cl[c].pc = "waitdel"
                   PROVE  Deleting(pobj'[cl[c].ptr]) \/ pobj'[cl[c].ptr].deleted
          BY Zenon
      <4>1. cl[c].ptr \in Uids /\ (Deleting(pobj[cl[c].ptr]) \/ pobj[cl[c].ptr].deleted)
          BY Zenon, <1>1, <3>2 DEF ClientsOK
      <4>2. CASE cl[c].ptr = u
          BY Zenon, <1>6, <2>2, <2>4, <4>1, <4>2 DEF Live
      <4>3. CASE cl[c].ptr # u
          BY Zenon, <2>4, <4>1, <4>3
      <4> QED BY Zenon, <4>2, <4>3
    <3> QED BY Zenon, <1>1, <2>5, <3>2, <3>3, <3>4 DEF ClientsOK
  <2>17. AckedDeletionsOK'
    <3>1. delAcked \subseteq Uids
        BY Zenon, <1>1 DEF TypeOK
    <3> QED BY Zenon, <1>1, <1>3, <2>7, <3>1 DEF AckedDeletionsOK
  <2> QED BY Zenon, <2>9, <2>10, <2>13, <2>14, <2>15, <2>16, <2>17 DEF IInv
<1> QED BY Zenon, <1>13, <1>14

LEMMA DropDeletedIInv ==
  ASSUME IInv, NEW b \in Batches, DropDeleted(b) PROVE IInv'
<1>1. TypeOK /\ PendingsOK /\ IndexerOK /\ JobsOK /\ FilesOK /\ ClientsOK /\ AckedDeletionsOK
    BY Zenon DEF IInv
<1>2. jobs[b] \in Job /\ jobs[b].drop # 0 /\ jobs[b].pc = "commit"
    BY Zenon, <1>1 DEF TypeOK, DropDeleted
<1>3. PICK u \in Uids : u = jobs[b].drop
    BY <1>2, UidFields, Zenon
<1>4. PICK n \in Names : n = pobj[u].name
    BY <1>1, <1>2, <1>3 DEF JobsOK, TypeOK, PendingObject
<1> DEFINE j == [jobs[b] EXCEPT !.drop = 0, !.dropVer = 0]
<1>5. /\ j \in Job /\ j.pc = "commit" /\ j.drop = 0
      /\ j.items = jobs[b].items /\ j.deletings = jobs[b].deletings
  <2>1. 0 \in 0..MaxUid /\ 0 \in 0..MaxVersion
      BY BoundsAssumption
  <2> QED BY Zenon, <1>2, <2>1 DEF Job
<1>6. /\ indexer' = [indexer EXCEPT ![n] = 0]
      /\ lastEvt' = [lastEvt EXCEPT ![n] = jobs[b].dropVer]
      /\ jobs' = [jobs EXCEPT ![b] = j]
      /\ UNCHANGED <<seed, pobj, lastUid, files, metaFile, lastHash, loop, cl, crashes,
                     acked, delAsked, delAcked>>
    BY Zenon, <1>3, <1>4 DEF DropDeleted, diskVars, histVars
<1> HIDE DEF j
<1>7. /\ jobs' \in [Batches -> Job]
      /\ jobs'[b] = j
      /\ \A a \in Batches : a # b => jobs'[a] = jobs[a]
    BY Zenon, <1>1, <1>5, <1>6 DEF TypeOK
<1>8. TypeOK'
  <2>1. jobs[b].dropVer \in 0..MaxVersion /\ 0 \in 0..MaxUid
      BY <1>2, BoundsAssumption DEF Job
  <2> QED BY Zenon, <1>1, <1>6, <1>7, <2>1 DEF TypeOK
<1>9. PendingsOK' /\ ClientsOK' /\ AckedDeletionsOK' /\ FilesOK'
    BY Zenon, <1>1, <1>6, PendingsFrame, ClientsFrame, AckedDeletionsFrame, FilesFrame
<1>10. JobsOK'
  <2>1. \A a \in Batches : /\ jobs'[a].pc = jobs[a].pc
                           /\ jobs'[a].items = jobs[a].items
                           /\ jobs'[a].deletings = jobs[a].deletings
                           /\ jobs'[a].drop # 0 => jobs'[a].drop = jobs[a].drop
                           /\ jobs[a].pc = "done" => jobs'[a] = jobs[a]
      BY Zenon, <1>2, <1>5, <1>7
  <2> QED BY SMTT(30), <1>1, <1>6, <2>1 DEF JobsOK, Live
<1>11. IndexerOK'
  <2> SUFFICES ASSUME NEW m \in Names, indexer'[m] # 0
               PROVE  (/\ pobj[indexer[m]].name = m
                       /\ Live(indexer[m]) \/ \E a \in Batches : jobs[a].drop = indexer[m])'
      BY Zenon DEF IndexerOK
  <2>1. m # n /\ indexer'[m] = indexer[m] /\ pobj' = pobj
      BY Zenon, <1>1, <1>6 DEF TypeOK
  <2>2. /\ pobj[indexer[m]].name = m
        /\ Live(indexer[m]) \/ \E a \in Batches : jobs[a].drop = indexer[m]
      BY Zenon, <1>1, <2>1 DEF IndexerOK
  <2>3. CASE Live(indexer[m])
      BY Zenon, <2>1, <2>2, <2>3 DEF Live
  <2>4. CASE \E a \in Batches : jobs[a].drop = indexer[m]
    <3>1. PICK a \in Batches : jobs[a].drop = indexer[m]
        BY Zenon, <2>4
    <3>2. a # b
        BY Zenon, <1>3, <1>4, <2>1, <2>2, <3>1
    <3>3. jobs'[a].drop = indexer'[m]
        BY Zenon, <1>7, <2>1, <3>1, <3>2
    <3> QED BY Zenon, <2>1, <2>2, <3>3
  <2> QED BY Zenon, <2>2, <2>3, <2>4
<1> QED BY Zenon, <1>8, <1>9, <1>10, <1>11 DEF IInv

\* A restart rebuilds the store from the files alone; every object in a file was
\* live, so nothing reported as deleted comes back.
LEMMA RestartIInv == ASSUME IInv, Restart PROVE IInv'
<1>1. TypeOK /\ PendingsOK /\ IndexerOK /\ JobsOK /\ FilesOK /\ ClientsOK /\ AckedDeletionsOK
    BY Zenon DEF IInv
<1>2. /\ crashes < MaxCrashes /\ crashes' = crashes + 1
      /\ seed' \in {metaFile} \cup {o.ver : o \in Stored}
      /\ lastHash' = files /\ loop' = "idle"
      /\ jobs' = [b \in Batches |-> NoJob]
      /\ cl' = [c \in Clients |-> Idle(c)]
      /\ lastEvt' = [n \in Names |-> 0]
      /\ UNCHANGED <<lastUid, files, metaFile, acked, delAsked, delAcked>>
    BY Zenon DEF Restart, histVars
<1>3. \A o \in Stored : /\ o \in Obj /\ o.uid \in Uids
                        /\ Live(o.uid) /\ o.name = pobj[o.uid].name
    BY <1>1 DEF Stored, FilesOK, TypeOK, Obj
<1>4. ASSUME NEW u \in Uids
      PROVE  \/ /\ pobj'[u] = NoPending
                /\ ~ \E o \in Stored : o.uid = u
             \/ /\ Live(u)
                /\ \E o \in Stored : o.uid = u /\ pobj'[u] = initPendingObject(o)
  <2>1. pobj'[u] = IF \E o \in Stored : o.uid = u
                   THEN initPendingObject(CHOOSE o \in Stored : o.uid = u)
                   ELSE NoPending
      BY Zenon DEF Restart
  <2>2. CASE \E o \in Stored : o.uid = u
    <3>1. PICK o \in Stored : o.uid = u /\ o = CHOOSE x \in Stored : x.uid = u
        BY Zenon, <2>2
    <3> QED BY Zenon, <1>3, <2>1, <2>2, <3>1
  <2> QED BY Zenon, <2>1, <2>2
<1>5. ASSUME NEW u \in Uids
      PROVE  /\ pobj'[u] \in PendingObject
             /\ pobj'[u].name # 0 => pobj'[u].name = pobj[u].name /\ Live(u) /\ Live(u)'
             /\ pobj'[u].name = 0 => pobj'[u] = NoPending
             /\ pobj'[u].event = NoEvent
             /\ pobj'[u].name # 0 => /\ pobj'[u].current \in Obj
                                     /\ pobj'[u].current.uid = u
                                     /\ pobj'[u].current.name = pobj'[u].name
  <2>1. NoPending \in PendingObject /\ NoPending.name = 0 /\ NoPending.event = NoEvent
      BY Zenon DEF NoPending, PendingObject, NoEvent, EventTypes
  <2>2. ASSUME NEW o \in Stored, o.uid = u, pobj'[u] = initPendingObject(o)
        PROVE  /\ pobj'[u] \in PendingObject /\ pobj'[u].name = o.name /\ o.name # 0
               /\ pobj'[u].event = NoEvent /\ pobj'[u].current = o /\ ~ pobj'[u].deleted
    <3>1. o \in Obj /\ o.name # 0
        BY Zenon, <1>3, NamesAssumption DEF Obj
    <3> QED BY <2>2, <3>1 DEF initPendingObject, PendingObject, NoEvent, EventTypes, Obj
  <2>3. CASE pobj'[u] = NoPending
      BY Zenon, <2>1, <2>3
  <2>4. CASE \E o \in Stored : o.uid = u /\ pobj'[u] = initPendingObject(o)
    <3>1. PICK o \in Stored : o.uid = u /\ pobj'[u] = initPendingObject(o)
        BY Zenon, <2>4
    <3>2. Live(u)'
        BY Zenon, <2>2, <3>1 DEF Live
    <3> QED BY Zenon, <1>3, <2>2, <3>1, <3>2
  <2> QED BY Zenon, <1>4, <2>3, <2>4
<1>6. \A o \in Stored : pobj'[o.uid].name = o.name /\ o.name # 0
  <2> SUFFICES ASSUME NEW o \in Stored PROVE pobj'[o.uid].name = o.name /\ o.name # 0
      BY Zenon
  <2>1. o.uid \in Uids /\ o \in Obj /\ o.name # 0
      BY Zenon, <1>3, NamesAssumption DEF Obj
  <2>2. PICK x \in Stored : x.uid = o.uid /\ pobj'[o.uid] = initPendingObject(x)
      BY Zenon, <1>4, <2>1
  <2> QED BY <1>3, <2>1, <2>2 DEF initPendingObject
<1>7. ASSUME NEW n \in Names
      PROVE  \/ indexer'[n] = 0
             \/ \E o \in Stored : o.name = n /\ indexer'[n] = o.uid
  <2>1. indexer'[n] = IF \E o \in Stored : o.name = n
                      THEN (CHOOSE o \in Stored : o.name = n).uid
                      ELSE 0
      BY Zenon DEF Restart
  <2> QED BY Zenon, <2>1
<1>8. NoJob \in Job /\ NoJob.pc = "done" /\ NoJob.drop = 0 /\ NoJob.items = {}
      /\ NoJob.deletings = {}
  <2>1. 0 \in 0..MaxUid /\ 0 \in 0..MaxVersion
      BY BoundsAssumption
  <2> QED BY Zenon, <2>1 DEF NoJob, Job
<1>9. ASSUME NEW c \in Clients
      PROVE  cl'[c] \in Client /\ cl'[c].pc = "idle" /\ cl'[c].held = cl[c].held
  <2>1. cl[c] \in Client /\ cl'[c] = Idle(c)
      BY Zenon, <1>1, <1>2 DEF TypeOK
  <2> QED BY Zenon, <2>1, IdleClient DEF Idle, Client
<1>10. TypeOK'
  <2>1. seed' \in 0..MaxVersion
      BY <1>1, <1>2, <1>3, Versions, Zenon DEF TypeOK
  <2>2. pobj' \in [Uids -> PendingObject]
    <3>1. pobj' = [u \in Uids |-> pobj'[u]]
        BY Zenon DEF Restart
    <3> QED BY Zenon, <1>5, <3>1
  <2>3. indexer' \in [Names -> 0..MaxUid]
    <3>1. indexer' = [n \in Names |-> indexer'[n]]
        BY Zenon DEF Restart
    <3>2. \A n \in Names : indexer'[n] \in 0..MaxUid
        BY <1>3, <1>7, BoundsAssumption DEF Uids
    <3> QED BY Zenon, <3>1, <3>2
  <2>4. cl' \in [Clients -> Client] /\ jobs' \in [Batches -> Job]
        /\ lastEvt' \in [Names -> 0..MaxVersion] /\ crashes' \in 0..MaxCrashes
    <3>1. cl' = [c \in Clients |-> cl'[c]]
        BY Zenon, <1>2
    <3>2. cl' \in [Clients -> Client]
        BY Zenon, <1>9, <3>1
    <3> QED BY <1>1, <1>2, <1>8, <3>2, BoundsAssumption DEF TypeOK
  <2> QED BY Zenon, <1>1, <1>2, <2>1, <2>2, <2>3, <2>4 DEF TypeOK
<1>11. PendingsOK'
  <2> SUFFICES ASSUME NEW u \in Uids
               PROVE  LET p == pobj'[u]
                      IN  /\ p.name # 0 => u <= lastUid'
                          /\ p.name = 0 => p = NoPending
                          /\ p.event.obj # NoObj => p.event.obj.uid = u /\ p.event.obj.name = p.name
                          /\ p.current # NoObj => p.current.uid = u /\ p.current.name = p.name
                          /\ p.event.type = "None" <=> p.event.obj = NoObj
                          /\ Live(u)' => getLatest(p) # NoObj
      BY Zenon DEF PendingsOK, getLatest
  <2>1. NoEvent.type = "None" /\ NoEvent.obj = NoObj /\ NoPending.name = 0
        /\ NoPending.current = NoObj /\ NoObj.uid = 0
      BY Zenon DEF NoEvent, NoPending, NoObj
  <2>2. CASE pobj'[u].name = 0
      BY Zenon, <1>5, <2>1, <2>2 DEF Live
  <2>3. CASE pobj'[u].name # 0
    <3>1. u <= lastUid
        BY <1>1, <1>5, <2>3, Zenon DEF PendingsOK, Live
    <3>2. u # 0
        BY BoundsAssumption DEF Uids
    <3>3. pobj'[u].current # NoObj
        BY <1>5, <2>1, <2>3, <3>2, Zenon
    <3>4. getLatest(pobj'[u]) = pobj'[u].current
        BY Zenon, <1>5, <2>1 DEF getLatest, IsPending
    <3> QED BY <1>2, <1>5, <2>1, <2>3, <3>1, <3>3, <3>4, Zenon
  <2> QED BY Zenon, <2>2, <2>3
<1>12. IndexerOK'
  <2> SUFFICES ASSUME NEW n \in Names, indexer'[n] # 0
               PROVE  (/\ pobj[indexer[n]].name = n
                       /\ Live(indexer[n]) \/ \E a \in Batches : jobs[a].drop = indexer[n])'
      BY Zenon DEF IndexerOK
  <2>1. PICK o \in Stored : o.name = n /\ indexer'[n] = o.uid
      BY Zenon, <1>7
  <2>2. PICK w \in Uids : w = o.uid
      BY Zenon, <1>3
  <2>3. pobj'[w].name = n /\ Live(w)'
      BY Zenon, <1>5, <1>6, <2>1, <2>2
  <2>4. w = indexer'[n]
      BY Zenon, <2>1, <2>2
  <2> QED BY Zenon, <2>3, <2>4 DEF Live
<1>13. JobsOK'
    BY Zenon, <1>2, <1>8 DEF JobsOK
<1>14. FilesOK'
  <2> SUFFICES ASSUME NEW b \in Batches, NEW o \in files[b]
               PROVE  (Live(o.uid) /\ o.name = pobj[o.uid].name)' /\ KeyFunc[o.name] = b
      BY Zenon, <1>2 DEF FilesOK
  <2>1. o \in Stored
      BY Zenon DEF Stored
  <2> QED BY <1>1, <1>3, <1>5, <1>6, <2>1 DEF FilesOK
<1>15. ClientsOK'
  <2> SUFFICES ASSUME NEW c \in Clients, cl'[c].held.obj # NoObj
               PROVE  /\ cl'[c].held.obj.uid <= lastUid'
                      /\ (pobj[cl[c].held.obj.uid].name)' \in {0, cl'[c].held.obj.name}
      BY Zenon, <1>9 DEF ClientsOK
  <2>1. cl[c].held.obj.uid \in Uids
      BY Zenon, <1>1, <1>9 DEF TypeOK, Client, Obj
  <2>2. /\ cl'[c].held = cl[c].held
        /\ cl[c].held.obj.uid <= lastUid
        /\ pobj[cl[c].held.obj.uid].name \in {0, cl[c].held.obj.name}
      BY <1>1, <1>9, Zenon DEF ClientsOK
  <2>3. pobj'[cl[c].held.obj.uid].name \in {0, cl[c].held.obj.name}
      BY <1>5, <2>1, <2>2, Zenon DEF Live
  <2> QED BY <1>2, <2>2, <2>3, Zenon
<1>16. AckedDeletionsOK'
  <2>1. \A u \in delAcked : u \in Uids /\ ~ Live(u) /\ u <= lastUid
      BY Zenon, <1>1 DEF AckedDeletionsOK, TypeOK
  <2>2. \A u \in delAcked : ~ Live(u)'
      BY Zenon, <1>5, <2>1 DEF Live
  <2> QED BY Zenon, <1>2, <2>1, <2>2 DEF AckedDeletionsOK
<1> QED BY Zenon, <1>10, <1>11, <1>12, <1>13, <1>14, <1>15, <1>16 DEF IInv

\* Every step of the store preserves the inductive invariant, provided a write
\* the storage reports as failed did not happen.
LEMMA NextIInv == ASSUME ~ FailedWriteLands, IInv, [Next]_vars PROVE IInv'
<1>1. CASE \E c \in Creators, n \in Names : AddLookup(c, n)
    BY Zenon, <1>1, CreatorsAssumption, AddLookupIInv
<1>2. CASE \E c \in Clients, n \in Names : Read(c, n) \/ UpdateLookup(c, n) \/ DeleteLookup(c, n)
    BY Zenon, <1>2, ReadIInv, UpdateLookupIInv, DeleteLookupIInv
<1>3. CASE \E c \in Clients : AddInsert(c) \/ RequestUpdate(c) \/ RequestDelete(c)
    BY Zenon, <1>3, AddInsertIInv, RequestUpdateIInv, RequestDeleteIInv
<1>4. CASE \E c \in Clients : WaitCommitted(c) \/ WaitDeleted(c) \/ WaitFailed(c)
    BY Zenon, <1>4, WaitCommittedIInv, WaitDeletedIInv, WaitFailedIInv
<1>5. CASE PersistMeta \/ Batch \/ WaitAll \/ Restart
    BY Zenon, <1>5, PersistMetaIInv, BatchIInv, WaitAllIInv, RestartIInv
<1>6. CASE \E b \in Batches : Persist(b) \/ PersistFails(b)
    BY Zenon, <1>6, PersistIInv, PersistFailsIInv
<1>7. CASE \E b \in Batches : CommitOne(b) \/ DropDeleted(b) \/ JobDone(b)
    BY Zenon, <1>7, CommitOneIInv, DropDeletedIInv, JobDoneIInv
<1>8. CASE UNCHANGED vars
  <2>1. TypeOK'
      BY Zenon, <1>8 DEF IInv, vars, TypeOK
  <2>2. PendingsOK' /\ IndexerOK' /\ JobsOK' /\ FilesOK' /\ ClientsOK' /\ AckedDeletionsOK'
      BY Zenon, <1>8, PendingsFrame, IndexerFrame, JobsFrame, FilesFrame, ClientsFrame,
         AckedDeletionsFrame DEF IInv, vars
  <2> QED BY Zenon, <2>1, <2>2 DEF IInv
<1> QED BY Zenon, <1>1, <1>2, <1>3, <1>4, <1>5, <1>6, <1>7, <1>8 DEF Next

\* On a storage whose failed writes do not land, every reachable state satisfies
\* the inductive invariant.
THEOREM Invariance == ~ FailedWriteLands => (Spec => []IInv)
<1> SUFFICES ASSUME ~ FailedWriteLands PROVE Spec => []IInv
    BY Zenon
<1>1. Init => IInv
    BY Zenon, InitIInv
<1>2. IInv /\ [Next]_vars => IInv'
    BY Zenon, NextIInv
<1> QED BY <1>1, <1>2, PTL DEF Spec

\* The store, its files, its loop and its callers stay well formed.
THEOREM TypeCorrect == ~ FailedWriteLands => (Spec => []TypeOK)
<1> SUFFICES ASSUME ~ FailedWriteLands PROVE Spec => []TypeOK
    BY Zenon
<1>1. Spec => []IInv
    BY Zenon, Invariance
<1>2. IInv => TypeOK
    BY Zenon DEF IInv
<1> QED BY <1>1, <1>2, PTL

\* A Delete that the store reported as done (its writeResult.Wait returned) is
\* durable: no file holds the object, through any restart, for any number of
\* names, batches and callers.
THEOREM DeletionsDurable == ~ FailedWriteLands => (Spec => []DeletedStaysDeleted)
<1> SUFFICES ASSUME ~ FailedWriteLands PROVE Spec => []DeletedStaysDeleted
    BY Zenon
<1>1. Spec => []IInv
    BY Zenon, Invariance
<1>2. IInv => DeletedStaysDeleted
    BY DEF IInv, FilesOK, AckedDeletionsOK, DeletedStaysDeleted, Stored
<1> QED BY <1>1, <1>2, PTL
=============================================================================
