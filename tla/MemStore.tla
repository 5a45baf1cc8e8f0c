------------------------------ MODULE MemStore ------------------------------
(***************************************************************************)
(* The in-memory object store of pkg/memkube/mem: store.go, pending_object *)
(* .go, batcher.go, persister.go, result.go and metainfo.go.               *)
(*                                                                         *)
(* Writers call Add, Update and Delete concurrently; each only records a   *)
(* pending event on a pendingObject and then polls for its commit.  One    *)
(* background loop (run) persists the version seed, groups the pending     *)
(* objects into batches, and for every batch, in a goroutine of its own,   *)
(* persists the batch and then commits the events of its objects.  The     *)
(* process may stop at any point; Start recovers the store from the files. *)
(*                                                                         *)
(* Abstractions.  A name is a positive number (listAll sorts by name).  An *)
(* object is a record [name, uid, data, ver]: data is the version at which *)
(* its contents were written, ver its ResourceVersion.  The two differ     *)
(* because RequestDelete changes the ResourceVersion in place.  A          *)
(* pendingObject is identified by the uid of the object it was made for.   *)
(***************************************************************************)
EXTENDS Naturals

CONSTANTS Names,        \* object names, positive numbers
          Batches,      \* names of the batch files
          KeyFunc,      \* [Names -> Batches], FuncBatcher.KeyFunc
          Clients,      \* callers of the store
          Creators,     \* the callers that Add objects
          FailedWriteLands,  \* may the storage take a write it reports as failed?
          MaxUid,       \* bound on the number of objects ever added
          MaxVersion,   \* bound on the version seed
          MaxCrashes    \* bound on the number of restarts

ASSUME NamesAssumption == Names \subseteq Nat \ {0}
ASSUME KeyFuncAssumption == KeyFunc \in [Names -> Batches]
ASSUME CreatorsAssumption == Creators \subseteq Clients
ASSUME FailedWriteAssumption == FailedWriteLands \in BOOLEAN
ASSUME BoundsAssumption ==
    /\ MaxUid \in Nat
    /\ MaxVersion \in Nat
    /\ MaxCrashes \in Nat

VARIABLES seed,      \* store.meta.VersionSeed
          indexer,   \* name -> uid of its pendingObject, 0 when absent
          pobj,      \* uid -> pendingObject
          lastUid,   \* uids handed out so far (uuid.NewUUID never repeats)
          files,     \* batch -> set of objects in its file; {} is no file
          metaFile,  \* the persisted version seed
          lastHash,  \* batch -> contents last written, FsPersister.lastHashs
          loop,      \* where run() is
          jobs,      \* batch -> the goroutine that persists and commits it
          cl,        \* client -> the call it is in and the object it holds
          lastEvt,   \* name -> version of the last event broadcast for it
          crashes,   \* restarts so far
          acked,     \* history: uid -> newest version a writer was told of
          delAsked,  \* history: uids for which RequestDelete ran
          delAcked   \* history: uids whose Delete was reported done

storeVars == <<seed, indexer, pobj, lastUid>>
diskVars == <<files, metaFile, lastHash>>
loopVars == <<loop, jobs>>
histVars == <<acked, delAsked, delAcked>>
vars == <<seed, indexer, pobj, lastUid, files, metaFile, lastHash, loop, jobs,
          cl, lastEvt, crashes, acked, delAsked, delAcked>>

Uids == 1..MaxUid
Obj == [name : Names, uid : Uids, data : 1..MaxVersion, ver : 1..MaxVersion]
NoObj == [name |-> 0, uid |-> 0, data |-> 0, ver |-> 0]

EventTypes == {"None", "Added", "Modified", "Deleted"}
NoEvent == [type |-> "None", obj |-> NoObj]
PendingObject == [name : Names \cup {0},
                  event : [type : EventTypes, obj : Obj \cup {NoObj}],
                  current : Obj \cup {NoObj},
                  deleted : BOOLEAN]
NoPending == [name |-> 0, event |-> NoEvent, current |-> NoObj, deleted |-> FALSE]

NoJob == [pc |-> "done", items |-> {}, deletings |-> {}, drop |-> 0, dropVer |-> 0]

Idle(c) == [cl[c] EXCEPT !.pc = "idle", !.name = 0, !.ptr = 0, !.ver = 0]
Held(o) == [obj |-> o, epoch |-> crashes]
-----------------------------------------------------------------------------
(***************************************************************************)
(* pendingObject                                                           *)
(***************************************************************************)
IsPending(p) == p.event.type # "None"
Deleting(p) == p.event.type = "Deleted"
getLatest(p) == IF p.event.obj # NoObj THEN p.event.obj ELSE p.current

\* Faulty variant: the new object is not given the version of its Add.
newPendingObjectUnversioned(n, u, v) ==
    [name |-> n,
     event |-> [type |-> "Added",
                obj |-> [name |-> n, uid |-> u, data |-> v, ver |-> 1]],
     current |-> NoObj,
     deleted |-> FALSE]

newPendingObject(n, u, v) ==
    [name |-> n,
     event |-> [type |-> "Added",
               obj |-> [name |-> n, uid |-> u, data |-> v, ver |-> v]],
     current |-> NoObj,
     deleted |-> FALSE]

initPendingObject(o) ==
    [name |-> o.name, event |-> NoEvent, current |-> o, deleted |-> FALSE]

\* Commit(expectDeleting) on p, when it does not return nil.
CommitObject(p) ==
    [p EXCEPT !.current = IF Deleting(p) THEN @ ELSE p.event.obj,
              !.deleted = Deleting(p),
              !.event = NoEvent]
-----------------------------------------------------------------------------
Init ==
    /\ seed = 0
    /\ indexer = [n \in Names |-> 0]
    /\ pobj = [u \in Uids |-> NoPending]
    /\ lastUid = 0
    /\ files = [b \in Batches |-> {}]
    /\ metaFile = 0
    /\ lastHash = [b \in Batches |-> {}]
    /\ loop = "idle"
    /\ jobs = [b \in Batches |-> NoJob]
    /\ cl = [c \in Clients |-> [pc |-> "idle", name |-> 0, ptr |-> 0, ver |-> 0,
                                held |-> [obj |-> NoObj, epoch |-> 0]]]
    /\ lastEvt = [n \in Names |-> 0]
    /\ crashes = 0
    /\ acked = [u \in Uids |-> 0]
    /\ delAsked = {}
    /\ delAcked = {}
-----------------------------------------------------------------------------
(***************************************************************************)
(* Writers.  A call looks the name up in the indexer first and acts on the *)
(* pendingObject it found in a later step: nothing locks the two together. *)
(***************************************************************************)

\* Add: GetByKey finds no object (otherwise the call fails: AlreadyExists).
AddLookup(c, n) ==
    /\ cl[c].pc = "idle"
    /\ indexer[n] = 0
    /\ cl' = [cl EXCEPT ![c].pc = "adding", ![c].name = n]
    /\ UNCHANGED <<storeVars, diskVars, loopVars, lastEvt, crashes, histVars>>

\* Add: IncVersionSeed, newPendingObject, indexer.Add.
AddInsert(c) ==
    /\ cl[c].pc = "adding"
    /\ seed < MaxVersion
    /\ lastUid < MaxUid
    /\ LET u == lastUid + 1
           v == seed + 1
       IN  /\ pobj' = [pobj EXCEPT ![u] = newPendingObject(cl[c].name, u, v)]
           /\ indexer' = [indexer EXCEPT ![cl[c].name] = u]
           /\ cl' = [cl EXCEPT ![c].pc = "waiting", ![c].ptr = u, ![c].ver = v]
           /\ lastUid' = u
           /\ seed' = v
    /\ UNCHANGED <<diskVars, loopVars, lastEvt, crashes, histVars>>

\* Get and its Wait, Peek, List: the caller takes a copy of the committed object.
Read(c, n) ==
    /\ cl[c].pc = "idle"
    /\ indexer[n] # 0
    /\ pobj[indexer[n]].current # NoObj
    /\ cl' = [cl EXCEPT ![c].held = Held(pobj[indexer[n]].current)]
    /\ UNCHANGED <<storeVars, diskVars, loopVars, lastEvt, crashes, histVars>>

\* Update: GetByKey and IsUIDEqual (a call that fails either returns an error).
UpdateLookup(c, n) ==
    /\ cl[c].pc = "idle"
    /\ indexer[n] # 0
    /\ cl[c].held.obj.uid = indexer[n]
    /\ cl' = [cl EXCEPT ![c].pc = "updating", ![c].ptr = indexer[n]]
    /\ UNCHANGED <<storeVars, diskVars, loopVars, lastEvt, crashes, histVars>>

\* Faulty variant: the resource versions are not compared.
AcceptableUnversioned(p, o) == o.uid # 0 /\ ~ Deleting(p)

\* The test under pendingObject.mutex by which RequestUpdate accepts an object.
Acceptable(p, o) == o.ver >= getLatest(p).ver /\ ~ Deleting(p)

\* Update: pendingObject.RequestUpdate.
RequestUpdate(c) ==
    /\ cl[c].pc = "updating"
    /\ seed < MaxVersion
    /\ LET u == cl[c].ptr
           v == seed + 1
           o == [cl[c].held.obj EXCEPT !.data = v, !.ver = v]
       IN  \/ /\ Acceptable(pobj[u], cl[c].held.obj)
              /\ pobj' = [pobj EXCEPT ![u].event = [type |-> "Modified", obj |-> o]]
              /\ seed' = v
              /\ cl' = [cl EXCEPT ![c].pc = "waiting", ![c].ver = v]
           \/ /\ ~ Acceptable(pobj[u], cl[c].held.obj)     \* errConflict
              /\ cl' = [cl EXCEPT ![c] = Idle(c)]
              /\ UNCHANGED <<pobj, seed>>
    /\ UNCHANGED <<indexer, lastUid, diskVars, loopVars, lastEvt, crashes, histVars>>

\* Delete: GetByKey (NotFound is an error return).
DeleteLookup(c, n) ==
    /\ cl[c].pc = "idle"
    /\ indexer[n] # 0
    /\ cl' = [cl EXCEPT ![c].pc = "deleting", ![c].ptr = indexer[n]]
    /\ UNCHANGED <<storeVars, diskVars, loopVars, lastEvt, crashes, histVars>>

\* The object whose version RequestDelete sets: the committed one or, before the
\* first commit, the one of the pending event.
DeleteTarget(p) == IF p.current = NoObj THEN p.event.obj ELSE p.current

\* Delete: pendingObject.RequestDelete.  It sets the ResourceVersion of the
\* object in place; without a committed object and without a pending event it
\* dereferences a nil event, and the goroutine panics.
RequestDelete(c) ==
    /\ cl[c].pc = "deleting"
    /\ seed < MaxVersion
    /\ LET u == cl[c].ptr
           v == seed + 1
           o == [DeleteTarget(pobj[u]) EXCEPT !.ver = v]
       IN  \/ /\ DeleteTarget(pobj[u]) # NoObj
              /\ pobj' = [pobj EXCEPT
                            ![u].event = [type |-> "Deleted", obj |-> o],
                            ![u].current = IF @ = NoObj THEN @ ELSE o]
              /\ seed' = v
              /\ delAsked' = delAsked \cup {u}
              /\ cl' = [cl EXCEPT ![c].pc = "waitdel"]
           \/ /\ DeleteTarget(pobj[u]) = NoObj
              /\ cl' = [cl EXCEPT ![c].pc = "panicked"]
              /\ UNCHANGED <<pobj, seed, delAsked>>
    /\ UNCHANGED <<indexer, lastUid, diskVars, loopVars, lastEvt, crashes, acked, delAcked>>

\* writeResult.Wait of an Add or an Update: condFunc is true.  The caller is
\* given the committed object.
WaitCommitted(c) ==
    /\ cl[c].pc = "waiting"
    /\ LET p == pobj[cl[c].ptr]
       IN  /\ ~ p.deleted
           /\ p.current # NoObj
           /\ p.current.ver >= cl[c].ver
           /\ cl' = [cl EXCEPT ![c] = [Idle(c) EXCEPT !.held = Held(p.current)]]
    /\ acked' = [acked EXCEPT ![cl[c].ptr] = IF @ < cl[c].ver THEN cl[c].ver ELSE @]
    /\ UNCHANGED <<storeVars, diskVars, loopVars, lastEvt, crashes, delAsked, delAcked>>

\* writeResult.Wait of a Delete: the event is no longer pending.
WaitDeleted(c) ==
    /\ cl[c].pc = "waitdel"
    /\ ~ IsPending(pobj[cl[c].ptr])
    /\ cl' = [cl EXCEPT ![c] = Idle(c)]
    /\ delAcked' = delAcked \cup {cl[c].ptr}
    /\ UNCHANGED <<storeVars, diskVars, loopVars, lastEvt, crashes, acked, delAsked>>

\* Wait returns an error: NotFound when the object was deleted, or ErrWaitTimeout.
WaitFailed(c) ==
    /\ cl[c].pc \in {"waiting", "waitdel"}
    /\ cl' = [cl EXCEPT ![c] = Idle(c)]
    /\ UNCHANGED <<storeVars, diskVars, loopVars, lastEvt, crashes, histVars>>
-----------------------------------------------------------------------------
(***************************************************************************)
(* The background loop                                                     *)
(***************************************************************************)

\* run: PersistMeta succeeded (when it fails run returns, nothing changes).
PersistMeta ==
    /\ loop = "idle"
    /\ metaFile' = seed
    /\ loop' = "batch"
    /\ UNCHANGED <<storeVars, files, lastHash, jobs, cl, lastEvt, crashes, histVars>>

\* run: listAll and Batch.  A batch without objects is not made.
Batch ==
    /\ loop = "batch"
    /\ LET In(b) == {indexer[n] : n \in {m \in Names : KeyFunc[m] = b /\ indexer[m] # 0}}
       IN  jobs' = [b \in Batches |->
                      [pc |-> IF In(b) = {} THEN "done" ELSE "persist",
                       items |-> {u \in In(b) : ~ Deleting(pobj[u])},
                       deletings |-> {u \in In(b) : Deleting(pobj[u])},
                       drop |-> 0,
                       dropVer |-> 0]]
    /\ loop' = "jobs"
    /\ UNCHANGED <<storeVars, diskVars, cl, lastEvt, crashes, histVars>>

\* BatchObject.IsDrity
IsDirty(b) == jobs[b].deletings # {} \/ \E u \in jobs[b].items : IsPending(pobj[u])

\* Faulty variant: the committed objects are written, not the latest ones.
MarshalCommitted(b) == {pobj[u].current : u \in jobs[b].items}

\* BatchObject.Marshal: the latest object of every item.
Marshal(b) == {getLatest(pobj[u]) : u \in jobs[b].items}

\* FsPersister.Persist leaves the file alone.
SkipsWrite(b) ==
    /\ jobs[b].items # {}
    /\ lastHash[b] # {}
    /\ ~ IsDirty(b) \/ Marshal(b) = lastHash[b]

\* persistBatch succeeds; with no item left the file is removed (removeOne).
Persist(b) ==
    /\ loop = "jobs"
    /\ jobs[b].pc = "persist"
    /\ IF SkipsWrite(b)
       THEN UNCHANGED <<files, lastHash>>
       ELSE /\ files' = [files EXCEPT ![b] = Marshal(b)]
            /\ lastHash' = IF jobs[b].items = {} THEN lastHash
                           ELSE [lastHash EXCEPT ![b] = Marshal(b)]
    /\ jobs' = [jobs EXCEPT ![b].pc = "commit"]
    /\ UNCHANGED <<storeVars, metaFile, loop, cl, lastEvt, crashes, histVars>>

\* Faulty variant: the error of persistBatch is ignored.
PersistFailsCommits(b) ==
    /\ loop = "jobs"
    /\ jobs[b].pc = "persist"
    /\ ~ SkipsWrite(b)
    /\ jobs' = [jobs EXCEPT ![b].pc = "commit"]
    /\ UNCHANGED <<storeVars, diskVars, loop, cl, lastEvt, crashes, histVars>>

\* persistBatch returns an error: nothing is committed in this round.  A remote
\* key-value storage may have taken the write before the error (a lost reply).
PersistFails(b) ==
    /\ loop = "jobs"
    /\ jobs[b].pc = "persist"
    /\ ~ SkipsWrite(b)
    /\ \/ UNCHANGED files
       \/ FailedWriteLands /\ files' = [files EXCEPT ![b] = Marshal(b)]
    /\ jobs' = [jobs EXCEPT ![b] = NoJob]
    /\ UNCHANGED <<storeVars, metaFile, lastHash, loop, cl, lastEvt, crashes, histVars>>

\* The object commit(objs, deletings) looks at next (a singleton): the items by
\* name, then the deletings by name.
NextToCommit(b) ==
    LET rest == IF jobs[b].items # {} THEN jobs[b].items ELSE jobs[b].deletings
    IN  {u \in rest : \A w \in rest : pobj[u].name <= pobj[w].name}

\* Faulty variant: Commit does not test expectDeleting.
SkippedUnexpecting(b, u) == b \in Batches /\ ~ IsPending(pobj[u])

\* commitOne of an object with no event, or with a deletion that arrived after
\* the batch was made: nothing happens, the event (if any) stays.
Skipped(b, u) ==
    \/ ~ IsPending(pobj[u])
    \/ Deleting(pobj[u]) /\ u \notin jobs[b].deletings

\* commitOne; a committed deletion still has to leave the indexer (drop).
CommitOne(b) ==
    /\ jobs[b].pc = "commit"
    /\ jobs[b].drop = 0
    /\ \E u \in NextToCommit(b) :
          LET p == pobj[u]
              deletes == ~ Skipped(b, u) /\ Deleting(p)
          IN  /\ IF Skipped(b, u)
                 THEN UNCHANGED <<pobj, lastEvt>>
                 ELSE /\ pobj' = [pobj EXCEPT ![u] = CommitObject(p)]
                      /\ lastEvt' = IF deletes THEN lastEvt
                                    ELSE [lastEvt EXCEPT ![p.name] = p.event.obj.ver]
              /\ jobs' = [jobs EXCEPT
                            ![b].items = @ \ {u},
                            ![b].deletings = @ \ {u},
                            ![b].drop = IF deletes THEN u ELSE 0,
                            ![b].dropVer = IF deletes THEN p.event.obj.ver ELSE 0]
    /\ UNCHANGED <<seed, indexer, lastUid, diskVars, loop, cl, crashes, histVars>>

\* commitOne, after Commit returned a Deleted event: indexer.Delete by name and
\* the broadcast of the event.
DropDeleted(b) ==
    /\ jobs[b].pc = "commit"
    /\ jobs[b].drop # 0
    /\ LET n == pobj[jobs[b].drop].name
       IN  /\ indexer' = [indexer EXCEPT ![n] = 0]
           /\ lastEvt' = [lastEvt EXCEPT ![n] = jobs[b].dropVer]
    /\ jobs' = [jobs EXCEPT ![b].drop = 0, ![b].dropVer = 0]
    /\ UNCHANGED <<seed, pobj, lastUid, diskVars, loop, cl, crashes, histVars>>

JobDone(b) ==
    /\ jobs[b].pc = "commit"
    /\ jobs[b].drop = 0
    /\ jobs[b].items \cup jobs[b].deletings = {}
    /\ jobs' = [jobs EXCEPT ![b] = NoJob]
    /\ UNCHANGED <<storeVars, diskVars, loop, cl, lastEvt, crashes, histVars>>

\* grpool.WaitAll
WaitAll ==
    /\ loop = "jobs"
    /\ \A b \in Batches : jobs[b].pc = "done"
    /\ loop' = "idle"
    /\ UNCHANGED <<storeVars, diskVars, jobs, cl, lastEvt, crashes, histVars>>
-----------------------------------------------------------------------------
(***************************************************************************)
(* Restart                                                                 *)
(***************************************************************************)
Stored == UNION {files[b] : b \in Batches}

\* The process stops, and Start recovers: every object of every file becomes a
\* committed pendingObject, and the seed is the persisted one or the largest
\* version recovered.  Watchers are gone; callers keep the objects they hold.
Restart ==
    /\ crashes < MaxCrashes
    /\ crashes' = crashes + 1
    /\ pobj' = [u \in Uids |->
                  IF \E o \in Stored : o.uid = u
                  THEN initPendingObject(CHOOSE o \in Stored : o.uid = u)
                  ELSE NoPending]
    /\ indexer' = [n \in Names |->
                     IF \E o \in Stored : o.name = n
                     THEN (CHOOSE o \in Stored : o.name = n).uid
                     ELSE 0]
    /\ seed' \in {metaFile} \cup {o.ver : o \in Stored}
    /\ metaFile <= seed'
    /\ \A o \in Stored : o.ver <= seed'
    /\ lastHash' = files
    /\ loop' = "idle"
    /\ jobs' = [b \in Batches |-> NoJob]
    /\ cl' = [c \in Clients |-> Idle(c)]
    /\ lastEvt' = [n \in Names |-> 0]
    /\ UNCHANGED <<lastUid, files, metaFile, histVars>>
-----------------------------------------------------------------------------
Next ==
    \/ \E c \in Creators, n \in Names : AddLookup(c, n)
    \/ \E c \in Clients, n \in Names :
          \/ Read(c, n)
          \/ UpdateLookup(c, n)
          \/ DeleteLookup(c, n)
    \/ \E c \in Clients :
          \/ AddInsert(c)
          \/ RequestUpdate(c)
          \/ RequestDelete(c)
          \/ WaitCommitted(c)
          \/ WaitDeleted(c)
          \/ WaitFailed(c)
    \/ PersistMeta
    \/ Batch
    \/ \E b \in Batches :
          \/ Persist(b)
          \/ PersistFails(b)
          \/ CommitOne(b)
          \/ DropDeleted(b)
          \/ JobDone(b)
    \/ WaitAll
    \/ Restart

Spec == Init /\ [][Next]_vars
-----------------------------------------------------------------------------
(***************************************************************************)
(* Properties                                                              *)
(***************************************************************************)
Job == [pc : {"done", "persist", "commit"}, items : SUBSET Uids,
        deletings : SUBSET Uids, drop : 0..MaxUid, dropVer : 0..MaxVersion]
Client == [pc : {"idle", "adding", "updating", "deleting", "waiting", "waitdel",
                 "panicked"},
           name : Names \cup {0}, ptr : 0..MaxUid, ver : 0..MaxVersion,
           held : [obj : Obj \cup {NoObj}, epoch : 0..MaxCrashes]]

\* The state of the store, its files, its loop and its callers is well formed.
TypeOK ==
    /\ seed \in 0..MaxVersion
    /\ indexer \in [Names -> 0..MaxUid]
    /\ pobj \in [Uids -> PendingObject]
    /\ lastUid \in 0..MaxUid
    /\ files \in [Batches -> SUBSET Obj]
    /\ metaFile \in 0..MaxVersion
    /\ lastHash \in [Batches -> SUBSET Obj]
    /\ loop \in {"idle", "batch", "jobs"}
    /\ jobs \in [Batches -> Job]
    /\ cl \in [Clients -> Client]
    /\ lastEvt \in [Names -> 0..MaxVersion]
    /\ crashes \in 0..MaxCrashes
    /\ acked \in [Uids -> 0..MaxVersion]
    /\ delAsked \in SUBSET Uids
    /\ delAcked \in SUBSET Uids

\* A Delete that was reported done is durable: no file holds the object any
\* more, so no restart brings it back.  (Commit's expectDeleting test keeps a
\* deletion that arrives after its batch was marshalled from being committed.)
\* It needs a storage whose failed writes do not land, or one object per file:
\* Persist skips contents that equal the last ones written without an error,
\* although a write that failed in between may have put others in the file.
DeletedStaysDeleted == \A o \in Stored : o.uid \notin delAcked

\* The store does what DurableStore promises: however calls, batches, failing
\* writes and restarts interleave, an object reported as stored is in a file
\* until somebody asks to delete it, only such objects leave their file, and an
\* object reported as deleted is in none and never returns to one.  (Under the
\* same condition on the storage, and with one creator.)
Promise == INSTANCE DurableStore WITH
  Uids <- Uids,
  disk <- {o.uid : o \in Stored},
  told <- {u \in Uids : acked[u] > 0},
  asked <- delAsked,
  gone <- delAcked
KeepsPromise == Promise!Spec

\* The events broadcast for one name have increasing versions between restarts:
\* a watcher never sees an older state of an object after a newer one.
EventsInOrder ==
    [][crashes' = crashes =>
         \A n \in Names : lastEvt'[n] # lastEvt[n] => lastEvt'[n] > lastEvt[n]]_vars

\* RequestUpdate accepts only an update made from the newest contents: a write
\* accepted in between is never silently overwritten.  (Only objects read since
\* the last restart: versions the seed lost in a restart are handed out again.)
NoLostUpdate ==
    [][\A c \in Clients :
         cl[c].pc = "updating" /\ cl'[c].pc = "waiting" /\ cl[c].held.epoch = crashes
           => cl[c].held.obj.data = getLatest(pobj[cl[c].ptr]).data]_vars

\* Once no write is pending and the loop rests, each committed object is the one
\* in its file ("expect the committed object matches the persisted object").
CommittedMatchesPersisted ==
    loop = "idle" =>
      \A n \in Names :
        indexer[n] # 0 /\ ~ IsPending(pobj[indexer[n]])
          => pobj[indexer[n]].current \in files[KeyFunc[n]]
-----------------------------------------------------------------------------
(***************************************************************************)
(* The inductive invariant behind DeletedStaysDeleted                      *)
(***************************************************************************)
\* The pendingObject of u is in use and its deletion has not been committed.
Live(u) == pobj[u].name # 0 /\ ~ pobj[u].deleted

\* A pendingObject holds objects of its own uid and name, and a live one has one.
PendingsOK ==
    \A u \in Uids :
      LET p == pobj[u]
      IN  /\ p.name # 0 => u <= lastUid
          /\ p.name = 0 => p = NoPending
          /\ p.event.obj # NoObj => p.event.obj.uid = u /\ p.event.obj.name = p.name
          /\ p.current # NoObj => p.current.uid = u /\ p.current.name = p.name
          /\ p.event.type = "None" <=> p.event.obj = NoObj
          /\ Live(u) => getLatest(p) # NoObj

\* The indexer leads to pendingObjects of the right name; a deleted one is about
\* to be dropped by the goroutine that committed its deletion.
IndexerOK ==
    \A n \in Names :
      indexer[n] # 0 =>
        /\ pobj[indexer[n]].name = n
        /\ Live(indexer[n]) \/ \E b \in Batches : jobs[b].drop = indexer[n]

\* A batch in progress holds live objects of its own, and once it is persisted
\* its file has none of the objects whose deletion is about to be committed.
JobsOK ==
    \A b \in Batches :
      /\ jobs[b].pc = "done" => jobs[b] = NoJob
      /\ loop # "jobs" => jobs[b].pc = "done"
      /\ jobs[b].drop # 0 => jobs[b].pc = "commit" /\ pobj[jobs[b].drop].name # 0
      /\ jobs[b].items \cap jobs[b].deletings = {}
      /\ \A u \in jobs[b].items \cup jobs[b].deletings :
            Live(u) /\ KeyFunc[pobj[u].name] = b
      /\ jobs[b].pc = "commit" =>
            \A o \in files[b] : o.uid \notin jobs[b].deletings

\* The files hold live objects only, each in the file of its batch, and a file
\* has nothing the hash of the last write does not stand for.
FilesOK ==
    \A b \in Batches :
      /\ files[b] \subseteq lastHash[b]
      /\ \A o \in files[b] :
            Live(o.uid) /\ o.name = pobj[o.uid].name /\ KeyFunc[o.name] = b

\* A call in progress refers to a pendingObject in use; one that waits for a
\* deletion waits for an object that is being deleted or is deleted.
ClientsOK ==
    \A c \in Clients :
      /\ cl[c].pc = "adding" => cl[c].name \in Names
      /\ cl[c].pc \in {"updating", "deleting", "waiting", "waitdel"} =>
            cl[c].ptr # 0 /\ pobj[cl[c].ptr].name # 0
      /\ cl[c].pc = "updating" => cl[c].held.obj.uid = cl[c].ptr
      /\ cl[c].held.obj # NoObj =>
            /\ cl[c].held.obj.uid <= lastUid
            /\ pobj[cl[c].held.obj.uid].name \in {0, cl[c].held.obj.name}
      /\ cl[c].pc = "waitdel" => Deleting(pobj[cl[c].ptr]) \/ pobj[cl[c].ptr].deleted

\* What was reported as deleted is not live.
AckedDeletionsOK == \A u \in delAcked : ~ Live(u) /\ u <= lastUid

IInv == /\ TypeOK /\ PendingsOK /\ IndexerOK /\ JobsOK
        /\ FilesOK /\ ClientsOK /\ AckedDeletionsOK
-----------------------------------------------------------------------------
(***************************************************************************)
(* What else holds when one caller creates the objects and failed writes   *)
(* do not land: the inductive invariant behind KeepsPromise                *)
(***************************************************************************)
OneCreator == \A c, d \in Creators : c = d

\* The name somebody is about to add is still free.
AddersOK ==
    \A c \in Clients :
      cl[c].pc = "adding" => c \in Creators /\ indexer[cl[c].name] = 0

\* The objects of the files and of the batches in progress are the ones the
\* indexer leads to; so is a deleted one, until its goroutine drops it.
IndexedOK ==
    \A b \in Batches :
      /\ \A o \in files[b] : indexer[o.name] = o.uid
      /\ \A u \in jobs[b].items \cup jobs[b].deletings : indexer[pobj[u].name] = u
      /\ jobs[b].drop # 0 =>
            /\ pobj[jobs[b].drop].deleted
            /\ KeyFunc[pobj[jobs[b].drop].name] = b
            /\ indexer[pobj[jobs[b].drop].name] = jobs[b].drop

\* Objects are deleted on request only, and their event stays until it is
\* committed.
DeletionsOK ==
    /\ \A u \in Uids : Deleting(pobj[u]) => u \in delAsked
    /\ \A b \in Batches : \A u \in jobs[b].deletings : Deleting(pobj[u])
    /\ \A c \in Clients : cl[c].pc = "waitdel" => cl[c].ptr \in delAsked

InFile(b, u) == \E o \in files[b] : o.uid = u

\* A committed object is in a file, or on its way out of it.
CommittedOK ==
    \A u \in Uids :
      Live(u) /\ pobj[u].current # NoObj =>
        Deleting(pobj[u]) \/ InFile(KeyFunc[pobj[u].name], u)

\* A batch that is about to be written leaves out nothing of its file, and one
\* that was written has all its objects in it.
WritesOK ==
    \A b \in Batches :
      /\ jobs[b].pc = "persist" =>
            \A o \in files[b] : o.uid \in jobs[b].items \cup jobs[b].deletings
      /\ jobs[b].pc = "commit" => \A u \in jobs[b].items : InFile(b, u)

\* The hash of the last write stands for the file, or for objects that are gone
\* or going: no write of a batch that has others is skipped.
HashesOK ==
    \A b \in Batches :
      /\ \A o \in lastHash[b] : o.uid <= lastUid
      /\ files[b] # lastHash[b] =>
            /\ \A o \in lastHash[b] : Live(o.uid) => Deleting(pobj[o.uid])
            /\ jobs[b].pc = "persist" => \A o \in lastHash[b] : o.uid \notin jobs[b].items

RInv == /\ AddersOK /\ IndexedOK /\ DeletionsOK
        /\ CommittedOK /\ WritesOK /\ HashesOK
=============================================================================
