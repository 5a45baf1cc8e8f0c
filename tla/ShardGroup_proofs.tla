------------------------- MODULE ShardGroup_proofs -------------------------
(***************************************************************************)
(* What a shard group says of itself is true: a group that reports its     *)
(* spec as complete serves all of it, and a shard that a spec drops is     *)
(* removed only when the shards it names serve.                            *)
(*                                                                         *)
(* Three copies may be out of date here: the status a shard wrote when it  *)
(* last looked at its nodes, the shards as the group's Sync read them, and *)
(* the status the group wrote.  The argument goes along these copies.      *)
(* (The group's cache of nodes may be out of date too, but a shard passes  *)
(* for complete only if its own status says so as well.)                   *)
(*   - Honest: a shard whose last status counts all its nodes as ready at  *)
(*     the version it worked for has exactly these nodes, until one fails. *)
(*     Its Sync leaves such a set of nodes alone.                          *)
(*   - Versions only grow while the owner does not go back, so a shard     *)
(*     that has worked for the group's version is at that version.         *)
(*   - JobSound: a shard the Sync has found complete stays so while the    *)
(*     Sync runs, though its spec may be written and it may be synced.     *)
(*   - Reported: a group that has reported complete stays so until the     *)
(*     owner writes another spec.                                          *)
(***************************************************************************)
EXTENDS ShardGroup, FiniteSetTheorems, SequenceTheorems, TLAPS

(* All n nodes of a shard are there, serve, and are of version v; and how   *)
(* a status counts them.                                                   *)
Whole(n, v) == [k \in 1 .. n |-> [version |-> v, phase |-> "ready"]]
Counts(n, v) == [u \in {v} |-> [replicas |-> n, ready |-> n]]

IsWhole(s, v) ==
  s \in DOMAIN shards /\ shards[s].version = v /\ shards[s].nodes = Whole(Replicas, v)

-----------------------------------------------------------------------------
(* The inductive invariant.                                                *)

Typed ==
  /\ Replicas \in Nat \ {0}
  /\ signs \in Seq(Signs) /\ generation > 0
  /\ templates \subseteq Shards
  /\ status.version \in 0 .. generation /\ status.observed \in 0 .. generation
  /\ healthy \in BOOLEAN
  /\ \A s \in DOMAIN shards :
       /\ DOMAIN shards[s] = {"nodes", "version", "own", "seen", "cached", "plan"}
       /\ shards[s].version \in Nat /\ shards[s].own \in Nat
       /\ shards[s].plan.replicas = Replicas

(* The plans a Sync has yet to write are for shards it has planned, each   *)
(* once, and a shard it has yet to create is not there.                    *)
JobTyped ==
  job.running =>
    /\ DOMAIN job = {"running", "generation", "version", "templates", "percent", "existing",
                     "full", "plans", "todo", "stale"}
    /\ job.version \in 1 .. generation /\ job.generation \in 1 .. generation
    /\ job.todo \in Seq(DOMAIN job.plans) /\ IsInjective(job.todo)
    /\ \A k \in DOMAIN job.todo : job.todo[k] \in DOMAIN shards => job.todo[k] \in job.existing
    /\ \A s \in DOMAIN job.plans : job.plans[s].replicas = Replicas

Honest ==
  healthy => \A s \in DOMAIN shards :
               shards[s].seen = Counts(Replicas, shards[s].own) =>
                 shards[s].nodes = Whole(Replicas, shards[s].own)

(* No version is ahead of the group's.                                     *)
VersionsGrow ==
  /\ \A s \in DOMAIN shards : /\ shards[s].own <= shards[s].version
                              /\ shards[s].version <= ShardGroupVersion
  /\ status.observed = generation => status.version = ShardGroupVersion

JobSound ==
  job.running =>
    /\ job.version <= ShardGroupVersion
    /\ job.version = ShardGroupVersion => job.templates = templates
    /\ job.generation = generation => job.version = ShardGroupVersion
    /\ status.observed = generation => job.generation = generation
    /\ \A s \in DOMAIN shards : shards[s].version <= job.version
    /\ healthy => \A s \in job.full : IsWhole(s, job.version)

Reported == ReportsComplete => \A s \in templates : IsWhole(s, status.version)

Base == Typed /\ JobTyped /\ Honest

Sound == VersionsGrow /\ JobSound /\ Reported

IInv == Base /\ (NoReturn => Sound)

-----------------------------------------------------------------------------
(* A Sync of a shard that is whole.                                        *)

(* There is nothing to supply where no version lacks a node.               *)
LEMMA SupplyNothing ==
  ASSUME NEW nodes, NEW target
  PROVE  supplyNode(nodes, {}, target, <<>>) =
           [update |-> EmptyMap, create |-> EmptyMap, rest |-> <<>>]
  <1> DEFINE have(v) == Cardinality({i \in DOMAIN nodes \ {} : nodes[i].version = v})
             Supply(acc, v) ==
               LET count == target[v] - have(v)
                   n == Int32Min(count, Len(acc.rest))
               IN  [update |-> [i \in {acc.rest[k] : k \in 1 .. n} |-> v] @@ acc.update,
                    rest |-> SubSeq(acc.rest, n + 1, Len(acc.rest)),
                    create |-> IF count > n THEN (v :> count - n) @@ acc.create ELSE acc.create]
             rest == SortBy({}, LAMBDA a, b : lessForUpdate(nodes, a, b))
             base == [update |-> EmptyMap, create |-> EmptyMap, rest |-> rest]
             Is(f) == f = [s \in SUBSET (DOMAIN <<>>) |->
                             IF s = {} THEN base ELSE Supply(f[s \ {Max(s)}], <<>>[Max(s)])]
             iter == CHOOSE f : Is(f)
  <1>1. rest = <<>>
    BY FS_EmptySet DEF SortBy
  <1>2. supplyNode(nodes, {}, target, <<>>) = FoldLeft(Supply, base, <<>>)
    BY Zenon DEF supplyNode
  <1> HIDE DEF base, Supply
  <1>3. FoldLeft(Supply, base, <<>>) = iter[DOMAIN <<>>]
    BY Zenon DEF FoldLeft, MapThenFoldSet
  <1>4. Is([s \in SUBSET (DOMAIN <<>>) |-> base])
    OBVIOUS
  <1>5. Is(iter)
    BY <1>4, Zenon
  <1> HIDE DEF iter
  <1>6. iter[DOMAIN <<>>] = base
    BY <1>5
  <1> QED
    BY <1>1, <1>2, <1>3, <1>6, Zenon DEF base

(* A map with one key.                                                     *)
Only(v, x) == [u \in {v} |-> x]

(* With one version at hand, the latest, the target is all nodes of it.    *)
LEMMA OneVersion ==
  ASSUME NEW counts, NEW plan, NEW v, DOMAIN counts = {v}
  PROVE  Schedule(counts, plan, v, FALSE) = Only(v, plan.replicas)
  <1> DEFINE p == initScheduleArgs(counts, plan, v)
  <1>1. DOMAIN p.count = {v} /\ p.latest = v /\ p.desired = plan.replicas
    BY Zenon DEF initScheduleArgs
  <1>2. isOneTargetVersion(p)
    BY Zenon, <1>1 DEF isOneTargetVersion
  <1> HIDE DEF p
  <1>3. Schedule(counts, plan, v, FALSE) = [u \in {v} |-> p.desired]
    BY Zenon, <1>2 DEF Schedule, With, p
  <1> QED
    BY <1>1, <1>3, Zenon DEF Only

(* Such a shard, all of whose nodes serve, is left as it is.               *)
LEMMA NothingToDo ==
  ASSUME NEW n \in Nat, NEW v,
         NEW nodes, DOMAIN nodes = 1 .. n,
         \A i \in 1 .. n : nodes[i] = [version |-> v, phase |-> "ready"],
         NEW order \in Orders(nodes, Only(v, n))
  PROVE  LET decision == rollingUpdateNodeSet(nodes, Only(v, n), order)
         IN  decision.delete = {} /\ DOMAIN decision.create = {} /\ DOMAIN decision.update = {}
  <1> USE DEF Only
  <1> DEFINE target == Only(v, n)
             D == 1 .. n
             sorted == versionNodes(nodes, v)
  <1>1. IsFiniteSet(D) /\ Cardinality(D) = n
    BY FS_Interval
  <1>2. {i \in DOMAIN nodes : nodes[i].version = v} = D
    OBVIOUS
  <1>3. collectRedundantNode(nodes, target) = {}
    <2>1. DOMAIN sorted = 1 .. n
      BY <1>1, <1>2, Zenon DEF versionNodes, SortBy
    <2>2. Len(sorted) = n
      BY <2>1
    <2>3. At(target, v) = n
      BY Zenon DEF At
    <2>4. {sorted[k] : k \in (At(target, v) + 1) .. Len(sorted)} = {}
      BY <2>2, <2>3
    <2>5. {nodes[i].version : i \in DOMAIN nodes} \subseteq {v}
      OBVIOUS
    <2> HIDE DEF target
    <2> QED
      BY <2>4, <2>5, Zenon DEF collectRedundantNode
  <1>4. order = <<>>
    <2>0. DOMAIN target = {v} /\ ~ (target[v] > Cardinality({i \in DOMAIN nodes : nodes[i].version = v}))
      <3>1. Cardinality({i \in DOMAIN nodes : nodes[i].version = v}) = n
        BY ONLY <1>1, <1>2, Zenon
      <3> QED  BY <3>1
    <2>1. {u \in DOMAIN target : target[u] > Cardinality({i \in DOMAIN nodes : nodes[i].version = u})} = {}
      <3> HIDE DEF target
      <3> QED  BY ONLY Zenon, <2>0
    <2>2. order \in SetToSeqs({})
      BY <2>1, Zenon DEF Orders
    <2> QED
      BY <2>2, FS_EmptySet DEF SetToSeqs
  <1> DEFINE supplied == [update |-> EmptyMap, create |-> EmptyMap, rest |-> <<>>]
             decision == replaceEmptyNode(nodes, DOMAIN nodes \ {}, supplied)
  <1>5. supplyNode(nodes, {}, target, order) = supplied
    BY Zenon, <1>4, SupplyNothing
  <1>6. rollingUpdateNodeSet(nodes, target, order) = decision
    <2> HIDE DEF target, supplied
    <2> QED
      BY Zenon, <1>3, <1>5 DEF rollingUpdateNodeSet, With
  <1>7. decision.delete = {} /\ DOMAIN decision.create = {} /\ DOMAIN decision.update = {}
    BY DEF replaceEmptyNode, EmptyMap, Range
  <1> QED
    BY Zenon, <1>6, <1>7

(* Nodes that are all alike are in canonical order.                        *)
LEMMA CanonicalOfAlike ==
  ASSUME NEW n \in Nat, NEW v \in Nat, NEW nodes, DOMAIN nodes = 1 .. n,
         \A i \in 1 .. n : nodes[i] = [version |-> v, phase |-> "ready"]
  PROVE  Canonical(nodes) = Whole(n, v)
  <1> DEFINE less(a, b) ==
               \/ nodes[a].version < nodes[b].version
               \/ /\ nodes[a].version = nodes[b].version
                  /\ \/ GetScore(nodes[a]) > GetScore(nodes[b])
                     \/ GetScore(nodes[a]) = GetScore(nodes[b]) /\ a < b
             s == SortBy(DOMAIN nodes, less)
  <1>1. \A a, b \in 1 .. n : less(a, b) <=> a < b
    <2>1. \A a \in 1 .. n : nodes[a].version = v /\ GetScore(nodes[a]) = 2
      BY DEF GetScore
    <2> QED
      BY <2>1
  <1> HIDE DEF less
  <1>2. Cardinality(DOMAIN nodes) = n
    BY FS_Interval
  <1>3. DOMAIN s = 1 .. n
    BY Zenon, <1>2 DEF SortBy
  <1>4. Len(s) = n
    BY <1>3
  <1>5. \A k \in 1 .. n : s[k] \in 1 .. n
    <2> TAKE k \in 1 .. n
    <2>1. {y \in 1 .. n : less(y, k)} = 1 .. (k - 1)
      BY <1>1
    <2>2. Cardinality(1 .. (k - 1)) = k - 1
      BY FS_Interval
    <2>3. Cardinality({y \in DOMAIN nodes : less(y, k)}) = k - 1
      BY <2>1, <2>2, Zenon
    <2>4. s[k] = CHOOSE x \in DOMAIN nodes : Cardinality({y \in DOMAIN nodes : less(y, x)}) = k - 1
      BY <1>2, Zenon DEF SortBy
    <2> QED
      BY <2>3, <2>4, Zenon
  <1>6. Canonical(nodes) = [k \in 1 .. Len(s) |-> nodes[s[k]]]
    BY Zenon DEF Canonical, less
  <1> HIDE DEF s
  <1> QED
    BY Zenon, <1>4, <1>5, <1>6 DEF Whole

(* A decision that names no node leaves such nodes as they are.            *)
LEMMA ActOnNothing ==
  ASSUME NEW n \in Nat, NEW v \in Nat, NEW nodes,
         nodes = Whole(n, v),
         NEW decision, decision.delete = {}, DOMAIN decision.create = {}
  PROVE  Act(nodes, decision) = nodes
  <1> DEFINE created(u) == [k \in 1 .. decision.create[u] |-> [version |-> u, phase |-> "empty"]]
             Add(acc, u) == acc \o created(u)
             Is(f) == f = [s \in SUBSET (DOMAIN <<>>) |->
                             IF s = {} THEN <<>> ELSE Add(f[s \ {Max(s)}], <<>>[Max(s)])]
             iter == CHOOSE f : Is(f)
             new == FoldLeft(Add, <<>>, SetToSeq(DOMAIN decision.create))
             all == [k \in {Len(nodes) + j : j \in DOMAIN new} \cup (DOMAIN nodes \ decision.delete) |->
                       IF k > Len(nodes) THEN new[k - Len(nodes)] ELSE nodes[k]]
  <1>1. SetToSeq(DOMAIN decision.create) = <<>>
    BY FS_EmptySet DEF SetToSeq
  <1>2. Act(nodes, decision) = Canonical(all)
    BY Zenon DEF Act
  <1> HIDE DEF Add
  <1>3. new = iter[DOMAIN <<>>]
    BY <1>1, Zenon DEF FoldLeft, MapThenFoldSet
  <1>4. Is([s \in SUBSET (DOMAIN <<>>) |-> <<>>])
    OBVIOUS
  <1>5. Is(iter)
    BY <1>4, Zenon
  <1> HIDE DEF iter, new
  <1>6. new = <<>>
    BY <1>3, <1>5
  <1>7. DOMAIN all = 1 .. n /\ \A i \in 1 .. n : all[i] = [version |-> v, phase |-> "ready"]
    BY <1>6 DEF Whole
  <1> HIDE DEF all
  <1> QED
    BY <1>2, <1>7, CanonicalOfAlike, Zenon

(* Its status counts all its nodes as ready, and no others.                *)
LEMMA StatusOfWhole ==
  ASSUME NEW n \in Nat \ {0}, NEW v, NEW nodes, nodes = Whole(n, v)
  PROVE  GetVersionStatus(nodes) = Counts(n, v)
  <1> DEFINE of(u) == {i \in DOMAIN nodes : nodes[i].version = u}
             serving(u) == {i \in of(u) : nodes[i].phase = "ready"}
  <1>0. DOMAIN nodes = 1 .. n /\ \A i \in 1 .. n : nodes[i] = [version |-> v, phase |-> "ready"]
    BY Zenon DEF Whole
  <1>1. {nodes[i].version : i \in DOMAIN nodes} = {v}
    <2>1. 1 \in 1 .. n
      OBVIOUS
    <2> QED
      BY <1>0, <2>1
  <1>2. of(v) = 1 .. n /\ serving(v) = 1 .. n
    BY <1>0
  <1>3. Cardinality(1 .. n) = n
    BY FS_Interval
  <1>4. GetVersionStatus(nodes) =
          [u \in {nodes[i].version : i \in DOMAIN nodes} |->
             [replicas |-> Cardinality(of(u)), ready |-> Cardinality(serving(u))]]
    BY Zenon DEF GetVersionStatus
  <1> HIDE DEF of, serving
  <1>5. Cardinality(of(v)) = n /\ Cardinality(serving(v)) = n
    BY Zenon, <1>2, <1>3
  <1> QED
    BY ONLY Zenon, <1>1, <1>4, <1>5 DEF Counts

(* What a Sync of a shard decides: the target by the shard's plan for n     *)
(* nodes of version v, and what is to become of the nodes.                 *)
Decides(n, v, nodes, plan, target, order, decision) ==
  /\ n \in Nat \ {0} /\ v \in Nat /\ plan.replicas = n
  /\ target = Schedule(GetVersionStatus(nodes), plan, v, FALSE)
  /\ order \in Orders(nodes, target)
  /\ decision = rollingUpdateNodeSet(nodes, target, order)

(* A Sync of a shard that is whole changes no node of it.                  *)
LEMMA SyncOfWhole ==
  ASSUME NEW n, NEW v, NEW nodes, NEW plan, NEW target, NEW order, NEW decision,
         Decides(n, v, nodes, plan, target, order, decision), nodes = Whole(n, v)
  PROVE  /\ Updated(nodes, decision) = nodes
         /\ Act(nodes, decision) = nodes
  <1> USE DEF Decides
  <1>1. DOMAIN nodes = 1 .. n /\ \A i \in 1 .. n : nodes[i] = [version |-> v, phase |-> "ready"]
    BY Zenon DEF Whole
  <1>2. Schedule(GetVersionStatus(nodes), plan, v, FALSE) = Only(v, n)
    <2>1. GetVersionStatus(nodes) = Counts(n, v)
      BY Zenon, StatusOfWhole
    <2>2. DOMAIN GetVersionStatus(nodes) = {v}
      BY Zenon, <2>1 DEF Counts
    <2> QED
      BY <2>2, OneVersion, Zenon
  <1>3. decision.delete = {} /\ DOMAIN decision.create = {} /\ DOMAIN decision.update = {}
    <2>1. order \in Orders(nodes, Only(v, n)) /\ decision = rollingUpdateNodeSet(nodes, Only(v, n), order)
      BY <1>2, Zenon
    <2>2. n \in Nat
      BY Zenon
    <2> QED
      BY ONLY <1>1, <2>1, <2>2, NothingToDo, Zenon
  <1>4. Updated(nodes, decision) = nodes
    BY <1>3, Zenon DEF Updated, Whole
  <1>5. Act(nodes, decision) = nodes
    BY Zenon, <1>3, ActOnNothing
  <1> QED
    BY <1>4, <1>5, Zenon

(* A status that counts all nodes as ready was written by a Sync that found *)
(* the shard whole: a node it had moved would not be ready.                *)
LEMMA SyncFoundWhole ==
  ASSUME NEW n \in Nat \ {0}, NEW v, NEW nodes \in Seq(Nodes), NEW decision,
         GetVersionStatus(Updated(nodes, decision)) = Counts(n, v)
  PROVE  nodes = Whole(n, v)
  <1> DEFINE new == Updated(nodes, decision)
             D == DOMAIN nodes
             of(u) == {i \in DOMAIN new : new[i].version = u}
             serving(u) == {i \in of(u) : new[i].phase = "ready"}
  <1>1. D = 1 .. Len(nodes) /\ Len(nodes) \in Nat /\ IsFiniteSet(D) /\ Cardinality(D) = Len(nodes)
    <2>1. D = 1 .. Len(nodes) /\ Len(nodes) \in Nat
      BY Zenon, LenProperties
    <2>2. IsFiniteSet(1 .. Len(nodes)) /\ Cardinality(1 .. Len(nodes)) = Len(nodes)
      BY ONLY <2>1, FS_Interval, SMT
    <2> HIDE DEF D
    <2> QED  BY Zenon, <2>1, <2>2
  <1>2. DOMAIN new = D
    BY Zenon DEF Updated
  <1>3. \A i \in D : new[i].phase = "ready" => new[i] = nodes[i]
    BY Zenon DEF Updated
  <1>4. GetVersionStatus(new) =
          [u \in {new[i].version : i \in DOMAIN new} |->
             [replicas |-> Cardinality(of(u)), ready |-> Cardinality(serving(u))]]
    BY Zenon DEF GetVersionStatus
  <1>5. {new[i].version : i \in DOMAIN new} = {v}
    <2> HIDE DEF new, of, serving
    <2> QED  BY <1>4, Zenon DEF new, Counts
  <1>6. of(v) = D
    <2> HIDE DEF new
    <2> QED  BY <1>2, <1>5, Zenon
  <1>7. Cardinality(of(v)) = n /\ Cardinality(serving(v)) = n
    <2> HIDE DEF new, of, serving
    <2>1. GetVersionStatus(new)[v] = [replicas |-> n, ready |-> n]
      BY Zenon DEF new, Counts
    <2>2. GetVersionStatus(new)[v] = [replicas |-> Cardinality(of(v)), ready |-> Cardinality(serving(v))]
      BY Zenon, <1>4, <1>5
    <2> QED  BY ONLY <2>1, <2>2
  <1>8. serving(v) = D
    <2>1. serving(v) \in SUBSET D
      BY Zenon, <1>6
    <2> HIDE DEF serving, of, D
    <2> QED  BY Zenon, <2>1, <1>1, <1>6, <1>7, FS_Subset
  <1>9. Len(nodes) = n
    BY <1>1, <1>6, <1>7, Zenon
  <1>10. \A i \in D : nodes[i] = [version |-> v, phase |-> "ready"]
    <2> TAKE i \in D
    <2>1. new[i].phase = "ready" /\ new[i].version = v
      BY Zenon, <1>8
    <2>2. nodes[i].phase = "ready" /\ nodes[i].version = v
      BY Zenon, <1>3, <2>1
    <2>3. nodes[i] \in [version : Generations, phase : Phases]
      <3>1. nodes[i] \in Nodes
        BY Zenon, <1>1, ElementOfSeq
      <3> QED  BY Zenon, <3>1 DEF Nodes
    <2> QED
      BY ONLY Zenon, <2>2, <2>3
  <1> QED
    BY <1>1, <1>9, <1>10 DEF Whole

-----------------------------------------------------------------------------
(* The steps.  What a step may use, and what it must keep.                 *)

Kept == Base' /\ (NoReturn' => Sound')

(* The group's version is a generation with the sign of the last one.      *)
LEMMA GroupVersion ==
  ASSUME Typed
  PROVE  /\ generation \in Nat \ {0}
         /\ ShardGroupVersion \in 1 .. generation
         /\ signs[ShardGroupVersion] = signs[generation]
  <1>1. generation \in Nat \ {0}
    BY DEF Typed, generation
  <1> QED
    BY <1>1 DEF Typed, ShardGroupVersion

(* A Sync of a shard leaves whole nodes whole, and says so only of them.   *)
LEMMA SyncShardEffect ==
  ASSUME Typed, NodesTyped, NEW s, SyncShard(s)
  PROVE  /\ s \in DOMAIN shards
         /\ DOMAIN shards' = DOMAIN shards
         /\ \A t \in DOMAIN shards \ {s} : shards'[t] = shards[t]
         /\ DOMAIN shards'[s] = DOMAIN shards[s]
         /\ shards'[s].version = shards[s].version /\ shards'[s].plan = shards[s].plan
         /\ shards'[s].own = shards[s].version
         /\ shards'[s].seen = Counts(Replicas, shards[s].version) =>
              shards'[s].nodes = Whole(Replicas, shards[s].version)
         /\ shards[s].nodes = Whole(Replicas, shards[s].version) =>
              shards'[s].nodes = Whole(Replicas, shards[s].version)
  <1> DEFINE old == shards[s].nodes
             v == shards[s].version
             target == Schedule(GetVersionStatus(old), shards[s].plan, v, FALSE)
             made(d, new) == shards' = [shards EXCEPT ![s].nodes = Act(new, d),
                                                      ![s].own = v,
                                                      ![s].seen = GetVersionStatus(new)]
  <1>a. \E t \in {target} : \E o \in Orders(old, t) :
          \E d \in {rollingUpdateNodeSet(old, t, o)} : \E new \in {Updated(old, d)} : made(d, new)
    BY Zenon DEF SyncShard
  <1>1. PICK order, decision, new :
          /\ order \in Orders(old, target)
          /\ decision = rollingUpdateNodeSet(old, target, order)
          /\ new = Updated(old, decision)
          /\ made(decision, new)
    <2> HIDE DEF old, target, made
    <2> QED  BY Zenon, <1>a
  <1> DEFINE acted == Act(new, decision)
             counted == GetVersionStatus(new)
  <1>2. /\ s \in DOMAIN shards
        /\ DOMAIN shards[s] = {"nodes", "version", "own", "seen", "cached", "plan"}
        /\ v \in Nat /\ shards[s].plan.replicas = Replicas
        /\ Replicas \in Nat \ {0}
        /\ old \in Seq(Nodes)
    BY Zenon DEF SyncShard, Typed, NodesTyped
  <1>3. old = Whole(Replicas, v) => new = old /\ acted = old
    <2> HAVE old = Whole(Replicas, v)
    <2>1. Updated(old, decision) = old /\ Act(old, decision) = old
      <3>1. Decides(Replicas, v, old, shards[s].plan, target, order, decision)
        BY <1>1, <1>2, Zenon DEF Decides
      <3> HIDE DEF old, v, target
      <3> QED  BY Zenon, <3>1, SyncOfWhole
    <2> QED
      BY <1>1, <2>1, Zenon
  <1>4. counted = Counts(Replicas, v) => old = Whole(Replicas, v)
    BY <1>1, <1>2, SyncFoundWhole, Zenon
  <1>5. shards' = [shards EXCEPT ![s].nodes = acted, ![s].own = v, ![s].seen = counted]
    BY Zenon, <1>1
  <1> HIDE DEF acted, counted
  <1>6. /\ DOMAIN shards' = DOMAIN shards
        /\ \A t \in DOMAIN shards \ {s} : shards'[t] = shards[t]
        /\ shards'[s] = [shards[s] EXCEPT !.nodes = acted, !.own = v, !.seen = counted]
    BY Zenon, <1>2, <1>5
  <1>7. /\ DOMAIN shards'[s] = DOMAIN shards[s]
        /\ shards'[s].version = v /\ shards'[s].plan = shards[s].plan
        /\ shards'[s].own = v /\ shards'[s].nodes = acted /\ shards'[s].seen = counted
    BY Zenon, <1>2, <1>6
  <1> QED
    <2> HIDE DEF old, v
    <2> QED  BY ONLY Zenon, <1>2, <1>3, <1>4, <1>6, <1>7 DEF old, v

(* A step that is not the owner's keeps the spec, and the version with it. *)
LEMMA SpecKept ==
  ASSUME UNCHANGED <<strategy, signs>>
  PROVE  /\ Replicas' = Replicas /\ generation' = generation
         /\ NoReturn' <=> NoReturn
         /\ status' = status => ShardGroupVersion' = ShardGroupVersion
  BY Zenon DEF Replicas, generation, NoReturn, ShardGroupVersion

(* A Sync of a shard works for the version the group wrote, and touches no *)
(* node of a shard that is whole.                                          *)
LEMMA SyncShardKeeps ==
  ASSUME IInv, NodesTyped, NEW s, SyncShard(s)
  PROVE  Kept
  <1>1. UNCHANGED <<strategy, healthy, signs, templates, percent, status, budget>>
    BY Zenon DEF SyncShard
  <1>2. /\ Replicas' = Replicas /\ generation' = generation
        /\ NoReturn' <=> NoReturn
        /\ ShardGroupVersion' = ShardGroupVersion
    BY Zenon, <1>1, SpecKept
  <1> DEFINE Effect ==
               /\ s \in DOMAIN shards
               /\ DOMAIN shards' = DOMAIN shards
               /\ \A t \in DOMAIN shards \ {s} : shards'[t] = shards[t]
               /\ DOMAIN shards'[s] = DOMAIN shards[s]
               /\ shards'[s].version = shards[s].version /\ shards'[s].plan = shards[s].plan
               /\ shards'[s].own = shards[s].version
               /\ shards'[s].seen = Counts(Replicas, shards[s].version) =>
                    shards'[s].nodes = Whole(Replicas, shards[s].version)
               /\ shards[s].nodes = Whole(Replicas, shards[s].version) =>
                    shards'[s].nodes = Whole(Replicas, shards[s].version)
  <1>3. Effect
    BY Zenon, SyncShardEffect DEF IInv, Base
  <1>4. Typed'
    BY Zenon, <1>1, <1>2, <1>3 DEF Typed, IInv, Base
  <1>5. /\ job'.running <=> job.running
        /\ job.running => /\ DOMAIN job' = DOMAIN job
                          /\ \A f \in DOMAIN job \ {"stale"} : job'[f] = job[f]
    BY Zenon DEF SyncShard, IInv, Base, JobTyped
  <1>6. JobTyped'
    BY Zenon, <1>2, <1>3, <1>5 DEF JobTyped, IInv, Base
  <1>7. Honest'
    BY Zenon, <1>1, <1>2, <1>3 DEF Honest, IInv, Base
  <1>8. ASSUME NoReturn' PROVE Sound'
    <2>1. VersionsGrow /\ JobSound /\ Reported
      BY Zenon, <1>2, <1>8 DEF IInv, Sound
    <2>2. VersionsGrow'
      BY <1>1, <1>2, <1>3, <2>1 DEF VersionsGrow, IInv, Base, Typed
    <2>3. \A t, v : IsWhole(t, v) => t \in DOMAIN shards' /\ shards'[t].version = v
                                       /\ shards'[t].nodes = Whole(Replicas, v)
      BY Zenon, <1>3 DEF IsWhole
    <2>4. JobSound'
      BY <1>1, <1>2, <1>3, <1>5, <2>1, <2>3 DEF JobSound, IsWhole, IInv, Base, JobTyped
    <2>5. Reported'
      BY <1>1, <1>2, <1>3, <1>8, <2>1, <2>3 DEF Reported, ReportsComplete, IsWhole
    <2> QED
      BY Zenon, <2>2, <2>4, <2>5 DEF Sound
  <1> QED
    BY Zenon, <1>4, <1>6, <1>7, <1>8 DEF Kept, Base

(* A shard with a node that does not serve is not whole, and does not pass *)
(* for whole.                                                              *)
LEMMA ProgressKeeps ==
  ASSUME IInv, NEW s, Progress(s)
  PROVE  Kept
  <1>1. UNCHANGED <<strategy, healthy, signs, templates, percent, status, job, budget>>
    BY Zenon DEF Progress
  <1>2. /\ Replicas' = Replicas /\ generation' = generation
        /\ NoReturn' <=> NoReturn
        /\ ShardGroupVersion' = ShardGroupVersion
    BY Zenon, <1>1, SpecKept
  <1>3. /\ \E i \in DOMAIN shards[s].nodes : shards[s].nodes[i].phase # "ready"
        /\ \E x : shards' = [shards EXCEPT ![s].nodes = x]
    BY Zenon DEF Progress
  <1>4. s \in DOMAIN shards
    BY Zenon DEF Progress
  <1>5. \A n, v : shards[s].nodes # Whole(n, v)
    <2> SUFFICES ASSUME NEW n, NEW v, shards[s].nodes = Whole(n, v)
                 PROVE  FALSE
      BY Zenon
    <2>1. PICK i \in DOMAIN shards[s].nodes : shards[s].nodes[i].phase # "ready"
      BY Zenon, <1>3
    <2>2. Whole(n, v)[i].phase = "ready"
      BY Zenon DEF Whole
    <2> QED
      BY Zenon, <2>1, <2>2
  <1>6. /\ DOMAIN shards' = DOMAIN shards
        /\ \A t \in DOMAIN shards \ {s} : shards'[t] = shards[t]
        /\ DOMAIN shards'[s] = DOMAIN shards[s]
        /\ shards'[s].version = shards[s].version /\ shards'[s].plan = shards[s].plan
        /\ shards'[s].own = shards[s].own /\ shards'[s].seen = shards[s].seen
    <2>1. PICK x : shards' = [shards EXCEPT ![s].nodes = x]
      BY <1>3, Zenon
    <2>2. /\ DOMAIN shards' = DOMAIN shards
          /\ \A t \in DOMAIN shards \ {s} : shards'[t] = shards[t]
          /\ shards'[s] = [shards[s] EXCEPT !.nodes = x]
      BY Zenon, <1>4, <2>1
    <2>3. DOMAIN shards[s] = {"nodes", "version", "own", "seen", "cached", "plan"}
      BY Zenon, <1>4 DEF IInv, Base, Typed
    <2> QED
      BY Zenon, <2>2, <2>3
  <1>7. Typed'
    BY Zenon, <1>1, <1>2, <1>6 DEF Typed, IInv, Base
  <1>8. JobTyped'
    BY Zenon, <1>1, <1>2, <1>6 DEF JobTyped, IInv, Base
  <1>9. Honest'
    BY Zenon, <1>1, <1>2, <1>4, <1>5, <1>6 DEF Honest, IInv, Base
  <1>10. ASSUME NoReturn' PROVE Sound'
    <2>1. VersionsGrow /\ JobSound /\ Reported
      BY Zenon, <1>2, <1>10 DEF IInv, Sound
    <2>2. VersionsGrow'
      BY Zenon, <1>1, <1>2, <1>6, <2>1 DEF VersionsGrow
    <2>3. \A t, v : IsWhole(t, v) => t \in DOMAIN shards' /\ shards'[t].version = v
                                       /\ shards'[t].nodes = Whole(Replicas, v)
      BY Zenon, <1>5, <1>6 DEF IsWhole
    <2>4. JobSound'
      BY <1>1, <1>2, <1>6, <2>1, <2>3 DEF JobSound, IsWhole
    <2>5. Reported'
      BY Zenon, <1>1, <1>2, <1>10, <2>1, <2>3 DEF Reported, ReportsComplete, IsWhole
    <2> QED
      BY Zenon, <2>2, <2>4, <2>5 DEF Sound
  <1> QED
    BY Zenon, <1>7, <1>8, <1>9, <1>10 DEF Kept, Base

(* Once a node has failed nothing is said of what a shard serves.          *)
LEMMA FailKeeps ==
  ASSUME IInv, NEW s, Fail(s)
  PROVE  Kept
  <1>1. UNCHANGED <<strategy, signs, templates, percent, status, job>> /\ healthy' = FALSE
    BY Zenon DEF Fail
  <1>2. /\ Replicas' = Replicas /\ generation' = generation
        /\ NoReturn' <=> NoReturn
        /\ ShardGroupVersion' = ShardGroupVersion
    BY Zenon, <1>1, SpecKept
  <1>3. \E x : shards' = [shards EXCEPT ![s].nodes = x]
    BY Zenon DEF Fail
  <1>4. s \in DOMAIN shards
    BY Zenon DEF Fail
  <1>5. /\ DOMAIN shards' = DOMAIN shards
        /\ \A t \in DOMAIN shards :
             /\ DOMAIN shards'[t] = DOMAIN shards[t]
             /\ shards'[t].version = shards[t].version /\ shards'[t].plan = shards[t].plan
             /\ shards'[t].own = shards[t].own
    BY <1>3, <1>4 DEF IInv, Base, Typed
  <1>6. Typed'
    BY <1>1, <1>2, <1>5, Zenon DEF Typed, IInv, Base
  <1>7. JobTyped'
    BY Zenon, <1>1, <1>2, <1>5 DEF JobTyped, IInv, Base
  <1>8. Honest'
    BY Zenon, <1>1 DEF Honest
  <1>9. ASSUME NoReturn' PROVE Sound'
    <2>1. VersionsGrow /\ JobSound
      BY Zenon, <1>2, <1>9 DEF IInv, Sound
    <2>2. VersionsGrow'
      BY Zenon, <1>1, <1>2, <1>5, <2>1 DEF VersionsGrow
    <2>3. JobSound'
      BY Zenon, <1>1, <1>2, <1>5, <2>1 DEF JobSound
    <2>4. Reported'
      BY Zenon, <1>1 DEF Reported, ReportsComplete
    <2> QED
      BY Zenon, <2>2, <2>3, <2>4 DEF Sound
  <1> QED
    BY Zenon, <1>6, <1>7, <1>8, <1>9 DEF Kept, Base

(* What the group's cache has of the nodes is not what the claims are about. *)
LEMMA ObserveKeeps ==
  ASSUME IInv, NEW s, Observe(s)
  PROVE  Kept
  <1>1. UNCHANGED <<strategy, healthy, signs, templates, percent, status, job, budget>>
    BY Zenon DEF Observe
  <1>2. /\ Replicas' = Replicas /\ generation' = generation
        /\ NoReturn' <=> NoReturn
        /\ ShardGroupVersion' = ShardGroupVersion
    BY Zenon, <1>1, SpecKept
  <1>3. PICK x : shards' = [shards EXCEPT ![s].cached = x]
    BY Zenon DEF Observe
  <1>4. /\ DOMAIN shards' = DOMAIN shards
        /\ \A t \in DOMAIN shards :
             /\ DOMAIN shards'[t] = DOMAIN shards[t]
             /\ shards'[t].version = shards[t].version /\ shards'[t].plan = shards[t].plan
             /\ shards'[t].own = shards[t].own /\ shards'[t].seen = shards[t].seen
             /\ shards'[t].nodes = shards[t].nodes
    BY Zenon, <1>3 DEF IInv, Base, Typed
  <1>5. Typed'
    BY Zenon, <1>1, <1>2, <1>4 DEF Typed, IInv, Base
  <1>6. JobTyped'
    BY Zenon, <1>1, <1>2, <1>4 DEF JobTyped, IInv, Base
  <1>7. Honest'
    BY Zenon, <1>1, <1>2, <1>4 DEF Honest, IInv, Base
  <1>8. ASSUME NoReturn' PROVE Sound'
    <2>1. VersionsGrow /\ JobSound /\ Reported
      BY Zenon, <1>2, <1>8 DEF IInv, Sound
    <2>2. VersionsGrow'
      BY Zenon, <1>1, <1>2, <1>4, <2>1 DEF VersionsGrow
    <2>3. JobSound'
      BY Zenon, <1>1, <1>2, <1>4, <2>1 DEF JobSound, IsWhole
    <2>4. Reported'
      BY Zenon, <1>1, <1>2, <1>4, <1>8, <2>1 DEF Reported, ReportsComplete, IsWhole
    <2> QED
      BY Zenon, <2>2, <2>3, <2>4 DEF Sound
  <1> QED
    BY Zenon, <1>5, <1>6, <1>7, <1>8 DEF Kept, Base

(* What is left to do when the first item is done.                         *)
LEMMA RestOfTodo ==
  ASSUME NEW S, NEW todo \in Seq(S), todo # <<>>, IsInjective(todo)
  PROVE  /\ Head(todo) \in S /\ 1 \in DOMAIN todo /\ Head(todo) = todo[1]
         /\ Tail(todo) \in Seq(S) /\ IsInjective(Tail(todo))
         /\ \A k \in DOMAIN Tail(todo) : /\ k + 1 \in DOMAIN todo /\ Tail(todo)[k] = todo[k + 1]
                                        /\ Tail(todo)[k] # Head(todo)
  <1>1. /\ Head(todo) \in S /\ 1 \in DOMAIN todo /\ Head(todo) = todo[1]
        /\ Tail(todo) \in Seq(S) /\ DOMAIN Tail(todo) = 1 .. Len(todo) - 1
        /\ \A k \in DOMAIN Tail(todo) : k + 1 \in DOMAIN todo /\ Tail(todo)[k] = todo[k + 1]
    OBVIOUS
  <1>2. \A a, b \in DOMAIN todo : todo[a] = todo[b] => a = b
    BY Zenon DEF IsInjective
  <1>3. \A a, b \in DOMAIN Tail(todo) : Tail(todo)[a] = Tail(todo)[b] => a = b
    <2> TAKE a, b \in DOMAIN Tail(todo)
    <2> HAVE Tail(todo)[a] = Tail(todo)[b]
    <2>1. a + 1 = b + 1
      BY Zenon, <1>1, <1>2
    <2> QED
      BY <1>1, <2>1
  <1>4. \A k \in DOMAIN Tail(todo) : Tail(todo)[k] # Head(todo)
    <2> TAKE k \in DOMAIN Tail(todo)
    <2>1. k + 1 # 1
      BY <1>1
    <2> QED
      BY Zenon, <1>1, <1>2, <2>1
  <1> QED
    BY Zenon, <1>1, <1>3, <1>4 DEF IsInjective

(* A shard that is created was not there, and does not pass for complete.  *)
LEMMA CreateShardKeeps ==
  ASSUME IInv, CreateShard
  PROVE  Kept
  <1>1. UNCHANGED <<strategy, healthy, signs, templates, percent, status, budget>> /\ job.running
    BY Zenon DEF CreateShard
  <1>2. /\ Replicas' = Replicas /\ generation' = generation
        /\ NoReturn' <=> NoReturn
        /\ ShardGroupVersion' = ShardGroupVersion
    BY Zenon, <1>1, SpecKept
  <1> DEFINE s == Head(job.todo)
             todo == Tail(job.todo)
             new == [nodes |-> <<>>, version |-> job.version, own |-> 0, seen |-> EmptyMap,
                     cached |-> EmptyMap, plan |-> job.plans[s]]
  <1>3. /\ s \in DOMAIN job.plans /\ 1 \in DOMAIN job.todo /\ s = job.todo[1]
        /\ todo \in Seq(DOMAIN job.plans) /\ IsInjective(todo)
        /\ \A k \in DOMAIN todo : k + 1 \in DOMAIN job.todo /\ todo[k] = job.todo[k + 1] /\ todo[k] # s
    BY Zenon, <1>1, RestOfTodo DEF CreateShard, IInv, Base, JobTyped
  <1>4. s \notin job.existing /\ s \notin DOMAIN shards
    BY Zenon, <1>1, <1>3 DEF CreateShard, IInv, Base, JobTyped
  <1>5. /\ job'.running
        /\ DOMAIN job' = DOMAIN job /\ job'.todo = todo
        /\ \A f \in DOMAIN job \ {"todo"} : job'[f] = job[f]
    BY Zenon, <1>1 DEF CreateShard, IInv, Base, JobTyped
  <1>6. shards' = [t \in {s} \cup DOMAIN shards |-> IF t = s THEN new ELSE shards[t]]
    BY Zenon DEF CreateShard
  <1>7. /\ DOMAIN new = {"nodes", "version", "own", "seen", "cached", "plan"}
        /\ new.version = job.version /\ new.own = 0
        /\ DOMAIN new.seen = {} /\ new.plan = job.plans[s]
    BY Zenon DEF EmptyMap
  <1> HIDE DEF s, todo, new
  <1>8. /\ DOMAIN shards' = {s} \cup DOMAIN shards /\ shards'[s] = new
        /\ \A t \in DOMAIN shards : shards'[t] = shards[t]
    BY Zenon, <1>4, <1>6
  <1>9. job.version \in Nat \ {0} /\ job.plans[s].replicas = Replicas
    BY <1>1, <1>3, GroupVersion DEF IInv, Base, JobTyped
  <1>10. Typed'
    <2>1. 0 \in Nat
      OBVIOUS
    <2> QED
      BY Zenon, <1>1, <1>2, <1>7, <1>8, <1>9, <2>1 DEF Typed, IInv, Base
  <1>11. JobTyped'
    <2>1. \A k \in DOMAIN todo : todo[k] \in DOMAIN shards' => todo[k] \in job.existing
      BY Zenon, <1>1, <1>3, <1>8 DEF JobTyped, IInv, Base
    <2>2. /\ job'.version = job.version /\ job'.generation = job.generation
          /\ job'.plans = job.plans /\ job'.existing = job.existing
      BY Zenon, <1>1, <1>5 DEF JobTyped, IInv, Base
    <2> QED
      BY Zenon, <1>1, <1>2, <1>3, <1>5, <2>1, <2>2 DEF JobTyped, IInv, Base
  <1>12. Honest'
    <2>1. new.seen # Counts(Replicas, new.own)
      BY Zenon, <1>7 DEF Counts
    <2> QED
      BY Zenon, <1>1, <1>2, <1>8, <2>1 DEF Honest, IInv, Base
  <1>13. ASSUME NoReturn' PROVE Sound'
    <2>1. VersionsGrow /\ JobSound /\ Reported
      BY Zenon, <1>2, <1>13 DEF IInv, Sound
    <2>2. job.version <= ShardGroupVersion /\ 0 <= job.version /\ job.version <= job.version
      BY <1>1, <1>9, <2>1 DEF JobSound
    <2>3. VersionsGrow'
      BY Zenon, <1>1, <1>2, <1>7, <1>8, <2>1, <2>2 DEF VersionsGrow
    <2>4. JobSound'
      BY Zenon, <1>1, <1>2, <1>5, <1>7, <1>8, <2>1, <2>2 DEF JobSound, IsWhole, IInv, Base, JobTyped
    <2>5. Reported'
      BY Zenon, <1>1, <1>2, <1>8, <1>13, <2>1 DEF Reported, ReportsComplete, IsWhole
    <2> QED
      BY Zenon, <2>3, <2>4, <2>5 DEF Sound
  <1> QED
    BY Zenon, <1>10, <1>11, <1>12, <1>13 DEF Kept, Base

(* A plan comes with the version of the Sync: no shard is ahead of it, and *)
(* a shard that reported it complete or that the Sync found full is at it. *)
LEMMA WritePlanKeeps ==
  ASSUME IInv, WritePlan
  PROVE  Kept
  <1>1. UNCHANGED <<strategy, healthy, signs, templates, percent, status, budget>> /\ job.running
    BY Zenon DEF WritePlan
  <1>2. /\ Replicas' = Replicas /\ generation' = generation
        /\ NoReturn' <=> NoReturn
        /\ ShardGroupVersion' = ShardGroupVersion
    BY Zenon, <1>1, SpecKept
  <1> DEFINE s == Head(job.todo)
  <1>3. /\ s \in DOMAIN job.plans
        /\ Tail(job.todo) \in Seq(DOMAIN job.plans) /\ IsInjective(Tail(job.todo))
        /\ \A k \in DOMAIN Tail(job.todo) :
             k + 1 \in DOMAIN job.todo /\ Tail(job.todo)[k] = job.todo[k + 1]
    BY Zenon, <1>1, RestOfTodo DEF WritePlan, IInv, Base, JobTyped
  <1>4. /\ job'.running
        /\ DOMAIN job' = DOMAIN job /\ job'.todo = Tail(job.todo)
        /\ \A f \in DOMAIN job \ {"todo"} : job'[f] = job[f]
    BY Zenon, <1>1 DEF WritePlan, IInv, Base, JobTyped
  <1>5. /\ DOMAIN shards' = DOMAIN shards
        /\ \A t \in DOMAIN shards :
             /\ DOMAIN shards'[t] = DOMAIN shards[t]
             /\ shards'[t].own = shards[t].own /\ shards'[t].seen = shards[t].seen
             /\ shards'[t].nodes = shards[t].nodes
             /\ \/ shards'[t].version = shards[t].version /\ shards'[t].plan = shards[t].plan
                \/ shards'[t].version = job.version /\ shards'[t].plan = job.plans[s]
    <2> HIDE DEF s
    <2>1. shards' = [shards EXCEPT ![s].plan = job.plans[s], ![s].version = job.version]
      BY Zenon DEF WritePlan, s
    <2> QED
      BY Zenon, <2>1 DEF IInv, Base, Typed
  <1> HIDE DEF s
  <1>6. Typed'
    BY <1>1, <1>2, <1>3, <1>5 DEF Typed, JobTyped, IInv, Base, generation
  <1>7. JobTyped'
    BY Zenon, <1>1, <1>2, <1>3, <1>4, <1>5 DEF JobTyped, IInv, Base
  <1>8. Honest'
    BY Zenon, <1>1, <1>2, <1>5 DEF Honest, IInv, Base
  <1>9. ASSUME NoReturn' PROVE Sound'
    <2>1. VersionsGrow /\ JobSound /\ Reported
      BY Zenon, <1>2, <1>9 DEF IInv, Sound
    <2>2. /\ job.version \in Nat /\ ShardGroupVersion \in Nat
          /\ \A t \in DOMAIN shards : shards[t].version \in Nat /\ shards[t].own \in Nat
      BY <1>1, GroupVersion DEF IInv, Base, Typed, JobTyped
    <2>3. VersionsGrow'
      BY <1>1, <1>2, <1>5, <2>1, <2>2 DEF VersionsGrow, JobSound
    <2>4. JobSound'
      BY <1>1, <1>2, <1>4, <1>5, <2>1, <2>2 DEF JobSound, IsWhole, IInv, Base, JobTyped
    <2>5. Reported'
      <3> SUFFICES ASSUME ReportsComplete' PROVE \A t \in templates : IsWhole(t, status.version)'
        BY Zenon, <1>1 DEF Reported
      <3>1. ReportsComplete
        BY Zenon, <1>1, <1>2 DEF ReportsComplete
      <3>2. job.version = status.version
        BY Zenon, <1>1, <2>1, <3>1 DEF ReportsComplete, JobSound, VersionsGrow
      <3> QED
        BY Zenon, <1>1, <1>2, <1>5, <2>1, <3>1, <3>2 DEF Reported, IsWhole
    <2> QED
      BY Zenon, <2>3, <2>4, <2>5 DEF Sound
  <1> QED
    BY Zenon, <1>6, <1>7, <1>8, <1>9 DEF Kept, Base

(* A write that does not go through cuts short the Sync's loop, no more.   *)
LEMMA AbortKeeps ==
  ASSUME IInv, job.running, Abort,
         UNCHANGED <<strategy, healthy, signs, templates, percent, shards, status>>
  PROVE  Kept
  <1>1. /\ Replicas' = Replicas /\ generation' = generation
        /\ NoReturn' <=> NoReturn
        /\ ShardGroupVersion' = ShardGroupVersion
    BY Zenon, SpecKept
  <1> DEFINE plans == [s \in DOMAIN job.plans \ Range(Tail(job.todo)) |-> job.plans[s]]
  <1>2. /\ job'.running /\ DOMAIN job' = DOMAIN job
        /\ job'.todo = <<>> /\ job'.plans = plans
        /\ \A f \in DOMAIN job \ {"todo", "plans"} : job'[f] = job[f]
    BY Zenon DEF Abort, IInv, Base, JobTyped
  <1>3. Typed' /\ Honest'
    BY Zenon, <1>1 DEF Typed, Honest, IInv, Base
  <1>4. JobTyped'
    BY <1>1, <1>2 DEF JobTyped, IInv, Base, IsInjective
  <1>5. ASSUME NoReturn' PROVE Sound'
    <2>1. VersionsGrow /\ JobSound /\ Reported
      BY Zenon, <1>1, <1>5 DEF IInv, Sound
    <2>2. VersionsGrow'
      BY Zenon, <1>1, <2>1 DEF VersionsGrow
    <2>3. JobSound'
      <3> HIDE DEF plans
      <3> QED  BY Zenon, <1>1, <1>2, <2>1 DEF JobSound, IsWhole, IInv, Base, JobTyped
    <2>4. Reported'
      BY Zenon, <1>1, <2>1 DEF Reported, ReportsComplete, IsWhole
    <2> QED
      BY Zenon, <2>2, <2>3, <2>4 DEF Sound
  <1> QED
    BY Zenon, <1>3, <1>4, <1>5 DEF Kept, Base

(* A Sync that ends early has said nothing.                                *)
LEMMA CrashKeeps ==
  ASSUME IInv, Crash
  PROVE  Kept
  <1>1. UNCHANGED <<strategy, healthy, signs, templates, percent, shards, status>> /\ job' = NoJob
    BY Zenon DEF Crash
  <1>2. /\ Replicas' = Replicas /\ generation' = generation
        /\ NoReturn' <=> NoReturn
        /\ ShardGroupVersion' = ShardGroupVersion
    BY Zenon, <1>1, SpecKept
  <1>3. Typed' /\ Honest' /\ JobTyped'
    BY Zenon, <1>1, <1>2 DEF Typed, Honest, JobTyped, NoJob, IInv, Base
  <1>4. ASSUME NoReturn' PROVE Sound'
    BY Zenon, <1>1, <1>2, <1>4 DEF IInv, Sound, VersionsGrow, JobSound, NoJob, Reported, ReportsComplete, IsWhole
  <1> QED
    BY Zenon, <1>3, <1>4 DEF Kept, Base

(* Whatever the group's schedulers compute, a plan is for all replicas.    *)
LEMMA PlansAreForAll ==
  /\ DOMAIN GroupSchedule = templates
  /\ \A s \in templates : GroupSchedule[s].replicas = Replicas
  <1> DEFINE plan(m, s) == Strategy(Replicas, fixLatestVersionRatio(s, Int32Min(m.target, 100)),
                                    m.padded, m.hold, "")
             carry(p) == IF ParseScheduleStrategy(p).maxUnavailable = 0 THEN "Ceil" ELSE ""
             Plans(m) == [s \in templates |-> [plan(m, s) EXCEPT !.carry = carry(plan(m, s))]]
  <1>1. \E m : GroupSchedule = Plans(m)
    BY Zenon DEF GroupSchedule, With
  <1>2. PICK m : GroupSchedule = Plans(m)
    BY <1>1, Zenon
  <1>3. \A s \in templates : Plans(m)[s] = [plan(m, s) EXCEPT !.carry = carry(plan(m, s))]
    BY Zenon
  <1>4. \A s \in templates : plan(m, s).replicas = Replicas /\ "replicas" \in DOMAIN plan(m, s)
    BY Zenon DEF Strategy
  <1> HIDE DEF plan, carry
  <1> QED
    BY Zenon, <1>2, <1>3, <1>4

(* The order of the writes.                                                *)
LEMMA OrderOfWrites ==
  ASSUME NEW S, IsFiniteSet(S), NEW order \in SetToSeqs(S)
  PROVE  order \in Seq(S) /\ IsInjective(order)
  <1>1. Cardinality(S) \in Nat
    BY Zenon, FS_CardinalityType
  <1> QED
    BY <1>1 DEF SetToSeqs

(* What the Sync begins with.  A shard that says it is full is at the      *)
(* group's version, so it is whole.                                        *)
LEMMA StartSyncKeeps ==
  ASSUME IInv, StartSync
  PROVE  Kept
  <1>1. UNCHANGED <<strategy, healthy, signs, templates, percent, shards, status, budget>>
    BY Zenon DEF StartSync
  <1>2. /\ Replicas' = Replicas /\ generation' = generation
        /\ NoReturn' <=> NoReturn
        /\ ShardGroupVersion' = ShardGroupVersion
    BY Zenon, <1>1, SpecKept
  <1>3. generation \in Nat \ {0} /\ ShardGroupVersion \in 1 .. generation
    BY Zenon, GroupVersion DEF IInv, Base
  <1>4. PICK plans, todo :
          /\ job' = Job(plans, todo)
          /\ todo \in Seq(DOMAIN plans) /\ IsInjective(todo)
          /\ \A s \in DOMAIN plans : plans[s].replicas = Replicas
    <2>0. IsFiniteSet(templates)
      BY Zenon, NamesAssumption, FS_Subset DEF IInv, Base, Typed
    <2>1. CASE CreateShards
      <3> DEFINE missing == templates \ DOMAIN shards
                 plan == Strategy(Replicas, percent, 0, EmptyMap, "")
      <3>1. PICK order \in SetToSeqs(missing) : job' = Job([s \in missing |-> plan], order)
        BY <2>1, Zenon DEF CreateShards
      <3>2. plan.replicas = Replicas
        BY Zenon DEF Strategy
      <3>3. IsFiniteSet(missing)
        BY Zenon, <2>0, FS_Subset
      <3> HIDE DEF missing, plan
      <3>4. order \in Seq(missing) /\ IsInjective(order)
        BY Zenon, <3>3, OrderOfWrites
      <3> DEFINE plans == [s \in missing |-> plan]
      <3>5. DOMAIN plans = missing /\ \A s \in missing : plans[s].replicas = Replicas
        BY Zenon, <3>2
      <3> HIDE DEF plans
      <3> QED  BY Zenon, <3>1, <3>4, <3>5 DEF plans
    <2>2. CASE ScheduleShards
      <3> DEFINE S == {s \in templates : needUpdate(s, GroupSchedule)}
      <3>1. PICK order \in SetToSeqs(S) : job' = Job(GroupSchedule, order)
        BY Zenon, <2>2 DEF ScheduleShards
      <3>2. IsFiniteSet(S) /\ S \subseteq templates
        BY Zenon, <2>0, FS_Subset
      <3> HIDE DEF S
      <3>3. order \in Seq(S) /\ IsInjective(order)
        BY Zenon, <3>2, OrderOfWrites
      <3>4. order \in Seq(templates)
        BY <3>2, <3>3
      <3> QED  BY Zenon, <3>1, <3>3, <3>4, PlansAreForAll
    <2> QED
      BY Zenon, <2>1, <2>2 DEF StartSync
  <1>5. /\ DOMAIN job' = {"running", "generation", "version", "templates", "percent", "existing",
                          "full", "plans", "todo", "stale"}
        /\ job'.running /\ job'.generation = generation /\ job'.version = ShardGroupVersion
        /\ job'.templates = templates /\ job'.existing = DOMAIN shards /\ job'.full = Full
        /\ job'.plans = plans /\ job'.todo = todo
    BY Zenon, <1>4 DEF Job
  <1>6. Typed' /\ Honest'
    BY Zenon, <1>1, <1>2 DEF Typed, Honest, IInv, Base
  <1>7. JobTyped'
    <2>1. generation \in 1 .. generation
      BY <1>3
    <2> QED
      BY Zenon, <1>1, <1>2, <1>3, <1>4, <1>5, <2>1 DEF JobTyped
  <1>8. ASSUME NoReturn' PROVE Sound'
    <2>1. VersionsGrow /\ Reported
      BY Zenon, <1>2, <1>8 DEF IInv, Sound
    <2>2. VersionsGrow'
      BY Zenon, <1>1, <1>2, <2>1 DEF VersionsGrow
    <2>3. \A s \in Full : s \in DOMAIN shards /\ shards[s].version = ShardGroupVersion
      <3> SUFFICES ASSUME NEW s \in Full
                   PROVE  s \in DOMAIN shards /\ shards[s].version = ShardGroupVersion
        BY Zenon
      <3>1. s \in DOMAIN shards /\ shards[s].own = ShardGroupVersion
        BY Zenon DEF Full
      <3>2. /\ shards[s].own <= shards[s].version /\ shards[s].version <= ShardGroupVersion
            /\ shards[s].version \in Nat
        BY Zenon, <2>1, <3>1 DEF VersionsGrow, IInv, Base, Typed
      <3> QED
        BY <1>3, <3>1, <3>2
    <2>4. healthy => \A s \in Full : shards[s].nodes = Whole(Replicas, ShardGroupVersion)
      BY Zenon DEF Full, AllReady, Counts, Honest, IInv, Base
    <2>5. ShardGroupVersion <= ShardGroupVersion
      BY <1>3
    <2>6. JobSound'
      BY Zenon, <1>1, <1>2, <1>5, <2>1, <2>3, <2>4, <2>5 DEF JobSound, VersionsGrow, IsWhole
    <2>7. Reported'
      BY Zenon, <1>1, <1>2, <1>8, <2>1 DEF Reported, ReportsComplete, IsWhole
    <2> QED
      BY Zenon, <2>2, <2>6, <2>7 DEF Sound
  <1> QED
    BY Zenon, <1>6, <1>7, <1>8 DEF Kept, Base

(* The end of the Sync: which shards go, and what the status becomes.      *)
Unused == job.existing \ job.templates
ReadyShards == {s \in job.existing \cap job.templates : IsComplete(s)}

(* What the end of a Sync changes.                                         *)
LEMMA UpdateStatusEffect ==
  ASSUME UpdateStatus
  PROVE  /\ job.running /\ ~ job'.running
         /\ UNCHANGED <<strategy, healthy, signs, templates>>
         /\ DOMAIN shards' = DOMAIN shards \ Deletable(Unused, ReadyShards)
         /\ \A s \in DOMAIN shards' : shards'[s] = shards[s]
         /\ \/ status' = status
            \/ /\ job.generation = generation
               /\ status'.version = job.version /\ status'.observed = job.generation
               /\ status'.complete = (ReadyShards = job.templates)
  <1> DEFINE complete == ReadyShards = job.templates
             rolling == \E s \in job.existing : ~ IsComplete(s)
             new == [version |-> job.version, complete |-> complete,
                     phase |-> IF rolling THEN "Rolling" ELSE "Running",
                     names |-> job.existing \ Unused, observed |-> job.generation,
                     once |-> IF complete THEN ReadyShards ELSE status.once]
             same == [new EXCEPT !.once = status.once, !.observed = status.observed] = status
  <1>1. /\ shards' = [s \in DOMAIN shards \ Deletable(Unused, ReadyShards) |-> shards[s]]
        /\ status' = IF same \/ job.generation # generation THEN status ELSE new
    BY Zenon DEF UpdateStatus, Unused, ReadyShards
  <1>2. new.version = job.version /\ new.observed = job.generation /\ new.complete = complete
    BY Zenon
  <1> HIDE DEF new, same
  <1>3. \/ status' = status
        \/ job.generation = generation /\ status' = new
    BY Zenon, <1>1
  <1>4. job.running /\ ~ job'.running /\ UNCHANGED <<strategy, healthy, signs, templates>>
    BY Zenon DEF UpdateStatus, NoJob
  <1> QED
    BY Zenon, <1>1, <1>2, <1>3, <1>4

(* A shard goes only if the spec of the Sync does not name it.             *)
LEMMA NamedAreKept ==
  Deletable(Unused, ReadyShards) \cap job.templates = {}
  BY Zenon DEF Deletable, Unused

(* A status is written for the current generation or not at all, and says  *)
(* complete only if the Sync has found all shards of the spec full.        *)
LEMMA UpdateStatusKeeps ==
  ASSUME IInv, UpdateStatus
  PROVE  Kept
  <1> DEFINE gone == Deletable(Unused, ReadyShards)
  <1>1. /\ job.running /\ ~ job'.running
        /\ UNCHANGED <<strategy, healthy, signs, templates>>
        /\ DOMAIN shards' = DOMAIN shards \ gone
        /\ \A s \in DOMAIN shards' : shards'[s] = shards[s]
        /\ \/ status' = status
           \/ /\ job.generation = generation
              /\ status'.version = job.version /\ status'.observed = job.generation
              /\ status'.complete = (ReadyShards = job.templates)
    BY Zenon, UpdateStatusEffect
  <1>2. /\ Replicas' = Replicas /\ generation' = generation
        /\ NoReturn' <=> NoReturn
        /\ status' = status => ShardGroupVersion' = ShardGroupVersion
    BY Zenon, <1>1, SpecKept
  <1>3. /\ generation \in Nat \ {0} /\ ShardGroupVersion \in 1 .. generation
        /\ signs[ShardGroupVersion] = signs[generation]
    BY Zenon, GroupVersion DEF IInv, Base
  <1>4. gone \cap job.templates = {}
    BY Zenon, NamedAreKept
  <1> HIDE DEF gone
  <1>5. Typed'
    BY <1>1, <1>2, <1>3 DEF Typed, JobTyped, IInv, Base
  <1>6. JobTyped' /\ Honest'
    BY Zenon, <1>1, <1>2 DEF JobTyped, Honest, IInv, Base
  <1>7. ASSUME NoReturn' PROVE Sound'
    <2>1. VersionsGrow /\ JobSound /\ Reported
      BY Zenon, <1>2, <1>7 DEF IInv, Sound
    <2>2. ShardGroupVersion' = ShardGroupVersion
      <3>1. CASE status'.version = job.version /\ job.generation = generation
        <4>1. status'.version = ShardGroupVersion
          BY Zenon, <1>1, <2>1, <3>1 DEF JobSound
        <4> QED
          BY Zenon, <1>1, <1>2, <1>3, <4>1 DEF ShardGroupVersion
      <3> QED
        BY Zenon, <1>1, <1>2, <3>1
    <2>3. job.version = ShardGroupVersion => gone \cap templates = {}
      BY Zenon, <1>1, <1>4, <2>1 DEF JobSound
    <2>4. VersionsGrow'
      <3>1. status'.observed = generation => status'.version = ShardGroupVersion
        BY Zenon, <1>1, <2>1 DEF VersionsGrow, JobSound
      <3> QED
        BY Zenon, <1>1, <1>2, <2>1, <2>2, <3>1 DEF VersionsGrow
    <2>5. JobSound'
      BY Zenon, <1>1 DEF JobSound
    <2>6. Reported'
      <3> SUFFICES ASSUME ReportsComplete' PROVE \A s \in templates : IsWhole(s, status.version)'
        BY Zenon, <1>1 DEF Reported
      <3>1. status'.complete /\ status'.observed = generation /\ healthy
        BY Zenon, <1>1, <1>2 DEF ReportsComplete
      <3>2. job.generation = generation
        BY <1>1, <2>1, <3>1, Zenon DEF JobSound
      <3>3. job.version = ShardGroupVersion /\ job.templates = templates
        BY Zenon, <1>1, <2>1, <3>2 DEF JobSound
      <3>4. \A s \in templates : IsWhole(s, status'.version)
        <4>1. CASE status' = status
          BY Zenon, <1>2, <1>7, <2>1, <3>1, <4>1 DEF Reported, ReportsComplete
        <4>2. CASE status'.version = job.version /\ status'.complete = (ReadyShards = job.templates)
          <5>1. ReadyShards = templates
            BY Zenon, <3>1, <3>3, <4>2
          <5>2. templates \subseteq job.full
            BY Zenon, <5>1 DEF ReadyShards, IsComplete
          <5> QED
            BY Zenon, <1>1, <2>1, <3>1, <4>2, <5>2 DEF JobSound
        <4> QED
          BY Zenon, <1>1, <4>1, <4>2
      <3> QED
        BY Zenon, <1>1, <1>2, <2>3, <3>3, <3>4 DEF IsWhole
    <2> QED
      BY Zenon, <2>4, <2>5, <2>6 DEF Sound
  <1> QED
    BY Zenon, <1>5, <1>6, <1>7 DEF Kept, Base

(* A new generation keeps the version with the sign, or gets its own, which *)
(* no shard has: an owner that does not go back writes no old sign.        *)
LEMMA NewVersion ==
  ASSUME Typed, NEW x \in Signs, signs' = Append(signs, x), status' = status
  PROVE  /\ generation' = generation + 1
         /\ signs' \in Seq(Signs)
         /\ NoReturn' => /\ NoReturn
                         /\ \/ ShardGroupVersion' = ShardGroupVersion /\ x = signs[generation]
                            \/ ShardGroupVersion' = generation + 1
  <1>1. generation \in Nat \ {0} /\ signs \in Seq(Signs) /\ status.version \in 0 .. generation
    BY DEF Typed, generation
  <1>2. generation' = generation + 1 /\ signs' \in Seq(Signs)
    BY <1>1 DEF generation
  <1>3. signs'[generation + 1] = x /\ \A k \in 1 .. generation : signs'[k] = signs[k]
    BY <1>1 DEF generation
  <1>4. ASSUME NoReturn' PROVE NoReturn
    <2>1. \A h \in 1 .. (generation + 1) : \A g \in 1 .. h : signs'[g] = signs'[h] =>
            \A k \in g .. h : signs'[k] = signs'[h]
      BY <1>2, <1>4, Zenon DEF NoReturn
    <2> SUFFICES ASSUME NEW h \in 1 .. generation, NEW g \in 1 .. h, signs[g] = signs[h],
                        NEW k \in g .. h
                 PROVE  signs[k] = signs[h]
      BY Zenon DEF NoReturn
    <2>2. h \in 1 .. (generation + 1) /\ g \in 1 .. generation /\ k \in 1 .. generation
      BY <1>1
    <2>3. signs'[g] = signs'[h]
      BY <1>3, <2>2, Zenon
    <2>4. signs'[k] = signs'[h]
      BY <2>1, <2>2, <2>3, Zenon
    <2> QED
      BY <1>3, <2>2, <2>4, Zenon
  <1>5. ASSUME NoReturn'
        PROVE  \/ ShardGroupVersion' = ShardGroupVersion /\ x = signs[generation]
               \/ ShardGroupVersion' = generation + 1
    <2>1. CASE status.version # 0 /\ signs[status.version] = x
      <3>1. status.version \in 1 .. generation
        BY <1>1, <2>1
      <3>2. signs'[status.version] = signs'[generation + 1]
        BY <1>3, <2>1, <3>1, Zenon
      <3>3. \A k \in status.version .. (generation + 1) : signs'[k] = signs'[generation + 1]
        <4>1. \A h \in 1 .. (generation + 1) : \A g \in 1 .. h : signs'[g] = signs'[h] =>
                \A k \in g .. h : signs'[k] = signs'[h]
          BY <1>2, <1>5, Zenon DEF NoReturn
        <4>2. generation + 1 \in 1 .. (generation + 1) /\ status.version \in 1 .. (generation + 1)
          BY <1>1, <3>1
        <4> QED
          BY <3>2, <4>1, <4>2, Zenon
      <3>4. generation \in status.version .. (generation + 1) /\ generation \in 1 .. generation
        BY <1>1, <3>1
      <3>5. x = signs[generation]
        BY <1>3, <3>3, <3>4, Zenon
      <3>6. ShardGroupVersion = status.version
        BY Zenon, <2>1, <3>5 DEF ShardGroupVersion
      <3>7. ShardGroupVersion' = status.version
        BY Zenon, <1>2, <1>3, <2>1, <3>2 DEF ShardGroupVersion
      <3> QED
        BY Zenon, <3>5, <3>6, <3>7
    <2>2. CASE ~ (status.version # 0 /\ signs[status.version] = x)
      <3>1. ~ (status.version # 0 /\ signs'[status.version] = x)
        <4>1. status.version # 0 => status.version \in 1 .. generation
          BY <1>1
        <4> QED  BY <1>3, <2>2, <4>1, Zenon
      <3> QED
        BY <1>2, <1>3, <3>1, Zenon DEF ShardGroupVersion
    <2> QED
      BY Zenon, <2>1, <2>2
  <1> QED
    BY Zenon, <1>2, <1>4, <1>5

(* A new spec has not been observed, and a Sync that runs is for an older  *)
(* one: nothing that is claimed is claimed of it.                          *)
LEMMA OwnerKeeps ==
  ASSUME IInv, NEW x \in Signs, signs' = Append(signs, x), templates' \subseteq Shards,
         templates' = templates \/ x # signs[generation],
         UNCHANGED <<strategy, healthy, shards, status, job>>
  PROVE  Kept
  <1>1. /\ generation' = generation + 1
        /\ signs' \in Seq(Signs)
        /\ NoReturn' => /\ NoReturn
                        /\ \/ ShardGroupVersion' = ShardGroupVersion /\ x = signs[generation]
                           \/ ShardGroupVersion' = generation + 1
    BY Zenon, NewVersion DEF IInv, Base
  <1>2. generation \in Nat \ {0} /\ ShardGroupVersion \in 1 .. generation
    BY Zenon, GroupVersion DEF IInv, Base
  <1>3. Replicas' = Replicas
    BY Zenon DEF Replicas
  <1>4. Typed'
    BY <1>1, <1>2, <1>3 DEF Typed, IInv, Base
  <1>5. JobTyped' /\ Honest'
    BY <1>1, <1>2, <1>3 DEF JobTyped, Honest, IInv, Base
  <1>6. ASSUME NoReturn' PROVE Sound'
    <2>1. VersionsGrow /\ JobSound
      BY Zenon, <1>1, <1>6 DEF IInv, Sound
    <2>2. \/ ShardGroupVersion' = ShardGroupVersion /\ templates' = templates
          \/ ShardGroupVersion' = generation + 1
      BY Zenon, <1>1, <1>6
    <2>3. /\ status.observed # generation'
          /\ job.running => job.version \in 1 .. generation /\ job.generation # generation'
          /\ \A s \in DOMAIN shards : shards[s].version \in Nat
      BY <1>1, <1>2 DEF IInv, Base, Typed, JobTyped
    <2>4. VersionsGrow'
      BY <1>2, <2>1, <2>2, <2>3 DEF VersionsGrow
    <2>5. JobSound'
      BY <1>2, <1>3, <2>1, <2>2, <2>3 DEF JobSound, IsWhole
    <2>6. Reported'
      BY Zenon, <2>3 DEF Reported, ReportsComplete
    <2> QED
      BY Zenon, <2>4, <2>5, <2>6 DEF Sound
  <1> QED
    BY Zenon, <1>4, <1>5, <1>6 DEF Kept, Base

-----------------------------------------------------------------------------
(* The invariant holds in a new group, and in a group that has settled.    *)
LEMMA InitOK ==
  Init => IInv
  <1> SUFFICES ASSUME Init PROVE IInv
    BY Zenon
  <1>1. Replicas \in Nat \ {0}
    BY SettingsAssumption, Zenon DEF Init, Replicas
  <1>2. signs \in Seq(Signs) /\ generation = 1
    <2> DEFINE x == CHOOSE x \in Signs : TRUE
    <2>1. x \in Signs
      BY Zenon, NamesAssumption
    <2>2. signs = <<x>>
      BY Zenon DEF Init
    <2> HIDE DEF x
    <2> QED
      BY <2>1, <2>2 DEF generation
  <1>3. templates \subseteq Shards /\ healthy = TRUE /\ ~ job.running
    BY SettingsAssumption, Zenon DEF Init, NoJob
  <1>4. CASE Settled(templates)
    <2>1. /\ DOMAIN shards = templates
          /\ \A s \in templates :
               /\ DOMAIN shards[s] = {"nodes", "version", "own", "seen", "cached", "plan"}
               /\ shards[s].version = 1 /\ shards[s].own = 1
               /\ shards[s].nodes = Whole(Replicas, 1) /\ shards[s].plan.replicas = Replicas
      BY <1>4, Zenon DEF Settled, Whole, Strategy
    <2>2. status.version = 1 /\ status.observed = 1
      BY <1>4, Zenon DEF Settled
    <2>3. ShardGroupVersion = 1
      BY Zenon, <1>2, <2>2 DEF ShardGroupVersion
    <2>4. Base
      BY <1>1, <1>2, <1>3, <2>1, <2>2 DEF Base, Typed, JobTyped, Honest
    <2>5. Sound
      BY <1>2, <1>3, <2>1, <2>2, <2>3 DEF Sound, VersionsGrow, JobSound, Reported, IsWhole
    <2> QED
      BY Zenon, <2>4, <2>5 DEF IInv
  <1>5. CASE Fresh
    <2>1. DOMAIN shards = {} /\ status.version = 0 /\ status.observed = 0 /\ ~ status.complete
      BY <1>5, Zenon DEF Fresh, EmptyMap
    <2>2. Base
      BY <1>1, <1>2, <1>3, <2>1 DEF Base, Typed, JobTyped, Honest
    <2>3. Sound
      BY <1>2, <1>3, <2>1 DEF Sound, VersionsGrow, JobSound, Reported, ReportsComplete
    <2> QED
      BY Zenon, <2>2, <2>3 DEF IInv
  <1> QED
    BY <1>4, <1>5, Zenon DEF Init

(* Every step keeps the invariant, if it finds proper nodes.               *)
LEMMA NextKeeps ==
  IInv /\ NodesTyped /\ [Next]_vars => IInv'
  <1> SUFFICES ASSUME IInv, NodesTyped, [Next]_vars PROVE Kept
    BY Zenon DEF Kept, IInv
  <1>1. CASE StartSync
    BY Zenon, <1>1, StartSyncKeeps
  <1>2. CASE CreateShard \/ WritePlan
    BY Zenon, <1>2, CreateShardKeeps, WritePlanKeeps
  <1>3. CASE WriteConflict \/ WriteFails
    BY Zenon, <1>3, AbortKeeps DEF WriteConflict, WriteFails
  <1>4. CASE UpdateStatus
    BY Zenon, <1>4, UpdateStatusKeeps
  <1>5. CASE Crash
    BY Zenon, <1>5, CrashKeeps
  <1>6. CASE \E s \in Shards : SyncShard(s) \/ Progress(s) \/ Fail(s) \/ Observe(s)
    BY Zenon, <1>6, SyncShardKeeps, ProgressKeeps, FailKeeps, ObserveKeeps
  <1>7. CASE NewSpec
    <2>1. PICK x \in Signs : signs' = Append(signs, x)
      <3>1. signs[generation] \in Signs
        BY DEF IInv, Base, Typed, generation
      <3> QED  BY Zenon, <1>7, <3>1 DEF NewSpec
    <2>2. UNCHANGED <<strategy, healthy, templates, shards, status, job>>
      BY Zenon, <1>7 DEF NewSpec
    <2>3. templates' \subseteq Shards
      BY Zenon, <2>2 DEF IInv, Base, Typed
    <2> QED
      BY Zenon, <2>1, <2>2, <2>3, OwnerKeeps
  <1>8. CASE Reshard
    <2>1. PICK x \in Signs \ {signs[generation]} : signs' = Append(signs, x)
      BY Zenon, <1>8 DEF Reshard
    <2>2. UNCHANGED <<strategy, healthy, shards, status, job>> /\ templates' \subseteq Shards
      BY Zenon, <1>8 DEF Reshard
    <2> QED
      BY Zenon, <2>1, <2>2, OwnerKeeps
  <1>9. CASE UNCHANGED vars
    <2>1. IInv'
      BY Zenon, <1>9 DEF vars, IInv, Base, Typed, JobTyped, Honest, Sound, VersionsGrow, JobSound, Reported,
                  ReportsComplete, NoReturn, IsWhole, Replicas, generation, ShardGroupVersion
    <2> QED
      BY Zenon, <2>1 DEF Kept, IInv
  <1> QED
    BY Zenon, <1>1, <1>2, <1>3, <1>4, <1>5, <1>6, <1>7, <1>8, <1>9 DEF Next

(* A whole shard serves.                                                   *)
LEMMA WholeServes ==
  ASSUME Typed, NEW s, NEW v, IsWhole(s, v)
  PROVE  Serves(s, v)
  <1>1. DOMAIN shards[s].nodes = 1 .. Replicas /\
        \A i \in 1 .. Replicas : shards[s].nodes[i] = [version |-> v, phase |-> "ready"]
    BY Zenon DEF IsWhole, Whole
  <1>2. {i \in DOMAIN shards[s].nodes : shards[s].nodes[i] = [version |-> v, phase |-> "ready"]} =
          1 .. Replicas
    BY Zenon, <1>1
  <1>3. Cardinality(1 .. Replicas) = Replicas
    BY FS_Interval DEF Typed
  <1>4. Ready(shards, s, v) = Replicas
    BY <1>2, <1>3, Zenon DEF Ready
  <1> QED
    BY Zenon, <1>4 DEF Serves, IsWhole

(* Status.Complete can be believed: a group that says so of its current     *)
(* spec has, in every shard the spec names, all nodes in service at the    *)
(* version of the spec, however its Sync, the Syncs of the shards, failed  *)
(* writes and creations, crashes, a late cache and the owner's next specs  *)
(* interleave, as long as no node fails and the owner does not go back.    *)
(* The nodes of a shard being a finite sequence is taken from TypeOK: what *)
(* the scheduler's loops return is beyond this proof.                      *)
THEOREM CompleteCanBeBelieved ==
  SafetySpec /\ []NodesTyped => []CompleteIsTrue
  <1>1. IInv => CompleteIsTrue
    BY Zenon, WholeServes DEF IInv, Base, Sound, Reported, CompleteIsTrue, ReportsComplete
  <1> QED
    BY <1>1, InitOK, NextKeeps, PTL DEF SafetySpec

(* Only the end of a Sync removes a shard, and only when it found every     *)
(* other shard complete: by JobSound they are whole.                       *)
LEMMA DropStep ==
  ASSUME IInv, [Next]_vars, Drops, NEW s \in DOMAIN shards \ DOMAIN shards'
  PROVE  \A t \in job.templates : Serves(t, job.version)
  <1>1. UpdateStatus
    <2>1. CASE StartSync
      BY <2>1, Zenon DEF StartSync
    <2>2. CASE CreateShard \/ WritePlan
      BY Zenon, <2>2 DEF CreateShard, WritePlan
    <2>3. CASE \E r \in Shards : SyncShard(r) \/ Progress(r) \/ Fail(r) \/ Observe(r)
      <3>1. PICK r \in Shards : SyncShard(r) \/ Progress(r) \/ Fail(r) \/ Observe(r)
        BY Zenon, <2>3
      <3>2. CASE SyncShard(r)
        <4>1. \E x, y, z : shards' = [shards EXCEPT ![r].nodes = x, ![r].own = y, ![r].seen = z]
          BY <3>2, Zenon DEF SyncShard
        <4> QED  BY Zenon, <4>1
      <3>3. CASE Progress(r) \/ Fail(r)
        <4>1. \E x : shards' = [shards EXCEPT ![r].nodes = x]
          BY Zenon, <3>3 DEF Progress, Fail
        <4> QED  BY Zenon, <4>1
      <3>4. CASE Observe(r)
        BY Zenon, <3>4 DEF Observe
      <3> QED  BY Zenon, <3>1, <3>2, <3>3, <3>4
    <2> QED
      BY Zenon, <2>1, <2>2, <2>3 DEF Next, vars, WriteConflict, WriteFails, Crash, NewSpec, Reshard
  <1>2. s \in Deletable(Unused, ReadyShards)
    BY Zenon, <1>1, UpdateStatusEffect
  <1>3. ReadyShards = job.existing \cap job.templates
    BY Zenon, <1>2 DEF Deletable, Unused
  <1>4. JobSound /\ job.running /\ healthy /\ Typed
    BY Zenon DEF Drops, IInv, Base, Sound
  <1>5. job.templates \subseteq job.full
    BY Zenon, <1>3 DEF Drops, ReadyShards, IsComplete
  <1>6. \A t \in job.templates : IsWhole(t, job.version)
    BY Zenon, <1>4, <1>5 DEF JobSound
  <1> QED
    BY Zenon, <1>4, <1>6, WholeServes

(* deleteUnusedRollingSet: a Sync that has found all shards of the spec     *)
(* there removes a shard that the spec drops only when all of them serve,  *)
(* however late the group's cache of nodes is and whatever is written or   *)
(* synced while it runs.  As above, for finite sequences of nodes.         *)
THEOREM NothingDropsEarly ==
  SafetySpec /\ []NodesTyped => DropAfterComplete
  <1>1. IInv /\ [Next]_vars =>
          [Drops => \A s \in DOMAIN shards \ DOMAIN shards' :
                      \A t \in job.templates : Serves(t, job.version)]_vars
    BY Zenon, DropStep
  <1> QED
    BY <1>1, InitOK, NextKeeps, PTL DEF SafetySpec, DropAfterComplete
=============================================================================
