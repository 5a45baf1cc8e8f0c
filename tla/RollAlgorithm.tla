--------------------------- MODULE RollAlgorithm ---------------------------
(***************************************************************************)
(* The arithmetic of pkg/rollalgorithm: how many nodes of each version one *)
(* shard (a rolling set) should have next, and which percentages a group   *)
(* of shards must hold.  Everything here is a pure function of a status    *)
(* and a plan; the modules RollingSet and ShardGroup run it.               *)
(*                                                                         *)
(* Versions are natural numbers: the generation that prefixes a version    *)
(* string, by which the code orders them.  A Go map is a function whose    *)
(* domain is the map's key set, At reads a missing key as zero, and the    *)
(* TLC operator @@ assigns keys.  A float64 percentage, which the code     *)
(* rounds to six digits (floatRound), is an integer number of              *)
(* 1/1000000 percents.                                                     *)
(*                                                                         *)
(* A status is a map from version to [replicas, ready]; a shard is         *)
(* [replicas, status]; a plan is a record with the fields of SchedulePlan: *)
(* replicas, maxUnavailable, maxSurge, ratio, padded, hold, carry,         *)
(* strategy.  A maxUnavailable or maxSurge (IntOrString) is [pct, val].    *)
(***************************************************************************)
EXTENDS Integers, FiniteSets, Sequences, FiniteSetsExt, Folds, Functions, TLC

\* What is needed of SequencesExt.  That module extends Bags, whose local
\* instances the proof system carries into each step of the proofs.
FoldLeft(op(_, _), base, seq) ==
  MapThenFoldSet(LAMBDA k, acc : op(acc, seq[k]), base,
                 LAMBDA k : k, LAMBDA S : Max(S), DOMAIN seq)
Reverse(seq) == [k \in DOMAIN seq |-> seq[Len(seq) + 1 - k]]
SetToSeqs(S) == {f \in [1 .. Cardinality(S) -> S] : IsInjective(f)}
SetToSeq(S) == CHOOSE f \in [1 .. Cardinality(S) -> S] : IsInjective(f)

\* One percent, and a hundred of them, in units of floatRound's last digit.
Percent == 1000000
Hundred == 100 * Percent

At(m, k) == IF k \in DOMAIN m THEN m[k] ELSE 0

EmptyMap == [k \in {} |-> 0]

\* Body(e), where e is evaluated once: TLC evaluates a LET definition anew at
\* each of its uses in an invariant or an ENABLED test.
With(e, Body(_)) == CHOOSE r \in {Body(x) : x \in {e}} : TRUE

\* The elements of S by rank, for a strict total order.
SortBy(S, less(_, _)) ==
  [k \in 1 .. Cardinality(S) |-> CHOOSE x \in S : Cardinality({y \in S : less(y, x)}) = k - 1]

Total(m) == MapThenSumSet(LAMBDA k : m[k], DOMAIN m)

Int32Min(a, b) == IF a < b THEN a ELSE b
Int32Max(a, b) == IF a > b THEN a ELSE b

CeilDiv(a, b) == -((-a) \div b)

\* floatRound(n * 100 / d), for d > 0.
floatRound(n, d) == (n * Hundred + d \div 2) \div d

---------------------------------------------------------------------------
(* util.go *)

GetValueFromIntOrPercent(x, total, roundUp) ==
  CASE ~ x.pct -> x.val
    [] x.pct /\ roundUp -> CeilDiv(x.val * total, 100)
    [] x.pct /\ ~ roundUp -> (x.val * total) \div 100

ResolveFenceposts(maxSurge, maxUnavailable, desired) ==
  LET surge == GetValueFromIntOrPercent(maxSurge, desired, TRUE)
      unavailable == GetValueFromIntOrPercent(maxUnavailable, desired, FALSE)
  IN  [surge |-> IF surge = 0 /\ unavailable = 0 THEN 1 ELSE surge,
       unavailable |-> unavailable]

ParseScheduleStrategy(plan) ==
  LET count == ResolveFenceposts(plan.maxSurge, plan.maxUnavailable, plan.replicas)
      percent == ResolveFenceposts(plan.maxSurge, plan.maxUnavailable, 100)
      unavailable == Int32Min(count.unavailable, plan.replicas)
  IN  IF plan.replicas = 0
        THEN [maxSurge |-> 0, maxUnavailable |-> 0, minAvailable |-> 0,
              maxSurgePercent |-> 0, maxUnavailablePercent |-> 0]
        ELSE [maxSurge |-> count.surge,
              maxUnavailable |-> unavailable,
              minAvailable |-> plan.replicas - unavailable,
              maxSurgePercent |-> percent.surge,
              maxUnavailablePercent |-> Int32Min(percent.unavailable, 100)]

ComputeLatestReplicas(ratio, replicas, carry) ==
  LET floor == (replicas * ratio) \div 100
  IN  IF carry = "Floor"
        THEN IF floor = 0 /\ ratio > 0 THEN 1 ELSE floor
        ELSE CeilDiv(replicas * ratio, 100)

---------------------------------------------------------------------------
(* hold_matrix.go: the order in which versions give way *)

\* maxUnavailableOldFirstStrategy: beyond it old-first degrades.
maxUnavailableOldFirst == 30

getRollingStrategy(strategy, available, maxUnavailable) ==
  LET short == Total(available) < Hundred - (maxUnavailable + 1) * Percent
  IN  CASE strategy = "oldFirst" /\ (short \/ maxUnavailable > maxUnavailableOldFirst)
             -> "latestFirst"
        [] strategy = "" -> "lessFirst"
        [] OTHER -> strategy

ByGeneration(latest, a, b) == a # latest /\ (b = latest \/ a < b)

ByAvailable(latest, available, a, b) ==
  /\ a # latest
  /\ \/ b = latest
     \/ At(available, a) > At(available, b)
     \/ At(available, a) = At(available, b) /\ a < b

sortVersions(versions, latest, available, maxUnavailable, strategy) ==
  LET chosen == getRollingStrategy(strategy, available, maxUnavailable)
  IN  CASE chosen = "oldFirst" ->
             SortBy(versions, LAMBDA a, b : ByGeneration(latest, b, a))
        [] chosen = "latestFirst" ->
             SortBy(versions, LAMBDA a, b : ByGeneration(latest, a, b))
        [] OTHER ->
             SortBy(versions, LAMBDA a, b : ByAvailable(latest, available, a, b))

---------------------------------------------------------------------------
(* hold_matrix.go: percentages *)

getCurReplicas(shard) ==
  MapThenSumSet(LAMBDA v : shard.status[v].replicas, DOMAIN shard.status)

getTargetReplicas(shard) == shard.replicas

getCompactReplicas(shard) == Int32Min(getCurReplicas(shard), getTargetReplicas(shard))

\* The nodes of every version of every shard: the ready ones, or all of them.
getVersionReadyReplicas(shards) ==
  [s \in DOMAIN shards |-> [v \in DOMAIN shards[s].status |-> shards[s].status[v].ready]]
getVersionAllReplicas(shards) ==
  [s \in DOMAIN shards |-> [v \in DOMAIN shards[s].status |-> shards[s].status[v].replicas]]

\* The smallest target of the shards; the shards of a model all want nodes.
getMinTargetReplicas(shards) == Min({getTargetReplicas(shards[s]) : s \in DOMAIN shards})

\* For every version, the share of it that the worst shard has: zero when a
\* shard with nodes has none of the version, unless the shard is new.  count
\* has the nodes of each version of a shard, size what they are a share of.
initShardMatrix(count, size, newShards) ==
  LET live == {s \in DOMAIN count : size[s] # 0}
      versions == UNION {DOMAIN count[s] : s \in live}
      share(s, v) == IF v \in DOMAIN count[s] THEN floatRound(count[s][v], size[s]) ELSE 0
      counted(v) == {s \in live : v \in DOMAIN count[s] \/ s \notin newShards}
  IN  [v \in versions |-> Min({Hundred} \cup {share(s, v) : s \in counted(v)})]

calculateHoldCount(replicas, percent) ==
  ((percent * replicas - Percent \div 2) \div Percent + 70) \div 100

transferHoldMatrix(percents, replicas) ==
  [v \in DOMAIN percents |-> calculateHoldCount(replicas, percents[v])]

getTotalHoldReplicas(percents, replicas) == Total(transferHoldMatrix(percents, replicas))

onlyOneVersion(matrix, latest) == DOMAIN matrix = {latest} /\ matrix[latest] = Hundred

borderTargetRatio(target, latestRatio, curLatestRatio, forward) ==
  IF forward
    THEN Int32Max(Int32Min(target, latestRatio), curLatestRatio)
    ELSE Int32Min(Int32Max(target, latestRatio), curLatestRatio)

\* The sliding window: what is available of the latest version plus one step,
\* or, rolling back, what the available old versions plus a step leave.
calculateTargetRatio(latestRatio, curLatestRatio, available, latest, step) ==
  LET forward == curLatestRatio <= latestRatio
      availableLatest == At(available, latest)
      availableOld == Total(available) - availableLatest
      raw == IF forward THEN availableLatest + step ELSE Hundred - (availableOld + step)
  IN  [ratio |-> borderTargetRatio(raw, latestRatio, curLatestRatio, forward),
       forward |-> forward]

supplementHoldPercent(acc, v, all) ==
  LET extra == Int32Min(acc.need, At(all, v) - At(acc.hold, v))
  IN  IF At(acc.hold, v) < At(all, v)
        THEN [hold |-> (v :> At(acc.hold, v) + extra) @@ acc.hold, need |-> acc.need - extra]
        ELSE acc

\* First cut the holds, last key first, until they sum to no more than
\* maxRatio; then, if whole rows are still missing, hold more of what exists.
adjustHoldMatrix(available, all, latest, target, maxRatio, step, forward, strategy, minReplicas) ==
  LET max == IF target = Hundred THEN Hundred ELSE maxRatio
      first == (latest :> target) @@ available
      keys == sortVersions(DOMAIN first, latest, available, step, strategy)
      Cut(acc, v) ==
        IF acc.stop \/ (v = latest /\ forward) THEN acc
        ELSE IF acc.sum < max THEN [acc EXCEPT !.stop = TRUE]
        ELSE IF acc.sum - acc.hold[v] < max
          THEN [acc EXCEPT !.hold[v] = @ - (acc.sum - max), !.stop = TRUE]
          ELSE [acc EXCEPT !.hold[v] = 0, !.sum = @ - acc.hold[v]]
      Supply(acc, v) ==
        LET missing == minReplicas - getTotalHoldReplicas(acc.hold, minReplicas)
            capped == [acc EXCEPT !.need = Int32Min(@, (Hundred * missing) \div minReplicas)]
        IN  IF acc.need <= 0 \/ missing <= 0 THEN acc
            ELSE IF v = latest THEN capped
            ELSE supplementHoldPercent(capped, v, all)
      start == [hold |-> first, sum |-> Total(first), stop |-> FALSE]
  IN  With(FoldLeft(Cut, start, Reverse(keys)), LAMBDA cut :
        FoldLeft(Supply, [hold |-> cut.hold, need |-> max - cut.sum], keys).hold)

getMaxStepRatio(shards) == Hundred \div getMinTargetReplicas(shards)

\* EnableMissingColumn: when no complete row of old versions is left to hold,
\* the latest version may run ahead by at most a quarter, or one node.
paddTargetRatio(target, maxRatio, maxStep, forward, current, newShards, latest) ==
  LET old == Total(current) - At(current, latest)
      gap == Int32Min(maxRatio - old - target, Int32Min(25 * Percent, maxStep))
  IN  IF old + target < maxRatio /\ forward /\ newShards = {} THEN target + gap ELSE target

calculateHoldMatrix(shards, latestPercent, strategy, latest, maxUnavailable, maxSurge, newShards) ==
  LET surging == maxUnavailable = 0 /\ maxSurge # 0
      step == IF surging THEN maxSurge ELSE maxUnavailable
      maxRatio == IF surging THEN Hundred + step * Percent ELSE Hundred
      latestRatio == latestPercent * Percent
      compact == [s \in DOMAIN shards |-> getCompactReplicas(shards[s])]
      size == [s \in DOMAIN shards |-> getCurReplicas(shards[s])]
      matrices ==
        [available |-> initShardMatrix(getVersionReadyReplicas(shards), compact, newShards),
         all |-> initShardMatrix(getVersionAllReplicas(shards), compact, newShards),
         current |-> initShardMatrix(getVersionAllReplicas(shards), size, newShards)]
      target(m) == calculateTargetRatio(latestRatio, At(m.current, latest), m.available, latest,
                                        step * Percent)
      padded(m, t) ==
        IF Cardinality(DOMAIN shards) > 1
          THEN borderTargetRatio(
                 paddTargetRatio(t.ratio, maxRatio, getMaxStepRatio(shards), t.forward,
                                 m.current, newShards, latest),
                 latestRatio, At(m.current, latest), t.forward)
          ELSE 0
      result(m, t) ==
        [hold |-> adjustHoldMatrix(m.available, m.all, latest, t.ratio, maxRatio, step,
                                   t.forward, strategy, getMinTargetReplicas(shards)),
         target |-> CeilDiv(t.ratio, Percent),
         padded |-> CeilDiv(padded(m, t), Percent)]
  IN  With(matrices, LAMBDA m :
        IF onlyOneVersion(m.current, latest)
          THEN [hold |-> m.available, target |-> latestPercent, padded |-> latestPercent]
          ELSE With(target(m), LAMBDA t : result(m, t)))
=============================================================================
