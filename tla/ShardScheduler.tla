--------------------------- MODULE ShardScheduler ---------------------------
(***************************************************************************)
(* InPlaceShardScheduler of pkg/rollalgorithm/shard_scheduler.go: from the *)
(* status of one shard and its plan, the number of nodes every version     *)
(* should have next.  The code keeps its working state in one mutable      *)
(* ShardScheduleParams; here p is that record after initScheduleArgs, and  *)
(* each later stage returns what it would have stored.                     *)
(*                                                                         *)
(* VersionCountMap and the target matrix are the same Go map               *)
(* (calculateVersionTargetMatrix aliases it), so the stages that scale a   *)
(* version read the count an earlier stage may already have changed.       *)
(***************************************************************************)
EXTENDS RollAlgorithm

initScheduleArgs(status, plan, latest) ==
  LET strategy == ParseScheduleStrategy(plan)
      counts == [v \in DOMAIN status |-> status[v].replicas]
      keys == sortVersions(DOMAIN status \cup {latest}, latest, EmptyMap,
                           strategy.maxUnavailablePercent, "latestFirst")
  IN  [latest |-> latest,
       plan |-> plan,
       desired |-> plan.replicas,
       maxUnavailable |-> strategy.maxUnavailable,
       minAvailable |-> strategy.minAvailable,
       maxUnavailablePercent |-> strategy.maxUnavailablePercent,
       maxSurgePercent |-> strategy.maxSurgePercent,
       ratio |-> Int32Min(plan.ratio, 100),
       padded |-> Int32Min(plan.padded, 100),
       maxReplicas |-> IF strategy.minAvailable < plan.replicas
                         THEN plan.replicas
                         ELSE plan.replicas + strategy.maxSurge,
       keys |-> keys,
       oldKeys |-> SelectSeq(keys, LAMBDA v : v # latest),
       status |-> status,
       count |-> counts,
       ready |-> [v \in DOMAIN status |-> status[v].ready],
       curTotal |-> Total(counts),
       curLatest |-> At(counts, latest),
       curOld |-> Total(counts) - At(counts, latest)]

isOneTargetVersion(p) == DOMAIN p.count = {p.latest}

\* Mutant: a gray release that ignores its ratio.
ungrayedReplicas(p) == p.maxReplicas

targetLatestReplicas(p) == ComputeLatestReplicas(p.ratio, p.maxReplicas, p.plan.carry)

paddedLatestReplicas(p) == ComputeLatestReplicas(p.padded, p.maxReplicas, p.plan.carry)

isForward(p) ==
  LET current == floatRound(p.curLatest, p.curTotal) \div Percent
  IN  p.ratio >= current \/ p.padded >= current

---------------------------------------------------------------------------
(* calcHold: how many nodes of each version must not be touched *)

\* The hold percentages: the group's, or else the shard's own.
versionHoldMatrixPercent(p) ==
  LET self == [replicas |-> p.desired, status |-> p.status]
  IN  IF DOMAIN p.plan.hold # {}
        THEN p.plan.hold
        ELSE calculateHoldMatrix([s \in {"self"} |-> self], p.ratio, p.plan.strategy, p.latest,
                                 p.maxUnavailablePercent, p.maxSurgePercent, {}).hold

\* A hold on the latest version that its ready nodes cannot back is lowered.
lowerLatestHold(p, hold) ==
  LET ready == At(p.ready, p.latest)
      target == targetLatestReplicas(p)
      latestHold == At(hold, p.latest)
      lowered == IF target >= p.curLatest /\ latestHold > ready THEN ready ELSE latestHold
      bounded == IF lowered > ready /\ lowered > target
                   THEN Int32Min(lowered, Int32Max(target, ready))
                   ELSE lowered
  IN  IF bounded = latestHold THEN hold ELSE (p.latest :> bounded) @@ hold

\* Take from the hold of each version, in the given order, at most spare[v]
\* nodes, until it sums to no more than need.
trimHold(hold, order, need, spare) ==
  FoldLeft(LAMBDA acc, v :
             LET over == Int32Min(Total(acc) - need, Int32Min(At(acc, v), At(spare, v)))
             IN  IF Total(acc) > need THEN (v :> At(acc, v) - over) @@ acc ELSE acc,
           hold, order)

filterVersionHoldingMap(p, hold) ==
  LET slack(h) == targetLatestReplicas(p) - At(h, p.latest)
      needed(h) == IF p.minAvailable = p.desired THEN p.minAvailable + 1
                   ELSE IF slack(h) < p.maxUnavailable
                     THEN p.minAvailable + p.maxUnavailable - slack(h)
                   ELSE p.minAvailable
      real(h) == [v \in DOMAIN h |->
                    IF v \in Range(p.keys) THEN Int32Min(h[v], At(p.count, v)) ELSE h[v]]
      youngestFirst == Reverse(p.oldKeys)
      unready == [v \in Range(p.oldKeys) |-> Int32Max(0, At(p.count, v) - At(p.ready, v))]
      trimmed(h, need) ==
        With(trimHold(real(h), youngestFirst, need, unready), LAMBDA ready :
          With(trimHold(ready, youngestFirst, need, ready), LAMBDA new :
            trimHold(new, <<p.latest>>, need, new)))
  IN  With(lowerLatestHold(p, hold), LAMBDA h :
        IF Total(h) <= needed(h) THEN h ELSE trimmed(h, needed(h)))

\* Hold ready nodes, the latest version's first, until minAvailable are held.
completeAvailableHold(p, hold) ==
  LET latestHold == At(hold, p.latest)
      spare == At(p.ready, p.latest) - latestHold
      room == targetLatestReplicas(p) - latestHold
      extra == IF room >= 0 THEN Int32Min(spare, room) ELSE spare
      withLatest == IF extra > 0 THEN (p.latest :> latestHold + extra) @@ hold ELSE hold
      HoldOld(acc, v) ==
        LET more == Int32Min(p.minAvailable - Total(acc), At(p.ready, v) - At(acc, v))
        IN  IF more > 0 THEN (v :> At(acc, v) + more) @@ acc ELSE acc
  IN  IF p.minAvailable > Total(hold)
        THEN FoldLeft(HoldOld, withLatest, p.oldKeys)
        ELSE hold

\* Mutant: nothing is held.
holdNothing(p) == EmptyMap

calcHold(p) ==
  With(transferHoldMatrix(versionHoldMatrixPercent(p), p.desired), LAMBDA counts :
    With(filterVersionHoldingMap(p, counts), LAMBDA hold : completeAvailableHold(p, hold)))

---------------------------------------------------------------------------
(* calcTarget: how many latest and old nodes to aim for *)

\* maxUnavailable is a window over the nodes that are not ready yet.
calcTarget(p) ==
  LET latest == targetLatestReplicas(p)
      padded == paddedLatestReplicas(p)
      oldReady == Total(p.ready) - At(p.ready, p.latest)
      extra == Int32Max(0, Int32Max(p.maxReplicas - p.curTotal, p.maxReplicas - p.desired))
      window == Int32Min(latest, Int32Max(At(p.ready, p.latest) + p.maxUnavailable + extra,
                                          p.curLatest))
      kept == IF padded > window /\ p.curLatest > window /\ padded >= p.curLatest
                THEN p.curLatest ELSE window
      backOld == Int32Min(p.maxReplicas - latest,
                          Int32Max(oldReady + p.maxUnavailable, p.curOld))
  IN  IF Len(p.keys) = 1 THEN [latest |-> p.desired, old |-> 0]
      ELSE IF p.ratio = 0 THEN [latest |-> 0, old |-> p.desired]
      ELSE IF isForward(p) THEN [latest |-> kept, old |-> p.maxReplicas - kept]
      ELSE [latest |-> p.maxReplicas - backOld, old |-> backOld]

---------------------------------------------------------------------------
(* calculateVersionTargetMatrix: spread them over the versions.  acc holds  *)
(* the matrix and the number of nodes still to take away or to give out.    *)

\* Mutant: the oversize is taken from one version, however few nodes it has.
scaleInUnbounded(hold, v, acc) ==
  [matrix |-> (v :> At(acc.matrix, v) - acc.left) @@ acc.matrix, left |-> 0]

versionScacleIn(hold, v, acc) ==
  LET redundant == Int32Min(acc.left, Int32Max(0, At(acc.matrix, v) - At(hold, v)))
  IN  [matrix |-> (v :> At(acc.matrix, v) - redundant) @@ acc.matrix,
       left |-> acc.left - redundant]

versionScacleOut(v, lack, acc) ==
  LET supplement == Int32Min(lack, acc.left)
  IN  [matrix |-> (v :> At(acc.matrix, v) + supplement) @@ acc.matrix,
       left |-> acc.left - supplement]

oldVersionScaleIn(p, hold, oversize) ==
  FoldLeft(LAMBDA acc, v : versionScacleIn(hold, v, acc),
           [matrix |-> p.count, left |-> oversize], Reverse(p.oldKeys))

\* First back to what is held, then everything to the oldest version.
oldVersionScaleOut(p, hold, lack, acc) ==
  LET ToHold(a, v) ==
        IF a.left > 0 /\ At(a.matrix, v) < At(hold, v)
          THEN versionScacleOut(v, At(hold, v) - At(a.matrix, v), a) ELSE a
      held == FoldLeft(ToHold, acc, p.oldKeys)
  IN  IF lack <= 0 \/ acc.left <= 0 THEN acc
      ELSE IF held.left <= 0 \/ p.oldKeys = <<>> THEN held
      ELSE versionScacleOut(Head(p.oldKeys), lack, held)

calculateVersionTargetMatrix(p, hold, target) ==
  LET oldOversize == p.curOld - target.old
      latestOversize == p.curLatest - target.latest
      oldIn == IF oldOversize > 0 THEN oldVersionScaleIn(p, hold, oldOversize)
                                  ELSE [matrix |-> p.count, left |-> oldOversize]
      latestIn(matrix) ==
        IF latestOversize > 0
          THEN versionScacleIn(hold, p.latest, [matrix |-> matrix, left |-> latestOversize])
          ELSE [matrix |-> matrix, left |-> latestOversize]
      redundant(old, new) == (oldOversize - old.left) + (latestOversize - new.left)
      latestOut(start) == IF latestOversize < 0 /\ start.left > 0
                            THEN versionScacleOut(p.latest, -latestOversize, start) ELSE start
  IN  With(oldIn, LAMBDA old : With(latestIn(old.matrix), LAMBDA new :
        With(latestOut([matrix |-> new.matrix,
                        left |-> redundant(old, new) + p.maxReplicas - p.curTotal]),
             LAMBDA out : oldVersionScaleOut(p, hold, -oldOversize, out).matrix)))

\* Old nodes that no row holds may become latest ones up to the padded ratio.
paddLatestVersion(p, target, matrix) ==
  LET percent == versionHoldMatrixPercent(p)
      Padd(acc, v) ==
        LET n == Int32Min(At(acc.matrix, v), acc.left)
        IN  IF acc.left > 0 /\ At(percent, v) <= 0 /\ n > 0
              THEN [matrix |-> (v :> At(acc.matrix, v) - n) @@
                               ((p.latest :> At(acc.matrix, p.latest) + n) @@ acc.matrix),
                    left |-> acc.left - n]
              ELSE acc
      gap == paddedLatestReplicas(p) - target.latest
  IN  IF gap > 0 /\ p.plan.padded > p.plan.ratio
        THEN FoldLeft(Padd, [matrix |-> matrix, left |-> gap], Reverse(p.oldKeys)).matrix
        ELSE matrix

\* Schedule.  A shard that is being released wants no node of any version.
Schedule(status, plan, latest, releasing) ==
  LET matrix(p, target) ==
        With(calcHold(p), LAMBDA hold : calculateVersionTargetMatrix(p, hold, target))
  IN  IF releasing THEN EmptyMap
      ELSE With(initScheduleArgs(status, plan, latest), LAMBDA p :
             IF isOneTargetVersion(p) THEN [v \in {latest} |-> p.desired]
             ELSE With(calcTarget(p), LAMBDA target :
                    With(matrix(p, target), LAMBDA m : paddLatestVersion(p, target, m))))
=============================================================================
