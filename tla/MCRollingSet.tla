---------------------------- MODULE MCRollingSet ----------------------------
(***************************************************************************)
(* Instances of RollingSet for TLC.                                        *)
(***************************************************************************)
EXTENDS RollingSet

Budget(changes, failures, faults, backups, lag) ==
  [changes |-> changes, failures |-> failures, faults |-> faults,
   refusing |-> FALSE, backups |-> backups, stalls |-> 0, lag |-> lag]

Refusing(b) == [b EXCEPT !.refusing = TRUE]

\* Two changes with an up-to-date cache and calls that run, and one change with
\* a cache that lags or calls that are refused.
FreshOrLagging ==
  {Budget(2, 1, 1, 0, 0), Refusing(Budget(1, 1, 2, 0, 0)), Refusing(Budget(1, 0, 3, 0, 4))}

\* A bit of everything, for liveness.
Mixture ==
  {Budget(1, 1, 1, 1, 2), Refusing([Budget(1, 0, 1, 0, 3) EXCEPT !.stalls = 1])}

Count(n) == [pct |-> FALSE, val |-> n]
Pct(n) == [pct |-> TRUE, val |-> n]

PlanOf(replicas, maxUnavailable, maxSurge, ratio) ==
  [replicas |-> replicas, maxUnavailable |-> maxUnavailable, maxSurge |-> maxSurge,
   ratio |-> ratio, padded |-> 0, hold |-> EmptyMap, carry |-> "Ceil", strategy |-> ""]

\* One replica at a time, scaled between one and two.
Pair == {PlanOf(2, Count(1), Pct(10), 100), PlanOf(1, Count(1), Pct(10), 100)}

\* Scaling, gray release and rolling with a surge node.
Varied ==
  {PlanOf(3, Pct(34), Pct(10), 100), PlanOf(2, Count(1), Pct(10), 100),
   [PlanOf(4, Pct(50), Pct(10), 50) EXCEPT !.strategy = "oldFirst", !.carry = "Floor"],
   PlanOf(3, Count(0), Count(1), 100)}
=============================================================================
