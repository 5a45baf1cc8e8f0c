---------------------------- MODULE MCShardGroup ----------------------------
(***************************************************************************)
(* Instances of ShardGroup for TLC.                                        *)
(***************************************************************************)
EXTENDS ShardGroup

CONSTANTS s1, s2

Limits(replicas, maxUnavailable, maxSurge) ==
  [replicas |-> replicas, maxUnavailable |-> maxUnavailable, maxSurge |-> maxSurge]

Nothing == [rollouts |-> 0, regrays |-> 0, reshards |-> 0, failures |-> 0, faults |-> 0,
            lagging |-> FALSE]

Setting(limits, bounds, start, names) ==
  [strategy |-> limits, budget |-> bounds, start |-> start, templates |-> names]

\* One node of four at a time, by a cache that lags, with failing writes and
\* crashes.
Rolling ==
  {Setting(Limits(4, 25, 10),
           [Nothing EXCEPT !.rollouts = 1, !.regrays = 1, !.faults = 3, !.lagging = TRUE],
           "settled", {s1, s2})}

\* Another set of shards: with a failing write or creation, and with a cache
\* that lags.
Resharding ==
  {Setting(Limits(1, 100, 10), bounds, start, names) :
     bounds \in {[Nothing EXCEPT !.reshards = 1, !.regrays = 1, !.faults = 1],
                [Nothing EXCEPT !.reshards = 1, !.lagging = TRUE]},
     start \in {"new", "settled"}, names \in {{s1}, {s1, s2}}}

Safety == Rolling \cup Resharding

\* A lagging cache and a failing write; a failing node where no node may be
\* missing and a surge node is needed; another set of shards, and a failing
\* creation.
Live ==
  {Setting(Limits(2, 50, 10), [Nothing EXCEPT !.rollouts = 1, !.faults = 1, !.lagging = TRUE],
           "settled", {s1, s2}),
   Setting(Limits(1, 0, 100), [Nothing EXCEPT !.rollouts = 1, !.failures = 1],
           "settled", {s1, s2}),
   Setting(Limits(1, 100, 10), [Nothing EXCEPT !.reshards = 1, !.faults = 1],
           "settled", {s1})}
=============================================================================
