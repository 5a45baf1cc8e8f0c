----------------------------- MODULE MCReplica -----------------------------
(***************************************************************************)
(* Instances of Replica for TLC.  A scenario is the plan of the replica,   *)
(* whether it is up at first, and how often each thing may happen.         *)
(***************************************************************************)
EXTENDS Replica

Quiet ==
  [failures |-> 0, faults |-> 0, drops |-> 0, updates |-> 0, deletes |-> 0,
   evictions |-> 0, reclaims |-> 0, syncs |-> 0, rounds |-> 0, crashes |-> 0,
   timeouts |-> 0]

Graceful == [graceful |-> TRUE, delay |-> FALSE, inplace |-> TRUE]
Abrupt == [graceful |-> FALSE, delay |-> TRUE, inplace |-> TRUE]
Moving == [graceful |-> TRUE, delay |-> FALSE, inplace |-> FALSE]

New(l) == [plan |-> Graceful, serving |-> FALSE, limits |-> l]
Up(l) == [plan |-> Graceful, serving |-> TRUE, limits |-> l]
UpAbrupt(l) == [plan |-> Abrupt, serving |-> TRUE, limits |-> l]
UpMoving(l) == [plan |-> Moving, serving |-> TRUE, limits |-> l]

\* Old views, failed calls and crashes while the replica is created, moved,
\* updated, deleted, evicted, timed out or broken.
Disturbed ==
  {New([Quiet EXCEPT !.rounds = 1, !.faults = 1, !.syncs = 1]),
   Up([Quiet EXCEPT !.reclaims = 1, !.faults = 1, !.syncs = 1]),
   Up([Quiet EXCEPT !.reclaims = 1, !.rounds = 1, !.drops = 1, !.crashes = 1]),
   Up([Quiet EXCEPT !.reclaims = 1, !.updates = 1]),
   Up([Quiet EXCEPT !.updates = 1, !.drops = 1]),
   Up([Quiet EXCEPT !.reclaims = 1, !.timeouts = 1, !.syncs = 1]),
   Up([Quiet EXCEPT !.updates = 2, !.faults = 1, !.syncs = 1]),
   Up([Quiet EXCEPT !.deletes = 1, !.reclaims = 1, !.syncs = 1]),
   Up([Quiet EXCEPT !.evictions = 1, !.rounds = 1]),
   Up([Quiet EXCEPT !.failures = 1, !.syncs = 1]),
   UpMoving([Quiet EXCEPT !.updates = 1, !.syncs = 1]),
   UpAbrupt([Quiet EXCEPT !.reclaims = 1, !.syncs = 1])}

\* One thing goes wrong at a time; whatever does, the replica recovers.
OneAtATime ==
  {New([Quiet EXCEPT !.syncs = 1]),
   Up([Quiet EXCEPT !.updates = 1, !.timeouts = 1]),
   Up([Quiet EXCEPT !.deletes = 1, !.rounds = 1]),
   Up([Quiet EXCEPT !.evictions = 1]),
   Up([Quiet EXCEPT !.failures = 1]),
   Up([Quiet EXCEPT !.reclaims = 1, !.faults = 1]),
   Up([Quiet EXCEPT !.reclaims = 1, !.crashes = 1, !.syncs = 1]),
   Up([Quiet EXCEPT !.reclaims = 1, !.rounds = 1]),
   Up([Quiet EXCEPT !.updates = 1, !.drops = 1]),
   UpMoving([Quiet EXCEPT !.updates = 1]),
   UpAbrupt([Quiet EXCEPT !.reclaims = 1])}

\* An update whose call to the API server fails twice.
LostCall == {Up([Quiet EXCEPT !.updates = 1, !.drops = 2])}
=============================================================================
