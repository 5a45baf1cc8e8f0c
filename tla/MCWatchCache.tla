---------------------------- MODULE MCWatchCache ----------------------------
(***************************************************************************)
(* Instances of WatchCache for TLC.                                        *)
(***************************************************************************)
EXTENDS WatchCache

CONSTANTS l1, r1

Scenario(who, commits, abandons, shutdown) ==
  [clients |-> who, commits |-> commits, abandons |-> abandons, shutdown |-> shutdown]

\* A remote informer too slow for four events, or whose connection breaks; a
\* local one that is slow, or gives up; one of each; shutting down in between.
Watching == {Scenario({r1}, 4, 0, FALSE), Scenario({r1}, 2, 1, FALSE),
             Scenario({r1}, 1, 1, TRUE), Scenario({l1}, 4, 1, TRUE),
             Scenario({l1, r1}, 2, 0, FALSE)}
=============================================================================
