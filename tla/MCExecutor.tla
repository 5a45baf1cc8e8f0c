----------------------------- MODULE MCExecutor -----------------------------
(***************************************************************************)
(* An instance of Executor for TLC.                                        *)
(***************************************************************************)
EXTENDS Executor

CONSTANTS a, b

\* The first two calls are of a caller with a deadline, the third is of one
\* without.
Owner == <<a, a, b>>

Plain == [try |-> FALSE, queue |-> FALSE, fits |-> TRUE, hangs |-> FALSE]
Hanging == [Plain EXCEPT !.hangs = TRUE]

Workload(calls, x, y, z, closes) ==
  [calls |-> calls, kind |-> <<x, y, z>>, closes |-> closes]

\* Both callers at once, the function of the second one hanging or not; a
\* pool that is closed; and one caller whose second call has flags.
Mixed ==
  {Workload({1, 2, 3}, Plain, Plain, z, FALSE) : z \in {Plain, Hanging}}
  \cup {Workload({1, 3}, x, Plain, Plain, TRUE) : x \in {Plain, Hanging}}
  \cup {Workload({1, 2}, Plain, [Plain EXCEPT !.fits = FALSE], Plain, TRUE)}
  \cup {Workload({1, 2}, Plain, y, Plain, FALSE) :
           y \in {[Plain EXCEPT !.try = t, !.queue = q] : t, q \in BOOLEAN}}
=============================================================================
