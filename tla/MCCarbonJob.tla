----------------------------- MODULE MCCarbonJob -----------------------------
EXTENDS CarbonJob

TwoNames == {1, 2}
OnlySecond == {2}

(* Two replicas, the second immutable; one replica.                         *)
Both == {<<1, 1>>, <<0, 1>>, <<2, 2>>}
Single == {<<1, 0>>, <<0, 0>>, <<2, 0>>}
AllPlans == Both \union Single

Quiet == [plan |-> <<1, 0>>, plans |-> Single, changes |-> 0, statuses |-> 0,
          failures |-> 0, deadlines |-> 0, crashes |-> 0, deletes |-> 0,
          faults |-> {}, prompt |-> FALSE]

(* The plan of two replicas changes while informers lag.                    *)
Lagging == [Quiet EXCEPT !.plan = <<1, 1>>, !.plans = Both,
                         !.changes = 2, !.statuses = 1]

(* A batch stops waiting, and the plan changes and changes back.            *)
Outlived == [Quiet EXCEPT !.changes = 2, !.deadlines = 1, !.deletes = 1]

(* Requests fail, the controller restarts, the job is deleted.              *)
Faulty == [Quiet EXCEPT !.changes = 1, !.deletes = 1, !.failures = 1,
                        !.faults = Faults]
Restarted == [Quiet EXCEPT !.changes = 1, !.deletes = 1, !.crashes = 1]

(* The same with two replicas and informers that keep up.                   *)
Prompt == [Quiet EXCEPT !.plan = <<1, 1>>, !.deletes = 1, !.failures = 1,
                        !.statuses = 1, !.faults = {"call", "release"},
                        !.crashes = 1, !.prompt = TRUE]

AllScenarios == {Lagging, Outlived, Faulty, Restarted, Prompt}
=============================================================================
