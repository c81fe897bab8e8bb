------------------------ MODULE MCLabExperimentJobs ------------------------
(* Small instances of the Lab's batches.                                    *)
EXTENDS LabExperimentJobs, TLC

CONSTANTS j1, j2, w1, w2

OneJob == {j1}
TwoJobs == {j1, j2}
OneWorker == {w1}
TwoWorkers == {w1, w2}

\* Any one kind of failure, lost and stalled workers twice.
SomeRisk == [retract |-> 1, expire |-> 1, stall |-> 2, lost |-> 2, shutdown |-> 1, day |-> 1]

OneStall == [k \in DOMAIN SomeRisk |-> IF k = "stall" THEN 1 ELSE 0]
=============================================================================
