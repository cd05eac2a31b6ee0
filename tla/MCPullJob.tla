----------------------------- MODULE MCPullJob ------------------------------
(***************************************************************************)
(* Instances of PullJob for TLC.                                           *)
(***************************************************************************)
EXTENDS PullJob, TLC

CONSTANTS m1, m2, d1, f1, f2, w1, w2

OneJob   == {1}
TwoJobs  == {1, 2}
UnitSize == [f \in Files |-> 1]
TwoUnits == [f \in Files |-> 2]
Mixed    == [f \in Files |-> IF f = f1 THEN 2 ELSE 0]

WorkerSymmetry == Permutations(Workers)
=============================================================================
