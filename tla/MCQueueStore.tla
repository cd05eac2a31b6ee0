---------------------------- MODULE MCQueueStore ----------------------------
(***************************************************************************)
(* Instances of QueueStore for TLC: several jobs that compete for one      *)
(* destination, and one job whose files have several chunks.               *)
(***************************************************************************)
EXTENDS QueueStore, TLC

CONSTANTS m1, m2, d1, f1, f2

OneJob    == {1}
TwoJobs   == {1, 2}
ThreeJobs == {1, 2, 3}

TwoModels == {m1, m2}
OneModel  == {m1}

NoBytes  == [f \in Files |-> 0]
TwoSizes == [f \in Files |-> IF f = f1 THEN 3 ELSE 0]
UnitSize == [f \in Files |-> 1]

ModelSymmetry == Permutations(Models)
=============================================================================
