------------------------------ MODULE Splitter ------------------------------
(***************************************************************************)
(* app/ml/splitter.py and the folds of app/ml/train.py: which rows a model *)
(* is fitted on, which it is tried on, and which the publish gate uses.    *)
(* Rows are numbered from 1; at[i] is the bar row i was made from.         *)
(***************************************************************************)
EXTENDS Integers

CONSTANTS
    Horizon,    \* bars a label looks ahead
    Purge,      \* rows left out between training and test
    TestSize    \* rows of a test fold, and of the first training set

ASSUME SplitterAssumption ==
    /\ Horizon \in Nat \ {0} /\ TestSize \in Nat \ {0}
    /\ Purge \in Nat

\* train_model refuses a purge that is shorter than the horizon.
PurgeAccepted == Purge >= Horizon

\* Mutant of TestStart: the purge is left out.
UnpurgedStart(k) == TestSize + k * TestSize + 1

train_end(k) == TestSize + k * TestSize
TestStart(k) == train_end(k) + Purge + 1
TestEnd(k) == TestStart(k) + TestSize - 1

TrainRows(k) == 1 .. train_end(k)
TestRows(k) == TestStart(k) .. TestEnd(k)

\* assert_no_cross_fold_leakage of fold k.
NoLeak(at, k) ==
    \A i \in TrainRows(k), j \in TestRows(k) : at[i] + Horizon < at[j]
=============================================================================
