-------------------------- MODULE MCTaskLifecycle --------------------------
EXTENDS TaskProperties, TLC

CONSTANTS k1, k2, maint

CoroSet   == {k1, k2, maint}
Symmetry  == Permutations({k1, k2})
PairSet   == {k1, maint}
AnyWorker == {Tasks}
TwoKinds  == {Tasks, {2}}
=============================================================================
