---------------------------- MODULE MCRunSystem ----------------------------
EXTENDS RunSystem, TLC
LimitOne == [p \in Plans |-> 1]
LimitTwo == [p \in Plans |-> 2]
RunSymmetry == Permutations(Runs)
RunAndSyncerSymmetry == Permutations(Runs) \cup Permutations(Syncers)
=============================================================================
