---------------------------- MODULE MCMembership ----------------------------
EXTENDS Membership, TLC
UserAndSessionSymmetry == Permutations(Users) \cup Permutations(Sessions)
=============================================================================
