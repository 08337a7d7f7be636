---------------------------- MODULE MCWindowTree ----------------------------
EXTENDS WindowTree, TLC

NoSaveKinds == {}
OneSaveKind == {<<FALSE, TRUE>>}
Symmetry == Permutations(Window) \cup Permutations(Client)
=============================================================================
