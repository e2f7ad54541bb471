------------------------ MODULE MCRequestProcessing ------------------------
EXTENDS RequestProcessing, TLC

Symmetry == Permutations(Requests)
=============================================================================
