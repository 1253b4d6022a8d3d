-------------------------- MODULE MCSignalCounting --------------------------
EXTENDS SignalCounting, TLC

SourceSymmetry == Permutations(Sources)
=============================================================================
