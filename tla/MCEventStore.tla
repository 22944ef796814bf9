---------------------------- MODULE MCEventStore ----------------------------
EXTENDS EventStore, TLC

MCSymmetry == Permutations(Tabs)
=============================================================================
