---------------------------- MODULE MCCheckpoints ----------------------------
EXTENDS Checkpoints, TLC

CONSTANTS f, g, a, b, h, s1, s2

MCSymmetry == Permutations({s1, s2}) \cup Permutations({f, g})
================================================================================
