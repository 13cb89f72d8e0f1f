----------------------------- MODULE MCPublishers -----------------------------
EXTENDS Publishers, TLC

CONSTANTS m1, m2

MessageSymmetry == Permutations({m1, m2})
===============================================================================
