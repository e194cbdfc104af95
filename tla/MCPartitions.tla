------------------------------ MODULE MCPartitions ------------------------------
EXTENDS Partitions, TLC

Symmetry == Permutations(Managers)
================================================================================
