------------------------------ MODULE MCSettlement ------------------------------
EXTENDS Settlement, TLC

Symmetry == Permutations(Reqs) \cup Permutations(Ids) \cup Permutations(Suppliers)
================================================================================
