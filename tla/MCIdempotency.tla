------------------------------ MODULE MCIdempotency ------------------------------
EXTENDS Idempotency, TLC

Symmetry == Permutations(Reqs)
================================================================================
