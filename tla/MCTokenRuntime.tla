----------------------------- MODULE MCTokenRuntime -----------------------------
EXTENDS TokenRuntime, TLC

\* A viewer whose scope grants reads only, and a read and a write route.
MCHolders == {[role |-> "viewer", scopes |-> {<<"supply", "read">>}]}
MCRoutes  == {[area |-> "supply", write |-> TRUE], [area |-> "supply", write |-> FALSE]}

Symmetry == Permutations(Reqs) \cup Permutations(Tokens) \cup Permutations(Keys)
================================================================================
