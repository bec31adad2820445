------------------------------ MODULE MCRefresh ------------------------------
EXTENDS Refresh, TLC

\* Items of one kind are interchangeable.
Symmetry == Permutations(Apps) \cup Permutations(Psms)
=============================================================================
