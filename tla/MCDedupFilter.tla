--------------------------- MODULE MCDedupFilter ---------------------------
EXTENDS DedupFilter, TLC

Symmetry == Permutations(SpanIds)
=============================================================================
