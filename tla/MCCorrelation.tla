--------------------------- MODULE MCCorrelation ---------------------------
EXTENDS Correlation, TLC

CONSTANTS a, b, c

\* A chain: the outer services are connected through the middle one only.
ChainServices == {a, b, c}
Chain == [s \in ChainServices |-> IF s = b THEN ChainServices ELSE {s, b}]

\* The outer services may be exchanged.
Ends == Permutations({a, c})
=============================================================================
