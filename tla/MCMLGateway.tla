---------------------------- MODULE MCMLGateway ----------------------------
(* Two services and two threads; windows of two readings, of which those   *)
(* that end in an odd one are above the threshold.                         *)
EXTENDS MLGateway, TLC

CONSTANTS s1, s2, h1, h2

EndingOdd == {<<"plain", "odd">>, <<"odd", "odd">>}

\* The Transformer or its norm stats may be missing.
Trained == [transformer : BOOLEAN, forest : {TRUE}]

Alike == Permutations({s1, s2}) \cup Permutations({h1, h2})
=============================================================================
