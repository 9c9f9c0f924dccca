---------------------------- MODULE MCIngestion ----------------------------
(* Two or three spans of one service, a server with two threads.           *)
EXTENDS Ingestion, TLC

CONSTANTS s1, s2, h1, h2

SomeInvalid == {{}, {s2}}

Alike == Permutations({h1, h2})
=============================================================================
