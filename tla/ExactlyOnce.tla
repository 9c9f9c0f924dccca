---------------------------- MODULE ExactlyOnce ----------------------------
(***************************************************************************)
(* What the Flink job promises to the readers of a topic it writes: its    *)
(* input items end up in published records, every item in one record at    *)
(* the most, and an item that was given up never turns up later.  Nothing  *)
(* published is ever taken back.  How windows, checkpoints, transactions   *)
(* and restarts bring this about is FlinkJob's business.                   *)
(***************************************************************************)
EXTENDS Integers, Sequences

CONSTANT Items

VARIABLES
    published,  \* the records of the topic, each the set of its items
    gone        \* items that no record may contain any more

vars == <<published, gone>>

\* The items of a sequence of records.
ItemsOf(records) == UNION {records[i] : i \in DOMAIN records}

\* No two of the records share an item.
Disjoint(records) ==
    \A i, j \in DOMAIN records : i # j => records[i] \cap records[j] = {}

TypeOK ==
    /\ published \in Seq(SUBSET Items)
    /\ gone \subseteq Items

Init ==
    /\ published = <<>>
    /\ gone = {}

\* A transaction is committed: its records become visible together.
Publish ==
    \E n \in 1..Len(published') :
        LET batch == SubSeq(published', n, Len(published'))
        IN  /\ published = SubSeq(published', 1, n - 1)
            /\ Disjoint(batch)
            /\ ItemsOf(batch) \cap (ItemsOf(published) \cup gone) = {}
            /\ ItemsOf(batch) \subseteq Items
            /\ gone' = gone

GiveUp ==
    /\ gone \subseteq gone'
    /\ gone' \subseteq Items \ ItemsOf(published)
    /\ published' = published

Next == Publish \/ GiveUp

Spec == Init /\ [][Next]_vars
=============================================================================
