-------------------------- MODULE MCIndexerConsumer --------------------------
(* Small consumer groups for TLC. *)
EXTENDS IndexerConsumer, TLC

CONSTANTS w1, w2, p1, p2

Symmetry == Permutations(Workers)

\* Two partitions: poison behind a good message, and one the index refuses.
TwoPartitions ==
    [p \in {p1, p2} |-> IF p = p1 THEN <<"good", "visibilityInvalid">>
                                  ELSE <<"rejected">>]

\* One partition, a good message between two kinds of poison.
OnePartition == [p \in {p1} |-> <<"schemaInvalid", "good", "rejected">>]
=============================================================================
