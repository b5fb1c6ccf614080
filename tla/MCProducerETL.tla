---------------------------- MODULE MCProducerETL ----------------------------
(* Small producers for TLC. *)
EXTENDS ProducerETL

CONSTANTS r1, r2

\* The second row of the first shard is dead-lettered.
SecondRow == {<<1, 2>>}
=============================================================================
