-------------------------- MODULE MCIndexerHostCrash --------------------------
(* One worker, one poison message. *)
EXTENDS IndexerHostCrash

CONSTANTS w1, p1

OnePoison == [p \in {p1} |-> <<"schemaInvalid">>]
=============================================================================
