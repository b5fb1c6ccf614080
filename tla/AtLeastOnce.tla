----------------------------- MODULE AtLeastOnce -----------------------------
(***************************************************************************)
(* What every stage of the search pipeline promises about the stream it    *)
(* reads, whatever it reads it from and wherever it puts the outcome:      *)
(*                                                                         *)
(*   - an item is settled once its outcome is durable (a document in the   *)
(*     index, a record in a dead-letter queue, ...) and stays settled;     *)
(*   - the resume point of a stream (a committed Kafka offset, a cursor    *)
(*     row, a checkpoint) covers settled items only, so that whoever       *)
(*     resumes there has missed nothing.                                   *)
(*                                                                         *)
(* Settling an item twice, or moving a resume point backwards, is allowed: *)
(* the promise is "at least once", not "exactly once".                     *)
(***************************************************************************)
EXTENDS Integers

CONSTANTS
    Streams,    \* partitions of a topic, tables of a database, ...
    Items       \* the items of all streams, pairs <<stream, position>>

VARIABLES
    settled,    \* the items whose outcome is durable
    cursor      \* stream -> the last position its resume point covers

vars == <<settled, cursor>>

Covers(s, n) == {m \in Items : m[1] = s /\ m[2] <= n}

Init ==
    /\ settled = {}
    /\ cursor = [s \in Streams |-> 0]

\* The outcome of some items becomes durable.
Settle ==
    /\ settled \subseteq settled'
    /\ settled' \subseteq Items
    /\ UNCHANGED cursor

\* A resume point moves, forwards or backwards, over settled items only.
Advance(s) ==
    /\ cursor'[s] \in Nat
    /\ cursor' = [cursor EXCEPT ![s] = cursor'[s]]
    /\ Covers(s, cursor'[s]) \subseteq settled
    /\ UNCHANGED settled

Next == Settle \/ \E s \in Streams : Advance(s)

Spec == Init /\ [][Next]_vars

\* Nothing a resume point covers is unsettled.
NoLoss == \A s \in Streams : Covers(s, cursor[s]) \subseteq settled
=============================================================================
