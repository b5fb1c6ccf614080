----------------------------- MODULE BulkOutcome -----------------------------
(***************************************************************************)
(* What the bulk writer and the retries around it promise to whoever hands *)
(* in a batch:                                                             *)
(*                                                                         *)
(*   - a message is written only when all its documents are in the index,  *)
(*     and given up only if no attempt could have written it;              *)
(*   - such an outcome is final;                                           *)
(*   - the batch is finished only when every message of it has one.        *)
(*                                                                         *)
(* Documents may reach the index without the writer learning of it.        *)
(***************************************************************************)
CONSTANTS
    Documents,  \* message -> its documents
    Hopeless    \* the messages that cannot be written

VARIABLES
    batch,      \* the messages handed in
    outcome,    \* message -> "open", "ok" or "dead"
    stored,     \* the documents in the index
    finished    \* TRUE once the batch is done with

vars == <<batch, outcome, stored, finished>>

Init ==
    /\ batch \subseteq DOMAIN Documents
    /\ outcome = [m \in DOMAIN Documents |-> "open"]
    /\ stored = {}
    /\ finished = FALSE

\* Some documents of the batch reach the index.
Store ==
    /\ ~finished
    /\ stored \subseteq stored'
    /\ stored' \subseteq stored \cup UNION {Documents[m] : m \in batch}
    /\ UNCHANGED <<batch, outcome, finished>>

\* What may become of an open message.
Justified(m, result) ==
    \/ result = "open"
    \/ result = "ok" /\ Documents[m] \subseteq stored
    \/ result = "dead" /\ m \in Hopeless

\* Some open messages of the batch get their outcome.
Settle ==
    /\ ~finished
    /\ outcome' \in [DOMAIN Documents -> {"open", "ok", "dead"}]
    /\ \A m \in DOMAIN Documents :
          \/ outcome'[m] = outcome[m]
          \/ m \in batch /\ outcome[m] = "open" /\ Justified(m, outcome'[m])
    /\ finished' \in BOOLEAN
    /\ finished' => \A m \in batch : outcome'[m] # "open"
    /\ UNCHANGED <<batch, stored>>

Next == Store \/ Settle

Spec == Init /\ [][Next]_vars
=============================================================================
