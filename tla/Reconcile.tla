------------------------------ MODULE Reconcile ------------------------------
(***************************************************************************)
(* The reconcile gate (internal/recon), run by cmd/reconcile on its own or *)
(* by cmd/backfill after a backfill: it counts rows and documents of a     *)
(* window, compares a sample of them field by field and says whether the   *)
(* index is healthy.  It takes no lock: rows arrive, the live route and a  *)
(* backfill write, and the index refreshes, between any two of its steps.  *)
(*                                                                         *)
(* Here the routes write one row in one step; ProducerETL, IndexerConsumer *)
(* and Backfill have what lies in between.  The window covers all rows.    *)
(***************************************************************************)
EXTENDS Projection, FiniteSets

CONSTANTS
    Contents,    \* the row contents considered: sequences in message_id order
    Table,       \* message id -> the table (shard) its row is in
    Late,        \* the rows that arrive while the system runs
    Retained,    \* the rows whose messages the topic still holds
    Limits,      \* values of -sample (0: no sampling)
    MaxHistory,  \* bound on what older releases and earlier jobs left behind
    MaxFaults    \* bound on refused documents and failed queries

Ids == DOMAIN Table

ASSUME ReconcileAssumption ==
    /\ IsFiniteSet(Ids) /\ Ids = 1..Cardinality(Ids)
    /\ Contents \subseteq [Ids -> RowsOf(Nat \ {0})]
    \* a payload that is no object, or an empty one, has no fields
    /\ \A c \in Contents, r \in Ids : c[r].shape # "object" =>
           c[r].visibles = "absent" /\ c[r].space = "odd"
    /\ Late \subseteq Ids /\ Retained \subseteq Ids
    /\ Limits \subseteq Nat
    /\ MaxHistory \in Nat /\ MaxFaults \in Nat

\* The id of a document whose row is not in the tables.
Orphan == 0

VARIABLES
    content,     \* message id -> its row
    rows,        \* the ids of the rows in the tables
    index,       \* <<message id, subSeq>> -> document
    searchable,  \* the index as of its last refresh: what queries see
    fresh,       \* the documents written by the routes modelled (history)
    job,         \* how many of the rows the backfill has been through
    spill,       \* the rows in the backfill's spill file
    mode,        \* "inline" (cmd/backfill -reconcile) or "standalone"
    limit,       \* -sample
    pc,          \* where the gate is
    dlq, sourceRows, esDocs,  \* its Counts
    excluded,    \* the rows it leaves out of the sample
    sample,      \* the rows it compares
    due,         \* the rows it ought to compare (history)
    quiet,       \* nothing was written since it began (history)
    faults       \* counter of the bound

config == <<content, mode, limit>>
counts == <<dlq, sourceRows, esDocs>>
gate   == <<pc, counts, excluded, sample, due>>
vars   == <<config, rows, index, searchable, fresh, job, spill, gate, quiet, faults>>

Phases == {"idle", "source", "docs", "excluded", "load", "sample", "fetch",
           "healthy", "mismatch", "error"}

Put(store, r, docs, subs) ==
    LET new == {<<r, s>> : s \in subs}
    IN [key \in DOMAIN store \cup new |->
           IF key \in new THEN docs[key[2]] ELSE store[key]]

\* A document of an older release, which lost the visibles.
OldDoc(row) == [docFromRow(row)[0] EXCEPT !.visibles = {}]

\* Init is any mix of rows with and without a document of an older release, a
\* document whose row is gone, and records of an earlier backfill.
Init ==
    /\ content \in Contents
    /\ rows = Ids \ Late
    /\ \E old \in SUBSET rows, orphan \in SUBSET {Orphan} :
          /\ index = [key \in (old \cup orphan) \X {0} |->
                         OldDoc(content[IF key[1] = Orphan THEN 1 ELSE key[1]])]
          /\ spill \in SUBSET rows
          /\ Cardinality(old \cup orphan) + Cardinality(spill) <= MaxHistory
    /\ searchable = index /\ fresh = {}
    /\ job = 0
    /\ mode \in {"inline", "standalone"} /\ limit \in Limits
    /\ pc = "idle"
    /\ dlq = 0 /\ sourceRows = 0 /\ esDocs = 0
    /\ excluded = {} /\ sample = {} /\ due = {}
    /\ quiet = FALSE /\ faults = 0

Fault == faults < MaxFaults /\ faults' = faults + 1

-----------------------------------------------------------------------------
(* Around the gate *)

Insert(r) ==
    /\ r \notin rows
    /\ rows' = rows \cup {r}
    /\ quiet' = FALSE
    /\ UNCHANGED <<config, index, searchable, fresh, job, spill, gate, faults>>

\* The index takes the documents of a row, but for some it refuses for good.
Store(r, docs, refused) ==
    LET taken == DOMAIN docs \ refused
    IN /\ IF refused = {} THEN UNCHANGED faults ELSE Fault
       /\ index' = Put(index, r, docs, taken)
       /\ fresh' = fresh \cup ({r} \X taken)
       /\ quiet' = FALSE

\* A message reaches the index, for the first time or again.
Deliver(r) ==
    /\ r \in rows \cap Retained /\ Live(content[r])
    /\ \E refused \in SUBSET DOMAIN LiveDocs(content[r]) :
          Store(r, LiveDocs(content[r]), refused)
    /\ UNCHANGED <<config, rows, searchable, job, spill, gate>>

\* The backfill deals with the next row: it is written, or recorded, or both.
BackfillRow ==
    LET r == job + 1
    IN /\ r \in rows
       /\ job' = r
       /\ IF Indexable(content[r])
          THEN \E refused \in SUBSET DOMAIN docFromRow(content[r]) :
                  /\ Store(r, docFromRow(content[r]), refused)
                  /\ spill' = IF refused = {} THEN spill ELSE spill \cup {r}
          ELSE /\ spill' = spill \cup {r}
               /\ quiet' = FALSE
               /\ UNCHANGED <<index, fresh, faults>>
       /\ UNCHANGED <<config, rows, searchable, gate>>

\* The index makes writes visible to queries once in a while.  It is looked at by
\* the gate only: what it showed earlier is left to Begin.
Refresh ==
    /\ pc \notin {"idle", "healthy", "mismatch", "error"}
    /\ searchable # index
    /\ searchable' = index
    /\ UNCHANGED <<config, rows, index, fresh, job, spill, gate, quiet, faults>>

-----------------------------------------------------------------------------
(* The gate *)

\* What queries may see as the gate begins: cmd/backfill refreshes the index, for
\* cmd/reconcile the last refresh may be long ago.
Visible == IF mode = "inline" THEN {index} ELSE {searchable, index}

\* The number of dead letters: the backfill's own, or the one it logged at its
\* end and the operator passes on.
Begin ==
    /\ pc = "idle"
    /\ mode = "inline" => job + 1 \notin rows
    /\ dlq' = Cardinality(spill)
    /\ searchable' \in Visible
    /\ quiet' = (searchable' = index)
    /\ pc' = "source"
    /\ UNCHANGED <<config, rows, index, fresh, job, spill, sourceRows, esDocs,
                   excluded, sample, due, faults>>

\* The process ends with a verdict, and what it had counted goes with it.
End(verdict) ==
    /\ pc' = verdict
    /\ dlq' = 0 /\ sourceRows' = 0 /\ esDocs' = 0
    /\ excluded' = {} /\ sample' = {}
    /\ due' = IF verdict = "healthy" THEN due ELSE {}

\* A step of the gate only reads what is around it.
Reads == UNCHANGED <<config, rows, index, searchable, fresh, job, spill, quiet>>

CountRows ==
    /\ pc = "source"
    /\ sourceRows' = Cardinality(rows)
    /\ pc' = "docs"
    /\ Reads /\ UNCHANGED <<dlq, esDocs, excluded, sample, due, faults>>

\* Mutant: virtual children are counted.
AllDocs(store) == DOMAIN store

Messages(store) == {key \in DOMAIN store : ~store[key].virtual}

CountDocs ==
    /\ pc = "docs"
    /\ esDocs' = Cardinality(Messages(searchable))
    /\ pc' = "excluded"
    /\ Reads /\ UNCHANGED <<dlq, sourceRows, excluded, sample, due, faults>>

\* Counts that cannot be true are refused (Validate).
Plausible(rawExcluded) == dlq <= sourceRows /\ rawExcluded <= esDocs

CountRawExcluded ==
    /\ pc = "excluded"
    /\ LET rawExcluded == {key \in DOMAIN searchable : searchable[key].rawExcluded}
       IN IF Plausible(Cardinality(rawExcluded))
          THEN pc' = "load" /\ UNCHANGED <<counts, excluded, sample, due>>
          ELSE End("error")
    /\ Reads /\ UNCHANGED faults

LoadExcluded ==
    /\ pc = "load"
    /\ excluded' = spill
    /\ pc' = "sample"
    /\ Reads /\ UNCHANGED <<counts, sample, due, faults>>

\* The first n of a set of ids.
First(n, ids) == {r \in ids : Cardinality({q \in ids : q < r}) < n}

\* Mutant: excluded rows use up the sample.
LimitAlone == limit

effLimit == limit + Cardinality(excluded)

\* One query per table, the results merged and cut off again.
SampleRows ==
    LET of(t) == First(effLimit, {r \in rows : Table[r] = t})
    IN First(effLimit, UNION {of(t) : t \in {Table[r] : r \in Ids}})

\* Mutant: the rows asked for in excess are compared too.
ComparedAll(read) == IF limit = 0 THEN {} ELSE read \ excluded

Compared(read) == First(limit, read \ excluded)

Sample ==
    /\ pc = "sample"
    /\ sample' = Compared(SampleRows)
    /\ due' = First(limit, rows \ excluded)
    /\ pc' = "fetch"
    /\ Reads /\ UNCHANGED <<counts, excluded, faults>>

\* FetchDocs and the comparison: the verdict (Reconcile, Healthy).
Matches(r) ==
    <<r, 0>> \in DOMAIN searchable /\ compareRow(content[r], searchable[<<r, 0>>])

Healthy == esDocs = sourceRows - dlq /\ \A r \in sample : Matches(r)

Fetch ==
    /\ pc = "fetch"
    /\ End(IF Healthy THEN "healthy" ELSE "mismatch")
    /\ Reads /\ UNCHANGED faults

\* A query fails, or a shard does not answer it.
QueryFails ==
    /\ pc \in {"source", "docs", "excluded", "sample", "fetch"}
    /\ pc = "fetch" => sample # {}
    /\ pc = "sample" => limit > 0
    /\ Fault
    /\ End("error")
    /\ Reads

Done == pc \in {"healthy", "mismatch", "error"} /\ UNCHANGED vars

Next ==
    \/ \E r \in Ids : Insert(r) \/ Deliver(r)
    \/ BackfillRow \/ Refresh
    \/ Begin \/ CountRows \/ CountDocs \/ CountRawExcluded
    \/ LoadExcluded \/ Sample \/ Fetch \/ QueryFails
    \/ Done

Spec == Init /\ [][Next]_vars
-----------------------------------------------------------------------------
(* Properties *)

\* The document of a row is right in what the readers' access rules go by.
Right(r, store) ==
    /\ <<r, 0>> \in DOMAIN store
    /\ LET doc == store[<<r, 0>>]
       IN /\ doc.seq = content[r].seq
          /\ content[r].signal \/ /\ doc.visibles = Names(content[r])
                                  /\ doc.space = Space(content[r])

\* Shapes; no more rows are compared than were asked for.
TypeOK ==
    /\ content \in Contents /\ rows \subseteq Ids
    /\ DOMAIN index \subseteq ({Orphan} \cup Ids) \X (0..2)
    /\ DOMAIN searchable \subseteq DOMAIN index /\ fresh \subseteq DOMAIN index
    /\ job \in {0} \cup Ids /\ spill \subseteq rows
    /\ mode \in {"inline", "standalone"} /\ limit \in Limits
    /\ pc \in Phases
    /\ dlq \in Nat /\ sourceRows \in Nat /\ esDocs \in Nat
    /\ excluded \subseteq rows /\ sample \subseteq rows \ excluded
    /\ Cardinality(sample) <= limit
    /\ due \subseteq rows
    /\ quiet \in BOOLEAN /\ faults \in 0..MaxFaults

\* Whichever route wrote a document last, it is the document the backfill makes
\* of the row, virtual children included: the routes may overwrite each other in
\* any order.  (Not so for a row whose message had to lose its raw payload.)
RoutesAgree ==
    \A key \in fresh :
        LET row == content[key[1]]
        IN (row.size = "fits" \/ row.signal) =>
               /\ key[2] \in DOMAIN docFromRow(row)
               /\ index[key] = docFromRow(row)[key[2]]

\* No document and no virtual child of a message that says who may see it is
\* ever written without saying so, degraded messages included.
NeverFailOpen ==
    \A key \in fresh :
        LET row == content[key[1]]
        IN ~row.signal /\ row.visibles # "absent" => index[key].visibles # {}

\* After a healthy verdict the first rows of the window that are not recorded as
\* dead letters have right documents: as many as were asked for, however many
\* dead letters lie between them, and whatever is written afterwards.
SampleStands == pc = "healthy" => \A r \in due : Right(r, index)

\* A gate that samples every row and is left alone is healthy exactly when the
\* rows that are not recorded as dead letters are the ones with a document, and
\* these are right.
ExactWhenQuiet ==
    pc \in {"healthy", "mismatch"} /\ quiet /\ limit >= Cardinality(rows) =>
        (pc = "healthy" <=>
            /\ {key \in DOMAIN index : key[2] = 0} = (rows \ spill) \X {0}
            /\ \A r \in rows \ spill : Right(r, index))
=============================================================================
