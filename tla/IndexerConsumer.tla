--------------------------- MODULE IndexerConsumer ---------------------------
(***************************************************************************)
(* The es-indexer consumer (internal/consumer): a consumer group reads the *)
(* partitions of the message topic, bulk-writes the messages into the      *)
(* search index, routes poison messages to a dead-letter topic (or, when   *)
(* that topic cannot be written, to a local spill file) and commits, per   *)
(* partition, the longest prefix of its batch that needs no retry.         *)
(*                                                                         *)
(* Each worker is one process running Processor.Run.  The broker and the   *)
(* index are shared.  A worker may stop at any point and loses everything  *)
(* it holds in memory; a partition may be handed to another worker at any  *)
(* point, and the old one may not know it yet.                             *)
(***************************************************************************)
EXTENDS Integers, Sequences

CONSTANTS
    Workers,     \* the es-indexer processes of the consumer group
    Partitions,  \* the partitions of the message topic
    Log,         \* partition -> the kinds of its messages, in offset order
    BatchSize,   \* Config.BatchSize
    MaxRetries,  \* dlqConfig.MaxRetries
    SpillDir,    \* TRUE when dlqConfig.SpillDir is set
    MaxFaults    \* bound: stops, rebalances, failed commits, failed spills

\* What a message turns out to be: fit for the index, of an unknown schema
\* version, without a trustworthy visibility list, or refused by the index
\* with a permanent 4xx (a mapping error, a payload DocFromMessage cannot read).
Kinds == {"good", "schemaInvalid", "visibilityInvalid", "rejected"}

ASSUME ConsumerAssumption ==
    /\ Log \in [Partitions -> Seq(Kinds)]
    /\ BatchSize \in Nat \ {0}
    /\ MaxRetries \in Nat
    /\ MaxFaults \in Nat
    /\ SpillDir \in BOOLEAN

\* A message is named by its partition and its offset, counted from 1.
Messages == UNION {{p} \X (1..Len(Log[p])) : p \in Partitions}
Kind(m)  == Log[m[1]][m[2]]
Offsets  == {0} \cup UNION {1..Len(Log[p]) : p \in Partitions}

VARIABLES
    \* shared
    committed,   \* partition -> offset the group resumes after
    es,          \* messages whose document and derived documents are indexed
    dlq,         \* messages with a record in the dead-letter topic
    spill,       \* messages with a spill file
    faults,      \* faults spent so far
    \* per worker
    pc,          \* where Processor.Run is
    assigned,    \* the partitions the worker believes it owns
    pos,         \* partition -> offset its reader has delivered last
    batch,       \* the messages of the current batch, in fetch order
    disp,        \* their dispositions
    attempt,     \* WriteDLQ attempts spent on the message being routed
    changed,     \* TRUE when the current pass settled a message
    points       \* partition -> offset still to be committed (0: none)

shared == <<committed, es, dlq, spill, faults>>
vars   == <<committed, es, dlq, spill, faults,
            pc, assigned, pos, batch, disp, attempt, changed, points>>

Phases == {"down", "fetch", "precheck", "settle", "commit"}

\* dispOK, dispDLQResolved and dispTransient; "poison" is a dispTransient
\* message that this pass has decided to route to the dead-letter queue.
Dispositions == {"ok", "dlq", "transient", "poison"}

NoOffset == [p \in Partitions |-> 0]

Init ==
    /\ committed = NoOffset
    /\ es = {} /\ dlq = {} /\ spill = {}
    /\ faults = 0
    /\ pc = [w \in Workers |-> "fetch"]
    /\ assigned = [w \in Workers |-> {}]
    /\ pos = [w \in Workers |-> NoOffset]
    /\ batch = [w \in Workers |-> <<>>]
    /\ disp = [w \in Workers |-> <<>>]
    /\ attempt = [w \in Workers |-> 0]
    /\ changed = [w \in Workers |-> FALSE]
    /\ points = [w \in Workers |-> NoOffset]

Fault == faults < MaxFaults /\ faults' = faults + 1

-----------------------------------------------------------------------------
(* The broker and the life of a process *)

Up(w) == pc[w] # "down"

\* The group hands partition p to w, whose reader resumes after the committed
\* offset.
Assign(w, p) ==
    /\ assigned' = [assigned EXCEPT ![w] = @ \cup {p}]
    /\ pos' = [pos EXCEPT ![w][p] = committed[p]]
    /\ UNCHANGED <<committed, es, dlq, spill,
                   pc, batch, disp, attempt, changed, points>>

\* Nobody reads p.
Join(w, p) ==
    /\ Up(w)
    /\ \A v \in Workers : p \notin assigned[v]
    /\ Assign(w, p)
    /\ UNCHANGED faults

\* Another worker reads p, and does not know yet that it no longer should.
TakeOver(w, p) ==
    /\ Up(w) /\ p \notin assigned[w]
    /\ \E v \in Workers : p \in assigned[v]
    /\ Fault
    /\ Assign(w, p)

\* w learns that p is no longer its own; it keeps what it fetched from p.
Revoke(w, p) ==
    /\ p \in assigned[w]
    /\ Fault
    /\ assigned' = [assigned EXCEPT ![w] = @ \ {p}]
    /\ UNCHANGED <<committed, es, dlq, spill,
                   pc, pos, batch, disp, attempt, changed, points>>

\* The process ends; nothing it held in memory survives.
Exit(w) ==
    /\ pc' = [pc EXCEPT ![w] = "down"]
    /\ assigned' = [assigned EXCEPT ![w] = {}]
    /\ pos' = [pos EXCEPT ![w] = NoOffset]
    /\ batch' = [batch EXCEPT ![w] = <<>>]
    /\ disp' = [disp EXCEPT ![w] = <<>>]
    /\ attempt' = [attempt EXCEPT ![w] = 0]
    /\ changed' = [changed EXCEPT ![w] = FALSE]
    /\ points' = [points EXCEPT ![w] = NoOffset]

\* A crash, a SIGTERM seen by any of the ctx checks, a failed first Fetch.
Stop(w) ==
    /\ Up(w)
    /\ Fault
    /\ Exit(w)
    /\ UNCHANGED <<committed, es, dlq, spill>>

Restart(w) ==
    /\ pc[w] = "down"
    /\ pc' = [pc EXCEPT ![w] = "fetch"]
    /\ UNCHANGED <<committed, es, dlq, spill, faults,
                   assigned, pos, batch, disp, attempt, changed, points>>

-----------------------------------------------------------------------------
(* Processor.fetchBatch *)

\* Mutant: a message joins the batch without a disposition of its own.
FetchMessageUntracked(w, p) ==
    /\ pc[w] = "fetch"
    /\ Len(batch[w]) < BatchSize
    /\ p \in assigned[w]
    /\ pos[w][p] < Len(Log[p])
    /\ pos' = [pos EXCEPT ![w][p] = @ + 1]
    /\ batch' = [batch EXCEPT ![w] = Append(@, <<p, pos[w][p] + 1>>)]
    /\ UNCHANGED <<committed, es, dlq, spill, faults,
                   pc, assigned, disp, attempt, changed, points>>

\* The first message is waited for; more are added until the batch is full or
\* no further one arrives in time.
FetchMessage(w, p) ==
    /\ pc[w] = "fetch"
    /\ Len(batch[w]) < BatchSize
    /\ p \in assigned[w]
    /\ pos[w][p] < Len(Log[p])
    /\ pos' = [pos EXCEPT ![w][p] = @ + 1]
    /\ batch' = [batch EXCEPT ![w] = Append(@, <<p, pos[w][p] + 1>>)]
    /\ disp' = [disp EXCEPT ![w] = Append(@, "transient")]
    /\ UNCHANGED <<committed, es, dlq, spill, faults,
                   pc, assigned, attempt, changed, points>>

\* Mutant: the visibility check is left to the index.
StartBatchSchemaOnly(w) ==
    /\ pc[w] = "fetch"
    /\ batch[w] # <<>>
    /\ disp' = [disp EXCEPT ![w] = [i \in DOMAIN @ |->
                   IF Kind(batch[w][i]) = "schemaInvalid" THEN "poison" ELSE "transient"]]
    /\ pc' = [pc EXCEPT ![w] = "precheck"]
    /\ UNCHANGED <<committed, es, dlq, spill, faults,
                   assigned, pos, batch, attempt, changed, points>>

\* The batch is closed and judged: decodeAndValidate on every message, then
\* the visibility check on the ones that passed.
StartBatch(w) ==
    /\ pc[w] = "fetch"
    /\ batch[w] # <<>>
    /\ disp' = [disp EXCEPT ![w] = [i \in DOMAIN @ |->
                   IF Kind(batch[w][i]) \in {"schemaInvalid", "visibilityInvalid"}
                   THEN "poison"
                   ELSE "transient"]]
    /\ pc' = [pc EXCEPT ![w] = "precheck"]
    /\ UNCHANGED <<committed, es, dlq, spill, faults,
                   assigned, pos, batch, attempt, changed, points>>

-----------------------------------------------------------------------------
(* routePoison and dlqHandler.Send: one WriteDLQ at a time, in order *)

With(w, d) == {i \in DOMAIN disp[w] : disp[w][i] = d}

\* The schema failures of a batch are routed before its visibility failures,
\* each in fetch order; the messages the index refused follow the bulk write.
RoutedBefore(w, i, j) ==
    LET schema(k) == Kind(batch[w][k]) = "schemaInvalid"
    IN  \/ schema(i) /\ ~schema(j)
        \/ schema(i) = schema(j) /\ i < j

NextPoison(w, i) ==
    /\ pc[w] \in {"precheck", "settle"}
    /\ i \in With(w, "poison")
    /\ \A j \in With(w, "poison") \ {i} : RoutedBefore(w, i, j)

\* The message is dead-lettered, its offset may be passed.
Routed(w, i) ==
    /\ disp' = [disp EXCEPT ![w][i] = "dlq"]
    /\ attempt' = [attempt EXCEPT ![w] = 0]
    /\ changed' = [changed EXCEPT ![w] = TRUE]
    /\ UNCHANGED <<committed, es, pc, assigned, pos, batch, points>>

WriteDLQ(w) ==
    /\ attempt[w] <= MaxRetries
    /\ \E i \in DOMAIN batch[w] :
         /\ NextPoison(w, i)
         /\ dlq' = dlq \cup {batch[w][i]}
         /\ Routed(w, i)
    /\ UNCHANGED <<spill, faults>>

\* Mutant: retries start over instead of escaping.
WriteDLQFailsForEver(w) ==
    /\ attempt[w] <= MaxRetries
    /\ \E i \in DOMAIN batch[w] : NextPoison(w, i)
    /\ attempt' = [attempt EXCEPT ![w] = (@ + 1) % (MaxRetries + 1)]
    /\ UNCHANGED <<committed, es, dlq, spill, faults,
                   pc, assigned, pos, batch, disp, changed, points>>

\* The write fails, or succeeds and its acknowledgement is lost.
WriteDLQFails(w) ==
    /\ attempt[w] <= MaxRetries
    /\ \E i \in DOMAIN batch[w] :
         /\ NextPoison(w, i)
         /\ dlq' \in {dlq, dlq \cup {batch[w][i]}}
    /\ attempt' = [attempt EXCEPT ![w] = @ + 1]
    /\ UNCHANGED <<committed, es, spill, faults,
                   pc, assigned, pos, batch, disp, changed, points>>

\* Mutant: the offset is passed without a spill file.
SpillNothing(w) ==
    /\ attempt[w] > MaxRetries
    /\ SpillDir
    /\ \E i \in DOMAIN batch[w] : NextPoison(w, i) /\ Routed(w, i)
    /\ UNCHANGED <<spill, dlq, faults>>

\* Retries are exhausted: the record goes to a local file ...
Spill(w) ==
    /\ attempt[w] > MaxRetries
    /\ SpillDir
    /\ \E i \in DOMAIN batch[w] :
         /\ NextPoison(w, i)
         /\ spill' = spill \cup {batch[w][i]}
         /\ Routed(w, i)
    /\ UNCHANGED <<dlq, faults>>

\* ... or, without a spill directory or when the file cannot be written, the
\* worker stops before its offset.
HardStop(w) ==
    /\ attempt[w] > MaxRetries
    /\ ~SpillDir
    /\ Exit(w)
    /\ UNCHANGED <<committed, es, dlq, spill, faults>>

SpillFails(w) ==
    /\ attempt[w] > MaxRetries
    /\ SpillDir
    /\ Fault
    /\ Exit(w)
    /\ UNCHANGED <<committed, es, dlq, spill>>

-----------------------------------------------------------------------------
(* Writer.Bulk and the end of a pass *)

\* Mutant: a version conflict counts as permanent.
ConflictIsPermanent(status) == status \in 400..499 /\ status # 429

\* Statuses of one item of a bulk response; 0 stands for no answer at all.
isPermanentStatus(status) == status \in 400..499 /\ status \notin {409, 429}

classifyBulk(status) ==
    IF status = 200 THEN "ok"
    ELSE IF isPermanentStatus(status) THEN "poison"
    ELSE "transient"

\* What the index may do with a message and answer.  A document it accepts is
\* written for certain only if the answer is 200; without an answer it may be.
Answers(kind) ==
    IF kind = "rejected"
    THEN [status : {0, 400, 429}, written : {FALSE}]
    ELSE {[status |-> 200, written |-> TRUE], [status |-> 0, written |-> TRUE]}
         \cup [status : {0, 409, 429, 503}, written : {FALSE}]

Bulk(w, answer) ==
    /\ pc[w] = "precheck"
    /\ With(w, "poison") = {}
    /\ With(w, "transient") # {}
    /\ \A i \in With(w, "transient") : answer[i] \in Answers(Kind(batch[w][i]))
    /\ es' = es \cup {batch[w][i] : i \in {j \in With(w, "transient") : answer[j].written}}
    /\ disp' = [disp EXCEPT ![w] = [i \in DOMAIN @ |->
                   IF @[i] = "transient" THEN classifyBulk(answer[i].status) ELSE @[i]]]
    /\ changed' = [changed EXCEPT ![w] =
                   @ \/ \E i \in With(w, "transient") : answer[i].status = 200]
    /\ pc' = [pc EXCEPT ![w] = "settle"]
    /\ UNCHANGED <<committed, dlq, spill, faults,
                   assigned, pos, batch, attempt, points>>

AllAnswers == UNION {Answers(k) : k \in Kinds}
BulkSome(w) == \E answer \in [With(w, "transient") -> AllAnswers] : Bulk(w, answer)

\* Every message still in flight gets a final answer.
BulkSettles(w) ==
    \E answer \in [With(w, "transient") -> AllAnswers] :
        /\ Bulk(w, answer)
        /\ \A i \in With(w, "transient") : answer[i].status \in {200, 400}

\* Mutant: the last message that needs no retry, whatever lies before it.
LastSettledPoint(w, p, tie, n) ==
    LET done == {o \in 1..Len(Log[p]) : \E i \in DOMAIN batch[w] :
                    batch[w][i] = <<p, o>> /\ disp[w][i] # "transient"}
    IN  \/ n = 0 /\ done = {}
        \/ n \in done /\ \A o \in done : o <= n

\* n is the offset partitionCommitPoints yields for p: the last of p's messages
\* that lies before every transient one (0: none).  After a rebalance a batch
\* may hold an offset twice, and sort.Slice leaves open which comes first.
PartitionCommitPoint(w, p, tie, n) ==
    LET of(o)       == {i \in DOMAIN batch[w] : batch[w][i] = <<p, o>>}
        transient   == {o \in 1..Len(Log[p]) :
                           \E i \in of(o) : disp[w][i] = "transient"}
        passable    == {o \in 1..Len(Log[p]) :
                           /\ \E i \in of(o) : disp[w][i] # "transient"
                           /\ \A t \in transient : o < t \/ (tie /\ o = t)}
    IN  \/ n = 0 /\ passable = {}
        \/ n \in passable /\ \A o \in passable : o <= n

\* A pass that settled something commits; any other is retried after a backoff.
EndPass(w) ==
    /\ \/ pc[w] = "settle"
       \/ pc[w] = "precheck" /\ With(w, "transient") = {}
    /\ With(w, "poison") = {}
    /\ IF changed[w]
       THEN /\ pc' = [pc EXCEPT ![w] = "commit"]
            /\ \E tie \in BOOLEAN, pts \in [Partitions -> Offsets] :
                 /\ \A p \in Partitions : PartitionCommitPoint(w, p, tie, pts[p])
                 /\ points' = [points EXCEPT ![w] = pts]
       ELSE /\ pc' = [pc EXCEPT ![w] = "precheck"]
            /\ UNCHANGED points
    /\ changed' = [changed EXCEPT ![w] = FALSE]
    /\ UNCHANGED <<committed, es, dlq, spill, faults,
                   assigned, pos, batch, disp, attempt>>

-----------------------------------------------------------------------------
(* commitPrefixes: one partition at a time, in map order *)

Commit(w, p) ==
    /\ pc[w] = "commit"
    /\ points[w][p] > 0
    /\ committed' = [committed EXCEPT ![p] = points[w][p]]
    /\ points' = [points EXCEPT ![w][p] = 0]
    /\ UNCHANGED <<es, dlq, spill, faults,
                   pc, assigned, pos, batch, disp, attempt, changed>>

\* A failed commit ends the worker; the broker may have recorded it all the same.
CommitFails(w, p) ==
    /\ pc[w] = "commit"
    /\ points[w][p] > 0
    /\ Fault
    /\ committed' \in {committed, [committed EXCEPT ![p] = points[w][p]]}
    /\ Exit(w)
    /\ UNCHANGED <<es, dlq, spill>>

\* Mutant: the next batch is fetched while something is transient.
FinishBatchEarly(w) ==
    /\ pc[w] = "commit"
    /\ points[w] = NoOffset
    /\ pc' = [pc EXCEPT ![w] = "fetch"]
    /\ batch' = [batch EXCEPT ![w] = <<>>]
    /\ disp' = [disp EXCEPT ![w] = <<>>]
    /\ UNCHANGED <<committed, es, dlq, spill, faults,
                   assigned, pos, attempt, changed, points>>

\* Everything of the batch is settled: fetch the next one.
FinishBatch(w) ==
    /\ pc[w] = "commit"
    /\ points[w] = NoOffset
    /\ With(w, "transient") = {}
    /\ pc' = [pc EXCEPT ![w] = "fetch"]
    /\ batch' = [batch EXCEPT ![w] = <<>>]
    /\ disp' = [disp EXCEPT ![w] = <<>>]
    /\ UNCHANGED <<committed, es, dlq, spill, faults,
                   assigned, pos, attempt, changed, points>>

\* Something is transient: the same batch again, nothing new is fetched.
RetryBatch(w) ==
    /\ pc[w] = "commit"
    /\ points[w] = NoOffset
    /\ With(w, "transient") # {}
    /\ pc' = [pc EXCEPT ![w] = "precheck"]
    /\ UNCHANGED <<committed, es, dlq, spill, faults,
                   assigned, pos, batch, disp, attempt, changed, points>>

-----------------------------------------------------------------------------
Step(w) ==
    \/ StartBatch(w) \/ WriteDLQ(w) \/ WriteDLQFails(w)
    \/ Spill(w) \/ HardStop(w) \/ SpillFails(w)
    \/ BulkSome(w) \/ EndPass(w) \/ FinishBatch(w) \/ RetryBatch(w)
    \/ \E p \in Partitions : FetchMessage(w, p) \/ Commit(w, p)

\* Every reader is blocked in Fetch at the end of its partitions.
CaughtUp ==
    /\ \A w \in Workers : pc[w] = "fetch" /\ batch[w] = <<>>
    /\ \A w \in Workers : \A p \in assigned[w] : pos[w][p] = Len(Log[p])
    /\ \A p \in Partitions : \E w \in Workers : p \in assigned[w]
    /\ UNCHANGED vars

Next ==
    \/ \E w \in Workers :
        \/ Step(w)
        \/ Stop(w)
        \/ Restart(w)
        \/ \E p \in Partitions : Join(w, p) \/ TakeOver(w, p) \/ Revoke(w, p)
                                \/ CommitFails(w, p)
    \/ CaughtUp

Spec == Init /\ [][Next]_vars

\* The worker's loop runs, a dead process is restarted, a partition that nobody
\* reads is assigned, and an index that is asked again and again recovers.
Fairness ==
    \A w \in Workers :
        /\ WF_vars(\E p \in Partitions : FetchMessage(w, p))
        /\ WF_vars(StartBatch(w) \/ BulkSome(w) \/ EndPass(w))
        /\ WF_vars(WriteDLQ(w) \/ WriteDLQFails(w))
        /\ WF_vars(Spill(w) \/ HardStop(w))
        /\ WF_vars(FinishBatch(w) \/ RetryBatch(w))
        /\ WF_vars(\E p \in Partitions : Commit(w, p))
        /\ WF_vars(Restart(w))
        /\ SF_vars(BulkSettles(w))
        /\ \A p \in Partitions : WF_vars(Join(w, p))

FairSpec == Spec /\ Fairness
-----------------------------------------------------------------------------
(* Properties *)

TypeOK ==
    /\ committed \in [Partitions -> Nat]
    /\ es \subseteq Messages
    /\ dlq \subseteq Messages
    /\ spill \subseteq Messages
    /\ faults \in Nat
    /\ pc \in [Workers -> Phases]
    /\ assigned \in [Workers -> SUBSET Partitions]
    /\ pos \in [Workers -> [Partitions -> Nat]]
    /\ batch \in [Workers -> Seq(Messages)]
    /\ disp \in [Workers -> Seq(Dispositions)]
    /\ \A w \in Workers : Len(disp[w]) = Len(batch[w])
    /\ attempt \in [Workers -> Nat]
    /\ changed \in [Workers -> BOOLEAN]
    /\ points \in [Workers -> [Partitions -> Nat]]

Settled    == es \cup dlq \cup spill
InBatch(w) == {batch[w][i] : i \in DOMAIN batch[w]}

\* No message is lost: whatever the group has committed is indexed, in the
\* dead-letter topic or in a spill file.  Workers of old and new generations
\* commit the same partition here, each from its own batch.
NoLoss ==
    \A m \in Messages : m[2] <= committed[m[1]] => m \in Settled

\* A reader never runs ahead of what its worker answers for: each message
\* behind the read position is settled or in the batch being retried.
ReaderCovered ==
    \A w \in Workers, m \in Messages :
        m[2] <= pos[w][m[1]] => m \in Settled \cup InBatch(w)

\* A message whose schema or visibility list cannot be trusted is never
\* written to the index, whatever is retried and whoever takes over.
UntrustedNeverIndexed ==
    \A m \in es : Kind(m) \notin {"schemaInvalid", "visibilityInvalid"}

\* A message fit for the index is never dead-lettered or spilled because the
\* index was overloaded, in conflict or out of reach when it was tried.
OnlyPoisonDeadLettered ==
    \A m \in dlq \cup spill : Kind(m) # "good"

\* Nothing blocks a partition for good: once the faults are over every message
\* is settled and committed.  With a spill directory this holds even when the
\* dead-letter topic never takes another record.
EventuallyCommitted ==
    \A p \in Partitions : <>(committed[p] = Len(Log[p]))

\* The consumer keeps the promise of every stage of the pipeline.
Promise == INSTANCE AtLeastOnce WITH
    Streams <- Partitions, Items <- Messages,
    settled <- Settled, cursor <- committed
ImplementsAtLeastOnce == Promise!Spec
=============================================================================
