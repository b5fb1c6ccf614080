---------------------------- MODULE FileExtractor ----------------------------
(***************************************************************************)
(* The file-extractor (internal/fileextract): it reads the message topic   *)
(* in a consumer group of its own, extracts the text of every file message *)
(* and adds it to the document the es-indexer writes for that message.  A  *)
(* message is tried a bounded number of times; what cannot be extracted is *)
(* dead-lettered, and when the file itself is to blame its document gets a *)
(* tombstone that hides it from the file-content backfill.                 *)
(*                                                                         *)
(* One process with one reader is modelled.  A change of generation of the *)
(* group is a reader that resumes after the committed offset although the  *)
(* process still holds what it fetched before.                             *)
(***************************************************************************)
EXTENDS Integers, Sequences

CONSTANTS
    Partitions,    \* the partitions of the message topic
    Log,           \* partition -> the kinds of its messages, in offset order
    BatchSize,     \* ServiceConfig.BatchSize
    MaxAttempts,   \* ServiceConfig.MaxRetriesPerMessage
    MaxRetries,    \* dlqHandlerConfig.MaxRetries
    SpillDir,      \* TRUE when dlqHandlerConfig.SpillDir is set
    MaxFaults,     \* bound: stops, rebalances, failed calls of other systems
    MaxFetchErrors \* bound: fetch errors that hit a started batch

\* Not JSON, not a file, a file with text in it, a file no attempt gets text
\* from (blacklisted, oversize, encrypted, empty, a refused URL).
Kinds == {"unreadable", "other", "file", "textless"}

ASSUME ExtractorAssumption ==
    /\ Log \in [Partitions -> Seq(Kinds)]
    /\ BatchSize \in Nat \ {0}
    /\ MaxAttempts \in Nat \ {0}
    /\ MaxRetries \in Nat
    /\ SpillDir \in BOOLEAN
    /\ MaxFaults \in Nat /\ MaxFetchErrors \in Nat

Messages == UNION {{p} \X (1..Len(Log[p])) : p \in Partitions}
Kind(m)  == Log[m[1]][m[2]]
Offsets  == {0} \cup UNION {1..Len(Log[p]) : p \in Partitions}

VARIABLES
    \* the broker
    committed,   \* partition -> offset the group resumes after
    dlq,         \* messages with a record in the dead-letter topic
    \* the documents in the index
    indexed,     \* messages whose document the es-indexer has written
    content,     \* documents with payload.file.content
    tombstone,   \* documents whose contentMeta.status is "unextractable"
    \* the local disk and the counters of the bounds
    spill,       \* messages with a spill file
    faults, fetchErrors,
    \* the process
    pc,          \* where Processor.Run is
    pos,         \* partition -> offset the reader has delivered last
    batch,       \* the messages of the batch, in fetch order
    disp,        \* their dispositions
    attempts,    \* the attempts made at each
    todo,        \* the indices this pass has still to look at
    changed,     \* TRUE when this pass settled a message
    writes,      \* WriteDLQ attempts spent on the message being routed
    points,      \* partition -> offset still to be committed (0: none)
    \* history
    passed,      \* messages that are no files and were passed over
    dropped      \* messages a failed fetchBatch has thrown away

broker  == <<committed, dlq>>
index   == <<indexed, content, tombstone>>
bounds  == <<faults, fetchErrors>>
reading == <<pos, batch>>
trying  == <<disp, attempts, todo, changed, writes, points>>
history == <<passed, dropped>>
vars == <<committed, dlq, indexed, content, tombstone, spill, faults,
          fetchErrors, pc, pos, batch, disp, attempts, todo, changed, writes,
          points, passed, dropped>>

Phases       == {"down", "fetch", "pass", "route", "commit"}
Dispositions == {"ok", "dlq", "transient"}
NoOffset     == [p \in Partitions |-> 0]

Init ==
    /\ committed = NoOffset
    /\ dlq = {} /\ indexed = {} /\ content = {} /\ tombstone = {} /\ spill = {}
    /\ faults = 0 /\ fetchErrors = 0
    /\ pc = "fetch"
    /\ pos = NoOffset
    /\ batch = <<>> /\ disp = <<>> /\ attempts = <<>>
    /\ todo = {} /\ changed = FALSE /\ writes = 0
    /\ points = NoOffset
    /\ passed = {} /\ dropped = {}

Fault == faults < MaxFaults /\ faults' = faults + 1 /\ UNCHANGED fetchErrors

-----------------------------------------------------------------------------
(* The surroundings *)

\* The es-indexer, a group of its own, writes the document of a message; a
\* rewrite keeps content and contentMeta (scripted_upsert).
IndexDocument(m) ==
    /\ Kind(m) \in {"file", "textless"}
    /\ m \notin indexed
    /\ indexed' = indexed \cup {m}
    /\ UNCHANGED <<broker, content, tombstone, spill, bounds, pc, reading,
                   trying, history>>

\* The process ends; nothing it held in memory survives.
Exit ==
    /\ pc' = "down"
    /\ pos' = NoOffset
    /\ batch' = <<>> /\ disp' = <<>> /\ attempts' = <<>>
    /\ todo' = {} /\ changed' = FALSE /\ writes' = 0
    /\ points' = NoOffset

\* A crash, or a SIGTERM seen at any of the ctx checks.
Stop ==
    /\ pc # "down"
    /\ Fault
    /\ Exit
    /\ UNCHANGED <<broker, index, spill, history>>

\* The reader of the new process resumes after the committed offsets.
Restart ==
    /\ pc = "down"
    /\ pc' = "fetch"
    /\ pos' = committed
    /\ UNCHANGED <<broker, index, spill, bounds, batch, trying, history>>

Rebalance(p) ==
    /\ pc # "down"
    /\ pos[p] # committed[p]
    /\ Fault
    /\ pos' = [pos EXCEPT ![p] = committed[p]]
    /\ UNCHANGED <<broker, index, spill, pc, batch, trying, history>>

-----------------------------------------------------------------------------
(* fetchBatch *)

FetchMessage(p) ==
    /\ pc = "fetch"
    /\ Len(batch) < BatchSize
    /\ pos[p] < Len(Log[p])
    /\ pos' = [pos EXCEPT ![p] = @ + 1]
    /\ batch' = Append(batch, <<p, pos[p] + 1>>)
    /\ UNCHANGED <<broker, index, spill, bounds, pc, trying, history>>

InBatch == {batch[i] : i \in DOMAIN batch}

\* An error that is no timeout: Run logs it, sleeps and fetches again.  What
\* the batch held is gone, and the reader is already behind it.
FetchError ==
    /\ pc = "fetch"
    /\ batch # <<>> /\ Len(batch) < BatchSize
    /\ fetchErrors < MaxFetchErrors
    /\ fetchErrors' = fetchErrors + 1
    /\ dropped' = dropped \cup InBatch
    /\ batch' = <<>>
    /\ UNCHANGED <<broker, index, spill, faults, pc, pos, trying, passed>>

\* The batch is full, or no further message arrives in time.
StartBatch ==
    /\ pc = "fetch"
    /\ batch # <<>>
    /\ disp' = [i \in DOMAIN batch |-> "transient"]
    /\ attempts' = [i \in DOMAIN batch |-> 0]
    /\ todo' = DOMAIN batch
    /\ pc' = "pass"
    /\ UNCHANGED <<broker, index, spill, bounds, reading, changed, writes,
                   points, history>>

-----------------------------------------------------------------------------
(* A pass of processBatch: attemptOne and ExtractAndWrite, in fetch order *)

Current(i) == i \in todo /\ \A j \in todo : i <= j

\* Mutant: the attempts are counted but never compared.
TryingAlways(i) ==
    /\ pc = "pass"
    /\ Current(i)
    /\ attempts' = [attempts EXCEPT ![i] = @ + 1]
    /\ UNCHANGED <<broker, indexed, spill, reading, writes, points, dropped>>

Trying(i) ==
    /\ pc = "pass"
    /\ Current(i)
    /\ attempts[i] < MaxAttempts
    /\ attempts' = [attempts EXCEPT ![i] = @ + 1]
    /\ UNCHANGED <<broker, indexed, spill, reading, writes, points, dropped>>

\* The message is settled, is tried again in the next pass, goes to the
\* dead-letter queue.
Settle(i, d) ==
    /\ disp' = [disp EXCEPT ![i] = d]
    /\ todo' = todo \ {i}
    /\ changed' = TRUE
    /\ pc' = "pass"
Again(i) == todo' = todo \ {i} /\ UNCHANGED <<disp, changed, pc>>
Route    == pc' = "route" /\ UNCHANGED <<disp, todo, changed>>

PassOver(i) ==
    /\ Trying(i)
    /\ Kind(batch[i]) = "other"
    /\ passed' = passed \cup {batch[i]}
    /\ Settle(i, "ok")
    /\ UNCHANGED <<content, tombstone, bounds>>

Reject(i) ==
    /\ Trying(i)
    /\ Kind(batch[i]) = "unreadable"
    /\ Route
    /\ UNCHANGED <<content, tombstone, bounds, passed>>

Extract(i) ==
    /\ Trying(i)
    /\ Kind(batch[i]) = "file" /\ batch[i] \in indexed
    /\ content' = content \cup {batch[i]}
    /\ Settle(i, "ok")
    /\ UNCHANGED <<tombstone, bounds, passed>>

\* The update finds no document: the es-indexer has not been here yet.
DocNotYet(i) ==
    /\ Trying(i)
    /\ Kind(batch[i]) = "file" /\ batch[i] \notin indexed
    /\ Again(i)
    /\ UNCHANGED <<content, tombstone, bounds, passed>>

\* The tombstone comes before the dead letter; without a document there is
\* none.
WriteTombstone(i) == tombstone' = tombstone \cup ({batch[i]} \cap indexed)

\* Mutant: the message counts as settled without a dead letter.
RefuseSilently(i) ==
    /\ Trying(i)
    /\ Kind(batch[i]) = "textless"
    /\ WriteTombstone(i)
    /\ Settle(i, "dlq")
    /\ UNCHANGED <<content, bounds, passed>>

Refuse(i) ==
    /\ Trying(i)
    /\ Kind(batch[i]) = "textless"
    /\ WriteTombstone(i)
    /\ Route
    /\ UNCHANGED <<content, bounds, passed>>

\* The download fails, Tika does not begin to answer within its timeout, the index
\* answers with a permanent 4xx or refuses the tombstone.
CallFails(i) ==
    /\ Trying(i)
    /\ Kind(batch[i]) \in {"file", "textless"}
    /\ Fault
    /\ Route
    /\ UNCHANGED <<content, tombstone, passed>>

\* Tika cannot be reached, answers with anything but 200, or its answer breaks off
\* or runs into the deadline while it is read: extract_error.
TikaFails(i) ==
    /\ Trying(i)
    /\ Kind(batch[i]) = "file"
    /\ Fault
    /\ WriteTombstone(i)
    /\ Route
    /\ UNCHANGED <<content, passed>>

\* The index is overloaded, or its answer to the update is lost.
UpdateFails(i) ==
    /\ Trying(i)
    /\ Kind(batch[i]) = "file"
    /\ Fault
    /\ content' \in {content, content \cup ({batch[i]} \cap indexed)}
    /\ Again(i)
    /\ UNCHANGED <<tombstone, passed>>

\* Mutant: a message that has used up its attempts is tried for ever.
NeverGiveUp(i) ==
    /\ pc = "pass"
    /\ Current(i)
    /\ attempts[i] >= MaxAttempts
    /\ Again(i)
    /\ UNCHANGED <<broker, index, spill, bounds, reading, attempts, writes,
                   points, history>>

\* retry_exhausted: the message goes to the dead-letter queue untried.
GiveUp(i) ==
    /\ pc = "pass"
    /\ Current(i)
    /\ attempts[i] >= MaxAttempts
    /\ Route
    /\ UNCHANGED <<broker, index, spill, bounds, reading, attempts, writes,
                   points, history>>

-----------------------------------------------------------------------------
(* dlqHandler.Send *)

DeadLettered(i) ==
    /\ Settle(i, "dlq")
    /\ writes' = 0
    /\ UNCHANGED <<committed, index, fetchErrors, reading, attempts, points,
                   history>>

WriteDLQ(i) ==
    /\ pc = "route" /\ Current(i)
    /\ writes <= MaxRetries
    /\ dlq' = dlq \cup {batch[i]}
    /\ DeadLettered(i)
    /\ UNCHANGED <<spill, faults>>

\* The write fails, or succeeds and its acknowledgement is lost.
WriteDLQFails(i) ==
    /\ pc = "route" /\ Current(i)
    /\ writes <= MaxRetries
    /\ dlq' \in {dlq, dlq \cup {batch[i]}}
    /\ writes' = writes + 1
    /\ UNCHANGED <<committed, index, spill, bounds, pc, reading, disp,
                   attempts, todo, changed, points, history>>

Spill(i) ==
    /\ pc = "route" /\ Current(i)
    /\ writes > MaxRetries
    /\ SpillDir
    /\ spill' = spill \cup {batch[i]}
    /\ DeadLettered(i)
    /\ UNCHANGED <<dlq, faults>>

\* No spill directory, or the file cannot be written: outcomeFatal.
HardStop ==
    /\ pc = "route"
    /\ writes > MaxRetries
    /\ IF SpillDir THEN Fault ELSE UNCHANGED bounds
    /\ Exit
    /\ UNCHANGED <<broker, index, spill, history>>

-----------------------------------------------------------------------------
(* The end of a pass *)

Transient == {i \in DOMAIN batch : disp[i] = "transient"}

\* Mutant: p's last settled message, whatever is transient before it.
LastOfBatch(p, tie, n) ==
    LET done == {i \in DOMAIN batch : disp[i] # "transient" /\ batch[i][1] = p}
    IN  \/ n = 0 /\ done = {}
        \/ \E i \in done : n = batch[i][2] /\ \A j \in done : j <= i

\* n is the offset partitionCommitPoints yields for p: the last one before p's
\* first transient message (0: none).  Of an offset that is in the batch twice
\* either may be sorted first.
PartitionCommitPoint(p, tie, n) ==
    LET blocked  == {batch[i][2] : i \in {j \in Transient : batch[j][1] = p}}
        passable == {batch[i][2] : i \in {j \in DOMAIN batch \ Transient :
                        /\ batch[j][1] = p
                        /\ \A o \in blocked : batch[j][2] < o + (IF tie THEN 1 ELSE 0)}}
    IN  \/ n = 0 /\ passable = {}
        \/ n \in passable /\ \A o \in passable : o <= n

EndPass ==
    /\ pc = "pass"
    /\ todo = {}
    /\ IF changed
       THEN /\ \E tie \in BOOLEAN, pts \in [Partitions -> Offsets] :
                 /\ \A p \in Partitions : PartitionCommitPoint(p, tie, pts[p])
                 /\ points' = pts
            /\ pc' = "commit"
            /\ UNCHANGED todo
       ELSE /\ todo' = Transient
            /\ UNCHANGED <<pc, points>>
    /\ changed' = FALSE
    /\ UNCHANGED <<broker, index, spill, bounds, reading, disp, attempts,
                   writes, history>>

Commit(p) ==
    /\ pc = "commit"
    /\ points[p] > 0
    /\ committed' = [committed EXCEPT ![p] = points[p]]
    /\ points' = [points EXCEPT ![p] = 0]
    /\ UNCHANGED <<dlq, index, spill, bounds, pc, reading, disp, attempts,
                   todo, changed, writes, history>>

\* A failed commit ends the process; it may have been recorded all the same.
CommitFails(p) ==
    /\ pc = "commit"
    /\ points[p] > 0
    /\ Fault
    /\ committed' \in {committed, [committed EXCEPT ![p] = points[p]]}
    /\ Exit
    /\ UNCHANGED <<dlq, index, spill, history>>

\* Mutant: the next batch is fetched while something is transient.
FinishBatchEarly ==
    /\ pc = "commit"
    /\ points = NoOffset
    /\ pc' = "fetch"
    /\ batch' = <<>> /\ disp' = <<>> /\ attempts' = <<>>
    /\ UNCHANGED <<broker, index, spill, bounds, pos, todo, changed, writes,
                   points, history>>

FinishBatch ==
    /\ pc = "commit"
    /\ points = NoOffset
    /\ Transient = {}
    /\ pc' = "fetch"
    /\ batch' = <<>> /\ disp' = <<>> /\ attempts' = <<>>
    /\ UNCHANGED <<broker, index, spill, bounds, pos, todo, changed, writes,
                   points, history>>

NextPass ==
    /\ pc = "commit"
    /\ points = NoOffset
    /\ Transient # {}
    /\ todo' = Transient
    /\ pc' = "pass"
    /\ UNCHANGED <<broker, index, spill, bounds, reading, disp, attempts,
                   changed, writes, points, history>>

-----------------------------------------------------------------------------
Attempt(i) ==
    \/ PassOver(i) \/ Reject(i) \/ Extract(i) \/ DocNotYet(i) \/ Refuse(i)
    \/ GiveUp(i)

\* What the loop does by itself, whatever answers it gets.
Loop ==
    \/ StartBatch \/ EndPass \/ FinishBatch \/ NextPass
    \/ \E p \in Partitions : FetchMessage(p) \/ Commit(p)
    \/ \E i \in todo : Attempt(i) \/ WriteDLQ(i) \/ WriteDLQFails(i) \/ Spill(i)

\* Fetch blocks at the end of the partitions.
CaughtUp ==
    /\ pc = "fetch" /\ batch = <<>>
    /\ \A p \in Partitions : pos[p] = Len(Log[p])
    /\ UNCHANGED vars

Next ==
    \/ Loop
    \/ HardStop
    \/ \E i \in todo : CallFails(i) \/ TikaFails(i) \/ UpdateFails(i)
    \/ FetchError \/ Stop \/ Restart
    \/ \E p \in Partitions : Rebalance(p) \/ CommitFails(p)
    \/ \E m \in Messages : IndexDocument(m)
    \/ CaughtUp

Spec == Init /\ [][Next]_vars

\* The loop runs, also over a batch that stays short, and a process that has
\* ended is restarted.
Fairness ==
    /\ WF_vars(Loop)
    /\ WF_vars(StartBatch)
    /\ WF_vars(Restart)

FairSpec == Spec /\ Fairness
-----------------------------------------------------------------------------
(* Properties *)

TypeOK ==
    /\ committed \in [Partitions -> Nat]
    /\ \A set \in {dlq, indexed, content, tombstone, spill, passed, dropped} :
           set \subseteq Messages
    /\ faults \in Nat /\ fetchErrors \in Nat
    /\ pc \in Phases
    /\ pos \in [Partitions -> Nat]
    /\ batch \in Seq(Messages)
    /\ disp \in Seq(Dispositions) /\ attempts \in Seq(0..MaxAttempts)
    /\ pc \in {"pass", "route", "commit"} =>
           Len(disp) = Len(batch) /\ Len(attempts) = Len(batch)
    /\ todo \subseteq DOMAIN disp
    /\ changed \in BOOLEAN
    /\ writes \in 0..(MaxRetries + 1)
    /\ points \in [Partitions -> Nat]

Settled == passed \cup content \cup dlq \cup spill

\* What the group has committed is settled or was thrown away by a fetch error:
\* no order of retries, crashes, rebalances and failed commits loses anything.
LostOnlyByFetchError ==
    \A m \in Messages : m[2] <= committed[m[1]] => m \in Settled \cup dropped

\* The same for the reader: what it is behind is settled, in the batch, or
\* thrown away.
ReaderCovered ==
    \A m \in Messages :
        m[2] <= pos[m[1]] => m \in Settled \cup InBatch \cup dropped

\* Nothing committed is lost.  (A fetch error on a started batch loses what the
\* batch holds as soon as a later message is committed.)
NoLoss ==
    \A m \in Messages : m[2] <= committed[m[1]] => m \in Settled

\* A message whose document never appears does not hold its partition for ever:
\* its attempts are counted and everything no fetch error threw away is
\* committed in the end, whatever the index, Tika and the dead-letter topic
\* answer.
EventuallyCommitted ==
    \A m \in Messages : <>(m[2] <= committed[m[1]] \/ m \in dropped)

\* But for what fetch errors throw away the extractor keeps the promise of every
\* stage of the pipeline.
Promise == INSTANCE AtLeastOnce WITH
    Streams <- Partitions, Items <- Messages,
    settled <- Settled \cup dropped, cursor <- committed
ImplementsAtLeastOnce == Promise!Spec
=============================================================================
