------------------------------ MODULE Backfill ------------------------------
(***************************************************************************)
(* The backfill (internal/backfill, cmd/backfill): a one-shot job that     *)
(* reads the message tables page by page and writes them into the index    *)
(* past Kafka.  A row that cannot be indexed is recorded in a local spill  *)
(* file.  How far a table is done is kept in a checkpoint file, how much   *)
(* of the spill file is known to be on disk in a sidecar file; a job that  *)
(* was interrupted is started again and resumes from the three.            *)
(*                                                                         *)
(* The tables hold history: no row is added to them.  A checkpoint path is *)
(* configured (without one the job cannot be resumed).                     *)
(***************************************************************************)
EXTENDS Integers, Sequences, FiniteSets

CONSTANTS
    Tables,     \* number of tables, worked off in order
    Log,        \* table -> the kinds of its rows, in id order
    BatchSize,  \* Config.BatchSize
    MaxFaults   \* bound: stops, crashes, failed calls of the file system

\* What becomes of a row: it gets into the index; its payload cannot be read;
\* the index refuses it; the index takes it but refuses a virtual child of it.
Kinds == {"good", "unreadable", "refused", "childRefused"}

ASSUME BackfillAssumption ==
    /\ Tables \in Nat
    /\ Log \in [1..Tables -> Seq(Kinds)]
    /\ BatchSize \in Nat \ {0}
    /\ MaxFaults \in Nat

Rows    == UNION {{t} \X (1..Len(Log[t])) : t \in 1..Tables}
Kind(r) == Log[r[1]][r[2]]

\* Bytes of the spill file that are no record: written in part, or lost in part.
Garbage == <<0, 0>>

VARIABLES
    es,          \* the rows with a document in the index
    \* on disk
    checkpoint,  \* table -> id up to which it is done (checkpoint.json)
    file,        \* the records of the spill file, as any process reads them
    flushed,     \* how many of these survive a crash of the host
    sidecar,     \* length of the spill file that counts (backfill-dlq.synced)
    \* the job
    pc,          \* where Runner.Run is
    table,       \* the table it works on
    last,        \* last id of the page
    toSpill,     \* rows of the page to be recorded before it goes on
    remaining,   \* rows of the page the index has not taken or refused yet
    seen,        \* DLQSpill.seen
    pendingLen,  \* DLQSpill.pendingLen, in records
    syncedLen,   \* DLQSpill.syncedLen, in records
    faults

disk == <<checkpoint, file, flushed, sidecar>>
page == <<last, toSpill, remaining>>
dlq  == <<seen, pendingLen, syncedLen>>
vars == <<es, checkpoint, file, flushed, sidecar, pc, table, last, toSpill,
          remaining, seen, pendingLen, syncedLen, faults>>

Phases == {"down", "read", "write", "sync", "sidecar", "advance", "close",
           "done"}

Init ==
    /\ es = {}
    /\ checkpoint = [t \in 1..Tables |-> 0]
    /\ file = <<>> /\ flushed = 0 /\ sidecar = 0
    /\ pc = "down"
    /\ table = 1 /\ last = 0 /\ toSpill = {} /\ remaining = {}
    /\ seen = {} /\ pendingLen = 0 /\ syncedLen = 0
    /\ faults = 0

Fault == faults < MaxFaults /\ faults' = faults + 1
Lower(a, b) == IF a < b THEN a ELSE b
Records(n)  == {file[i] : i \in 1..n}

-----------------------------------------------------------------------------
(* Start: OpenCheckpoint and OpenDLQSpill *)

\* parseSyncedSpillPrefix finds records only, and all that the sidecar counts.
Recoverable ==
    /\ sidecar <= Len(file)
    /\ \A i \in 1..sidecar : file[i] \in Rows

\* Mutant: the length is taken before the file is cut off.
OpenMeasuredFirst ==
    /\ pc = "down"
    /\ Recoverable
    /\ file' = SubSeq(file, 1, sidecar)
    /\ flushed' = Lower(flushed, sidecar)
    /\ seen' = Records(sidecar)
    /\ pendingLen' = sidecar /\ syncedLen' = Len(file)
    /\ pc' = "read" /\ table' = 1
    /\ UNCHANGED <<es, checkpoint, sidecar, page, faults>>

\* Everything behind the sidecar is cut off, the rest is known again.
Open ==
    /\ pc = "down"
    /\ Recoverable
    /\ file' = SubSeq(file, 1, sidecar)
    /\ flushed' = Lower(flushed, sidecar)
    /\ seen' = Records(sidecar)
    /\ pendingLen' = sidecar /\ syncedLen' = sidecar
    /\ pc' = "read" /\ table' = 1
    /\ UNCHANGED <<es, checkpoint, sidecar, page, faults>>

-----------------------------------------------------------------------------
(* runTable *)

\* Reads the ids first..last of the table.  What cannot be read is recorded
\* before anything is sent to the index.
ReadPage(first) ==
    /\ pc = "read" /\ table <= Tables
    /\ first <= Len(Log[table])
    /\ last' = Lower(first + BatchSize - 1, Len(Log[table]))
    /\ LET rows == {table} \X (first..last')
       IN  /\ toSpill' = {r \in rows : Kind(r) = "unreadable"}
           /\ remaining' = rows \ toSpill'
    /\ pc' = "write"
    /\ UNCHANGED <<es, disk, table, dlq, faults>>

\* Mutant: id >= ? instead of id > ?.
ReadBatchInclusive ==
    ReadPage(IF checkpoint[table] = 0 THEN 1 ELSE checkpoint[table])

ReadBatch == ReadPage(checkpoint[table] + 1)

\* The table is read to its end.
NextTable ==
    /\ pc = "read" /\ table <= Tables
    /\ checkpoint[table] >= Len(Log[table])
    /\ table' = table + 1
    /\ UNCHANGED <<es, disk, pc, page, dlq, faults>>

Finish ==
    /\ pc = "read" /\ table > Tables
    /\ pc' = "done"
    /\ UNCHANGED <<es, disk, table, page, dlq, faults>>

\* Mutant: the checkpoint moves before the spill file is on disk.
WrittenUnsynced ==
    /\ pc = "write"
    /\ toSpill = {} /\ remaining = {}
    /\ pc' = "advance"
    /\ UNCHANGED <<es, disk, table, page, dlq, faults>>

\* Every row of the page is in the index or in the spill file.
Written ==
    /\ pc = "write"
    /\ toSpill = {} /\ remaining = {}
    /\ pc' = IF pendingLen = syncedLen THEN "advance" ELSE "sync"
    /\ UNCHANGED <<es, disk, table, page, dlq, faults>>

\* A checkpoint never moves back.
Advance ==
    /\ pc = "advance"
    /\ checkpoint' = [checkpoint EXCEPT ![table] = IF last > @ THEN last ELSE @]
    /\ pc' = "read"
    /\ UNCHANGED <<es, file, flushed, sidecar, table, page, dlq, faults>>

\* Without the final fsync of the directory the rename may have happened.
AdvanceFails ==
    /\ pc = "advance"
    /\ Fault
    /\ checkpoint' \in {checkpoint, [checkpoint EXCEPT ![table] = last]}
    /\ pc' = "close"
    /\ UNCHANGED <<es, file, flushed, sidecar, table, page, dlq>>

-----------------------------------------------------------------------------
(* processBatch, writeMain and DLQSpill.Write *)

Lowest(r) == r \in toSpill /\ \A q \in toSpill : r[2] <= q[2]

\* A row that is known already is not recorded again.
Write(r) ==
    /\ pc = "write"
    /\ Lowest(r)
    /\ toSpill' = toSpill \ {r}
    /\ IF r \in seen
       THEN UNCHANGED <<file, seen, pendingLen>>
       ELSE /\ file' = Append(file, r)
            /\ seen' = seen \cup {r}
            /\ pendingLen' = pendingLen + 1
    /\ UNCHANGED <<es, checkpoint, flushed, sidecar, pc, table, last,
                   remaining, syncedLen, faults>>

\* The write fails, perhaps with part of the record written.
WriteFails(r) ==
    /\ pc = "write"
    /\ Lowest(r) /\ r \notin seen
    /\ Fault
    /\ file' \in {file, Append(file, Garbage)}
    /\ pc' = "close"
    /\ UNCHANGED <<es, checkpoint, flushed, sidecar, table, page, dlq>>

\* The whole request fails; some of its documents may be written all the same.
BulkFails ==
    /\ pc = "write"
    /\ toSpill = {} /\ remaining # {}
    /\ \E written \in SUBSET remaining :
           /\ \A r \in written : Kind(r) # "refused"
           /\ es' = es \cup written
    /\ UNCHANGED <<disk, pc, table, page, dlq, faults>>

\* mapBulkResults: what the index may answer for a row and its children, and
\* whether the row has a document then.
Answers(kind) ==
    CASE kind = "good"         -> {<<"ok", TRUE>>, <<"transient", TRUE>>,
                                   <<"transient", FALSE>>}
      [] kind = "refused"      -> {<<"permanent", FALSE>>, <<"transient", FALSE>>}
      [] kind = "childRefused" -> {<<"permanent", TRUE>>, <<"transient", TRUE>>,
                                   <<"transient", FALSE>>}

\* Mutant: 409, 429 and 5xx count as permanent.
PermanentIfNotOK(verdict) == verdict # "ok"

Permanent(verdict) == verdict = "permanent"

\* One answer: rows refused for good are recorded, the others that are not in
\* the index are sent again.
WriteMain(answer) ==
    /\ pc = "write"
    /\ toSpill = {} /\ remaining # {}
    /\ \A r \in remaining : answer[r] \in Answers(Kind(r))
    /\ es' = es \cup {r \in remaining : answer[r][2]}
    /\ toSpill' = {r \in remaining : Permanent(answer[r][1])}
    /\ remaining' = {r \in remaining :
                        answer[r][1] # "ok" /\ ~Permanent(answer[r][1])}
    /\ UNCHANGED <<disk, pc, table, last, dlq, faults>>

AllAnswers == {"ok", "permanent", "transient"} \X BOOLEAN
BulkDocs   == \E answer \in [remaining -> AllAnswers] : WriteMain(answer)

\* Every row still in flight gets a final answer.
BulkSettles ==
    \E answer \in [remaining -> AllAnswers] :
        /\ WriteMain(answer)
        /\ \A r \in remaining : answer[r][1] # "transient"

-----------------------------------------------------------------------------
(* DLQSpill.Sync and Close *)

\* Mutant: the spill file is not synced.
SyncNothing ==
    /\ pc = "sync"
    /\ pc' = "sidecar"
    /\ UNCHANGED <<es, disk, table, page, dlq, faults>>

Sync ==
    /\ pc = "sync"
    /\ flushed' = Len(file)
    /\ pc' = "sidecar"
    /\ UNCHANGED <<es, checkpoint, file, sidecar, table, page, dlq, faults>>

WriteSyncedOffset ==
    /\ pc = "sidecar"
    /\ sidecar' = pendingLen
    /\ syncedLen' = pendingLen
    /\ pc' = "advance"
    /\ UNCHANGED <<es, checkpoint, file, flushed, table, page, seen,
                   pendingLen, faults>>

\* The fsync fails, or the sidecar cannot be written; without the final fsync
\* of the directory its rename may have happened.
SyncFails ==
    /\ \/ pc = "sync" /\ UNCHANGED sidecar
       \/ pc = "sidecar" /\ sidecar' \in {sidecar, pendingLen}
    /\ Fault
    /\ pc' = "close"
    /\ UNCHANGED <<es, checkpoint, file, flushed, table, page, dlq>>

\* The process ends; what it held in memory is gone.
Exit ==
    /\ pc' = "down"
    /\ table' = 1 /\ last' = 0 /\ toSpill' = {} /\ remaining' = {}
    /\ seen' = {} /\ pendingLen' = 0 /\ syncedLen' = 0

\* The end after an error: what has been recorded is synced, too.
Close ==
    /\ pc = "close"
    /\ IF pendingLen = syncedLen
       THEN UNCHANGED <<flushed, sidecar>>
       ELSE flushed' = Len(file) /\ sidecar' = pendingLen
    /\ Exit
    /\ UNCHANGED <<es, checkpoint, file, faults>>

\* The error is logged only.
CloseFails ==
    /\ pc = "close"
    /\ pendingLen # syncedLen
    /\ Fault
    /\ \/ UNCHANGED <<flushed, sidecar>>
       \/ flushed' = Len(file) /\ sidecar' \in {sidecar, pendingLen}
    /\ Exit
    /\ UNCHANGED <<es, checkpoint, file>>

-----------------------------------------------------------------------------
(* Interruptions *)

\* A failed read, SIGTERM or the overall timeout, where the context is looked at.
Stop ==
    /\ pc \in {"read", "write"}
    /\ pc = "write" => toSpill = {} /\ remaining # {}
    /\ Fault
    /\ pc' = "close"
    /\ UNCHANGED <<es, disk, table, page, dlq>>

\* The process is killed; its writes are in the page cache.
Crash ==
    /\ pc \notin {"down", "done"}
    /\ Fault
    /\ Exit
    /\ UNCHANGED <<es, disk>>

\* The host fails: of what has not been synced any part may be left.
HostCrash ==
    /\ pc # "done"
    /\ Fault
    /\ \E n \in flushed..Len(file) :
           file' \in {SubSeq(file, 1, n), Append(SubSeq(file, 1, n), Garbage)}
    /\ flushed' = Len(file')
    /\ Exit
    /\ UNCHANGED <<es, checkpoint, sidecar>>

-----------------------------------------------------------------------------
(* The count gate of a job run with -reconcile, over a window that covers all
   rows.  Documents of virtual children are not counted. *)

CountRows     == Cardinality(Rows)
CountDocs     == Cardinality(es)
CountInWindow == Cardinality(seen)

Validate  == CountInWindow <= CountRows
Reconcile == CountDocs - (CountRows - CountInWindow)

-----------------------------------------------------------------------------
Run ==
    \/ Open \/ ReadBatch \/ NextTable \/ Finish \/ Written \/ Advance
    \/ Sync \/ WriteSyncedOffset \/ Close
    \/ \E r \in toSpill : Write(r)

Done == pc = "done" /\ UNCHANGED vars

Next ==
    \/ Run
    \/ BulkDocs \/ BulkFails
    \/ \E r \in toSpill : WriteFails(r)
    \/ AdvanceFails \/ SyncFails \/ CloseFails
    \/ Stop \/ Crash \/ HostCrash
    \/ Done

Spec == Init /\ [][Next]_vars

\* The job goes on and is started again after each end by an error; an index
\* that is asked again and again answers for good.
Fairness == WF_vars(Run) /\ SF_vars(BulkSettles)

FairSpec == Spec /\ Fairness
-----------------------------------------------------------------------------
(* Properties *)

TypeOK ==
    /\ es \subseteq Rows
    /\ checkpoint \in [1..Tables -> Nat]
    /\ file \in Seq(Rows \cup {Garbage})
    /\ flushed \in Nat /\ sidecar \in Nat
    /\ pc \in Phases
    /\ table \in 1..(Tables + 1)
    /\ last \in Nat
    /\ toSpill \subseteq Rows /\ remaining \subseteq Rows
    /\ seen \subseteq Rows
    /\ pendingLen \in Nat /\ syncedLen \in 0..pendingLen
    /\ faults \in Nat

\* Whenever the process or the host fails, the next start (and a reconciliation
\* that reads the file beside the running job) finds as many records as the
\* sidecar counts and nothing else: it never has to give up for "durability
\* state lost" or "real corruption".
SpillRecovers ==
    /\ Recoverable
    /\ sidecar <= flushed

\* The count gate at the end of the job is balanced: every row has a document or
\* is counted as a dead letter and none is both, whatever was interrupted and
\* done again on the way.
GateBalances == pc = "done" => Validate /\ Reconcile = 0

\* The job gets to its end.
EventuallyDone == <>(pc = "done")

\* The backfill keeps the promise of every stage: a row is settled when it has a
\* document or a record that every later run will count.
Accounted == {file[i] : i \in 1..Lower(sidecar, Len(file))}
Promise == INSTANCE AtLeastOnce WITH
    Streams <- 1..Tables, Items <- Rows,
    settled <- es \cup Accounted, cursor <- checkpoint
ImplementsAtLeastOnce == Promise!Spec
=============================================================================
