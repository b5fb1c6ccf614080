----------------------------- MODULE ProducerETL -----------------------------
(***************************************************************************)
(* searchetl-producer (internal/producer): on every tick a replica takes   *)
(* the Redis run lock, reads from each message shard the rows behind the   *)
(* shard's cursor that have been stored for longer than the lag, produces  *)
(* them to the body or the dead-letter topic and then advances the cursor. *)
(*                                                                         *)
(* The shards are written by other programs: a row gets its id and its     *)
(* created_at while its transaction is open and is seen by nobody before   *)
(* the transaction commits.  The lock has a lifetime, so that two replicas *)
(* may be inside a tick at once.                                           *)
(***************************************************************************)
EXTENDS Integers, Sequences, FiniteSets

CONSTANTS
    Replicas,    \* the searchetl-producer processes
    NumShards,   \* the length of Config.Tables
    Poison,      \* the rows <<shard, id>> that extractMessage dead-letters
    Batch,       \* Config.Batch
    Broken,      \* shards whose table cannot be read: every query fails
    Lag,         \* Config.LagSeconds
    MaxOpen,     \* the longest a row stays uncommitted, counted from created_at
    Skew,        \* the longest an INSERT waits between created_at and its id
    MaxRows,     \* bound on the rows of a shard
    MaxNow,      \* bound on the database clock
    MaxFaults    \* bound: crashes, lost leases, cancelled ticks, failed calls

Free   == "free"
Orphan == "orphan"

ASSUME ProducerAssumption ==
    /\ Replicas \cap {Free, Orphan} = {}
    /\ NumShards \in Nat \ {0}
    /\ Batch \in Nat \ {0}
    /\ Broken \subseteq 1..NumShards
    /\ Lag \in Nat \ {0}
    /\ MaxOpen \in Nat /\ Skew \in Nat /\ Skew <= MaxOpen
    /\ MaxRows \in Nat /\ MaxNow \in Nat /\ MaxFaults \in Nat

\* The operating assumption of PRODUCER_LAG_SECONDS: the lag outlives every
\* INSERT transaction (and the time by which created_at may precede the id).
LagOutlivesInserts == MaxOpen + Skew < Lag

Shards == 1..NumShards
Slots  == Shards \X (1..MaxRows)

VARIABLES
    \* the database
    now,        \* UNIX_TIMESTAMP()
    rows,       \* shard -> its rows in id order, each with created_at and state
    cursor,     \* octo_etl_es_cursor: shard -> last_id
    \* Kafka and Redis
    main,       \* rows with a message in the body topic
    dlq,        \* rows with an envelope in the dead-letter topic
    lock,       \* Free, the replica whose run holds it, or Orphan
    faults,     \* faults spent so far
    \* per replica
    pc,         \* where runTick is
    shard,      \* the shard being scanned
    cutoff,     \* rows created after it are not stable
    from,       \* the cursor the chunk was read behind
    chunk,      \* the ids of the chunk's stable prefix
    last,       \* plan.maxID
    cancelled,  \* TRUE once lockCtx is cancelled
    lapsed      \* TRUE once the lease of the current run has expired

store   == <<now, rows, cursor>>
topics  == <<main, dlq>>
replica == <<pc, shard, cutoff, from, chunk, last, cancelled, lapsed>>
vars    == <<now, rows, cursor, main, dlq, lock, faults,
             pc, shard, cutoff, from, chunk, last, cancelled, lapsed>>

RowStates == {"open", "visible", "rolledBack"}
Busy      == {"clock", "read", "main", "dlq", "advance"}
Phases    == Busy \cup {"down", "idle", "release"}

Init ==
    /\ now = 0
    /\ rows = [s \in Shards |-> <<>>]
    /\ cursor = [s \in Shards |-> 0]
    /\ main = {} /\ dlq = {}
    /\ lock = Free
    /\ faults = 0
    /\ pc = [r \in Replicas |-> "idle"]
    /\ shard = [r \in Replicas |-> 1]
    /\ cutoff = [r \in Replicas |-> 0]
    /\ from = [r \in Replicas |-> 0]
    /\ chunk = [r \in Replicas |-> {}]
    /\ last = [r \in Replicas |-> 0]
    /\ cancelled = [r \in Replicas |-> FALSE]
    /\ lapsed = [r \in Replicas |-> FALSE]

Fault == faults < MaxFaults /\ faults' = faults + 1

-----------------------------------------------------------------------------
(* The writers of the shards *)

State(s, i) == rows[s][i].state

Tick ==
    /\ now < MaxNow
    /\ \A s \in Shards : \A i \in DOMAIN rows[s] :
           State(s, i) = "open" => now - rows[s][i].created < MaxOpen
    /\ now' = now + 1
    /\ UNCHANGED <<rows, cursor, topics, lock, faults, replica>>

\* created_at is the clock at the start of the statement, the id comes later.
\* Rows of a broken shard make no difference to anybody and are left out.
Insert(s) ==
    /\ s \notin Broken
    /\ Len(rows[s]) < MaxRows
    /\ now + Lag <= MaxNow
    /\ \E c \in (now - Skew)..now :
         /\ c >= 0
         /\ rows' = [rows EXCEPT ![s] = Append(@, [created |-> c, state |-> "open"])]
    /\ UNCHANGED <<now, cursor, topics, lock, faults, replica>>

EndTransaction(s, i) ==
    /\ State(s, i) = "open"
    /\ \E end \in {"visible", "rolledBack"} :
         rows' = [rows EXCEPT ![s][i].state = end]
    /\ UNCHANGED <<now, cursor, topics, lock, faults, replica>>

-----------------------------------------------------------------------------
(* The run lock: SET NX with a lifetime, CAS-DEL, CAS-PEXPIRE *)

Acquire(r) ==
    /\ pc[r] = "idle"
    /\ lock = Free
    /\ lock' = r
    /\ pc' = [pc EXCEPT ![r] = "clock"]
    /\ UNCHANGED <<store, topics, faults, shard, cutoff, from, chunk, last,
                   cancelled, lapsed>>

\* The lifetime passes while the run goes on: a pause, Redis out of reach.
Lapse(r) ==
    /\ lock = r
    /\ Fault
    /\ lock' = Free
    /\ lapsed' = [lapsed EXCEPT ![r] = TRUE]
    /\ UNCHANGED <<store, topics, pc, shard, cutoff, from, chunk, last, cancelled>>

\* Nobody renews the lock of a run that is over.
OrphanExpires ==
    /\ lock = Orphan
    /\ lock' = Free
    /\ UNCHANGED <<store, topics, faults, replica>>

\* The renewal finds another owner or none and cancels the run's context.
RenewLost(r) ==
    /\ pc[r] \in Busy
    /\ ~cancelled[r]
    /\ lock # r
    /\ cancelled' = [cancelled EXCEPT ![r] = TRUE]
    /\ UNCHANGED <<store, topics, lock, faults,
                   pc, shard, cutoff, from, chunk, last, lapsed>>

\* The renewal fails, or a SIGTERM cancels the scheduler's context.
Cancel(r) ==
    /\ pc[r] \in Busy
    /\ ~cancelled[r]
    /\ Fault
    /\ cancelled' = [cancelled EXCEPT ![r] = TRUE]
    /\ UNCHANGED <<store, topics, lock,
                   pc, shard, cutoff, from, chunk, last, lapsed>>

\* Mutant: the next run starts with the shard behind the one this run has ended at.
ResetGoesOn(r, phase) ==
    /\ pc' = [pc EXCEPT ![r] = phase]
    /\ shard' = [shard EXCEPT ![r] = @ + 1]
    /\ cutoff' = [cutoff EXCEPT ![r] = 0]
    /\ from' = [from EXCEPT ![r] = 0]
    /\ chunk' = [chunk EXCEPT ![r] = {}]
    /\ last' = [last EXCEPT ![r] = 0]
    /\ cancelled' = [cancelled EXCEPT ![r] = FALSE]
    /\ lapsed' = [lapsed EXCEPT ![r] = FALSE]

\* The run is over: nothing of it is kept.
Reset(r, phase) ==
    /\ pc' = [pc EXCEPT ![r] = phase]
    /\ shard' = [shard EXCEPT ![r] = 1]
    /\ cutoff' = [cutoff EXCEPT ![r] = 0]
    /\ from' = [from EXCEPT ![r] = 0]
    /\ chunk' = [chunk EXCEPT ![r] = {}]
    /\ last' = [last EXCEPT ![r] = 0]
    /\ cancelled' = [cancelled EXCEPT ![r] = FALSE]
    /\ lapsed' = [lapsed EXCEPT ![r] = FALSE]

\* Mutant: the lock is deleted whoever holds it.
ReleaseAnyToken(r) ==
    /\ pc[r] = "release"
    /\ lock' = Free
    /\ Reset(r, "idle")
    /\ UNCHANGED <<store, topics, faults>>

\* The lock is deleted only while it holds the run's own token.
Release(r) ==
    /\ pc[r] = "release"
    /\ lock' = IF lock = r THEN Free ELSE lock
    /\ Reset(r, "idle")
    /\ UNCHANGED <<store, topics, faults>>

\* Redis does not answer: the lock stays until its lifetime is over.
ReleaseFails(r) ==
    /\ pc[r] = "release"
    /\ lock = r
    /\ Fault
    /\ lock' = Orphan
    /\ Reset(r, "idle")
    /\ UNCHANGED <<store, topics>>

Crash(r) ==
    /\ pc[r] # "down"
    /\ Fault
    /\ lock' = IF lock = r THEN Orphan ELSE lock
    /\ Reset(r, "down")
    /\ UNCHANGED <<store, topics>>

Restart(r) ==
    /\ pc[r] = "down"
    /\ pc' = [pc EXCEPT ![r] = "idle"]
    /\ UNCHANGED <<store, topics, lock, faults, shard, cutoff, from, chunk, last,
                   cancelled, lapsed>>

-----------------------------------------------------------------------------
(* runTick and runChunk *)

Goto(r, phase) == pc' = [pc EXCEPT ![r] = phase]

\* One clock reading serves the whole tick.
DBNowUnix(r) ==
    /\ pc[r] = "clock"
    /\ cutoff' = [cutoff EXCEPT ![r] = now - Lag]
    /\ Goto(r, "read")
    /\ UNCHANGED <<store, topics, lock, faults, shard, from, chunk, last,
                   cancelled, lapsed>>

\* The scan goes on with the next shard; the last one ends the tick.
NextShard(r) ==
    IF shard[r] < NumShards
    THEN Goto(r, "read") /\ shard' = [shard EXCEPT ![r] = @ + 1]
    ELSE Goto(r, "release") /\ UNCHANGED shard

\* The rows ReadStableBatchTx returns: the first Batch visible ones behind the
\* cursor.
Unread(s) == {i \in DOMAIN rows[s] : State(s, i) = "visible" /\ i > cursor[s]}
ReadBatch(s) ==
    {i \in Unread(s) : Cardinality({j \in Unread(s) : j <= i}) <= Batch}

\* Mutant: rows that are not stable yet are left out instead of ending the prefix.
StableRows(s, cut) ==
    {i \in ReadBatch(s) : rows[s][i].created <= cut}

\* The first row created after the cutoff ends the prefix.
stablePrefix(s, cut) ==
    {i \in ReadBatch(s) :
        \A j \in ReadBatch(s) : j <= i => rows[s][j].created <= cut}

ReadChunk(r) ==
    LET s      == shard[r]
        stable == stablePrefix(s, cutoff[r])
    IN  /\ pc[r] = "read" /\ s \notin Broken
        /\ ~cancelled[r]
        /\ from' = [from EXCEPT ![r] = cursor[s]]
        /\ chunk' = [chunk EXCEPT ![r] = stable]
        /\ \E id \in stable :
             /\ \A i \in stable : i <= id
             /\ last' = [last EXCEPT ![r] = id]
        /\ Goto(r, "main")
        /\ UNCHANGED <<store, topics, lock, faults, shard, cutoff, cancelled, lapsed>>

NothingStable(r) ==
    /\ pc[r] = "read" /\ shard[r] \notin Broken
    /\ ~cancelled[r]
    /\ stablePrefix(shard[r], cutoff[r]) = {}
    /\ NextShard(r)
    /\ UNCHANGED <<store, topics, lock, faults, cutoff, from, chunk, last,
                   cancelled, lapsed>>

ChunkRows(r) == {shard[r]} \X chunk[r]
Body(r) == ChunkRows(r) \ Poison
Dead(r) == ChunkRows(r) \cap Poison

ProduceBatch(r) ==
    /\ pc[r] = "main"
    /\ main' = main \cup Body(r)
    /\ Goto(r, "dlq")
    /\ UNCHANGED <<store, dlq, lock, faults, shard, cutoff, from, chunk, last,
                   cancelled, lapsed>>

\* Mutant: the cursor advances although the dead letters were not written.
ProduceDLQBestEffort(r) ==
    /\ pc[r] = "dlq"
    /\ \E sent \in SUBSET Dead(r) : dlq' = dlq \cup sent
    /\ Goto(r, IF cancelled[r] THEN "release" ELSE "advance")
    /\ UNCHANGED <<store, main, lock, faults, shard, cutoff, from, chunk, last,
                   cancelled, lapsed>>

\* The context is looked at once more before the cursor is touched.
ProduceDLQ(r) ==
    /\ pc[r] = "dlq"
    /\ dlq' = dlq \cup Dead(r)
    /\ Goto(r, IF cancelled[r] THEN "release" ELSE "advance")
    /\ UNCHANGED <<store, main, lock, faults, shard, cutoff, from, chunk, last,
                   cancelled, lapsed>>

\* Mutant: the cursor is set whatever it is now.
SetCursor(r) ==
    /\ cursor[shard[r]] \in Nat
    /\ cursor' = [cursor EXCEPT ![shard[r]] = last[r]]

\* Mutant: the old position is given to the UPDATE twice.
SetOldCursor(r) ==
    /\ cursor[shard[r]] = from[r]
    /\ cursor' = [cursor EXCEPT ![shard[r]] = from[r]]

\* UPDATE ... SET last_id = last WHERE last_id = from
CompareAndSetCursor(r) ==
    /\ cursor[shard[r]] = from[r]
    /\ cursor' = [cursor EXCEPT ![shard[r]] = last[r]]

\* A full chunk is followed by another of the same shard.
AdvanceCursor(r) ==
    /\ pc[r] = "advance"
    /\ CompareAndSetCursor(r)
    /\ IF Cardinality(chunk[r]) = Batch
       THEN Goto(r, "read") /\ UNCHANGED shard
       ELSE NextShard(r)
    /\ UNCHANGED <<now, rows, topics, lock, faults, cutoff, from, chunk, last,
                   cancelled, lapsed>>

\* Another run has moved the cursor since it was read.
CursorMoved(r) ==
    /\ pc[r] = "advance"
    /\ cursor[shard[r]] # from[r]
    /\ NextShard(r)
    /\ UNCHANGED <<store, topics, lock, faults, cutoff, from, chunk, last,
                   cancelled, lapsed>>

\* A call cannot succeed: its context is cancelled, or the shard is broken.
Hopeless(r) == cancelled[r] \/ (pc[r] = "read" /\ shard[r] \in Broken)

\* A call fails because it cannot but fail, or by itself.
CallFails(r) == IF Hopeless(r) THEN UNCHANGED faults ELSE Fault

\* Any call of the tick fails; what it did before is done: messages may have
\* been produced, the cursor may have moved.  The tick is given up.
TickFails(r) ==
    /\ pc[r] \in Busy
    /\ CallFails(r)
    /\ \/ pc[r] \in {"clock", "read"} /\ UNCHANGED <<topics, cursor>>
       \/ /\ pc[r] = "main"
          /\ \E sent \in SUBSET Body(r) : main' = main \cup sent
          /\ UNCHANGED <<dlq, cursor>>
       \/ /\ pc[r] = "dlq"
          /\ \E sent \in SUBSET Dead(r) : dlq' = dlq \cup sent
          /\ UNCHANGED <<main, cursor>>
       \/ /\ pc[r] = "advance"
          /\ CompareAndSetCursor(r) \/ UNCHANGED cursor
          /\ UNCHANGED topics
    /\ Goto(r, "release")
    /\ UNCHANGED <<now, rows, lock, shard, cutoff, from, chunk, last,
                   cancelled, lapsed>>

-----------------------------------------------------------------------------
Work(r) ==
    \/ DBNowUnix(r) \/ ReadChunk(r) \/ NothingStable(r) \/ ProduceBatch(r)
    \/ ProduceDLQ(r) \/ AdvanceCursor(r) \/ CursorMoved(r)
    \/ (Hopeless(r) /\ TickFails(r))
    \/ Release(r)

Database ==
    \/ Tick
    \/ \E s \in Shards : Insert(s) \/ \E i \in DOMAIN rows[s] : EndTransaction(s, i)

Next ==
    \/ Database
    \/ OrphanExpires
    \/ \E r \in Replicas :
         \/ Acquire(r) \/ Work(r) \/ TickFails(r) \/ Restart(r)
         \/ Lapse(r) \/ RenewLost(r) \/ Cancel(r) \/ ReleaseFails(r) \/ Crash(r)

Spec == Init /\ [][Next]_vars

\* The clock and every transaction end their steps, a tick runs on, an idle
\* replica ticks again while the lock is free, an abandoned lock expires, a dead
\* process is restarted.
Fairness ==
    /\ WF_vars(Tick)
    /\ \A s \in Shards : WF_vars(\E i \in DOMAIN rows[s] : EndTransaction(s, i))
    /\ WF_vars(OrphanExpires)
    /\ WF_vars(\E r \in Replicas : Acquire(r))
    /\ \A r \in Replicas : WF_vars(Work(r)) /\ WF_vars(Restart(r))

FairSpec == Spec /\ Fairness
-----------------------------------------------------------------------------
(* Properties *)

RowsOK ==
    /\ rows \in [Shards -> Seq([created : Nat, state : RowStates])]
    /\ \A s \in Shards : Len(rows[s]) <= MaxRows

SharedOK ==
    /\ now \in Nat
    /\ cursor \in [Shards -> Nat]
    /\ main \subseteq Slots /\ dlq \subseteq Slots
    /\ lock \in Replicas \cup {Free, Orphan}
    /\ faults \in Nat

RunsOK ==
    /\ pc \in [Replicas -> Phases]
    /\ shard \in [Replicas -> Shards]
    /\ cutoff \in [Replicas -> Int]
    /\ from \in [Replicas -> Nat]
    /\ chunk \in [Replicas -> SUBSET (1..MaxRows)]
    /\ last \in [Replicas -> 0..MaxRows]
    /\ cancelled \in [Replicas -> BOOLEAN]
    /\ lapsed \in [Replicas -> BOOLEAN]

TypeOK == RowsOK /\ SharedOK /\ RunsOK

Produced == main \cup dlq

\* A cursor never passes a row that is still to come: at or below it every row
\* is produced or rolled back, although ids become visible out of order, two
\* replicas may scan the same shard and any call may fail half-way.
NothingSkipped ==
    \A s \in Shards : \A i \in DOMAIN rows[s] :
        i <= cursor[s] => State(s, i) = "rolledBack" \/ <<s, i>> \in Produced

\* The lock is taken from a run by the end of its lifetime only: whoever is
\* inside a tick holds the lock or has let its own lease lapse.
LeaseKept ==
    \A r \in Replicas :
        pc[r] \in Busy \cup {"release"} => lock = r \/ lapsed[r]

\* A cursor never moves back, not even when a replica wakes up with a chunk it
\* read before another replica took over.
CursorNeverBack == [][\A s \in Shards : cursor'[s] >= cursor[s]]_vars

\* Once the writers and the faults are done, every row that was committed is in
\* Kafka and stays there, although a shard further down ends each tick with an
\* error.  (The shards behind such a one are not scanned at all.)
EventuallyProduced ==
    <>[](\A s \in {s \in Shards : \A b \in Broken : s < b} :
            \A i \in DOMAIN rows[s] :
                State(s, i) = "visible" => <<s, i>> \in Produced)

\* The producer keeps the promise of every stage of the pipeline; a rolled back
\* row is settled as well.
RolledBack == {m \in Slots : m[2] \in DOMAIN rows[m[1]] /\ State(m[1], m[2]) = "rolledBack"}
Promise == INSTANCE AtLeastOnce WITH
    Streams <- Shards, Items <- Slots,
    settled <- Produced \cup RolledBack, cursor <- cursor
ImplementsAtLeastOnce == Promise!Spec
=============================================================================
