-------------------------- MODULE ProducerETLProofs --------------------------
(***************************************************************************)
(* What searchetl-producer guarantees for every number of replicas,        *)
(* shards, rows and faults, as long as the lag outlives the INSERT         *)
(* transactions.                                                           *)
(***************************************************************************)
EXTENDS ProducerETL, FiniteSetTheorems, TLAPS

\* An open row is young, and no row comes from the future.
RowTimes ==
    \A s \in Shards : \A i \in DOMAIN rows[s] :
        /\ rows[s][i].created <= now
        /\ State(s, i) = "open" => now - rows[s][i].created <= MaxOpen

\* Ids follow created_at up to the skew.
NearlyOrdered ==
    \A s \in Shards : \A i, j \in DOMAIN rows[s] :
        i <= j => rows[s][i].created <= rows[s][j].created + Skew

CursorInRows == \A s \in Shards : cursor[s] <= Len(rows[s])

\* A run's cutoff is older than the lag.
CutoffOld(r) == pc[r] \in Busy \ {"clock"} => cutoff[r] <= now - Lag

\* A chunk leaves out rolled back rows only, and what its run has produced is
\* in the topics.
ChunkSound(r) ==
    /\ pc[r] \in {"main", "dlq", "advance"} =>
         /\ last[r] \in DOMAIN rows[shard[r]]
         /\ from[r] < last[r]
         /\ \A i \in DOMAIN rows[shard[r]] :
              from[r] < i /\ i <= last[r] =>
                State(shard[r], i) = "rolledBack" \/ i \in chunk[r]
    /\ pc[r] \in {"dlq", "advance"} => Body(r) \subseteq main
    /\ pc[r] = "advance" => Dead(r) \subseteq dlq

RowInv   == RowTimes /\ NearlyOrdered /\ CursorInRows
RunInv   == \A r \in Replicas : CutoffOld(r) /\ ChunkSound(r)
InvBasis == TypeOK /\ RowInv /\ RunInv
IInv     == InvBasis /\ NothingSkipped

-----------------------------------------------------------------------------
(* Types *)

Row == [created : Nat, state : RowStates]

LEMMA TypeInit ==
    ASSUME Init
    PROVE  TypeOK
  <1>1. RowsOK
    BY ProducerAssumption DEF Init, RowsOK
  <1>2. SharedOK
    BY DEF Init, SharedOK
  <1>3. 1 \in Shards /\ 0 \in 0..MaxRows
    BY ProducerAssumption DEF Shards
  <1>4. RunsOK
    BY <1>3 DEF Init, RunsOK, Phases
  <1> QED
    BY <1>1, <1>2, <1>4 DEF TypeOK

LEMMA ResetType ==
    ASSUME RunsOK, NEW r \in Replicas, NEW phase \in Phases, Reset(r, phase)
    PROVE  RunsOK'
  <1>1. 1 \in Shards /\ 0 \in 0..MaxRows /\ 0 \in Int
    BY ProducerAssumption DEF Shards
  <1> QED
    BY <1>1 DEF RunsOK, Reset

LEMMA ReadBatchType ==
    ASSUME TypeOK, NEW s \in Shards, NEW cut
    PROVE  stablePrefix(s, cut) \subseteq 1..MaxRows
  <1>1. stablePrefix(s, cut) \subseteq DOMAIN rows[s]
    BY DEF stablePrefix, ReadBatch, Unread
  <1>2. DOMAIN rows[s] = 1..Len(rows[s]) /\ Len(rows[s]) \in Nat /\ Len(rows[s]) <= MaxRows
    BY DEF TypeOK, RowsOK
  <1> QED
    BY <1>1, <1>2, ProducerAssumption

LEMMA NextShardType ==
    ASSUME RunsOK, NEW r \in Replicas, NextShard(r)
    PROVE  pc' \in [Replicas -> Phases] /\ shard' \in [Replicas -> Shards]
  <1>1. shard[r] \in Shards
    BY DEF RunsOK
  <1>2. shard[r] < NumShards => shard[r] + 1 \in Shards
    BY <1>1, ProducerAssumption DEF Shards
  <1> QED
    BY <1>2 DEF RunsOK, NextShard, Goto, Phases, Busy

LEMMA ChunkRowsType ==
    ASSUME RunsOK, NEW r \in Replicas
    PROVE  Body(r) \subseteq Slots /\ Dead(r) \subseteq Slots
  BY DEF RunsOK, Body, Dead, ChunkRows, Slots

LEMMA TypeDatabase == TypeOK /\ Database => TypeOK'
  <1> SUFFICES ASSUME TypeOK, Database PROVE TypeOK'
    OBVIOUS
  <1>1. CASE Tick
    <2>1. SharedOK'
      BY <1>1 DEF Tick, TypeOK, SharedOK, topics
    <2> QED
      BY <1>1, <2>1 DEF Tick, TypeOK, RowsOK, RunsOK, replica
  <1>2. ASSUME NEW s \in Shards, Insert(s) PROVE TypeOK'
    <2>1. PICK c \in (now - Skew)..now :
            c >= 0 /\ rows' = [rows EXCEPT ![s] =
                                 Append(@, [created |-> c, state |-> "open"])]
      BY <1>2 DEF Insert
    <2> DEFINE row == [created |-> c, state |-> "open"]
    <2>2. row \in Row
      <3>1. now \in Nat
        BY DEF TypeOK, SharedOK
      <3>2. c \in Nat
        BY <2>1, <3>1, ProducerAssumption
      <3> QED
        BY <3>2 DEF Row, RowStates
    <2>3. rows[s] \in Seq(Row) /\ Len(rows[s]) < MaxRows
      BY <1>2 DEF TypeOK, RowsOK, Insert, Row
    <2> HIDE DEF row
    <2>4. Append(rows[s], row) \in Seq(Row) /\ Len(Append(rows[s], row)) = Len(rows[s]) + 1
      BY <2>2, <2>3
    <2>5. Len(Append(rows[s], row)) <= MaxRows
      BY <2>3, <2>4, ProducerAssumption
    <2>6. rows' = [rows EXCEPT ![s] = Append(rows[s], row)]
      BY <2>1 DEF row
    <2>7. RowsOK'
      BY <2>4, <2>5, <2>6 DEF TypeOK, RowsOK, Row
    <2> QED
      BY <1>2, <2>7 DEF Insert, TypeOK, SharedOK, RunsOK, topics, replica
  <1>3. ASSUME NEW s \in Shards, NEW i \in DOMAIN rows[s], EndTransaction(s, i)
        PROVE  TypeOK'
    <2>1. PICK end \in {"visible", "rolledBack"} :
            rows' = [rows EXCEPT ![s][i].state = end]
      BY <1>3 DEF EndTransaction
    <2> DEFINE row == [rows[s][i] EXCEPT !.state = end]
    <2>2. rows[s] \in Seq(Row)
      BY DEF TypeOK, RowsOK, Row
    <2>3. rows[s][i] \in Row
      BY <2>2
    <2>4. row \in Row
      BY <2>3 DEF Row, RowStates
    <2>5. rows' = [rows EXCEPT ![s] = [rows[s] EXCEPT ![i] = row]]
      BY <2>1
    <2> HIDE DEF row
    <2>6. [rows[s] EXCEPT ![i] = row] \in Seq(Row)
          /\ Len([rows[s] EXCEPT ![i] = row]) = Len(rows[s])
      BY <2>2, <2>4
    <2>7. RowsOK'
      BY <2>5, <2>6 DEF TypeOK, RowsOK, Row
    <2> QED
      BY <1>3, <2>7 DEF EndTransaction, TypeOK, SharedOK, RunsOK, topics, replica
  <1> QED
    BY <1>1, <1>2, <1>3 DEF Database

\* What a step of a replica does not touch.
LEMMA RowsFrame ==
    ASSUME RowsOK, UNCHANGED rows
    PROVE  RowsOK'
  BY DEF RowsOK

LEMMA TypeReplica ==
    ASSUME TypeOK, NEW r \in Replicas,
           \/ Acquire(r) \/ Work(r) \/ TickFails(r) \/ Restart(r)
           \/ Lapse(r) \/ RenewLost(r) \/ Cancel(r) \/ ReleaseFails(r) \/ Crash(r)
    PROVE  TypeOK'
  <1> USE DEF TypeOK
  <1>1. CASE Acquire(r) \/ Restart(r) \/ RenewLost(r) \/ Lapse(r) \/ Cancel(r)
    <2>1. RowsOK'
      BY <1>1, RowsFrame DEF Acquire, Restart, RenewLost, Lapse, Cancel, store
    <2>2. SharedOK'
      BY <1>1 DEF Acquire, Restart, RenewLost, Lapse, Cancel, Fault, SharedOK,
                  store, topics
    <2>3. RunsOK'
      BY <1>1 DEF Acquire, Restart, RenewLost, Lapse, Cancel, RunsOK, Phases, Busy
    <2> QED
      BY <2>1, <2>2, <2>3
  <1>2. CASE Release(r) \/ ReleaseFails(r) \/ Crash(r)
    <2>1. RowsOK'
      BY <1>2, RowsFrame DEF Release, ReleaseFails, Crash, store
    <2>2. SharedOK'
      BY <1>2 DEF Release, ReleaseFails, Crash, Fault, SharedOK, store, topics
    <2>3. RunsOK'
      <3>1. "idle" \in Phases /\ "down" \in Phases
        BY DEF Phases
      <3> QED
        BY <1>2, <3>1, ResetType DEF Release, ReleaseFails, Crash
    <2> QED
      BY <2>1, <2>2, <2>3
  <1>3. CASE DBNowUnix(r)
    <2>1. RowsOK' /\ SharedOK'
      BY <1>3, RowsFrame DEF DBNowUnix, SharedOK, store, topics
    <2>2. now - Lag \in Int
      BY ProducerAssumption DEF SharedOK
    <2>3. RunsOK'
      BY <1>3, <2>2 DEF DBNowUnix, Goto, RunsOK, Phases, Busy
    <2> QED
      BY <2>1, <2>3
  <1>4. CASE ReadChunk(r)
    <2> DEFINE stable == stablePrefix(shard[r], cutoff[r])
    <2>1. RowsOK' /\ SharedOK'
      BY <1>4, RowsFrame DEF ReadChunk, SharedOK, store, topics
    <2>2. shard[r] \in Shards /\ cursor[shard[r]] \in Nat
      BY DEF RunsOK, SharedOK
    <2>3. stable \subseteq 1..MaxRows
      BY <2>2, ReadBatchType
    <2>4. from' = [from EXCEPT ![r] = cursor[shard[r]]]
          /\ chunk' = [chunk EXCEPT ![r] = stable]
          /\ \E id \in stable : last' = [last EXCEPT ![r] = id]
          /\ pc' = [pc EXCEPT ![r] = "main"]
          /\ UNCHANGED <<shard, cutoff, cancelled, lapsed>>
      BY <1>4 DEF ReadChunk, Goto
    <2>5. \A id \in 1..MaxRows : id \in 0..MaxRows
      BY ProducerAssumption
    <2> HIDE DEF stable
    <2>6. RunsOK'
      BY <2>2, <2>3, <2>4, <2>5 DEF RunsOK, Phases, Busy
    <2> QED
      BY <2>1, <2>6
  <1>5. CASE NothingStable(r) \/ CursorMoved(r)
    <2>1. RowsOK' /\ SharedOK'
      BY <1>5, RowsFrame DEF NothingStable, CursorMoved, SharedOK, store, topics
    <2>2. RunsOK'
      BY <1>5, NextShardType DEF NothingStable, CursorMoved, RunsOK
    <2> QED
      BY <2>1, <2>2
  <1>6. CASE ProduceBatch(r) \/ ProduceDLQ(r)
    <2>1. RowsOK' /\ SharedOK'
      BY <1>6, RowsFrame, ChunkRowsType DEF ProduceBatch, ProduceDLQ, SharedOK, store
    <2>2. RunsOK'
      BY <1>6 DEF ProduceBatch, ProduceDLQ, Goto, RunsOK, Phases, Busy
    <2> QED
      BY <2>1, <2>2
  <1>7. CASE AdvanceCursor(r)
    <2>1. RowsOK'
      BY <1>7, RowsFrame DEF AdvanceCursor
    <2>2. last[r] \in Nat
      BY ProducerAssumption DEF RunsOK
    <2>3. SharedOK'
      BY <1>7, <2>2 DEF AdvanceCursor, CompareAndSetCursor, SharedOK, topics
    <2>4. pc' \in [Replicas -> Phases] /\ shard' \in [Replicas -> Shards]
      BY <1>7, NextShardType DEF AdvanceCursor, Goto, RunsOK, Phases, Busy
    <2>5. RunsOK'
      BY <1>7, <2>4 DEF AdvanceCursor, RunsOK
    <2> QED
      BY <2>1, <2>3, <2>5
  <1>8. CASE TickFails(r)
    <2>1. RowsOK'
      BY <1>8, RowsFrame DEF TickFails
    <2>2. last[r] \in Nat
      BY ProducerAssumption DEF RunsOK
    <2>3. cursor' \in [Shards -> Nat]
      BY <1>8, <2>2 DEF TickFails, CompareAndSetCursor, SharedOK
    <2>4. main' \subseteq Slots /\ dlq' \subseteq Slots
      BY <1>8, ChunkRowsType DEF TickFails, SharedOK, topics
    <2>5. SharedOK'
      BY <1>8, <2>3, <2>4 DEF TickFails, CallFails, Fault, SharedOK
    <2>6. RunsOK'
      BY <1>8 DEF TickFails, Goto, RunsOK, Phases
    <2> QED
      BY <2>1, <2>5, <2>6
  <1> QED
    BY <1>1, <1>2, <1>3, <1>4, <1>5, <1>6, <1>7, <1>8 DEF Work

LEMMA TypeNext == TypeOK /\ [Next]_vars => TypeOK'
  <1> SUFFICES ASSUME TypeOK, [Next]_vars PROVE TypeOK'
    OBVIOUS
  <1>1. CASE OrphanExpires
    BY <1>1, RowsFrame DEF OrphanExpires, TypeOK, SharedOK, RunsOK, store, topics, replica
  <1>2. CASE UNCHANGED vars
    BY <1>2, RowsFrame DEF vars, TypeOK, SharedOK, RunsOK
  <1> QED
    BY <1>1, <1>2, TypeDatabase, TypeReplica DEF Next

\* Every reachable state of the producer has its declared shape.
THEOREM ProducerTypeCorrect == Spec => []TypeOK
  <1> QED
    BY TypeInit, TypeNext, PTL DEF Spec

-----------------------------------------------------------------------------
(* What the steps leave alone *)

Step(r) ==
    \/ Acquire(r) \/ Work(r) \/ TickFails(r) \/ Restart(r)
    \/ Lapse(r) \/ RenewLost(r) \/ Cancel(r) \/ ReleaseFails(r) \/ Crash(r)

\* Rows are appended, and only an open one changes its state.
RowsKept ==
    \A s \in Shards :
        /\ Len(rows[s]) <= Len(rows'[s])
        /\ \A i \in 1..Len(rows[s]) :
             /\ rows'[s][i].created = rows[s][i].created
             /\ State(s, i) # "open" => rows'[s][i].state = State(s, i)

SameChunk(r) ==
    /\ pc'[r] = pc[r] /\ shard'[r] = shard[r] /\ cutoff'[r] = cutoff[r]
    /\ from'[r] = from[r] /\ chunk'[r] = chunk[r] /\ last'[r] = last[r]

SameRun(r) ==
    /\ SameChunk(r)
    /\ cancelled'[r] = cancelled[r] /\ lapsed'[r] = lapsed[r]

LEMMA RowShape ==
    ASSUME RowsOK, NEW s \in Shards
    PROVE  /\ Len(rows[s]) \in Nat
           /\ DOMAIN rows[s] = 1..Len(rows[s])
           /\ \A i \in DOMAIN rows[s] : /\ rows[s][i].created \in Nat
                                        /\ rows[s][i].state \in RowStates
  <1>1. rows[s] \in Seq(Row)
    BY DEF RowsOK, Row
  <1>2. Len(rows[s]) \in Nat /\ DOMAIN rows[s] = 1..Len(rows[s])
    BY <1>1
  <1>3. \A i \in DOMAIN rows[s] : rows[s][i] \in Row
    BY <1>1
  <1> QED
    BY <1>2, <1>3 DEF Row

LEMMA NextCases ==
    ASSUME [Next]_vars
    PROVE  \/ Database
           \/ OrphanExpires
           \/ \E r \in Replicas : Step(r)
           \/ UNCHANGED vars
  BY DEF Next, Step

LEMMA OthersSame ==
    ASSUME RunsOK, NEW r \in Replicas, Step(r), NEW q \in Replicas, q # r
    PROVE  SameRun(q)
  <1>1. CASE Acquire(r) \/ Restart(r) \/ RenewLost(r) \/ Lapse(r) \/ Cancel(r)
    BY <1>1 DEF Acquire, Restart, RenewLost, Lapse, Cancel, RunsOK, SameRun, SameChunk
  <1>2. CASE Release(r) \/ ReleaseFails(r) \/ Crash(r)
    BY <1>2 DEF Release, ReleaseFails, Crash, Reset, RunsOK, SameRun, SameChunk
  <1>3. CASE DBNowUnix(r) \/ ReadChunk(r) \/ ProduceBatch(r) \/ ProduceDLQ(r) \/ TickFails(r)
    BY <1>3 DEF DBNowUnix, ReadChunk, ProduceBatch, ProduceDLQ, TickFails, Goto,
                RunsOK, SameRun, SameChunk
  <1>4. CASE NothingStable(r) \/ CursorMoved(r) \/ AdvanceCursor(r)
    BY <1>4 DEF NothingStable, CursorMoved, AdvanceCursor, NextShard, Goto,
                RunsOK, SameRun, SameChunk
  <1> QED
    BY <1>1, <1>2, <1>3, <1>4 DEF Step, Work

LEMMA StepKeepsRows ==
    ASSUME NEW r \in Replicas, Step(r)
    PROVE  UNCHANGED <<now, rows>>
  BY DEF Step, Work, Acquire, Restart, RenewLost, Lapse, Cancel, Release,
         ReleaseFails, Crash, DBNowUnix, ReadChunk, ProduceBatch, ProduceDLQ,
         TickFails, NothingStable, CursorMoved, AdvanceCursor, store

LEMMA StepKeepsProduced ==
    ASSUME NEW r \in Replicas, Step(r)
    PROVE  main \subseteq main' /\ dlq \subseteq dlq'
  BY DEF Step, Work, Acquire, Restart, RenewLost, Lapse, Cancel, Release,
         ReleaseFails, Crash, DBNowUnix, ReadChunk, ProduceBatch, ProduceDLQ,
         TickFails, NothingStable, CursorMoved, AdvanceCursor, topics

LEMMA StepMovesCursor ==
    ASSUME NEW r \in Replicas, Step(r)
    PROVE  \/ UNCHANGED cursor
           \/ /\ pc[r] = "advance"
              /\ CompareAndSetCursor(r)
              /\ AdvanceCursor(r) \/ TickFails(r)
  BY DEF Step, Work, Acquire, Restart, RenewLost, Lapse, Cancel, Release,
         ReleaseFails, Crash, DBNowUnix, ReadChunk, ProduceBatch, ProduceDLQ,
         TickFails, NothingStable, CursorMoved, AdvanceCursor, store

LEMMA DatabaseKeepsRuns ==
    ASSUME Database
    PROVE  /\ UNCHANGED <<cursor, main, dlq, lock>>
           /\ \A r \in Replicas : SameRun(r)
  BY DEF Database, Tick, Insert, EndTransaction, topics, replica, SameRun, SameChunk

-----------------------------------------------------------------------------
(* The lock *)

\* A run loses the lock by the end of its lease only, for every number of
\* replicas and faults.
THEOREM LeaseIsKept == Spec => []LeaseKept
  <1>1. Init => LeaseKept
    BY DEF Init, LeaseKept, Busy
  <1>2. TypeOK /\ LeaseKept /\ [Next]_vars => LeaseKept'
    <2> SUFFICES ASSUME TypeOK, LeaseKept, [Next]_vars,
                        NEW q \in Replicas, pc'[q] \in Busy \cup {"release"}
                 PROVE  lock' = q \/ lapsed'[q]
      BY DEF LeaseKept
    <2>1. CASE Database
      BY <2>1, DatabaseKeepsRuns DEF LeaseKept, SameRun, SameChunk
    <2>2. CASE OrphanExpires
      BY <2>2, ProducerAssumption DEF OrphanExpires, replica, LeaseKept
    <2>3. CASE UNCHANGED vars
      BY <2>3 DEF vars, LeaseKept
    <2>4. ASSUME NEW r \in Replicas, Step(r), q # r PROVE lock' = q \/ lapsed'[q]
      <3>1. SameRun(q)
        BY <2>4, OthersSame DEF TypeOK
      <3>2. lock = q => lock' = q
        BY <2>4, ProducerAssumption
        DEF Step, Work, Acquire, Restart, RenewLost, Lapse, Cancel, Release,
            ReleaseFails, Crash, DBNowUnix, ReadChunk, ProduceBatch, ProduceDLQ,
            TickFails, NothingStable, CursorMoved, AdvanceCursor, Free, Orphan
      <3> QED
        BY <3>1, <3>2 DEF SameRun, SameChunk, LeaseKept
    <2>5. ASSUME Step(q) PROVE lock' = q \/ lapsed'[q]
      <3>1. CASE Acquire(q)
        BY <3>1 DEF Acquire
      <3>2. CASE Lapse(q)
        BY <3>2 DEF Lapse, TypeOK, RunsOK
      <3>3. CASE Release(q) \/ ReleaseFails(q) \/ Crash(q) \/ Restart(q)
        BY <3>3 DEF Release, ReleaseFails, Crash, Restart, Reset, TypeOK, RunsOK, Busy
      <3>4. CASE RenewLost(q) \/ Cancel(q) \/ TickFails(q) \/ (Work(q) /\ ~Release(q))
        <4>1. pc[q] \in Busy /\ UNCHANGED <<lock, lapsed>>
          BY <3>4 DEF RenewLost, Cancel, TickFails, Work, DBNowUnix, ReadChunk,
                      ProduceBatch, ProduceDLQ, NothingStable, CursorMoved,
                      AdvanceCursor, Busy
        <4> QED
          BY <4>1 DEF LeaseKept
      <3> QED
        BY <2>5, <3>1, <3>2, <3>3, <3>4 DEF Step
    <2> QED
      BY <2>1, <2>2, <2>3, <2>4, <2>5, NextCases
  <1> QED
    BY <1>1, <1>2, ProducerTypeCorrect, PTL DEF Spec

-----------------------------------------------------------------------------
(* Nothing is skipped *)

LEMMA BasisInit ==
    ASSUME Init
    PROVE  IInv
  <1>1. RowInv /\ NothingSkipped
    BY DEF Init, RowInv, RowTimes, NearlyOrdered, CursorInRows, NothingSkipped
  <1>2. RunInv
    BY DEF Init, RunInv, CutoffOld, ChunkSound, Busy
  <1> QED
    BY <1>1, <1>2, TypeInit DEF IInv, InvBasis

\* The database keeps every part of the invariant.
LEMMA DatabaseRows ==
    ASSUME TypeOK, RowInv, Database
    PROVE  RowsKept /\ RowInv' /\ now <= now'
  <1>0. now \in Nat /\ MaxOpen \in Nat /\ Skew \in Nat
    BY ProducerAssumption DEF TypeOK, SharedOK
  <1>1. CASE Tick
    <2>1. RowsKept /\ now' = now + 1 /\ UNCHANGED <<rows, cursor>>
      BY <1>1, RowShape DEF Tick, RowsKept, State, TypeOK
    <2>2. RowTimes'
      <3> SUFFICES ASSUME NEW s \in Shards, NEW i \in DOMAIN rows'[s]
                   PROVE  /\ rows'[s][i].created <= now'
                          /\ rows'[s][i].state = "open" =>
                               now' - rows'[s][i].created <= MaxOpen
        BY DEF RowTimes, State
      <3>1. i \in DOMAIN rows[s] /\ rows[s][i].created \in Nat /\ rows[s][i].created <= now
        BY <2>1, RowShape DEF TypeOK, RowInv, RowTimes
      <3>2. State(s, i) = "open" => now - rows[s][i].created < MaxOpen
        BY <1>1, <3>1 DEF Tick
      <3> QED
        BY <1>0, <2>1, <3>1, <3>2 DEF State
    <2> QED
      BY <1>0, <2>1, <2>2 DEF RowInv, NearlyOrdered, CursorInRows
  <1>2. ASSUME NEW s \in Shards, Insert(s) PROVE RowsKept /\ RowInv' /\ now <= now'
    <2>1. PICK c \in (now - Skew)..now :
            c >= 0 /\ rows' = [rows EXCEPT ![s] =
                                 Append(@, [created |-> c, state |-> "open"])]
      BY <1>2 DEF Insert
    <2> DEFINE new == [created |-> c, state |-> "open"]
               n   == Len(rows[s])
    <2>2. c \in Nat /\ now - Skew <= c /\ c <= now
      BY <1>0, <2>1
    <2>3. rows' = [rows EXCEPT ![s] = Append(rows[s], new)] /\ rows[s] \in Seq(Row)
          /\ n \in Nat
      <3>1. rows[s] \in Seq(Row)
        BY DEF TypeOK, RowsOK, Row
      <3> QED
        BY <2>1, <3>1
    <2>4. UNCHANGED <<now, cursor>>
      BY <1>2 DEF Insert
    <2>5. /\ \A t \in Shards \ {s} : rows'[t] = rows[t]
          /\ Len(rows'[s]) = n + 1
          /\ DOMAIN rows'[s] = 1..(n + 1)
          /\ \A i \in 1..n : rows'[s][i] = rows[s][i]
          /\ rows'[s][n + 1].created = c /\ rows'[s][n + 1].state = "open"
      <3>1. rows'[s] = Append(rows[s], new) /\ \A t \in Shards \ {s} : rows'[t] = rows[t]
        BY <2>3 DEF TypeOK, RowsOK
      <3> QED
        BY <2>3, <3>1
    <2>6. \A i \in 1..(n + 1) : i \in 1..n \/ i = n + 1
      BY <2>3
    <2>7. RowsKept
      BY <2>3, <2>5, RowShape DEF RowsKept, State, TypeOK
    <2>8. RowTimes'
      <3> SUFFICES ASSUME NEW t \in Shards, NEW i \in DOMAIN rows'[t]
                   PROVE  /\ rows'[t][i].created <= now
                          /\ rows'[t][i].state = "open" =>
                               now - rows'[t][i].created <= MaxOpen
        BY <2>4 DEF RowTimes, State
      <3>1. CASE t = s /\ i = n + 1
        BY <1>0, <2>2, <2>5, <3>1, ProducerAssumption
      <3>2. CASE t # s \/ i # n + 1
        <4>1. i \in DOMAIN rows[t] /\ rows'[t][i] = rows[t][i]
          BY <2>3, <2>5, <2>6, <3>2, RowShape DEF TypeOK
        <4> QED
          BY <4>1 DEF RowInv, RowTimes, State
      <3> QED
        BY <3>1, <3>2
    <2>9. NearlyOrdered'
      <3> SUFFICES ASSUME NEW t \in Shards, NEW i \in DOMAIN rows'[t],
                          NEW j \in DOMAIN rows'[t], i <= j
                   PROVE  rows'[t][i].created <= rows'[t][j].created + Skew
        BY DEF NearlyOrdered
      <3>1. CASE t # s
        BY <2>5, <3>1 DEF RowInv, NearlyOrdered
      <3>2. CASE t = s /\ j = n + 1
        <4>1. rows'[s][i].created \in Nat /\ rows'[s][i].created <= now
          BY <2>2, <2>5, <2>6, <3>2, RowShape DEF TypeOK, RowInv, RowTimes
        <4> QED
          BY <1>0, <2>2, <2>5, <3>2, <4>1
      <3>3. CASE t = s /\ j # n + 1
        <4>1. i \in 1..n /\ j \in 1..n
          BY <2>3, <2>5, <3>3
        <4> QED
          BY <2>5, <3>3, <4>1, RowShape DEF TypeOK, RowInv, NearlyOrdered
      <3> QED
        BY <3>1, <3>2, <3>3
    <2>10. CursorInRows'
      <3>1. \A t \in Shards : cursor[t] <= Len(rows[t]) /\ cursor[t] \in Nat
                              /\ Len(rows[t]) \in Nat
        BY RowShape DEF TypeOK, SharedOK, RowInv, CursorInRows
      <3> QED
        BY <2>3, <2>4, <2>5, <3>1 DEF CursorInRows
    <2> QED
      BY <1>0, <2>4, <2>7, <2>8, <2>9, <2>10 DEF RowInv
  <1>3. ASSUME NEW s \in Shards, NEW i \in DOMAIN rows[s], EndTransaction(s, i)
        PROVE  RowsKept /\ RowInv' /\ now <= now'
    <2>1. PICK end \in {"visible", "rolledBack"} :
            rows' = [rows EXCEPT ![s][i].state = end]
      BY <1>3 DEF EndTransaction
    <2>2. UNCHANGED <<now, cursor>> /\ State(s, i) = "open"
      BY <1>3 DEF EndTransaction
    <2>3. rows[s] \in Seq(Row) /\ rows[s][i] \in Row
      <3>1. rows[s] \in Seq(Row)
        BY DEF TypeOK, RowsOK, Row
      <3> QED
        BY <3>1
    <2>4. \A t \in Shards : /\ Len(rows'[t]) = Len(rows[t])
                            /\ DOMAIN rows'[t] = DOMAIN rows[t]
      <3>1. [rows[s] EXCEPT ![i] = [rows[s][i] EXCEPT !.state = end]] \in Seq(Row)
            /\ Len([rows[s] EXCEPT ![i] = [rows[s][i] EXCEPT !.state = end]]) = Len(rows[s])
        BY <2>3 DEF Row, RowStates
      <3> QED
        BY <2>1, <2>3, <3>1 DEF TypeOK, RowsOK
    <2>5. \A t \in Shards : \A j \in DOMAIN rows[t] :
            /\ rows'[t][j].created = rows[t][j].created
            /\ rows'[t][j].state = IF t = s /\ j = i THEN end ELSE rows[t][j].state
      BY <2>1, <2>3 DEF TypeOK, RowsOK, Row
    <2>6. RowsKept
      BY <2>2, <2>4, <2>5, RowShape DEF RowsKept, State, TypeOK
    <2>7. RowTimes'
      BY <2>1, <2>2, <2>4, <2>5 DEF RowInv, RowTimes, State
    <2>8. NearlyOrdered' /\ CursorInRows'
      BY <2>2, <2>4, <2>5 DEF RowInv, NearlyOrdered, CursorInRows
    <2> QED
      BY <1>0, <2>2, <2>6, <2>7, <2>8 DEF RowInv
  <1> QED
    BY <1>1, <1>2, <1>3 DEF Database

\* A run that does not step keeps its part.
LEMMA RunFrame ==
    ASSUME TypeOK, CursorInRows, RowsKept, now <= now', now' \in Nat,
           main \subseteq main', dlq \subseteq dlq',
           NEW q \in Replicas, CutoffOld(q), ChunkSound(q), SameChunk(q),
           RowsOK'
    PROVE  CutoffOld(q)' /\ ChunkSound(q)'
  <1>1. CutoffOld(q)'
    <2>1. cutoff[q] \in Int /\ now \in Nat
      BY DEF TypeOK, RunsOK, SharedOK
    <2> QED
      BY <2>1, ProducerAssumption DEF CutoffOld, SameChunk
  <1>2. Body(q)' = Body(q) /\ Dead(q)' = Dead(q)
    BY DEF Body, Dead, ChunkRows, SameChunk
  <1>3. shard[q] \in Shards /\ from[q] \in Nat
    BY DEF TypeOK, RunsOK
  <1>4. ASSUME pc[q] \in {"main", "dlq", "advance"}
        PROVE  /\ last[q] \in DOMAIN rows'[shard[q]]
               /\ \A i \in DOMAIN rows'[shard[q]] :
                    from[q] < i /\ i <= last[q] =>
                      rows'[shard[q]][i].state = "rolledBack" \/ i \in chunk[q]
    <2>1. last[q] \in DOMAIN rows[shard[q]]
      BY <1>4 DEF ChunkSound
    <2>2. /\ DOMAIN rows[shard[q]] = 1..Len(rows[shard[q]])
          /\ DOMAIN rows'[shard[q]] = 1..Len(rows'[shard[q]])
          /\ Len(rows[shard[q]]) \in Nat /\ Len(rows'[shard[q]]) \in Nat
          /\ Len(rows[shard[q]]) <= Len(rows'[shard[q]])
      <3>1. rows[shard[q]] \in Seq(Row) /\ rows'[shard[q]] \in Seq(Row)
        BY <1>3 DEF TypeOK, RowsOK, Row
      <3> QED
        BY <1>3, <3>1 DEF RowsKept
    <2>3. ASSUME NEW i \in DOMAIN rows'[shard[q]], from[q] < i, i <= last[q]
          PROVE  rows'[shard[q]][i].state = "rolledBack" \/ i \in chunk[q]
      <3>1. i \in DOMAIN rows[shard[q]]
        BY <2>1, <2>2, <2>3
      <3>2. State(shard[q], i) = "rolledBack" \/ i \in chunk[q]
        BY <1>4, <2>3, <3>1 DEF ChunkSound
      <3>3. State(shard[q], i) # "open" => rows'[shard[q]][i].state = State(shard[q], i)
        BY <1>3, <2>2, <3>1 DEF RowsKept
      <3> QED
        BY <3>2, <3>3
    <2> QED
      BY <2>1, <2>2, <2>3
  <1>5. ChunkSound(q)'
    BY <1>2, <1>4 DEF ChunkSound, SameChunk, State
  <1> QED
    BY <1>1, <1>5

\* Rows at or below a cursor stay settled while the cursor rests.
LEMMA SettledFrame ==
    ASSUME TypeOK, RowsOK', CursorInRows, NothingSkipped, RowsKept, UNCHANGED cursor,
           main \subseteq main', dlq \subseteq dlq'
    PROVE  NothingSkipped'
  <1> SUFFICES ASSUME NEW s \in Shards, NEW i \in DOMAIN rows'[s], i <= cursor[s]
               PROVE  rows'[s][i].state = "rolledBack" \/ <<s, i>> \in main' \cup dlq'
    BY DEF NothingSkipped, State, Produced
  <1>1. rows[s] \in Seq(Row) /\ rows'[s] \in Seq(Row)
    BY DEF TypeOK, RowsOK, Row
  <1>2. cursor[s] <= Len(rows[s]) /\ cursor[s] \in Nat
    BY DEF CursorInRows, TypeOK, SharedOK
  <1>3. i \in 1..Len(rows[s])
    BY <1>1, <1>2
  <1>4. State(s, i) = "rolledBack" \/ <<s, i>> \in Produced
    BY <1>1, <1>3 DEF NothingSkipped
  <1> QED
    BY <1>3, <1>4 DEF RowsKept, Produced

\* What a stable prefix leaves out below its end is rolled back: a row still
\* open would be younger than the lag.
LEMMA PrefixHasNoGap ==
    ASSUME LagOutlivesInserts, TypeOK, RowInv, NEW s \in Shards,
           NEW cut \in Int, cut <= now - Lag,
           NEW id \in stablePrefix(s, cut),
           NEW i \in DOMAIN rows[s], cursor[s] < i, i <= id
    PROVE  State(s, i) = "rolledBack" \/ i \in stablePrefix(s, cut)
  <1>0. /\ now \in Nat /\ MaxOpen \in Nat /\ Skew \in Nat /\ Lag \in Nat /\ Batch \in Nat
        /\ cursor[s] \in Nat
    BY ProducerAssumption DEF TypeOK, SharedOK
  <1>1. /\ Len(rows[s]) \in Nat /\ DOMAIN rows[s] = 1..Len(rows[s])
        /\ \A k \in DOMAIN rows[s] : rows[s][k].created \in Nat /\ rows[s][k].state \in RowStates
    BY RowShape DEF TypeOK
  <1>2. id \in ReadBatch(s) /\ id \in Unread(s) /\ id \in DOMAIN rows[s]
    BY DEF stablePrefix, ReadBatch, Unread
  <1>3. \A j \in ReadBatch(s) : j <= id => rows[s][j].created <= cut
    BY DEF stablePrefix
  <1>4. State(s, i) # "open"
    <2> SUFFICES ASSUME State(s, i) = "open" PROVE FALSE
      OBVIOUS
    <2>1. now - rows[s][i].created <= MaxOpen
      BY DEF RowInv, RowTimes
    <2>2. rows[s][i].created <= rows[s][id].created + Skew
      BY <1>2 DEF RowInv, NearlyOrdered
    <2>3. rows[s][id].created <= cut
      BY <1>1, <1>2, <1>3
    <2>4. rows[s][i].created \in Nat /\ rows[s][id].created \in Nat
      BY <1>1, <1>2
    <2>5. MaxOpen + Skew < Lag
      BY DEF LagOutlivesInserts
    <2> QED
      BY <1>0, <2>1, <2>2, <2>3, <2>4, <2>5
  <1>5. CASE State(s, i) = "visible"
    <2>1. i \in Unread(s)
      BY <1>5 DEF Unread
    <2> DEFINE upTo(k) == {j \in Unread(s) : j <= k}
    <2>2. IsFiniteSet(upTo(id))
      <3>1. upTo(id) \subseteq 1..Len(rows[s])
        BY <1>1 DEF Unread
      <3>2. IsFiniteSet(1..Len(rows[s]))
        BY <1>1, FS_Interval
      <3> QED
        BY <3>1, <3>2, FS_Subset
    <2>3. upTo(i) \subseteq upTo(id)
      BY <1>1, <1>2 DEF Unread
    <2>4. Cardinality(upTo(i)) <= Cardinality(upTo(id))
          /\ Cardinality(upTo(i)) \in Nat /\ Cardinality(upTo(id)) \in Nat
      <3>1. IsFiniteSet(upTo(i))
        BY <2>2, <2>3, FS_Subset
      <3>2. Cardinality(upTo(i)) <= Cardinality(upTo(id))
        BY <2>2, <2>3, FS_Subset
      <3>3. Cardinality(upTo(i)) \in Nat /\ Cardinality(upTo(id)) \in Nat
        BY <2>2, <3>1, FS_CardinalityType
      <3> QED
        BY <3>2, <3>3
    <2>5. Cardinality(upTo(id)) <= Batch
      BY <1>2 DEF ReadBatch
    <2>6. i \in ReadBatch(s)
      <3>1. Cardinality(upTo(i)) <= Batch
        BY <1>0, <2>4, <2>5
      <3> QED
        BY <2>1, <3>1 DEF ReadBatch
    <2>7. \A j \in ReadBatch(s) : j <= i => rows[s][j].created <= cut
      <3>1. \A j \in ReadBatch(s) : j \in Nat
        BY <1>1 DEF ReadBatch, Unread
      <3> QED
        BY <1>1, <1>2, <1>3, <3>1
    <2> QED
      BY <2>6, <2>7 DEF stablePrefix
  <1> QED
    BY <1>1, <1>4, <1>5 DEF RowStates, State

\* The step of a run keeps its own part.
LEMMA OwnRun ==
    ASSUME LagOutlivesInserts, InvBasis, NEW r \in Replicas, Step(r)
    PROVE  CutoffOld(r)' /\ ChunkSound(r)'
  <1>0. /\ TypeOK /\ TypeOK' /\ RowInv /\ CutoffOld(r) /\ ChunkSound(r)
        /\ UNCHANGED <<now, rows>>
    BY StepKeepsRows, TypeReplica DEF InvBasis, RunInv, Step
  <1>1. CASE RenewLost(r) \/ Cancel(r) \/ Lapse(r)
    <2>1. UNCHANGED <<pc, shard, cutoff, from, chunk, last, main, dlq>>
      BY <1>1 DEF RenewLost, Cancel, Lapse, topics
    <2> QED
      BY <1>0, <2>1 DEF CutoffOld, ChunkSound, Body, Dead, ChunkRows, State
  <1>2. ASSUME pc'[r] \in {"idle", "down", "clock", "release"}
        PROVE  CutoffOld(r)' /\ ChunkSound(r)'
    <2>1. ChunkSound(r)'
      BY <1>2 DEF ChunkSound
    <2>2. CASE pc'[r] # "release"
      BY <1>2, <2>1, <2>2 DEF CutoffOld, Busy
    <2>3. CASE pc'[r] = "release"
      BY <2>1, <2>3 DEF CutoffOld, Busy
    <2> QED
      BY <2>1, <2>2, <2>3
  <1>3. CASE Acquire(r) \/ Restart(r) \/ Release(r) \/ ReleaseFails(r) \/ Crash(r)
             \/ TickFails(r)
    <2>1. pc'[r] \in {"idle", "down", "clock", "release"}
      BY <1>0, <1>3 DEF Acquire, Restart, Release, ReleaseFails, Crash, TickFails, Reset,
                        Goto, TypeOK, RunsOK
    <2> QED
      BY <1>2, <2>1
  <1>4. CASE DBNowUnix(r)
    <2>1. pc'[r] = "read" /\ cutoff'[r] = now - Lag
      BY <1>0, <1>4 DEF DBNowUnix, Goto, TypeOK, RunsOK
    <2>2. now \in Nat /\ Lag \in Nat
      BY <1>0, ProducerAssumption DEF TypeOK, SharedOK
    <2> QED
      BY <1>0, <2>1, <2>2 DEF CutoffOld, ChunkSound, Busy
  <1>5. CASE NothingStable(r) \/ CursorMoved(r) \/ AdvanceCursor(r)
    <2>1. pc[r] \in Busy \ {"clock"} /\ pc'[r] \in {"read", "release"} /\ UNCHANGED cutoff
      BY <1>0, <1>5 DEF NothingStable, CursorMoved, AdvanceCursor, NextShard, Goto,
                        TypeOK, RunsOK, Busy
    <2> QED
      BY <1>0, <2>1 DEF CutoffOld, ChunkSound
  <1>6. CASE ProduceBatch(r)
    <2>1. /\ pc[r] = "main" /\ pc'[r] = "dlq" /\ main' = main \cup Body(r)
          /\ UNCHANGED <<shard, cutoff, from, chunk, last, dlq>>
      BY <1>0, <1>6 DEF ProduceBatch, Goto, TypeOK, RunsOK
    <2> QED
      BY <1>0, <2>1 DEF CutoffOld, ChunkSound, Body, Dead, ChunkRows, State, Busy
  <1>7. CASE ProduceDLQ(r)
    <2>1. /\ pc[r] = "dlq" /\ pc'[r] \in {"release", "advance"} /\ dlq' = dlq \cup Dead(r)
          /\ UNCHANGED <<shard, cutoff, from, chunk, last, main>>
      BY <1>0, <1>7 DEF ProduceDLQ, Goto, TypeOK, RunsOK
    <2> QED
      BY <1>0, <2>1 DEF CutoffOld, ChunkSound, Body, Dead, ChunkRows, State, Busy
  <1>8. CASE ReadChunk(r)
    <2> DEFINE s == shard[r]
    <2>1. PICK id \in stablePrefix(s, cutoff[r]) :
            /\ \A i \in stablePrefix(s, cutoff[r]) : i <= id
            /\ last' = [last EXCEPT ![r] = id]
      BY <1>8 DEF ReadChunk
    <2>2. /\ pc[r] = "read" /\ pc'[r] = "main" /\ from'[r] = cursor[s]
          /\ chunk'[r] = stablePrefix(s, cutoff[r]) /\ last'[r] = id
          /\ UNCHANGED <<shard, cutoff>>
      BY <1>0, <1>8, <2>1 DEF ReadChunk, Goto, TypeOK, RunsOK
    <2>3. s \in Shards /\ cutoff[r] \in Int /\ cutoff[r] <= now - Lag
      BY <1>0, <2>2 DEF CutoffOld, TypeOK, RunsOK, Busy
    <2>4. id \in DOMAIN rows[s] /\ cursor[s] < id
      BY <1>0, <2>3, RowShape DEF stablePrefix, ReadBatch, Unread, TypeOK, SharedOK
    <2>5. \A i \in DOMAIN rows[s] :
            cursor[s] < i /\ i <= id =>
              State(s, i) = "rolledBack" \/ i \in stablePrefix(s, cutoff[r])
      BY <1>0, <2>3, PrefixHasNoGap
    <2> QED
      BY <1>0, <2>2, <2>3, <2>4, <2>5 DEF CutoffOld, ChunkSound, State, Busy
  <1> QED
    BY <1>1, <1>3, <1>4, <1>5, <1>6, <1>7, <1>8 DEF Step, Work

\* Advancing over a produced chunk skips nothing and moves forwards.
LEMMA AdvanceIsSound ==
    ASSUME TypeOK, NEW r \in Replicas, ChunkSound(r), CursorInRows, NothingSkipped,
           pc[r] = "advance", CompareAndSetCursor(r), UNCHANGED rows,
           main \subseteq main', dlq \subseteq dlq'
    PROVE  /\ NothingSkipped' /\ CursorInRows'
           /\ \A s \in Shards : cursor[s] <= cursor'[s]
           /\ cursor' = [cursor EXCEPT ![shard[r]] = last[r]]
           /\ last[r] \in Nat /\ shard[r] \in Shards
  <1> DEFINE t == shard[r]
  <1>1. /\ t \in Shards /\ cursor \in [Shards -> Nat] /\ from[r] \in Nat
        /\ cursor[t] = from[r] /\ cursor' = [cursor EXCEPT ![t] = last[r]]
    BY DEF TypeOK, RunsOK, SharedOK, CompareAndSetCursor
  <1>2. /\ last[r] \in 1..Len(rows[t]) /\ from[r] < last[r] /\ Len(rows[t]) \in Nat
        /\ DOMAIN rows[t] = 1..Len(rows[t])
    BY <1>1, RowShape DEF TypeOK, ChunkSound
  <1>3. NothingSkipped'
    <2> SUFFICES ASSUME NEW s \in Shards, NEW i \in DOMAIN rows[s], i <= cursor'[s]
                 PROVE  State(s, i) = "rolledBack" \/ <<s, i>> \in Produced'
      BY DEF NothingSkipped, State
    <2>1. Produced \subseteq Produced'
      BY DEF Produced
    <2>2. CASE s # t \/ i <= cursor[t]
      <3>1. i <= cursor[s]
        BY <1>1, <2>2
      <3> QED
        BY <2>1, <3>1 DEF NothingSkipped
    <2>3. CASE s = t /\ ~(i <= cursor[t])
      <3>1. from[r] < i /\ i <= last[r]
        BY <1>1, <1>2, <2>3
      <3>2. State(t, i) = "rolledBack" \/ i \in chunk[r]
        BY <2>3, <3>1 DEF ChunkSound
      <3>3. i \in chunk[r] => <<t, i>> \in Produced
        BY DEF ChunkSound, ChunkRows, Body, Dead, Produced
      <3> QED
        BY <2>1, <2>3, <3>2, <3>3
    <2> QED
      BY <2>2, <2>3
  <1>4. CursorInRows'
    BY <1>1, <1>2 DEF CursorInRows
  <1>5. \A s \in Shards : cursor[s] <= cursor'[s]
    BY <1>1, <1>2
  <1> QED
    BY <1>1, <1>2, <1>3, <1>4, <1>5

LEMMA InvNext == LagOutlivesInserts /\ IInv /\ [Next]_vars => IInv'
  <1> SUFFICES ASSUME LagOutlivesInserts, IInv, [Next]_vars PROVE IInv'
    OBVIOUS
  <1>0. /\ TypeOK /\ TypeOK' /\ RowInv /\ CursorInRows /\ NothingSkipped
        /\ \A q \in Replicas : CutoffOld(q) /\ ChunkSound(q)
    BY TypeNext DEF IInv, InvBasis, RunInv, RowInv
  <1>n. now \in Nat /\ now' \in Nat
    BY <1>0 DEF TypeOK, SharedOK
  <1>1. CASE Database
    <2>1. RowsKept /\ RowInv' /\ now <= now'
      BY <1>0, <1>1, DatabaseRows
    <2>2. UNCHANGED <<cursor, main, dlq>> /\ \A q \in Replicas : SameChunk(q)
      BY <1>1, DatabaseKeepsRuns DEF SameRun
    <2>3. NothingSkipped'
      BY <1>0, <2>1, <2>2, SettledFrame DEF TypeOK
    <2>4. RunInv'
      BY <1>0, <1>n, <2>1, <2>2, RunFrame DEF RunInv, TypeOK
    <2> QED
      BY <1>0, <2>1, <2>3, <2>4 DEF IInv, InvBasis
  <1>2. ASSUME NEW r \in Replicas, Step(r) PROVE IInv'
    <2>1. UNCHANGED <<now, rows>> /\ main \subseteq main' /\ dlq \subseteq dlq'
      BY <1>2, StepKeepsRows, StepKeepsProduced
    <2>2. RowsKept /\ now <= now'
      BY <1>0, <1>n, <2>1, RowShape DEF RowsKept, State, TypeOK
    <2>3. RunInv'
      <3> SUFFICES ASSUME NEW q \in Replicas PROVE CutoffOld(q)' /\ ChunkSound(q)'
        BY DEF RunInv
      <3>1. CASE q = r
        BY <1>2, <3>1, OwnRun DEF IInv
      <3>2. CASE q # r
        BY <1>0, <1>2, <1>n, <2>1, <2>2, <3>2, OthersSame, RunFrame DEF TypeOK, SameRun
      <3> QED
        BY <3>1, <3>2
    <2>4. NothingSkipped' /\ CursorInRows'
      <3>1. CASE UNCHANGED cursor
        BY <1>0, <2>1, <2>2, <3>1, SettledFrame DEF CursorInRows, TypeOK
      <3>2. CASE pc[r] = "advance" /\ CompareAndSetCursor(r)
        BY <1>0, <2>1, <3>2, AdvanceIsSound
      <3> QED
        BY <1>2, <3>1, <3>2, StepMovesCursor
    <2>5. RowInv'
      BY <1>0, <2>1, <2>4 DEF RowInv, RowTimes, NearlyOrdered, State
    <2> QED
      BY <1>0, <2>3, <2>4, <2>5 DEF IInv, InvBasis
  <1>3. CASE OrphanExpires \/ UNCHANGED vars
    <2>1. UNCHANGED <<now, rows, cursor, main, dlq, pc, shard, cutoff, from, chunk, last>>
      BY <1>3 DEF OrphanExpires, vars, store, topics, replica
    <2>2. RowInv' /\ NothingSkipped'
      BY <1>0, <2>1 DEF RowInv, RowTimes, NearlyOrdered, CursorInRows, NothingSkipped,
                        Produced, State
    <2>3. RunInv'
      BY <1>0, <2>1 DEF RunInv, CutoffOld, ChunkSound, Body, Dead, ChunkRows, State
    <2> QED
      BY <1>0, <2>2, <2>3 DEF IInv, InvBasis
  <1> QED
    BY <1>1, <1>2, <1>3, NextCases

\* While the lag outlives the INSERT transactions, no cursor passes a row that
\* is not produced: for every number of replicas, shards, rows and faults, with
\* ids that become visible out of order and leases that lapse at any point.
THEOREM NothingIsSkipped ==
    ASSUME LagOutlivesInserts
    PROVE  Spec => []NothingSkipped
  <1>1. Init => IInv
    BY BasisInit
  <1>2. IInv /\ [Next]_vars => IInv'
    BY InvNext
  <1>3. IInv => NothingSkipped
    BY DEF IInv
  <1> QED
    BY <1>1, <1>2, <1>3, PTL DEF Spec

\* No cursor ever moves back, whichever replicas hold a chunk of its shard.
THEOREM CursorOnlyForward ==
    ASSUME LagOutlivesInserts
    PROVE  Spec => CursorNeverBack
  <1>1. IInv /\ [Next]_vars => \A s \in Shards : cursor'[s] >= cursor[s]
    <2> SUFFICES ASSUME IInv, [Next]_vars, NEW s \in Shards
                 PROVE  cursor'[s] >= cursor[s]
      OBVIOUS
    <2>1. cursor[s] \in Nat
      BY DEF IInv, InvBasis, TypeOK, SharedOK
    <2>2. CASE UNCHANGED cursor
      BY <2>1, <2>2
    <2>3. ASSUME NEW r \in Replicas, Step(r), pc[r] = "advance", CompareAndSetCursor(r)
          PROVE  cursor'[s] >= cursor[s]
      <3>1. UNCHANGED rows /\ main \subseteq main' /\ dlq \subseteq dlq'
        BY <2>3, StepKeepsRows, StepKeepsProduced
      <3>2. cursor[s] <= cursor'[s] /\ cursor' = [cursor EXCEPT ![shard[r]] = last[r]]
            /\ last[r] \in Nat
        BY <2>3, <3>1, AdvanceIsSound DEF IInv, InvBasis, RowInv, RunInv
      <3>3. cursor'[s] \in Nat
        BY <2>1, <3>2 DEF IInv, InvBasis, TypeOK, SharedOK
      <3> QED
        BY <2>1, <3>2, <3>3
    <2> QED
      BY <2>2, <2>3, NextCases, StepMovesCursor, DatabaseKeepsRuns
      DEF OrphanExpires, store, vars
  <1>2. Spec => []IInv
    BY BasisInit, InvNext, PTL DEF Spec
  <1>3. IInv /\ [Next]_vars => [\A s \in Shards : cursor'[s] >= cursor[s]]_vars
    BY <1>1
  <1> QED
    BY <1>2, <1>3, PTL DEF Spec, CursorNeverBack

-----------------------------------------------------------------------------
(* The producer implements the promise of every pipeline stage *)

Outcome == Produced \cup RolledBack

LEMMA PromiseStep ==
    LagOutlivesInserts /\ IInv /\ IInv' /\ [Next]_vars => [Promise!Next]_(Promise!vars)
  <1> SUFFICES ASSUME LagOutlivesInserts, IInv, IInv', [Next]_vars
               PROVE  Promise!Next \/ UNCHANGED <<Outcome, cursor>>
    BY DEF Promise!vars, Outcome
  <1>0. TypeOK /\ TypeOK' /\ NothingSkipped' /\ CursorInRows'
    BY DEF IInv, InvBasis, RowInv
  <1>1. Outcome' \subseteq Slots
    BY <1>0 DEF Outcome, Produced, RolledBack, TypeOK, SharedOK
  <1>2. ASSUME RowsKept, UNCHANGED cursor, main \subseteq main', dlq \subseteq dlq'
        PROVE  Promise!Next
    <2>1. ASSUME NEW m \in RolledBack PROVE m \in RolledBack'
      <3>1. /\ m \in Slots /\ m[1] \in Shards /\ m[2] \in DOMAIN rows[m[1]]
            /\ State(m[1], m[2]) = "rolledBack"
        BY <2>1 DEF RolledBack, Slots
      <3>2. rows[m[1]] \in Seq(Row) /\ rows'[m[1]] \in Seq(Row)
        BY <1>0, <3>1 DEF TypeOK, RowsOK, Row
      <3>3. Len(rows[m[1]]) <= Len(rows'[m[1]])
        BY <1>2, <3>1 DEF RowsKept
      <3>4. m[2] \in 1..Len(rows[m[1]]) /\ m[2] \in DOMAIN rows'[m[1]]
        BY <3>1, <3>2, <3>3
      <3>5. rows'[m[1]][m[2]].state = "rolledBack"
        BY <1>2, <3>1, <3>4 DEF RowsKept
      <3> QED
        BY <3>1, <3>4, <3>5 DEF RolledBack, State
    <2>2. Outcome \subseteq Outcome'
      BY <1>2, <2>1 DEF Outcome, Produced
    <2> QED
      BY <1>1, <1>2, <2>2 DEF Promise!Next, Promise!Settle, Outcome
  <1>3. CASE Database
    <2>1. RowsKept /\ UNCHANGED <<cursor, main, dlq>>
      BY <1>3, DatabaseRows, DatabaseKeepsRuns DEF IInv, InvBasis
    <2> QED
      BY <1>2, <2>1
  <1>4. CASE OrphanExpires \/ UNCHANGED vars
    BY <1>4 DEF OrphanExpires, vars, store, topics, Outcome, Produced, RolledBack, State
  <1>5. ASSUME NEW r \in Replicas, Step(r) PROVE Promise!Next
    <2>1. UNCHANGED <<now, rows>> /\ main \subseteq main' /\ dlq \subseteq dlq'
      BY <1>5, StepKeepsRows, StepKeepsProduced
    <2>2. RowsKept
      BY <1>0, <2>1, RowShape DEF RowsKept, State, TypeOK
    <2>3. CASE UNCHANGED cursor
      BY <1>2, <2>1, <2>2, <2>3
    <2>4. CASE pc[r] = "advance" /\ CompareAndSetCursor(r) /\ (AdvanceCursor(r) \/ TickFails(r))
      <3> DEFINE t == shard[r]
      <3>1. UNCHANGED <<main, dlq>>
        BY <2>4 DEF AdvanceCursor, TickFails, topics
      <3>2. UNCHANGED Outcome
        BY <2>1, <3>1 DEF Outcome, Produced, RolledBack, State
      <3>3. /\ t \in Shards /\ last[r] \in Nat
            /\ cursor' = [cursor EXCEPT ![t] = last[r]]
        BY <2>1, <2>4, AdvanceIsSound DEF IInv, InvBasis, RowInv, RunInv
      <3>4. cursor'[t] = last[r]
        BY <1>0, <3>3 DEF TypeOK, SharedOK, IInv, InvBasis
      <3>5. Promise!Covers(t, cursor'[t]) \subseteq Outcome'
        <4> SUFFICES ASSUME NEW m \in Slots, m[1] = t, m[2] <= cursor'[t]
                     PROVE  m \in Outcome'
          BY DEF Promise!Covers
        <4>1. m[2] \in 1..MaxRows /\ m = <<t, m[2]>>
          BY DEF Slots
        <4>2. /\ cursor'[t] <= Len(rows'[t]) /\ rows'[t] \in Seq(Row)
              /\ cursor'[t] \in Nat
          BY <1>0, <3>3 DEF CursorInRows, TypeOK, RowsOK, SharedOK, Row
        <4>3. m[2] \in DOMAIN rows'[t]
          BY <4>1, <4>2
        <4>4. rows'[t][m[2]].state = "rolledBack" \/ <<t, m[2]>> \in Produced'
          BY <1>0, <3>3, <4>3 DEF NothingSkipped, State
        <4> QED
          BY <4>1, <4>3, <4>4 DEF Outcome, RolledBack, State
      <3> QED
        BY <3>2, <3>3, <3>4, <3>5 DEF Promise!Next, Promise!Advance, Outcome
    <2> QED
      BY <1>5, <2>3, <2>4, StepMovesCursor
  <1> QED
    BY <1>3, <1>4, <1>5, NextCases

\* Every behaviour of the producer is one the at-least-once promise allows,
\* with the cursor rows as resume points.
THEOREM ProducerKeepsPromise ==
    ASSUME LagOutlivesInserts
    PROVE  Spec => ImplementsAtLeastOnce
  <1>1. ImplementsAtLeastOnce <=> Promise!Init /\ [][Promise!Next]_(Promise!vars)
    BY DEF ImplementsAtLeastOnce, Promise!Spec
  <1>2. Init => Promise!Init
    BY DEF Init, Promise!Init, Produced, RolledBack, Slots
  <1>3. Init => IInv
    BY BasisInit
  <1>4. IInv /\ [Next]_vars => IInv'
    BY InvNext
  <1>5. IInv /\ IInv' /\ [Next]_vars => [Promise!Next]_(Promise!vars)
    BY PromiseStep
  <1> QED
    BY <1>1, <1>2, <1>3, <1>4, <1>5, PTL DEF Spec
=============================================================================
