------------------------ MODULE IndexerConsumerProofs ------------------------
(***************************************************************************)
(* What the es-indexer consumer guarantees for every consumer group, every *)
(* log and every number of faults.                                         *)
(***************************************************************************)
EXTENDS IndexerConsumer, TLAPS

LEMMA MessageParts ==
    ASSUME NEW m \in Messages
    PROVE  /\ m[1] \in Partitions
           /\ m[2] \in 1..Len(Log[m[1]])
           /\ m = <<m[1], m[2]>>
  BY DEF Messages

LEMMA MessageMade ==
    ASSUME NEW p \in Partitions, NEW o \in 1..Len(Log[p])
    PROVE  <<p, o>> \in Messages
  BY DEF Messages

-----------------------------------------------------------------------------
(* Types *)

LEMMA ExitType ==
    ASSUME TypeOK, NEW w \in Workers, Exit(w), faults' \in Nat,
           committed' \in [Partitions -> Nat],
           UNCHANGED <<es, dlq, spill>>
    PROVE  TypeOK'
  BY DEF TypeOK, Exit, Phases, NoOffset

LEMMA MapSeq ==
    ASSUME NEW S, NEW T, NEW s \in Seq(S), NEW e \in [DOMAIN s -> T]
    PROVE  e \in Seq(T) /\ Len(e) = Len(s)
  OBVIOUS

LEMMA TypeInit == Init => TypeOK
  BY DEF Init, TypeOK, NoOffset, Phases

\* Each step of a worker preserves the types.
LEMMA TypeStep ==
    ASSUME TypeOK, NEW w \in Workers, Step(w)
    PROVE  TypeOK'
  <1>1. ASSUME NEW p \in Partitions, FetchMessage(w, p) PROVE TypeOK'
    <2>1. <<p, pos[w][p] + 1>> \in Messages
      BY <1>1, MessageMade, ConsumerAssumption DEF FetchMessage, TypeOK
    <2>2. batch'[w] \in Seq(Messages) /\ disp'[w] \in Seq(Dispositions)
          /\ Len(disp'[w]) = Len(batch'[w])
      BY <1>1, <2>1 DEF FetchMessage, TypeOK, Dispositions
    <2> QED
      BY <1>1, <2>2 DEF FetchMessage, TypeOK
  <1>2. CASE StartBatch(w)
    <2> DEFINE judged == [i \in DOMAIN disp[w] |->
                   IF Kind(batch[w][i]) \in {"schemaInvalid", "visibilityInvalid"}
                   THEN "poison"
                   ELSE "transient"]
    <2>1. judged \in Seq(Dispositions) /\ Len(judged) = Len(disp[w])
      <3>1. judged \in [DOMAIN disp[w] -> Dispositions]
        BY DEF Dispositions
      <3>2. disp[w] \in Seq(Dispositions)
        BY DEF TypeOK
      <3> QED
        BY <3>1, <3>2, MapSeq
    <2>2. disp' = [disp EXCEPT ![w] = judged]
      BY <1>2 DEF StartBatch
    <2> HIDE DEF judged
    <2> QED
      BY <1>2, <2>1, <2>2 DEF StartBatch, TypeOK, Phases
  <1>3. ASSUME NEW i \in DOMAIN batch[w], NextPoison(w, i), Routed(w, i),
               dlq' \subseteq dlq \cup {batch[w][i]},
               spill' \subseteq spill \cup {batch[w][i]},
               UNCHANGED faults
        PROVE  TypeOK'
    <2>1. disp'[w] \in Seq(Dispositions) /\ Len(disp'[w]) = Len(disp[w])
      BY <1>3 DEF Routed, TypeOK, Dispositions
    <2>2. batch[w][i] \in Messages
      BY <1>3 DEF TypeOK
    <2> QED
      BY <1>3, <2>1, <2>2 DEF Routed, TypeOK
  <1>4. CASE WriteDLQ(w)
    BY <1>3, <1>4 DEF WriteDLQ
  <1>5. CASE Spill(w)
    BY <1>3, <1>5 DEF Spill
  <1>6. CASE WriteDLQFails(w)
    <2>1. PICK i \in DOMAIN batch[w] : dlq' \in {dlq, dlq \cup {batch[w][i]}}
      BY <1>6 DEF WriteDLQFails
    <2>2. batch[w][i] \in Messages
      BY DEF TypeOK
    <2> QED
      BY <1>6, <2>1, <2>2 DEF WriteDLQFails, TypeOK
  <1>7. CASE HardStop(w) \/ SpillFails(w)
    BY <1>7, ExitType DEF HardStop, SpillFails, Fault, TypeOK
  <1>8. CASE BulkSome(w)
    <2>1. PICK answer : Bulk(w, answer)
      BY <1>8 DEF BulkSome
    <2> DEFINE judged == [i \in DOMAIN disp[w] |->
                   IF disp[w][i] = "transient" THEN classifyBulk(answer[i].status)
                                               ELSE disp[w][i]]
    <2>2. judged \in Seq(Dispositions) /\ Len(judged) = Len(disp[w])
      <3>1. disp[w] \in Seq(Dispositions)
        BY DEF TypeOK
      <3>2. judged \in [DOMAIN disp[w] -> Dispositions]
        BY <3>1 DEF Dispositions, classifyBulk
      <3> QED
        BY <3>1, <3>2, MapSeq
    <2>3. disp' = [disp EXCEPT ![w] = judged]
      BY <2>1 DEF Bulk
    <2>4. es' \subseteq Messages
      BY <2>1 DEF Bulk, TypeOK, With
    <2> HIDE DEF judged
    <2> QED
      BY <2>1, <2>2, <2>3, <2>4 DEF Bulk, TypeOK, Phases
  <1>9. CASE EndPass(w)
    <2>1. \A pts \in [Partitions -> Offsets] : pts \in [Partitions -> Nat]
      BY ConsumerAssumption DEF Offsets
    <2>2. points' \in [Workers -> [Partitions -> Nat]]
      <3>1. CASE changed[w]
        <4>1. PICK pts \in [Partitions -> Offsets] :
                points' = [points EXCEPT ![w] = pts]
          BY <1>9, <3>1 DEF EndPass
        <4> QED
          BY <2>1, <4>1 DEF TypeOK
      <3>2. CASE ~changed[w]
        BY <1>9, <3>2 DEF EndPass, TypeOK
      <3> QED
        BY <3>1, <3>2
    <2> QED
      BY <1>9, <2>2 DEF EndPass, TypeOK, Phases
  <1>10. ASSUME NEW p \in Partitions, Commit(w, p) PROVE TypeOK'
    BY <1>10 DEF Commit, TypeOK
  <1>11. CASE FinishBatch(w)
    BY <1>11 DEF FinishBatch, TypeOK, Phases
  <1>12. CASE RetryBatch(w)
    BY <1>12 DEF RetryBatch, TypeOK, Phases
  <1> QED
    BY <1>1, <1>2, <1>4, <1>5, <1>6, <1>7, <1>8, <1>9, <1>10, <1>11, <1>12 DEF Step

LEMMA TypeNext == TypeOK /\ [Next]_vars => TypeOK'
  <1> SUFFICES ASSUME TypeOK, [Next]_vars PROVE TypeOK'
    OBVIOUS
  <1>1. ASSUME NEW w \in Workers, Step(w) PROVE TypeOK'
    BY <1>1, TypeStep
  <1>2. ASSUME NEW w \in Workers, Stop(w) PROVE TypeOK'
    <2>1. faults' \in Nat /\ committed' \in [Partitions -> Nat]
      BY <1>2 DEF Stop, Fault, TypeOK
    <2> QED
      BY <1>2, <2>1, ExitType DEF Stop
  <1>3. ASSUME NEW w \in Workers, Restart(w) PROVE TypeOK'
    BY <1>3 DEF Restart, TypeOK, Phases
  <1>4. ASSUME NEW w \in Workers, NEW p \in Partitions, Join(w, p) \/ TakeOver(w, p)
        PROVE  TypeOK'
    <2>1. Assign(w, p) /\ faults' \in Nat
      BY <1>4 DEF Join, TakeOver, Fault, TypeOK
    <2> QED
      BY <2>1 DEF Assign, TypeOK
  <1>7. ASSUME NEW w \in Workers, NEW p \in Partitions, Revoke(w, p) PROVE TypeOK'
    BY <1>7 DEF Revoke, Fault, TypeOK
  <1>5. ASSUME NEW w \in Workers, NEW p \in Partitions, CommitFails(w, p)
        PROVE  TypeOK'
    <2>1. [committed EXCEPT ![p] = points[w][p]] \in [Partitions -> Nat]
      BY DEF TypeOK
    <2>2. committed' \in [Partitions -> Nat]
      BY <1>5, <2>1 DEF CommitFails, TypeOK
    <2>3. faults' \in Nat
      BY <1>5 DEF CommitFails, Fault, TypeOK
    <2> QED
      BY <1>5, <2>2, <2>3, ExitType DEF CommitFails
  <1>6. CASE UNCHANGED vars
    BY <1>6 DEF vars, TypeOK
  <1> QED
    BY <1>1, <1>2, <1>3, <1>4, <1>5, <1>6, <1>7 DEF Next, CaughtUp

\* The consumer's state stays within its types.
THEOREM TypeCorrect == Spec => []TypeOK
  BY TypeInit, TypeNext, PTL DEF Spec

-----------------------------------------------------------------------------
(* No message is lost.  NoLoss is not inductive: what a worker will commit  *)
(* depends on its batch, its dispositions and its reader.  Its share of the *)
(* strengthened invariant says that what it calls settled is settled, and   *)
(* that everything before a message it holds, or behind its reader, is      *)
(* settled or still in its hands.                                           *)

DispositionsSound(w) ==
    \A i \in DOMAIN batch[w] : disp[w][i] \in {"ok", "dlq"} => batch[w][i] \in Settled

BehindReader(w) ==
    \A m \in Messages : m[2] <= pos[w][m[1]] => m \in Settled \cup InBatch(w)

BatchClosed(w) ==
    \A i \in DOMAIN batch[w], m \in Messages :
        m[1] = batch[w][i][1] /\ m[2] <= batch[w][i][2] => m \in Settled \cup InBatch(w)

PointsSound(w) ==
    \A m \in Messages : m[2] <= points[w][m[1]] => m \in Settled

NothingToRoute(w) ==
    pc[w] = "commit" => \A i \in DOMAIN disp[w] : disp[w][i] # "poison"

WorkerInv(w) ==
    /\ DispositionsSound(w)
    /\ BehindReader(w)
    /\ BatchClosed(w)
    /\ PointsSound(w)
    /\ NothingToRoute(w)

SafetyInv == TypeOK /\ NoLoss /\ \A w \in Workers : WorkerInv(w)

\* A worker that does not step keeps its share: nothing settled is unsettled.
LEMMA Bystander ==
    ASSUME NEW v \in Workers, WorkerInv(v), Settled \subseteq Settled',
           batch'[v] = batch[v], disp'[v] = disp[v], pos'[v] = pos[v],
           points'[v] = points[v], pc'[v] = pc[v]
    PROVE  WorkerInv(v)'
  <1>1. DispositionsSound(v)' /\ PointsSound(v)' /\ NothingToRoute(v)'
    BY DEF WorkerInv, DispositionsSound, PointsSound, NothingToRoute
  <1>2. InBatch(v)' = InBatch(v)
    BY DEF InBatch
  <1>3. BehindReader(v)' /\ BatchClosed(v)'
    BY <1>2 DEF WorkerInv, BehindReader, BatchClosed
  <1> QED
    BY <1>1, <1>3 DEF WorkerInv

LEMMA ExitInv ==
    ASSUME TypeOK, NEW w \in Workers, Exit(w)
    PROVE  WorkerInv(w)'
  <1>1. batch'[w] = <<>> /\ disp'[w] = <<>> /\ pos'[w] = NoOffset
        /\ points'[w] = NoOffset /\ pc'[w] = "down"
    BY DEF Exit, TypeOK
  <1>2. \A m \in Messages : ~(m[2] <= NoOffset[m[1]])
    BY MessageParts, ConsumerAssumption DEF NoOffset
  <1> QED
    BY <1>1, <1>2 DEF WorkerInv, DispositionsSound, BehindReader, BatchClosed,
                      PointsSound, NothingToRoute

\* Routing a message, whichever way, makes it settled.
LEMMA RoutedInv ==
    ASSUME TypeOK, NEW w \in Workers, WorkerInv(w), NEW i \in DOMAIN batch[w],
           NextPoison(w, i), Routed(w, i), Settled \subseteq Settled',
           batch[w][i] \in Settled'
    PROVE  WorkerInv(w)'
  <1>1. batch'[w] = batch[w] /\ pos'[w] = pos[w] /\ points'[w] = points[w]
        /\ pc'[w] = pc[w] /\ pc[w] # "commit"
    BY DEF Routed, NextPoison
  <1>2. \A j \in DOMAIN batch[w] :
            disp'[w][j] = IF j = i THEN "dlq" ELSE disp[w][j]
    BY DEF Routed, TypeOK
  <1>3. InBatch(w)' = InBatch(w)
    BY <1>1 DEF InBatch
  <1>4. DispositionsSound(w)'
    BY <1>1, <1>2 DEF WorkerInv, DispositionsSound
  <1>5. BehindReader(w)' /\ BatchClosed(w)' /\ PointsSound(w)' /\ NothingToRoute(w)'
    BY <1>1, <1>3 DEF WorkerInv, BehindReader, BatchClosed, PointsSound, NothingToRoute
  <1> QED
    BY <1>4, <1>5 DEF WorkerInv

\* A commit point lies before every message that is still unsettled.
LEMMA PointSettled ==
    ASSUME TypeOK, NEW w \in Workers, WorkerInv(w), With(w, "poison") = {},
           NEW p \in Partitions, NEW tie \in BOOLEAN, NEW n \in Offsets,
           PartitionCommitPoint(w, p, tie, n),
           NEW m \in Messages, m[1] = p, m[2] <= n
    PROVE  m \in Settled
  <1>1. m[2] \in 1..Len(Log[p]) /\ m = <<p, m[2]>>
    BY MessageParts
  <1>2. DOMAIN disp[w] = DOMAIN batch[w]
    BY DEF TypeOK
  <1>3. \A j \in DOMAIN batch[w] : disp[w][j] # "transient" => batch[w][j] \in Settled
    BY <1>2 DEF WorkerInv, DispositionsSound, With, TypeOK, Dispositions
  <1>4. n # 0
    BY <1>1, ConsumerAssumption
  <1>5. PICK i \in DOMAIN batch[w] : batch[w][i] = <<p, n>> /\ disp[w][i] # "transient"
    BY <1>4 DEF PartitionCommitPoint
  <1>6. CASE m \in InBatch(w)
    <2>1. PICK j \in DOMAIN batch[w] : batch[w][j] = m
      BY <1>6 DEF InBatch
    <2>2. CASE disp[w][j] = "transient"
      <3>1. n < m[2] \/ n = m[2]
        BY <1>1, <1>4, <2>1, <2>2 DEF PartitionCommitPoint
      <3>2. m = batch[w][i]
        BY <1>1, <1>5, <3>1, ConsumerAssumption DEF Offsets
      <3> QED
        BY <1>3, <1>5, <3>2
    <2> QED
      BY <1>3, <2>1, <2>2
  <1> QED
    BY <1>5, <1>6 DEF WorkerInv, BatchClosed

\* Nothing settled is ever unsettled.
LEMMA SettledGrows == [Next]_vars => Settled \subseteq Settled'
  <1> SUFFICES ASSUME [Next]_vars PROVE es \subseteq es' /\ dlq \subseteq dlq' /\ spill \subseteq spill'
    BY DEF Settled
  <1>1. ASSUME NEW w \in Workers, Step(w)
        PROVE  es \subseteq es' /\ dlq \subseteq dlq' /\ spill \subseteq spill'
    BY <1>1 DEF Step, StartBatch, WriteDLQ, WriteDLQFails, Spill, HardStop, SpillFails,
                BulkSome, Bulk, EndPass, FinishBatch, RetryBatch, FetchMessage, Commit, Routed
  <1>2. ASSUME NEW w \in Workers, Stop(w) \/ Restart(w)
        PROVE  es \subseteq es' /\ dlq \subseteq dlq' /\ spill \subseteq spill'
    BY <1>2 DEF Stop, Restart
  <1>3. ASSUME NEW w \in Workers, NEW p \in Partitions,
               Join(w, p) \/ TakeOver(w, p) \/ Revoke(w, p) \/ CommitFails(w, p)
        PROVE  es \subseteq es' /\ dlq \subseteq dlq' /\ spill \subseteq spill'
    BY <1>3 DEF Join, TakeOver, Assign, Revoke, CommitFails
  <1>4. CASE UNCHANGED vars
    BY <1>4 DEF vars
  <1> QED
    BY <1>1, <1>2, <1>3, <1>4 DEF Next, CaughtUp

\* The index answers 200 only for what it has written.
LEMMA OkIsWritten ==
    ASSUME NEW kind, NEW a \in Answers(kind), a.status = 200
    PROVE  a.written
  <1>1. CASE kind = "rejected"
    <2>1. a.status \in {0, 400, 429}
      BY <1>1 DEF Answers
    <2> QED
      BY <2>1
  <1>2. CASE kind # "rejected"
    <2>1. \/ a = [status |-> 200, written |-> TRUE]
          \/ a = [status |-> 0, written |-> TRUE]
          \/ a.status \in {0, 409, 429, 503}
      BY <1>2 DEF Answers
    <2> QED
      BY <2>1
  <1> QED
    BY <1>1, <1>2

\* Each step of a worker preserves its own share and leaves the other workers'
\* memory alone.
LEMMA StepInv ==
    ASSUME TypeOK, NEW w \in Workers, WorkerInv(w), Step(w), Settled \subseteq Settled'
    PROVE  WorkerInv(w)'
  <1>1. ASSUME NEW p \in Partitions, FetchMessage(w, p) PROVE WorkerInv(w)'
    <2> DEFINE n == Len(batch[w]) + 1
    <2>1. /\ batch'[w] = Append(batch[w], <<p, pos[w][p] + 1>>)
          /\ disp'[w] = Append(disp[w], "transient")
          /\ pos'[w] = [pos[w] EXCEPT ![p] = pos[w][p] + 1]
          /\ pc'[w] = "fetch"
          /\ points'[w] = points[w]
      BY <1>1 DEF FetchMessage, TypeOK
    <2>2. /\ batch[w] \in Seq(Messages) /\ disp[w] \in Seq(Dispositions)
          /\ Len(disp[w]) = Len(batch[w]) /\ pos[w] \in [Partitions -> Nat]
      BY DEF TypeOK
    <2>3. /\ DOMAIN batch'[w] = DOMAIN batch[w] \cup {n}
          /\ \A i \in DOMAIN batch[w] : i # n /\ batch'[w][i] = batch[w][i]
          /\ batch'[w][n] = <<p, pos[w][p] + 1>>
      BY <2>1, <2>2
    <2>4. /\ \A i \in DOMAIN batch[w] : disp'[w][i] = disp[w][i]
          /\ disp'[w][n] = "transient"
      BY <2>1, <2>2
    <2>5. InBatch(w)' = InBatch(w) \cup {<<p, pos[w][p] + 1>>}
      BY <2>3 DEF InBatch
    <2>6. \A m \in Messages : m[1] = p /\ m[2] <= pos[w][p] + 1
                                => m \in Settled' \cup InBatch(w)'
      <3> SUFFICES ASSUME NEW m \in Messages, m[1] = p, m[2] <= pos[w][p] + 1
                   PROVE  m \in Settled' \cup InBatch(w)'
        OBVIOUS
      <3>1. m = <<p, m[2]>> /\ m[2] \in Nat
        BY MessageParts, ConsumerAssumption
      <3>2. m[2] <= pos[w][p] \/ m = <<p, pos[w][p] + 1>>
        BY <2>2, <3>1
      <3> QED
        BY <2>5, <3>2 DEF WorkerInv, BehindReader
    <2>7. DispositionsSound(w)' /\ PointsSound(w)' /\ NothingToRoute(w)'
      BY <2>1, <2>3, <2>4 DEF WorkerInv, DispositionsSound, PointsSound, NothingToRoute
    <2>8. BehindReader(w)'
      BY <2>1, <2>2, <2>5, <2>6 DEF WorkerInv, BehindReader
    <2>9. BatchClosed(w)'
      BY <2>3, <2>5, <2>6 DEF WorkerInv, BatchClosed
    <2> QED
      BY <2>7, <2>8, <2>9 DEF WorkerInv
  <1>2. CASE StartBatch(w)
    <2>1. /\ batch'[w] = batch[w] /\ pos'[w] = pos[w] /\ points'[w] = points[w]
          /\ pc'[w] = "precheck"
          /\ \A i \in DOMAIN disp[w] : disp'[w][i] \in {"poison", "transient"}
      BY <1>2 DEF StartBatch, TypeOK
    <2>2. DOMAIN disp[w] = DOMAIN batch[w] /\ InBatch(w)' = InBatch(w)
      BY <2>1 DEF TypeOK, InBatch
    <2> QED
      BY <2>1, <2>2 DEF WorkerInv, DispositionsSound, BehindReader, BatchClosed,
                        PointsSound, NothingToRoute
  <1>3. CASE WriteDLQ(w)
    <2>1. PICK i \in DOMAIN batch[w] :
            NextPoison(w, i) /\ Routed(w, i) /\ dlq' = dlq \cup {batch[w][i]}
      BY <1>3 DEF WriteDLQ
    <2> QED
      BY <2>1, RoutedInv DEF Settled
  <1>4. CASE Spill(w)
    <2>1. PICK i \in DOMAIN batch[w] :
            NextPoison(w, i) /\ Routed(w, i) /\ spill' = spill \cup {batch[w][i]}
      BY <1>4 DEF Spill
    <2> QED
      BY <2>1, RoutedInv DEF Settled
  <1>5. CASE WriteDLQFails(w)
    BY <1>5, Bystander DEF WriteDLQFails
  <1>6. CASE HardStop(w) \/ SpillFails(w)
    BY <1>6, ExitInv DEF HardStop, SpillFails
  <1>7. CASE BulkSome(w)
    <2>1. PICK answer \in [With(w, "transient") -> AllAnswers] : Bulk(w, answer)
      BY <1>7 DEF BulkSome
    <2>2. /\ batch'[w] = batch[w] /\ pos'[w] = pos[w] /\ points'[w] = points[w]
          /\ pc'[w] = "settle" /\ InBatch(w)' = InBatch(w)
      BY <2>1 DEF Bulk, TypeOK, InBatch
    <2>3. ASSUME NEW i \in DOMAIN batch[w], disp'[w][i] \in {"ok", "dlq"}
          PROVE  batch[w][i] \in Settled'
      <3>1. i \in DOMAIN disp[w]
        BY DEF TypeOK
      <3>2. disp'[w][i] = IF disp[w][i] = "transient"
                          THEN classifyBulk(answer[i].status) ELSE disp[w][i]
        BY <2>1, <3>1 DEF Bulk, TypeOK
      <3>3. CASE disp[w][i] = "transient"
        <4>1. answer[i].status = 200 /\ i \in With(w, "transient")
          BY <2>3, <3>1, <3>2, <3>3 DEF classifyBulk, With
        <4>2. answer[i] \in Answers(Kind(batch[w][i]))
          BY <2>1, <4>1 DEF Bulk
        <4>3. answer[i].written
          BY <4>1, <4>2, OkIsWritten
        <4> QED
          BY <2>1, <4>1, <4>3 DEF Bulk, Settled
      <3> QED
        BY <2>3, <3>2, <3>3 DEF WorkerInv, DispositionsSound
    <2> QED
      BY <2>2, <2>3 DEF WorkerInv, DispositionsSound, BehindReader, BatchClosed,
                        PointsSound, NothingToRoute
  <1>8. CASE EndPass(w)
    <2>1. /\ batch'[w] = batch[w] /\ pos'[w] = pos[w] /\ disp'[w] = disp[w]
          /\ InBatch(w)' = InBatch(w) /\ With(w, "poison") = {}
      BY <1>8 DEF EndPass, InBatch
    <2>2. DispositionsSound(w)' /\ BehindReader(w)' /\ BatchClosed(w)' /\ NothingToRoute(w)'
      BY <2>1 DEF WorkerInv, DispositionsSound, BehindReader, BatchClosed, NothingToRoute, With
    <2>3. PointsSound(w)'
      <3>1. CASE changed[w]
        <4>1. PICK tie \in BOOLEAN, pts \in [Partitions -> Offsets] :
                /\ \A p \in Partitions : PartitionCommitPoint(w, p, tie, pts[p])
                /\ points' = [points EXCEPT ![w] = pts]
          BY <1>8, <3>1 DEF EndPass
        <4>2. ASSUME NEW m \in Messages, m[2] <= pts[m[1]] PROVE m \in Settled
          <5>1. m[1] \in Partitions
            BY MessageParts
          <5>2. pts[m[1]] \in Offsets /\ PartitionCommitPoint(w, m[1], tie, pts[m[1]])
            BY <4>1, <5>1
          <5> QED
            BY <2>1, <4>2, <5>1, <5>2, PointSettled
        <4>3. points'[w] = pts
          BY <4>1 DEF TypeOK
        <4> QED
          BY <4>2, <4>3 DEF PointsSound
      <3>2. CASE ~changed[w]
        BY <1>8, <3>2 DEF EndPass, WorkerInv, PointsSound
      <3> QED
        BY <3>1, <3>2
    <2> QED
      BY <2>2, <2>3 DEF WorkerInv
  <1>9. ASSUME NEW p \in Partitions, Commit(w, p) PROVE WorkerInv(w)'
    <2>1. /\ batch'[w] = batch[w] /\ pos'[w] = pos[w] /\ disp'[w] = disp[w]
          /\ pc'[w] = pc[w] /\ InBatch(w)' = InBatch(w)
          /\ points'[w] = [points[w] EXCEPT ![p] = 0]
      BY <1>9 DEF Commit, InBatch, TypeOK
    <2>2. \A m \in Messages : m[2] <= points'[w][m[1]] => m[2] <= points[w][m[1]]
      BY <2>1, MessageParts, ConsumerAssumption DEF TypeOK
    <2> QED
      BY <2>1, <2>2 DEF WorkerInv, DispositionsSound, BehindReader, BatchClosed,
                        PointsSound, NothingToRoute
  <1>10. CASE FinishBatch(w)
    <2>1. /\ batch'[w] = <<>> /\ disp'[w] = <<>> /\ pc'[w] = "fetch"
          /\ pos'[w] = pos[w] /\ points'[w] = points[w]
      BY <1>10 DEF FinishBatch, TypeOK
    <2>2. \A i \in DOMAIN batch[w] : disp[w][i] \in {"ok", "dlq"}
      BY <1>10 DEF FinishBatch, WorkerInv, NothingToRoute, With, TypeOK, Dispositions
    <2>3. InBatch(w) \subseteq Settled
      BY <2>2 DEF WorkerInv, DispositionsSound, InBatch
    <2> QED
      BY <2>1, <2>3 DEF WorkerInv, DispositionsSound, BehindReader, BatchClosed,
                        PointsSound, NothingToRoute
  <1>11. CASE RetryBatch(w)
    <2>1. /\ batch'[w] = batch[w] /\ pos'[w] = pos[w] /\ disp'[w] = disp[w]
          /\ pc'[w] = "precheck" /\ InBatch(w)' = InBatch(w) /\ points'[w] = points[w]
      BY <1>11 DEF RetryBatch, InBatch, TypeOK
    <2> QED
      BY <2>1 DEF WorkerInv, DispositionsSound, BehindReader, BatchClosed,
                  PointsSound, NothingToRoute
  <1> QED
    BY <1>1, <1>2, <1>3, <1>4, <1>5, <1>6, <1>7, <1>8, <1>9, <1>10, <1>11 DEF Step

LEMMA SafetyNext == SafetyInv /\ [Next]_vars => SafetyInv'
  <1> SUFFICES ASSUME SafetyInv, [Next]_vars PROVE SafetyInv'
    OBVIOUS
  <1> USE DEF SafetyInv
  <1>1. TypeOK' /\ Settled \subseteq Settled'
    BY TypeNext, SettledGrows
  <1>2. ASSUME NEW w \in Workers, Step(w) PROVE SafetyInv'
    <2>1. ASSUME NEW v \in Workers PROVE WorkerInv(v)'
      <3>1. CASE v = w
        BY <1>1, <1>2, <3>1, StepInv
      <3>2. CASE v # w
        <4>1. /\ batch'[v] = batch[v] /\ disp'[v] = disp[v] /\ pos'[v] = pos[v]
              /\ points'[v] = points[v] /\ pc'[v] = pc[v]
          BY <1>2, <3>2 DEF TypeOK, Step, StartBatch, WriteDLQ, WriteDLQFails, Spill,
                HardStop, SpillFails, Exit, BulkSome, Bulk, EndPass, FinishBatch,
                RetryBatch, FetchMessage, Commit, Routed
        <4> QED
          BY <1>1, <4>1, Bystander
      <3> QED
        BY <3>1, <3>2
    <2>2. NoLoss'
      <3>1. ASSUME NEW p \in Partitions, Commit(w, p) PROVE NoLoss'
        BY <1>1, <3>1, MessageParts DEF Commit, NoLoss, WorkerInv, PointsSound, TypeOK
      <3>2. CASE UNCHANGED committed
        BY <1>1, <3>2 DEF NoLoss
      <3> QED
        BY <1>2, <3>1, <3>2 DEF Step, StartBatch, WriteDLQ, WriteDLQFails, Spill,
              HardStop, SpillFails, BulkSome, Bulk, EndPass, FinishBatch,
              RetryBatch, FetchMessage, Routed
    <2> QED
      BY <1>1, <2>1, <2>2
  <1>3. ASSUME NEW w \in Workers, Exit(w), UNCHANGED committed PROVE SafetyInv'
    <2>1. ASSUME NEW v \in Workers PROVE WorkerInv(v)'
      <3>1. CASE v = w
        BY <1>3, <3>1, ExitInv
      <3>2. CASE v # w
        BY <1>1, <1>3, <3>2, Bystander DEF Exit, TypeOK
      <3> QED
        BY <3>1, <3>2
    <2>2. NoLoss'
      BY <1>1, <1>3 DEF NoLoss
    <2> QED
      BY <1>1, <2>1, <2>2
  <1>4. ASSUME NEW w \in Workers, Stop(w) PROVE SafetyInv'
    BY <1>3, <1>4 DEF Stop
  <1>5. ASSUME NEW w \in Workers, Restart(w) PROVE SafetyInv'
    <2>1. ASSUME NEW v \in Workers PROVE WorkerInv(v)'
      <3>1. pc'[v] = pc[v] \/ pc'[v] = "fetch"
        BY <1>5 DEF Restart, TypeOK
      <3> QED
        BY <1>1, <1>5, <3>1 DEF Restart, WorkerInv, DispositionsSound, BehindReader,
                         BatchClosed, PointsSound, NothingToRoute, InBatch
    <2>2. NoLoss'
      BY <1>1, <1>5 DEF NoLoss, Restart
    <2> QED
      BY <1>1, <2>1, <2>2
  <1>6. ASSUME NEW w \in Workers, NEW p \in Partitions, Join(w, p) \/ TakeOver(w, p)
        PROVE  SafetyInv'
    <2>1. Assign(w, p)
      BY <1>6 DEF Join, TakeOver
    <2>2. ASSUME NEW v \in Workers PROVE WorkerInv(v)'
      <3>1. /\ batch'[v] = batch[v] /\ disp'[v] = disp[v]
            /\ points'[v] = points[v] /\ pc'[v] = pc[v]
            /\ InBatch(v)' = InBatch(v)
        BY <2>1 DEF Assign, InBatch
      <3>2. DispositionsSound(v)' /\ BatchClosed(v)' /\ PointsSound(v)' /\ NothingToRoute(v)'
        BY <1>1, <3>1 DEF WorkerInv, DispositionsSound, BatchClosed, PointsSound, NothingToRoute
      <3>3. BehindReader(v)'
        <4>1. \A q \in Partitions : pos'[v][q] \in {pos[v][q], committed[q]}
          BY <2>1 DEF Assign, TypeOK
        <4> QED
          BY <1>1, <3>1, <4>1, MessageParts DEF WorkerInv, BehindReader, NoLoss
      <3> QED
        BY <3>2, <3>3 DEF WorkerInv
    <2>3. NoLoss'
      BY <1>1, <2>1 DEF NoLoss, Assign
    <2> QED
      BY <1>1, <2>2, <2>3
  <1>7. ASSUME NEW w \in Workers, NEW p \in Partitions, Revoke(w, p) PROVE SafetyInv'
    <2>1. ASSUME NEW v \in Workers PROVE WorkerInv(v)'
      BY <1>1, <1>7, Bystander DEF Revoke
    <2> QED
      BY <1>1, <1>7, <2>1 DEF Revoke, NoLoss
  <1>8. ASSUME NEW w \in Workers, NEW p \in Partitions, CommitFails(w, p) PROVE SafetyInv'
    <2>1. ASSUME NEW v \in Workers PROVE WorkerInv(v)'
      <3>1. CASE v = w
        BY <1>8, <3>1, ExitInv DEF CommitFails
      <3>2. CASE v # w
        BY <1>1, <1>8, <3>2, Bystander DEF CommitFails, Exit, TypeOK
      <3> QED
        BY <3>1, <3>2
    <2>2. NoLoss'
      <3>1. \A q \in Partitions :
                \/ committed'[q] = committed[q]
                \/ q = p /\ committed'[q] = points[w][q]
        <4>1. committed' = committed \/ committed' = [committed EXCEPT ![p] = points[w][p]]
          BY <1>8 DEF CommitFails
        <4> QED
          BY <4>1 DEF TypeOK
      <3> QED
        BY <1>1, <3>1, MessageParts DEF NoLoss, WorkerInv, PointsSound
    <2> QED
      BY <1>1, <2>1, <2>2
  <1>9. CASE UNCHANGED vars
    <2>1. ASSUME NEW v \in Workers PROVE WorkerInv(v)'
      BY <1>1, <1>9, Bystander DEF vars
    <2> QED
      BY <1>1, <1>9, <2>1 DEF vars, NoLoss
  <1> QED
    BY <1>2, <1>4, <1>5, <1>6, <1>7, <1>8, <1>9 DEF Next, CaughtUp

LEMMA SafetyInit == Init => SafetyInv
  <1> SUFFICES ASSUME Init PROVE SafetyInv
    OBVIOUS
  <1>1. \A m \in Messages : ~(m[2] <= 0)
    BY MessageParts, ConsumerAssumption
  <1>2. NoLoss
    BY <1>1, MessageParts DEF Init, NoLoss, NoOffset
  <1>3. ASSUME NEW w \in Workers PROVE WorkerInv(w)
    BY <1>1, MessageParts DEF Init, WorkerInv, DispositionsSound, BehindReader, BatchClosed,
                PointsSound, NothingToRoute, NoOffset
  <1> QED
    BY <1>2, <1>3, TypeInit DEF SafetyInv

LEMMA SafetyCorrect == Spec => []SafetyInv
  BY SafetyInit, SafetyNext, PTL DEF Spec

\* No committed offset covers a message that is neither indexed, nor in the
\* dead-letter topic, nor spilled: however partitions move between workers,
\* whichever of them commits last, and wherever they stop.
THEOREM NothingLost == Spec => []NoLoss
  BY SafetyCorrect, PTL DEF SafetyInv

\* A reader never runs ahead of what its worker answers for.
THEOREM ReadersCovered == Spec => []ReaderCovered
  <1>1. SafetyInv => ReaderCovered
    BY DEF SafetyInv, WorkerInv, BehindReader, ReaderCovered
  <1> QED
    BY <1>1, SafetyCorrect, PTL

-----------------------------------------------------------------------------
(* The consumer implements the promise of every pipeline stage. *)

LEMMA PromiseInit == Init => Promise!Init
  BY DEF Init, Promise!Init, Settled, NoOffset

LEMMA PromiseNext == SafetyInv /\ SafetyInv' /\ [Next]_vars => [Promise!Next]_(Promise!vars)
  <1> SUFFICES ASSUME SafetyInv, SafetyInv', [Next]_vars
               PROVE  Promise!Next \/ UNCHANGED <<Settled, committed>>
    BY DEF Promise!vars
  <1> USE DEF SafetyInv
  <1>1. Settled \subseteq Settled' /\ Settled' \subseteq Messages
    BY SettledGrows DEF TypeOK, Settled
  <1>2. ASSUME UNCHANGED committed PROVE Promise!Next
    BY <1>1, <1>2 DEF Promise!Next, Promise!Settle
  <1>3. ASSUME NEW p \in Partitions, UNCHANGED Settled, NEW n,
               committed' = [committed EXCEPT ![p] = n]
        PROVE  Promise!Next
    <2>1. committed'[p] \in Nat /\ committed'[p] = n
      BY <1>3 DEF TypeOK
    <2>2. Promise!Covers(p, committed'[p]) \subseteq Settled
      BY <1>3 DEF NoLoss, Promise!Covers
    <2> QED
      BY <1>3, <2>1, <2>2 DEF Promise!Next, Promise!Advance
  <1>4. ASSUME NEW w \in Workers, NEW p \in Partitions, Commit(w, p) PROVE Promise!Next
    BY <1>3, <1>4 DEF Commit, Settled
  <1>5. ASSUME NEW w \in Workers, NEW p \in Partitions, CommitFails(w, p) PROVE Promise!Next
    BY <1>2, <1>3, <1>5 DEF CommitFails, Settled
  <1>6. ASSUME NEW w \in Workers, Step(w), ~(\E p \in Partitions : Commit(w, p))
        PROVE  UNCHANGED committed
    BY <1>6 DEF Step, StartBatch, WriteDLQ, WriteDLQFails, Spill, HardStop, SpillFails,
          BulkSome, Bulk, EndPass, FinishBatch, RetryBatch, FetchMessage, Routed
  <1>7. ASSUME NEW w \in Workers, Stop(w) \/ Restart(w) PROVE UNCHANGED committed
    BY <1>7 DEF Stop, Restart
  <1>8. ASSUME NEW w \in Workers, NEW p \in Partitions,
               Join(w, p) \/ TakeOver(w, p) \/ Revoke(w, p)
        PROVE  UNCHANGED committed
    BY <1>8 DEF Join, TakeOver, Assign, Revoke
  <1>9. CASE UNCHANGED vars
    BY <1>9 DEF vars, Settled
  <1> QED
    BY <1>2, <1>4, <1>5, <1>6, <1>7, <1>8, <1>9 DEF Next, CaughtUp

\* Every behaviour of the consumer group is one the at-least-once promise
\* allows, with the committed offsets as resume points.
THEOREM ConsumerKeepsPromise == Spec => ImplementsAtLeastOnce
  <1>1. ImplementsAtLeastOnce <=> Promise!Init /\ [][Promise!Next]_(Promise!vars)
    BY DEF ImplementsAtLeastOnce, Promise!Spec
  <1> QED
    BY <1>1, PromiseInit, PromiseNext, SafetyCorrect, PTL DEF Spec

-----------------------------------------------------------------------------
(* What may not be trusted is not indexed, what is fit for the index is not *)
(* dead-lettered.  Both rest on how a worker has judged its batch.          *)

UntrustedRouted(w) ==
    pc[w] \in {"precheck", "settle", "commit"} =>
        \A i \in DOMAIN batch[w] :
            Kind(batch[w][i]) \in {"schemaInvalid", "visibilityInvalid"}
                => disp[w][i] \in {"poison", "dlq"}

PoisonUnfit(w) ==
    \A i \in DOMAIN batch[w] : disp[w][i] = "poison" => Kind(batch[w][i]) # "good"

JudgedWell(w) == UntrustedRouted(w) /\ PoisonUnfit(w)

TrustInv ==
    /\ TypeOK
    /\ UntrustedNeverIndexed
    /\ OnlyPoisonDeadLettered
    /\ \A w \in Workers : JudgedWell(w)

\* A message in good order is never answered with a permanent status.
LEMMA GoodNotPoison ==
    ASSUME NEW a \in Answers("good")
    PROVE  classifyBulk(a.status) # "poison"
  <1>1. \/ a = [status |-> 200, written |-> TRUE]
        \/ a = [status |-> 0, written |-> TRUE]
        \/ a.status \in {0, 409, 429, 503}
    BY DEF Answers
  <1>2. a.status \in {200, 0, 409, 429, 503}
    BY <1>1
  <1> QED
    BY <1>2 DEF classifyBulk, isPermanentStatus

LEMMA TrustStep ==
    ASSUME TypeOK, NEW w \in Workers, JudgedWell(w), Step(w)
    PROVE  /\ JudgedWell(w)'
           /\ \A m \in es' \ es : Kind(m) \notin {"schemaInvalid", "visibilityInvalid"}
           /\ \A m \in (dlq' \cup spill') \ (dlq \cup spill) : Kind(m) # "good"
  <1> DEFINE Goal == /\ JudgedWell(w)'
                     /\ \A m \in es' \ es : Kind(m) \notin {"schemaInvalid", "visibilityInvalid"}
                     /\ \A m \in (dlq' \cup spill') \ (dlq \cup spill) : Kind(m) # "good"
  <1>0. /\ batch[w] \in Seq(Messages) /\ disp[w] \in Seq(Dispositions)
        /\ Len(disp[w]) = Len(batch[w]) /\ DOMAIN disp[w] = DOMAIN batch[w]
    BY DEF TypeOK
  <1>1. ASSUME NEW p \in Partitions, FetchMessage(w, p) PROVE Goal
    <2> DEFINE n == Len(batch[w]) + 1
    <2>1. /\ batch'[w] = Append(batch[w], <<p, pos[w][p] + 1>>)
          /\ disp'[w] = Append(disp[w], "transient")
          /\ pc'[w] = "fetch"
          /\ UNCHANGED <<es, dlq, spill>>
      BY <1>1 DEF FetchMessage, TypeOK
    <2>2. \A i \in DOMAIN batch'[w] :
            \/ i \in DOMAIN batch[w] /\ batch'[w][i] = batch[w][i] /\ disp'[w][i] = disp[w][i]
            \/ disp'[w][i] = "transient"
      BY <1>0, <2>1
    <2> QED
      BY <2>1, <2>2 DEF JudgedWell, UntrustedRouted, PoisonUnfit
  <1>2. CASE StartBatch(w)
    <2>1. /\ batch'[w] = batch[w] /\ UNCHANGED <<es, dlq, spill>>
          /\ \A i \in DOMAIN batch[w] :
               disp'[w][i] = IF Kind(batch[w][i]) \in {"schemaInvalid", "visibilityInvalid"}
                             THEN "poison" ELSE "transient"
      BY <1>0, <1>2 DEF StartBatch, TypeOK
    <2> QED
      BY <2>1 DEF JudgedWell, UntrustedRouted, PoisonUnfit
  <1>3. ASSUME NEW i \in DOMAIN batch[w], NextPoison(w, i), Routed(w, i),
               dlq' \subseteq dlq \cup {batch[w][i]},
               spill' \subseteq spill \cup {batch[w][i]}
        PROVE  Goal
    <2>1. Kind(batch[w][i]) # "good"
      BY <1>0, <1>3 DEF NextPoison, With, JudgedWell, PoisonUnfit
    <2>2. /\ batch'[w] = batch[w] /\ pc'[w] = pc[w] /\ es' = es
          /\ \A j \in DOMAIN batch[w] : disp'[w][j] = IF j = i THEN "dlq" ELSE disp[w][j]
      BY <1>0, <1>3 DEF Routed, TypeOK
    <2> QED
      BY <1>3, <2>1, <2>2 DEF JudgedWell, UntrustedRouted, PoisonUnfit
  <1>4. CASE WriteDLQ(w)
    BY <1>3, <1>4 DEF WriteDLQ
  <1>5. CASE Spill(w)
    BY <1>3, <1>5 DEF Spill
  <1>6. CASE WriteDLQFails(w)
    <2>1. PICK i \in DOMAIN batch[w] :
            NextPoison(w, i) /\ dlq' \subseteq dlq \cup {batch[w][i]}
      BY <1>6 DEF WriteDLQFails
    <2>2. Kind(batch[w][i]) # "good"
      BY <1>0, <2>1 DEF NextPoison, With, JudgedWell, PoisonUnfit
    <2>3. UNCHANGED <<es, spill, batch, disp, pc>>
      BY <1>6 DEF WriteDLQFails
    <2> QED
      BY <2>1, <2>2, <2>3 DEF JudgedWell, UntrustedRouted, PoisonUnfit
  <1>7. CASE HardStop(w) \/ SpillFails(w)
    <2>1. batch'[w] = <<>> /\ UNCHANGED <<es, dlq, spill>>
      BY <1>7 DEF HardStop, SpillFails, Exit, TypeOK
    <2> QED
      BY <2>1 DEF JudgedWell, UntrustedRouted, PoisonUnfit
  <1>8. CASE BulkSome(w)
    <2>1. PICK answer \in [With(w, "transient") -> AllAnswers] : Bulk(w, answer)
      BY <1>8 DEF BulkSome
    <2>2. /\ batch'[w] = batch[w] /\ UNCHANGED <<dlq, spill>>
          /\ \A i \in DOMAIN batch[w] :
               disp'[w][i] = IF disp[w][i] = "transient"
                             THEN classifyBulk(answer[i].status) ELSE disp[w][i]
          /\ \A m \in es' \ es : \E i \in With(w, "transient") : m = batch[w][i]
      BY <1>0, <2>1 DEF Bulk, TypeOK
    <2>3. \A i \in With(w, "transient") : answer[i] \in Answers(Kind(batch[w][i]))
      BY <2>1 DEF Bulk
    <2>4. \A i \in With(w, "transient") :
             Kind(batch[w][i]) \notin {"schemaInvalid", "visibilityInvalid"}
      BY <1>0, <2>1 DEF Bulk, With, JudgedWell, UntrustedRouted
    <2>5. PoisonUnfit(w)'
      BY <1>0, <2>2, <2>3, GoodNotPoison DEF JudgedWell, PoisonUnfit, With
    <2>6. UntrustedRouted(w)'
      BY <1>0, <2>1, <2>2, <2>4 DEF Bulk, JudgedWell, UntrustedRouted, With
    <2> QED
      BY <2>2, <2>4, <2>5, <2>6 DEF JudgedWell
  <1>9. CASE EndPass(w)
    <2>1. /\ UNCHANGED <<batch, disp, es, dlq, spill>>
          /\ pc[w] \in {"precheck", "settle"}
      BY <1>9 DEF EndPass
    <2> QED
      BY <2>1 DEF JudgedWell, UntrustedRouted, PoisonUnfit
  <1>10. ASSUME NEW p \in Partitions, Commit(w, p) PROVE Goal
    BY <1>10 DEF Commit, JudgedWell, UntrustedRouted, PoisonUnfit
  <1>11. CASE FinishBatch(w)
    <2>1. batch'[w] = <<>> /\ UNCHANGED <<es, dlq, spill>>
      BY <1>11 DEF FinishBatch, TypeOK
    <2> QED
      BY <2>1 DEF JudgedWell, UntrustedRouted, PoisonUnfit
  <1>12. CASE RetryBatch(w)
    BY <1>12 DEF RetryBatch, JudgedWell, UntrustedRouted, PoisonUnfit
  <1> QED
    BY <1>1, <1>2, <1>4, <1>5, <1>6, <1>7, <1>8, <1>9, <1>10, <1>11, <1>12 DEF Step

LEMMA TrustNext == TrustInv /\ [Next]_vars => TrustInv'
  <1> SUFFICES ASSUME TrustInv, [Next]_vars PROVE TrustInv'
    OBVIOUS
  <1> USE DEF TrustInv
  <1>1. TypeOK'
    BY TypeNext
  <1>2. ASSUME NEW w \in Workers, Step(w) PROVE TrustInv'
    <2>1. ASSUME NEW v \in Workers PROVE JudgedWell(v)'
      <3>1. CASE v = w
        BY <1>2, <3>1, TrustStep
      <3>2. CASE v # w
        <4>1. batch'[v] = batch[v] /\ disp'[v] = disp[v] /\ pc'[v] = pc[v]
          BY <1>2, <3>2 DEF TypeOK, Step, StartBatch, WriteDLQ, WriteDLQFails, Spill,
                HardStop, SpillFails, Exit, BulkSome, Bulk, EndPass, FinishBatch,
                RetryBatch, FetchMessage, Commit, Routed
        <4> QED
          BY <4>1 DEF JudgedWell, UntrustedRouted, PoisonUnfit
      <3> QED
        BY <3>1, <3>2
    <2>2. UntrustedNeverIndexed' /\ OnlyPoisonDeadLettered'
      BY <1>2, TrustStep DEF UntrustedNeverIndexed, OnlyPoisonDeadLettered
    <2> QED
      BY <1>1, <2>1, <2>2
  <1>3. ASSUME NEW w \in Workers, Exit(w), UNCHANGED <<es, dlq, spill>> PROVE TrustInv'
    <2>1. ASSUME NEW v \in Workers PROVE JudgedWell(v)'
      <3>1. batch'[v] = <<>> \/ (batch'[v] = batch[v] /\ disp'[v] = disp[v] /\ pc'[v] = pc[v])
        BY <1>3 DEF Exit, TypeOK
      <3> QED
        BY <3>1 DEF JudgedWell, UntrustedRouted, PoisonUnfit
    <2> QED
      BY <1>1, <1>3, <2>1 DEF UntrustedNeverIndexed, OnlyPoisonDeadLettered
  <1>4. ASSUME NEW w \in Workers, UNCHANGED <<es, dlq, spill, batch, disp>>,
               pc' = pc \/ pc' = [pc EXCEPT ![w] = "fetch"]
        PROVE  TrustInv'
    <2>1. ASSUME NEW v \in Workers PROVE JudgedWell(v)'
      <3>1. pc'[v] = pc[v] \/ pc'[v] = "fetch"
        BY <1>4 DEF TypeOK
      <3> QED
        BY <1>4, <3>1 DEF JudgedWell, UntrustedRouted, PoisonUnfit
    <2> QED
      BY <1>1, <1>4, <2>1 DEF UntrustedNeverIndexed, OnlyPoisonDeadLettered
  <1>5. ASSUME NEW w \in Workers, Stop(w) PROVE TrustInv'
    BY <1>3, <1>5 DEF Stop
  <1>6. ASSUME NEW w \in Workers, Restart(w) PROVE TrustInv'
    BY <1>4, <1>6 DEF Restart
  <1>7. ASSUME NEW w \in Workers, NEW p \in Partitions,
               Join(w, p) \/ TakeOver(w, p) \/ Revoke(w, p)
        PROVE  TrustInv'
    BY <1>4, <1>7 DEF Join, TakeOver, Assign, Revoke
  <1>8. ASSUME NEW w \in Workers, NEW p \in Partitions, CommitFails(w, p) PROVE TrustInv'
    BY <1>3, <1>8 DEF CommitFails
  <1>9. CASE UNCHANGED vars
    BY <1>1, <1>9 DEF vars, JudgedWell, UntrustedRouted, PoisonUnfit,
                      UntrustedNeverIndexed, OnlyPoisonDeadLettered
  <1> QED
    BY <1>2, <1>5, <1>6, <1>7, <1>8, <1>9 DEF Next, CaughtUp

LEMMA TrustInit == Init => TrustInv
  BY TypeInit DEF Init, TrustInv, UntrustedNeverIndexed, OnlyPoisonDeadLettered,
                  JudgedWell, UntrustedRouted, PoisonUnfit

LEMMA TrustCorrect == Spec => []TrustInv
  BY TrustInit, TrustNext, PTL DEF Spec

\* No message of an unknown schema or with an untrusted visibility list ever
\* reaches the index, through any number of retries, crashes and hand-overs.
THEOREM UntrustedStaysOut == Spec => []UntrustedNeverIndexed
  BY TrustCorrect, PTL DEF TrustInv

\* No message fit for the index is ever dead-lettered or spilled.
THEOREM GoodNeverDeadLettered == Spec => []OnlyPoisonDeadLettered
  BY TrustCorrect, PTL DEF TrustInv
=============================================================================
