-------------------------- MODULE FileExtractorProofs --------------------------
(***************************************************************************)
(* What the file-extractor guarantees for every log, batch size, number of *)
(* attempts and number of failures.                                        *)
(***************************************************************************)
EXTENDS FileExtractor, TLAPS

LEMMA MessageParts ==
    ASSUME NEW m \in Messages
    PROVE  /\ m[1] \in Partitions
           /\ m[2] \in 1..Len(Log[m[1]])
           /\ m = <<m[1], m[2]>>
  BY DEF Messages

LEMMA MessageMade ==
    ASSUME NEW p \in Partitions, NEW o \in 1..Len(Log[p])
    PROVE  <<p, o>> \in Messages
  BY DEF Messages

LEMMA NextMessage ==
    ASSUME TypeOK, NEW p \in Partitions, FetchMessage(p)
    PROVE  <<p, pos[p] + 1>> \in Messages
  <1>1. pos[p] \in Nat /\ pos[p] < Len(Log[p])
    BY DEF TypeOK, FetchMessage
  <1>2. Len(Log[p]) \in Nat
    BY ExtractorAssumption
  <1>3. pos[p] + 1 \in 1..Len(Log[p])
    BY <1>1, <1>2
  <1> QED
    BY <1>3, MessageMade

-----------------------------------------------------------------------------
(* Types *)

\* Between two batches nothing is judged, and a pass has seen every message
\* before its end.
Shape ==
    /\ pc \in {"fetch", "down"} => disp = <<>>
    /\ pc \in {"fetch", "down", "commit"} => todo = {}
    /\ pc = "down" => batch = <<>>

TypeInv == TypeOK /\ Shape

\* What an empty memory is.
LEMMA Empty ==
    /\ NoOffset \in [Partitions -> Nat]
    /\ <<>> \in Seq(Messages) /\ <<>> \in Seq(Dispositions)
    /\ <<>> \in Seq(0..MaxAttempts)
    /\ {} \subseteq DOMAIN <<>>
    /\ 0 \in 0..(MaxRetries + 1)
  BY ExtractorAssumption DEF NoOffset

LEMMA TypeInit == Init => TypeInv
  <1> SUFFICES ASSUME Init PROVE TypeInv
    OBVIOUS
  <1>1. \A set \in {dlq, indexed, content, tombstone, spill, passed, dropped} :
            set \subseteq Messages
    BY DEF Init
  <1>2. pc \in Phases /\ changed \in BOOLEAN
    BY DEF Init, Phases
  <1> QED
    BY <1>1, <1>2, Empty DEF Init, TypeInv, TypeOK, Shape

LEMMA ExitType ==
    ASSUME TypeInv, Exit, committed' \in [Partitions -> Nat],
           UNCHANGED <<dlq, index, spill, history>>,
           faults' \in Nat, fetchErrors' \in Nat
    PROVE  TypeInv'
  <1>1. \A set \in {dlq', indexed', content', tombstone', spill', passed', dropped'} :
            set \subseteq Messages
    BY DEF TypeInv, TypeOK, index, history
  <1>2. pc' \in Phases /\ changed' \in BOOLEAN
    BY DEF Exit, Phases
  <1> QED
    BY <1>1, <1>2, Empty DEF TypeInv, TypeOK, Shape, Exit

LEMMA FaultType ==
    ASSUME TypeOK, Fault \/ UNCHANGED bounds
    PROVE  faults' \in Nat /\ fetchErrors' \in Nat
  BY DEF TypeOK, Fault, bounds

\* Where a message of the batch goes after it was looked at.
Judge(i) == (\E d \in Dispositions : Settle(i, d)) \/ Again(i) \/ Route

LEMMA JudgeType ==
    ASSUME TypeInv, NEW i \in todo, pc \in {"pass", "route"}, Judge(i)
    PROVE  /\ disp' \in Seq(Dispositions) /\ Len(disp') = Len(disp)
           /\ todo' \subseteq DOMAIN disp' /\ changed' \in BOOLEAN
           /\ pc' \in {"pass", "route"}
  <1>1. disp \in Seq(Dispositions) /\ todo \subseteq DOMAIN disp /\ changed \in BOOLEAN
    BY DEF TypeInv, TypeOK
  <1>2. ASSUME NEW d \in Dispositions, Settle(i, d)
        PROVE  /\ disp' \in Seq(Dispositions) /\ Len(disp') = Len(disp)
               /\ todo' \subseteq DOMAIN disp' /\ changed' \in BOOLEAN
               /\ pc' = "pass"
    BY <1>1, <1>2 DEF Settle
  <1>3. CASE Again(i)
    BY <1>1, <1>3 DEF Again
  <1>4. CASE Route
    BY <1>1, <1>4 DEF Route
  <1> QED
    BY <1>2, <1>3, <1>4 DEF Judge

\* An attempt at a message: it is counted, the message judged, and at most its
\* document changed.
Tries(i) ==
    /\ Trying(i) /\ Judge(i)
    /\ Fault \/ UNCHANGED bounds
    /\ content \subseteq content' /\ content' \subseteq content \cup {batch[i]}
    /\ tombstone' \subseteq tombstone \cup {batch[i]}
    /\ passed \subseteq passed' /\ passed' \subseteq passed \cup {batch[i]}

LEMMA AttemptIsTry ==
    ASSUME NEW i \in todo,
           \/ PassOver(i) \/ Reject(i) \/ Extract(i) \/ DocNotYet(i) \/ Refuse(i)
           \/ CallFails(i) \/ TikaFails(i) \/ UpdateFails(i)
    PROVE  Tries(i)
  <1>1. CASE PassOver(i)
    BY <1>1 DEF PassOver, Tries, Judge, Dispositions
  <1>2. CASE Reject(i)
    BY <1>2 DEF Reject, Tries, Judge
  <1>3. CASE Extract(i)
    BY <1>3 DEF Extract, Tries, Judge, Dispositions
  <1>4. CASE DocNotYet(i)
    BY <1>4 DEF DocNotYet, Tries, Judge
  <1>5. CASE Refuse(i)
    BY <1>5 DEF Refuse, Tries, Judge, WriteTombstone
  <1>6. CASE CallFails(i)
    BY <1>6 DEF CallFails, Tries, Judge
  <1>7. CASE TikaFails(i)
    BY <1>7 DEF TikaFails, Tries, Judge, WriteTombstone
  <1>8. CASE UpdateFails(i)
    BY <1>8 DEF UpdateFails, Tries, Judge
  <1> QED
    BY <1>1, <1>2, <1>3, <1>4, <1>5, <1>6, <1>7, <1>8

LEMMA TryType ==
    ASSUME TypeInv, NEW i \in todo, Tries(i)
    PROVE  TypeInv'
  <1>1. pc = "pass" /\ batch \in Seq(Messages) /\ i \in DOMAIN batch
    BY DEF Tries, Trying, TypeInv, TypeOK
  <1>2. /\ disp' \in Seq(Dispositions) /\ Len(disp') = Len(disp)
        /\ todo' \subseteq DOMAIN disp' /\ changed' \in BOOLEAN
        /\ pc' \in {"pass", "route"}
    BY <1>1, JudgeType DEF Tries
  <1>3. attempts' \in Seq(0..MaxAttempts) /\ Len(attempts') = Len(attempts)
    <2>1. attempts \in Seq(0..MaxAttempts) /\ i \in DOMAIN attempts
      BY <1>1 DEF TypeInv, TypeOK
    <2>2. attempts[i] + 1 \in 0..MaxAttempts
      BY <2>1, ExtractorAssumption DEF Tries, Trying
    <2> QED
      BY <2>1, <2>2 DEF Tries, Trying
  <1>4. batch[i] \in Messages
    BY <1>1
  <1>5. content' \subseteq Messages /\ tombstone' \subseteq Messages /\ passed' \subseteq Messages
    BY <1>4 DEF Tries, TypeInv, TypeOK
  <1>6. faults' \in Nat /\ fetchErrors' \in Nat
    BY FaultType DEF Tries, TypeInv
  <1> QED
    BY <1>1, <1>2, <1>3, <1>5, <1>6
    DEF Tries, Trying, TypeInv, TypeOK, Shape, Phases, broker, reading

\* A message is routed: dead-lettered or spilled.
Routes(i) ==
    /\ pc = "route"
    /\ DeadLettered(i)
    /\ dlq \subseteq dlq' /\ dlq' \subseteq dlq \cup {batch[i]}
    /\ spill \subseteq spill' /\ spill' \subseteq spill \cup {batch[i]}
    /\ batch[i] \in dlq' \cup spill'
    /\ UNCHANGED faults

LEMMA RouteWays ==
    ASSUME NEW i \in todo, WriteDLQ(i) \/ Spill(i)
    PROVE  Routes(i)
  BY DEF WriteDLQ, Spill, Routes

LEMMA RouteType ==
    ASSUME TypeInv, NEW i \in todo, Routes(i)
    PROVE  TypeInv'
  <1>1. pc = "route" /\ batch \in Seq(Messages) /\ i \in DOMAIN batch
    BY DEF Routes, TypeInv, TypeOK
  <1>2. /\ disp' \in Seq(Dispositions) /\ Len(disp') = Len(disp)
        /\ todo' \subseteq DOMAIN disp' /\ changed' \in BOOLEAN
        /\ pc' \in {"pass", "route"}
    BY <1>1, JudgeType DEF Routes, DeadLettered, Judge, Dispositions
  <1>3. batch[i] \in Messages
    BY <1>1
  <1>4. dlq' \subseteq Messages /\ spill' \subseteq Messages
    BY <1>3 DEF Routes, TypeInv, TypeOK
  <1>5. writes' = 0 /\ UNCHANGED <<committed, index, faults, fetchErrors, reading,
                                    attempts, points, history>>
    BY DEF Routes, DeadLettered
  <1> QED
    BY <1>1, <1>2, <1>4, <1>5, ExtractorAssumption
    DEF TypeInv, TypeOK, Shape, Phases, index, reading, history

LEMMA ConstSeq ==
    ASSUME NEW S, NEW T, NEW s \in Seq(S), NEW t \in T
    PROVE  /\ [i \in DOMAIN s |-> t] \in Seq(T)
           /\ Len([i \in DOMAIN s |-> t]) = Len(s)
  OBVIOUS

LEMMA TypeNext ==
    ASSUME TypeInv, [Next]_vars
    PROVE  TypeInv'
  <1> USE DEF TypeInv
  <1>1. CASE StartBatch
    <2>1. /\ disp' \in Seq(Dispositions) /\ Len(disp') = Len(batch)
          /\ attempts' \in Seq(0..MaxAttempts) /\ Len(attempts') = Len(batch)
      BY <1>1, ConstSeq, ExtractorAssumption DEF StartBatch, Dispositions, TypeOK
    <2>2. todo' \subseteq DOMAIN disp'
      BY <1>1, <2>1 DEF StartBatch, TypeOK
    <2> QED
      BY <1>1, <2>1, <2>2
      DEF StartBatch, TypeOK, Shape, Phases, broker, index, bounds, reading, history
  <1>2. CASE EndPass
    <2>1. points' \in [Partitions -> Nat]
      <3>1. \A pts \in [Partitions -> Offsets] : pts \in [Partitions -> Nat]
        BY ExtractorAssumption DEF Offsets
      <3> QED
        BY <1>2, <3>1 DEF EndPass, TypeOK
    <2>2. Transient \subseteq DOMAIN batch /\ DOMAIN batch = DOMAIN disp
      BY <1>2 DEF EndPass, TypeOK, Transient
    <2> QED
      BY <1>2, <2>1, <2>2
      DEF EndPass, TypeOK, Shape, Phases, broker, index, bounds, reading, history
  <1>3. CASE FinishBatch
    BY <1>3 DEF FinishBatch, TypeOK, Shape, Phases, broker, index, bounds, history
  <1>4. CASE NextPass
    <2>1. Transient \subseteq DOMAIN batch /\ DOMAIN batch = DOMAIN disp
      BY <1>4 DEF NextPass, TypeOK, Transient
    <2> QED
      BY <1>4, <2>1
      DEF NextPass, TypeOK, Shape, Phases, broker, index, bounds, reading, history
  <1>5. ASSUME NEW p \in Partitions, FetchMessage(p) PROVE TypeInv'
    <2>1. <<p, pos[p] + 1>> \in Messages
      BY <1>5, NextMessage
    <2> QED
      BY <1>5, <2>1
      DEF FetchMessage, TypeOK, Shape, broker, index, bounds, trying, history
  <1>6. ASSUME NEW p \in Partitions, Commit(p) PROVE TypeInv'
    BY <1>6 DEF Commit, TypeOK, Shape, index, bounds, reading, history
  <1>7. ASSUME NEW i \in todo, Tries(i) \/ Routes(i) PROVE TypeInv'
    BY <1>7, TryType, RouteType
  <1>8. ASSUME NEW i \in todo, GiveUp(i) PROVE TypeInv'
    BY <1>8 DEF GiveUp, Route, TypeOK, Shape, Phases, broker, index, bounds, reading, history
  <1>9. ASSUME NEW i \in todo, WriteDLQFails(i) PROVE TypeInv'
    <2>1. batch[i] \in Messages
      BY <1>9 DEF WriteDLQFails, TypeOK
    <2>2. writes' \in 0..(MaxRetries + 1)
      BY <1>9, ExtractorAssumption DEF WriteDLQFails, TypeOK
    <2> QED
      BY <1>9, <2>1, <2>2
      DEF WriteDLQFails, TypeOK, Shape, index, bounds, reading, history
  <1>10. CASE HardStop \/ Stop
    <2>1. Exit /\ (Fault \/ UNCHANGED bounds)
          /\ UNCHANGED <<broker, index, spill, history>>
      BY <1>10 DEF HardStop, Stop
    <2> QED
      BY <2>1, ExitType, FaultType DEF broker, TypeOK
  <1>11. ASSUME NEW p \in Partitions, CommitFails(p) PROVE TypeInv'
    <2>1. committed' \in [Partitions -> Nat]
      BY <1>11 DEF CommitFails, TypeOK
    <2> QED
      BY <1>11, <2>1, ExitType, FaultType DEF CommitFails
  <1>12. CASE FetchError
    <2>1. InBatch \subseteq Messages
      BY DEF InBatch, TypeOK
    <2> QED
      BY <1>12, <2>1 DEF FetchError, TypeOK, Shape, broker, index, trying
  <1>13. CASE Restart
    BY <1>13 DEF Restart, TypeOK, Shape, Phases, broker, index, bounds, trying, history
  <1>14. ASSUME NEW p \in Partitions, Rebalance(p) PROVE TypeInv'
    <2>1. faults' \in Nat /\ fetchErrors' \in Nat
      BY <1>14, FaultType DEF Rebalance
    <2> QED
      BY <1>14, <2>1 DEF Rebalance, TypeOK, Shape, broker, index, trying, history
  <1>15. ASSUME NEW m \in Messages, IndexDocument(m) PROVE TypeInv'
    BY <1>15 DEF IndexDocument, TypeOK, Shape, broker, bounds, reading, trying, history
  <1>16. CASE UNCHANGED vars
    BY <1>16 DEF vars, TypeOK, Shape
  <1> QED
    BY <1>1, <1>2, <1>3, <1>4, <1>5, <1>6, <1>7, <1>8, <1>9, <1>10, <1>11, <1>12,
       <1>13, <1>14, <1>15, <1>16, AttemptIsTry, RouteWays
    DEF Next, Loop, Attempt, CaughtUp

\* The extractor's state stays within its types; no message is tried more often
\* than MaxRetriesPerMessage allows.
THEOREM ExtractorTypeCorrect == Spec => []TypeOK
  <1>1. TypeInv => TypeOK
    BY DEF TypeInv
  <1> QED
    BY <1>1, TypeInit, TypeNext, PTL DEF Spec

-----------------------------------------------------------------------------
(* Nothing is lost but by a fetch error.  A commit is sound because of what *)
(* the process holds: what it calls settled is settled, and everything     *)
(* before a message it holds, or behind its reader, is settled, thrown away *)
(* or still in its hands.                                                  *)

Gone == Settled \cup dropped

DispositionsSound ==
    \A i \in DOMAIN disp : disp[i] \in {"ok", "dlq"} => batch[i] \in Settled

BatchClosed ==
    \A i \in DOMAIN batch, m \in Messages :
        m[1] = batch[i][1] /\ m[2] <= batch[i][2] => m \in Gone \cup InBatch

PointsSound == \A m \in Messages : m[2] <= points[m[1]] => m \in Gone

SafetyInv ==
    /\ TypeInv
    /\ LostOnlyByFetchError
    /\ ReaderCovered
    /\ DispositionsSound
    /\ BatchClosed
    /\ PointsSound

LEMMA NothingBefore ==
    ASSUME NEW m \in Messages
    PROVE  ~(m[2] <= NoOffset[m[1]])
  BY MessageParts, ExtractorAssumption DEF NoOffset

LEMMA SafetyInit == Init => SafetyInv
  <1> SUFFICES ASSUME Init PROVE SafetyInv
    OBVIOUS
  <1> QED
    BY TypeInit, NothingBefore
    DEF Init, SafetyInv, LostOnlyByFetchError, ReaderCovered, DispositionsSound,
        BatchClosed, PointsSound

\* A step that settles more, or nothing, and touches neither the batch nor the
\* offsets.
LEMMA Keeps ==
    ASSUME SafetyInv, TypeInv', Settled \subseteq Settled', dropped \subseteq dropped',
           UNCHANGED <<committed, pos, batch, points>>,
           \A i \in DOMAIN disp' :
              disp'[i] \in {"ok", "dlq"} => batch[i] \in Settled'
    PROVE  SafetyInv'
  <1>1. InBatch' = InBatch
    BY DEF InBatch
  <1>2. Gone \subseteq Gone'
    BY DEF Gone
  <1> QED
    BY <1>1, <1>2
    DEF SafetyInv, LostOnlyByFetchError, ReaderCovered, DispositionsSound,
        BatchClosed, PointsSound, Gone

LEMMA ExitKeeps ==
    ASSUME SafetyInv, TypeInv', Exit, UNCHANGED <<Settled, dropped>>,
           LostOnlyByFetchError'
    PROVE  SafetyInv'
  BY NothingBefore
  DEF SafetyInv, Exit, ReaderCovered, DispositionsSound, BatchClosed, PointsSound

\* Looking at a message settles it or leaves it transient.
LEMMA TryKeeps ==
    ASSUME SafetyInv, NEW i \in todo,
           \/ PassOver(i) \/ Reject(i) \/ Extract(i) \/ DocNotYet(i) \/ Refuse(i)
           \/ CallFails(i) \/ TikaFails(i) \/ UpdateFails(i)
    PROVE  SafetyInv'
  <1>1. Tries(i)
    BY AttemptIsTry
  <1>2. TypeInv'
    BY <1>1, TryType DEF SafetyInv
  <1>3. Settled \subseteq Settled'
    BY <1>1 DEF Tries, Trying, Settled, broker
  <1>4. UNCHANGED <<committed, pos, batch, points, dropped>>
    BY <1>1 DEF Tries, Trying, broker, reading
  <1>5. CASE PassOver(i) \/ Extract(i)
    <2>1. batch[i] \in Settled'
      BY <1>5 DEF PassOver, Extract, Settled
    <2>2. disp' = [disp EXCEPT ![i] = "ok"]
      BY <1>5 DEF PassOver, Extract, Settle
    <2>3. \A j \in DOMAIN disp' :
             disp'[j] \in {"ok", "dlq"} => batch[j] \in Settled'
      BY <1>3, <2>1, <2>2 DEF SafetyInv, DispositionsSound
    <2> QED
      BY <1>2, <1>3, <1>4, <2>3, Keeps
  <1>6. CASE \/ Reject(i) \/ DocNotYet(i) \/ Refuse(i)
             \/ CallFails(i) \/ TikaFails(i) \/ UpdateFails(i)
    <2>1. disp' = disp
      BY <1>6 DEF Reject, DocNotYet, Refuse, CallFails, TikaFails, UpdateFails,
                  Again, Route
    <2>2. \A j \in DOMAIN disp' :
             disp'[j] \in {"ok", "dlq"} => batch[j] \in Settled'
      BY <1>3, <2>1 DEF SafetyInv, DispositionsSound
    <2> QED
      BY <1>2, <1>3, <1>4, <2>2, Keeps
  <1> QED
    BY <1>5, <1>6

LEMMA RouteKeeps ==
    ASSUME SafetyInv, NEW i \in todo, Routes(i)
    PROVE  SafetyInv'
  <1>1. TypeInv'
    BY RouteType DEF SafetyInv
  <1>2. UNCHANGED <<committed, content, passed, dropped, pos, batch, points>>
    BY DEF Routes, DeadLettered, index, reading, history
  <1>3. Settled \subseteq Settled' /\ batch[i] \in Settled'
    BY <1>2 DEF Routes, Settled
  <1>4. disp' = [disp EXCEPT ![i] = "dlq"]
    BY DEF Routes, DeadLettered, Settle
  <1>5. \A j \in DOMAIN disp' :
           disp'[j] \in {"ok", "dlq"} => batch[j] \in Settled'
    BY <1>3, <1>4 DEF SafetyInv, DispositionsSound
  <1> QED
    BY <1>1, <1>2, <1>3, <1>5, Keeps

\* A commit point lies before every message that is still unsettled.
LEMMA PointSettled ==
    ASSUME SafetyInv, Len(disp) = Len(batch),
           NEW p \in Partitions, NEW tie \in BOOLEAN, NEW n \in Offsets,
           PartitionCommitPoint(p, tie, n),
           NEW m \in Messages, m[1] = p, m[2] <= n
    PROVE  m \in Gone
  <1>1. m[2] \in 1..Len(Log[p]) /\ m = <<p, m[2]>>
    BY MessageParts
  <1>2. DOMAIN disp = DOMAIN batch
    BY DEF SafetyInv, TypeInv, TypeOK
  <1>3. \A j \in DOMAIN batch \ Transient : batch[j] \in Settled
    BY <1>2 DEF SafetyInv, DispositionsSound, Transient, TypeInv, TypeOK, Dispositions
  <1>4. n # 0
    BY <1>1, ExtractorAssumption
  <1> DEFINE blocked == {batch[j][2] : j \in {k \in Transient : batch[k][1] = p}}
  <1>5. PICK i \in DOMAIN batch \ Transient :
            /\ batch[i][1] = p /\ batch[i][2] = n
            /\ \A o \in blocked : batch[i][2] < o + (IF tie THEN 1 ELSE 0)
    BY <1>4 DEF PartitionCommitPoint
  <1>6. batch[i] \in Messages
    BY DEF SafetyInv, TypeInv, TypeOK
  <1>7. CASE m \in InBatch
    <2>1. PICK j \in DOMAIN batch : batch[j] = m
      BY <1>7 DEF InBatch
    <2>2. CASE j \in Transient
      <3>0. m[2] \in blocked
        BY <2>1, <2>2
      <3>1. n < m[2] \/ n = m[2]
        <4>1. n < m[2] + (IF tie THEN 1 ELSE 0)
          BY <1>5, <3>0
        <4> QED
          BY <1>1, <4>1, ExtractorAssumption DEF Offsets
      <3>2. m = batch[i]
        BY <1>1, <1>5, <1>6, <3>1, MessageParts, ExtractorAssumption DEF Offsets
      <3> QED
        BY <1>3, <3>2 DEF Gone
    <2> QED
      BY <1>3, <2>1, <2>2 DEF Gone
  <1> QED
    BY <1>5, <1>7 DEF SafetyInv, BatchClosed

LEMMA SafetyNext ==
    ASSUME SafetyInv, [Next]_vars
    PROVE  SafetyInv'
  <1>0. TypeInv /\ TypeInv'
    BY TypeNext DEF SafetyInv
  <1>1. CASE StartBatch
    <2>1. \A i \in DOMAIN disp' : disp'[i] = "transient"
      BY <1>1 DEF StartBatch
    <2> QED
      BY <1>0, <1>1, <2>1, Keeps
      DEF StartBatch, Settled, broker, index, reading, history
  <1>2. CASE EndPass
    <2>0. Len(disp) = Len(batch)
      BY <1>0, <1>2 DEF EndPass, TypeInv, TypeOK
    <2>1. UNCHANGED <<committed, Settled, dropped, pos, batch, disp>>
      BY <1>2 DEF EndPass, Settled, broker, index, reading, history
    <2>2. InBatch' = InBatch /\ Gone' = Gone
      BY <2>1 DEF InBatch, Gone
    <2>3. PointsSound'
      <3>1. CASE changed
        <4>1. PICK tie \in BOOLEAN, pts \in [Partitions -> Offsets] :
                 /\ \A p \in Partitions : PartitionCommitPoint(p, tie, pts[p])
                 /\ points' = pts
          BY <1>2, <3>1 DEF EndPass
        <4>2. ASSUME NEW m \in Messages, m[2] <= pts[m[1]] PROVE m \in Gone
          <5>1. m[1] \in Partitions /\ pts[m[1]] \in Offsets
            BY MessageParts
          <5> QED
            BY <2>0, <4>1, <4>2, <5>1, PointSettled
        <4> QED
          BY <2>2, <4>1, <4>2 DEF PointsSound
      <3>2. CASE ~changed
        BY <1>2, <2>2, <3>2 DEF EndPass, SafetyInv, PointsSound
      <3> QED
        BY <1>0, <3>1, <3>2 DEF TypeInv, TypeOK
    <2> QED
      BY <1>0, <2>1, <2>2, <2>3
      DEF SafetyInv, LostOnlyByFetchError, ReaderCovered, DispositionsSound, BatchClosed,
          Gone
  <1>3. CASE FinishBatch
    <2>0. Len(disp) = Len(batch)
      BY <1>0, <1>3 DEF FinishBatch, TypeInv, TypeOK
    <2>1. \A i \in DOMAIN batch : batch[i] \in Settled
      <3>1. DOMAIN disp = DOMAIN batch /\ disp \in Seq(Dispositions)
        BY <1>0, <2>0 DEF TypeInv, TypeOK
      <3>2. \A i \in DOMAIN batch : disp[i] # "transient"
        BY <1>3 DEF FinishBatch, Transient
      <3>3. \A i \in DOMAIN batch : disp[i] \in {"ok", "dlq"}
        BY <3>1, <3>2 DEF Dispositions
      <3> QED
        BY <3>1, <3>3 DEF SafetyInv, DispositionsSound
    <2>2. InBatch \subseteq Settled
      BY <2>1 DEF InBatch
    <2>3. UNCHANGED <<committed, Settled, dropped, pos, points>>
      BY <1>3 DEF FinishBatch, Settled, broker, index, history
    <2>4. batch' = <<>> /\ disp' = <<>>
      BY <1>3 DEF FinishBatch
    <2> QED
      BY <1>0, <2>2, <2>3, <2>4
      DEF SafetyInv, LostOnlyByFetchError, ReaderCovered, DispositionsSound, BatchClosed,
          PointsSound, Gone
  <1>4. CASE NextPass
    BY <1>0, <1>4, Keeps
    DEF NextPass, Settled, broker, index, reading, history, SafetyInv, DispositionsSound
  <1>5. ASSUME NEW p \in Partitions, FetchMessage(p) PROVE SafetyInv'
    <2> DEFINE new == <<p, pos[p] + 1>>
    <2>1. /\ UNCHANGED <<committed, Settled, dropped, disp, points>>
          /\ batch' = Append(batch, new) /\ pos' = [pos EXCEPT ![p] = @ + 1]
          /\ disp = <<>>
      BY <1>0, <1>5
      DEF FetchMessage, Settled, broker, index, trying, history, TypeInv, Shape
    <2>2. new \in Messages /\ batch \in Seq(Messages) /\ pos \in [Partitions -> Nat]
      BY <1>0, <1>5, NextMessage DEF TypeInv, TypeOK
    <2>3. InBatch' = InBatch \cup {new}
      <3> HIDE DEF new
      <3> QED
        BY <2>1, <2>2 DEF InBatch
    <2>4. Gone' = Gone
      BY <2>1 DEF Gone
    <2>5. \A m \in Messages : m[2] <= pos'[m[1]] => m \in Gone \cup InBatch'
      <3> SUFFICES ASSUME NEW m \in Messages, m[2] <= pos'[m[1]], m # new
                   PROVE  m[2] <= pos[m[1]]
        BY <2>3 DEF SafetyInv, ReaderCovered, Gone
      <3>1. m[1] \in Partitions /\ m[2] \in Int /\ m = <<m[1], m[2]>>
        BY MessageParts
      <3> QED
        BY <2>1, <2>2, <3>1
    <2>6. BatchClosed'
      <3> SUFFICES ASSUME NEW i \in DOMAIN batch', NEW m \in Messages,
                          m[1] = batch'[i][1], m[2] <= batch'[i][2]
                   PROVE  m \in Gone \cup InBatch'
        BY <2>4 DEF BatchClosed
      <3>1. CASE i \in DOMAIN batch
        <4>1. batch'[i] = batch[i]
          BY <2>1, <2>2, <3>1
        <4> QED
          BY <2>3, <3>1, <4>1 DEF SafetyInv, BatchClosed
      <3>2. CASE i \notin DOMAIN batch
        <4>1. batch'[i] = new
          BY <2>1, <2>2, <3>2
        <4>2. m[2] <= pos'[m[1]]
          BY <2>1, <2>2, <4>1
        <4> QED
          BY <2>5, <4>2
      <3> QED
        BY <3>1, <3>2
    <2> QED
      BY <1>0, <2>1, <2>4, <2>5, <2>6
      DEF SafetyInv, LostOnlyByFetchError, ReaderCovered, DispositionsSound, PointsSound,
          Gone
  <1>6. ASSUME NEW p \in Partitions, Commit(p) PROVE SafetyInv'
    <2>1. /\ UNCHANGED <<Settled, dropped, pos, batch, disp>>
          /\ committed' = [committed EXCEPT ![p] = points[p]]
          /\ points' = [points EXCEPT ![p] = 0]
      BY <1>6 DEF Commit, Settled, index, reading, history
    <2>2. InBatch' = InBatch /\ Gone' = Gone
      BY <2>1 DEF InBatch, Gone
    <2>3. \A m \in Messages : m[1] \in Partitions /\ ~(m[2] <= 0)
      BY MessageParts, ExtractorAssumption
    <2>4. LostOnlyByFetchError' /\ PointsSound'
      BY <1>0, <2>1, <2>2, <2>3
      DEF SafetyInv, LostOnlyByFetchError, PointsSound, Gone, TypeInv, TypeOK
    <2> QED
      BY <1>0, <2>1, <2>2, <2>4
      DEF SafetyInv, ReaderCovered, DispositionsSound, BatchClosed, Gone
  <1>7. ASSUME NEW i \in todo,
               \/ PassOver(i) \/ Reject(i) \/ Extract(i) \/ DocNotYet(i) \/ Refuse(i)
               \/ CallFails(i) \/ TikaFails(i) \/ UpdateFails(i)
        PROVE  SafetyInv'
    BY <1>7, TryKeeps
  <1>8. ASSUME NEW i \in todo, GiveUp(i) PROVE SafetyInv'
    BY <1>0, <1>8, Keeps
    DEF GiveUp, Route, Settled, broker, index, reading, history, SafetyInv,
        DispositionsSound
  <1>9. ASSUME NEW i \in todo, WriteDLQ(i) \/ Spill(i) PROVE SafetyInv'
    BY <1>9, RouteKeeps, RouteWays
  <1>10. ASSUME NEW i \in todo, WriteDLQFails(i) PROVE SafetyInv'
    <2>1. Settled \subseteq Settled'
      BY <1>10 DEF WriteDLQFails, Settled, index, history
    <2> QED
      BY <1>0, <1>10, <2>1, Keeps
      DEF WriteDLQFails, index, reading, history, SafetyInv, DispositionsSound
  <1>11. CASE HardStop \/ Stop
    <2>1. Exit /\ UNCHANGED <<committed, Settled, dropped>>
      BY <1>11 DEF HardStop, Stop, Settled, broker, index, history
    <2> QED
      BY <1>0, <2>1, ExitKeeps DEF SafetyInv, LostOnlyByFetchError
  <1>12. ASSUME NEW p \in Partitions, CommitFails(p) PROVE SafetyInv'
    <2>1. Exit /\ UNCHANGED <<Settled, dropped>>
      BY <1>12 DEF CommitFails, Settled, index, history
    <2>2. LostOnlyByFetchError'
      <3>1. \A m \in Messages : m[1] \in Partitions
        BY MessageParts
      <3>2. \A q \in Partitions :
                \/ committed'[q] = committed[q]
                \/ committed'[q] = points[q]
        BY <1>0, <1>12 DEF CommitFails, TypeInv, TypeOK
      <3> QED
        BY <2>1, <3>1, <3>2 DEF SafetyInv, LostOnlyByFetchError, PointsSound, Gone
    <2> QED
      BY <1>0, <2>1, <2>2, ExitKeeps
  <1>13. CASE FetchError
    <2>1. /\ UNCHANGED <<committed, Settled, pos, disp, points>>
          /\ batch' = <<>> /\ dropped' = dropped \cup InBatch
          /\ disp = <<>>
      BY <1>0, <1>13
      DEF FetchError, Settled, broker, index, trying, TypeInv, Shape
    <2> QED
      BY <1>0, <2>1
      DEF SafetyInv, LostOnlyByFetchError, ReaderCovered, DispositionsSound,
          BatchClosed, PointsSound, Gone
  <1>14. CASE Restart
    <2>1. /\ UNCHANGED <<committed, Settled, dropped, batch, disp, points>>
          /\ pos' = committed
      BY <1>14 DEF Restart, Settled, broker, index, trying, history
    <2>2. InBatch' = InBatch
      BY <2>1 DEF InBatch
    <2> QED
      BY <1>0, <2>1, <2>2
      DEF SafetyInv, LostOnlyByFetchError, ReaderCovered, DispositionsSound,
          BatchClosed, PointsSound, Gone
  <1>15. ASSUME NEW p \in Partitions, Rebalance(p) PROVE SafetyInv'
    <2>1. /\ UNCHANGED <<committed, Settled, dropped, batch, disp, points>>
          /\ pos' = [pos EXCEPT ![p] = committed[p]]
      BY <1>15 DEF Rebalance, Settled, broker, index, trying, history
    <2>2. InBatch' = InBatch
      BY <2>1 DEF InBatch
    <2>3. ReaderCovered'
      <3>1. \A m \in Messages : m[1] \in Partitions
        BY MessageParts
      <3> QED
        BY <1>0, <2>1, <2>2, <3>1
        DEF SafetyInv, LostOnlyByFetchError, ReaderCovered, TypeInv, TypeOK
    <2> QED
      BY <1>0, <2>1, <2>2, <2>3
      DEF SafetyInv, LostOnlyByFetchError, DispositionsSound, BatchClosed, PointsSound,
          Gone
  <1>16. ASSUME NEW m \in Messages, IndexDocument(m) PROVE SafetyInv'
    BY <1>0, <1>16, Keeps
    DEF IndexDocument, Settled, broker, reading, trying, history, SafetyInv,
        DispositionsSound
  <1>17. CASE UNCHANGED vars
    BY <1>0, <1>17, Keeps DEF vars, Settled, SafetyInv, DispositionsSound
  <1> QED
    BY <1>1, <1>2, <1>3, <1>4, <1>5, <1>6, <1>7, <1>8, <1>9, <1>10, <1>11, <1>12,
       <1>13, <1>14, <1>15, <1>16, <1>17 DEF Next, Loop, Attempt, CaughtUp

LEMMA SafetyCorrect == Spec => []SafetyInv
  BY SafetyInit, SafetyNext, PTL DEF Spec

\* No committed offset covers a file message without an outcome, but for those a
\* fetch error threw away (fetchBatch): passes, retries, rebalances, crashes and
\* commits that fail lose nothing, for every batch size.
THEOREM ExtractorLosesNothingElse == Spec => []LostOnlyByFetchError
  BY SafetyCorrect, PTL DEF SafetyInv

\* The reader is never ahead of what the process answers for.
THEOREM ExtractorReaderCovered == Spec => []ReaderCovered
  BY SafetyCorrect, PTL DEF SafetyInv

-----------------------------------------------------------------------------
(* The extractor implements the promise of every pipeline stage, with what *)
(* a fetch error threw away taken as settled.                              *)

LEMMA PromiseInit == Init => Promise!Init
  BY DEF Init, Promise!Init, Settled, NoOffset

LEMMA GoneGrows == [Next]_vars => Gone \subseteq Gone'
  <1> SUFFICES ASSUME [Next]_vars PROVE Gone \subseteq Gone'
    OBVIOUS
  <1> USE DEF Gone, Settled
  <1>1. ASSUME NEW i \in todo,
               \/ PassOver(i) \/ Reject(i) \/ Extract(i) \/ DocNotYet(i) \/ Refuse(i)
               \/ CallFails(i) \/ TikaFails(i) \/ UpdateFails(i)
        PROVE  Gone \subseteq Gone'
    BY <1>1, AttemptIsTry DEF Tries, Trying, broker
  <1>2. ASSUME NEW i \in todo, WriteDLQ(i) \/ Spill(i) \/ WriteDLQFails(i) \/ GiveUp(i)
        PROVE  Gone \subseteq Gone'
    BY <1>2 DEF WriteDLQ, Spill, WriteDLQFails, GiveUp, DeadLettered, broker, index,
                history
  <1>3. CASE StartBatch \/ EndPass \/ FinishBatch \/ NextPass
    BY <1>3 DEF StartBatch, EndPass, FinishBatch, NextPass, broker, index, history
  <1>4. ASSUME NEW p \in Partitions,
               FetchMessage(p) \/ Commit(p) \/ CommitFails(p) \/ Rebalance(p)
        PROVE  Gone \subseteq Gone'
    BY <1>4 DEF FetchMessage, Commit, CommitFails, Rebalance, broker, index, history
  <1>5. CASE HardStop \/ Stop \/ Restart \/ FetchError
    BY <1>5 DEF HardStop, Stop, Restart, FetchError, broker, index, history
  <1>6. ASSUME NEW m \in Messages, IndexDocument(m) PROVE Gone \subseteq Gone'
    BY <1>6 DEF IndexDocument, broker, history
  <1>7. CASE UNCHANGED vars
    BY <1>7 DEF vars
  <1> QED
    BY <1>1, <1>2, <1>3, <1>4, <1>5, <1>6, <1>7 DEF Next, Loop, Attempt, CaughtUp

\* Only a commit moves a resume point, and it changes nothing else.
LEMMA CommittedMoves ==
    ASSUME [Next]_vars, ~\E p \in Partitions : Commit(p) \/ CommitFails(p)
    PROVE  UNCHANGED committed
  <1>1. ASSUME NEW i \in todo,
               \/ PassOver(i) \/ Reject(i) \/ Extract(i) \/ DocNotYet(i) \/ Refuse(i)
               \/ CallFails(i) \/ TikaFails(i) \/ UpdateFails(i)
        PROVE  UNCHANGED committed
    BY <1>1, AttemptIsTry DEF Tries, Trying, broker
  <1>2. ASSUME NEW i \in todo, WriteDLQ(i) \/ Spill(i) \/ WriteDLQFails(i) \/ GiveUp(i)
        PROVE  UNCHANGED committed
    BY <1>2 DEF WriteDLQ, Spill, WriteDLQFails, GiveUp, DeadLettered, broker
  <1>3. CASE StartBatch \/ EndPass \/ FinishBatch \/ NextPass
    BY <1>3 DEF StartBatch, EndPass, FinishBatch, NextPass, broker
  <1>4. ASSUME NEW p \in Partitions, FetchMessage(p) \/ Rebalance(p)
        PROVE  UNCHANGED committed
    BY <1>4 DEF FetchMessage, Rebalance, broker
  <1>5. CASE HardStop \/ Stop \/ Restart \/ FetchError
    BY <1>5 DEF HardStop, Stop, Restart, FetchError, broker
  <1>6. ASSUME NEW m \in Messages, IndexDocument(m) PROVE UNCHANGED committed
    BY <1>6 DEF IndexDocument, broker
  <1>7. CASE UNCHANGED vars
    BY <1>7 DEF vars
  <1> QED
    BY <1>1, <1>2, <1>3, <1>4, <1>5, <1>6, <1>7 DEF Next, Loop, Attempt, CaughtUp

LEMMA PromiseNext ==
    ASSUME SafetyInv, SafetyInv', [Next]_vars
    PROVE  [Promise!Next]_(Promise!vars)
  <1>1. Gone \subseteq Gone' /\ Gone' \subseteq Messages
    BY GoneGrows DEF SafetyInv, TypeInv, TypeOK, Gone, Settled
  <1>2. CASE UNCHANGED committed
    BY <1>1, <1>2 DEF Promise!Next, Promise!Settle, Gone
  <1>3. ASSUME NEW p \in Partitions, UNCHANGED Gone, NEW n,
               committed' = [committed EXCEPT ![p] = n]
        PROVE  Promise!Next
    <2>1. committed'[p] \in Nat /\ committed'[p] = n
      BY <1>3 DEF SafetyInv, TypeInv, TypeOK
    <2>2. Promise!Covers(p, committed'[p]) \subseteq Gone
      BY <1>3 DEF SafetyInv, LostOnlyByFetchError, Promise!Covers, Gone
    <2> QED
      BY <1>3, <2>1, <2>2 DEF Promise!Next, Promise!Advance, Gone
  <1>4. ASSUME NEW p \in Partitions, Commit(p) PROVE Promise!Next
    <2>1. UNCHANGED Gone
      BY <1>4 DEF Commit, Gone, Settled, index, history
    <2> QED
      BY <1>3, <1>4, <2>1 DEF Commit
  <1>5. ASSUME NEW p \in Partitions, CommitFails(p) PROVE [Promise!Next]_(Promise!vars)
    <2>1. UNCHANGED Gone
      BY <1>5 DEF CommitFails, Gone, Settled, index, history
    <2> QED
      BY <1>2, <1>3, <1>5, <2>1 DEF CommitFails
  <1> QED
    BY <1>2, <1>4, <1>5, CommittedMoves

\* But for what a fetch error threw away, every behaviour of the extractor is one
\* the at-least-once promise allows.
THEOREM ExtractorKeepsPromise == Spec => ImplementsAtLeastOnce
  <1>1. ImplementsAtLeastOnce <=> Promise!Init /\ [][Promise!Next]_(Promise!vars)
    BY DEF ImplementsAtLeastOnce, Promise!Spec
  <1> QED
    BY <1>1, PromiseInit, PromiseNext, SafetyCorrect, PTL DEF Spec
=============================================================================
