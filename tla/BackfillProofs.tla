--------------------------- MODULE BackfillProofs ---------------------------
(***************************************************************************)
(* What the backfill guarantees for all tables, page sizes and numbers of  *)
(* faults.                                                                 *)
(***************************************************************************)
EXTENDS Backfill, FiniteSetTheorems, TLAPS

LEMMA RowParts ==
    ASSUME NEW r \in Rows
    PROVE  /\ r[1] \in 1..Tables /\ r[1] \in Int
           /\ Len(Log[r[1]]) \in Nat
           /\ r[2] \in 1..Len(Log[r[1]]) /\ r[2] \in Int
           /\ r = <<r[1], r[2]>>
           /\ Kind(r) \in Kinds
  <1>1. PICK t \in 1..Tables : r \in {t} \X (1..Len(Log[t]))
    BY DEF Rows
  <1>2. Log[t] \in Seq(Kinds)
    BY BackfillAssumption
  <1> QED
    BY <1>1, <1>2 DEF Kind

LEMMA RowMade ==
    ASSUME NEW t \in 1..Tables, NEW i \in 1..Len(Log[t])
    PROVE  <<t, i>> \in Rows
  BY DEF Rows

LEMMA LowerNat ==
    ASSUME NEW a \in Nat, NEW b \in Nat
    PROVE  /\ Lower(a, b) \in Nat
           /\ Lower(a, b) <= a /\ Lower(a, b) <= b
           /\ a <= b => Lower(a, b) = a
  BY DEF Lower

LEMMA Prefix ==
    ASSUME NEW S, NEW s \in Seq(S), NEW n \in Nat, n <= Len(s)
    PROVE  /\ SubSeq(s, 1, n) \in Seq(S)
           /\ Len(SubSeq(s, 1, n)) = n
           /\ \A i \in 1..n : SubSeq(s, 1, n)[i] = s[i]
  OBVIOUS

-----------------------------------------------------------------------------
(* Types *)

LEMMA TypeInit == Init => TypeOK
  BY BackfillAssumption DEF Init, TypeOK, Phases

LEMMA ExitType ==
    ASSUME TypeOK, Exit, faults' \in Nat, flushed' \in Nat, sidecar' \in Nat,
           file' \in Seq(Rows \cup {Garbage}),
           checkpoint' \in [1..Tables -> Nat], UNCHANGED es
    PROVE  TypeOK'
  BY BackfillAssumption DEF TypeOK, Exit, Phases

\* The rows of a page.
LEMMA PageRows ==
    ASSUME TypeOK, ReadBatch
    PROVE  /\ last' \in Nat
           /\ toSpill' \cup remaining' = {table} \X ((checkpoint[table] + 1)..last')
           /\ toSpill' \cup remaining' \subseteq Rows
           /\ \A r \in toSpill' : Kind(r) = "unreadable"
           /\ \A r \in remaining' : Kind(r) # "unreadable"
  <1> DEFINE first == checkpoint[table] + 1
  <1>1. table \in 1..Tables /\ first \in Nat /\ first <= Len(Log[table])
        /\ Len(Log[table]) \in Nat /\ BatchSize \in Nat \ {0}
    <2>1. table \in 1..Tables
      BY BackfillAssumption DEF ReadBatch, ReadPage, TypeOK
    <2>2. Log[table] \in Seq(Kinds)
      BY <2>1, BackfillAssumption
    <2> QED
      BY <2>1, <2>2, BackfillAssumption DEF ReadBatch, ReadPage, TypeOK
  <1>2. last' = Lower(first + BatchSize - 1, Len(Log[table]))
    BY DEF ReadBatch, ReadPage
  <1>3. last' \in Nat /\ last' <= Len(Log[table])
    BY <1>1, <1>2 DEF Lower
  <1>4. {table} \X (first..last') \subseteq Rows
    <2> SUFFICES ASSUME NEW i \in first..last' PROVE <<table, i>> \in Rows
      OBVIOUS
    <2>1. i \in 1..Len(Log[table])
      BY <1>1, <1>3 DEF TypeOK
    <2> QED
      BY <1>1, <2>1, RowMade
  <1> QED
    BY <1>3, <1>4 DEF ReadBatch, ReadPage

LEMMA TypeNext == TypeOK /\ [Next]_vars => TypeOK'
  <1> SUFFICES ASSUME TypeOK, [Next]_vars PROVE TypeOK'
    OBVIOUS
  <1>1. CASE Open
    <2>1. file' \in Seq(Rows \cup {Garbage})
      BY <1>1, Prefix DEF Open, Recoverable, TypeOK
    <2>4. flushed' \in Nat
      BY <1>1, LowerNat DEF Open, TypeOK
    <2>2. seen' \subseteq Rows
      BY <1>1 DEF Open, Recoverable, Records
    <2>3. pendingLen' \in Nat /\ syncedLen' \in 0..pendingLen' /\ table' \in 1..(Tables + 1)
      BY <1>1, BackfillAssumption DEF Open, TypeOK
    <2> QED
      BY <1>1, <2>1, <2>2, <2>3, <2>4 DEF Open, TypeOK, page, Phases
  <1>2. CASE ReadBatch
    <2>1. last' \in Nat /\ toSpill' \subseteq Rows /\ remaining' \subseteq Rows
      BY <1>2, PageRows
    <2> QED
      BY <1>2, <2>1 DEF ReadBatch, ReadPage, TypeOK, disk, dlq, Phases
  <1>3. CASE NextTable \/ Finish \/ Written \/ Sync \/ Stop \/ BulkFails
    <2>1. es' \subseteq Rows
      BY <1>3 DEF NextTable, Finish, Written, Sync, Stop, BulkFails, TypeOK
    <2>2. table' \in 1..(Tables + 1)
      BY <1>3, BackfillAssumption DEF NextTable, Finish, Written, Sync, Stop, BulkFails, TypeOK
    <2>3. pc' \in Phases /\ flushed' \in Nat /\ faults' \in Nat
      BY <1>3 DEF NextTable, Finish, Written, Sync, Stop, BulkFails, TypeOK, Phases, Fault, disk
    <2>4. UNCHANGED <<checkpoint, file, sidecar, page, dlq>>
      BY <1>3 DEF NextTable, Finish, Written, Sync, Stop, BulkFails, disk
    <2> QED
      BY <2>1, <2>2, <2>3, <2>4 DEF TypeOK, page, dlq
  <1>4. CASE Advance \/ AdvanceFails
    <2>1. checkpoint' \in [1..Tables -> Nat]
      BY <1>4 DEF Advance, AdvanceFails, TypeOK
    <2> QED
      BY <1>4, <2>1 DEF Advance, AdvanceFails, Fault, TypeOK, page, dlq, Phases
  <1>5. CASE \E r \in toSpill : Write(r) \/ WriteFails(r)
    <2>1. PICK r \in toSpill : Write(r) \/ WriteFails(r)
      BY <1>5
    <2>2. r \in Rows /\ Append(file, r) \in Seq(Rows \cup {Garbage})
          /\ Append(file, Garbage) \in Seq(Rows \cup {Garbage})
      BY DEF TypeOK
    <2>3. CASE Write(r)
      <3>1. file' \in Seq(Rows \cup {Garbage}) /\ seen' \subseteq Rows
        BY <2>2, <2>3 DEF Write, TypeOK
      <3>2. pendingLen' \in Nat /\ syncedLen' \in 0..pendingLen'
        BY <2>3 DEF Write, TypeOK
      <3> QED
        BY <2>3, <3>1, <3>2 DEF Write, TypeOK
    <2>4. CASE WriteFails(r)
      BY <2>2, <2>4 DEF WriteFails, Fault, TypeOK, page, dlq, Phases
    <2> QED
      BY <2>1, <2>3, <2>4
  <1>6. CASE BulkDocs
    BY <1>6 DEF BulkDocs, WriteMain, TypeOK, disk, dlq
  <1>7. CASE WriteSyncedOffset \/ SyncFails
    BY <1>7 DEF WriteSyncedOffset, SyncFails, Fault, TypeOK, page, dlq, Phases
  <1>8. CASE Close \/ CloseFails \/ Crash
    <2>1. flushed' \in Nat /\ sidecar' \in Nat /\ faults' \in Nat
      BY <1>8 DEF Close, CloseFails, Crash, Fault, TypeOK, disk
    <2>2. Exit /\ UNCHANGED <<es, checkpoint, file>>
      BY <1>8 DEF Close, CloseFails, Crash, disk
    <2> QED
      BY <2>1, <2>2, ExitType DEF TypeOK
  <1>9. CASE HostCrash
    <2>1. file' \in Seq(Rows \cup {Garbage})
      BY <1>9 DEF HostCrash, TypeOK
    <2>2. flushed' \in Nat /\ faults' \in Nat
      BY <1>9, <2>1 DEF HostCrash, Fault, TypeOK
    <2> QED
      BY <1>9, <2>1, <2>2, ExitType DEF HostCrash, TypeOK
  <1>10. CASE UNCHANGED vars
    BY <1>10 DEF vars, TypeOK
  <1> QED
    BY <1>1, <1>2, <1>3, <1>4, <1>5, <1>6, <1>7, <1>8, <1>9, <1>10
       DEF Next, Run, Done

\* The state of the job and its files stays within its types.
THEOREM BackfillTypeCorrect == Spec => []TypeOK
  BY TypeInit, TypeNext, PTL DEF Spec
-----------------------------------------------------------------------------
(* The spill file.  What the sidecar counts was synced before; what the job *)
(* takes for recorded stands at the front of the file; as long as no write  *)
(* has failed there is nothing behind it.                                   *)

FileInv ==
    /\ sidecar <= flushed /\ flushed <= Len(file)
    /\ \A i \in 1..sidecar : file[i] \in Rows

JobInv ==
    pc # "down" =>
        /\ syncedLen <= sidecar /\ sidecar <= pendingLen /\ pendingLen <= Len(file)
        /\ \A i \in 1..pendingLen : file[i] \in Rows
        /\ seen = Records(pendingLen)

NothingBehind == pc \notin {"down", "close"} => Len(file) = pendingLen

SyncedFirst == pc = "sidecar" => flushed = Len(file)

SpillInv == TypeOK /\ FileInv /\ JobInv /\ NothingBehind /\ SyncedFirst

LEMMA SpillInit == Init => SpillInv
  BY TypeInit DEF Init, SpillInv, FileInv, JobInv, NothingBehind, SyncedFirst

\* An end of the process that leaves the front of the file alone.
LEMMA ExitSpill ==
    ASSUME SpillInv, TypeOK', Exit, flushed' <= Len(file'),
           \/ sidecar' = sidecar /\ flushed <= flushed'
           \/ pc # "down" /\ sidecar' \in {sidecar, pendingLen} /\ flushed' = Len(file),
           \A i \in 1..flushed : file'[i] = file[i],
           file' = file \/ sidecar' = sidecar
    PROVE  SpillInv'
  <1>0. /\ sidecar \in Nat /\ sidecar' \in Nat /\ flushed \in Nat /\ flushed' \in Nat
        /\ Len(file) \in Nat /\ Len(file') \in Nat
        /\ sidecar <= flushed /\ flushed <= Len(file)
    BY DEF SpillInv, FileInv, TypeOK
  <1>1. FileInv'
    <2>1. CASE sidecar' = sidecar
      <3>1. sidecar' <= flushed'
        BY <1>0, <2>1
      <3>2. \A i \in 1..sidecar' : file'[i] \in Rows
        BY <1>0, <2>1 DEF SpillInv, FileInv
      <3> QED
        BY <3>1, <3>2 DEF FileInv
    <2>2. CASE sidecar' # sidecar
      <3>1. pc # "down" /\ sidecar' = pendingLen /\ flushed' = Len(file) /\ file' = file
        BY <2>2
      <3> QED
        BY <3>1 DEF SpillInv, FileInv, JobInv
    <2> QED
      BY <2>1, <2>2
  <1> QED
    BY <1>1 DEF SpillInv, JobInv, NothingBehind, SyncedFirst, Exit

LEMMA SpillNext == SpillInv /\ [Next]_vars => SpillInv'
  <1> SUFFICES ASSUME SpillInv, [Next]_vars PROVE SpillInv'
    OBVIOUS
  <1>0. TypeOK /\ TypeOK'
    BY TypeNext DEF SpillInv
  <1>1. CASE Open
    <2>1. /\ file \in Seq(Rows \cup {Garbage}) /\ sidecar \in Nat /\ flushed \in Nat
          /\ sidecar <= Len(file)
          /\ \A i \in 1..sidecar : file[i] \in Rows
      BY <1>0, <1>1 DEF Open, Recoverable, TypeOK
    <2>2. /\ Len(file') = sidecar
          /\ \A i \in 1..sidecar : file'[i] = file[i]
      BY <1>1, <2>1, Prefix DEF Open
    <2>3. flushed' = sidecar
      BY <1>1, <2>1 DEF Open, Lower, SpillInv, FileInv
    <2>4. seen' = Records(pendingLen)'
      BY <1>1, <2>1, <2>2 DEF Open, Records
    <2> QED
      BY <1>0, <1>1, <2>1, <2>2, <2>3, <2>4
         DEF Open, SpillInv, FileInv, JobInv, NothingBehind, SyncedFirst
  <1>2. CASE \/ ReadBatch \/ NextTable \/ Finish \/ Written \/ Advance \/ AdvanceFails
             \/ BulkDocs \/ BulkFails \/ Stop \/ UNCHANGED vars
    <2>1. UNCHANGED <<file, flushed, sidecar, seen, pendingLen, syncedLen>>
      BY <1>2 DEF ReadBatch, ReadPage, NextTable, Finish, Written, Advance, AdvanceFails,
         BulkDocs, WriteMain, BulkFails, Stop, vars, disk, dlq
    <2>2. /\ pc' # "down" => pc # "down"
          /\ pc' \notin {"down", "close"} => pc \notin {"down", "close"}
          /\ pc' = "sidecar" => pc = "sidecar"
      BY <1>2 DEF ReadBatch, ReadPage, NextTable, Finish, Written, Advance, AdvanceFails,
         BulkDocs, WriteMain, BulkFails, Stop, vars
    <2> QED
      BY <1>0, <2>1, <2>2
         DEF SpillInv, FileInv, JobInv, NothingBehind, SyncedFirst, Records
  <1>3. ASSUME NEW r \in toSpill, Write(r) PROVE SpillInv'
    <2>1. CASE r \in seen
      BY <1>0, <1>3, <2>1
         DEF Write, SpillInv, FileInv, JobInv, NothingBehind, SyncedFirst, Records
    <2>2. CASE r \notin seen
      <3>1. /\ file' = Append(file, r) /\ pendingLen' = pendingLen + 1
            /\ seen' = seen \cup {r} /\ r \in Rows /\ pc = "write" /\ pc' = "write"
            /\ UNCHANGED <<flushed, sidecar, syncedLen>>
        BY <1>0, <1>3, <2>2 DEF Write, TypeOK
      <3>2. Len(file) = pendingLen /\ file \in Seq(Rows \cup {Garbage}) /\ pendingLen \in Nat
        BY <1>0, <3>1 DEF SpillInv, NothingBehind, TypeOK
      <3>3. /\ Len(file') = pendingLen + 1
            /\ file'[pendingLen + 1] = r
            /\ \A i \in 1..pendingLen : file'[i] = file[i]
        BY <3>1, <3>2
      <3>4. seen' = Records(pendingLen)'
        BY <3>1, <3>2, <3>3 DEF SpillInv, JobInv, Records
      <3>5. FileInv' /\ (\A i \in 1..pendingLen' : file'[i] \in Rows)
        BY <1>0, <3>1, <3>2, <3>3 DEF SpillInv, FileInv, JobInv, TypeOK
      <3>6. syncedLen' <= sidecar' /\ sidecar' <= pendingLen' /\ pendingLen' <= Len(file')
        BY <1>0, <3>1, <3>2, <3>3 DEF SpillInv, JobInv, TypeOK
      <3> QED
        BY <1>0, <3>1, <3>3, <3>4, <3>5, <3>6 DEF SpillInv, JobInv, NothingBehind, SyncedFirst
    <2> QED
      BY <2>1, <2>2
  <1>4. ASSUME NEW r \in toSpill, WriteFails(r) PROVE SpillInv'
    <2>1. /\ pc = "write" /\ pc' = "close"
          /\ UNCHANGED <<flushed, sidecar, seen, pendingLen, syncedLen>>
          /\ file \in Seq(Rows \cup {Garbage})
      BY <1>0, <1>4 DEF WriteFails, dlq, TypeOK
    <2>2. /\ Len(file) <= Len(file')
          /\ \A i \in 1..Len(file) : file'[i] = file[i]
      BY <1>4, <2>1 DEF WriteFails
    <2>3. FileInv'
      BY <1>0, <2>1, <2>2 DEF SpillInv, FileInv, TypeOK
    <2>4. seen' = Records(pendingLen)'
      <3>1. \A i \in 1..pendingLen : file'[i] = file[i]
        BY <1>0, <2>1, <2>2 DEF SpillInv, JobInv, TypeOK
      <3> QED
        BY <2>1, <3>1 DEF SpillInv, JobInv, Records
    <2>5. /\ pendingLen' <= Len(file')
          /\ \A i \in 1..pendingLen' : file'[i] \in Rows
      BY <1>0, <2>1, <2>2 DEF SpillInv, JobInv, TypeOK
    <2> QED
      BY <1>0, <2>1, <2>3, <2>4, <2>5 DEF SpillInv, JobInv, NothingBehind, SyncedFirst
  <1>5. CASE Sync
    BY <1>0, <1>5 DEF Sync, SpillInv, FileInv, JobInv, NothingBehind, SyncedFirst, Records,
       TypeOK, dlq
  <1>6. CASE WriteSyncedOffset \/ SyncFails
    <2>1. /\ pc \in {"sync", "sidecar"} /\ pc' \in {"advance", "close"}
          /\ sidecar' = sidecar \/ (pc = "sidecar" /\ sidecar' = pendingLen)
          /\ syncedLen' = syncedLen \/ (syncedLen' = pendingLen /\ sidecar' = pendingLen)
          /\ UNCHANGED <<file, flushed, seen, pendingLen>>
      BY <1>6 DEF WriteSyncedOffset, SyncFails, dlq
    <2>2. FileInv'
      BY <1>0, <2>1 DEF SpillInv, FileInv, JobInv, SyncedFirst, TypeOK
    <2>3. JobInv'
      BY <1>0, <2>1 DEF SpillInv, JobInv, TypeOK, Records
    <2> QED
      BY <1>0, <2>1, <2>2, <2>3 DEF SpillInv, NothingBehind, SyncedFirst
  <1>7. CASE Close \/ CloseFails \/ Crash
    <2>1. /\ Exit /\ file' = file /\ pc # "down"
          /\ \/ UNCHANGED <<sidecar, flushed>>
             \/ sidecar' \in {sidecar, pendingLen} /\ flushed' = Len(file)
      BY <1>7 DEF Close, CloseFails, Crash, disk
    <2>2. flushed' <= Len(file')
      BY <1>0, <2>1 DEF SpillInv, FileInv, TypeOK
    <2> QED
      BY <1>0, <2>1, <2>2, ExitSpill DEF TypeOK
  <1>8. CASE HostCrash
    <2>1. PICK n \in flushed..Len(file) :
             file' \in {SubSeq(file, 1, n), Append(SubSeq(file, 1, n), Garbage)}
      BY <1>8 DEF HostCrash
    <2>2. n \in Nat /\ n <= Len(file) /\ file \in Seq(Rows \cup {Garbage})
      BY <1>0, <2>1 DEF TypeOK
    <2>3. /\ SubSeq(file, 1, n) \in Seq(Rows \cup {Garbage})
          /\ Len(SubSeq(file, 1, n)) = n
          /\ \A i \in 1..n : SubSeq(file, 1, n)[i] = file[i]
      BY <2>2, Prefix
    <2>4. n <= Len(file') /\ \A i \in 1..n : file'[i] = file[i]
      BY <2>1, <2>2, <2>3
    <2>5. Exit /\ flushed' = Len(file') /\ sidecar' = sidecar
      BY <1>8 DEF HostCrash
    <2>6. flushed <= flushed' /\ flushed' <= Len(file')
          /\ (\A i \in 1..flushed : file'[i] = file[i])
      BY <1>0, <2>1, <2>2, <2>4, <2>5 DEF TypeOK
    <2> QED
      BY <1>0, <2>5, <2>6, ExitSpill
  <1> QED
    BY <1>1, <1>2, <1>3, <1>4, <1>5, <1>6, <1>7, <1>8 DEF Next, Run, Done

LEMMA SpillCorrect == Spec => []SpillInv
  BY SpillInit, SpillNext, PTL DEF Spec

\* Whatever fails and whenever, the spill file can be recovered.
THEOREM SpillAlwaysRecovers == Spec => []SpillRecovers
  <1>1. SpillInv => SpillRecovers
    BY DEF SpillInv, FileInv, SpillRecovers, Recoverable, TypeOK
  <1> QED
    BY <1>1, SpillCorrect, PTL
-----------------------------------------------------------------------------
(* The checkpoint.  The rows of a page that are not done yet are in memory; *)
(* when it is turned, all of them are in the index or in the part of the    *)
(* spill file that is on disk.                                              *)

Held == es \cup seen \cup toSpill \cup remaining

PageHeld ==
    pc \in {"write", "sync", "sidecar", "advance"} =>
        /\ table \in 1..Tables
        /\ \A r \in Rows : r[1] = table /\ checkpoint[table] < r[2] /\ r[2] <= last
                              => r \in Held

PageClosed ==
    pc \in {"sync", "sidecar", "advance"} => toSpill = {} /\ remaining = {}

PageSynced == pc = "advance" => pendingLen = syncedLen

Covered == \A r \in Rows : r[2] <= checkpoint[r[1]] => r \in es \cup Accounted

TablesDone ==
    pc \notin {"down", "close"} =>
        \A t \in 1..Tables : t < table => Len(Log[t]) <= checkpoint[t]

AllDone == pc = "done" => table > Tables

\* What cannot be read is not sent.
Readable == \A r \in remaining : Kind(r) # "unreadable"

CursorInv ==
    /\ SpillInv
    /\ PageHeld /\ PageClosed /\ PageSynced
    /\ Covered /\ TablesDone /\ AllDone
    /\ Readable

LEMMA AccountedRecords ==
    ASSUME SpillInv
    PROVE  Accounted = Records(sidecar) /\ Accounted \subseteq Rows
  <1>1. Lower(sidecar, Len(file)) = sidecar
    BY LowerNat DEF SpillInv, FileInv, TypeOK
  <1> QED
    BY <1>1 DEF Accounted, Records, SpillInv, FileInv

LEMMA SettledGrows ==
    ASSUME SpillInv, SpillInv', [Next]_vars
    PROVE  es \subseteq es' /\ Accounted \subseteq Accounted'
  <1>0. TypeOK
    BY DEF SpillInv
  <1>1. es \subseteq es'
    BY DEF Next, Run, Done, Open, ReadBatch, ReadPage, NextTable, Finish, Written, Advance,
       AdvanceFails, Write, WriteFails, BulkDocs, WriteMain, BulkFails, Sync,
       WriteSyncedOffset, SyncFails, Close, CloseFails, Stop, Crash, HostCrash, vars
  <1>2. sidecar <= sidecar'
    <2>1. sidecar' = sidecar \/ (pc \in {"sidecar", "close"} /\ sidecar' = pendingLen)
      BY DEF Next, Run, Done, Open, ReadBatch, ReadPage, NextTable, Finish, Written, Advance,
         AdvanceFails, Write, WriteFails, BulkDocs, WriteMain, BulkFails, Sync,
         WriteSyncedOffset, SyncFails, Close, CloseFails, Stop, Crash, HostCrash, vars, disk
    <2> QED
      BY <1>0, <2>1 DEF SpillInv, JobInv, TypeOK
  <1>3. \A i \in 1..sidecar : file'[i] = file[i]
    <2>1. /\ file \in Seq(Rows \cup {Garbage}) /\ sidecar \in Nat /\ flushed \in Nat
          /\ sidecar <= flushed /\ flushed <= Len(file)
      BY <1>0 DEF SpillInv, FileInv, TypeOK
    <2>2. CASE Open
      BY <2>1, <2>2, Prefix DEF Open
    <2>3. CASE \E r \in toSpill : Write(r) \/ WriteFails(r)
      <3>1. file' = file \/ (\E x \in Rows \cup {Garbage} : file' = Append(file, x))
        BY <1>0, <2>3 DEF Write, WriteFails, TypeOK
      <3> QED
        BY <2>1, <3>1
    <2>4. CASE HostCrash
      <3>1. PICK n \in flushed..Len(file) :
               file' \in {SubSeq(file, 1, n), Append(SubSeq(file, 1, n), Garbage)}
        BY <2>4 DEF HostCrash
      <3>2. n \in Nat /\ sidecar <= n /\ n <= Len(file)
        BY <2>1, <3>1
      <3>3. /\ SubSeq(file, 1, n) \in Seq(Rows \cup {Garbage})
            /\ Len(SubSeq(file, 1, n)) = n
            /\ \A i \in 1..n : SubSeq(file, 1, n)[i] = file[i]
        BY <2>1, <3>2, Prefix
      <3> QED
        BY <2>1, <3>1, <3>2, <3>3
    <2>5. CASE UNCHANGED file
      BY <2>5
    <2> QED
      BY <2>2, <2>3, <2>4, <2>5 DEF Next, Run, Done, ReadBatch, ReadPage, NextTable, Finish,
         Written, Advance, AdvanceFails, BulkDocs, WriteMain, BulkFails, Sync,
         WriteSyncedOffset, SyncFails, Close, CloseFails, Stop, Crash, vars, disk
  <1>4. Records(sidecar) \subseteq Records(sidecar)'
    <2>1. sidecar \in Nat /\ sidecar' \in Nat
      BY DEF SpillInv, TypeOK
    <2> QED
      BY <1>2, <1>3, <2>1 DEF Records
  <1>5. Accounted' = Records(sidecar)'
    <2>1. sidecar' <= Len(file') /\ sidecar' \in Nat /\ Len(file') \in Nat
      BY DEF SpillInv, FileInv, TypeOK
    <2>2. Lower(sidecar', Len(file')) = sidecar'
      BY <2>1, LowerNat
    <2> QED
      BY <2>2 DEF Accounted, Records
  <1> QED
    BY <1>1, <1>4, <1>5, AccountedRecords

\* When the page is turned all of it is settled.
LEMMA PageSettled ==
    ASSUME CursorInv, pc = "advance", NEW r \in Rows, r[1] = table, r[2] <= last
    PROVE  r \in es \cup Accounted
  <1>1. CASE r[2] <= checkpoint[table]
    BY <1>1 DEF CursorInv, Covered
  <1>2. CASE checkpoint[table] < r[2]
    <2>1. r \in es \cup seen
      BY <1>2 DEF CursorInv, PageHeld, PageClosed, Held
    <2>2. seen = Records(sidecar)
      BY DEF CursorInv, PageSynced, SpillInv, JobInv, TypeOK
    <2> QED
      BY <2>1, <2>2, AccountedRecords DEF CursorInv
  <1>3. r[2] \in Int /\ table \in 1..Tables /\ checkpoint[table] \in Int
    BY RowParts DEF CursorInv, SpillInv, TypeOK, PageHeld
  <1> QED
    BY <1>1, <1>2, <1>3

LEMMA CursorInit == Init => CursorInv
  <1> SUFFICES ASSUME Init PROVE CursorInv
    OBVIOUS
  <1>1. \A r \in Rows : ~(r[2] <= checkpoint[r[1]])
    <2> SUFFICES ASSUME NEW r \in Rows, r[2] <= checkpoint[r[1]] PROVE FALSE
      OBVIOUS
    <2>1. checkpoint[r[1]] = 0
      BY RowParts DEF Init
    <2> QED
      BY <2>1, RowParts
  <1> QED
    BY <1>1, SpillInit
       DEF Init, CursorInv, PageHeld, PageClosed, PageSynced, Covered, TablesDone, AllDone,
           Readable
\* An item that is called done is in the index.
LEMMA OkHasDocument ==
    ASSUME NEW kind \in Kinds \ {"unreadable"}, NEW a \in Answers(kind), a[1] = "ok"
    PROVE  a[2]
  <1>1. \A x \in BOOLEAN : <<"transient", x>>[1] # "ok" /\ <<"permanent", x>>[1] # "ok"
    OBVIOUS
  <1>2. CASE kind = "good"
    <2>1. a \in {<<"ok", TRUE>>, <<"transient", TRUE>>, <<"transient", FALSE>>}
      BY <1>2 DEF Answers
    <2>2. a = <<"ok", TRUE>>
      BY <1>1, <2>1
    <2> QED
      BY <2>2
  <1>3. CASE kind = "refused"
    <2>1. a \in {<<"permanent", FALSE>>, <<"transient", FALSE>>}
      BY <1>3 DEF Answers
    <2> QED
      BY <1>1, <2>1
  <1>4. CASE kind = "childRefused"
    <2>1. a \in {<<"permanent", TRUE>>, <<"transient", TRUE>>, <<"transient", FALSE>>}
      BY <1>4 DEF Answers
    <2> QED
      BY <1>1, <2>1
  <1> QED
    BY <1>2, <1>3, <1>4 DEF Kinds

LEMMA CursorNext == CursorInv /\ [Next]_vars => CursorInv'
  <1> SUFFICES ASSUME CursorInv, [Next]_vars PROVE CursorInv'
    OBVIOUS
  <1>0. /\ SpillInv /\ SpillInv' /\ TypeOK /\ TypeOK'
        /\ es \subseteq es' /\ Accounted \subseteq Accounted'
    <2>1. SpillInv /\ SpillInv'
      BY SpillNext DEF CursorInv
    <2> QED
      BY <2>1, SettledGrows DEF SpillInv
  <1>a. UNCHANGED checkpoint => Covered'
    BY <1>0 DEF CursorInv, Covered
  <1>b. Readable'
    <2>1. CASE ReadBatch
      BY <1>0, <2>1, PageRows DEF Readable
    <2>2. CASE remaining' \subseteq remaining
      BY <2>2 DEF CursorInv, Readable
    <2> QED
      BY <2>1, <2>2 DEF Next, Run, Done, Open, NextTable, Finish, Written, Advance,
         AdvanceFails, Write, WriteFails, BulkDocs, WriteMain, BulkFails, Sync,
         WriteSyncedOffset, SyncFails, Close, CloseFails, Stop, Crash, HostCrash, Exit,
         vars, page
  <1>1. CASE Open
    BY <1>0, <1>1, <1>a, <1>b DEF Open, CursorInv, PageHeld, PageClosed, PageSynced, TablesDone,
       AllDone, disk
  <1>2. CASE ReadBatch
    <2>1. /\ pc = "read" /\ pc' = "write" /\ table \in 1..Tables
          /\ UNCHANGED <<es, checkpoint, table, seen>>
      BY <1>0, <1>2, BackfillAssumption DEF ReadBatch, ReadPage, TypeOK, disk, dlq
    <2>2. /\ last' \in Nat
          /\ toSpill' \cup remaining' = {table} \X ((checkpoint[table] + 1)..last')
      BY <1>0, <1>2, PageRows
    <2>3. ASSUME NEW r \in Rows, r[1] = table, checkpoint[table] < r[2], r[2] <= last'
          PROVE  r \in toSpill' \cup remaining'
      <3>1. r = <<table, r[2]>> /\ r[2] \in Int /\ checkpoint[table] \in Nat
        BY <1>0, <2>1, <2>3, RowParts DEF TypeOK
      <3>2. r[2] \in (checkpoint[table] + 1)..last'
        BY <2>2, <2>3, <3>1
      <3> QED
        BY <2>2, <3>1, <3>2
    <2>4. PageHeld'
      BY <2>1, <2>3 DEF PageHeld, Held
    <2> QED
      BY <1>0, <1>a, <1>b, <2>1, <2>4 DEF CursorInv, PageClosed, PageSynced, TablesDone, AllDone
  <1>3. CASE NextTable
    <2>1. /\ pc = "read" /\ pc' = "read" /\ table' = table + 1 /\ checkpoint' = checkpoint
          /\ Len(Log[table]) <= checkpoint[table]
      <3>1. table \in 1..Tables
        BY <1>0, <1>3, BackfillAssumption DEF NextTable, TypeOK
      <3>2. Len(Log[table]) \in Nat /\ checkpoint[table] \in Nat
        <4>1. Log[table] \in Seq(Kinds)
          BY <3>1, BackfillAssumption
        <4> QED
          BY <1>0, <3>1, <4>1 DEF TypeOK
      <3> QED
        BY <1>3, <3>2 DEF NextTable, disk
    <2>2. TablesDone'
      BY <1>0, <2>1 DEF CursorInv, TablesDone, TypeOK
    <2> QED
      BY <1>0, <1>a, <1>b, <2>1, <2>2 DEF CursorInv, PageHeld, PageClosed, PageSynced, AllDone
  <1>4. CASE Finish
    BY <1>0, <1>4, <1>a, <1>b, BackfillAssumption DEF Finish, CursorInv, PageHeld, PageClosed,
       PageSynced, TablesDone, AllDone, disk, TypeOK
  <1>5. CASE Written
    BY <1>0, <1>5, <1>a, <1>b DEF Written, CursorInv, PageHeld, PageClosed, PageSynced, TablesDone,
       AllDone, disk, page, dlq, Held
  <1>6. CASE Advance \/ AdvanceFails
    <2>1. /\ pc = "advance" /\ table \in 1..Tables /\ last \in Nat
          /\ checkpoint \in [1..Tables -> Nat]
          /\ UNCHANGED <<es, file, sidecar, table>>
      BY <1>0, <1>6 DEF Advance, AdvanceFails, CursorInv, PageHeld, TypeOK
    <2>2. /\ \A t \in 1..Tables \ {table} : checkpoint'[t] = checkpoint[t]
          /\ checkpoint'[table] \in {checkpoint[table], last}
      BY <1>6, <2>1 DEF Advance, AdvanceFails
    <2>3. Covered'
      <3> SUFFICES ASSUME NEW r \in Rows, r[2] <= checkpoint'[r[1]]
                   PROVE  r \in es' \cup Accounted'
        BY DEF Covered
      <3>1. r[1] \in 1..Tables
        BY RowParts
      <3>2. CASE r[2] <= checkpoint[r[1]]
        BY <1>0, <3>2 DEF CursorInv, Covered
      <3>3. CASE r[1] = table /\ r[2] <= last
        BY <1>0, <2>1, <3>3, PageSettled
      <3> QED
        BY <2>2, <3>1, <3>2, <3>3
    <2>4. TablesDone'
      <3>1. CASE Advance
        <4>1. checkpoint[table] <= checkpoint'[table]
          BY <2>1, <3>1 DEF Advance
        <4>2. \A t \in 1..Tables : t < table => t # table
          BY <1>0 DEF TypeOK
        <4> QED
          BY <2>1, <2>2, <4>2 DEF CursorInv, TablesDone
      <3>2. CASE AdvanceFails
        BY <3>2 DEF AdvanceFails, TablesDone
      <3> QED
        BY <1>6, <3>1, <3>2
    <2> QED
      BY <1>0, <1>6, <1>b, <2>3, <2>4 DEF Advance, AdvanceFails, CursorInv, PageHeld, PageClosed,
         PageSynced, AllDone
  <1>7. ASSUME NEW r \in toSpill, Write(r) PROVE CursorInv'
    <2>1. Held \subseteq Held'
      BY <1>7 DEF Write, Held
    <2> QED
      BY <1>0, <1>7, <1>a, <1>b, <2>1 DEF Write, CursorInv, PageHeld, PageClosed, PageSynced,
         TablesDone, AllDone
  <1>8. CASE BulkDocs
    <2>1. PICK answer \in [remaining -> AllAnswers] : WriteMain(answer)
      BY <1>8 DEF BulkDocs
    <2>2. Held \subseteq Held'
      <3>1. ASSUME NEW r \in remaining PROVE r \in es' \cup toSpill' \cup remaining'
        <4>1. answer[r] \in Answers(Kind(r)) /\ Kind(r) \in Kinds \ {"unreadable"}
          BY <1>0, <2>1, RowParts DEF WriteMain, TypeOK, CursorInv, Readable
        <4>2. answer[r][1] = "ok" => answer[r][2]
          BY <1>8, <2>1, <4>1, OkHasDocument
        <4> QED
          BY <2>1, <4>2 DEF WriteMain
      <3>2. toSpill = {} /\ es \subseteq es' /\ seen' = seen
        BY <2>1 DEF WriteMain, dlq
      <3> QED
        BY <3>1, <3>2 DEF Held
    <2>3. pc = "write" /\ pc' = "write" /\ UNCHANGED <<checkpoint, table, last>>
      BY <2>1 DEF WriteMain, disk
    <2> QED
      BY <1>0, <1>a, <1>b, <2>2, <2>3 DEF CursorInv, PageHeld, PageClosed, PageSynced,
         TablesDone, AllDone
  <1>9. CASE BulkFails
    <2>1. Held \subseteq Held'
      BY <1>9 DEF BulkFails, Held, page, dlq
    <2> QED
      BY <1>0, <1>9, <1>a, <1>b, <2>1 DEF BulkFails, CursorInv, PageHeld, PageClosed, PageSynced,
         TablesDone, AllDone, disk, page
  <1>10. CASE Sync
    BY <1>0, <1>10, <1>a, <1>b DEF Sync, CursorInv, PageHeld, PageClosed, PageSynced, TablesDone,
       AllDone, page, dlq, Held
  <1>11. CASE WriteSyncedOffset
    BY <1>0, <1>11, <1>a, <1>b DEF WriteSyncedOffset, CursorInv, PageHeld, PageClosed, PageSynced,
       TablesDone, AllDone, page, Held
  <1>12. CASE \/ SyncFails \/ Stop \/ Close \/ CloseFails \/ Crash \/ HostCrash
              \/ \E r \in toSpill : WriteFails(r)
    <2>1. pc' \in {"down", "close"} /\ checkpoint' = checkpoint
      BY <1>12 DEF SyncFails, Stop, Close, CloseFails, Crash, HostCrash, WriteFails, Exit, disk
    <2> QED
      BY <1>0, <1>a, <1>b, <2>1 DEF CursorInv, PageHeld, PageClosed, PageSynced, TablesDone, AllDone
  <1>13. CASE UNCHANGED vars
    BY <1>0, <1>13, <1>a, <1>b DEF vars, CursorInv, PageHeld, PageClosed, PageSynced, TablesDone,
       AllDone, Held
  <1> QED
    BY <1>1, <1>2, <1>3, <1>4, <1>5, <1>6, <1>7, <1>8, <1>9, <1>10, <1>11, <1>12, <1>13
       DEF Next, Run, Done

LEMMA CursorCorrect == Spec => []CursorInv
  BY CursorInit, CursorNext, PTL DEF Spec

LEMMA PromiseStep ==
    CursorInv /\ CursorInv' /\ [Next]_vars => [Promise!Next]_(Promise!vars)
  <1> SUFFICES ASSUME CursorInv, CursorInv', [Next]_vars
               PROVE  Promise!Next \/ UNCHANGED <<es \cup Accounted, checkpoint>>
    BY DEF Promise!vars
  <1>0. /\ SpillInv /\ SpillInv' /\ TypeOK /\ TypeOK'
        /\ es \subseteq es' /\ Accounted \subseteq Accounted'
        /\ (es \cup Accounted)' \subseteq Rows
    <2>1. SpillInv /\ SpillInv'
      BY DEF CursorInv
    <2>2. Accounted' \subseteq Rows
      <3>1. sidecar' <= Len(file') /\ sidecar' \in Nat /\ Len(file') \in Nat
        BY <2>1 DEF SpillInv, FileInv, TypeOK
      <3>2. Lower(sidecar', Len(file')) = sidecar'
        BY <3>1, LowerNat
      <3> QED
        BY <2>1, <3>2 DEF Accounted, SpillInv, FileInv
    <2> QED
      BY <2>1, <2>2, SettledGrows DEF SpillInv, TypeOK
  <1>1. CASE UNCHANGED checkpoint
    BY <1>0, <1>1 DEF Promise!Next, Promise!Settle
  <1>2. CASE Advance \/ AdvanceFails
    <2>1. /\ table \in 1..Tables /\ last \in Nat /\ checkpoint \in [1..Tables -> Nat]
          /\ UNCHANGED <<es, file, sidecar>>
      BY <1>0, <1>2 DEF Advance, AdvanceFails, CursorInv, PageHeld, TypeOK
    <2>2. /\ checkpoint'[table] \in Nat
          /\ checkpoint' = [checkpoint EXCEPT ![table] = checkpoint'[table]]
      BY <1>2, <2>1 DEF Advance, AdvanceFails
    <2>3. UNCHANGED (es \cup Accounted)
      BY <2>1 DEF Accounted
    <2>4. Promise!Covers(table, checkpoint'[table]) \subseteq es \cup Accounted
      BY <2>3 DEF CursorInv, Covered, Promise!Covers
    <2> QED
      BY <2>1, <2>2, <2>3, <2>4 DEF Promise!Next, Promise!Advance
  <1> QED
    BY <1>1, <1>2 DEF Next, Run, Done, Open, ReadBatch, ReadPage, NextTable, Finish, Written,
       Write, WriteFails, BulkDocs, WriteMain, BulkFails, Sync, WriteSyncedOffset, SyncFails,
       Close, CloseFails, Stop, Crash, HostCrash, vars, disk

\* Every behaviour of the job, its failures included, is one the at-least-once
\* promise allows, with the checkpoint as resume point.
THEOREM BackfillKeepsPromise == Spec => ImplementsAtLeastOnce
  <1>1. ImplementsAtLeastOnce <=> Promise!Init /\ [][Promise!Next]_(Promise!vars)
    BY DEF ImplementsAtLeastOnce, Promise!Spec
  <1>2. Init => Promise!Init
    BY DEF Init, Promise!Init, Accounted, Lower
  <1>3. CursorInv /\ CursorInv' /\ [Next]_vars => [Promise!Next]_(Promise!vars)
    BY PromiseStep
  <1> QED
    BY <1>1, <1>2, <1>3, CursorCorrect, PTL DEF Spec
-----------------------------------------------------------------------------
(* The count gate.  Where the index takes a row with all its children or    *)
(* not at all, no row is both in the index and in the spill file.           *)

WholeRows == \A r \in Rows : Kind(r) # "childRefused"

DeadLetter(r) == Kind(r) \in {"unreadable", "refused"}

Apart ==
    /\ \A r \in es : Kind(r) = "good"
    /\ \A r \in toSpill : DeadLetter(r)
    /\ \A i \in 1..Len(file) : file[i] \in Rows => DeadLetter(file[i])

LEMMA GarbageNoRow == Garbage \notin Rows
  <1> SUFFICES ASSUME Garbage \in Rows PROVE FALSE
    OBVIOUS
  <1>1. Garbage[1] \in 1..Tables
    BY RowParts
  <1> QED
    BY <1>1, BackfillAssumption DEF Garbage

\* A row that is refused for good is one the index does not have.
LEMMA PermanentIsRefused ==
    ASSUME NEW kind \in {"good", "refused"}, NEW a \in Answers(kind)
    PROVE  /\ a[1] = "permanent" => kind = "refused"
           /\ a[2] => kind = "good"
  <1>1. CASE kind = "good"
    <2>1. a \in {<<"ok", TRUE>>, <<"transient", TRUE>>, <<"transient", FALSE>>}
      BY <1>1 DEF Answers
    <2>2. a[1] # "permanent"
      <3>1. \A x \in BOOLEAN : <<"transient", x>>[1] # "permanent" /\ <<"ok", x>>[1] # "permanent"
        OBVIOUS
      <3> QED
        BY <2>1, <3>1
    <2> QED
      BY <1>1, <2>2
  <1>2. CASE kind = "refused"
    <2>1. a \in {<<"permanent", FALSE>>, <<"transient", FALSE>>}
      BY <1>2 DEF Answers
    <2>2. ~a[2]
      <3>1. ~(<<"permanent", FALSE>>[2]) /\ ~(<<"transient", FALSE>>[2])
        OBVIOUS
      <3> QED
        BY <2>1, <3>1
    <2> QED
      BY <1>2, <2>2
  <1> QED
    BY <1>1, <1>2

LEMMA ApartNext ==
    ASSUME WholeRows, CursorInv, Apart, [Next]_vars
    PROVE  Apart'
  <1>0. TypeOK /\ TypeOK' /\ SpillInv /\ Readable /\ Garbage \notin Rows
        /\ file \in Seq(Rows \cup {Garbage})
    <2>1. TypeOK'
      BY TypeNext DEF CursorInv, SpillInv
    <2> QED
      BY <2>1, GarbageNoRow DEF CursorInv, SpillInv, TypeOK
  <1>1. CASE \/ NextTable \/ Finish \/ Written \/ Advance \/ AdvanceFails \/ Sync
             \/ WriteSyncedOffset \/ SyncFails \/ Stop \/ UNCHANGED vars
    <2>1. UNCHANGED <<es, toSpill, file>>
      BY <1>1 DEF NextTable, Finish, Written, Advance, AdvanceFails, Sync,
         WriteSyncedOffset, SyncFails, Stop, vars, disk, page
    <2> QED
      BY <2>1 DEF Apart, DeadLetter
  <1>2. CASE Close \/ CloseFails \/ Crash
    <2>1. UNCHANGED <<es, file>> /\ toSpill' = {}
      BY <1>2 DEF Close, CloseFails, Crash, Exit, disk
    <2> QED
      BY <2>1 DEF Apart, DeadLetter
  <1>3. CASE Open
    <2>1. /\ Len(file') = sidecar /\ sidecar <= Len(file) /\ sidecar \in Nat
          /\ \A i \in 1..sidecar : file'[i] = file[i]
      BY <1>0, <1>3, Prefix DEF Open, Recoverable, TypeOK
    <2>2. UNCHANGED <<es, toSpill>>
      BY <1>3 DEF Open, page
    <2> QED
      BY <1>0, <2>1, <2>2 DEF Apart, DeadLetter
  <1>4. CASE ReadBatch
    <2>1. UNCHANGED <<es, file>>
      BY <1>4 DEF ReadBatch, ReadPage, disk
    <2> QED
      BY <1>0, <1>4, <2>1, PageRows DEF Apart, DeadLetter
  <1>5. ASSUME NEW r \in toSpill, Write(r) \/ WriteFails(r) PROVE Apart'
    <2>1. /\ es' = es /\ toSpill' \subseteq toSpill /\ DeadLetter(r)
          /\ file' = file \/ file' = Append(file, r) \/ file' = Append(file, Garbage)
      BY <1>5 DEF Write, WriteFails, Apart, page
    <2>2. \A i \in 1..Len(file') : \/ i \in 1..Len(file) /\ file'[i] = file[i]
                                   \/ file'[i] = r \/ file'[i] = Garbage
      BY <1>0, <2>1
    <2> QED
      BY <1>0, <2>1, <2>2 DEF Apart, DeadLetter
  <1>6. CASE BulkDocs
    <2>1. PICK answer \in [remaining -> AllAnswers] : WriteMain(answer)
      BY <1>6 DEF BulkDocs
    <2>2. ASSUME NEW r \in remaining
          PROVE  /\ answer[r][1] = "permanent" => Kind(r) = "refused"
                 /\ answer[r][2] => Kind(r) = "good"
      <3>1. answer[r] \in Answers(Kind(r))
        BY <2>1 DEF WriteMain
      <3>2. Kind(r) \in {"good", "refused"}
        BY <1>0, RowParts DEF WholeRows, Readable, TypeOK, Kinds
      <3> QED
        BY <3>1, <3>2, PermanentIsRefused
    <2>3. /\ es' = es \cup {r \in remaining : answer[r][2]}
          /\ toSpill' = {r \in remaining : answer[r][1] = "permanent"}
          /\ file' = file
      BY <2>1 DEF WriteMain, Permanent, disk
    <2> QED
      BY <2>2, <2>3 DEF Apart, DeadLetter
  <1>7. CASE BulkFails
    <2>1. PICK written \in SUBSET remaining :
             (\A r \in written : Kind(r) # "refused") /\ es' = es \cup written
      BY <1>7 DEF BulkFails
    <2>2. \A r \in written : Kind(r) = "good"
      BY <1>0, <2>1, RowParts DEF WholeRows, Readable, TypeOK, Kinds
    <2>3. UNCHANGED <<file, toSpill>>
      BY <1>7 DEF BulkFails, disk, page
    <2> QED
      BY <2>1, <2>2, <2>3 DEF Apart, DeadLetter
  <1>8. CASE HostCrash
    <2>1. es' = es /\ toSpill' = {}
      BY <1>8 DEF HostCrash, Exit
    <2>2. PICK n \in flushed..Len(file) :
             file' \in {SubSeq(file, 1, n), Append(SubSeq(file, 1, n), Garbage)}
      BY <1>8 DEF HostCrash
    <2>3. n \in Nat /\ n <= Len(file)
      BY <1>0, <2>2 DEF TypeOK
    <2>4. /\ SubSeq(file, 1, n) \in Seq(Rows \cup {Garbage})
          /\ Len(SubSeq(file, 1, n)) = n
          /\ \A i \in 1..n : SubSeq(file, 1, n)[i] = file[i]
      BY <1>0, <2>3, Prefix
    <2>5. \A i \in 1..Len(file') : \/ i \in 1..Len(file) /\ file'[i] = file[i]
                                   \/ file'[i] = Garbage
      BY <2>2, <2>3, <2>4
    <2> QED
      BY <1>0, <2>1, <2>5 DEF Apart, DeadLetter
  <1> QED
    BY <1>1, <1>2, <1>3, <1>4, <1>5, <1>6, <1>7, <1>8 DEF Next, Run, Done

LEMMA RowsFinite == IsFiniteSet(Rows)
  <1> DEFINE T == {{t} \X (1..Len(Log[t])) : t \in 1..Tables}
  <1>1. IsFiniteSet(1..Tables)
    BY FS_Interval, BackfillAssumption
  <1>2. \A t \in 1..Tables : IsFiniteSet({t} \X (1..Len(Log[t])))
    <2> SUFFICES ASSUME NEW t \in 1..Tables PROVE IsFiniteSet({t} \X (1..Len(Log[t])))
      OBVIOUS
    <2>1. Len(Log[t]) \in Nat
      BY BackfillAssumption
    <2>2. IsFiniteSet(1..Len(Log[t]))
      BY <2>1, FS_Interval
    <2>3. IsFiniteSet({t})
      BY FS_Singleton, Zenon
    <2> QED
      BY <2>2, <2>3, FS_Product
  <1>3. IsFiniteSet(T)
    <2> DEFINE f == [t \in 1..Tables |-> {t} \X (1..Len(Log[t]))]
    <2>1. f \in Surjection(1..Tables, T)
      BY DEF Surjection
    <2> QED
      BY <1>1, <2>1, FS_Surjection
  <1>4. IsFiniteSet(UNION T)
    BY <1>2, <1>3, FS_UNION
  <1> QED
    BY <1>4 DEF Rows

LEMMA Balanced == CursorInv /\ Apart => GateBalances
  <1> SUFFICES ASSUME CursorInv, Apart, pc = "done" PROVE Validate /\ Reconcile = 0
    BY DEF GateBalances
  <1>1. es \subseteq Rows /\ seen \subseteq Rows
    BY DEF CursorInv, SpillInv, TypeOK
  <1>2. seen = Records(pendingLen) /\ sidecar <= pendingLen /\ pendingLen <= Len(file)
        /\ sidecar \in Nat /\ pendingLen \in Nat /\ Len(file) \in Nat
    BY DEF CursorInv, SpillInv, JobInv, TypeOK
  <1>3. Rows \subseteq es \cup seen
    <2> SUFFICES ASSUME NEW r \in Rows PROVE r \in es \cup seen
      OBVIOUS
    <2>1. r[1] \in 1..Tables /\ r[2] <= Len(Log[r[1]]) /\ r[2] \in Int
          /\ Len(Log[r[1]]) \in Nat
      BY RowParts
    <2>2. r[1] < table /\ checkpoint[r[1]] \in Nat
      BY <2>1, BackfillAssumption DEF CursorInv, AllDone, SpillInv, TypeOK
    <2>3. r[2] <= checkpoint[r[1]]
      BY <2>1, <2>2 DEF CursorInv, TablesDone
    <2>4. r \in es \cup Records(sidecar)
      BY <2>3, AccountedRecords DEF CursorInv, Covered
    <2> QED
      BY <1>2, <2>4 DEF Records
  <1>4. es \cap seen = {}
    BY <1>1, <1>2 DEF Apart, DeadLetter, Records
  <1>5. /\ IsFiniteSet(Rows) /\ IsFiniteSet(es) /\ IsFiniteSet(seen)
        /\ Cardinality(seen) <= Cardinality(Rows)
    BY <1>1, RowsFinite, FS_Subset
  <1>6. Cardinality(Rows) = Cardinality(es) + Cardinality(seen)
    <2>1. Rows = es \cup seen
      BY <1>1, <1>3
    <2>2. Cardinality(es \cap seen) = 0
      BY <1>4, FS_EmptySet
    <2>3. Cardinality(es \cup seen)
            = Cardinality(es) + Cardinality(seen) - Cardinality(es \cap seen)
      BY <1>5, FS_Union
    <2>4. Cardinality(es) \in Nat /\ Cardinality(seen) \in Nat
      BY <1>5, FS_CardinalityType
    <2> QED
      BY <2>1, <2>2, <2>3, <2>4
  <1>7. Cardinality(es) \in Nat /\ Cardinality(seen) \in Nat
    BY <1>5, FS_CardinalityType
  <1> QED
    BY <1>5, <1>6, <1>7 DEF Validate, Reconcile, CountRows, CountDocs, CountInWindow

\* If no virtual child is refused alone, the count gate of every finished job is
\* balanced, however often the job was interrupted.
THEOREM GateIsBalanced ==
    ASSUME WholeRows
    PROVE  Spec => []GateBalances
  <1>1. Init => Apart
    BY DEF Init, Apart
  <1>2. CursorInv /\ Apart /\ [Next]_vars => Apart'
    BY ApartNext
  <1> QED
    BY <1>1, <1>2, Balanced, CursorCorrect, PTL DEF Spec
=============================================================================
