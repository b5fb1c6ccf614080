--------------------------- MODULE ReconcileProofs ---------------------------
(***************************************************************************)
(* What the two routes write and what the gate's verdict is worth, for all *)
(* rows, tables, sample sizes, histories and failures.                     *)
(***************************************************************************)
EXTENDS Reconcile, FiniteSetTheorems, TLAPS

AllRows == RowsOf(Nat \ {0})

-----------------------------------------------------------------------------
(* Documents *)

\* A document and its children have the sequence number, the space and the
\* visibility of their message.
LEMMA DocumentParts ==
    ASSUME NEW row \in AllRows, NEW msg
    PROVE  LET docs == DocFromMessage(row, msg)
           IN /\ 0 \in DOMAIN docs /\ DOMAIN docs \subseteq 0..2
              /\ \A sub \in DOMAIN docs :
                    /\ docs[sub].seq = msg.seq
                    /\ docs[sub].space = msg.space
                    /\ docs[sub].visibles = msg.visibles
                    /\ docs[sub].virtual <=> sub # 0
  <1>1. richTextDerivatives(row) \subseteq 1..2
    BY DEF richTextDerivatives, AllRows, RowsOf
  <1> QED
    BY <1>1 DEF DocFromMessage, deriveChild

LEMMA OwnDocument ==
    ASSUME NEW row, NEW msg
    PROVE  /\ 0 \in DOMAIN DocFromMessage(row, msg)
           /\ ~DocFromMessage(row, msg)[0].virtual
  BY DEF DocFromMessage

MessageType ==
    [raw : BOOLEAN, rawExcluded : BOOLEAN, space : {"space", ""},
     visibles : SUBSET {"name"}, seq : Nat]

LEMMA ExtractedType ==
    ASSUME NEW row \in AllRows
    PROVE  Extracted(row) \in MessageType
  <1>1. row.seq \in Nat
    BY DEF AllRows, RowsOf
  <1>2. Space(row) \in {"space", ""} /\ Names(row) \in SUBSET {"name"}
    BY DEF Space, Names
  <1>3. Encrypted(row) \in MessageType
    BY <1>1 DEF Encrypted, MessageType
  <1> QED
    BY <1>1, <1>2, <1>3 DEF Extracted, MessageType

\* Writing into a message what it already says.
LEMMA SameMessage ==
    ASSUME NEW msg \in MessageType, NEW v, NEW w
    PROVE  /\ msg.raw = v => [msg EXCEPT !.raw = v] = msg
           /\ msg.space = v /\ msg.visibles = w =>
                  [msg EXCEPT !.space = v, !.visibles = w] = msg
  BY DEF MessageType

\* On its way to the es-indexer a message that keeps its raw payload does not
\* change.
LEMMA LiveAgrees ==
    ASSUME NEW row \in AllRows, row.size = "fits" \/ row.signal
    PROVE  LiveDocs(row) = docFromRow(row)
  <1>1. row.signal \in BOOLEAN
    BY DEF AllRows, RowsOf
  <1>2. CASE row.signal
    <2>1. Extracted(row) = Encrypted(row)
      BY <1>2 DEF Extracted
    <2>2. [Extracted(row) EXCEPT !.raw = FALSE] = Extracted(row)
      <3>1. Extracted(row).raw = FALSE
        BY <1>2, ExtractedType DEF Extracted, Encrypted, MessageType
      <3> QED
        BY <3>1, ExtractedType, SameMessage
    <2>3. Produced(row) = Extracted(row) /\ ~Produced(row).raw
      BY <2>1, <2>2 DEF Produced, degradeIfOversized, Encrypted
    <2> QED
      BY <2>3 DEF Prechecked, LiveDocs, docFromRow
  <1>3. CASE ~row.signal
    <2>1. Produced(row) = Extracted(row)
      BY <1>3 DEF Produced, degradeIfOversized
    <2>2. Prechecked(row, Extracted(row)) = Extracted(row)
      <3>1. Extracted(row).space = Space(row) /\ Extracted(row).visibles = Names(row)
        BY <1>3 DEF Extracted
      <3>2. [Extracted(row) EXCEPT !.space = Space(row), !.visibles = Names(row)]
                = Extracted(row)
        BY <3>1, ExtractedType, SameMessage
      <3> QED
        BY <3>2 DEF Prechecked
    <2> QED
      BY <2>1, <2>2 DEF LiveDocs, docFromRow
  <1> QED
    BY <1>1, <1>2, <1>3

\* What both routes make of the fields the access rules go by.
Kept(row, doc) ==
    /\ doc.seq = row.seq
    /\ ~row.signal => doc.visibles = Names(row) /\ doc.space = Space(row)

LEMMA LiveKeeps ==
    ASSUME NEW row \in AllRows, NEW sub \in DOMAIN LiveDocs(row)
    PROVE  Kept(row, LiveDocs(row)[sub])
  <1> DEFINE msg == Prechecked(row, Produced(row))
  <1>1. row.signal \in BOOLEAN
    BY DEF AllRows, RowsOf
  <1>2. msg.seq = row.seq
    BY <1>1 DEF Prechecked, Produced, degradeIfOversized, Extracted, Encrypted
  <1>3. ~row.signal => msg.visibles = Names(row) /\ msg.space = Space(row)
    BY DEF Prechecked, Produced, degradeIfOversized, Extracted
  <1>4. LiveDocs(row) = DocFromMessage(row, msg)
    BY DEF LiveDocs
  <1> HIDE DEF msg
  <1>5. /\ LiveDocs(row)[sub].seq = msg.seq
        /\ LiveDocs(row)[sub].space = msg.space
        /\ LiveDocs(row)[sub].visibles = msg.visibles
    BY <1>4, DocumentParts
  <1> QED
    BY <1>2, <1>3, <1>5 DEF Kept

LEMMA RowKeeps ==
    ASSUME NEW row \in AllRows, NEW sub \in DOMAIN docFromRow(row)
    PROVE  Kept(row, docFromRow(row)[sub])
  <1>1. Extracted(row).seq = row.seq
    BY DEF Extracted, Encrypted
  <1>2. ~row.signal => /\ Extracted(row).visibles = Names(row)
                       /\ Extracted(row).space = Space(row)
    BY DEF Extracted
  <1> DEFINE msg == Extracted(row)
  <1>3. docFromRow(row) = DocFromMessage(row, msg)
    BY DEF docFromRow
  <1> HIDE DEF msg
  <1>4. /\ docFromRow(row)[sub].seq = msg.seq
        /\ docFromRow(row)[sub].space = msg.space
        /\ docFromRow(row)[sub].visibles = msg.visibles
    BY <1>3, DocumentParts
  <1> QED
    BY <1>1, <1>2, <1>4 DEF Kept, msg

\* compareRow sees whether a document is right: also a payload that is no object
\* is read alike, as it has no fields.
Plain(row) ==
    row.shape # "object" => row.visibles = "absent" /\ row.space = "odd"

LEMMA CompareIsKept ==
    ASSUME NEW row \in AllRows, NEW doc, Plain(row)
    PROVE  compareRow(row, doc) <=> Kept(row, doc)
  <1>1. row.signal \in BOOLEAN
    BY DEF AllRows, RowsOf
  <1>2. parsePayloadVisibility(row) =
            [space |-> Space(row), visibles |-> Names(row)]
    BY DEF Plain, parsePayloadVisibility, Space, Names
  <1>3. parsePayloadVisibility(row) = [space |-> doc.space, visibles |-> doc.visibles]
            <=> Space(row) = doc.space /\ Names(row) = doc.visibles
    <2> DEFINE n == Names(row)
               p == Space(row)
    <2>1. ASSUME [space |-> p, visibles |-> n] =
                     [space |-> doc.space, visibles |-> doc.visibles]
          PROVE  p = doc.space /\ n = doc.visibles
      <3> HIDE DEF n, p
      <3> QED
        BY <2>1
    <2> QED
      BY <1>2, <2>1
  <1> QED
    BY <1>1, <1>3 DEF compareRow, Kept

-----------------------------------------------------------------------------
(* Rows and samples *)

\* The ids are finitely many numbers, and every row is one of AllRows.
LEMMA IdFacts ==
    /\ Ids \subseteq Nat \ {0} /\ IsFiniteSet(Ids)
    /\ \A c \in Contents, r \in Ids : c[r] \in AllRows /\ Plain(c[r])
  <1>1. IsFiniteSet(Ids) /\ Cardinality(Ids) \in Nat
    BY ReconcileAssumption, FS_CardinalityType
  <1>2. Ids \subseteq Nat \ {0}
    BY <1>1, ReconcileAssumption
  <1> QED
    BY <1>1, <1>2, ReconcileAssumption DEF AllRows, Plain

LEMMA Finite ==
    ASSUME NEW ids \in SUBSET Ids
    PROVE  IsFiniteSet(ids) /\ Cardinality(ids) \in Nat
  BY IdFacts, FS_Subset, FS_CardinalityType

\* How many of a set of ids come before r.
Before(r, ids) == Cardinality({q \in ids : q < r})

LEMMA BeforeGrows ==
    ASSUME NEW a \in SUBSET Ids, NEW b \in SUBSET Ids, NEW r \in Ids,
           \A q \in a : q < r => q \in b
    PROVE  Before(r, a) <= Before(r, b)
  <1>1. {q \in b : q < r} \in SUBSET Ids
    OBVIOUS
  <1>2. {q \in a : q < r} \subseteq {q \in b : q < r}
    OBVIOUS
  <1> QED
    BY <1>1, <1>2, Finite, FS_Subset DEF Before

LEMMA FirstMembers ==
    ASSUME NEW n \in Nat, NEW ids \in SUBSET Ids
    PROVE  First(n, ids) = {r \in ids : Before(r, ids) < n}
  BY DEF First, Before

\* First(n, ids) has at most n members: their ranks differ.
LEMMA FirstBound ==
    ASSUME NEW n \in Nat, NEW ids \in SUBSET Ids
    PROVE  Cardinality(First(n, ids)) <= n
  <1> DEFINE s == First(n, ids)
             rank == [r \in s |-> Before(r, ids)]
  <1>0. s \subseteq ids /\ s \subseteq Nat
    BY IdFacts DEF First
  <1>1. \A r \in s : rank[r] \in 0..(n-1)
    <2> SUFFICES ASSUME NEW r \in s PROVE rank[r] \in 0..(n-1)
      OBVIOUS
    <2>1. {q \in ids : q < r} \in SUBSET Ids
      OBVIOUS
    <2> QED
      BY <2>1, Finite, FirstMembers DEF Before
  <1>2. ASSUME NEW a \in s, NEW b \in s, a < b PROVE rank[a] # rank[b]
    <2> DEFINE A == {q \in ids : q < a}
               B == {q \in ids : q < b}
    <2>0. \A q \in ids : q \in Nat
      BY IdFacts
    <2>1. A \in SUBSET Ids /\ B \in SUBSET Ids /\ A \subseteq B
      BY <1>0, <1>2, <2>0
    <2>2. a \in B /\ a \notin A
      BY <1>0, <1>2
    <2>3. Cardinality(A) # Cardinality(B)
      BY <2>1, <2>2, Finite, FS_Subset
    <2> QED
      BY <2>3 DEF Before
  <1>3. \A a, b \in s : rank[a] = rank[b] => a = b
    BY <1>0, <1>2
  <1>4. rank \in Injection(s, 0..(n-1))
    <2> HIDE DEF s
    <2> QED
      BY <1>1, <1>3 DEF Injection, IsInjective
  <1>5. IsFiniteSet(0..(n-1)) /\ Cardinality(0..(n-1)) = n
    BY FS_Interval
  <1> QED
    BY <1>4, <1>5, FS_Injection

-----------------------------------------------------------------------------
(* Types *)

LEMMA RowsTyped ==
    ASSUME TypeOK
    PROVE  /\ \A r \in Ids : content[r] \in AllRows /\ Plain(content[r])
           /\ IsFiniteSet(rows) /\ Cardinality(rows) \in Nat
           /\ IsFiniteSet(spill) /\ Cardinality(spill) \in Nat
           /\ IsFiniteSet(excluded) /\ Cardinality(excluded) \in Nat
           /\ limit \in Nat
           /\ rows \in SUBSET Ids /\ spill \in SUBSET Ids /\ excluded \in SUBSET Ids
  BY IdFacts, Finite, ReconcileAssumption DEF TypeOK

\* Only what a query asks for in the phases of the gate is in memory.
SampleShape == pc # "fetch" => sample = {}

TypeInv == TypeOK /\ SampleShape

LEMMA ZeroSample ==
    ASSUME limit \in Limits
    PROVE  Cardinality({}) <= limit
  BY ReconcileAssumption, FS_EmptySet

LEMMA TypeInit ==
    ASSUME Init
    PROVE  TypeInv
  <1>1. content \in Contents /\ rows \subseteq Ids
    BY DEF Init
  <1>2. PICK old \in SUBSET rows, orphan \in SUBSET {Orphan} :
            /\ index = [key \in (old \cup orphan) \X {0} |->
                          OldDoc(content[IF key[1] = Orphan THEN 1 ELSE key[1]])]
            /\ spill \in SUBSET rows
    BY DEF Init
  <1>3. DOMAIN index \subseteq ({Orphan} \cup Ids) \X (0..2)
    BY <1>1, <1>2
  <1>4. /\ searchable = index /\ fresh = {} /\ spill \subseteq rows
        /\ job = 0 /\ pc = "idle" /\ excluded = {} /\ sample = {} /\ due = {}
        /\ dlq = 0 /\ sourceRows = 0 /\ esDocs = 0 /\ quiet = FALSE
        /\ mode \in {"inline", "standalone"} /\ limit \in Limits
    BY <1>2 DEF Init
  <1>5. faults \in 0..MaxFaults
    BY ReconcileAssumption DEF Init
  <1> QED
    BY <1>1, <1>3, <1>4, <1>5, ZeroSample
    DEF TypeInv, TypeOK, SampleShape, Phases

\* The documents of a row sit below its id.
\* The index after a store: at r and the places taken the new documents, else
\* as before.
Stored(r, docs, taken) ==
    /\ DOMAIN index' = DOMAIN index \cup ({r} \X taken)
    /\ fresh' = fresh \cup ({r} \X taken)
    /\ \A sub \in taken : index'[<<r, sub>>] = docs[sub]
    /\ \A key \in DOMAIN index \ ({r} \X taken) : index'[key] = index[key]

LEMMA StoreShape ==
    ASSUME NEW r, NEW docs, NEW refused, Store(r, docs, refused)
    PROVE  \E taken \in SUBSET DOMAIN docs : Stored(r, docs, taken)
  <1> DEFINE taken == DOMAIN docs \ refused
  <1>1. {<<r, s>> : s \in taken} = {r} \X taken
    OBVIOUS
  <1>2. index' = [key \in DOMAIN index \cup ({r} \X taken) |->
                     IF key \in {r} \X taken THEN docs[key[2]] ELSE index[key]]
    BY <1>1 DEF Store, Put
  <1>3. fresh' = fresh \cup ({r} \X taken)
    BY DEF Store
  <1>4. \A sub \in taken : <<r, sub>> \in {r} \X taken /\ <<r, sub>>[2] = sub
    OBVIOUS
  <1>5. Stored(r, docs, taken)
    BY <1>2, <1>3, <1>4 DEF Stored
  <1> QED
    BY <1>5

LEMMA FaultType ==
    ASSUME faults \in 0..MaxFaults, Fault \/ UNCHANGED faults
    PROVE  faults' \in 0..MaxFaults
  BY ReconcileAssumption DEF Fault

\* What a row is turned into: at most a document and two children.
LEMMA DocsShape ==
    ASSUME NEW row \in AllRows
    PROVE  DOMAIN LiveDocs(row) \subseteq 0..2 /\ DOMAIN docFromRow(row) \subseteq 0..2
  BY DocumentParts DEF LiveDocs, docFromRow

\* A step of a route.
Route(r) ==
    \/ Deliver(r)
    \/ BackfillRow /\ r = job + 1

LEMMA RouteCases ==
    ASSUME TypeInv, NEW r \in Ids, Route(r)
    PROVE  \/ /\ UNCHANGED <<index, fresh, faults>>
              /\ ~quiet'
           \/ \E docs, refused :
                /\ \/ Live(content[r]) /\ docs = LiveDocs(content[r])
                   \/ Indexable(content[r]) /\ docs = docFromRow(content[r])
                /\ DOMAIN docs \subseteq 0..2
                /\ Store(r, docs, refused)
                /\ ~quiet'
  <1>1. content[r] \in AllRows
    BY RowsTyped DEF TypeInv
  <1>2. CASE Deliver(r)
    BY <1>1, <1>2, DocsShape DEF Deliver, Store
  <1>3. CASE BackfillRow /\ r = job + 1
    <2>1. CASE Indexable(content[r])
      BY <1>1, <1>3, <2>1, DocsShape DEF BackfillRow, Store
    <2>2. CASE ~Indexable(content[r])
      BY <1>3, <2>2 DEF BackfillRow
    <2> QED
      BY <2>1, <2>2
  <1> QED
    BY <1>2, <1>3 DEF Route

LEMMA RouteFrame ==
    ASSUME TypeInv, NEW r \in Ids, Route(r)
    PROVE  /\ UNCHANGED <<config, rows, searchable, gate>>
           /\ job' \in {0} \cup Ids /\ spill' \subseteq rows
           /\ r \in rows
  <1>1. CASE Deliver(r)
    BY <1>1 DEF Deliver, TypeInv, TypeOK
  <1>2. CASE BackfillRow /\ r = job + 1
    BY <1>2 DEF BackfillRow, TypeInv, TypeOK
  <1> QED
    BY <1>1, <1>2 DEF Route

LEMMA NextCases ==
    ASSUME TypeInv, [Next]_vars
    PROVE  \/ \E r \in Ids : Insert(r) \/ Route(r)
           \/ Refresh \/ Begin \/ CountRows \/ CountDocs \/ CountRawExcluded
           \/ LoadExcluded \/ Sample \/ Fetch \/ QueryFails \/ UNCHANGED vars
  <1>1. BackfillRow => job + 1 \in Ids
    BY DEF BackfillRow, TypeInv, TypeOK
  <1> QED
    BY <1>1 DEF Next, Done, Route

LEMMA TypeNext ==
    ASSUME TypeInv, [Next]_vars
    PROVE  TypeInv'
  <1> USE DEF TypeInv
  <1>1. ASSUME NEW r \in Ids, Insert(r) PROVE TypeInv'
    BY <1>1 DEF Insert, TypeOK, SampleShape, config, gate, counts
  <1>2. ASSUME NEW r \in Ids, Route(r) PROVE TypeInv'
    <2>1. /\ DOMAIN index \subseteq DOMAIN index'
          /\ DOMAIN index' \subseteq ({Orphan} \cup Ids) \X (0..2)
          /\ fresh' \subseteq DOMAIN index'
          /\ quiet' \in BOOLEAN
          /\ faults' \in 0..MaxFaults
      <3>1. CASE UNCHANGED <<index, fresh, faults>> /\ ~quiet'
        <4>1. quiet' \in BOOLEAN
          BY <1>2, RowsTyped DEF Route, Deliver, BackfillRow, Store
        <4> QED
          BY <3>1, <4>1 DEF TypeOK
      <3>2. CASE \E docs, refused :
                    DOMAIN docs \subseteq 0..2 /\ Store(r, docs, refused)
        <4>0. PICK docs, refused :
                  DOMAIN docs \subseteq 0..2 /\ Store(r, docs, refused)
          BY <3>2
        <4>1. quiet' = FALSE /\ (Fault \/ UNCHANGED faults)
          BY <4>0 DEF Store
        <4>2. faults' \in 0..MaxFaults
          BY <4>1, FaultType DEF TypeOK
        <4>5. PICK taken \in SUBSET DOMAIN docs : Stored(r, docs, taken)
          BY <4>0, StoreShape
        <4> DEFINE new == {r} \X taken
        <4>3. DOMAIN index' = DOMAIN index \cup new /\ fresh' = fresh \cup new
          BY <4>5 DEF Stored
        <4>4. new \subseteq ({Orphan} \cup Ids) \X (0..2)
          BY <4>0, <4>5
        <4> HIDE DEF new
        <4> QED
          BY <4>1, <4>2, <4>3, <4>4 DEF TypeOK
      <3>3. \/ UNCHANGED <<index, fresh, faults>> /\ ~quiet'
            \/ \E docs, refused :
                    DOMAIN docs \subseteq 0..2 /\ Store(r, docs, refused)
        BY <1>2, RouteCases
      <3> QED
        BY <3>1, <3>2, <3>3
    <2> QED
      BY <1>2, <2>1, RouteFrame DEF TypeOK, SampleShape, config, gate, counts
  <1>3. CASE Refresh
    BY <1>3 DEF Refresh, TypeOK, SampleShape, config, gate, counts
  <1>4. CASE Begin
    <2>1. dlq' \in Nat
      BY <1>4, RowsTyped DEF Begin
    <2>2. DOMAIN searchable' \subseteq DOMAIN index'
      BY <1>4 DEF Begin, Visible, TypeOK
    <2> QED
      BY <1>4, <2>1, <2>2
      DEF Begin, TypeOK, SampleShape, config, Phases
  <1>5. CASE CountRows
    <2>1. sourceRows' \in Nat
      BY <1>5, RowsTyped DEF CountRows
    <2> QED
      BY <1>5, <2>1 DEF CountRows, Reads, TypeOK, SampleShape, config, Phases
  <1>6. CASE CountDocs
    <2>1. DOMAIN searchable \subseteq ({Orphan} \cup Ids) \X (0..2)
      BY DEF TypeOK
    <2>2. IsFiniteSet(({Orphan} \cup Ids) \X (0..2))
      <3>1. IsFiniteSet({Orphan} \cup Ids) /\ IsFiniteSet(0..2)
        <4>1. IsFiniteSet({Orphan}) /\ IsFiniteSet(Ids)
          BY IdFacts, FS_Singleton
        <4>2. IsFiniteSet({Orphan} \cup Ids)
          BY <4>1, FS_Union
        <4>3. IsFiniteSet(0..2)
          <5>1. 0..2 = ({0} \cup {1}) \cup {2}
            OBVIOUS
          <5>2. IsFiniteSet({0} \cup {1})
            BY FS_Singleton, FS_Union
          <5>3. IsFiniteSet(({0} \cup {1}) \cup {2})
            BY <5>2, FS_Singleton, FS_Union
          <5> QED
            BY <5>1, <5>3
        <4> QED
          BY <4>2, <4>3
      <3> QED
        BY <3>1, FS_Product
    <2>3. Messages(searchable) \subseteq ({Orphan} \cup Ids) \X (0..2)
      BY <2>1 DEF Messages
    <2>4. esDocs' \in Nat
      BY <1>6, <2>2, <2>3, FS_Subset, FS_CardinalityType DEF CountDocs
    <2> QED
      BY <1>6, <2>4 DEF CountDocs, Reads, TypeOK, SampleShape, config, Phases
  <1>7. ASSUME NEW v \in {"healthy", "mismatch", "error"},
               End(v), Reads, faults' \in 0..MaxFaults
        PROVE  TypeInv'
    <2>1. Cardinality(sample') <= limit'
      BY <1>7, ZeroSample DEF End, Reads, config, TypeOK
    <2>2. due' \subseteq rows' /\ pc' \in Phases
      BY <1>7 DEF End, Reads, TypeOK, Phases
    <2> QED
      BY <1>7, <2>1, <2>2 DEF End, Reads, TypeOK, SampleShape, config
  <1>8. CASE CountRawExcluded
    <2>1. CASE End("error")
      BY <1>7, <1>8, <2>1 DEF CountRawExcluded, TypeOK
    <2>2. CASE pc' = "load" /\ UNCHANGED <<counts, excluded, sample, due>>
      BY <1>8, <2>2
      DEF CountRawExcluded, Reads, TypeOK, SampleShape, config, counts, Phases
    <2> QED
      BY <1>8, <2>1, <2>2 DEF CountRawExcluded
  <1>9. CASE LoadExcluded
    <2>1. sample = {}
      BY <1>9 DEF LoadExcluded, SampleShape
    <2> QED
      BY <1>9, <2>1
      DEF LoadExcluded, Reads, TypeOK, SampleShape, config, counts, Phases
  <1>10. CASE Sample
    <2>1. SampleRows \subseteq rows
      BY DEF SampleRows, First
    <2>2. /\ Compared(SampleRows) \subseteq rows \ excluded
          /\ First(limit, rows \ excluded) \subseteq rows
      BY <2>1 DEF Compared, First
    <2>3. Cardinality(Compared(SampleRows)) <= limit
      BY <2>1, RowsTyped, FirstBound DEF Compared
    <2> QED
      BY <1>10, <2>2, <2>3
      DEF Sample, Reads, TypeOK, SampleShape, config, counts, Phases
  <1>11. CASE Fetch
    <2>1. End("healthy") \/ End("mismatch")
      BY <1>11 DEF Fetch
    <2> QED
      BY <1>7, <1>11, <2>1 DEF Fetch, TypeOK
  <1>12. CASE QueryFails
    <2>1. faults' \in 0..MaxFaults
      BY <1>12, FaultType DEF QueryFails, TypeOK
    <2> QED
      BY <1>7, <1>12, <2>1 DEF QueryFails
  <1>13. CASE UNCHANGED vars
    BY <1>13 DEF vars, TypeOK, SampleShape, config, gate, counts
  <1> QED
    BY <1>1, <1>2, <1>3, <1>4, <1>5, <1>6, <1>8, <1>9, <1>10, <1>11, <1>12,
       <1>13, NextCases

\* The state keeps its shape, and the gate never compares more rows than it was
\* asked to (Sample in sample.go).
THEOREM ReconcileTypeCorrect == Spec => []TypeOK
  <1>1. Init => TypeInv
    BY TypeInit
  <1>2. TypeInv /\ [Next]_vars => TypeInv'
    BY TypeNext
  <1>3. TypeInv => TypeOK
    BY DEF TypeInv
  <1> QED
    BY <1>1, <1>2, <1>3, PTL DEF Spec

-----------------------------------------------------------------------------
(* What the routes write *)

\* doc is what one of the routes makes of the row at this place.
RouteDoc(row, sub, doc) ==
    \/ Live(row) /\ sub \in DOMAIN LiveDocs(row) /\ doc = LiveDocs(row)[sub]
    \/ Indexable(row) /\ sub \in DOMAIN docFromRow(row) /\ doc = docFromRow(row)[sub]

FreshInv ==
    \A key \in fresh :
        /\ key[1] \in Ids
        /\ RouteDoc(content[key[1]], key[2], index[key])

\* What the routes have not written is as old as the last refresh, and no child.
StaleInv ==
    \A key \in DOMAIN index \ fresh :
        /\ key \in DOMAIN searchable /\ searchable[key] = index[key]
        /\ key[2] = 0 /\ ~index[key].virtual

LEMMA StoreWrites ==
    ASSUME TypeInv, NEW r \in Ids, Route(r)
    PROVE  \/ UNCHANGED <<index, fresh>> /\ ~quiet'
           \/ \E taken \in SUBSET (0..2) :
                /\ DOMAIN index' = DOMAIN index \cup ({r} \X taken)
                /\ fresh' = fresh \cup ({r} \X taken)
                /\ \A sub \in taken : RouteDoc(content[r], sub, index'[<<r, sub>>])
                /\ \A key \in DOMAIN index \ ({r} \X taken) : index'[key] = index[key]
                /\ ~quiet'
  <1>1. CASE \E docs, refused :
                /\ \/ Live(content[r]) /\ docs = LiveDocs(content[r])
                   \/ Indexable(content[r]) /\ docs = docFromRow(content[r])
                /\ DOMAIN docs \subseteq 0..2
                /\ Store(r, docs, refused)
                /\ ~quiet'
    <2>1. PICK docs, refused :
                /\ \/ Live(content[r]) /\ docs = LiveDocs(content[r])
                   \/ Indexable(content[r]) /\ docs = docFromRow(content[r])
                /\ DOMAIN docs \subseteq 0..2
                /\ Store(r, docs, refused)
                /\ ~quiet'
      BY <1>1
    <2>2. PICK taken \in SUBSET DOMAIN docs : Stored(r, docs, taken)
      BY <2>1, StoreShape
    <2>3. \A sub \in taken : RouteDoc(content[r], sub, index'[<<r, sub>>])
      BY <2>1, <2>2 DEF RouteDoc, Stored
    <2>4. taken \in SUBSET (0..2)
      BY <2>1, <2>2
    <2> QED
      BY <2>1, <2>2, <2>3, <2>4 DEF Stored
  <1> QED
    BY <1>1, RouteCases

\* A document a route made keeps what the row says, and is a child unless it is
\* the row's own.
LEMMA RouteDocKeeps ==
    ASSUME NEW row \in AllRows, NEW sub, NEW doc, RouteDoc(row, sub, doc)
    PROVE  Kept(row, doc) /\ (doc.virtual <=> sub # 0)
  <1>1. CASE sub \in DOMAIN LiveDocs(row) /\ doc = LiveDocs(row)[sub]
    <2>1. doc.virtual <=> sub # 0
      BY <1>1, DocumentParts DEF LiveDocs
    <2> QED
      BY <1>1, <2>1, LiveKeeps
  <1>2. CASE sub \in DOMAIN docFromRow(row) /\ doc = docFromRow(row)[sub]
    <2>1. doc.virtual <=> sub # 0
      BY <1>2, DocumentParts DEF docFromRow
    <2> QED
      BY <1>2, <2>1, RowKeeps
  <1> QED
    BY <1>1, <1>2 DEF RouteDoc

LEMMA WrittenInit ==
    ASSUME Init
    PROVE  FreshInv /\ StaleInv
  <1>1. fresh = {} /\ searchable = index
    BY DEF Init
  <1>2. PICK old \in SUBSET rows, orphan \in SUBSET {Orphan} :
            index = [key \in (old \cup orphan) \X {0} |->
                        OldDoc(content[IF key[1] = Orphan THEN 1 ELSE key[1]])]
    BY DEF Init
  <1>3. \A key \in DOMAIN index : key[2] = 0 /\ ~index[key].virtual
    <2> SUFFICES ASSUME NEW key \in DOMAIN index
                 PROVE  key[2] = 0 /\ ~index[key].virtual
      OBVIOUS
    <2> DEFINE r == IF key[1] = Orphan THEN 1 ELSE key[1]
    <2>1. key[2] = 0 /\ key[1] \in (old \cup orphan) /\ index[key] = OldDoc(content[r])
      BY <1>2
    <2>2. 0 \in DOMAIN docFromRow(content[r]) /\ ~docFromRow(content[r])[0].virtual
      BY OwnDocument DEF docFromRow
    <2> QED
      BY <2>1, <2>2 DEF OldDoc
  <1> QED
    BY <1>1, <1>3 DEF FreshInv, StaleInv

\* What every step but those of a route leaves of the documents and rows.
LEMMA GateFrame ==
    ASSUME TypeInv, [Next]_vars, ~\E r \in Ids : Route(r)
    PROVE  /\ UNCHANGED <<config, index, fresh, spill>>
           /\ searchable' \in {searchable, index}
           /\ quiet' => (quiet \/ Begin)
  <1>1. CASE \E r \in Ids : Insert(r)
    BY <1>1 DEF Insert
  <1>2. CASE Refresh \/ CountRows \/ CountDocs \/ CountRawExcluded \/ LoadExcluded
             \/ Sample \/ Fetch \/ QueryFails
    BY <1>2 DEF Refresh, CountRows, CountDocs, CountRawExcluded, LoadExcluded,
                Sample, Fetch, QueryFails, Reads
  <1>3. CASE Begin
    BY <1>3 DEF Begin, Visible
  <1>4. CASE UNCHANGED vars
    BY <1>4 DEF vars
  <1> QED
    BY <1>1, <1>2, <1>3, <1>4, NextCases

LEMMA WrittenNext ==
    ASSUME TypeInv, FreshInv, StaleInv, [Next]_vars
    PROVE  FreshInv' /\ StaleInv'
  <1>1. CASE ~\E r \in Ids : Route(r)
    <2>1. /\ UNCHANGED <<content, index, fresh>>
          /\ searchable' \in {searchable, index}
      BY <1>1, GateFrame DEF config
    <2> QED
      BY <2>1 DEF FreshInv, StaleInv
  <1>2. ASSUME NEW r \in Ids, Route(r) PROVE FreshInv' /\ StaleInv'
    <2>1. UNCHANGED <<content, searchable>>
      BY <1>2, RouteFrame DEF config
    <2>2. CASE UNCHANGED <<index, fresh>>
      BY <2>1, <2>2 DEF FreshInv, StaleInv
    <2>3. CASE \E taken \in SUBSET (0..2) :
                /\ DOMAIN index' = DOMAIN index \cup ({r} \X taken)
                /\ fresh' = fresh \cup ({r} \X taken)
                /\ \A sub \in taken : RouteDoc(content[r], sub, index'[<<r, sub>>])
                /\ \A key \in DOMAIN index \ ({r} \X taken) : index'[key] = index[key]
      <3>1. PICK taken \in SUBSET (0..2) :
                /\ DOMAIN index' = DOMAIN index \cup ({r} \X taken)
                /\ fresh' = fresh \cup ({r} \X taken)
                /\ \A sub \in taken : RouteDoc(content[r], sub, index'[<<r, sub>>])
                /\ \A key \in DOMAIN index \ ({r} \X taken) : index'[key] = index[key]
        BY <2>3
      <3>2. ASSUME NEW key \in {r} \X taken
            PROVE  key[1] \in Ids /\ RouteDoc(content'[key[1]], key[2], index'[key])
        <4>1. key[1] = r /\ key[2] \in taken /\ key = <<r, key[2]>>
          OBVIOUS
        <4> QED
          BY <2>1, <3>1, <4>1
      <3>3. \A key \in fresh : key \in DOMAIN index
        BY DEF TypeInv, TypeOK
      <3>4. FreshInv'
        BY <2>1, <3>1, <3>2, <3>3 DEF FreshInv
      <3>5. StaleInv'
        BY <2>1, <3>1 DEF StaleInv
      <3> QED
        BY <3>4, <3>5
    <2> QED
      BY <1>2, <2>2, <2>3, StoreWrites
  <1> QED
    BY <1>1, <1>2

WrittenInv == TypeInv /\ FreshInv /\ StaleInv

LEMMA WrittenInductive ==
    /\ Init => WrittenInv
    /\ WrittenInv /\ [Next]_vars => WrittenInv'
  BY TypeInit, TypeNext, WrittenInit, WrittenNext DEF WrittenInv

\* Live route and backfill agree on every document and virtual child, so that
\* they may overwrite each other in any order (doc_enrich.go: "same doc, same
\* _id"), for every row whose message fits.
THEOREM RoutesWriteTheSame == Spec => []RoutesAgree
  <1>1. WrittenInv => RoutesAgree
    <2> SUFFICES ASSUME WrittenInv, NEW key \in fresh,
                        content[key[1]].size = "fits" \/ content[key[1]].signal
                 PROVE  /\ key[2] \in DOMAIN docFromRow(content[key[1]])
                        /\ index[key] = docFromRow(content[key[1]])[key[2]]
      BY DEF RoutesAgree
    <2> DEFINE row == content[key[1]]
    <2>1. row \in AllRows /\ RouteDoc(row, key[2], index[key])
      BY RowsTyped DEF WrittenInv, TypeInv, FreshInv
    <2> HIDE DEF row
    <2>2. row.size = "fits" \/ row.signal => LiveDocs(row) = docFromRow(row)
      BY <2>1, LiveAgrees
    <2> QED
      BY <2>1, <2>2 DEF RouteDoc, row
  <1> QED
    BY <1>1, WrittenInductive, PTL DEF Spec

\* A payload that restricts its readers never becomes a document or a child open
\* to all, by neither route and with or without its raw payload.
THEOREM NeverOpenToAll == Spec => []NeverFailOpen
  <1>1. WrittenInv => NeverFailOpen
    <2> SUFFICES ASSUME WrittenInv, NEW key \in fresh,
                        ~content[key[1]].signal, content[key[1]].visibles # "absent"
                 PROVE  index[key].visibles # {}
      BY DEF NeverFailOpen
    <2> DEFINE row == content[key[1]]
    <2>1. row \in AllRows /\ RouteDoc(row, key[2], index[key])
      BY RowsTyped DEF WrittenInv, TypeInv, FreshInv
    <2>2. Extractable(row)
      BY <2>1 DEF RouteDoc, Live, Producible, Indexable
    <2>3. Names(row) = {"name"}
      BY <2>2 DEF Extractable, Trusted, Names
    <2>4. index[key].visibles = Names(row)
      BY <2>1, RouteDocKeeps DEF Kept
    <2> QED
      BY <2>3, <2>4
  <1> QED
    BY <1>1, WrittenInductive, PTL DEF Spec

-----------------------------------------------------------------------------
(* What a healthy verdict is worth *)

LEMMA RightIsKept ==
    ASSUME NEW r, NEW store
    PROVE  Right(r, store) <=>
               <<r, 0>> \in DOMAIN store /\ Kept(content[r], store[<<r, 0>>])
  BY DEF Right, Kept

LEMMA MatchesIsKept ==
    ASSUME TypeInv, NEW r \in Ids
    PROVE  Matches(r) <=> /\ <<r, 0>> \in DOMAIN searchable
                          /\ Kept(content[r], searchable[<<r, 0>>])
  BY RowsTyped, CompareIsKept DEF Matches, TypeInv

\* What matches in a stale view is right in the index: it is the same document
\* or one a route has written since.
LEMMA MatchIsRight ==
    ASSUME WrittenInv, NEW r \in Ids, Matches(r)
    PROVE  Right(r, index)
  <1>1. /\ <<r, 0>> \in DOMAIN searchable /\ Kept(content[r], searchable[<<r, 0>>])
        /\ DOMAIN searchable \subseteq DOMAIN index
    BY MatchesIsKept DEF WrittenInv, TypeInv, TypeOK
  <1>2. CASE <<r, 0>> \in fresh
    <2>1. RouteDoc(content[r], 0, index[<<r, 0>>])
      BY <1>2 DEF WrittenInv, FreshInv
    <2>2. Kept(content[r], index[<<r, 0>>])
      BY <2>1, RowsTyped, RouteDocKeeps DEF WrittenInv, TypeInv
    <2> QED
      BY <1>1, <2>2, RightIsKept
  <1>3. CASE <<r, 0>> \notin fresh
    <2>1. searchable[<<r, 0>>] = index[<<r, 0>>]
      BY <1>1, <1>3 DEF WrittenInv, StaleInv
    <2> QED
      BY <1>1, <2>1, RightIsKept
  <1> QED
    BY <1>2, <1>3

\* The rows asked for in excess make up for the excluded ones: what is due is
\* read, table by table and over all tables, and compared.
LEMMA DueIsCompared ==
    ASSUME TypeInv
    PROVE  First(limit, rows \ excluded) \subseteq Compared(SampleRows)
  <1> DEFINE of(t) == First(effLimit, {r \in rows : Table[r] = t})
             all   == UNION {of(t) : t \in {Table[r] : r \in Ids}}
  <1>0. /\ rows \in SUBSET Ids /\ excluded \in SUBSET Ids
        /\ limit \in Nat /\ Cardinality(excluded) \in Nat
        /\ IsFiniteSet(excluded)
    BY RowsTyped DEF TypeInv
  <1>1. effLimit \in Nat
    BY <1>0 DEF effLimit
  <1> SUFFICES ASSUME NEW r \in rows \ excluded, Before(r, rows \ excluded) < limit
               PROVE  r \in Compared(SampleRows)
    BY <1>0, FirstMembers
  <1>2. Before(r, rows) < effLimit
    <2> DEFINE A == {q \in rows \ excluded : q < r}
               B == {q \in rows : q < r}
    <2>1. /\ A \in SUBSET Ids /\ B \in SUBSET Ids /\ A \cup excluded \in SUBSET Ids
          /\ B \subseteq A \cup excluded
      BY <1>0
    <2>2. Cardinality(B) <= Cardinality(A \cup excluded)
      BY <2>1, Finite, FS_Subset
    <2>3. Cardinality(A \cup excluded) <= Cardinality(A) + Cardinality(excluded)
      <3>1. A \cap excluded = {}
        OBVIOUS
      <3>2. IsFiniteSet(A) /\ Cardinality(A) \in Nat /\ Cardinality(A \cap excluded) = 0
        BY <2>1, <3>1, Finite, FS_EmptySet
      <3> HIDE DEF A
      <3>3. Cardinality(A \cup excluded) =
                Cardinality(A) + Cardinality(excluded) - Cardinality(A \cap excluded)
        BY <1>0, <3>2, FS_Union
      <3> QED
        BY <1>0, <3>2, <3>3
    <2>4. /\ Cardinality(A) \in Nat /\ Cardinality(B) \in Nat
          /\ Cardinality(A \cup excluded) \in Nat
      BY <2>1, Finite
    <2>5. Cardinality(A) < limit
      BY DEF Before
    <2> HIDE DEF A, B
    <2>6. Cardinality(B) < limit + Cardinality(excluded)
      BY <1>0, <2>2, <2>3, <2>4, <2>5
    <2> QED
      BY <2>6 DEF effLimit, Before, B
  <1>3. \A ids \in SUBSET Ids : Before(r, ids) \in Nat
    <2> SUFFICES ASSUME NEW ids \in SUBSET Ids PROVE Before(r, ids) \in Nat
      OBVIOUS
    <2>1. {q \in ids : q < r} \in SUBSET Ids
      OBVIOUS
    <2> QED
      BY <2>1, Finite DEF Before
  <1>4. r \in of(Table[r])
    <2> DEFINE mine == {q \in rows : Table[q] = Table[r]}
    <2>1. mine \in SUBSET Ids /\ r \in mine
      BY <1>0
    <2>2. Before(r, mine) <= Before(r, rows)
      BY <1>0, BeforeGrows
    <2>3. Before(r, mine) < effLimit
      BY <1>0, <1>1, <1>2, <1>3, <2>1, <2>2
    <2> QED
      BY <1>1, <2>1, <2>3, FirstMembers
  <1>5. \A t : of(t) \subseteq rows
    BY DEF First
  <1>6. r \in all /\ all \subseteq rows
    BY <1>0, <1>4, <1>5
  <1>7. r \in SampleRows
    <2>1. Before(r, all) <= Before(r, rows)
      BY <1>0, <1>6, BeforeGrows
    <2>2. Before(r, all) < effLimit
      BY <1>0, <1>1, <1>2, <1>3, <1>6, <2>1
    <2>3. r \in First(effLimit, all)
      BY <1>0, <1>1, <1>6, <2>2, FirstMembers
    <2> QED
      BY <2>3 DEF SampleRows
  <1>8. SampleRows \subseteq rows
    BY DEF SampleRows, First
  <1>9. Before(r, SampleRows \ excluded) <= Before(r, rows \ excluded)
    BY <1>0, <1>8, BeforeGrows
  <1>10. Before(r, SampleRows \ excluded) < limit
    BY <1>0, <1>3, <1>8, <1>9
  <1> QED
    BY <1>0, <1>7, <1>8, <1>10, FirstMembers DEF Compared

SampleInv ==
    /\ pc = "fetch" => due \subseteq sample
    /\ SampleStands

LEMMA SampleNext ==
    ASSUME WrittenInv, SampleInv, [Next]_vars
    PROVE  SampleInv'
  <1>0. TypeInv
    BY DEF WrittenInv
  <1>1. CASE \E r \in Ids : Route(r)
    <2>1. PICK q \in Ids : Route(q)
      BY <1>1
    <2>2. UNCHANGED <<content, pc, due, sample>>
      BY <1>0, <2>1, RouteFrame DEF config, gate
    <2>3. ASSUME NEW r \in Ids, Right(r, index) PROVE Right(r, index)'
      <3>0. <<r, 0>> \in DOMAIN index /\ Kept(content[r], index[<<r, 0>>])
        BY <2>3, RightIsKept
      <3>1. CASE UNCHANGED <<index, fresh>>
        BY <2>2, <2>3, <3>1 DEF Right
      <3>2. CASE \E taken \in SUBSET (0..2) :
                /\ DOMAIN index' = DOMAIN index \cup ({q} \X taken)
                /\ fresh' = fresh \cup ({q} \X taken)
                /\ \A sub \in taken : RouteDoc(content[q], sub, index'[<<q, sub>>])
                /\ \A key \in DOMAIN index \ ({q} \X taken) : index'[key] = index[key]
        <4>1. PICK taken \in SUBSET (0..2) :
                /\ DOMAIN index' = DOMAIN index \cup ({q} \X taken)
                /\ fresh' = fresh \cup ({q} \X taken)
                /\ \A sub \in taken : RouteDoc(content[q], sub, index'[<<q, sub>>])
                /\ \A key \in DOMAIN index \ ({q} \X taken) : index'[key] = index[key]
          BY <3>2
        <4>2. CASE r = q /\ 0 \in taken
          <5>1. Kept(content[r], index'[<<r, 0>>])
            BY <1>0, <4>1, <4>2, RowsTyped, RouteDocKeeps DEF TypeInv
          <5> QED
            BY <2>2, <3>0, <4>1, <5>1 DEF Right, Kept
        <4>3. CASE ~(r = q /\ 0 \in taken)
          <5>1. index'[<<r, 0>>] = index[<<r, 0>>]
            BY <3>0, <4>1, <4>3
          <5> QED
            BY <2>2, <3>0, <4>1, <5>1 DEF Right, Kept
        <4> QED
          BY <4>2, <4>3
      <3> QED
        BY <1>0, <2>1, <3>1, <3>2, StoreWrites
    <2>4. due \subseteq Ids
      BY <1>0 DEF TypeInv, TypeOK
    <2> QED
      BY <2>2, <2>3, <2>4 DEF SampleInv, SampleStands
  <1>2. CASE ~\E r \in Ids : Route(r)
    <2>1. UNCHANGED <<content, index>>
      BY <1>0, <1>2, GateFrame DEF config
    <2>2. \A r : Right(r, index)' <=> Right(r, index)
      BY <2>1 DEF Right
    <2>3. CASE UNCHANGED <<pc, due, sample>>
      BY <2>2, <2>3 DEF SampleInv, SampleStands
    <2>4. CASE pc' \notin {"fetch", "healthy"}
      BY <2>4 DEF SampleInv, SampleStands
    <2>5. CASE Sample
      BY <1>0, <2>5, DueIsCompared DEF Sample, SampleInv, SampleStands
    <2>6. CASE Fetch
      <3>1. CASE Healthy
        <4>1. pc' = "healthy" /\ due' = due /\ due \subseteq sample
          BY <2>6, <3>1 DEF Fetch, End, SampleInv
        <4>2. \A r \in due : r \in Ids /\ Matches(r)
          BY <1>0, <3>1, <4>1 DEF Healthy, TypeInv, TypeOK
        <4>3. \A r \in due : Right(r, index)
          BY <4>2, MatchIsRight
        <4> QED
          BY <2>2, <4>1, <4>3 DEF SampleInv, SampleStands
      <3>2. CASE ~Healthy
        BY <2>4, <2>6, <3>2 DEF Fetch, End
      <3> QED
        BY <3>1, <3>2
    <2>7. CASE \E r \in Ids : Insert(r)
      BY <2>3, <2>7 DEF Insert, gate
    <2>8. CASE Refresh \/ UNCHANGED vars
      BY <2>3, <2>8 DEF Refresh, vars, gate
    <2>9. CASE Begin \/ CountRows \/ CountDocs \/ CountRawExcluded \/ LoadExcluded
               \/ QueryFails
      BY <2>4, <2>9 DEF Begin, CountRows, CountDocs, CountRawExcluded, LoadExcluded,
                        QueryFails, End
    <2> QED
      BY <1>0, <1>2, <2>5, <2>6, <2>7, <2>8, <2>9, NextCases
  <1> QED
    BY <1>1, <1>2

\* A healthy verdict vouches for the first rows of the window, however many dead
\* letters lie between them (SampleSource in sample.go), and goes on to do so
\* while both routes write.
THEOREM HealthyStands == Spec => []SampleStands
  <1>1. Init => SampleInv
    BY DEF Init, SampleInv, SampleStands
  <1>2. WrittenInv /\ SampleInv /\ [Next]_vars => SampleInv'
    BY SampleNext
  <1>3. SampleInv => SampleStands
    BY DEF SampleInv
  <1> QED
    BY <1>1, <1>2, <1>3, WrittenInductive, PTL DEF Spec

-----------------------------------------------------------------------------
(* The verdict of a gate that is left alone *)

\* What the gate has gathered so far, as long as nothing was written.
Gathered ==
    /\ searchable = index
    /\ pc \in {"source", "docs", "excluded", "load", "sample", "fetch"} =>
           dlq = Cardinality(spill)
    /\ pc \in {"docs", "excluded", "load", "sample", "fetch"} =>
           sourceRows = Cardinality(rows)
    /\ pc \in {"excluded", "load", "sample", "fetch"} =>
           esDocs = Cardinality(Messages(index))
    /\ pc \in {"sample", "fetch"} => excluded = spill
    /\ pc = "fetch" /\ limit >= Cardinality(rows) => sample = rows \ spill

QuietInv == (quiet => Gathered) /\ ExactWhenQuiet

\* Nobody comes after enough rows.
LEMMA FirstIsAll ==
    ASSUME NEW n \in Nat, NEW ids \in SUBSET rows, IsFiniteSet(rows), TypeInv,
           Cardinality(rows) \in Nat, n >= Cardinality(rows)
    PROVE  First(n, ids) = ids
  <1>1. ASSUME NEW r \in ids PROVE Before(r, ids) < n
    <2> DEFINE A == {q \in ids : q < r}
    <2>0. r \in rows /\ r \in Nat
      BY IdFacts DEF TypeInv, TypeOK
    <2>1. A \subseteq rows /\ r \in rows /\ r \notin A
      <3>1. ~(r < r)
        BY <2>0
      <3> QED
        BY <2>0, <3>1
    <2>2. Cardinality(A) <= Cardinality(rows) /\ Cardinality(A) # Cardinality(rows)
      BY <2>1, FS_Subset
    <2>3. Cardinality(A) \in Nat
      BY <2>1, FS_Subset, FS_CardinalityType
    <2> QED
      BY <2>2, <2>3 DEF Before
  <1>2. ids \in SUBSET Ids
    BY DEF TypeInv, TypeOK
  <1> QED
    BY <1>1, <1>2, FirstMembers

LEMMA AllCompared ==
    ASSUME TypeInv, limit >= Cardinality(rows)
    PROVE  Compared(SampleRows) = rows \ excluded
  <1>0. /\ IsFiniteSet(rows) /\ Cardinality(rows) \in Nat
        /\ limit \in Nat /\ Cardinality(excluded) \in Nat
    BY RowsTyped DEF TypeInv
  <1>1. effLimit \in Nat /\ effLimit >= Cardinality(rows)
    BY <1>0 DEF effLimit
  <1> DEFINE mine(t) == {r \in rows : Table[r] = t}
  <1>2. \A t : First(effLimit, mine(t)) = mine(t)
    BY <1>0, <1>1, FirstIsAll
  <1>3. UNION {First(effLimit, mine(t)) : t \in {Table[r] : r \in Ids}} = rows
    <2>1. rows \subseteq Ids
      BY RowsTyped DEF TypeInv
    <2>2. \A r \in rows : r \in mine(Table[r])
      OBVIOUS
    <2>3. \A t : mine(t) \subseteq rows
      OBVIOUS
    <2> HIDE DEF mine
    <2> QED
      BY <1>2, <2>1, <2>2, <2>3
  <1>4. SampleRows = rows
    BY <1>0, <1>1, <1>3, FirstIsAll DEF SampleRows
  <1> QED
    BY <1>0, <1>4, FirstIsAll DEF Compared

\* The messages the gate counts are the documents that are no children.
LEMMA MessagesAreParents ==
    ASSUME WrittenInv
    PROVE  Messages(index) = {key \in DOMAIN index : key[2] = 0}
  <1> SUFFICES ASSUME NEW key \in DOMAIN index
               PROVE  ~index[key].virtual <=> key[2] = 0
    BY DEF Messages
  <1>1. CASE key \in fresh
    <2>1. /\ content[key[1]] \in AllRows
          /\ RouteDoc(content[key[1]], key[2], index[key])
      BY <1>1, RowsTyped DEF WrittenInv, TypeInv, FreshInv
    <2> QED
      BY <2>1, RouteDocKeeps
  <1>2. CASE key \notin fresh
    BY <1>2 DEF WrittenInv, StaleInv
  <1> QED
    BY <1>1, <1>2

\* The counts agree and every row that is compared matches, exactly when the
\* documents are those of the other rows and right.
LEMMA VerdictIsExact ==
    ASSUME WrittenInv, Gathered, pc = "fetch", limit >= Cardinality(rows)
    PROVE  Healthy <=>
             /\ {key \in DOMAIN index : key[2] = 0} = (rows \ spill) \X {0}
             /\ \A r \in rows \ spill : Right(r, index)
  <1> DEFINE parents == {key \in DOMAIN index : key[2] = 0}
             others  == rows \ spill
             wanted  == others \X {0}
  <1>1. /\ dlq = Cardinality(spill) /\ sourceRows = Cardinality(rows)
        /\ esDocs = Cardinality(parents) /\ sample = others
        /\ searchable = index
    BY MessagesAreParents DEF Gathered
  <1>2. /\ IsFiniteSet(rows) /\ IsFiniteSet(spill) /\ spill \subseteq rows
        /\ Cardinality(rows) \in Nat /\ Cardinality(spill) \in Nat
        /\ others \subseteq Ids
    BY RowsTyped DEF WrittenInv, TypeInv, TypeOK
  <1>3. Cardinality(others) = Cardinality(rows) - Cardinality(spill)
    <2>1. rows \cap spill = spill
      BY <1>2
    <2>2. Cardinality(rows \ spill) =
              Cardinality(rows) - Cardinality(rows \cap spill)
      BY <1>2, FS_Difference
    <2> QED
      BY <2>1, <2>2
  <1>4. IsFiniteSet(wanted) /\ Cardinality(wanted) = Cardinality(others)
    <2>1. /\ IsFiniteSet(others) /\ Cardinality(others) \in Nat
          /\ IsFiniteSet({0}) /\ Cardinality({0}) = 1
      BY <1>2, Finite, FS_Singleton
    <2> HIDE DEF others
    <2>2. /\ IsFiniteSet(wanted)
          /\ Cardinality(wanted) = Cardinality(others) * Cardinality({0})
      BY <2>1, FS_Product
    <2> QED
      BY <2>1, <2>2
  <1>5. IsFiniteSet(parents)
    <2>1. parents \subseteq ({Orphan} \cup Ids) \X {0}
      BY DEF WrittenInv, TypeInv, TypeOK
    <2>2. IsFiniteSet({Orphan} \cup Ids) /\ IsFiniteSet({0})
      BY IdFacts, FS_Singleton, FS_Union
    <2> QED
      BY <2>1, <2>2, FS_Product, FS_Subset
  <1>6. \A r \in others : Matches(r) <=> Right(r, index)
    BY <1>1, <1>2, MatchesIsKept, RightIsKept DEF WrittenInv
  <1>7. ASSUME Healthy
        PROVE  parents = wanted /\ \A r \in others : Right(r, index)
    <2>1. \A r \in others : Right(r, index)
      BY <1>1, <1>6, <1>7 DEF Healthy
    <2>2. wanted \subseteq parents
      BY <2>1 DEF Right
    <2>3. Cardinality(parents) = Cardinality(wanted)
      BY <1>1, <1>3, <1>4, <1>7 DEF Healthy
    <2> HIDE DEF parents, wanted
    <2>4. parents = wanted
      BY <1>5, <2>2, <2>3, FS_Subset
    <2> QED
      BY <2>1, <2>4
  <1>8. ASSUME parents = wanted, \A r \in others : Right(r, index)
        PROVE  Healthy
    <2>1. esDocs = sourceRows - dlq
      <3> HIDE DEF parents, wanted, others
      <3> QED
        BY <1>1, <1>3, <1>4, <1>8
    <2> QED
      BY <1>1, <1>6, <1>8, <2>1 DEF Healthy
  <1> QED
    BY <1>7, <1>8

LEMMA QuietNext ==
    ASSUME WrittenInv, QuietInv, [Next]_vars
    PROVE  QuietInv'
  <1>0. TypeInv
    BY DEF WrittenInv
  <1> SUFFICES ASSUME quiet'
               PROVE  Gathered' /\ ExactWhenQuiet'
    BY DEF QuietInv, ExactWhenQuiet
  <1>1. CASE UNCHANGED vars
    BY <1>1 DEF QuietInv, Gathered, ExactWhenQuiet, Messages, Right, vars, config, gate, counts
  <1>2. CASE Begin
    BY <1>2 DEF Begin, Gathered, ExactWhenQuiet
  <1>3. ~(\E r \in Ids : Insert(r) \/ Route(r))
    <2>1. ASSUME NEW r \in Ids, Route(r) PROVE FALSE
      BY <1>0, <2>1, StoreWrites
    <2> QED
      BY <2>1 DEF Insert
  <1>4. ~Refresh
    BY DEF Refresh, QuietInv, Gathered
  <1>5. ASSUME Reads
        PROVE  /\ Gathered
               /\ UNCHANGED <<content, limit, rows, index, searchable, spill>>
    BY <1>5 DEF Reads, config, QuietInv
  <1>6. CASE CountRows \/ CountDocs \/ LoadExcluded
    BY <1>5, <1>6
    DEF CountRows, CountDocs, LoadExcluded, Gathered, ExactWhenQuiet, Messages, counts,
        Reads
  <1>7. ASSUME End("error"), Reads PROVE Gathered' /\ ExactWhenQuiet'
    BY <1>5, <1>7 DEF End, Gathered, ExactWhenQuiet
  <1>8. CASE CountRawExcluded
    <2>1. CASE pc' = "load" /\ UNCHANGED <<counts, excluded, sample, due>>
      BY <1>5, <1>8, <2>1
      DEF CountRawExcluded, Gathered, ExactWhenQuiet, Messages, counts
    <2> QED
      BY <1>7, <1>8, <2>1 DEF CountRawExcluded
  <1>9. CASE Sample
    <2>1. limit >= Cardinality(rows) => sample' = rows \ excluded
      BY <1>0, <1>9, AllCompared DEF Sample
    <2> QED
      BY <1>5, <1>9, <2>1
      DEF Sample, Gathered, ExactWhenQuiet, Messages, counts
  <1>10. CASE Fetch
    <2>1. Gathered /\ UNCHANGED <<content, limit, rows, index, searchable, spill>>
      BY <1>5, <1>10 DEF Fetch
    <2>2. pc = "fetch" /\ pc' = (IF Healthy THEN "healthy" ELSE "mismatch")
      BY <1>10 DEF Fetch, End
    <2>3. Gathered'
      BY <2>1, <2>2 DEF Gathered
    <2>4. ASSUME limit >= Cardinality(rows)
          PROVE  pc' = "healthy" <=>
                   /\ {key \in DOMAIN index : key[2] = 0} = (rows \ spill) \X {0}
                   /\ \A r \in rows \ spill : Right(r, index)
      BY <2>1, <2>2, <2>4, VerdictIsExact
    <2>5. \A r : Right(r, index)' <=> Right(r, index)
      BY <2>1 DEF Right
    <2>6. ExactWhenQuiet'
      BY <2>1, <2>4, <2>5 DEF ExactWhenQuiet
    <2> QED
      BY <2>3, <2>6
  <1>11. CASE QueryFails
    BY <1>7, <1>11 DEF QueryFails
  <1> QED
    BY <1>0, <1>1, <1>2, <1>3, <1>4, <1>6, <1>8, <1>9, <1>10, <1>11, NextCases

\* Left alone and told to sample every row, the gate is healthy exactly when the
\* index is: no surplus document makes up for a missing one (Gap in recon.go
\* compares numbers only; the sample closes what it leaves open).
THEOREM VerdictExactWhenQuiet == Spec => []ExactWhenQuiet
  <1>1. Init => QuietInv
    BY DEF Init, QuietInv, ExactWhenQuiet
  <1>2. WrittenInv /\ QuietInv /\ [Next]_vars => QuietInv'
    BY QuietNext
  <1>3. QuietInv => ExactWhenQuiet
    BY DEF QuietInv
  <1> QED
    BY <1>1, <1>2, <1>3, WrittenInductive, PTL DEF Spec
=============================================================================
