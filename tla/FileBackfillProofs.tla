-------------------------- MODULE FileBackfillProofs --------------------------
(***************************************************************************)
(* What the file-content-backfill guarantees for every set of documents,   *)
(* page size, tolerated ratio and number of failures.                      *)
(***************************************************************************)
EXTENDS FileBackfill, FiniteSetTheorems, TLAPS

-----------------------------------------------------------------------------
(* The documents and their updates *)

\* What an update has read is what the document holds, unless the document has
\* been stored since; a document without a message has no other field.
Current == \A u \in updates : u.fresh => u.read = source[u.doc]

DocumentsInv == DocumentsOK /\ Current

Unanswered(u) == Store(u) \/ Refuse(u) \/ ReadAgain(u) \/ (Abandon(u) /\ UNCHANGED source)

\* No field of a document is ever taken away.
Growing == \A d \in Docs : source[d] \subseteq source'[d]

LEMMA GrowingSets ==
    ASSUME Growing
    PROVE  /\ indexed \subseteq indexed' /\ content \subseteq content'
           /\ tombstone \subseteq tombstone'
  BY DEF Growing, indexed, content, tombstone

LEMMA SameSets ==
    ASSUME UNCHANGED source
    PROVE  /\ Growing
           /\ UNCHANGED <<indexed, content, tombstone>>
  BY DEF Growing, indexed, content, tombstone

LEMMA ConflictTries == 0 \in 0..ConflictRetries /\ ConflictRetries \in 0..ConflictRetries
  BY FileBackfillAssumption

LEMMA SendInv ==
    ASSUME DocumentsInv, UNCHANGED source, NEW d \in Docs,
           NEW by \in {"indexer", "live", "job", "nobody"},
           NEW change \in {"message", "text", "permanent"}, Send(d, by, change)
    PROVE  DocumentsInv'
  <1> DEFINE new == Reading(d, by, change, ConflictRetries)
  <1>1. new \in Updates /\ new.read = source[new.doc]
    BY ConflictTries DEF Reading, Updates, DocumentsInv, DocumentsOK
  <1>2. updates' = updates \cup {new}
    BY DEF Send
  <1> HIDE DEF new
  <1>3. UNCHANGED <<indexed, content, tombstone>>
    BY SameSets
  <1> QED
    BY <1>1, <1>2, <1>3 DEF DocumentsInv, DocumentsOK, Current

\* The version check and the three ways to change a document: what is stored has
\* all that is there.
LEMMA StoreInv ==
    ASSUME DocumentsInv, NEW u \in updates, Store(u)
    PROVE  DocumentsInv' /\ Growing
  <1>1. /\ u \in Updates /\ u.doc \in Docs /\ u.read = source[u.doc]
        /\ u.read \in SUBSET Fields
    BY DEF Store, SameVersion, DocumentsInv, DocumentsOK, Current, Updates
  <1>2. /\ u.read \subseteq Changed(u) /\ Changed(u) \in SUBSET Fields
        /\ "message" \in Changed(u)
    BY <1>1 DEF Store, Applies, Changed, Rewritten, Updates, Fields
  <1>3. /\ source' \in [Docs -> SUBSET Fields] /\ source'[u.doc] = Changed(u)
        /\ \A d \in Docs : d # u.doc => source'[d] = source[d]
    BY <1>1, <1>2 DEF Store, DocumentsInv, DocumentsOK
  <1>4. Growing
    BY <1>1, <1>2, <1>3 DEF Growing
  <1>5. content' \cup tombstone' \subseteq indexed'
    BY <1>2, <1>3 DEF content, tombstone, indexed, DocumentsInv, DocumentsOK
  <1>6. \A w \in updates' :
            /\ w \in Updates
            /\ w.fresh => w \in updates /\ w.doc # u.doc
    <2> SUFFICES ASSUME NEW v \in updates \ {u}
                 PROVE  LET w == IF v.doc = u.doc THEN [v EXCEPT !.fresh = FALSE] ELSE v
                        IN  /\ w \in Updates
                            /\ w.fresh => w \in updates /\ w.doc # u.doc
      BY DEF Store
    <2>1. v \in Updates
      BY DEF DocumentsInv, DocumentsOK
    <2> QED
      BY <2>1 DEF Updates
  <1>7. Current'
    BY <1>3, <1>6 DEF Current, Updates, DocumentsInv
  <1> QED
    BY <1>3, <1>4, <1>5, <1>6, <1>7 DEF DocumentsInv, DocumentsOK

LEMMA UpdateInv ==
    ASSUME DocumentsInv, NEW u \in updates, Unanswered(u)
    PROVE  DocumentsInv' /\ Growing
  <1>1. u \in Updates
    BY DEF DocumentsInv, DocumentsOK
  <1>2. CASE Store(u)
    BY <1>2, StoreInv
  <1>3. CASE Refuse(u)
    <2>1. UNCHANGED <<indexed, content, tombstone>> /\ Growing
      BY <1>3, SameSets DEF Refuse
    <2> QED
      BY <1>3, <2>1 DEF Refuse, DocumentsInv, DocumentsOK, Current
  <1>4. CASE ReadAgain(u)
    <2> DEFINE left == IF u.left = 0 THEN ConflictRetries ELSE u.left - 1
               new == Reading(u.doc, u.by, u.change, left)
    <2>1. left \in 0..ConflictRetries
      BY <1>1, FileBackfillAssumption DEF Updates
    <2>2. new \in Updates /\ new.read = source[new.doc]
      BY <1>1, <2>1 DEF Reading, Updates, DocumentsInv, DocumentsOK
    <2>3. updates' = (updates \ {u}) \cup {new} /\ UNCHANGED source
      BY <1>4 DEF ReadAgain
    <2> HIDE DEF new
    <2>4. UNCHANGED <<indexed, content, tombstone>> /\ Growing
      BY <2>3, SameSets
    <2> QED
      BY <2>2, <2>3, <2>4 DEF DocumentsInv, DocumentsOK, Current
  <1>5. CASE Abandon(u) /\ UNCHANGED source
    <2> DEFINE new == [u EXCEPT !.by = "nobody"]
    <2>1. new \in Updates /\ (new.fresh => new.read = source[new.doc])
      BY <1>1 DEF Updates, DocumentsInv, Current
    <2>2. updates' = (updates \ {u}) \cup {new}
      BY <1>5 DEF Abandon
    <2> HIDE DEF new
    <2>3. UNCHANGED <<indexed, content, tombstone>> /\ Growing
      BY <1>5, SameSets
    <2> QED
      BY <1>5, <2>1, <2>2, <2>3 DEF DocumentsInv, DocumentsOK, Current
  <1> QED
    BY <1>2, <1>3, <1>4, <1>5 DEF Unanswered

\* An update stays what it is; only its sender may leave it.
LEMMA UpdateStays ==
    ASSUME DocumentsInv, NEW u \in updates, Unanswered(u), NEW a \in updates'
    PROVE  \E b \in updates : /\ a.doc = b.doc /\ a.change = b.change
                              /\ a.by \in {b.by, "nobody"}
  <1>1. updates \subseteq Updates
    BY DEF DocumentsInv, DocumentsOK
  <1>2. CASE Store(u)
    <2>1. PICK b \in updates : a = IF b.doc = u.doc THEN [b EXCEPT !.fresh = FALSE] ELSE b
      BY <1>2 DEF Store
    <2>2. a.doc = b.doc /\ a.change = b.change /\ a.by = b.by
      BY <1>1, <2>1 DEF Updates
    <2> QED
      BY <2>2
  <1>3. CASE Refuse(u)
    BY <1>3 DEF Refuse
  <1>4. CASE ReadAgain(u)
    BY <1>4 DEF ReadAgain, Reading
  <1>5. CASE Abandon(u)
    <2>1. CASE a = [u EXCEPT !.by = "nobody"]
      <3>1. a.doc = u.doc /\ a.change = u.change /\ a.by = "nobody"
        BY <1>1, <2>1 DEF Updates
      <3> QED
        BY <3>1
    <2>2. CASE a \in updates
      BY <2>2
    <2> QED
      BY <1>5, <2>1, <2>2 DEF Abandon
  <1> QED
    BY <1>2, <1>3, <1>4, <1>5 DEF Unanswered

-----------------------------------------------------------------------------
(* Types *)

\* Pages hold documents of the index; there is one in memory only while the run
\* is going through it, and a document only while it is being written.
Shape ==
    /\ page \cup unread \cup cur \subseteq indexed
    /\ pc \in {"idle", "next"} => page = {}
    /\ pc \notin {"write", "answer"} => cur = {}
    /\ pc # "idle" => exit = "none"

\* The job has one update on its way, and only while it waits for the answer.
Waiting ==
    /\ \A u \in updates :
          u.by = "job" => pc = "answer" /\ cur = {u.doc} /\ u.change = verdict
    /\ \A u, w \in updates : u.by = "job" /\ w.by = "job" => u = w

TypeInv == TypeOK /\ Current /\ Shape /\ Waiting

LEMMA Zeros == 0 \in 0..ScrollRetries /\ 0 \in 0..MaxFaults
  BY FileBackfillAssumption

LEMMA TypeInit == Init => TypeInv
  <1> SUFFICES ASSUME Init PROVE TypeInv
    OBVIOUS
  <1>1. PICK recent \in SUBSET Live :
            source = [d \in Docs |-> IF d \in recent THEN {} ELSE {"message"}]
    BY DEF Init
  <1>2. DocumentsOK
    BY <1>1 DEF Init, DocumentsOK, content, tombstone, indexed, Fields
  <1>3. SurroundingsOK
    BY Zeros DEF Init, SurroundingsOK
  <1>4. RunOK
    BY Zeros DEF Init, RunOK, Phases
  <1> QED
    BY <1>2, <1>3, <1>4 DEF Init, TypeInv, TypeOK, Current, Shape, Waiting

LEMMA FaultType ==
    ASSUME TypeOK, Fault \/ UNCHANGED faults
    PROVE  faults' \in 0..MaxFaults
  BY FileBackfillAssumption DEF TypeOK, SurroundingsOK, Fault

LEMMA PageParts ==
    ASSUME NEW docs, NEW p \in PagesOf(docs)
    PROVE  p \subseteq docs
  BY DEF PagesOf

LEMMA JudgeFaults ==
    ASSUME TypeOK, NEW d \in Docs, NEW v, Judge(d, v)
    PROVE  /\ faults' \in 0..MaxFaults
           /\ blamed \subseteq blamed' /\ blamed' \subseteq Docs \X TikaFailures
  BY FaultType DEF Judge, TypeOK, RunOK

\* The documents and the job's own update are as they were, or as an update that
\* is not the job's leaves them.
LEMMA OthersWaiting ==
    ASSUME TypeInv, NEW u \in updates, u.by # "job", Unanswered(u),
           UNCHANGED <<pc, cur, verdict>>
    PROVE  Waiting'
  <1>1. updates \subseteq Updates
    BY DEF TypeInv, TypeOK, DocumentsOK
  <1>2. ASSUME NEW a \in updates', a.by = "job"
        PROVE  \E b \in updates : /\ b.by = "job" /\ a.doc = b.doc /\ a.change = b.change
    BY <1>2, UpdateStays DEF TypeInv, TypeOK, DocumentsInv
  <1>3. ASSUME NEW a \in updates', NEW b \in updates', a.by = "job", b.by = "job"
        PROVE  a = b
    <2>1. CASE Store(u)
      <3>1. PICK v \in updates : a = IF v.doc = u.doc THEN [v EXCEPT !.fresh = FALSE] ELSE v
        BY <2>1 DEF Store
      <3>2. PICK w \in updates : b = IF w.doc = u.doc THEN [w EXCEPT !.fresh = FALSE] ELSE w
        BY <2>1 DEF Store
      <3>3. v.by = "job" /\ w.by = "job"
        BY <1>1, <1>3, <3>1, <3>2 DEF Updates
      <3>4. v = w
        BY <3>3 DEF TypeInv, Waiting
      <3> QED
        BY <3>1, <3>2, <3>4
    <2>2. CASE Refuse(u)
      BY <1>3, <2>2 DEF Refuse, TypeInv, Waiting
    <2>3. CASE ReadAgain(u)
      <3>1. a \in updates /\ b \in updates
        BY <1>3, <2>3 DEF ReadAgain, Reading
      <3> QED
        BY <1>3, <3>1 DEF TypeInv, Waiting
    <2>4. CASE Abandon(u)
      <3>1. a \in updates /\ b \in updates
        BY <1>1, <1>3, <2>4 DEF Abandon, Updates
      <3> QED
        BY <1>3, <3>1 DEF TypeInv, Waiting
    <2> QED
      BY <2>1, <2>2, <2>3, <2>4 DEF Unanswered
  <1>4. ASSUME NEW a \in updates', a.by = "job"
        PROVE  pc' = "answer" /\ cur' = {a.doc} /\ a.change = verdict'
    BY <1>2, <1>4 DEF TypeInv, Waiting
  <1> QED
    BY <1>3, <1>4 DEF Waiting

\* Once the job's update is answered or left, the job has none.
LEMMA JobAnswered ==
    ASSUME TypeInv, NEW u \in updates, u.by = "job", Store(u) \/ Refuse(u) \/ Abandon(u)
    PROVE  \A a \in updates' : a.by # "job"
  <1>1. updates \subseteq Updates
    BY DEF TypeInv, TypeOK, DocumentsOK
  <1>2. \A w \in updates \ {u} : w.by # "job"
    BY DEF TypeInv, Waiting
  <1>3. ASSUME NEW a \in updates', Store(u) PROVE a.by # "job"
    <2>1. PICK v \in updates \ {u} :
              a = IF v.doc = u.doc THEN [v EXCEPT !.fresh = FALSE] ELSE v
      BY <1>3 DEF Store
    <2>2. v.by # "job" /\ a.by = v.by
      BY <1>1, <1>2, <2>1 DEF Updates
    <2> QED
      BY <2>2
  <1>4. ASSUME NEW a \in updates', Refuse(u) PROVE a.by # "job"
    BY <1>2, <1>4 DEF Refuse
  <1>5. ASSUME NEW a \in updates', Abandon(u) PROVE a.by # "job"
    BY <1>1, <1>2, <1>5 DEF Abandon, Updates
  <1> QED
    BY <1>3, <1>4, <1>5

LEMMA ReturnType ==
    ASSUME TypeInv, NEW err \in BOOLEAN, NEW all \in Nat, Return(err, all), cur = {},
           pc \in {"next", "doc"}
    PROVE  TypeInv'
  <1>1. UNCHANGED <<source, updates, indexed, content, tombstone>>
    BY SameSets DEF Return, index
  <1>2. DocumentsOK' /\ Current'
    BY <1>1 DEF TypeInv, TypeOK, DocumentsOK, Current
  <1>3. SurroundingsOK'
    BY DEF Return, TypeInv, TypeOK, SurroundingsOK
  <1>4. exit' \in {"none", "ok", "failed"}
    BY DEF Return, ExitCode
  <1>5. RunOK'
    BY <1>4, Zeros DEF Return, TypeInv, TypeOK, RunOK, Phases, history
  <1>6. Shape'
    BY <1>1 DEF Return, TypeInv, Shape
  <1>7. Waiting'
    BY <1>1 DEF TypeInv, Waiting
  <1> QED
    BY <1>2, <1>3, <1>5, <1>6, <1>7 DEF TypeInv, TypeOK

LEMMA CountedType ==
    ASSUME TypeInv, NEW dead \in Nat, NEW transient \in Nat, Counted(dead, transient),
           faults' \in 0..MaxFaults, DocumentsInv', indexed \subseteq indexed',
           \A u \in updates' : u.by # "job", pc # "idle"
    PROVE  TypeInv'
  <1>1. SurroundingsOK'
    BY DEF Counted, TypeInv, TypeOK, SurroundingsOK, server
  <1>2. RunOK'
    BY DEF Counted, TypeInv, TypeOK, RunOK, Phases, client, history
  <1>3. Shape'
    <2>1. pc # "idle" => exit = "none"
      BY DEF TypeInv, Shape
    <2>2. cur' = {} /\ pc' = "doc" /\ UNCHANGED <<page, unread, exit>>
      BY DEF Counted, server
    <2> QED
      BY <2>1, <2>2 DEF TypeInv, Shape
  <1>4. Waiting'
    BY DEF Waiting
  <1> QED
    BY <1>1, <1>2, <1>3, <1>4 DEF TypeInv, TypeOK, DocumentsInv

LEMMA RetryType ==
    ASSUME TypeInv, pc = "next", Retry
    PROVE  /\ pc' \in {"next", "idle"} /\ exit' \in {"none", "failed"}
           /\ pc' # "idle" => exit' = "none"
           /\ scroll' \in {"none", "open", "expired"} /\ hasScroll' \in BOOLEAN
           /\ tries' \in 0..ScrollRetries /\ page' = {}
  <1>1. tries \in 0..ScrollRetries /\ page = {} /\ exit = "none"
    BY DEF TypeInv, TypeOK, RunOK, Shape
  <1>2. CASE tries < ScrollRetries
    <2>1. tries + 1 \in 0..ScrollRetries
      BY <1>1, <1>2, FileBackfillAssumption
    <2> QED
      BY <1>1, <1>2, <2>1 DEF TypeInv, TypeOK, SurroundingsOK, RunOK, Retry
  <1>3. CASE ~(tries < ScrollRetries)
    BY <1>3, Zeros DEF Retry
  <1> QED
    BY <1>2, <1>3

\* A step that leaves the documents alone.
LEMMA SameDocuments ==
    ASSUME TypeInv, UNCHANGED <<source, updates>>
    PROVE  /\ DocumentsInv' /\ Growing
           /\ UNCHANGED <<indexed, content, tombstone>>
  BY SameSets DEF TypeInv, TypeOK, DocumentsInv, DocumentsOK, Current

\* A step of the surroundings that leaves the job alone.
LEMMA AroundType ==
    ASSUME TypeInv, DocumentsInv', indexed \subseteq indexed', SurroundingsOK', Waiting',
           blamed' \subseteq Docs \X TikaFailures, UNCHANGED unread,
           UNCHANGED <<pc, hasScroll, tries, page, cur, verdict, scanned, dlq,
                       osTransient, exit, snapshot, attempted, missed>>,
           signal' \in {"none", "term", "deadline"}
    PROVE  TypeInv'
  <1>1. RunOK'
    BY DEF TypeInv, TypeOK, RunOK
  <1>2. Shape'
    BY DEF TypeInv, Shape
  <1> QED
    BY <1>1, <1>2 DEF TypeInv, TypeOK, DocumentsInv

LEMMA SurroundingsType ==
    ASSUME TypeInv,
           \/ \E d \in Docs : IndexDocument(d)
           \/ \E d \in Live : LiveJudge(d) \/ LiveWrite(d)
           \/ \E u \in updates : Serve(u) \/ LiveAnswer(u)
           \/ ScrollExpires \/ Cancel
    PROVE  TypeInv' /\ Growing
  <1>0. /\ DocumentsInv /\ SurroundingsOK /\ updates \subseteq Updates
        /\ blamed \subseteq Docs \X TikaFailures /\ signal \in {"none", "term", "deadline"}
    BY DEF TypeInv, TypeOK, DocumentsInv, DocumentsOK, RunOK
  <1>1. ASSUME NEW d \in Docs, IndexDocument(d) PROVE TypeInv' /\ Growing
    <2>1. UNCHANGED source /\ Send(d, "indexer", "message")
      BY <1>1 DEF IndexDocument
    <2>2. DocumentsInv' /\ UNCHANGED indexed /\ Growing
      BY <1>0, <2>1, SendInv, SameSets
    <2>3. faults' \in 0..MaxFaults
      BY <1>1, FaultType DEF IndexDocument, TypeInv
    <2>4. SurroundingsOK'
      BY <1>1, <2>3 DEF IndexDocument, TypeInv, TypeOK, SurroundingsOK, server
    <2>5. Waiting'
      BY <1>1, <2>1 DEF IndexDocument, TypeInv, Waiting, Send, Reading
    <2> QED
      BY <1>0, <1>1, <2>2, <2>4, <2>5, AroundType
      DEF IndexDocument, server, client, stats, history
  <1>2. ASSUME NEW d \in Live, LiveJudge(d) PROVE TypeInv' /\ Growing
    <2>1. d \in Docs
      BY FileBackfillAssumption
    <2>2. DocumentsInv' /\ UNCHANGED indexed /\ Growing
      BY <1>2, SameDocuments DEF LiveJudge, index
    <2>3. faults' \in 0..MaxFaults /\ blamed' \subseteq Docs \X TikaFailures
      BY <1>0, <1>2, <2>1, JudgeFaults, FaultType DEF LiveJudge, TypeInv
    <2>4. live' \in [Live -> {"new", "text", "permanent", "sent", "done"}]
      BY <1>0, <1>2 DEF LiveJudge, SurroundingsOK
    <2>5. SurroundingsOK'
      BY <1>0, <1>2, <2>3, <2>4 DEF LiveJudge, SurroundingsOK, server
    <2>6. Waiting'
      BY <1>2 DEF LiveJudge, TypeInv, Waiting, index
    <2> QED
      BY <1>0, <1>2, <2>2, <2>3, <2>5, <2>6, AroundType
      DEF LiveJudge, server, client, stats
  <1>3. ASSUME NEW d \in Live, LiveWrite(d) PROVE TypeInv' /\ Growing
    <2>1. UNCHANGED source /\ live[d] \in {"text", "permanent"} /\ Send(d, "live", live[d])
          /\ d \in Docs
      BY <1>3, FileBackfillAssumption DEF LiveWrite
    <2>2. DocumentsInv' /\ UNCHANGED indexed /\ Growing
      BY <1>0, <2>1, SendInv, SameSets
    <2>3. SurroundingsOK'
      BY <1>0, <1>3 DEF LiveWrite, SurroundingsOK, server
    <2>4. Waiting'
      BY <1>3, <2>1 DEF LiveWrite, TypeInv, Waiting, Send, Reading
    <2> QED
      BY <1>0, <1>3, <2>2, <2>3, <2>4, AroundType
      DEF LiveWrite, server, client, stats, history
  <1>4. ASSUME NEW u \in updates, Serve(u) PROVE TypeInv' /\ Growing
    <2>1. Unanswered(u) /\ u.by # "job"
      BY <1>4 DEF Serve, Unanswered
    <2>2. DocumentsInv' /\ indexed \subseteq indexed' /\ Growing
      BY <1>0, <2>1, UpdateInv, GrowingSets
    <2>3. Waiting'
      BY <1>4, <2>1, OthersWaiting DEF Serve
    <2>4. SurroundingsOK'
      BY <1>0, <1>4 DEF Serve, SurroundingsOK, server
    <2> QED
      BY <1>0, <1>4, <2>2, <2>3, <2>4, AroundType DEF Serve, server, client, stats, history
  <1>5. ASSUME NEW u \in updates, LiveAnswer(u) PROVE TypeInv' /\ Growing
    <2>1. Unanswered(u) /\ u.by # "job"
      BY <1>5 DEF LiveAnswer, Unanswered
    <2>2. DocumentsInv' /\ indexed \subseteq indexed' /\ Growing
      BY <1>0, <2>1, UpdateInv, GrowingSets
    <2>3. Waiting'
      BY <1>5, <2>1, OthersWaiting DEF LiveAnswer
    <2>4. faults' \in 0..MaxFaults
      BY <1>5, FaultType DEF LiveAnswer, TypeInv
    <2>5. live' \in [Live -> {"new", "text", "permanent", "sent", "done"}]
      BY <1>0, <1>5 DEF LiveAnswer, LiveRetries, SurroundingsOK
    <2>6. SurroundingsOK'
      BY <1>0, <1>5, <2>4, <2>5 DEF LiveAnswer, SurroundingsOK, server
    <2> QED
      BY <1>0, <1>5, <2>2, <2>3, <2>6, AroundType
      DEF LiveAnswer, server, client, stats, history
  <1>6. CASE ScrollExpires
    <2>1. DocumentsInv' /\ UNCHANGED indexed /\ Growing
      BY <1>6, SameDocuments DEF ScrollExpires, index
    <2>2. SurroundingsOK'
      BY <1>0, <1>6, FaultType DEF ScrollExpires, SurroundingsOK, TypeInv
    <2>3. Waiting'
      BY <1>6 DEF ScrollExpires, TypeInv, Waiting, index
    <2> QED
      BY <1>0, <1>6, <2>1, <2>2, <2>3, AroundType
      DEF ScrollExpires, client, stats, history
  <1>7. CASE Cancel
    <2>1. DocumentsInv' /\ UNCHANGED indexed /\ Growing
      BY <1>7, SameDocuments DEF Cancel, index
    <2>2. SurroundingsOK'
      BY <1>0, <1>7, FaultType DEF Cancel, SurroundingsOK, TypeInv, server
    <2>3. Waiting'
      BY <1>7 DEF Cancel, TypeInv, Waiting, index
    <2> QED
      BY <1>0, <1>7, <2>1, <2>2, <2>3, AroundType
      DEF Cancel, server, client, stats, history
  <1> QED
    BY <1>1, <1>2, <1>3, <1>4, <1>5, <1>6, <1>7

\* The job's write is stored, refused, or its answer does not come.
LEMMA WriteType ==
    ASSUME TypeInv, NEW u \in updates, Answer(u) \/ WriteFails(u)
    PROVE  /\ TypeInv' /\ Growing
           /\ \/ Store(u) /\ CountWritten
              \/ (Refuse(u) \/ (Abandon(u) /\ UNCHANGED source)) /\ CountUnwritten
              \/ ReadAgain(u) /\ UNCHANGED <<server, live, pc, client, page, cur, verdict,
                                             stats, signal, exit, history>>
  <1>1. u.by = "job" /\ pc = "answer" /\ cur = {u.doc} /\ u.change = verdict
    BY DEF TypeInv, Waiting, Answer, WriteFails
  <1>2. /\ Unanswered(u)
        /\ \/ Store(u) /\ CountWritten
           \/ (Refuse(u) \/ (Abandon(u) /\ UNCHANGED source)) /\ CountUnwritten
           \/ ReadAgain(u) /\ UNCHANGED <<server, live, pc, client, page, cur, verdict,
                                          stats, signal, exit, history>>
    BY DEF Answer, WriteFails, Unanswered
  <1>3. DocumentsInv' /\ Growing /\ indexed \subseteq indexed'
    BY <1>2, UpdateInv, GrowingSets DEF TypeInv, TypeOK, DocumentsInv
  <1>4. faults' \in 0..MaxFaults
    BY FaultType DEF Answer, WriteFails, TypeInv
  <1>5. CASE ReadAgain(u) /\ UNCHANGED <<server, live, pc, client, page, cur, verdict,
                                         stats, signal, exit, history>>
    <2>1. SurroundingsOK' /\ RunOK'
      BY <1>4, <1>5
      DEF TypeInv, TypeOK, SurroundingsOK, RunOK, server, client, stats, history
    <2>2. Shape'
      BY <1>3, <1>5 DEF TypeInv, Shape, server
    <2>3. PICK left : updates' = (updates \ {u}) \cup {Reading(u.doc, u.by, u.change, left)}
      BY <1>5 DEF ReadAgain
    <2> DEFINE new == Reading(u.doc, u.by, u.change, left)
    <2>4. /\ new.doc = u.doc /\ new.change = u.change
          /\ updates' = (updates \ {u}) \cup {new}
      BY <2>3 DEF Reading
    <2> HIDE DEF new
    <2>5. \A a \in updates' : a.by = "job" => a = new
      <3>1. \A w \in updates \ {u} : w.by # "job"
        BY <1>1 DEF TypeInv, Waiting
      <3> QED
        BY <2>4, <3>1
    <2>6. UNCHANGED <<pc, cur, verdict>>
      BY <1>5
    <2>7. Waiting'
      BY <1>1, <2>4, <2>5, <2>6 DEF Waiting
    <2> QED
      BY <1>2, <1>3, <2>1, <2>2, <2>7 DEF TypeInv, TypeOK, DocumentsInv
  <1>6. CASE (Store(u) \/ Refuse(u) \/ Abandon(u)) /\ (CountWritten \/ CountUnwritten)
    <2>1. \E dead, transient \in Nat : Counted(dead, transient)
      BY <1>6 DEF CountWritten, CountUnwritten
    <2>2. \A a \in updates' : a.by # "job"
      BY <1>1, <1>6, JobAnswered
    <2> QED
      BY <1>1, <1>2, <1>3, <1>4, <2>1, <2>2, CountedType
  <1> QED
    BY <1>2, <1>5, <1>6

\* A step of the run that leaves the documents alone.
LEMMA QuietType ==
    ASSUME TypeInv, UNCHANGED <<source, updates>>, SurroundingsOK', RunOK',
           /\ page' \cup unread' \cup cur' \subseteq indexed
           /\ pc' \in {"idle", "next"} => page' = {}
           /\ pc' \notin {"write", "answer"} => cur' = {}
           /\ pc' # "idle" => exit' = "none",
           pc # "answer"
    PROVE  TypeInv' /\ Growing
  <1>1. DocumentsInv' /\ Growing /\ UNCHANGED indexed
    BY SameDocuments
  <1>2. Shape'
    BY <1>1 DEF Shape
  <1>3. Waiting'
    BY DEF TypeInv, Waiting
  <1> QED
    BY <1>1, <1>2, <1>3 DEF TypeInv, TypeOK, DocumentsInv

LEMMA TypeNext ==
    ASSUME TypeInv, [Next]_vars
    PROVE  TypeInv' /\ Growing
  <1>0. SurroundingsOK /\ RunOK /\ Shape /\ DocumentsOK
    BY DEF TypeInv, TypeOK
  <1>1. CASE \/ \E d \in Docs : IndexDocument(d)
             \/ \E d \in Live : LiveJudge(d) \/ LiveWrite(d)
             \/ \E u \in updates : Serve(u) \/ LiveAnswer(u)
             \/ ScrollExpires \/ Cancel
    BY <1>1, SurroundingsType
  <1>2. CASE Start
    <2>1. SurroundingsOK' /\ RunOK'
      BY <1>0, <1>2
      DEF Start, SurroundingsOK, RunOK, Phases, index, server, client
    <2> QED
      BY <1>0, <1>2, <2>1, QuietType DEF Start, Shape, index, server, client
  <1>3. CASE Killed
    <2>1. SurroundingsOK'
      BY <1>0, <1>3, FaultType DEF Killed, SurroundingsOK, TypeInv
    <2>2. RunOK'
      BY <1>0, <1>3, Zeros DEF Killed, RunOK, Phases, stats, history
    <2>3. CASE pc # "answer"
      BY <1>0, <1>3, <2>1, <2>2, <2>3, QuietType DEF Killed, Shape
    <2>4. CASE pc = "answer"
      <3>1. PICK u \in updates : u.by = "job" /\ Abandon(u)
        BY <1>3, <2>4 DEF Killed
      <3>2. Unanswered(u)
        BY <1>3, <3>1 DEF Unanswered, Killed
      <3>3. DocumentsInv' /\ Growing
        BY <3>2, UpdateInv DEF TypeInv, TypeOK, DocumentsInv
      <3>4. \A a \in updates' : a.by # "job"
        BY <3>1, JobAnswered
      <3>5. Waiting'
        BY <3>4 DEF Waiting
      <3>6. Shape'
        BY <1>3 DEF Killed, Shape
      <3> QED
        BY <2>1, <2>2, <3>3, <3>5, <3>6 DEF TypeInv, TypeOK, DocumentsInv
    <2> QED
      BY <2>3, <2>4
  <1>4. CASE Interrupted \/ EndOfScroll \/ Skip
    <2>1. pc \in {"next", "doc"} /\ cur = {} /\ scanned \in Nat /\ scanned + 1 \in Nat
      <3>1. pc = "next" \/ pc = "doc"
        BY <1>4 DEF Interrupted, EndOfScroll, Skip
      <3> QED
        BY <1>0, <3>1 DEF Shape, RunOK
    <2>2. PICK err \in BOOLEAN, all \in Nat : Return(err, all)
      <3>1. (signal = "deadline") \in BOOLEAN /\ FALSE \in BOOLEAN
        OBVIOUS
      <3> QED
        BY <1>4, <2>1, <3>1 DEF Interrupted, EndOfScroll, Skip
    <2>3. TypeInv'
      BY <2>1, <2>2, ReturnType
    <2>4. Growing
      BY <2>2, SameSets DEF Return, index
    <2> QED
      BY <2>3, <2>4
  <1>5. CASE FirstBatch
    <2>1. Found \subseteq indexed /\ Found \subseteq Docs
      BY DEF Found, indexed
    <2>2. page' \subseteq Found /\ unread' \subseteq Found
      BY <1>5, PageParts DEF FirstBatch
    <2>3. SurroundingsOK' /\ RunOK'
      BY <1>0, <1>5, <2>1, <2>2, Zeros
      DEF FirstBatch, SurroundingsOK, RunOK, Phases, stats
    <2> QED
      BY <1>0, <1>5, <2>1, <2>2, <2>3, QuietType DEF FirstBatch, Shape, index
  <1>6. CASE ContinueScroll
    <2>1. page' \subseteq unread /\ unread' \subseteq unread
      BY <1>6, PageParts DEF ContinueScroll
    <2>2. SurroundingsOK' /\ RunOK'
      BY <1>0, <1>6, <2>1, Zeros
      DEF ContinueScroll, SurroundingsOK, RunOK, Phases, stats, history
    <2> QED
      BY <1>0, <1>6, <2>1, <2>2, QuietType DEF ContinueScroll, Shape, index
  <1>7. CASE NextFails
    <2>1. unread' \subseteq unread /\ missed' \subseteq missed \cup unread
      BY <1>7, PageParts DEF NextFails
    <2>2. faults' \in 0..MaxFaults
      BY <1>7, FaultType DEF NextFails, TypeInv
    <2>3. SurroundingsOK' /\ RunOK'
      BY <1>0, <1>7, <2>1, <2>2, RetryType
      DEF NextFails, SurroundingsOK, RunOK, Phases, stats
    <2> QED
      BY <1>0, <1>7, <2>1, <2>3, RetryType, QuietType DEF NextFails, Shape, index
  <1>8. CASE NextRefused
    <2>1. SurroundingsOK' /\ RunOK'
      BY <1>0, <1>8, RetryType
      DEF NextRefused, SurroundingsOK, RunOK, Phases, stats, history
    <2> QED
      BY <1>0, <1>8, <2>1, RetryType, QuietType DEF NextRefused, Shape, index
  <1>9. CASE PageDone
    <2>1. SurroundingsOK' /\ RunOK'
      BY <1>0, <1>9
      DEF PageDone, SurroundingsOK, RunOK, Phases, server, client, stats, history
    <2> QED
      BY <1>0, <1>9, <2>1, QuietType DEF PageDone, Shape, index, server
  <1>10. ASSUME NEW d \in Docs, Extract(d) PROVE TypeInv' /\ Growing
    <2>1. /\ faults' \in 0..MaxFaults /\ blamed' \subseteq Docs \X TikaFailures
          /\ verdict' \in Verdicts
      BY <1>0, <1>10, JudgeFaults DEF Extract, SurroundingsOK, RunOK, TypeInv
    <2>2. SurroundingsOK' /\ RunOK'
      BY <1>0, <1>10, <2>1
      DEF Extract, SurroundingsOK, RunOK, Phases, server, client
    <2> QED
      BY <1>0, <1>10, <2>2, QuietType DEF Extract, Shape, index, server
  <1>11. ASSUME NEW d \in Docs, Write(d) PROVE TypeInv' /\ Growing
    <2>1. /\ UNCHANGED source /\ verdict \in {"text", "permanent"} /\ pc = "write"
          /\ cur = {d} /\ Send(d, "job", verdict)
      BY <1>11 DEF Write
    <2>2. DocumentsInv' /\ UNCHANGED indexed /\ Growing
      BY <2>1, SendInv, SameSets DEF TypeInv, TypeOK, DocumentsInv
    <2>3. SurroundingsOK' /\ RunOK' /\ Shape'
      BY <1>0, <1>11, <2>2
      DEF Write, SurroundingsOK, RunOK, Shape, Phases, server, client, stats, history
    <2>4. \A u \in updates : u.by # "job"
      BY <2>1 DEF TypeInv, Waiting
    <2>5. pc' = "answer" /\ UNCHANGED <<cur, verdict>>
      BY <1>11 DEF Write
    <2> DEFINE new == Reading(d, "job", verdict, ConflictRetries)
    <2>6. new.doc = d /\ new.change = verdict /\ updates' = updates \cup {new}
      BY <2>1 DEF Send, Reading
    <2> HIDE DEF new
    <2>7. \A a \in updates' : a.by = "job" => a = new
      BY <2>4, <2>6
    <2>8. Waiting'
      BY <2>1, <2>5, <2>6, <2>7 DEF Waiting
    <2> QED
      BY <2>2, <2>3, <2>8 DEF TypeInv, TypeOK, DocumentsInv
  <1>12. CASE NoWrite
    <2>1. \E dead, transient \in Nat : Counted(dead, transient)
      BY <1>12 DEF NoWrite, CountUnwritten
    <2>2. faults' \in 0..MaxFaults /\ DocumentsInv' /\ UNCHANGED indexed /\ Growing
      BY <1>0, <1>12, SameDocuments DEF NoWrite, SurroundingsOK, index
    <2>3. \A u \in updates' : u.by # "job"
      BY <1>12 DEF NoWrite, TypeInv, Waiting, index
    <2> QED
      BY <1>12, <2>1, <2>2, <2>3, CountedType DEF NoWrite
  <1>13. ASSUME NEW u \in updates, Answer(u) \/ WriteFails(u) PROVE TypeInv' /\ Growing
    BY <1>13, WriteType
  <1>14. CASE UNCHANGED vars
    <2>1. DocumentsInv' /\ Growing /\ UNCHANGED indexed
      BY <1>14, SameDocuments DEF vars
    <2>2. SurroundingsOK' /\ RunOK'
      BY <1>0, <1>14 DEF vars, SurroundingsOK, RunOK
    <2>3. Shape'
      BY <1>0, <1>14, <2>1 DEF vars, Shape
    <2>4. Waiting'
      BY <1>14 DEF vars, TypeInv, Waiting
    <2> QED
      BY <2>1, <2>2, <2>3, <2>4 DEF TypeInv, TypeOK, DocumentsInv
  <1> QED
    BY <1>1, <1>2, <1>3, <1>4, <1>5, <1>6, <1>7, <1>8, <1>9, <1>10, <1>11, <1>12,
       <1>13, <1>14 DEF Next, Step, Done

LEMMA TypeCorrect == Spec => []TypeInv
  BY TypeInit, TypeNext, PTL DEF Spec

\* The job keeps its shape and never writes to a document that is not there
\* (UpdateContent and WriteTombstone do not upsert).
THEOREM FileBackfillTypeCorrect == Spec => []TypeOK
  BY TypeCorrect, PTL DEF TypeInv

\* No writer takes a field away that another has added: neither a rewrite that
\* keeps what it has read, nor an update that is served after conflicts, twice or
\* when nobody waits for it any more (preservePainless, retry_on_conflict).
THEOREM FieldsAreKept == Spec => FieldsKept
  <1>1. TypeInv /\ [Next]_vars => [\A d \in Docs : source[d] \subseteq source'[d]]_vars
    BY TypeNext DEF Growing
  <1> QED
    BY <1>1, TypeCorrect, PTL DEF Spec, FieldsKept

-----------------------------------------------------------------------------
(* A tombstone has a cause. *)

\* Only the file, or a Tika that has answered with an error or not to the end,
\* justifies a tombstone.
Justified(d) ==
    Kind[d] = "textless" \/ blamed \cap {<<d, "error">>, <<d, "lateBody">>} # {}

CauseInv ==
    /\ \A d \in tombstone \ content : Justified(d)
    /\ \A u \in updates : u.change = "permanent" => Justified(u.doc)
    /\ \A d \in Live : live[d] = "permanent" => Justified(d)
    /\ verdict = "permanent" => \A d \in cur : Justified(d)

\* A deadline before the answer gives extract_timeout, and a failed download
\* download_failed: neither is a reason to write a tombstone.
LEMMA JudgeJustified ==
    ASSUME NEW d \in Docs, Judge(d, "permanent")
    PROVE  Justified(d)'
  <1>1. Kind[d] \in Kinds
    BY FileBackfillAssumption
  <1>2. CASE \E failure \in TikaFailures :
                /\ "permanent" = TombstoneVerdict(TikaReason(failure))
                /\ blamed' = blamed \cup {<<d, failure>>}
    <2>1. PICK failure \in TikaFailures :
                /\ "permanent" = TombstoneVerdict(TikaReason(failure))
                /\ blamed' = blamed \cup {<<d, failure>>}
      BY <1>2
    <2>2. failure # "lateAnswer"
      BY <2>1 DEF TombstoneVerdict, TikaReason
    <2>3. failure = "error" \/ failure = "lateBody"
      BY <2>2 DEF TikaFailures
    <2> QED
      BY <2>1, <2>3 DEF Justified
  <1>3. CASE Kind[d] = "textless"
    BY <1>3 DEF Justified
  <1> QED
    BY <1>1, <1>2, <1>3 DEF Judge, TombstoneVerdict, Kinds

LEMMA BlamedGrows ==
    ASSUME TypeInv, [Next]_vars
    PROVE  blamed \subseteq blamed'
  <1>1. ASSUME NEW d \in Docs, IndexDocument(d) \/ Extract(d) \/ Write(d)
        PROVE  blamed \subseteq blamed'
    BY <1>1 DEF IndexDocument, Extract, Write, Judge, history
  <1>2. ASSUME NEW d \in Live, LiveJudge(d) \/ LiveWrite(d)
        PROVE  blamed \subseteq blamed'
    BY <1>2 DEF LiveJudge, LiveWrite, Judge, history
  <1>3. ASSUME NEW u \in updates, Serve(u) \/ LiveAnswer(u) \/ Answer(u) \/ WriteFails(u)
        PROVE  blamed \subseteq blamed'
    BY <1>3 DEF Serve, LiveAnswer, Answer, WriteFails, CountWritten, CountUnwritten,
                Counted, history
  <1>4. CASE \/ ScrollExpires \/ Cancel \/ Start \/ Killed \/ Interrupted \/ FirstBatch
             \/ ContinueScroll \/ EndOfScroll \/ NextFails \/ NextRefused \/ PageDone
             \/ Skip \/ NoWrite
    BY <1>4 DEF ScrollExpires, Cancel, Start, Killed, Interrupted, FirstBatch,
                ContinueScroll, EndOfScroll, NextFails, NextRefused, PageDone, Skip,
                NoWrite, Return, CountUnwritten, Counted, history
  <1> QED
    BY <1>1, <1>2, <1>3, <1>4 DEF Next, Step, Done, vars

\* What the three writers make of a document brings no tombstone of its own.
LEMMA CauseOfUpdates ==
    ASSUME TypeInv, CauseInv, NEW u \in updates, Unanswered(u), blamed \subseteq blamed'
    PROVE  /\ \A d \in tombstone' \ content' : Justified(d)'
           /\ \A a \in updates' : a.change = "permanent" => Justified(a.doc)'
  <1>1. \A d : Justified(d) => Justified(d)'
    BY DEF Justified
  <1>2. Growing
    BY UpdateInv DEF TypeInv, TypeOK, DocumentsInv
  <1>3. \A a \in updates' : a.change = "permanent" => Justified(a.doc)'
    BY <1>1, UpdateStays DEF CauseInv, TypeInv, TypeOK, DocumentsInv
  <1>4. ASSUME NEW d \in tombstone' \ content' PROVE Justified(d)'
    <2>1. d \in Docs /\ d \notin content /\ "tombstone" \in source'[d]
      BY <1>2, GrowingSets DEF tombstone
    <2>2. CASE d \in tombstone
      BY <1>1, <2>1, <2>2 DEF CauseInv
    <2>3. CASE d \notin tombstone
      <3>1. Store(u) /\ d = u.doc
        BY <2>1, <2>3
        DEF tombstone, Unanswered, Store, Refuse, ReadAgain, TypeInv, TypeOK, DocumentsOK
      <3>2. u \in Updates /\ u.read = source[u.doc] /\ source'[u.doc] = Changed(u)
        BY <3>1
        DEF Store, SameVersion, TypeInv, TypeOK, DocumentsOK, Current, Updates
      <3>3. "tombstone" \notin u.read
        BY <2>1, <2>3, <3>1, <3>2 DEF tombstone
      <3>4. u.change = "permanent"
        BY <2>1, <3>1, <3>2, <3>3 DEF Changed, Rewritten, Updates
      <3> QED
        BY <1>1, <3>1, <3>4 DEF CauseInv
    <2> QED
      BY <2>2, <2>3
  <1> QED
    BY <1>3, <1>4

LEMMA CauseNext ==
    ASSUME TypeInv, CauseInv, [Next]_vars
    PROVE  CauseInv'
  <1>0. /\ blamed \subseteq blamed'
        /\ \A d : Justified(d) => Justified(d)'
    BY BlamedGrows DEF Justified
  <1>1. ASSUME UNCHANGED <<source, live>>,
               updates' \subseteq updates \/ UNCHANGED updates,
               verdict' = "permanent" => UNCHANGED <<cur, verdict>> \/ cur' = {}
        PROVE  CauseInv'
    BY <1>0, <1>1, SameSets DEF CauseInv
  <1>2. ASSUME NEW d \in Docs, IndexDocument(d) PROVE CauseInv'
    <2> DEFINE new == Reading(d, "indexer", "message", ConflictRetries)
    <2>1. updates' = updates \cup {new} /\ new.change = "message"
      BY <1>2 DEF IndexDocument, Send, Reading
    <2>2. UNCHANGED <<source, live, cur, verdict, tombstone, content>>
      BY <1>2, SameSets DEF IndexDocument
    <2> HIDE DEF new
    <2> QED
      BY <1>0, <2>1, <2>2 DEF CauseInv
  <1>3. ASSUME NEW d \in Live, LiveJudge(d) PROVE CauseInv'
    <2>1. d \in Docs /\ live \in [Live -> {"new", "text", "permanent", "sent", "done"}]
      BY FileBackfillAssumption DEF TypeInv, TypeOK, SurroundingsOK
    <2>2. UNCHANGED <<source, updates, cur, verdict, tombstone, content>>
      BY <1>3, SameSets DEF LiveJudge, index
    <2>3. \A c \in Live : c # d => live'[c] = live[c]
      BY <1>3, <2>1 DEF LiveJudge
    <2>4. live'[d] = "permanent" => Justified(d)'
      <3>1. ASSUME live'[d] = "permanent" PROVE Judge(d, "permanent")
        BY <1>3, <2>1, <3>1 DEF LiveJudge
      <3> QED
        BY <2>1, <3>1, JudgeJustified
    <2> QED
      BY <1>0, <2>2, <2>3, <2>4 DEF CauseInv
  <1>4. ASSUME NEW d \in Live, LiveWrite(d) PROVE CauseInv'
    <2> DEFINE new == Reading(d, "live", live[d], ConflictRetries)
    <2>1. updates' = updates \cup {new} /\ new.doc = d /\ new.change = live[d]
      BY <1>4 DEF LiveWrite, Send, Reading
    <2>2. UNCHANGED <<source, cur, verdict, tombstone, content>>
      BY <1>4, SameSets DEF LiveWrite
    <2>3. \A c \in Live : live'[c] \in {live[c], "sent"}
      BY <1>4 DEF LiveWrite, TypeInv, TypeOK, SurroundingsOK
    <2> HIDE DEF new
    <2> QED
      BY <1>0, <2>1, <2>2, <2>3 DEF CauseInv
  <1>5. ASSUME NEW u \in updates, Serve(u) \/ LiveAnswer(u) PROVE CauseInv'
    <2>1. Unanswered(u)
      BY <1>5 DEF Serve, LiveAnswer, Unanswered
    <2>2. /\ UNCHANGED <<cur, verdict>>
          /\ \A c \in Live : live'[c] \in {live[c], "new", "done"}
      BY <1>5
      DEF Serve, LiveAnswer, LiveRetries, TypeInv, TypeOK, SurroundingsOK
    <2> QED
      BY <1>0, <2>1, <2>2, CauseOfUpdates DEF CauseInv
  <1>6. ASSUME NEW d \in Docs, Extract(d) PROVE CauseInv'
    <2>1. UNCHANGED <<source, updates, live, tombstone, content>> /\ cur' = {d}
      BY <1>6, SameSets DEF Extract, index
    <2>2. verdict' = "permanent" => Judge(d, "permanent")
      BY <1>6 DEF Extract
    <2>3. verdict' = "permanent" => Justified(d)'
      BY <2>2, JudgeJustified
    <2> QED
      BY <1>0, <2>1, <2>3 DEF CauseInv
  <1>7. ASSUME NEW d \in Docs, Write(d) PROVE CauseInv'
    <2> DEFINE new == Reading(d, "job", verdict, ConflictRetries)
    <2>1. updates' = updates \cup {new} /\ new.doc = d /\ new.change = verdict
      BY <1>7 DEF Write, Send, Reading
    <2>2. UNCHANGED <<source, live, cur, verdict, tombstone, content>> /\ cur = {d}
      BY <1>7, SameSets DEF Write
    <2> HIDE DEF new
    <2> QED
      BY <1>0, <2>1, <2>2 DEF CauseInv
  <1>8. ASSUME NEW u \in updates, Answer(u) \/ WriteFails(u) PROVE CauseInv'
    <2>1. Unanswered(u)
      BY <1>8 DEF Answer, WriteFails, Unanswered
    <2>2. /\ UNCHANGED live
          /\ UNCHANGED <<cur, verdict>> \/ cur' = {}
      BY <1>8 DEF Answer, WriteFails, CountWritten, CountUnwritten, Counted
    <2> QED
      BY <1>0, <2>1, <2>2, CauseOfUpdates DEF CauseInv
  <1>9. CASE Killed /\ pc = "answer"
    <2>1. PICK u \in updates : u.by = "job" /\ Abandon(u)
      BY <1>9 DEF Killed
    <2>2. Unanswered(u) /\ UNCHANGED live /\ cur' = {}
      BY <1>9, <2>1 DEF Killed, Unanswered
    <2> QED
      BY <1>0, <2>2, CauseOfUpdates DEF CauseInv
  <1>10. CASE \/ Killed /\ pc # "answer"
              \/ ScrollExpires \/ Cancel \/ Start \/ FirstBatch \/ ContinueScroll
              \/ NextFails \/ NextRefused \/ PageDone \/ NoWrite
    BY <1>1, <1>10 DEF Killed, ScrollExpires, Cancel, Start, FirstBatch, ContinueScroll,
                      NextFails, NextRefused, PageDone, NoWrite, CountUnwritten, Counted,
                      index
  <1>11. CASE Interrupted \/ EndOfScroll \/ Skip
    BY <1>1, <1>11 DEF Interrupted, EndOfScroll, Skip, Return, index
  <1>12. CASE UNCHANGED vars
    BY <1>1, <1>12 DEF vars
  <1> QED
    BY <1>2, <1>3, <1>4, <1>5, <1>6, <1>7, <1>8, <1>9, <1>10, <1>11, <1>12
    DEF Next, Step, Done

\* No failed download, no deadline before Tika's answer, no restart and no race
\* between the job, the live extractor and the es-indexer hides a file that has
\* text: only Tika failing on it, or not answering to the end, does
\* (isTombstoneReason in extractor.go, Extract in tika.go).
THEOREM OnlyTikaHides == Spec => []HiddenOnlyByTika
  <1>1. Init => CauseInv
    BY DEF Init, CauseInv, tombstone
  <1>2. TypeInv /\ CauseInv /\ [Next]_vars => CauseInv'
    BY CauseNext
  <1>3. CauseInv => HiddenOnlyByTika
    BY DEF CauseInv, HiddenOnlyByTika, Justified
  <1> QED
    BY <1>1, <1>2, <1>3, TypeCorrect, PTL DEF Spec

-----------------------------------------------------------------------------
(* What exit code 0 stands for *)

\* What the scroll found is dealt with, in memory, still to come, or was lost.
Covered == snapshot \ missed \subseteq attempted \cup unread \cup page

\* Documents the run left as it found them, but for the one in work.
Unserved == attempted \ (content \cup tombstone \cup cur)

\* The counters know of every such document.
Tallied == Cardinality(Unserved) <= dlq + osTransient

\* What main went by when it made a run a success.
Earned ==
    /\ osTransient = 0 /\ 100 * dlq <= DlqPercent * scanned
    /\ signal # "term" => snapshot \ missed \subseteq attempted

CoverInv ==
    /\ pc # "idle" => Covered
    /\ pc # "idle" \/ exit = "ok" => Tallied
    /\ exit = "ok" => Earned

LEMMA FewerUnserved ==
    ASSUME TypeInv, Unserved' \subseteq Unserved, Tallied,
           UNCHANGED <<dlq, osTransient>>
    PROVE  Tallied'
  <1>1. IsFiniteSet(Unserved)
    BY FileBackfillAssumption, FS_Subset DEF Unserved, TypeInv, TypeOK, RunOK
  <1>2. /\ Cardinality(Unserved') <= Cardinality(Unserved)
        /\ Cardinality(Unserved) \in Nat /\ Cardinality(Unserved') \in Nat
    BY <1>1, FS_Subset, FS_CardinalityType
  <1>3. dlq \in Nat /\ osTransient \in Nat
    BY DEF TypeInv, TypeOK, RunOK
  <1> QED
    BY <1>2, <1>3 DEF Tallied

LEMMA OneMoreUnserved ==
    ASSUME TypeInv, NEW d, Unserved' \subseteq Unserved \cup {d}, Tallied,
           \/ dlq' = dlq + 1 /\ osTransient' = osTransient
           \/ dlq' = dlq /\ osTransient' = osTransient + 1
    PROVE  Tallied'
  <1>1. IsFiniteSet(Unserved)
    BY FileBackfillAssumption, FS_Subset DEF Unserved, TypeInv, TypeOK, RunOK
  <1>0. Cardinality(Unserved) \in Nat
    BY <1>1, FS_CardinalityType
  <1>2. /\ IsFiniteSet(Unserved \cup {d})
        /\ Cardinality(Unserved \cup {d}) <= Cardinality(Unserved) + 1
    <2>1. CASE d \in Unserved
      <3>1. Unserved \cup {d} = Unserved
        BY <2>1
      <3>2. Cardinality(Unserved) <= Cardinality(Unserved) + 1
        BY <1>0
      <3> QED
        BY <1>1, <3>1, <3>2, Zenon
    <2>2. CASE d \notin Unserved
      <3>1. Cardinality(Unserved \cup {d}) = Cardinality(Unserved) + 1
        BY <1>1, <2>2, FS_AddElement
      <3>2. IsFiniteSet(Unserved \cup {d})
        BY <1>1, FS_AddElement
      <3> QED
        BY <1>0, <3>1, <3>2
    <2> QED
      BY <2>1, <2>2
  <1>3. /\ Cardinality(Unserved') <= Cardinality(Unserved \cup {d})
        /\ Cardinality(Unserved') \in Nat /\ Cardinality(Unserved \cup {d}) \in Nat
    BY <1>2, FS_Subset, FS_CardinalityType
  <1>4. dlq \in Nat /\ osTransient \in Nat
    BY DEF TypeInv, TypeOK, RunOK
  <1>5. Cardinality(Unserved') <= Cardinality(Unserved) + 1
    BY <1>0, <1>2, <1>3
  <1> QED
    BY <1>0, <1>3, <1>4, <1>5 DEF Tallied

LEMMA ReturnCovered ==
    ASSUME TypeInv, CoverInv, NEW err \in BOOLEAN, NEW all \in Nat, Return(err, all),
           pc # "idle", err \/ signal = "term" \/ snapshot \ missed \subseteq attempted
    PROVE  CoverInv'
  <1>1. /\ pc' = "idle" /\ scanned' = all
        /\ UNCHANGED <<dlq, osTransient, signal, snapshot, missed, attempted, content,
                       tombstone, cur>>
        /\ exit' = "ok" =>
              ~err /\ ~(osTransient > 0) /\ ~(100 * dlq > DlqPercent * all)
    BY SameSets DEF Return, ExitCode, index, history
  <1>2. Tallied'
    BY <1>1 DEF CoverInv, Tallied, Unserved
  <1>3. ASSUME exit' = "ok" PROVE Earned'
    <2>1. /\ osTransient = 0 /\ 100 * dlq <= DlqPercent * all
      BY <1>1, <1>3, FileBackfillAssumption DEF TypeInv, TypeOK, RunOK
    <2> QED
      BY <1>1, <1>3, <2>1 DEF Earned
  <1> QED
    BY <1>1, <1>2, <1>3 DEF CoverInv

\* A step that keeps the run's records and adds to the documents at most.
LEMMA AroundTheRun ==
    ASSUME TypeInv, CoverInv, Growing,
           UNCHANGED <<unread, page, cur, scanned, dlq, osTransient, exit, snapshot,
                       attempted, missed>>,
           pc = "idle" \/ exit = "ok" => pc' = pc /\ signal' = signal
    PROVE  CoverInv'
  <1>1. pc # "idle" \/ exit = "ok" => Tallied'
    <2> SUFFICES ASSUME pc # "idle" \/ exit = "ok" PROVE Tallied'
      OBVIOUS
    <2>1. Unserved' \subseteq Unserved
      BY GrowingSets DEF Unserved
    <2>2. Tallied
      BY DEF CoverInv
    <2> QED
      BY <2>1, <2>2, FewerUnserved
  <1>2. pc # "idle" => Covered'
    BY DEF CoverInv, Covered
  <1>3. exit = "ok" => Earned'
    BY DEF CoverInv, Earned
  <1> QED
    BY <1>1, <1>2, <1>3 DEF CoverInv

LEMMA CoverNext ==
    ASSUME TypeInv, CoverInv, [Next]_vars
    PROVE  CoverInv'
  <1>0. /\ Growing /\ content \subseteq content' /\ tombstone \subseteq tombstone'
        /\ pc # "idle" => exit = "none"
        /\ pc \notin {"write", "answer"} => cur = {}
        /\ pc = "next" => page = {}
        /\ scanned \in Nat /\ dlq \in Nat /\ osTransient \in Nat
    BY TypeNext, GrowingSets DEF TypeInv, TypeOK, RunOK, Shape
  <1>1. ASSUME NEW d \in Docs, IndexDocument(d) PROVE CoverInv'
    BY <1>0, <1>1, AroundTheRun DEF IndexDocument, server, stats, history
  <1>2. ASSUME NEW d \in Live, LiveJudge(d) \/ LiveWrite(d) PROVE CoverInv'
    BY <1>0, <1>2, AroundTheRun DEF LiveJudge, LiveWrite, server, stats, history
  <1>3. CASE ScrollExpires \/ Cancel \/ PageDone
    BY <1>0, <1>3, AroundTheRun
    DEF ScrollExpires, Cancel, PageDone, index, server, stats, history
  <1>4. ASSUME NEW u \in updates, Serve(u) \/ LiveAnswer(u) PROVE CoverInv'
    BY <1>0, <1>4, AroundTheRun DEF Serve, LiveAnswer, server, stats, history
  <1>5. ASSUME NEW d \in Docs, Write(d) PROVE CoverInv'
    BY <1>0, <1>5, AroundTheRun DEF Write, server, stats, history
  <1>6. CASE Start
    <2>1. attempted' = {} /\ snapshot' = {} /\ dlq' = 0 /\ osTransient' = 0 /\ exit' = "none"
      BY <1>6 DEF Start
    <2>2. Unserved' = {}
      BY <2>1 DEF Unserved
    <2>3. Cardinality(Unserved') = 0
      BY <2>2, FS_EmptySet
    <2> QED
      BY <2>1, <2>3 DEF CoverInv, Covered, Tallied
  <1>7. CASE Killed
    BY <1>7 DEF Killed, CoverInv
  <1>8. CASE Interrupted
    <2>1. /\ (signal = "deadline") \in BOOLEAN /\ Return(signal = "deadline", scanned)
          /\ pc # "idle" /\ (signal = "deadline" \/ signal = "term")
      BY <1>8 DEF Interrupted, TypeInv, TypeOK, RunOK
    <2> QED
      BY <1>0, <2>1, ReturnCovered
  <1>9. CASE EndOfScroll
    <2>1. Return(FALSE, scanned) /\ pc # "idle" /\ unread = {} /\ page = {}
      BY <1>0, <1>9 DEF EndOfScroll
    <2>2. snapshot \ missed \subseteq attempted
      BY <2>1 DEF CoverInv, Covered
    <2> QED
      BY <1>0, <2>1, <2>2, ReturnCovered
  <1>10. CASE Skip
    <2>1. /\ (signal = "deadline") \in BOOLEAN /\ Return(signal = "deadline", scanned + 1)
          /\ pc # "idle" /\ (signal = "deadline" \/ signal = "term") /\ scanned + 1 \in Nat
      BY <1>0, <1>10 DEF Skip, TypeInv, TypeOK, RunOK
    <2> QED
      BY <2>1, ReturnCovered
  <1>11. CASE FirstBatch \/ ContinueScroll \/ NextFails \/ NextRefused
    <2>1. /\ UNCHANGED <<content, tombstone, cur, dlq, osTransient, attempted>>
          /\ pc = "next"
      BY <1>11, SameSets DEF FirstBatch, ContinueScroll, NextFails, NextRefused, index, stats, history
    <2>2. Tallied' /\ exit = "none" /\ Covered
      BY <1>0, <2>1 DEF CoverInv, Tallied, Unserved
    <2>3. CASE FirstBatch
      <3>1. page' \cup unread' = snapshot'
        BY <2>3, PageParts DEF FirstBatch
      <3>2. exit' = "none"
        BY <2>2, <2>3 DEF FirstBatch
      <3> QED
        BY <2>2, <3>1, <3>2 DEF CoverInv, Covered
    <2>4. CASE ContinueScroll
      <3>1. /\ unread \subseteq page' \cup unread' /\ page = {}
            /\ UNCHANGED <<snapshot, missed, attempted, exit>>
        BY <1>0, <2>4, PageParts DEF ContinueScroll, history
      <3> QED
        BY <2>2, <3>1 DEF CoverInv, Covered
    <2>5. CASE NextFails
      <3>1. /\ unread \subseteq unread' \cup missed' /\ missed \subseteq missed'
            /\ page = {} /\ UNCHANGED <<snapshot, attempted>>
        BY <1>0, <2>5, PageParts DEF NextFails
      <3>2. exit' \in {"none", "failed"}
        BY <2>1, <2>5, RetryType DEF NextFails
      <3> QED
        BY <2>2, <3>1, <3>2 DEF CoverInv, Covered
    <2>6. CASE NextRefused
      <3>1. page = {} /\ UNCHANGED <<unread, missed, snapshot, attempted>>
        BY <1>0, <2>6 DEF NextRefused, history
      <3>2. exit' \in {"none", "failed"}
        BY <2>1, <2>6, RetryType DEF NextRefused
      <3> QED
        BY <2>2, <3>1, <3>2 DEF CoverInv, Covered
    <2> QED
      BY <1>11, <2>3, <2>4, <2>5, <2>6
  <1>12. ASSUME NEW d \in Docs, Extract(d) PROVE CoverInv'
    <2>1. /\ page' = page \ {d} /\ cur' = {d} /\ attempted' = attempted \cup {d}
          /\ UNCHANGED <<content, tombstone, unread, snapshot, missed, dlq, osTransient, exit>>
          /\ pc = "doc"
      BY <1>12, SameSets DEF Extract, index, server
    <2>2. Unserved' \subseteq Unserved
      BY <1>0, <2>1 DEF Unserved
    <2>3. Tallied'
      BY <1>0, <2>1, <2>2, FewerUnserved DEF CoverInv
    <2> QED
      BY <1>0, <2>1, <2>3 DEF CoverInv, Covered
  <1>13. ASSUME NEW d, cur \subseteq {d}, pc \in {"write", "answer"},
                \/ CountWritten /\ (verdict = "text" => d \in content')
                \/ CountUnwritten
         PROVE  CoverInv'
    <2>1. /\ cur' = {} /\ pc' = "doc"
          /\ UNCHANGED <<page, unread, snapshot, missed, attempted, exit>>
      BY <1>13
      DEF CountWritten, CountUnwritten, Counted, server, history
    <2>2. Covered' /\ exit' = "none" /\ Tallied
      BY <1>0, <1>13, <2>1 DEF CoverInv, Covered
    <2>3. CASE verdict = "text" /\ CountWritten
      <3>1. d \in content' /\ UNCHANGED <<dlq, osTransient>>
        BY <1>0, <1>13, <2>3 DEF CountWritten, CountUnwritten, Counted
      <3>2. Unserved' \subseteq Unserved
        BY <1>0, <1>13, <2>1, <3>1 DEF Unserved
      <3> QED
        BY <1>0, <2>1, <2>2, <3>1, <3>2, FewerUnserved DEF CoverInv
    <2>4. CASE ~(verdict = "text" /\ CountWritten)
      <3>1. Counted(1, 0) \/ Counted(0, 1)
        BY <1>13, <2>4 DEF CountWritten, CountUnwritten
      <3>2. \/ dlq' = dlq + 1 /\ osTransient' = osTransient
            \/ dlq' = dlq /\ osTransient' = osTransient + 1
        BY <1>0, <3>1 DEF Counted
      <3>3. Unserved' \subseteq Unserved \cup {d}
        BY <1>0, <1>13, <2>1 DEF Unserved
      <3> QED
        BY <2>1, <2>2, <3>2, <3>3, OneMoreUnserved DEF CoverInv
    <2> QED
      BY <2>3, <2>4
  <1>14. CASE NoWrite
    <2>1. pc = "write" /\ CountUnwritten
      BY <1>14 DEF NoWrite
    <2>2. PICK d : cur \subseteq {d}
      BY DEF TypeInv, TypeOK, RunOK
    <2> QED
      BY <1>13, <2>1, <2>2
  <1>15. ASSUME NEW u \in updates, Answer(u) \/ WriteFails(u) PROVE CoverInv'
    <2>1. u.by = "job" /\ u \in Updates
      BY <1>15 DEF Answer, WriteFails, TypeInv, TypeOK, DocumentsOK
    <2>2. pc = "answer" /\ cur = {u.doc} /\ u.change = verdict
      BY <2>1 DEF TypeInv, Waiting
    <2>3. CASE Store(u) /\ CountWritten
      <3>1. source'[u.doc] = Changed(u) /\ u.doc \in Docs
        BY <2>1, <2>3 DEF Store, TypeInv, TypeOK, DocumentsOK, Updates
      <3>2. verdict = "text" => u.doc \in content'
        BY <2>2, <3>1 DEF Changed, content
      <3> QED
        BY <1>13, <2>2, <2>3, <3>2
    <2>4. CASE CountUnwritten
      BY <1>13, <2>2, <2>4
    <2>5. CASE UNCHANGED <<server, live, pc, client, page, cur, verdict, stats, signal,
                           exit, history>>
      BY <1>0, <2>5, AroundTheRun DEF server, stats, history
    <2> QED
      BY <1>15, <2>3, <2>4, <2>5, WriteType
  <1>16. CASE UNCHANGED vars
    BY <1>0, <1>16, AroundTheRun DEF vars
  <1> QED
    BY <1>1, <1>2, <1>3, <1>4, <1>5, <1>6, <1>7, <1>8, <1>9, <1>10, <1>11,
       <1>12, <1>14, <1>15, <1>16
    DEF Next, Step, Done

\* Exit code 0 means what an operator takes it for: nothing the scroll showed was
\* left out, and what is left over is within the tolerated ratio, however the
\* run was disturbed and whatever the others wrote meanwhile (main.go).
THEOREM SuccessMeansCovered == Spec => []SuccessCovers
  <1>1. Init => CoverInv
    BY DEF Init, CoverInv
  <1>2. TypeInv /\ CoverInv /\ [Next]_vars => CoverInv'
    BY CoverNext
  <1>3. TypeInv /\ CoverInv => SuccessCovers
    <2> SUFFICES ASSUME TypeInv, CoverInv, exit = "ok", signal # "term"
                 PROVE  /\ snapshot \ missed \subseteq attempted
                        /\ 100 * Cardinality(attempted \ (content \cup tombstone))
                             <= DlqPercent * scanned
      BY DEF SuccessCovers
    <2>1. cur = {} /\ Tallied /\ Earned
      BY DEF TypeInv, Shape, CoverInv
    <2>2. IsFiniteSet(Unserved) /\ Unserved = attempted \ (content \cup tombstone)
      BY <2>1, FileBackfillAssumption, FS_Subset DEF Unserved, TypeInv, TypeOK, RunOK
    <2>3. Cardinality(Unserved) \in Nat
      BY <2>2, FS_CardinalityType
    <2>4. 100 * Cardinality(Unserved) <= DlqPercent * scanned
      <3> DEFINE n == Cardinality(Unserved)
                 limit == DlqPercent * scanned
      <3>1. n \in Nat /\ dlq \in Nat /\ limit \in Int /\ n <= dlq /\ 100 * dlq <= limit
        BY <2>1, <2>3, FileBackfillAssumption
        DEF Tallied, Earned, TypeInv, TypeOK, RunOK
      <3> HIDE DEF n, limit
      <3>2. 100 * n <= limit
        BY <3>1
      <3> QED
        BY <3>2 DEF n, limit
    <2> QED
      BY <2>1, <2>2, <2>4 DEF Earned
  <1> QED
    BY <1>1, <1>2, <1>3, TypeCorrect, PTL DEF Spec
=============================================================================
