----------------------------- MODULE BulkWriter ------------------------------
(***************************************************************************)
(* The bulk writer of esindex, called by the es-indexer (Bulk) and by the  *)
(* backfill (BulkDocs), which hand a batch in again until every message of *)
(* it is settled.  The writer cuts a batch into requests of bounded size,  *)
(* a message always with the virtual documents derived from it, and maps   *)
(* the flat list of answers of each request back to the messages.          *)
(*                                                                         *)
(* Everything is done by position: documents to messages, results to       *)
(* documents, answers to documents and their virtual children.             *)
(***************************************************************************)
EXTENDS Integers, Sequences, SequencesExt

CONSTANTS
    Messages,    \* the batch: convertible or not, and the sizes of its documents
    Refused,     \* documents <<message, k>> the index does not take
    MaxBody,     \* maxBulkBodyBytes, and what the index takes in one request
    MaxFaults    \* bound on lost requests, lost answers and transient answers

\* sizes[1] is the encoded size of the document of the message itself, the
\* others are those of its virtual children.
ASSUME BulkAssumption ==
    /\ Messages \in Seq([convertible : BOOLEAN, sizes : Seq(Nat \ {0})])
    /\ \A m \in DOMAIN Messages : Messages[m].sizes # <<>>
    /\ Refused \subseteq (DOMAIN Messages) \X (Nat \ {0})
    /\ MaxBody \in Nat
    /\ MaxFaults \in Nat

Ids == DOMAIN Messages
DocumentsOf(m) == {m} \X DOMAIN Messages[m].sizes

VARIABLES
    caller,     \* who writes: "consumer" or "backfill"
    pc,         \* "call", "send" or "done"
    remaining,  \* the messages handed in, in order
    attempt,    \* how often messages of the batch were handed in again
    settled,    \* message -> "open", "ok" or "dead"
    docs,       \* the messages converted to documents, in order
    docIdx,     \* their positions in remaining
    out,        \* results of messages that were not converted, by position
    docRes,     \* results of the documents dealt with so far
    start,      \* the first document not dealt with
    failed,     \* TRUE once a request has failed as a whole (firstErr)
    sent,       \* the size of the last request
    stored,     \* documents in the index
    faults      \* counter of the bound

call == <<remaining, docs, docIdx, out>>
vars == <<caller, pc, remaining, attempt, settled, docs, docIdx, out, docRes, start,
          failed, sent, stored, faults>>

Statuses == {0, 201, 400, 409, 413, 429, 503}

\* The numbers up to n that were chosen, as a loop over 1..n appends them.
InOrder(n, chosen) ==
    LET order[k \in 0..n] ==
            IF k = 0 THEN <<>>
            ELSE IF k \in chosen THEN Append(order[k - 1], k)
            ELSE order[k - 1]
    IN order[n]

\* The elements of a sequence at the chosen positions, appended by the same loop.
At(seq, chosen) ==
    LET order == InOrder(Len(seq), chosen)
    IN [j \in DOMAIN order |-> seq[order[j]]]

\* Init is any batch of either caller: the backfill converts rows by itself and
\* hands in documents only.
Init ==
    /\ caller \in {"consumer", "backfill"}
    /\ pc = "call"
    /\ remaining = InOrder(Len(Messages),
                     {m \in Ids : caller = "consumer" \/ Messages[m].convertible})
    /\ attempt = 0 /\ settled = [m \in Ids |-> "open"]
    /\ docs = <<>> /\ docIdx = <<>> /\ out = <<>> /\ docRes = <<>>
    /\ start = 1 /\ failed = FALSE /\ sent = 0
    /\ stored = {} /\ faults = 0

Fault == faults < MaxFaults /\ faults' = faults + 1

-----------------------------------------------------------------------------
(* Conversion and sub-batches *)

OK(status) == status >= 200 /\ status < 300

\* Mutant: overload is taken for a property of the document.
ClientErrorIsPermanent(status) == status >= 400 /\ status < 500

isPermanentStatus(status) ==
    status \notin {409, 429} /\ status >= 400 /\ status < 500

\* The positions of the messages that can be converted.
Convertible(msgs) == {i \in DOMAIN msgs : Messages[msgs[i]].convertible}

\* Bulk, up to the call of BulkDocs.
Convert ==
    /\ pc = "call"
    /\ docs' = At(remaining, Convertible(remaining))
    /\ docIdx' = InOrder(Len(remaining), Convertible(remaining))
    /\ out' = [i \in DOMAIN remaining |->
                  IF Messages[remaining[i]].convertible THEN 0 ELSE 400]
    /\ docRes' = <<>> /\ start' = 1 /\ failed' = FALSE
    /\ pc' = "send"
    /\ UNCHANGED <<caller, remaining, attempt, settled, sent, stored, faults>>

\* The sums of the first elements of a sequence of numbers.
Sums(numbers) ==
    LET sum[n \in 0..Len(numbers)] ==
            IF n = 0 THEN 0 ELSE sum[n - 1] + numbers[n]
    IN sum

\* A document with all its virtual children.
encodedDocSize ==
    [m \in Ids |-> Sums(Messages[m].sizes)[Len(Messages[m].sizes)]]

BodySize(sub) ==
    Sums([i \in DOMAIN sub |-> encodedDocSize[sub[i]]])[Len(sub)]

\* Mutant: the limit is looked at before the document is added.
SubBatchEndLate(ds, first) ==
    CHOOSE e \in first..Len(ds) :
        /\ e = first \/ BodySize(SubSeq(ds, first, e - 1)) <= MaxBody
        /\ e = Len(ds) \/ BodySize(SubSeq(ds, first, e)) > MaxBody

\* Mutant: only as many as fit, be it none.
SubBatchEndFits(ds, first) ==
    CHOOSE e \in (first - 1)..Len(ds) :
        /\ BodySize(SubSeq(ds, first, e)) <= MaxBody
        /\ e = Len(ds) \/ BodySize(SubSeq(ds, first, e + 1)) > MaxBody

\* The last document of the sub-batch that begins with the first one: as many as
\* fit, at least one.
subBatchEnd(ds, first) ==
    CHOOSE e \in first..Len(ds) :
        /\ e = first \/ BodySize(SubSeq(ds, first, e)) <= MaxBody
        /\ e = Len(ds) \/ BodySize(SubSeq(ds, first, e + 1)) > MaxBody

SubBatch == SubSeq(docs, start, subBatchEnd(docs, start))

\* Mutant: a document is never too large to be sent.
NeverTooLarge(sub) == FALSE

TooLarge(sub) == Len(sub) = 1 /\ encodedDocSize[sub[1]] > MaxBody

\* The results of a sub-batch are appended.
Dealt(sub, results) ==
    /\ docRes' = docRes \o results
    /\ start' = start + Len(sub)
    /\ UNCHANGED <<caller, pc, call, attempt, settled>>

\* A document too large for a request of its own is never sent.
Oversize ==
    /\ pc = "send" /\ start <= Len(docs)
    /\ TooLarge(SubBatch)
    /\ Dealt(SubBatch, <<413>>)
    /\ UNCHANGED <<failed, sent, stored, faults>>

-----------------------------------------------------------------------------
(* A request and its answers *)

\* How many documents the first ones of a sub-batch come to with their children.
Lines(sub) == Sums([i \in DOMAIN sub |-> Len(Messages[sub[i]].sizes)])

\* encodeBulkBody: every document is followed by its virtual children.
Body(sub) ==
    LET lines == Lines(sub)
    IN [p \in 1..lines[Len(sub)] |->
           LET i == CHOOSE i \in DOMAIN sub : lines[i - 1] < p /\ p <= lines[i]
           IN <<sub[i], p - lines[i - 1]>>]

\* The answer at a position, or none: the document has to be sent again.
bulkItemResult(answers, pos) == IF pos <= Len(answers) THEN answers[pos] ELSE 0

\* Mutant: one answer per message.
FirstAnswerOneEach(sub, i) == i

\* The position of the answer for the i-th document: behind those for the
\* documents before it and their children.
FirstAnswer(sub, i) == Lines(sub)[i - 1] + 1

\* One result per document: its own failure, else the first of its children.
mapBulkResults(sub, answers) ==
    [i \in DOMAIN sub |->
        LET first == FirstAnswer(sub, i)
            mine  == [k \in DOMAIN Messages[sub[i]].sizes |->
                         bulkItemResult(answers, first + k - 1)]
            bad   == {k \in DOMAIN mine : ~OK(mine[k])}
        IN IF bad = {} THEN mine[1]
           ELSE mine[CHOOSE k \in bad : \A other \in bad : k <= other]]

\* The request gets an answer: the index takes or refuses each document, but for
\* some that meet an overload or a conflict; the last answer may be missing.
Answer(doc) == IF doc \in Refused THEN 400 ELSE 201

Answered ==
    /\ pc = "send" /\ start <= Len(docs)
    /\ ~TooLarge(SubBatch)
    /\ BodySize(SubBatch) <= MaxBody
    /\ sent' = BodySize(SubBatch)
    /\ \E sub \in {SubBatch} : \E body \in {Body(sub)} :
          \E delayed \in SUBSET DOMAIN body, status \in {409, 429, 503}, cut \in 0..1 :
             LET answers == SubSeq([p \in DOMAIN body |->
                                       IF p \in delayed THEN status ELSE Answer(body[p])],
                                   1, Len(body) - cut)
                 taken   == {p \in DOMAIN body \ delayed : Answer(body[p]) = 201}
             IN /\ IF delayed = {} /\ cut = 0 THEN UNCHANGED faults ELSE Fault
                /\ stored' = stored \cup {body[p] : p \in taken}
                /\ Dealt(sub, mapBulkResults(sub, answers))
    /\ UNCHANGED failed

\* Mutant: a failed request returns no results.
NoResults(sub) == <<>>

batchFailure(sub) == [i \in DOMAIN sub |-> 0]

\* The request fails as a whole: it or its answer is lost after any part of it
\* was carried out, or it is too large for the index.  The next sub-batch is sent
\* all the same.
RequestFails ==
    /\ pc = "send" /\ start <= Len(docs)
    /\ ~TooLarge(SubBatch)
    /\ sent' = BodySize(SubBatch)
    /\ \E sub \in {SubBatch} :
          /\ IF BodySize(sub) > MaxBody
             THEN UNCHANGED <<stored, faults>>
             ELSE /\ Fault
                  /\ \E done \in SUBSET (ToSet(Body(sub)) \ Refused) :
                        stored' = stored \cup done
          /\ Dealt(sub, batchFailure(sub))
    /\ failed' = TRUE

-----------------------------------------------------------------------------
(* The result, and what the callers make of it *)

\* The result of the message at position i (Bulk, after BulkDocs).
Result(i) ==
    LET mine == {j \in DOMAIN docIdx : docIdx[j] = i /\ j \in DOMAIN docRes}
    IN IF mine = {} THEN out[i] ELSE docRes[CHOOSE j \in mine : TRUE]

\* The backfill tries the whole batch again after an error, the consumer goes by
\* the single results.
After(i) ==
    CASE caller = "backfill" /\ failed   -> "open"
      [] OK(Result(i))                   -> "ok"
      [] isPermanentStatus(Result(i))    -> "dead"
      [] OTHER                           -> "open"

\* Mutant: only what got no answer is tried again.
OnlyUnanswered(outcome) == {i \in DOMAIN remaining : Result(i) = 0}

\* The positions of the messages that are tried again.
Unsettled(outcome) == {i \in DOMAIN remaining : outcome[remaining[i]] = "open"}

Return ==
    /\ pc = "send" /\ start > Len(docs)
    /\ settled' = [m \in Ids |->
                      IF \E i \in DOMAIN remaining : remaining[i] = m
                      THEN After(CHOOSE i \in DOMAIN remaining : remaining[i] = m)
                      ELSE settled[m]]
    /\ remaining' = At(remaining, Unsettled(settled'))
    /\ attempt' = attempt + 1
    /\ pc' = IF remaining' = <<>> THEN "done" ELSE "call"
    /\ docs' = <<>> /\ docIdx' = <<>> /\ out' = <<>> /\ docRes' = <<>>
    /\ start' = 1 /\ failed' = FALSE /\ sent' = 0
    /\ UNCHANGED <<caller, stored, faults>>

Done == pc = "done" /\ UNCHANGED vars

Next == Convert \/ Oversize \/ Answered \/ RequestFails \/ Return \/ Done

Spec == Init /\ [][Next]_vars

\* The callers retry as long as they run; how often the index fails is bounded.
FairSpec == Spec /\ WF_vars(Convert \/ Oversize \/ Answered \/ RequestFails \/ Return)
-----------------------------------------------------------------------------
(* Properties *)

\* Shapes, and the alignment everything rests on: there is exactly one result
\* for every document dealt with.
TypeOK ==
    /\ caller \in {"consumer", "backfill"}
    /\ pc \in {"call", "send", "done"}
    /\ remaining \in Seq(Ids) /\ docs \in Seq(Ids)
    /\ settled \in [Ids -> {"open", "ok", "dead"}]
    /\ Len(docIdx) = Len(docs)
    /\ out \in Seq({0, 400})
    /\ docRes \in Seq(Statuses)
    /\ start = Len(docRes) + 1 /\ attempt \in Nat
    /\ failed \in BOOLEAN /\ sent \in Nat
    /\ stored \subseteq UNION {DocumentsOf(m) : m \in Ids}
    /\ faults \in 0..MaxFaults

\* A message is reported written only when its document and every virtual child
\* of it are in the index, whatever was sent with it and however the requests
\* were cut, lost or answered in part.
OkIsStored == \A m \in Ids : settled[m] = "ok" => DocumentsOf(m) \subseteq stored

\* A message is given up only for a reason that lies in it: no overload, lost
\* answer or neighbour in its batch sends it to the dead letters.
DeadForCause ==
    \A m \in Ids : settled[m] = "dead" =>
        \/ ~Messages[m].convertible
        \/ encodedDocSize[m] > MaxBody
        \/ DocumentsOf(m) \cap Refused # {}

\* No request is larger than the limit, however large the batch.
RequestsFit == sent <= MaxBody

\* The messages this caller hands in, and what the callers are promised of them:
\* see BulkOutcome.
Batch == {m \in Ids : caller = "consumer" \/ Messages[m].convertible}

Outcome == INSTANCE BulkOutcome WITH
    Documents <- [m \in Ids |-> DocumentsOf(m)],
    Hopeless <- {m \in Ids : \/ ~Messages[m].convertible
                             \/ encodedDocSize[m] > MaxBody
                             \/ DocumentsOf(m) \cap Refused # {}},
    batch <- Batch, outcome <- settled, stored <- stored, finished <- (pc = "done")

\* The writer and the retries of its callers keep the promise: outcomes are final
\* and true, and no message is dropped before it has one.
ImplementsBulkOutcome == Outcome!Spec

\* Nothing is handed in again without a fault that made it necessary: with an
\* index in good health one call settles any batch, whatever is in it.
RetriesPaidFor == pc # "done" => attempt <= faults

\* Every batch is settled in the end: no document and no combination of
\* documents makes its callers repeat a request for ever.
EventuallySettled == <>(pc = "done")
=============================================================================
