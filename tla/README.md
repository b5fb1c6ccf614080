# A verification project for octo-search-indexer

octo-search-indexer moves chat messages from MySQL into an OpenSearch index:

    MySQL shards --> searchetl-producer --> Kafka topic --> es-indexer ------> OpenSearch
        |                                       |                                ^  ^  ^
        |                                       +--------> file-extractor -------+  |  |
        +--> backfill (one-shot, around Kafka) ---------------------------------- --+  |
                                        file-content-backfill (one-shot) -------------+
    reconcile: counts and samples MySQL against OpenSearch

Every stage reads a stream, makes the outcome of each item durable somewhere and
moves a resume point (a cursor row, a committed offset, a checkpoint file).  No
stage shares a transaction with its neighbours, so that one question runs
through the whole system: *is everything behind a resume point really settled,
and does everything get settled in the end?*  `AtLeastOnce` states that promise
once; each stage with a resume point is shown to implement it.  `BulkOutcome` states
what the bulk writer, the only way into the index, owes to its callers.  Where two routes
write the same document a second question comes in: *do they agree on it, and may
they overwrite each other in any order?*

## Inventory

| component | state it keeps | operations | what is hard | what makes it correct |
|---|---|---|---|---|
| searchetl-producer (`internal/producer`) | cursor row per shard (MySQL), run lock (Redis, 30 min lifetime) | tick: acquire, read the clock, per shard read / produce body / produce dead letters / advance; renew, release; start, stop | ids become visible out of order; two replicas inside a tick once a lease has lapsed; calls that fail after they took effect | no row is skipped, cursors never move back, a release never takes a successor's lock, every row gets out |
| es-indexer (`internal/consumer`) | committed offset per partition (Kafka); batch and dispositions in memory | fetch, pre-bulk checks, bulk, route to the dead-letter topic with retry / spill / hard stop, commit, retry in place | the reader advances at the fetch; several partitions in one batch; an old owner that commits after a rebalance; crash between any two steps | nothing committed is unsettled, untrusted messages never in the index, good ones never dead-lettered, everything committed in the end |
| file-extractor (`internal/fileextract`) | committed offset per partition; batch, dispositions and attempts in memory | fetch, attempt (download, Tika, update or tombstone), give up, dead letter, commit, next pass | races with the es-indexer that writes the document; redelivery; failures of Tika taken for properties of a file; fetch errors | as above, and tombstones only for files without text, or for which Tika failed |
| esindex writer (`internal/esindex/writer.go`) | none beyond a call | bulk write: convert, cut into requests, send, map the answers to items by position | partial answers, virtual children in between, whole-request failures, documents too large for any request | an item is reported settled only if all its documents are stored, given up only for a cause of its own, and every batch ends |
| backfill (`internal/backfill`) | checkpoint file, spill file, sidecar with the synced length, all fsynced | read a page, write, spill, sync, advance; recover at start | a crash at any step, a record written in part | no row behind the checkpoint is unaccounted for, none is counted twice |
| file-content-backfill (`internal/filebackfill`) | the scroll (its cursor is on the server), counters | open the scroll, next page with retry, extract each document, judge by the counters at the end | a repeated scroll request, an expired scroll, a stop in the middle, two writers beside it | exit code 0 means the work was done, a file with text is hidden only where Tika failed for it, no writer takes away what another has added, reruns end |
| reconciliation (`internal/recon`) | none | count rows, documents and exclusions, sample rows, compare | rows and documents change between two queries, dead letters displace the sample, differences cancel out | a healthy verdict can be relied on, an exact index is called healthy |
| document projection (`internal/esindex`, `internal/producer/extract.go`, `internal/backfill/extract.go`) | none | row to message, message to document with virtual children; row to document | two routes with different code for one document; visibility that cannot be read | both routes give the same document, none is open to all by accident |
| mapping checks | none | comparison of mappings at the start | - | example-based tests fit better |
| configuration, observability, harness | none of interest | - | - | - |

Interaction is by Kafka topics (producer to es-indexer and file-extractor, each
a consumer group of its own), by documents (es-indexer replaces a document but
keeps `payload.file.content` and `contentMeta`, which only the file-extractor
and the file-content-backfill write), by the Redis lock and the cursor row
(replicas of the producer), and by files on the local disk (spill files for an
operator, spill and checkpoint of the backfill for its next run).

## Modules

| module | what it is |
|---|---|
| `AtLeastOnce` | abstract specification: settled items stay settled, a resume point covers settled items only; it may move back, and items may be settled twice |
| `IndexerConsumer` | the es-indexer consumer group: any number of workers over shared partitions |
| `IndexerHostCrash` | the same on a host whose page cache may be lost |
| `ProducerETL` | any number of producer replicas, the shards with their writers, the lock |
| `FileExtractor` | one file-extractor process, beside the es-indexer that writes the documents |
| `Backfill` | the backfill job, its three files, and the failures of process and host |
| `FileBackfill` | the file-content-backfill beside the es-indexer and the live extractor |
| `BulkOutcome` | abstract specification: the outcomes of a batch are true and final, and the batch is done with only when every message has one |
| `BulkWriter` | the bulk writer of esindex with either of its callers |
| `Projection` | from a row to its documents on both routes, and recon's own reading of the row; no state |
| `Reconcile` | both gates of recon, with the routes that write meanwhile (extends `Projection`) |
| `MC*` | small instances of these for TLC: logs, poison rows, symmetry |
| `IndexerConsumerProofs`, `ProducerETLProofs`, `FileExtractorProofs`, `BackfillProofs`, `FileBackfillProofs`, `ReconcileProofs`, `BulkWriterProofs` | theorems and proofs |

`IndexerConsumer`, `FileExtractor` and `Backfill` take the answer to a write as one
step with every outcome per item; `BulkWriter` shows what stands behind such a
step.  `FileBackfill` reduces the live extractor to its decision and its update;
`FileExtractor` has the rest of it.  `Reconcile` reduces a route to the documents it
writes for a row; `ProducerETL`, `IndexerConsumer` and `Backfill` have the way there.

`PROJECT.json` maps every definition to the lines it stands for.

### IndexerConsumer

`pc[w]` is where `Processor.Run` of worker `w` is: `fetch` (`FetchMessage`,
`StartBatch`), `precheck` (routing the poison found before the bulk), `settle`
(`BulkSome`, then routing what the index refused), `commit`; `down` between a
stop and the restart.  A message is a pair of partition and offset, its content
only its kind: good, of an unknown schema, without a trustworthy visibility
list, refused by the index.  `disp` holds the code's dispositions; `poison` marks
a transient message the current pass is about to route.  One bulk call is one
action whose answers are any combination the index can give, lost requests and
lost responses included.  `WriteDLQFails` covers a record that was written
although its acknowledgement was lost.  `Join`, `TakeOver` and `Revoke` hand a
partition over in both orders: the new owner may start before the old one knows,
and the old one may still commit.  The broker takes any offset it is given, also
a lower one.

### ProducerETL

`rows[s]` is the shard in id order; a row is open (it has its id but nobody sees
it), visible or rolled back.  `created` may precede the id by up to `Skew`, an
open transaction lasts at most `MaxOpen`.  `now` is the database clock, the only
one the gate uses.  The lock has one owner, none, or is an *orphan*: still there
although its run is over (crash, failed release).  `Lapse` ends a lease under a
run that goes on.  `RenewLost` is the renewal that finds out, `Cancel` one that
fails or a SIGTERM.  `TickFails` gives the tick up at any call, with every effect
the call may have had.  The message clock, the row's payload and what
`extractMessage` does with it are reduced to whether the row is dead-lettered
(`Poison`).  A shard in `Broken` cannot be read at all: `runTick` returns the error,
so that every tick ends there.

### FileExtractor

`pc` is `fetch`, `pass` (one pass of `processBatch`, in fetch order), `route`
(inside `dlqHandler.Send`), `commit` or `down`.  `attempts` is counted per message
and survives the passes.  One process is modelled; a rebalance is a reader that
goes back to the committed offset while the batch in memory stays, so that an
offset may be in a batch twice (which of the two `sort.Slice` puts first is left
open).  `IndexDocument` may happen at any time or never.  `FetchError` is an error
of the broker in the middle of a batch.  Downloads, the SSRF filter and Tika are
reduced to outcomes: the file gives text, it never does (tombstone), a call fails
(dead letter without tombstone), Tika fails other than by a deadline before its answer
(dead letter with tombstone), the update has to be repeated.

### Backfill

`pc` follows `Runner.runTable`: `read`, `write` (rows to be spilled in id order,
then bulk rounds over what remains), `sync` and `sidecar` (the two halves of
`DLQSpill.Sync`), `advance`, `close` (the deferred `Close` of an error return),
`done`, and `down` between two runs of the job.  The spill file is a sequence of
records; lengths are counted in records, and `Garbage` stands for bytes that are
no record.  `flushed` says how much of it survives a host crash, `sidecar` is the
content of `backfill-dlq.synced`.  A host crash leaves any part of the unsynced
end, possibly torn.  Both renames may have happened although the call failed
(the `fsync` of the directory comes last).  A row is good, unreadable, refused
by the index, or taken by the index while a virtual child of it is refused.
Abstracted: no rows are added to the history while the job runs, a checkpoint path
is configured, message ids are unique, and the index treats a row alike each
time it is asked.

### FileBackfill

`pc` is where `Runner.Run` is: `next` (`nextWithRetry`), `doc` (the loop over a page,
the limiter), `write` (inside `ExtractAndWrite`, after the decision), `answer` (its
update is sent), `idle` between two runs of the job.  The scroll is on the server:
`unread` is what its cursor has still to hand out, and `NextFails` may move it although
the answer is lost.
`Judge` is the decision of `ExtractAndWrite`, shared with the live extractor;
`TikaReason` is what `tika.Extract` makes of each way in which Tika fails.
`Cancel` is SIGTERM or the end of `-timeout`, `Killed` a SIGKILL.  `Start` is the next
run: the job is started until it has succeeded once.

A document is the set of fields it has (`source`), and three parties change it: the
es-indexer with the script `preservePainless` (`Rewritten`), the live extractor and the
job with partial updates without upsert (`Changed`, `Applies`).  None of this is one
step.  An update under way is a record in `updates`: it has read the document
(`Reading`), changes what it has read, and stores the result if the document has not
been stored since (`Store`, `SameVersion`); else it reads again while
`retry_on_conflict` allows it (`ReadAgain`) and is refused then (`Refuse`).  The
es-indexer sends a refused item again.  The other two may stop waiting (`Abandon`:
a lost answer, a 429 or 5xx, a cancelled context), and the server may still carry
the update out, at any later time, or never.  `FieldsKept` is about what comes of it: the
script alone keeps what it has read, the version check what was added since, and a
mutant that drops either is caught.  That OpenSearch checks the version is taken from
the `retry_on_conflict` that `writer.go:407` and `oswriter.go:91` send; that `_source`
shows the script all fields is what `mapping_compat.go` makes sure of at start.

What reading the code for this module showed:

- `runner.go:153` says a scroll query is idempotent and a retry therefore safe.
  It is not once the cursor has moved: the page is skipped (`missed`) and the job
  may still exit 0.  `SuccessCovers` excludes exactly these documents; the next
  backfill finds them.
- A run that fails by its ratio leaves the documents that are gone, and a rerun
  sees little else, so that its ratio goes towards 100%.  The job cannot succeed any
  more by being repeated, which is the second case of `RerunsEnd`.
- `-rate`: the help (`main.go:57`) calls values up to 0 unlimited, `NewRunner` turns
  0 into the default of 50.
- A SIGTERM ends the job with exit code 0, so that `SuccessCovers` leaves it out.

Abstracted: every hit of the scroll can be parsed.  `parseHits` passes over one that
cannot (`source.go:220-226`), and a page of such hits alone counts as the end
(`source.go:190-194`); documents that the modelled writers produce are not among them.
An update that changes nothing is stored like any other.

### BulkWriter

One call of `Bulk` or `BulkDocs` is `Convert` (documents and their positions), then for
each sub-batch one of `Oversize`, `Answered`, `RequestFails`, and `Return`, where the
results by position become what the caller does with each message: the consumer
goes by the single results, the backfill repeats the whole batch if any request
failed.  A document is the pair of its message and the number it has among the
message's documents (1 is the message itself); a body is the sequence of these pairs,
which is what the walk over the answers relies on.  Requests are lost before or
after any part of them was carried out; answers are cut short by one.  `attempt` is the
counter of both retry loops (`runner.go:192`, `consumer.go:164`).  The loops that build
`docs`, `docIdx` and `next` are written as one loop over positions (`InOrder`, `At`), and
sums and lists are recursive functions, so that theorems can be stated about them.
A body that cannot be encoded (`writer.go:362-368`) fails the call for good and its
callers would repeat it for ever; a converted payload always can be, and the model has
such a failure only as one of the requests that fail, `MaxFaults` times at most.

`BulkOutcome` sees only the outcome of each message, the documents in the index and
whether the batch is done with: conversion and oversize documents are stutters, a
request is a `Store`, the end of a call a `Settle`.

### Projection and Reconcile

A row is a record of what the code tells apart: can its id be parsed, is it
encrypted, is its payload an object, of which type, with which visibility, does its
message fit on the topic.  `LiveDocs` follows the row through `extractMessage`, the
size check, the precheck of the es-indexer and `DocFromMessage`; `docFromRow` is the
backfill's own route to the same document (for the fields it takes from the row,
`backfill/extract.go:83-138` repeats the producer's code, and one definition, `Extracted`,
stands for both: that the two copies agree was read, `RoutesAgree` compares the rest); `parsePayloadVisibility` is recon's
third reading of it.

`Reconcile` starts from any mix of old documents, one without a row, and old spill
records.  The gate is one step per query, and between any two of them rows arrive
(`Insert`), either route writes (`Deliver`, `BackfillRow`; any part of a row's documents
may be refused) and the index refreshes.  `searchable` is what queries see.  The
history variables `fresh`, `due` and `quiet` say which documents the modelled routes
wrote, which rows the gate ought to compare, and whether it was left alone.

What it leaves open is open in the code as well:

- A row whose message lost its raw payload (over 1 MB) has different documents on
  the two routes, against `doc_enrich.go:15`; `RoutesAgree` excludes it.
- The standalone gate does not refresh and is told the number of dead letters by
  its operator (`-dlq`).  Dead letters of the live route are not known to any gate, so
  that such a window is always a mismatch, as is one with a spill record whose row was
  accepted since.  Both err on the safe side.
- Documents excluded from raw indexing that appear between two counts can make
  `Validate` refuse the counts: an error, not a verdict.
- The gate compares rows with documents: a document that an older release left open
  to all passes if recon cannot read the row's visibility either.

Abstracted: one window over all rows; a count is atomic per query set; a route
writes one row in one step.

## Runs

| run | instance | shows |
|---|---|---|
| `IndexerSafety` | 2 workers, 2 partitions (3 messages, 3 kinds), no spill directory, 2 faults | nothing committed is lost; untrusted messages stay out of the index, good ones out of the dead-letter queue |
| `IndexerHandover` | 2 workers, 1 partition (poison, good, refused), spill directory, 1 fault | the consumer implements `AtLeastOnce`; readers are never ahead of what their worker answers for; every message is committed in the end, even with a dead-letter topic that never recovers |
| `ProducerSafety` | 2 replicas, 2 shards of which the second cannot be read, 3 rows in the first, batches of 2, lag 3, transactions up to 1, skew 1, 1 fault | no row skipped, no cursor back, no lease taken, `AtLeastOnce` implemented; every committed row of the readable shard gets out, although each tick ends with an error |
| `ExtractorSafety` | 2 partitions (4 messages, 4 kinds), batches of 2, 2 attempts, 1 fault, 1 fetch error | but for what the fetch error throws away: `AtLeastOnce` is implemented, the reader is never ahead of the batch, and bounded attempts commit everything in the end, with or without the document |
| `BackfillSafety` | 2 tables (5 and 2 rows), pages of 4, 4 faults | the spill file can be recovered after every failure, the checkpoint covers accounted rows only (`AtLeastOnce`), the count gate of the finished job balances, the job finishes |
| `FileBackfillSafety` | 4 documents (two with text, one of them recent and written again; one without; one gone), pages of 2, 1 retry of the scroll, 1 retry on conflict, 50% tolerated, 2 faults | exit code 0 covers the work, only a Tika that answers with an error or not to the end hides a file with text, no writer takes away what another has added, repeating the job comes to an end |
| `BulkSafety` | 6 messages (rich texts with virtual children, an unconvertible one, one too large, a refused child), requests up to 6, 3 faults, both callers | results are attributed to the right messages, nothing is given up for another's fault, requests fit, a call is repeated only after a fault, outcomes are final and nothing is dropped (`BulkOutcome`), every batch is settled |
| `ReconcileSafety` | 3 rows in 2 tables, one of any kind, one of them late; sample 1 or 3; up to 2 old documents and records, 1 fault; both modes | the routes agree, nothing is open to all by accident, a healthy verdict is right about its sample and, if all is sampled and nothing moves, about everything |

The violations below are runs too.

*Why these bounds are enough.*  A batch of two with three messages of a partition
gives a prefix, a hole and a message beyond the batch; two partitions give a
batch that mixes them; two workers or replicas give one that acts on stale
state.  One or two faults are what a loss takes: the first makes something
stale, the second hits while it is.  Three rows give a row before the cursor, one
in the chunk and one behind a gap; a clock that runs past lag plus transaction
gives every order of insert, commit and cutoff.  For the backfill, a page with two
unreadable and two refused rows gives spill records of both origins in one
page, a short last page and a second table give resumption in both; with four
faults a failed write, a failed sync, a torn rest and a crash can follow each
other.  For the file backfill two pages give a
scroll that can lose one, expire between them or be cut off in the middle, and the
four kinds of document give each verdict; 50% puts one and two failures on the two
sides of the ratio.  The recent document is the one with all three writers: its message may come
twice, and with two faults a second rewrite and an abandoned update meet the first
ones; one retry on conflict gives an update that reads again and one that is
refused.  In `ProducerSafety` the last shard fails for ever, which costs every tick its
success but the first shard nothing.  The batch for the bulk writer is cut into three requests of
two, one and one documents around one that is never sent, with children before and
behind a cut.  For the gate,
three rows in two tables give a merge of two samples, a limit of one gives an excluded
row in front of it, and two old records or documents can cancel each other out.
`MaxRows`, `MaxNow` and `MaxHistory` bound the environment, `MaxFaults` and
`MaxFetchErrors` what may go wrong; the code has no
such bounds, and the theorems hold for all their values.

*Deadlock* is checked in every run.  A consumer that has read everything keeps
waiting (`CaughtUp`), as `Fetch` blocks; a job or gate that has ended stays so (`Done`).

### Fairness

A run with a liveness property uses a specification with fairness, the others do
without.  `IndexerConsumer`: the loop of a worker keeps running (weak fairness per kind of step, since it is one goroutine), a stopped
process is restarted by its supervisor, a partition without an owner is given to
one; strong fairness only for a bulk in which every item gets a final answer: the
index may fail any number of times but not for ever, which is what retrying in
place relies on.  Nothing is assumed of the dead-letter topic, which is why the
liveness run has a spill directory.  `ProducerETL`: the clock runs, transactions end, a run goes on, some
idle replica's ticker fires while the lock is free, abandoned locks expire, a
dead process is restarted.  `FileExtractor`: the loop runs and a process that
ended is restarted; nothing is assumed of the index, Tika or the dead-letter topic.
`Backfill`: a job that ended is started again and keeps going; strong fairness
only for a bulk round with final answers.  `FileBackfill`: a run goes on, and the job
is started again while it has not succeeded: a non-zero exit tells Kubernetes, or the
operator, to run it again (`runner.go:16-17`); without that no document is promised text.
`BulkWriter`: the loop goes on and the callers retry, as both do; the failures are
bounded by `MaxFaults`, not by fairness.  `Reconcile` has no liveness property.

## Where code and words differ

| run | the code | the words |
|---|---|---|
| `IndexerHostCrash` | the spill file is not fsynced before the offset is committed (`consumer/dlq.go:143`) | `dlq.go:91`: nil means settled; the backfill's spill fsyncs for this reason |
| `ExtractorFetchError` | a fetch error after the first message drops the batch, and a later commit passes it (`fileextract/consumer.go:153`) | `consumer.go:6` names this loss as the one that was fixed |
| `FileBackfillTimeout` | a deadline that passes while the body of Tika's answer is read is an `extract_error`, which hides the file (`tika.go:112`) | `tika.go:12`: a deadline is `extract_timeout`; `extractor.go:82`: that one is left to the next run |
| `BackfillVirtualChild` | a parent in the index whose virtual child is refused is counted as a dead letter too (`writer.go:462`), so the count gate is off by one | `backfill/runner.go:21`: dead-lettered rows are not in the index; `backfill/dlq.go:19`: index + dead letters = source rows |

These four are runs that end with a counterexample.  From reading the code, and
without a run of their own:

- `consumer.go:303`: a hard stop ends the worker with all its partitions, also those
  without poison; `dlq.go:88` and `dlq.go:126` say the partition is stopped.
- `etl.go:208` and `etl.go:214`: one look at the context, then the advance, and the
  context learns of a lost lease only at the next renewal; `etl.go:91` and
  `lock.go:156` promise no advance after a lost lock.  The compare-and-set keeps the
  cursor right, as `CursorNeverBack` and `NothingSkipped` show.
- `tika.go:107`: a refused connection, a 503 of Tika or an answer that breaks off counts
  as an error of the file and tombstones the document; `extractor.go:56-64` lists causes
  that lie in the file only.  With the deadline of `FileBackfillTimeout` these are the
  only such cases: `HiddenOnlyByTika`.
- `etl.go:119`: a shard that cannot be read ends the tick, so that the shards behind it
  are never scanned while it lasts.  `EventuallyProduced` covers those before it.

## What is proved

`IndexerConsumerProofs`, for every group, log, batch size, number of retries and
faults:

- `TypeCorrect`.
- `NothingLost`, `ReadersCovered`.  `NoLoss` alone is not inductive: a commit is
  sound because of what the committing worker still holds.  The invariant adds that
  a settled disposition means a settled message, that points to be committed have
  settled messages only at and below them, and that what a worker has read is
  settled or in its batch (`SafetyInv`).  It says nothing of who owns a
  partition, which is why a stale owner does no harm.
- `ConsumerKeepsPromise`: every step is a step of `AtLeastOnce` or a stutter.
- `UntrustedStaysOut`, `GoodNeverDeadLettered`: from an invariant that ties each
  disposition to the kind of its message (`TrustInv`).

`ProducerETLProofs`, for any number of replicas, shards, rows and faults:

- `ProducerTypeCorrect`, `LeaseIsKept`.
- `NothingIsSkipped`, `CursorOnlyForward`, `ProducerKeepsPromise`, under
  `LagOutlivesInserts == MaxOpen + Skew < Lag`.  This is the operating assumption of
  `config.go:102-110` made precise: the lag must outlive the longest transaction *and*
  the time by which `created_at` may precede the id.  The inductive invariant
  says that open rows are young, that ids follow `created_at` up to the skew,
  that a run's cutoff is older than the lag, and that a chunk leaves out rolled
  back rows only.  From these no row at or below a stable row can still be open
  (`PrefixHasNoGap`), and the compare-and-set makes a stale chunk harmless
  (`AdvanceIsSound`).  The lock is not used: the proof goes through without it,
  which is the claim of `etl.go:17-22`.

`BackfillProofs`, for all tables, page sizes and faults:

- `BackfillTypeCorrect`, `SpillAlwaysRecovers`.  The invariant (`SpillInv`): what the
  sidecar counts has been synced, what the job takes for recorded stands at the
  front of the file, nothing stands behind it until a write fails, and the
  sidecar is written only after all of the file was synced.
- `BackfillKeepsPromise`.  In addition (`CursorInv`) every row of the current page is in
  the index, recorded, or in memory, and nothing is in memory any more when the
  page is turned; at that moment the sidecar counts every record.
- `GateIsBalanced`, under `WholeRows`: no virtual child is refused alone.
  `BackfillVirtualChild` shows that the assumption is needed.  The invariant adds
  that tables left behind are covered by their checkpoint, and that rows in the
  index and rows in the spill file differ in kind (`Apart`).

`FileExtractorProofs`, for every log, batch size, number of attempts and faults:

- `ExtractorTypeCorrect`, `ExtractorLosesNothingElse`, `ExtractorReaderCovered`,
  `ExtractorKeepsPromise`.  The argument is that of the consumer, with the messages
  a fetch error threw away (`dropped`) counted as settled: what was read is settled,
  dropped or in the batch, a settled disposition means a settled message, and a commit
  goes no further than the first message without one.  That the same offset may be in
  the batch twice after a rebalance makes no difference to it.

`FileBackfillProofs`, for every set of documents, page size, ratio and faults:

- `FileBackfillTypeCorrect`.  The invariant adds `Shape`: pages hold documents of the
  index, and there is one in memory only while the run goes through it; and `Waiting`: the
  job has at most one update under way, for the document it is working on.
- `FieldsAreKept`.  What an update has read and is still fresh is what the document
  holds (`Current`), so that what it stores has at least these fields; of the script only
  that it restores the two preserved fields is used, of the partial updates that they
  merge.  Without the version check `Current` fails, without the script its consequence.
- `OnlyTikaHides`.  Each tombstone, each update under way that brings one, and each
  decision of either writer to send one has a cause (`CauseInv`), and causes only grow.  A
  deadline before the answer gives another reason, which `TombstoneVerdict` lets pass.
- `SuccessMeansCovered`.  Nothing of the snapshot is lost on the way from cursor to page
  to document (`Covered`), and the counters are never below the number of documents
  left as they were (`Tallied`), although the other writers change documents in
  between: they can only take some away.  `Earned` carries both past the exit.

`ReconcileProofs`, for all tables, rows, limits, histories and faults.  Beside the typing
of the constants it is assumed that a payload that is no object has no fields
(`ReconcileAssumption`).

- `ReconcileTypeCorrect`.
- `RoutesWriteTheSame`, `NeverOpenToAll`.  Every fresh document is the one a route makes of
  its row; the two routes are then compared case by case.
- `HealthyStands`.  The rows asked for in excess make up for the excluded ones, table by
  table and after the merge, so that the compared rows are the ones due; and every
  document that was right stays right under either route, so that it is right in
  the index although the gate looked at an older refresh.
- `VerdictExactWhenQuiet`.  While nothing moves, the counts are those of the present state.
  If the sampled rows, which are all that are not recorded, have right documents, the
  count leaves no room for any other document.

`BulkWriterProofs`, for batches of any length, documents with any number of virtual
children of any size, any limit and any number of faults:

- `BulkTypes`, `WrittenIsStored`, `GivenUpForCause`, `RequestsAlwaysFit`,
  `RetriesArePaidFor`.  The sums and lists are recursive functions; what is used of them
  (they exist, sums are numbers that do not decrease, lists are in order and complete)
  is shown by taking the first number at which it would fail (`NatMin`, `NatInd`).  From
  this every line of a body lies in the lines of one document (`BodyAt`), so that the
  walk over the answers reads the answers of that document and its children
  (`ResultsTold`), and a sub-batch fits unless it is one document alone
  (`SubBatchEnds`).
- The inductive invariant (`IInv`): positions lead from each document to its message and
  from each message to its document or to its failed conversion (`Aligned`); each result
  obtained so far is true of its document (`ResultsJustified`); what is handed in is open,
  of the batch, and all that is open (`OnlyOpen`, `NothingDropped`); and a call that is one
  too many for the faults so far has met none itself, so that all its results are
  final (`Paid`).  None of the properties is inductive without it: nothing else says
  whose result a position of the answer is.
- `BulkKeepsPromise`: every step is a step of `BulkOutcome` or a stutter, because documents
  in a request are documents of open messages of the batch (`RequestOfBatch`) and a
  message without an outcome is handed in again.
- `EveryRequestAdvances`: the loop over the sub-batches cannot stand still, which is what
  the "at least one" of `subBatchEnd` is for.

Only model-checked: liveness (`EventuallyCommitted`, `EventuallyProduced`,
`EventuallyDone`, `RerunsEnd`, `EventuallySettled`), which is out of reach of the prover.

## Not modelled, and why

Mapping checks compare two JSON documents at the start of a process and decide only
whether it starts.  The fields inside a payload are copied, and example-based tests fit
them better than a model.  HTTP detail of downloads, the SSRF filter and Tika is
reduced to the outcomes the extractor tells apart.  Metrics and health endpoints are
not read by anything modelled.  Configuration enters as constants.  The harness and
the scripts drive the programs from outside.  A poison disposition that a later
release of the code would handle, operators that replay spill files by hand, and Kafka
losing acknowledged records are outside the system.  A whole-request failure that the
index will never accept is retried for ever by design of the code; for
`IndexerConsumer` it is excluded by the fairness of `BulkSettles`, and `RequestsAlwaysFit`
shows that the size of a request is never its cause.

## Open ends

- A composition of producer, topic and consumer: a row that commits becomes a document
  or a dead letter.  Each half implements `AtLeastOnce`; the product of the two is large
  for TLC and says little more than the promise of both.
- `IndexerConsumer` with `BulkWriter` in place of its one-step bulk.
- The shards behind one that cannot be read: a property to state once the tick goes on
  after an error.
