----------------------------- MODULE FileBackfill -----------------------------
(***************************************************************************)
(* The file-content-backfill job (internal/filebackfill): it scrolls over  *)
(* the documents of file messages that have neither text nor a tombstone,  *)
(* extracts each one with the extractor of the live path and adds the text *)
(* or the tombstone to the document.  What went wrong is only counted; the *)
(* exit code, computed from the counters, decides whether the job is run   *)
(* again.                                                                  *)
(*                                                                         *)
(* Beside it work the es-indexer, which writes and rewrites documents, and *)
(* the live file-extractor (FileExtractor has its details), which handles  *)
(* recent messages.  The server keeps the cursor of the scroll and carries *)
(* an update out in two steps: it reads the document, and stores what it   *)
(* has made of it if nobody has stored the document in between.            *)
(***************************************************************************)
EXTENDS Integers, FiniteSets

CONSTANTS
    Docs,           \* the documents of file messages
    Kind,           \* document -> what its file gives
    Live,           \* recent documents: the live extractor handles them too
    Repeated,       \* documents the es-indexer may write more than once
    PageSize,       \* Config.ScrollSize
    ScrollRetries,  \* scrollMaxRetries
    ConflictRetries,    \* retry_on_conflict
    DlqPercent,     \* -max-dlq-ratio, in percent
    MaxFaults       \* bound: failed calls, redeliveries, stops

\* A file with text in it; one no attempt gets text from; one that cannot be
\* downloaded any more.
Kinds == {"file", "textless", "gone"}

ASSUME FileBackfillAssumption ==
    /\ IsFiniteSet(Docs)
    /\ Kind \in [Docs -> Kinds]
    /\ Live \subseteq Docs /\ Repeated \subseteq Docs
    /\ PageSize \in Nat \ {0}
    /\ ScrollRetries \in Nat /\ ConflictRetries \in Nat
    /\ DlqPercent \in Nat
    /\ MaxFaults \in Nat

Gone == {d \in Docs : Kind[d] = "gone"}

VARIABLES
    \* the index
    source,     \* document -> the fields it has
    updates,    \* updates that are being carried out
    \* the scroll context on the server
    scroll,     \* "none", "open" or "expired"
    unread,     \* the documents it has still to hand out
    \* the live file-extractor
    live,       \* recent document -> what it has decided to do with it
    faults,     \* counter of the bound
    \* the job
    pc,         \* where Runner.Run is
    hasScroll,  \* TRUE once a scroll_id was received
    tries,      \* failed attempts of the current nextWithRetry
    page,       \* documents of the page not yet processed
    cur,        \* the document ExtractAndWrite is working on, at most one
    verdict,    \* what it has decided to do with it
    scanned, dlq, osTransient,  \* Stats
    signal,     \* how the context was cancelled
    exit,       \* how the last run of the job ended
    \* history
    snapshot,   \* what the scroll was opened over
    attempted,  \* documents the run has processed
    missed,     \* documents of a page whose answer was lost
    blamed      \* files blamed for a failure of Tika, each with the failure

index   == <<source, updates>>
server  == <<scroll, unread>>
client  == <<hasScroll, tries>>
stats   == <<scanned, dlq, osTransient>>
history == <<snapshot, attempted, missed, blamed>>
vars == <<source, updates, scroll, unread, live, faults, pc,
          hasScroll, tries, page, cur, verdict, scanned, dlq, osTransient,
          signal, exit, snapshot, attempted, missed, blamed>>

\* What the es-indexer writes; payload.file.content; the "unextractable" of
\* payload.file.contentMeta.
Fields == {"message", "content", "tombstone"}

indexed   == {d \in Docs : "message" \in source[d]}
content   == {d \in Docs : "content" \in source[d]}
tombstone == {d \in Docs : "tombstone" \in source[d]}

Phases   == {"idle", "next", "doc", "write", "answer"}
\* Text to add; a tombstone to write; a dead letter without one; nothing, for
\* the context is cancelled.
Verdicts == {"text", "permanent", "dlq", "cancelled"}

\* Tika is not reached, breaks off or answers with an error; the deadline of the
\* request passes before the answer, or while its body is being read.
TikaFailures == {"error", "lateAnswer", "lateBody"}

\* An update knows which fields it has read, and whether they are still those of
\* the document; its sender may have stopped waiting for it.
Updates == [doc : Docs, by : {"indexer", "live", "job", "nobody"},
            change : {"message", "text", "permanent"}, read : SUBSET Fields,
            fresh : BOOLEAN, left : 0..ConflictRetries]

Init ==
    /\ \E recent \in SUBSET Live :
          source = [d \in Docs |-> IF d \in recent THEN {} ELSE {"message"}]
    /\ updates = {}
    /\ scroll = "none" /\ unread = {}
    /\ live = [d \in Live |-> "new"]
    /\ faults = 0
    /\ pc = "idle"
    /\ hasScroll = FALSE /\ tries = 0
    /\ page = {} /\ cur = {} /\ verdict = "none"
    /\ scanned = 0 /\ dlq = 0 /\ osTransient = 0
    /\ signal = "none" /\ exit = "none"
    /\ snapshot = {} /\ attempted = {} /\ missed = {} /\ blamed = {}

Fault == faults < MaxFaults /\ faults' = faults + 1

-----------------------------------------------------------------------------
(* ExtractAndWrite, of the job and of the live extractor *)

\* tombstoneReasons: an extension or size that is not taken, an encrypted file and
\* a refused URL are in it as well, and all such files are "textless".
TombstoneVerdict(reason) ==
    IF reason \in {"empty_extract", "extract_error"} THEN "permanent" ELSE "dlq"

\* Mutant: a deadline of the HTTP client's own is an error like any other.
AnyFailureIsError(failure) == "extract_error"

\* tika.Extract: a deadline counts as one until the answer begins.
TikaReason(failure) ==
    IF failure = "lateAnswer" THEN "extract_timeout" ELSE "extract_error"

\* What is decided before anything is written.  Any failing call of the CDN is a
\* download that failed.
Judge(d, v) ==
    \/ /\ v = CASE Kind[d] = "file"     -> "text"
                [] Kind[d] = "textless" -> TombstoneVerdict("empty_extract")
                [] Kind[d] = "gone"     -> TombstoneVerdict("download_failed")
       /\ UNCHANGED <<faults, blamed>>
    \/ /\ v = TombstoneVerdict("download_failed")
       /\ Fault
       /\ UNCHANGED blamed
    \/ /\ Kind[d] # "gone"
       /\ Fault
       /\ \E failure \in TikaFailures :
             /\ v = TombstoneVerdict(TikaReason(failure))
             /\ blamed' = IF v = "permanent" THEN blamed \cup {<<d, failure>>}
                                              ELSE blamed

-----------------------------------------------------------------------------
(* Updates of a document: read, change, store unless it has changed *)

Reading(d, by, change, left) ==
    [doc |-> d, by |-> by, change |-> change,
     read |-> source[d], fresh |-> TRUE, left |-> left]

Send(d, by, change) ==
    updates' = updates \cup {Reading(d, by, change, ConflictRetries)}

\* Mutant: the document of the message replaces the one in the index.
MessageAlone(read) == {"message"}

\* preservePainless: the message replaces the document, but for the two fields
\* the extractor owns (preservedFilePaths).
Rewritten(read) == {"message"} \cup (read \cap {"content", "tombstone"})

\* UpdateContent and WriteTombstone are merged into the document.
Changed(u) ==
    CASE u.change = "message"   -> Rewritten(u.read)
      [] u.change = "text"      -> u.read \cup {"content"}
      [] u.change = "permanent" -> u.read \cup {"tombstone"}

\* Mutant: an update of a document that is missing creates it.
AlwaysApplies(u) == u.doc \in Docs

\* Only the es-indexer upserts (doc_as_upsert=false).
Applies(u) == u.change = "message" \/ "message" \in u.read

\* Mutant: what was read is stored whatever has happened to the document since.
LastWriterWins(u) == u.doc \in Docs

\* The document still has the version that was read.
SameVersion(u) == u.fresh

Store(u) ==
    /\ SameVersion(u) /\ Applies(u)
    /\ source' = [source EXCEPT ![u.doc] = Changed(u)]
    /\ updates' = {IF w.doc = u.doc THEN [w EXCEPT !.fresh = FALSE] ELSE w :
                      w \in updates \ {u}}

\* 404, or 409 when no retry is left.
Refuse(u) ==
    /\ ~Applies(u) \/ (~SameVersion(u) /\ u.left = 0 /\ u.by # "indexer")
    /\ updates' = updates \ {u}
    /\ UNCHANGED source

\* A conflict: the document is read again.  The es-indexer sends an item that was
\* answered with 409 until it is stored.
ReadAgain(u) ==
    /\ ~SameVersion(u) /\ (u.left > 0 \/ u.by = "indexer")
    /\ LET left == IF u.left = 0 THEN ConflictRetries ELSE u.left - 1
       IN  updates' = (updates \ {u}) \cup {Reading(u.doc, u.by, u.change, left)}
    /\ UNCHANGED source

\* The sender stops waiting; the server may carry the update out all the same.
Abandon(u) == updates' = (updates \ {u}) \cup {[u EXCEPT !.by = "nobody"]}

-----------------------------------------------------------------------------
(* The surroundings *)

\* The es-indexer gets a message, or gets it again.
IndexDocument(d) ==
    /\ \/ /\ source[d] = {} /\ \A u \in updates : u.doc = d => u.by # "indexer"
          /\ UNCHANGED faults
       \/ d \in Repeated /\ Fault
    /\ Send(d, "indexer", "message")
    /\ UNCHANGED <<source, server, live, pc, client, page, cur, verdict, stats,
                   signal, exit, history>>

\* The server carries out what nobody here waits for.
Serve(u) ==
    /\ u.by \in {"indexer", "nobody"}
    /\ Store(u) \/ Refuse(u) \/ ReadAgain(u)
    /\ UNCHANGED <<server, live, faults, pc, client, page, cur, verdict, stats,
                   signal, exit, history>>

\* The live extractor gets the message, or gets it again, and decides.
LiveJudge(d) ==
    /\ \/ live[d] = "new" /\ \E v \in Verdicts :
             /\ Judge(d, v)
             /\ live' = [live EXCEPT ![d] = IF v \in {"text", "permanent"}
                                            THEN v ELSE "done"]
       \/ live[d] = "done" /\ Fault /\ live' = [live EXCEPT ![d] = "new"] /\ UNCHANGED blamed
    /\ UNCHANGED <<index, server, pc, client, page, cur, verdict, stats,
                   signal, exit, snapshot, attempted, missed>>

\* It writes what it has decided on.
LiveWrite(d) ==
    /\ live[d] \in {"text", "permanent"}
    /\ Send(d, "live", live[d])
    /\ live' = [live EXCEPT ![d] = "sent"]
    /\ UNCHANGED <<source, server, faults, pc, client, page, cur, verdict, stats,
                   signal, exit, history>>

\* A text that could not be written is extracted again, or the extractor gives
\* the message up; of a tombstone it only logs it.
LiveRetries(u) ==
    \E next \in IF u.change = "text" THEN {"new", "done"} ELSE {"done"} :
        live' = [live EXCEPT ![u.doc] = next]

LiveAnswer(u) ==
    /\ u.by = "live"
    /\ \/ Store(u) /\ live' = [live EXCEPT ![u.doc] = "done"] /\ UNCHANGED faults
       \/ Refuse(u) /\ LiveRetries(u) /\ UNCHANGED faults
       \/ ReadAgain(u) /\ UNCHANGED <<live, faults>>
       \/ Abandon(u) /\ LiveRetries(u) /\ Fault /\ UNCHANGED source
    /\ UNCHANGED <<server, pc, client, page, cur, verdict, stats, signal, exit,
                   history>>

\* The page took longer than the keep-alive of the scroll.
ScrollExpires ==
    /\ pc \in {"doc", "write", "answer"} /\ scroll = "open"
    /\ Fault
    /\ scroll' = "expired"
    /\ UNCHANGED <<index, unread, live, pc, client, page, cur, verdict, stats,
                   signal, exit, history>>

\* SIGTERM, or the end of -timeout.
Cancel ==
    /\ pc # "idle" /\ signal = "none"
    /\ Fault
    /\ signal' \in {"term", "deadline"}
    /\ UNCHANGED <<index, server, live, pc, client, page, cur, verdict, stats,
                   exit, history>>

-----------------------------------------------------------------------------
(* The run *)

\* Mutant: the query leaves out documents with text only.
WithoutText == indexed \ content

\* buildFirstBatchQuery.
Found == indexed \ (content \cup tombstone)

\* Mutant: failed updates do not count.
ExitCodeByRatio(err, all, dead, transient) ==
    IF err \/ 100 * dead > DlqPercent * all THEN "failed" ELSE "ok"

\* What main makes of the error and the counters of Run.
ExitCode(err, all, dead, transient) ==
    IF err \/ transient > 0 \/ 100 * dead > DlqPercent * all
    THEN "failed" ELSE "ok"

\* Run returns; the deferred Close gives the scroll up.
Return(err, all) ==
    /\ pc' = "idle"
    /\ exit' = ExitCode(err, all, dlq, osTransient)
    /\ scanned' = all
    /\ scroll' = "none" /\ unread' = {}
    /\ hasScroll' = FALSE /\ tries' = 0
    /\ page' = {}
    /\ UNCHANGED <<index, live, faults, cur, verdict, dlq, osTransient,
                   signal, history>>

\* The job is started, again and again until it has succeeded once.
Start ==
    /\ pc = "idle" /\ exit # "ok"
    /\ pc' = "next"
    /\ scanned' = 0 /\ dlq' = 0 /\ osTransient' = 0
    /\ signal' = "none" /\ exit' = "none"
    /\ snapshot' = {} /\ attempted' = {} /\ missed' = {}
    /\ UNCHANGED <<index, server, live, faults, client, page, cur, verdict,
                   blamed>>

\* A SIGKILL: the next run starts from nothing.
Killed ==
    /\ pc # "idle"
    /\ Fault
    /\ pc' = "idle"
    /\ exit' = "failed"
    /\ scroll' = "none" /\ unread' = {}
    /\ hasScroll' = FALSE /\ tries' = 0
    /\ page' = {} /\ cur' = {} /\ verdict' = "none"
    /\ pc = "answer" => \E u \in updates : u.by = "job" /\ Abandon(u)
    /\ pc # "answer" => UNCHANGED updates
    /\ UNCHANGED <<source, live, stats, signal, history>>

\* The loop, or a wait of nextWithRetry, sees the cancelled context.
Interrupted ==
    /\ pc = "next" /\ signal # "none"
    /\ Return(signal = "deadline", scanned)

\* The pages a cursor may hand out next.
PagesOf(docs) ==
    {p \in SUBSET docs :
        Cardinality(p) = IF Cardinality(docs) < PageSize
                         THEN Cardinality(docs) ELSE PageSize}

\* The search that opens the scroll; its page may be empty, which is no EOF.
FirstBatch ==
    /\ pc = "next" /\ ~hasScroll
    /\ \E p \in PagesOf(Found) :
          /\ page' = p
          /\ unread' = Found \ p
    /\ snapshot' = Found
    /\ scroll' = "open" /\ hasScroll' = TRUE /\ tries' = 0
    /\ pc' = "doc"
    /\ UNCHANGED <<index, live, faults, cur, verdict, stats, signal, exit,
                   attempted, missed, blamed>>

ContinueScroll ==
    /\ pc = "next" /\ hasScroll /\ scroll = "open" /\ unread # {}
    /\ \E p \in PagesOf(unread) :
          /\ page' = p
          /\ unread' = unread \ p
    /\ tries' = 0
    /\ pc' = "doc"
    /\ UNCHANGED <<index, scroll, live, faults, hasScroll, cur, verdict, stats,
                   signal, exit, history>>

EndOfScroll ==
    /\ pc = "next" /\ hasScroll /\ scroll = "open" /\ unread = {}
    /\ Return(FALSE, scanned)

\* A request fails: it is made again, and the last failure ends the run.
Retry ==
    IF tries < ScrollRetries
    THEN /\ tries' = tries + 1
         /\ UNCHANGED <<pc, exit, scroll, hasScroll, page>>
    ELSE /\ pc' = "idle" /\ exit' = "failed"
         /\ tries' = 0 /\ hasScroll' = FALSE /\ scroll' = "none" /\ page' = {}

\* The request or its answer is lost.  The cursor on the server may have moved
\* all the same: the next request gets the page behind.
NextFails ==
    /\ pc = "next"
    /\ Fault
    /\ Retry
    /\ \/ UNCHANGED <<unread, missed>>
       \/ /\ hasScroll /\ scroll = "open" /\ unread # {}
          /\ \E p \in PagesOf(unread) :
                /\ unread' = unread \ p
                /\ missed' = missed \cup p
    /\ UNCHANGED <<index, live, cur, verdict, stats, signal, snapshot,
                   attempted, blamed>>

\* The context of the scroll is gone; so are all further pages.
NextRefused ==
    /\ pc = "next" /\ hasScroll /\ scroll = "expired"
    /\ Retry
    /\ UNCHANGED <<index, unread, live, faults, cur, verdict, stats, signal,
                   history>>

\* The page is done.
PageDone ==
    /\ pc = "doc" /\ page = {}
    /\ pc' = "next"
    /\ UNCHANGED <<index, server, live, faults, client, page, cur, verdict,
                   stats, signal, exit, history>>

\* The limiter waits and sees the cancelled context: the document is skipped.
Skip ==
    /\ pc = "doc" /\ page # {} /\ signal # "none"
    /\ Return(signal = "deadline", scanned + 1)

\* processOne up to the decision.  A cancelled context fails the download, or
\* Tika; the tombstone for that cannot be written any more.
Extract(d) ==
    /\ pc = "doc" /\ d \in page
    /\ page' = page \ {d} /\ cur' = {d}
    /\ scanned' = scanned + 1
    /\ attempted' = attempted \cup {d}
    /\ \E v \in Verdicts :
          /\ verdict' = v
          /\ IF signal = "none"
             THEN Judge(d, v)
             ELSE v \in {"dlq", "cancelled"} /\ UNCHANGED <<faults, blamed>>
    /\ pc' = "write"
    /\ UNCHANGED <<index, server, live, client, dlq, osTransient, signal, exit,
                   snapshot, missed>>

Counted(dead, transient) ==
    /\ dlq' = dlq + dead /\ osTransient' = osTransient + transient
    /\ pc' = "doc" /\ cur' = {} /\ verdict' = "none"
    /\ UNCHANGED <<server, live, client, page, scanned, signal, exit, history>>

\* The counter processOne moves after a write, and without one: a tombstone that
\* could not be written stays a dead letter.
CountWritten == IF verdict = "text" THEN Counted(0, 0) ELSE Counted(1, 0)
CountUnwritten ==
    IF verdict \in {"text", "cancelled"} THEN Counted(0, 1) ELSE Counted(1, 0)

\* The write that follows the decision.
Write(d) ==
    /\ pc = "write" /\ cur = {d}
    /\ verdict \in {"text", "permanent"} /\ signal = "none"
    /\ Send(d, "job", verdict)
    /\ pc' = "answer"
    /\ UNCHANGED <<source, server, live, faults, client, page, cur, verdict,
                   stats, signal, exit, history>>

\* There is nothing to write, or no context to write it in.
NoWrite ==
    /\ pc = "write"
    /\ verdict \in {"dlq", "cancelled"} \/ signal # "none"
    /\ CountUnwritten
    /\ UNCHANGED <<index, faults>>

Answer(u) ==
    /\ u.by = "job"
    /\ \/ Store(u) /\ CountWritten
       \/ Refuse(u) /\ CountUnwritten
       \/ /\ ReadAgain(u)
          /\ UNCHANGED <<server, live, pc, client, page, cur, verdict, stats,
                         signal, exit, history>>
    /\ UNCHANGED faults

\* The answer is lost, or the context is cancelled while the job waits for it.
WriteFails(u) ==
    /\ u.by = "job"
    /\ IF signal = "none" THEN Fault ELSE UNCHANGED faults
    /\ Abandon(u)
    /\ CountUnwritten
    /\ UNCHANGED source

Step ==
    \/ Interrupted \/ FirstBatch \/ ContinueScroll \/ EndOfScroll \/ NextRefused
    \/ PageDone \/ NoWrite \/ \E d \in Docs : Extract(d) \/ Write(d)
    \/ \E u \in updates : Answer(u)

Done == pc = "idle" /\ exit = "ok" /\ UNCHANGED vars

Next ==
    \/ Start \/ Step \/ Skip \/ NextFails \/ Killed \/ Cancel
    \/ ScrollExpires
    \/ \E d \in Docs : IndexDocument(d)
    \/ \E d \in Live : LiveJudge(d) \/ LiveWrite(d)
    \/ \E u \in updates : Serve(u) \/ LiveAnswer(u) \/ WriteFails(u)
    \/ Done

Spec == Init /\ [][Next]_vars

\* A run goes on, and the job is started again while it has not succeeded.
FairSpec == Spec /\ WF_vars(Start) /\ WF_vars(Step)
-----------------------------------------------------------------------------
(* Properties *)

DocumentsOK ==
    /\ source \in [Docs -> SUBSET Fields]
    /\ content \cup tombstone \subseteq indexed
    /\ updates \subseteq Updates

SurroundingsOK ==
    /\ scroll \in {"none", "open", "expired"}
    /\ unread \subseteq Docs
    /\ live \in [Live -> {"new", "text", "permanent", "sent", "done"}]
    /\ faults \in 0..MaxFaults

RunOK ==
    /\ pc \in Phases
    /\ hasScroll \in BOOLEAN /\ tries \in 0..ScrollRetries
    /\ page \subseteq Docs
    /\ cur \in {{}} \cup {{d} : d \in Docs} /\ verdict \in Verdicts \cup {"none"}
    /\ scanned \in Nat /\ dlq \in Nat /\ osTransient \in Nat
    /\ signal \in {"none", "term", "deadline"}
    /\ exit \in {"none", "ok", "failed"}
    /\ snapshot \subseteq Docs /\ attempted \subseteq Docs
    /\ missed \subseteq Docs /\ blamed \subseteq Docs \X TikaFailures

\* The job and the index have their declared shape; the job never adds text or a
\* tombstone to a document that is not there (doc_as_upsert=false).
TypeOK == DocumentsOK /\ SurroundingsOK /\ RunOK

\* Exit code 0 without a SIGTERM means the work was done: every document the
\* scroll was opened over was tried, but for pages whose answer was lost, and
\* those left with neither text nor tombstone are within the tolerated ratio,
\* although counters are all that main looks at (main.go, "退出码判定").
SuccessCovers ==
    exit = "ok" /\ signal # "term" =>
        /\ snapshot \ missed \subseteq attempted
        /\ 100 * Cardinality(attempted \ (content \cup tombstone))
             <= DlqPercent * scanned

\* A file that has text drops out of the backfill without its text only if Tika
\* answered with an error, or its answer ran into the deadline: no failed
\* download, no timeout before the answer, no conflict, late update or restart
\* hides it, in the job or live (isTombstoneReason).
HiddenOnlyByTika ==
    \A d \in tombstone \ content :
        Kind[d] = "textless" \/ blamed \cap {<<d, "error">>, <<d, "lateBody">>} # {}

\* What tika.go:12 and extractor.go:82 say: a timeout of Tika is extract_timeout,
\* and that never hides a file.
NoTimeoutHides ==
    \A d \in tombstone \ content : Kind[d] = "textless" \/ <<d, "error">> \in blamed

\* No update takes a field away that another writer has added since it read the
\* document: text and tombstone stay through rewrites, conflicts and updates that
\* arrive when nobody waits for them any more (preservePainless,
\* retry_on_conflict).
FieldsKept == [][\A d \in Docs : source[d] \subseteq source'[d]]_vars

\* Running the job again comes to an end: either it succeeds, or all it still
\* finds are files that cannot be downloaded any more.
RerunsEnd == <>(exit = "ok" \/ Found \subseteq Gone)
=============================================================================
