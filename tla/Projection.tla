----------------------------- MODULE Projection -----------------------------
(***************************************************************************)
(* From a row of the message tables to documents: the two routes a row     *)
(* takes into the index (producer and es-indexer, or backfill), and how    *)
(* the sampling gate of recon reads the same row to judge the result.      *)
(*                                                                         *)
(* Who may see a message stands in its payload ("visibles").  A document   *)
(* without visibles is shown to everyone, so a payload whose visibles      *)
(* cannot be read with certainty must not become a document.               *)
(***************************************************************************)
EXTENDS Integers

Types == {"text", "oddText", "file", "videoFile", "richText", "unknown", "none"}

\* A row of a message table.  Its payload:
\*   shape     a JSON object, the empty object, or anything else
\*   type      "oddText": a text whose content is no string; "videoFile": a file
\*             with the extension of a video; "none": no type given
\*   images    the positions of the images among the blocks of a rich text
\*   visibles  a list with names, no such field, a value that lists nobody
\*             (null too), or a value that is no list
\*   size      of its message on Kafka: "fits", "degrades" (fits without the raw
\*             payload) or "oversize"
RowsOf(seqs) ==
    [numeric : BOOLEAN, signal : BOOLEAN, seq : seqs,
     shape : {"object", "empty", "other"}, type : Types, images : SUBSET (1..2),
     space : {"string", "odd"}, visibles : {"list", "absent", "empty", "odd"},
     size : {"fits", "degrades", "oversize"}]

Space(row) == IF row.space = "string" THEN "space" ELSE ""
Names(row) == IF row.visibles = "list" THEN {"name"} ELSE {}

-----------------------------------------------------------------------------
(* Messages of the contract (searchmsg.Message): text, RawPayload present, *)
(* RawExcluded, SpaceID, Visibles, MessageSeq                              *)

\* searchmsg.ExtractVisibility of octo-lib succeeds.
Trusted(row) == row.shape # "other" /\ row.visibles \in {"list", "absent"}

Encrypted(row) ==
    [raw |-> FALSE, rawExcluded |-> TRUE, space |-> "", visibles |-> {},
     seq |-> row.seq]

\* producer extractMessage: what it makes of a row it does not give up.
Extracted(row) ==
    IF row.signal THEN Encrypted(row)
    ELSE [raw |-> TRUE, rawExcluded |-> row.type # "text", space |-> Space(row),
          visibles |-> Names(row), seq |-> row.seq]

Extractable(row) == row.signal \/ (row.shape = "object" /\ Trusted(row))

degradeIfOversized(row, msg) ==
    IF row.size = "fits" THEN msg ELSE [msg EXCEPT !.raw = FALSE]

\* The message on the topic, if there is one.
Produced(row)   == degradeIfOversized(row, Extracted(row))
Producible(row) == Extractable(row) /\ (row.size # "oversize" \/ row.signal)

\* The es-indexer reads the visibility of a message again from its raw payload.
Prechecked(row, msg) ==
    IF msg.raw THEN [msg EXCEPT !.space = Space(row), !.visibles = Names(row)]
    ELSE msg

-----------------------------------------------------------------------------
(* Documents *)

\* buildPayloadFromRaw: the part of the payload that can be searched.
buildPayloadFromRaw(row) ==
    CASE row.type = "oddText"   -> "emptyText"
      [] row.type = "videoFile" -> "video"
      [] OTHER                  -> row.type

hasTypedSubObject(row) == row.type \notin {"unknown", "none"}

\* richTextDerivatives: one virtual child per image.
richTextDerivatives(row) == IF row.type = "richText" THEN row.images ELSE {}

\* deriveChild: a child takes over what its parent has at that moment, but for
\* the payload.
deriveChild(parent) ==
    [parent EXCEPT !.payload = "image", !.raw = FALSE, !.rawExcluded = FALSE,
                   !.virtual = TRUE]

\* DocFromMessage: the document (0) and its virtual children, by subSeq.  A
\* message without its raw payload is an encrypted one if it is marked excluded,
\* else a text by contract.
DocFromMessage(row, msg) ==
    LET parent ==
        [seq |-> msg.seq, space |-> msg.space, visibles |-> msg.visibles,
         raw |-> msg.raw, virtual |-> FALSE,
         rawExcluded |-> IF msg.raw THEN ~hasTypedSubObject(row) ELSE msg.rawExcluded,
         payload |-> CASE msg.raw         -> buildPayloadFromRaw(row)
                       [] msg.rawExcluded -> "none"
                       [] OTHER           -> "text"]
    IN [sub \in {0} \cup (IF msg.raw THEN richTextDerivatives(row) ELSE {}) |->
           IF sub = 0 THEN parent ELSE deriveChild(parent)]

\* The live route, and whether it ends in a document.
LiveDocs(row) == DocFromMessage(row, Prechecked(row, Produced(row)))
Live(row)     == Producible(row) /\ row.numeric

\* Mutant: messageSeq is filled in after the children are derived.
docFromRowSeqLate(row) ==
    LET docs == DocFromMessage(row, [Extracted(row) EXCEPT !.seq = 0])
    IN [docs EXCEPT ![0].seq = row.seq]

\* The backfill: docFromRow, and whether the row becomes a document at all.
docFromRow(row) == DocFromMessage(row, Extracted(row))

\* Mutant: a payload whose visibility cannot be read is taken as it is.
IndexableUnchecked(row) ==
    row.numeric /\ (row.signal \/ row.shape = "object")

Indexable(row) == row.numeric /\ Extractable(row)

-----------------------------------------------------------------------------
(* recon's own reading of a row *)

parsePayloadVisibility(row) ==
    IF row.shape = "object"
    THEN [space |-> Space(row), visibles |-> Names(row)]
    ELSE [space |-> "", visibles |-> {}]

\* compareRow finds no difference.
compareRow(row, doc) ==
    /\ row.seq = doc.seq
    /\ row.signal \/ parsePayloadVisibility(row) =
                        [space |-> doc.space, visibles |-> doc.visibles]
=============================================================================
