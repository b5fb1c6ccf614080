--------------------------- MODULE MCFileExtractor ---------------------------
(* Small logs for TLC. *)
EXTENDS FileExtractor

CONSTANTS p1, p2

\* Two partitions with every kind of message: a file between one without text and
\* a message that cannot be read; and one that is no file.
TwoPartitions ==
    [p \in {p1, p2} |-> IF p = p1 THEN <<"textless", "file", "unreadable">>
                                  ELSE <<"other">>]

\* Two messages, the first one a file.
TwoMessages == [p \in {p1} |-> <<"file", "other">>]
=============================================================================
