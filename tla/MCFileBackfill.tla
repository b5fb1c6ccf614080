---------------------------- MODULE MCFileBackfill ----------------------------
(* Small backfills of file texts for TLC. *)
EXTENDS FileBackfill

CONSTANTS old, recent, blank, lost

\* Files with text, an old one and a recent one; one without; one that is gone.
FourKinds ==
    [d \in Docs |->
        CASE d \in {old, recent} -> "file"
          [] d = blank -> "textless"
          [] d = lost  -> "gone"]
=============================================================================
