--------------------------- MODULE IndexerHostCrash ---------------------------
(***************************************************************************)
(* The es-indexer consumer on a host that may fail.  dlqHandler.escape     *)
(* writes a spill file with os.WriteFile and never fsyncs the file or its  *)
(* directory, so a spill file still in the page cache does not survive.    *)
(***************************************************************************)
EXTENDS IndexerConsumer

\* The host of w fails: the process stops, any spill files may be gone.
HostCrash(w) ==
    /\ Up(w)
    /\ Fault
    /\ spill' \in SUBSET spill
    /\ Exit(w)
    /\ UNCHANGED <<committed, es, dlq>>

HostCrashNext == Next \/ \E w \in Workers : HostCrash(w)

HostCrashSpec == Init /\ [][HostCrashNext]_vars
=============================================================================
