----------------------------- MODULE MCBackfill -----------------------------
(* Small tables for TLC. *)
EXTENDS Backfill

\* A page with every kind of row, two refused at once, and a short one; then a
\* table with one row of each end.
TwoTables == <<<<"refused", "unreadable", "good", "refused", "unreadable">>,
               <<"good", "refused">>>>

\* A row whose virtual child is refused, beside a good one.
WithChild == <<<<"childRefused", "good">>>>
=============================================================================
