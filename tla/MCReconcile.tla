---------------------------- MODULE MCReconcile ----------------------------
(* Small tables for TLC: one row of any kind among ordinary ones. *)
EXTENDS Reconcile

Plain(seq) ==
    [numeric |-> TRUE, signal |-> FALSE, seq |-> seq, shape |-> "object",
     type |-> "text", images |-> {}, space |-> "string", visibles |-> "list",
     size |-> "fits"]

Rich == [Plain(1) EXCEPT !.type = "richText", !.images = {2}]

\* Every type, every visibility, and what cannot be read.
Objects ==
    {[Plain(1) EXCEPT !.type = t] : t \in Types \ {"richText", "none"}}
    \cup {[Plain(1) EXCEPT !.type = t, !.size = "degrades"] : t \in {"text", "file"}}
    \cup {[Plain(1) EXCEPT !.visibles = v] : v \in {"absent", "empty", "odd"}}
    \cup {[Plain(1) EXCEPT !.space = "odd"], Rich,
          [Rich EXCEPT !.visibles = "empty"], [Rich EXCEPT !.size = "degrades"]}

Odd == [Plain(1) EXCEPT !.visibles = "absent", !.space = "odd", !.type = "none"]

AnyKind ==
    Objects
    \cup {[Plain(1) EXCEPT !.size = "oversize"], [Plain(1) EXCEPT !.numeric = FALSE],
          Odd, [Odd EXCEPT !.shape = "empty"], [Odd EXCEPT !.shape = "other"],
          [Odd EXCEPT !.shape = "other", !.signal = TRUE]}

AnyAmongPlain == {<<row, Plain(2), Plain(3)>> : row \in AnyKind}

TwoTables == <<1, 2, 1>>
=============================================================================
