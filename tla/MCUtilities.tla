---------------------------- MODULE MCUtilities ----------------------------
EXTENDS Utilities

MCTotals == 0 .. 9 \cup {NULL}
MCPageNumbers == (-1) .. 5 \cup {NULL}
MCSizes == 1 .. 4 \cup {NULL}
MCPageSizes == 1 .. 3 \cup {NULL}

Columns == {"a", "b", "c"}
MCMemo == [c \in Columns |-> CASE c = "a" -> "A" [] c = "b" -> "B" [] c = "c" -> "C"]
MCFalsy == {"", "number 0"}
MCText == [v \in {"x", "y", "number 5"} |-> IF v = "number 5" THEN "5" ELSE v]

\* Rows with any of the columns, the value of one of them perhaps empty.
RowsOf(values) == UNION {[S -> values] : S \in SUBSET Columns}
ListsOf(rows) == {<<>>} \cup {<<r>> : r \in rows} \cup (rows \X rows)
MCExports ==
    {<<one, two>> : one \in ListsOf(RowsOf({"x", ""})),
                    two \in {<<>>, <<[a |-> "y", b |-> "number 5", c |-> "number 0"]>>}}
MCConfigurations == {<<"a", "b">>, <<"b", "a">>, <<"a", "b", "c">>}

Module ==
    [class : BOOLEAN, type : {"API", "other"}, path : {"user", "file"}]
    \cup [class : {TRUE}, type : {"API"}, path : {""}]
MCImports == UNION {[1 .. n -> Module] : n \in 0 .. 3}
MCEnvironments == {[select |-> s, targets |-> t] : s \in BOOLEAN, t \in SUBSET {"user", "file", " file"}}
=============================================================================
