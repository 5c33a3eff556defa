------------------------------- MODULE Excel -------------------------------
(***************************************************************************)
(* common/utils/excel.ts: a list of rows becomes a sheet with a heading,   *)
(* sheets a file, and a file a list of rows again.  A row is a function on *)
(* the columns it has; a configuration is a sequence of different columns. *)
(***************************************************************************)
EXTENDS Naturals, Sequences, SequencesExt

CONSTANTS
    Memo,    \* the heading of each column, different for each
    Falsy,   \* the values JavaScript takes for false
    Text     \* the text a cell with each other value is read as

\* A row has any of the columns, each with a value or with none.
Row == UNION {[S -> Falsy \cup DOMAIN Text] : S \in SUBSET DOMAIN Memo}

Empty == ""        \* the cell for no value
Absent == "undefined"

ASSUME HeadingAssumption == IsInjective(Memo) /\ Absent \notin DOMAIN Memo
ASSUME TextAssumption == \A v \in DOMAIN Text : v \notin Falsy /\ Text[v] # Empty

\* Only the columns of the first row are keys; the others leave a hole.
Keys(conf, list) ==
    [n \in DOMAIN conf |->
        IF list # <<>> /\ conf[n] \in DOMAIN list[1] THEN conf[n] ELSE Absent]

\* The headings of the keys, the holes left out.
Heading(keys) ==
    LET pushed[n \in 0 .. Len(keys)] ==
            IF n = 0 THEN <<>>
            ELSE IF keys[n] = Absent THEN pushed[n - 1]
            ELSE Append(pushed[n - 1], Memo[keys[n]])
    IN  pushed[Len(keys)]

HasValue(row, column) == column \in DOMAIN row /\ row[column] \notin Falsy

CompactRow(keys, row) ==   \* slip: no cell where there is no value
    LET filled == SelectSeq(keys, LAMBDA k : HasValue(row, k))
    IN  [n \in DOMAIN filled |-> Text[row[filled[n]]]]
\* A cell for every key, the holes included, as it will be read.
DataRow(keys, row) ==
    [n \in DOMAIN keys |-> IF HasValue(row, keys[n]) THEN Text[row[keys[n]]] ELSE Empty]

createSheet(conf, list) ==
    LET keys == Keys(conf, list)
    IN  [heading |-> Heading(keys), rows |-> [i \in DOMAIN list |-> DataRow(keys, list[i])]]

\* What sheet_to_json finds under each configured heading.
ReadRow(conf, heading, cells) ==
    LET At(c) == {n \in DOMAIN heading \cap DOMAIN cells :
                     heading[n] = Memo[c] /\ cells[n] # Empty}
    IN  [c \in {c \in ToSet(conf) : At(c) # {}} |-> cells[CHOOSE n \in At(c) : TRUE]]

\* A sheet begins at its first row that has cells, and that is its heading.
ReadSheet(conf, sheet) ==
    LET rows == IF sheet.heading = <<>> /\ sheet.rows # <<>> THEN Tail(sheet.rows) ELSE sheet.rows
    IN  [i \in DOMAIN rows |-> ReadRow(conf, sheet.heading, rows[i])]

\* The rows of all sheets, one after the other.
readExcel(conf, excel) ==
    FlattenSeq([n \in DOMAIN excel |-> ReadSheet(conf, excel[n])])
=============================================================================
