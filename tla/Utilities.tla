----------------------------- MODULE Utilities -----------------------------
(***************************************************************************)
(* The pure functions of Pagination, Excel and Swagger, each called once   *)
(* with every argument of a small instance, and what must be true of their *)
(* results.                                                                *)
(***************************************************************************)
EXTENDS Pagination, Excel, Swagger

CONSTANTS
    Totals, PageNumbers, Sizes, PageSizes,   \* what a list query and its client give
    Configurations, Exports,            \* columns, and the lists of a file's sheets
    Imports, Environments               \* lists of modules, and how the server is set up

ASSUME ParameterAssumption ==
    /\ NULL \notin Int
    /\ Totals \subseteq Nat \cup {NULL}
    /\ PageNumbers \subseteq Int \cup {NULL}
    /\ Sizes \cup PageSizes \subseteq (Nat \ {0}) \cup {NULL}

ASSUME ExportAssumption ==
    /\ \A conf \in Configurations : conf \in Seq(DOMAIN Memo) /\ IsInjective(conf)
    /\ Exports \subseteq Seq(Seq(Row))

ASSUME ImportAssumption == \A imports \in Imports : DOMAIN imports \subseteq Nat \ {0}

VARIABLES task, result

Init ==
    /\ result = NULL
    /\ \/ \E data \in [total_count : Totals, page : PageNumbers,
                        size : Sizes, page_size : PageSizes, all_search_yn : {"Y", "N"}] :
              task = [op |-> "page", data |-> data]
       \/ \E conf \in Configurations, lists \in Exports :
              task = [op |-> "export", conf |-> conf, lists |-> lists]
       \/ \E imports \in Imports, env \in Environments :
              task = [op |-> "document", imports |-> imports, env |-> env]

Return(value) ==
    /\ result = NULL
    /\ result' = value
    /\ UNCHANGED task

Paginate == task.op = "page" /\ Return(Result(task.data))

\* createSheet for each list, createExcel of the sheets, readExcel of the file.
Export ==
    /\ task.op = "export"
    /\ Return(readExcel(task.conf, [n \in DOMAIN task.lists |-> createSheet(task.conf, task.lists[n])]))

Document ==
    /\ task.op = "document"
    /\ Return([options |-> Options(task.imports, task.env), pages |-> Pages(task.imports, task.env)])

Next == Paginate \/ Export \/ Document

Spec == Init /\ [][Next]_<<task, result>>

-----------------------------------------------------------------------------
Done(op) == task.op = op /\ result # NULL

Rows(p) == {k \in 0 .. p.total_count - 1 : p.offset <= k /\ k < p.offset + p.limit}
AtPage(n) == Result([task.data EXCEPT !.page = n])

\* pagination.ts:31: the pages 1 .. max_page show every row exactly once, in
\* order, and none of them is empty.
PagesPartitionRows ==
    Done("page") =>
        /\ UNION {Rows(AtPage(n)) : n \in 1 .. result.max_page} = 0 .. result.total_count - 1
        /\ \A n \in 1 .. result.max_page : task.data.all_search_yn = "N" =>
              /\ result.total_count > 0 => Rows(AtPage(n)) # {}
              /\ \A k \in Rows(AtPage(n)), m \in n + 1 .. result.max_page :
                    \A l \in Rows(AtPage(m)) : k < l

\* pagination.ts:66: the tab shows the page it is on, begins where the tab of
\* any page in it begins, and shows no page that does not exist.
RangeIsOneTab ==
    Done("page") =>
        LET range == result.page_range
        IN  /\ range.start <= result.page /\ result.page <= range.end
            /\ 1 <= range.start /\ range.end <= result.max_page
            /\ \A n \in range.start .. range.end : AtPage(n).page_range = range

\* pagination.dto.ts:50: ten rows a page unless told otherwise.
DefaultSize ==
    Done("page") /\ task.data.size = NULL /\ task.data.all_search_yn = "N" => result.limit = 10

InFirst(list, column) == list # <<>> /\ column \in DOMAIN list[1]
Headed(conf, list) == \E c \in ToSet(conf) : InFirst(list, c)
Aligned(conf, list) ==
    \A m, n \in DOMAIN conf : m < n /\ InFirst(list, conf[n]) => InFirst(list, conf[m])

\* The values of a row that a file can give back.
Kept(conf, list, row) ==
    [c \in {c \in ToSet(conf) : InFirst(list, c) /\ HasValue(row, c)} |-> Text[row[c]]]

\* What was exported is read back, row by row and sheet by sheet, each value
\* under its own column, if no column that the first row of a list lacks is
\* configured before one it has.
RoundTrip ==
    Done("export")
        /\ (\A n \in DOMAIN task.lists : task.lists[n] # <<>> =>
               Aligned(task.conf, task.lists[n]) /\ Headed(task.conf, task.lists[n]))
        => result = FlattenSeq([n \in DOMAIN task.lists |->
                        [i \in DOMAIN task.lists[n] |->
                            Kept(task.conf, task.lists[n], task.lists[n][i])]])

\* Whatever the columns, every exported row comes back, in its
\* order, but the first of a sheet that has no heading; its values are its own,
\* and stand under columns that the first row of its list has.
RowsStayApart ==
    Done("export") =>
        LET all == FlattenSeq([n \in DOMAIN task.lists |->
                LET list == task.lists[n]
                IN  IF list # <<>> /\ ~Headed(task.conf, list)
                    THEN Tail([i \in DOMAIN list |-> [row |-> list[i], first |-> list[1]]])
                    ELSE [i \in DOMAIN list |-> [row |-> list[i], first |-> list[1]]]])
        IN  /\ Len(result) = Len(all)
            /\ \A i \in DOMAIN all : \A c \in DOMAIN result[i] :
                  /\ c \in DOMAIN all[i].first
                  /\ \E d \in DOMAIN all[i].row :
                        HasValue(all[i].row, d) /\ result[i][c] = Text[all[i].row[d]]

\* excel.ts:90, 129: an export can be read back, as far as its heading goes.
ExportIsReadBack == RoundTrip /\ RowsStayApart

Distinct(imports) ==
    \A i \in Modules(imports) : imports[i].type = "API" =>
        /\ imports[i].path # Whole
        /\ \A j \in Modules(imports) \ {i} :
              imports[j].type = "API" => imports[j].path # imports[i].path

\* main.ts:87-169: no page is without its entry in the box; every entry
\* opens a page; and if no two modules have the same path, it is the page that
\* documents the module the entry names, or all that have entries.
BoxMatchesPages ==
    Done("document") =>
        /\ {o.to : o \in result.options} = {p.at : p \in result.pages}
        /\ Distinct(task.imports) => \A o \in result.options :
              Opened(result.pages, o.to).include =
                  IF o = WholeOption THEN {q.of : q \in result.options} \ {0} ELSE {o.of}
=============================================================================
