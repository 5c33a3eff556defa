----------------------------- MODULE Pagination -----------------------------
(***************************************************************************)
(* common/utils/pagination.ts: the page a list query shows, as a function  *)
(* of what the client and the count query give.  A parameter that is no    *)
(* number is NULL.  Sizes are positive and counts are not negative: for a  *)
(* size of 0 JavaScript answers with Infinity and NaN.                     *)
(***************************************************************************)
EXTENDS Integers

CONSTANT NULL

OrElse(x, default) == IF x = NULL THEN default ELSE x

\* Math.floor of the quotient, and one more for a rest.
Ceiling(a, b) == a \div b + (IF a % b > 0 THEN 1 ELSE 0)

AtLeastOne(x) == IF x <= 0 THEN 1 ELSE x
AtMostUnclamped(x, bound) == x   \* slip: no upper bound
AtMost(x, bound) == IF x > bound THEN bound ELSE x

OffsetOfNext(page, size) == page * size   \* slip: pages from 0
Offset(page, size) == (page - 1) * size

\* The constructor and getPagination.
Result(data) ==
    LET all == data.all_search_yn = "Y"
        total == OrElse(data.total_count, 1)
        asked == OrElse(data.size, 20)
        tab == OrElse(data.page_size, 10)
        size == IF all THEN total ELSE asked
        max == IF all THEN 1 ELSE AtLeastOne(Ceiling(total, asked))
        page == IF all THEN 1 ELSE AtMost(AtLeastOne(OrElse(data.page, 1)), max)
        end == Ceiling(page, tab) * tab
    IN  [total_count |-> total, page |-> page, max_page |-> max,
         limit |-> size, offset |-> Offset(page, size),
         page_range |-> [start |-> end - (tab - 1), end |-> AtMost(end, max)],
         content_start_number |-> total - (page - 1) * size,
         content_start_number_reverse |-> 1 + (page - 1) * size]
=============================================================================
