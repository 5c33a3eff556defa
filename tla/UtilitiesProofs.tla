-------------------------- MODULE UtilitiesProofs --------------------------
(***************************************************************************)
(* Pagination for every total, page and positive sizes, the export of any  *)
(* lists in any columns, and the pages of the documentation for any set of *)
(* modules.                                                                *)
(***************************************************************************)
EXTENDS Utilities, WellFoundedInduction, SequenceTheorems, TLAPS

LEMMA Monotone ==
    ASSUME NEW a \in Int, NEW b \in Int, NEW t \in Nat \ {0}, a < b
    PROVE  a * t + t <= b * t
<1>1. PICK d \in Nat : b = a + 1 + d
  <2>1. b - a - 1 \in Nat /\ b = a + 1 + (b - a - 1)
    OBVIOUS
  <2> QED
    BY <2>1
<1>2. b * t = a * t + t + d * t
  BY <1>1
<1>3. d * t \in Nat
  OBVIOUS
<1>4. a * t \in Int /\ b * t \in Int
  OBVIOUS
<1> QED
  BY <1>2, <1>3, <1>4

\* Math.floor and the one for the rest reach the number, and not a whole
\* divisor more.
LEMMA CeilingBounds ==
    ASSUME NEW a \in Nat, NEW b \in Nat \ {0}
    PROVE  /\ Ceiling(a, b) \in Nat
           /\ a <= Ceiling(a, b) * b
           /\ Ceiling(a, b) * b < a + b
           /\ a > 0 => Ceiling(a, b) > 0
<1>1. /\ a \div b \in Nat /\ a % b \in 0 .. b - 1
      /\ a = b * (a \div b) + (a % b)
  OBVIOUS
<1>2. PICK q \in Nat, r \in 0 .. b - 1 : a \div b = q /\ a % b = r /\ a = b * q + r
  BY <1>1
<1>3. CASE r > 0
  <2>1. Ceiling(a, b) = q + 1
    BY <1>2, <1>3 DEF Ceiling
  <2>2. (q + 1) * b = b * q + b
    OBVIOUS
  <2> QED
    BY <1>2, <1>3, <2>1, <2>2
<1>4. CASE r = 0
  <2>1. Ceiling(a, b) = q
    BY <1>2, <1>4 DEF Ceiling
  <2>2. a = q * b
    BY <1>2, <1>4
  <2>3. a > 0 => q > 0
    BY <2>2
  <2> QED
    BY <2>1, <2>2, <2>3
<1> QED
  BY <1>3, <1>4

\* There is one such multiple.
LEMMA CeilingUnique ==
    ASSUME NEW a \in Nat, NEW b \in Nat \ {0}, NEW q \in Nat,
           a <= q * b, q * b < a + b
    PROVE  Ceiling(a, b) = q
<1>1. PICK c \in Nat : c = Ceiling(a, b)
  BY CeilingBounds
<1>2. a <= c * b /\ c * b < a + b
  BY <1>1, CeilingBounds
<1>3. q * b \in Nat /\ c * b \in Nat
  OBVIOUS
<1>4. ~(c < q)
  BY <1>2, <1>3, Monotone
<1>5. ~(q < c)
  BY <1>2, <1>3, Monotone
<1> QED
  BY <1>1, <1>4, <1>5

-----------------------------------------------------------------------------
(* What the constructor makes of its argument.                             *)

PageData ==
    [total_count : Nat \cup {NULL}, page : Int \cup {NULL}, size : (Nat \ {0}) \cup {NULL},
     page_size : (Nat \ {0}) \cup {NULL}, all_search_yn : {"Y", "N"}]

Total(d) == OrElse(d.total_count, 1)
Asked(d) == OrElse(d.size, 20)
Tab(d) == OrElse(d.page_size, 10)
Size(d) == IF d.all_search_yn = "Y" THEN Total(d) ELSE Asked(d)
MaxPage(d) == IF d.all_search_yn = "Y" THEN 1 ELSE AtLeastOne(Ceiling(Total(d), Asked(d)))
Page(d) ==
    IF d.all_search_yn = "Y" THEN 1 ELSE AtMost(AtLeastOne(OrElse(d.page, 1)), MaxPage(d))
TabEnd(d) == Ceiling(Page(d), Tab(d)) * Tab(d)

LEMMA ResultIs ==
    ASSUME NEW d
    PROVE  /\ Result(d).total_count = Total(d) /\ Result(d).page = Page(d)
           /\ Result(d).max_page = MaxPage(d) /\ Result(d).limit = Size(d)
           /\ Result(d).offset = Offset(Page(d), Size(d))
           /\ Result(d).page_range = [start |-> TabEnd(d) - (Tab(d) - 1),
                                      end |-> AtMost(TabEnd(d), MaxPage(d))]
BY DEF Result, Total, Asked, Tab, Size, MaxPage, Page, TabEnd

LEMMA Numbers ==
    ASSUME NEW d \in PageData
    PROVE  /\ Total(d) \in Nat /\ Asked(d) \in Nat \ {0} /\ Tab(d) \in Nat \ {0}
           /\ Size(d) \in Nat /\ MaxPage(d) \in Nat \ {0} /\ Page(d) \in 1 .. MaxPage(d)
<1>1. Total(d) \in Nat /\ Asked(d) \in Nat \ {0} /\ Tab(d) \in Nat \ {0}
  BY DEF PageData, Total, Asked, Tab, OrElse
<1>2. Ceiling(Total(d), Asked(d)) \in Nat
  BY <1>1, CeilingBounds
<1>3. MaxPage(d) \in Nat \ {0} /\ Size(d) \in Nat
  BY <1>1, <1>2 DEF MaxPage, Size, AtLeastOne
<1>4. OrElse(d.page, 1) \in Int
  BY DEF PageData, OrElse
<1>5. Page(d) \in 1 .. MaxPage(d)
  <2>1. CASE d.all_search_yn = "Y"
    BY <2>1 DEF Page, MaxPage
  <2>2. CASE d.all_search_yn # "Y"
    BY <1>3, <1>4, <2>2 DEF Page, AtMost, AtLeastOne
  <2> QED
    BY <2>1, <2>2
<1> QED
  BY <1>1, <1>3, <1>5

\* Another page of the same list.
Turned(d, n) == [d EXCEPT !.page = n]

LEMMA TurnedIs ==
    ASSUME NEW d \in PageData, NEW n \in 1 .. MaxPage(d)
    PROVE  /\ Total(Turned(d, n)) = Total(d) /\ Size(Turned(d, n)) = Size(d)
           /\ Tab(Turned(d, n)) = Tab(d) /\ MaxPage(Turned(d, n)) = MaxPage(d)
           /\ Page(Turned(d, n)) = n
<1> DEFINE e == Turned(d, n)
<1>0. MaxPage(d) \in Nat \ {0} /\ n \in Nat \ {0} /\ n <= MaxPage(d)
  BY Numbers
<1>1. /\ e.total_count = d.total_count /\ e.size = d.size /\ e.page_size = d.page_size
      /\ e.all_search_yn = d.all_search_yn /\ e.page = n
  BY DEF Turned, PageData
<1>2. /\ Total(e) = Total(d) /\ Asked(e) = Asked(d) /\ Tab(e) = Tab(d)
      /\ Size(e) = Size(d) /\ MaxPage(e) = MaxPage(d)
  BY <1>1 DEF Total, Asked, Tab, Size, MaxPage
<1>3. Page(e) = n
  <2>1. CASE d.all_search_yn = "Y"
    BY <1>0, <1>1, <2>1 DEF Page, MaxPage
  <2>2. CASE d.all_search_yn # "Y"
    <3>1. OrElse(e.page, 1) = n
      BY <1>0, <1>1, ParameterAssumption DEF OrElse
    <3> HIDE DEF e
    <3> QED
      BY <1>0, <1>1, <1>2, <2>2, <3>1 DEF Page, AtMost, AtLeastOne
  <2> QED
    BY <2>1, <2>2
<1> QED
  BY <1>2, <1>3

LEMMA RangeOfPage ==
    ASSUME NEW d \in PageData
    PROVE  /\ TabEnd(d) \in Nat /\ Page(d) <= TabEnd(d) /\ TabEnd(d) - (Tab(d) - 1) <= Page(d)
           /\ 1 <= TabEnd(d) - (Tab(d) - 1)
<1>0. Page(d) \in Nat \ {0} /\ Tab(d) \in Nat \ {0}
  BY Numbers
<1>1. PICK c \in Nat, t \in Nat \ {0}, p \in Nat \ {0} :
        c = Ceiling(p, t) /\ t = Tab(d) /\ p = Page(d)
  <2>1. Ceiling(Page(d), Tab(d)) \in Nat
    BY <1>0, CeilingBounds
  <2> QED
    BY <1>0, <2>1
<1>2. p <= c * t /\ c * t < p + t /\ c > 0
  <2>1. p <= Ceiling(p, t) * t /\ Ceiling(p, t) * t < p + t /\ Ceiling(p, t) > 0
    BY CeilingBounds
  <2> QED
    BY <1>1, <2>1
<1>3. t <= c * t /\ c * t \in Nat
  BY <1>2, Monotone
<1>4. TabEnd(d) = c * t
  BY <1>1 DEF TabEnd
<1> QED
  BY <1>1, <1>2, <1>3, <1>4

\* The other pages of the tab have the same last one.
LEMMA SameTab ==
    ASSUME NEW d \in PageData, NEW n \in 1 .. MaxPage(d),
           TabEnd(d) - (Tab(d) - 1) <= n, n <= TabEnd(d)
    PROVE  TabEnd(Turned(d, n)) = TabEnd(d)
<1>0. Page(d) \in Nat \ {0} /\ Tab(d) \in Nat \ {0}
  BY Numbers
<1>1. PICK c \in Nat, t \in Nat \ {0}, p \in Nat \ {0} :
        c = Ceiling(p, t) /\ t = Tab(d) /\ p = Page(d)
  <2>1. Ceiling(Page(d), Tab(d)) \in Nat
    BY <1>0, CeilingBounds
  <2> QED
    BY <1>0, <2>1
<1>2. TabEnd(d) = c * t
  BY <1>1 DEF TabEnd
<1>3. MaxPage(d) \in Nat
  BY Numbers
<1>4. n \in Nat /\ n <= c * t /\ c * t < n + t
  BY <1>1, <1>2, <1>3
<1>5. Ceiling(n, t) = c
  BY <1>4, CeilingUnique
<1> QED
  BY <1>1, <1>2, <1>5, TurnedIs DEF TabEnd

\* Page n has the rows from (n - 1) * size.
LEMMA RowsOfPage ==
    ASSUME NEW d \in PageData, NEW n \in 1 .. MaxPage(d)
    PROVE  /\ (n - 1) * Size(d) \in Nat
           /\ Rows(Result(Turned(d, n))) =
                  {k \in 0 .. Total(d) - 1 :
                      (n - 1) * Size(d) <= k /\ k < (n - 1) * Size(d) + Size(d)}
<1>1. PICK s \in Nat, m \in Nat : s = Size(d) /\ m = n - 1
  BY Numbers
<1>2. m * s \in Nat /\ (n - 1) * Size(d) = m * s
  BY <1>1
<1>3. /\ Result(Turned(d, n)).total_count = Total(d)
      /\ Result(Turned(d, n)).limit = Size(d)
      /\ Result(Turned(d, n)).offset = (n - 1) * Size(d)
  <2>1. PICK e : e = Turned(d, n)
    OBVIOUS
  <2>2. /\ Result(e).total_count = Total(e) /\ Result(e).limit = Size(e)
        /\ Result(e).offset = Offset(Page(e), Size(e))
    BY ResultIs
  <2>3. Total(e) = Total(d) /\ Size(e) = Size(d) /\ Page(e) = n
    BY <2>1, TurnedIs
  <2> QED
    BY <2>1, <2>2, <2>3 DEF Offset
<1>4. (n - 1) * Size(d) \in Nat
  BY <1>2
<1>5. PICK page : page = Result(Turned(d, n))
  OBVIOUS
<1>6. Rows(page) = {k \in 0 .. Total(d) - 1 :
                       (n - 1) * Size(d) <= k /\ k < (n - 1) * Size(d) + Size(d)}
  BY Zenon, <1>3, <1>5 DEF Rows
<1> QED
  BY <1>4, <1>5, <1>6

LEMMA NoPageEmpty ==
    ASSUME NEW d \in PageData, d.all_search_yn = "N", Total(d) > 0, NEW n \in 1 .. MaxPage(d)
    PROVE  (n - 1) * Size(d) < Total(d) /\ Size(d) > 0
<1>1. PICK s \in Nat \ {0}, c \in Nat, t \in Nat :
        s = Size(d) /\ t = Total(d) /\ c = Ceiling(t, s) /\ s = Asked(d)
  BY Numbers, CeilingBounds DEF Size
<1>2. c > 0 /\ c * s < t + s
  BY <1>1, CeilingBounds
<1>3. MaxPage(d) = c
  BY <1>1, <1>2 DEF MaxPage, AtLeastOne
<1>4. PICK m \in Nat : m = n - 1 /\ m < c
  BY <1>3
<1>5. m * s + s <= c * s /\ m * s \in Nat /\ c * s \in Nat
  BY <1>4, Monotone
<1> QED
  BY <1>1, <1>2, <1>4, <1>5

\* Every row is on a page.
LEMMA PageOfRow ==
    ASSUME NEW d \in PageData, NEW k \in 0 .. Total(d) - 1
    PROVE  \E n \in 1 .. MaxPage(d) :
              (n - 1) * Size(d) <= k /\ k < (n - 1) * Size(d) + Size(d)
<1>1. Total(d) \in Nat /\ k \in Nat
  BY Numbers
<1>2. CASE d.all_search_yn = "Y"
  <2>1. MaxPage(d) = 1 /\ Size(d) = Total(d)
    BY <1>2 DEF MaxPage, Size
  <2>2. 1 \in 1 .. MaxPage(d) /\ (1 - 1) * Size(d) = 0
    BY <1>1, <2>1
  <2> QED
    BY <1>1, <2>1, <2>2
<1>3. CASE d.all_search_yn # "Y"
  <2>1. PICK s \in Nat \ {0}, c \in Nat, t \in Nat :
          s = Size(d) /\ t = Total(d) /\ c = Ceiling(t, s) /\ s = Asked(d)
    BY <1>3, Numbers, CeilingBounds DEF Size
  <2>2. t <= c * s /\ c > 0
    <3>1. t <= Ceiling(t, s) * s /\ (t > 0 => Ceiling(t, s) > 0)
      BY CeilingBounds
    <3>2. t > 0
      BY <1>1, <2>1
    <3> QED
      BY <2>1, <3>1, <3>2
  <2>3. MaxPage(d) = c
    BY <1>3, <2>1, <2>2 DEF MaxPage, AtLeastOne
  <2>4. PICK n \in Nat : n = Ceiling(k + 1, s)
    BY <1>1, CeilingBounds
  <2>5. k + 1 <= n * s /\ n * s < k + 1 + s /\ n > 0
    BY <1>1, <2>4, CeilingBounds
  <2>6. c * s \in Nat /\ n * s \in Nat
    OBVIOUS
  <2>7. ~(c < n)
    <3>1. ASSUME c < n PROVE FALSE
      <4>1. c * s + s <= n * s
        BY <3>1, Monotone
      <4> QED
        BY <1>1, <2>1, <2>2, <2>5, <2>6, <4>1
    <3> QED
      BY <3>1
  <2>8. (n - 1) * s = n * s - s
    OBVIOUS
  <2>9. n \in 1 .. c
    BY <2>5, <2>7
  <2>10. n * s - s <= k /\ k < n * s - s + s
    BY <1>1, <2>5, <2>6
  <2> QED
    BY <2>1, <2>3, <2>8, <2>9, <2>10
<1> QED
  BY <1>2, <1>3

\* A later page begins where an earlier one has ended.
LEMMA PagesInOrder ==
    ASSUME NEW s \in Nat, NEW n \in Nat \ {0}, NEW m \in Nat, n < m
    PROVE  (n - 1) * s + s <= (m - 1) * s
<1>1. CASE s = 0
  <2>1. (n - 1) * s = 0 /\ (m - 1) * s = 0
    BY <1>1
  <2> QED
    BY <1>1, <2>1
<1>2. CASE s # 0
  BY <1>2, Monotone
<1> QED
  BY <1>1, <1>2

-----------------------------------------------------------------------------
(* Induction and recursion over the numbers up to one of them.             *)

\* Every set of numbers that is not empty has a least one.
LEMMA LeastNat ==
    ASSUME NEW T \in SUBSET Nat, T # {}
    PROVE  \E n \in T : \A m \in T : n <= m
<1>1. PICK R : R = OpToRel(<, Nat)
  OBVIOUS
<1>2. R = {ij \in Nat \X Nat : ij[1] < ij[2]}
  BY <1>1 DEF OpToRel
<1>3. IsWellFoundedOn(R, Nat)
  BY Zenon, <1>1, NatLessThanWellFounded
<1>4. PICK n \in T : \A m \in T : ~(<<m, n>> \in R)
  BY <1>3, WFMin
<1>5. ASSUME NEW m \in T PROVE n <= m
  <2>1. m \in Nat /\ n \in Nat
    OBVIOUS
  <2>2. m < n => <<m, n>> \in {ij \in Nat \X Nat : ij[1] < ij[2]}
    BY <2>1
  <2>3. ~(m < n)
    BY Zenon, <1>2, <1>4, <2>2
  <2> QED
    BY <2>1, <2>3
<1> QED
  BY Zenon, <1>5

\* Induction, for a set in the place of a predicate.
LEMMA UpTo ==
    ASSUME NEW N \in Nat, NEW T \in SUBSET (0 .. N), 0 \in T,
           \A n \in T : n < N => n + 1 \in T
    PROVE  T = 0 .. N
<1> SUFFICES ASSUME (0 .. N) \ T # {} PROVE FALSE
  OBVIOUS
<1>1. PICK n \in (0 .. N) \ T : \A m \in (0 .. N) \ T : n <= m
  <2>1. (0 .. N) \ T \in SUBSET Nat
    OBVIOUS
  <2> QED
    BY <2>1, LeastNat
<1>2. n # 0 /\ n - 1 \in 0 .. N /\ n - 1 < n
  BY <1>1
<1>3. n - 1 \in T
  BY <1>1, <1>2
<1> QED
  BY <1>1, <1>2, <1>3

\* The functions that are x at 0 and at each number what F makes of the one before.
Chain(X, x, N, F) ==
    {g \in [0 .. N -> X] : g[0] = x /\ \A k \in 1 .. N : g[k] = F[<<k, g[k - 1]>>]}

LEMMA Recursion ==
    ASSUME NEW X, NEW x \in X, NEW N \in Nat, NEW F \in [(1 .. N) \X X -> X]
    PROVE  Chain(X, x, N, F) # {}
<1> DEFINE Good(n, g) == g[0] = x /\ \A k \in 1 .. n : g[k] = F[<<k, g[k - 1]>>]
           T == {n \in 0 .. N : \E g \in [0 .. n -> X] : Good(n, g)}
<1>1. 0 \in T
  <2>1. PICK g : g = [k \in 0 .. 0 |-> x]
    OBVIOUS
  <2>2. g \in [0 .. 0 -> X] /\ Good(0, g) /\ 0 \in 0 .. N
    BY <2>1
  <2> HIDE DEF Good
  <2> QED
    BY <2>2
<1>2. ASSUME NEW n \in T, n < N PROVE n + 1 \in T
  <2>1. PICK g \in [0 .. n -> X] : Good(n, g)
    OBVIOUS
  <2>2. n \in Nat /\ n + 1 \in 1 .. N /\ g[n] \in X
    BY <1>2
  <2>3. PICK y \in X : y = F[<<n + 1, g[n]>>]
    BY <2>2
  <2>4. PICK h : h = [k \in 0 .. n + 1 |-> IF k = n + 1 THEN y ELSE g[k]]
    OBVIOUS
  <2>5. h \in [0 .. n + 1 -> X]
    BY <2>2, <2>4
  <2>6. h[n + 1] = y /\ \A k \in 0 .. n : h[k] = g[k]
    BY <2>2, <2>4
  <2>7. ASSUME NEW k \in 1 .. n + 1 PROVE h[k] = F[<<k, h[k - 1]>>]
    <3>1. CASE k = n + 1
      <4>1. h[k - 1] = g[n]
        BY <2>2, <2>6, <3>1
      <4> QED
        BY <2>3, <2>6, <3>1, <4>1
    <3>2. CASE k # n + 1
      <4>1. k \in 1 .. n /\ k \in 0 .. n /\ k - 1 \in 0 .. n
        BY <2>2, <3>2
      <4> QED
        BY <2>1, <2>6, <4>1
    <3> QED
      BY <3>1, <3>2
  <2>8. Good(n + 1, h)
    BY <2>1, <2>2, <2>6, <2>7
  <2> HIDE DEF Good
  <2> QED
    BY <2>2, <2>5, <2>8
<1>3. N \in T
  <2> HIDE DEF T
  <2>1. T \in SUBSET (0 .. N)
    BY DEF T
  <2> QED
    BY <1>1, <1>2, <2>1, UpTo
<1>4. PICK g \in [0 .. N -> X] : Good(N, g)
  BY <1>3
<1>5. g \in Chain(X, x, N, F)
  BY <1>4 DEF Chain
<1> QED
  BY <1>5

-----------------------------------------------------------------------------
(* The heading of a sheet.                                                 *)

Push(keys, pushed) ==
    [n \in 0 .. Len(keys) |->
        IF n = 0 THEN <<>>
        ELSE IF keys[n] = Absent THEN pushed[n - 1]
        ELSE Append(pushed[n - 1], Memo[keys[n]])]
Pushed(keys) == CHOOSE pushed : pushed = Push(keys, pushed)

LEMMA HeadingIs ==
    ASSUME NEW keys
    PROVE  Heading(keys) = Pushed(keys)[Len(keys)]
BY Zenon DEF Heading, Pushed, Push

Named(keys) == {Memo[c] : c \in ToSet(keys) \ {Absent}}

LEMMA PushedIs ==
    ASSUME NEW S, NEW keys \in Seq(S)
    PROVE  LET p == Pushed(keys)
           IN  /\ p[0] = <<>>
               /\ \A n \in 1 .. Len(keys) :
                     p[n] = IF keys[n] = Absent THEN p[n - 1] ELSE Append(p[n - 1], Memo[keys[n]])
<1> DEFINE X == Seq(Named(keys))
           F == [q \in (1 .. Len(keys)) \X X |->
                    IF keys[q[1]] = Absent THEN q[2] ELSE Append(q[2], Memo[keys[q[1]]])]
<1>1. Len(keys) \in Nat /\ <<>> \in X
  OBVIOUS
<1>2. F \in [(1 .. Len(keys)) \X X -> X]
  <2>1. ASSUME NEW n \in 1 .. Len(keys), NEW s \in X, keys[n] # Absent
        PROVE  Append(s, Memo[keys[n]]) \in X
    <3>1. keys[n] \in ToSet(keys) \ {Absent}
      BY <2>1 DEF ToSet
    <3>2. Memo[keys[n]] \in Named(keys)
      BY <3>1 DEF Named
    <3> HIDE DEF Named
    <3> QED
      BY <3>2
  <2> QED
    BY <2>1
<1>3. PICK g \in [0 .. Len(keys) -> X] :
        g[0] = <<>> /\ \A k \in 1 .. Len(keys) : g[k] = F[<<k, g[k - 1]>>]
  <2> HIDE DEF F, X
  <2>1. Chain(X, <<>>, Len(keys), F) # {}
    BY <1>1, <1>2, Recursion
  <2> QED
    BY <2>1 DEF Chain
<1>4. ASSUME NEW k \in 1 .. Len(keys)
      PROVE  g[k] = IF keys[k] = Absent THEN g[k - 1] ELSE Append(g[k - 1], Memo[keys[k]])
  <2>1. k - 1 \in 0 .. Len(keys) /\ g[k - 1] \in X
    BY <1>1
  <2>2. F[<<k, g[k - 1]>>] =
          IF keys[k] = Absent THEN g[k - 1] ELSE Append(g[k - 1], Memo[keys[k]])
    <3> HIDE DEF X
    <3> QED
      BY <2>1
  <2> QED
    BY <1>3, <2>2
<1>5. g = Push(keys, g)
  <2> HIDE DEF F, X
  <2>1. PICK L \in Nat : L = Len(keys)
    BY <1>1
  <2>2. g = [n \in 0 .. L |-> g[n]]
    BY <2>1
  <2>3. \A n \in 0 .. L : n = 0 \/ n \in 1 .. L
    OBVIOUS
  <2>4. \A n \in 0 .. L :
          g[n] = IF n = 0 THEN <<>>
                 ELSE IF keys[n] = Absent THEN g[n - 1]
                 ELSE Append(g[n - 1], Memo[keys[n]])
    BY <1>3, <1>4, <2>1, <2>3
  <2>5. Push(keys, g) = [n \in 0 .. L |-> IF n = 0 THEN <<>>
                                        ELSE IF keys[n] = Absent THEN g[n - 1]
                                        ELSE Append(g[n - 1], Memo[keys[n]])]
    BY Zenon, <2>1 DEF Push
  <2> QED
    BY <2>2, <2>4, <2>5
<1>6. Pushed(keys) = Push(keys, Pushed(keys))
  BY Zenon, <1>5 DEF Pushed
<1>7. PICK p : p = Pushed(keys) /\ p = Push(keys, p)
  BY <1>6
<1>8. /\ p[0] = <<>>
      /\ \A n \in 1 .. Len(keys) :
            p[n] = IF keys[n] = Absent THEN p[n - 1] ELSE Append(p[n - 1], Memo[keys[n]])
  <2>1. \A n \in 0 .. Len(keys) :
          Push(keys, p)[n] = IF n = 0 THEN <<>>
                             ELSE IF keys[n] = Absent THEN p[n - 1]
                             ELSE Append(p[n - 1], Memo[keys[n]])
    BY DEF Push
  <2>2. 0 \in 0 .. Len(keys) /\ \A n \in 1 .. Len(keys) : n \in 0 .. Len(keys) /\ n # 0
    BY <1>1
  <2> QED
    BY Zenon, <1>7, <2>1, <2>2
<1> QED
  BY <1>7, <1>8

LEMMA NamedSeq ==
    ASSUME NEW S, NEW keys \in Seq(S)
    PROVE  /\ Heading(keys) \in Seq(Named(keys))
           /\ Heading(keys) = <<>> <=> \A n \in 1 .. Len(keys) : keys[n] = Absent
<1>0. PICK L \in Nat : L = Len(keys)
  OBVIOUS
<1>1. PICK p :
        /\ Heading(keys) = p[L] /\ p[0] = <<>>
        /\ \A n \in 1 .. L :
              p[n] = IF keys[n] = Absent THEN p[n - 1] ELSE Append(p[n - 1], Memo[keys[n]])
  BY <1>0, PushedIs, HeadingIs
<1> DEFINE T == {n \in 0 .. L : /\ p[n] \in Seq(Named(keys))
                                /\ p[n] = <<>> <=> \A j \in 1 .. n : keys[j] = Absent}
<1>2. 0 \in T
  <2>1. <<>> \in Seq(Named(keys)) /\ 0 \in 0 .. L /\ 1 .. 0 = {}
    OBVIOUS
  <2> QED
    BY <1>1, <2>1
<1>3. ASSUME NEW n \in T, n < L PROVE n + 1 \in T
  <2>1. n \in Nat /\ n + 1 \in 1 .. L /\ n + 1 \in 0 .. L /\ (n + 1) - 1 = n
    BY <1>3
  <2>2. /\ p[n] \in Seq(Named(keys))
        /\ p[n] = <<>> <=> \A j \in 1 .. n : keys[j] = Absent
    OBVIOUS
  <2>3. \A j \in 1 .. n + 1 : j \in 1 .. n \/ j = n + 1
    BY <2>1
  <2>4. p[n + 1] = IF keys[n + 1] = Absent THEN p[n] ELSE Append(p[n], Memo[keys[n + 1]])
    BY <1>0, <1>1, <2>1
  <2>5. CASE keys[n + 1] = Absent
    <3>1. p[n + 1] = p[n]
      BY <2>4, <2>5
    <3>2. (\A j \in 1 .. n + 1 : keys[j] = Absent) <=> \A j \in 1 .. n : keys[j] = Absent
      BY <2>1, <2>3, <2>5
    <3> QED
      BY <2>1, <2>2, <3>1, <3>2
  <2>6. CASE keys[n + 1] # Absent
    <3>1. Memo[keys[n + 1]] \in Named(keys)
      <4>1. keys[n + 1] \in ToSet(keys)
        BY <1>0, <1>1, <2>1 DEF ToSet
      <4> QED
        BY <2>6, <4>1 DEF Named
    <3>2. p[n + 1] = Append(p[n], Memo[keys[n + 1]])
      BY <2>4, <2>6
    <3>3. p[n + 1] \in Seq(Named(keys)) /\ p[n + 1] # <<>>
      <4>1. \A N, s, e : s \in Seq(N) /\ e \in N => Append(s, e) \in Seq(N) /\ Append(s, e) # <<>>
        OBVIOUS
      <4> QED
        BY Zenon, <2>2, <3>1, <3>2, <4>1
    <3>4. ~\A j \in 1 .. n + 1 : keys[j] = Absent
      BY <2>1, <2>6
    <3> QED
      BY <2>1, <3>3, <3>4
  <2> QED
    BY <2>5, <2>6
<1>4. L \in T
  <2> HIDE DEF T
  <2>1. T \in SUBSET (0 .. L)
    BY DEF T
  <2> QED
    BY <1>2, <1>3, <2>1, UpTo
<1> QED
  BY <1>0, <1>1, <1>4

\* If the holes are the last keys, the heading of a key is where the key is.
LEMMA PlainHeading ==
    ASSUME NEW S, NEW keys \in Seq(S), NEW m \in 0 .. Len(keys),
           \A n \in 1 .. Len(keys) : keys[n] # Absent <=> n <= m
    PROVE  Heading(keys) = [n \in 1 .. m |-> Memo[keys[n]]]
<1>0. PICK L \in Nat : L = Len(keys)
  OBVIOUS
<1>1. PICK p :
        /\ Heading(keys) = p[L] /\ p[0] = <<>>
        /\ \A n \in 1 .. L :
              p[n] = IF keys[n] = Absent THEN p[n - 1] ELSE Append(p[n - 1], Memo[keys[n]])
  BY <1>0, PushedIs, HeadingIs
<1> DEFINE Upper(n) == IF n <= m THEN n ELSE m
           Plain(n) == [j \in 1 .. n |-> Memo[keys[j]]]
           T == {n \in 0 .. L : p[n] = Plain(Upper(n))}
<1>2. 0 \in T
  BY <1>0, <1>1
<1>3. ASSUME NEW n \in T, n < L PROVE n + 1 \in T
  <2>1. /\ n \in Nat /\ n + 1 \in 1 .. L /\ n + 1 \in 0 .. L /\ (n + 1) - 1 = n /\ m \in Nat
        /\ p[n] = Plain(Upper(n))
    BY <1>0, <1>1, <1>3
  <2>2. p[n + 1] = IF keys[n + 1] = Absent THEN p[n] ELSE Append(p[n], Memo[keys[n + 1]])
    BY <1>0, <1>1, <2>1
  <2>3. CASE n + 1 <= m
    <3>1. p[n] = Plain(n) /\ Upper(n + 1) = n + 1
      BY <2>1, <2>3
    <3>2. p[n + 1] = Append(Plain(n), Memo[keys[n + 1]])
      <4> HIDE DEF Plain, Upper
      <4> QED
        BY <1>0, <1>1, <2>1, <2>2, <2>3, <3>1
    <3>3. Append(Plain(n), Memo[keys[n + 1]]) = Plain(n + 1)
      BY <2>1
    <3> HIDE DEF Plain, Upper
    <3> QED
      BY <2>1, <3>1, <3>2, <3>3
  <2>4. CASE ~(n + 1 <= m)
    <3>1. Upper(n + 1) = Upper(n)
      BY <2>1, <2>4
    <3> HIDE DEF Plain, Upper
    <3> QED
      BY <1>0, <1>1, <2>1, <2>2, <2>4, <3>1
  <2> QED
    BY <2>3, <2>4
<1>4. L \in T
  <2> HIDE DEF T
  <2>1. T \in SUBSET (0 .. L)
    BY DEF T
  <2> QED
    BY <1>2, <1>3, <2>1, UpTo
<1>5. Upper(L) = m
  BY <1>0, <1>1
<1> QED
  BY <1>0, <1>1, <1>4, <1>5

-----------------------------------------------------------------------------
(* A sheet that was written and is read.                                   *)

LEMMA KeysAre ==
    ASSUME NEW conf \in Seq(DOMAIN Memo), NEW list
    PROVE  /\ Keys(conf, list) \in Seq(DOMAIN Memo \cup {Absent})
           /\ Len(Keys(conf, list)) = Len(conf) /\ DOMAIN conf = 1 .. Len(conf)
           /\ \A n \in 1 .. Len(conf) :
                 /\ conf[n] \in DOMAIN Memo /\ conf[n] # Absent
                 /\ Keys(conf, list)[n] = IF InFirst(list, conf[n]) THEN conf[n] ELSE Absent
                 /\ Keys(conf, list)[n] # Absent <=> InFirst(list, conf[n])
<1>1. DOMAIN conf = 1 .. Len(conf) /\ Len(conf) \in Nat
  OBVIOUS
<1>2. ASSUME NEW n \in 1 .. Len(conf)
      PROVE  /\ conf[n] \in DOMAIN Memo /\ conf[n] # Absent
             /\ Keys(conf, list)[n] = IF InFirst(list, conf[n]) THEN conf[n] ELSE Absent
  BY <1>1, HeadingAssumption DEF Keys, InFirst
<1>3. Keys(conf, list) \in [1 .. Len(conf) -> DOMAIN Memo \cup {Absent}]
  BY <1>1, HeadingAssumption DEF Keys
<1> QED
  BY <1>1, <1>2, <1>3

LEMMA LastOfFirst ==
    ASSUME NEW conf \in Seq(DOMAIN Memo), NEW list, Aligned(conf, list)
    PROVE  \E m \in 0 .. Len(conf) : \A n \in 1 .. Len(conf) : InFirst(list, conf[n]) <=> n <= m
<1>1. DOMAIN conf = 1 .. Len(conf) /\ Len(conf) \in Nat
  OBVIOUS
<1>2. PICK T : T = {n \in 1 .. Len(conf) + 1 : n <= Len(conf) => ~InFirst(list, conf[n])}
  OBVIOUS
<1>3. PICK k \in T : \A n \in T : k <= n
  <2>1. T \in SUBSET Nat /\ Len(conf) + 1 \in T
    BY <1>1, <1>2
  <2> QED
    BY <2>1, LeastNat
<1>4. k \in Nat /\ k - 1 \in 0 .. Len(conf)
  BY <1>1, <1>2
<1>5. ASSUME NEW n \in 1 .. Len(conf) PROVE InFirst(list, conf[n]) <=> n <= k - 1
  <2>1. n <= k - 1 => InFirst(list, conf[n])
    BY <1>1, <1>2, <1>3, <1>4
  <2>2. k < n => ~InFirst(list, conf[n])
    BY <1>1, <1>2, <1>4 DEF Aligned
  <2>3. k = n => ~InFirst(list, conf[n])
    BY <1>1, <1>2
  <2> QED
    BY <1>4, <2>1, <2>2, <2>3
<1> QED
  BY <1>4, <1>5

\* A cell has no text exactly where its row has no value.
LEMMA CellIs ==
    ASSUME NEW conf \in Seq(DOMAIN Memo), NEW list, NEW row \in Row, NEW n \in 1 .. Len(conf)
    PROVE  LET keys == Keys(conf, list)
               cells == DataRow(keys, row)
           IN  /\ n \in DOMAIN cells
               /\ cells[n] # Empty => /\ HasValue(row, keys[n]) /\ keys[n] \in DOMAIN row
                                      /\ cells[n] = Text[row[keys[n]]]
               /\ HasValue(row, keys[n]) => cells[n] # Empty
<1>1. PICK keys : keys = Keys(conf, list)
  OBVIOUS
<1>2. n \in DOMAIN keys
  BY <1>1 DEF Keys
<1>3. n \in DOMAIN DataRow(keys, row)
      /\ DataRow(keys, row)[n] = IF HasValue(row, keys[n]) THEN Text[row[keys[n]]] ELSE Empty
  BY <1>2 DEF DataRow
<1>4. HasValue(row, keys[n]) => keys[n] \in DOMAIN row /\ Text[row[keys[n]]] # Empty
  <2>1. \A c \in DOMAIN row : row[c] \in Falsy \cup DOMAIN Text
    BY DEF Row
  <2> QED
    BY <2>1, TextAssumption DEF HasValue
<1> QED
  BY <1>1, <1>3, <1>4

At(c, heading, cells) ==
    {n \in DOMAIN heading \cap DOMAIN cells : heading[n] = Memo[c] /\ cells[n] # Empty}

LEMMA ReadRowIs ==
    ASSUME NEW conf, NEW heading, NEW cells
    PROVE  ReadRow(conf, heading, cells) =
               [c \in {c \in ToSet(conf) : At(c, heading, cells) # {}} |->
                   cells[CHOOSE n \in At(c, heading, cells) : TRUE]]
BY DEF ReadRow, At

\* Under a heading without holes, a row is what its list keeps of it.
LEMMA ReadKept ==
    ASSUME NEW conf \in Seq(DOMAIN Memo), IsInjective(conf), NEW list, NEW row \in Row,
           Aligned(conf, list)
    PROVE  ReadRow(conf, Heading(Keys(conf, list)), DataRow(Keys(conf, list), row))
               = Kept(conf, list, row)
<1>1. PICK m \in 0 .. Len(conf) :
        \A n \in 1 .. Len(conf) : InFirst(list, conf[n]) <=> n <= m
  BY LastOfFirst
<1>2. PICK keys, heading, cells :
        keys = Keys(conf, list) /\ heading = Heading(keys) /\ cells = DataRow(keys, row)
  OBVIOUS
<1>3. /\ keys \in Seq(DOMAIN Memo \cup {Absent}) /\ Len(keys) = Len(conf)
      /\ DOMAIN conf = 1 .. Len(conf) /\ Len(conf) \in Nat
      /\ \A n \in 1 .. Len(conf) : /\ conf[n] \in DOMAIN Memo
                                   /\ keys[n] = IF InFirst(list, conf[n]) THEN conf[n] ELSE Absent
                                   /\ keys[n] # Absent <=> n <= m
  BY <1>1, <1>2, KeysAre
<1>4. heading = [n \in 1 .. m |-> Memo[keys[n]]]
  <2>1. m \in 0 .. Len(keys) /\ \A n \in 1 .. Len(keys) : keys[n] # Absent <=> n <= m
    BY <1>3
  <2>2. keys \in Seq(DOMAIN Memo \cup {Absent})
    BY <1>3
  <2>3. Heading(keys) = [n \in 1 .. m |-> Memo[keys[n]]]
    BY <2>1, <2>2, PlainHeading
  <2> QED
    BY <1>2, <2>3
<1>5. /\ DOMAIN heading = 1 .. m
      /\ \A n \in 1 .. m : n \in 1 .. Len(conf) /\ heading[n] = Memo[conf[n]]
  BY <1>1, <1>3, <1>4
<1>6. \A n \in 1 .. m : /\ n \in DOMAIN cells /\ keys[n] = conf[n]
                        /\ cells[n] # Empty <=> HasValue(row, conf[n])
                        /\ cells[n] # Empty => cells[n] = Text[row[conf[n]]]
  <2> SUFFICES ASSUME NEW n \in 1 .. m
               PROVE  /\ n \in DOMAIN cells /\ keys[n] = conf[n]
                      /\ cells[n] # Empty <=> HasValue(row, conf[n])
                      /\ cells[n] # Empty => cells[n] = Text[row[conf[n]]]
    OBVIOUS
  <2>1. n \in 1 .. Len(conf) /\ keys[n] = conf[n]
    BY <1>1, <1>3, <1>5
  <2>2. /\ n \in DOMAIN cells
        /\ cells[n] # Empty => HasValue(row, keys[n]) /\ cells[n] = Text[row[keys[n]]]
        /\ HasValue(row, keys[n]) => cells[n] # Empty
    BY Zenon, <1>2, <2>1, CellIs
  <2> QED
    BY <2>1, <2>2
<1>7. ASSUME NEW j \in 1 .. Len(conf)
      PROVE  At(conf[j], heading, cells) = IF j <= m /\ HasValue(row, conf[j]) THEN {j} ELSE {}
  <2>1. ASSUME NEW n \in 1 .. m PROVE Memo[conf[n]] = Memo[conf[j]] <=> n = j
    BY <1>3, <1>5, HeadingAssumption DEF IsInjective
  <2>2. At(conf[j], heading, cells) = {n \in 1 .. m : n = j /\ cells[n] # Empty}
    BY <1>5, <1>6, <2>1 DEF At
  <2> QED
    BY <1>1, <1>3, <1>6, <2>2
<1>8. ASSUME NEW c \in ToSet(conf)
      PROVE  /\ At(c, heading, cells) # {} <=> InFirst(list, c) /\ HasValue(row, c)
             /\ At(c, heading, cells) # {} =>
                    cells[CHOOSE n \in At(c, heading, cells) : TRUE] = Text[row[c]]
  <2>1. PICK j \in 1 .. Len(conf) : c = conf[j]
    BY <1>3 DEF ToSet
  <2>2. At(c, heading, cells) # {} <=> InFirst(list, c) /\ HasValue(row, c)
    BY <1>1, <1>7, <2>1
  <2>3. CASE At(c, heading, cells) # {}
    <3>1. At(c, heading, cells) = {j} /\ j \in 1 .. m /\ HasValue(row, c)
      <4>1. At(c, heading, cells) = IF j <= m /\ HasValue(row, c) THEN {j} ELSE {}
        BY <1>7, <2>1
      <4>2. j <= m /\ HasValue(row, c)
        BY <2>3, <4>1
      <4> QED
        BY <1>1, <1>3, <4>1, <4>2
    <3>2. (CHOOSE n \in At(c, heading, cells) : TRUE) \in At(c, heading, cells)
      <4>1. \A W : W # {} => (CHOOSE n \in W : TRUE) \in W
        OBVIOUS
      <4> QED
        BY Zenon, <2>3, <4>1
    <3>3. cells[j] = Text[row[c]]
      BY <1>6, <2>1, <3>1
    <3>4. (CHOOSE n \in At(c, heading, cells) : TRUE) = j
      BY <3>1, <3>2
    <3> QED
      BY <2>2, <3>3, <3>4
  <2> QED
    BY <2>2, <2>3
<1>9. {c \in ToSet(conf) : At(c, heading, cells) # {}} =
          {c \in ToSet(conf) : InFirst(list, c) /\ HasValue(row, c)}
  BY <1>8
<1>10. ReadRow(conf, heading, cells) = Kept(conf, list, row)
  <2>1. ReadRow(conf, heading, cells) =
            [c \in {c \in ToSet(conf) : InFirst(list, c) /\ HasValue(row, c)} |->
                cells[CHOOSE n \in At(c, heading, cells) : TRUE]]
    BY <1>9, ReadRowIs
  <2>2. \A c \in {c \in ToSet(conf) : InFirst(list, c) /\ HasValue(row, c)} :
            cells[CHOOSE n \in At(c, heading, cells) : TRUE] = Text[row[c]]
    BY <1>8
  <2> QED
    BY <2>1, <2>2 DEF Kept
<1> QED
  BY <1>2, <1>10

LEMMA TailIs ==
    ASSUME NEW Y, NEW N \in Nat \ {0}, NEW s \in [1 .. N -> Y]
    PROVE  Tail(s) = [i \in 1 .. N - 1 |-> s[i + 1]]
<1>1. s \in Seq(Y) /\ Len(s) = N /\ s # <<>>
  OBVIOUS
<1>2. PICK u : /\ u = Tail(s) /\ u \in Seq(Y) /\ Len(u) = N - 1
               /\ \A i \in 1 .. Len(u) : u[i] = s[i + 1]
  BY <1>1, HeadTailProperties
<1>3. N - 1 \in Nat /\ Len(u) \in Nat /\ 1 .. Len(u) = 1 .. N - 1
  BY <1>2
<1>4. u \in [1 .. Len(u) -> Y]
  BY Zenon, <1>2, LenProperties
<1>5. u \in [1 .. N - 1 -> Y] /\ \A i \in 1 .. N - 1 : u[i] = s[i + 1]
  BY Zenon, <1>2, <1>3, <1>4
<1>6. u = [i \in 1 .. N - 1 |-> s[i + 1]]
  BY <1>5
<1> QED
  BY <1>2, <1>6

\* A row as it is read from a sheet of its list.
Back(conf, list, row) ==
    ReadRow(conf, Heading(Keys(conf, list)), DataRow(Keys(conf, list), row))

LEMMA SheetIs ==
    ASSUME NEW conf \in Seq(DOMAIN Memo), NEW list \in Seq(Row)
    PROVE  LET read == ReadSheet(conf, createSheet(conf, list))
           IN  /\ Headed(conf, list) \/ list = <<>> =>
                     read = [i \in DOMAIN list |-> Back(conf, list, list[i])]
               /\ ~Headed(conf, list) /\ list # <<>> =>
                     read = [i \in 1 .. Len(list) - 1 |-> Back(conf, list, list[i + 1])]
<1>0. PICK keys : keys = Keys(conf, list)
  OBVIOUS
<1>1. PICK sheet : sheet = createSheet(conf, list)
  OBVIOUS
<1>2. /\ sheet.heading = Heading(keys)
      /\ sheet.rows = [i \in DOMAIN list |-> DataRow(keys, list[i])]
      /\ DOMAIN list = 1 .. Len(list) /\ Len(list) \in Nat
  BY <1>0, <1>1 DEF createSheet
<1>3. sheet.rows = <<>> <=> list = <<>>
  BY <1>2
<1>4. Heading(keys) = <<>> <=> ~Headed(conf, list)
  <2>1. Heading(keys) = <<>> <=> \A n \in 1 .. Len(conf) : ~InFirst(list, conf[n])
    <3>1. /\ keys \in Seq(DOMAIN Memo \cup {Absent}) /\ Len(keys) = Len(conf)
          /\ \A n \in 1 .. Len(conf) : keys[n] # Absent <=> InFirst(list, conf[n])
      BY <1>0, KeysAre
    <3>2. Heading(keys) = <<>> <=> \A n \in 1 .. Len(keys) : keys[n] = Absent
      BY <3>1, NamedSeq
    <3> QED
      BY <3>1, <3>2
  <2>2. ToSet(conf) = {conf[n] : n \in 1 .. Len(conf)}
    BY KeysAre DEF ToSet
  <2> QED
    BY <2>1, <2>2 DEF Headed
<1>5. \A row : Back(conf, list, row) = ReadRow(conf, Heading(keys), DataRow(keys, row))
  BY <1>0 DEF Back
<1>6. CASE Headed(conf, list) \/ list = <<>>
  <2>1. ReadSheet(conf, sheet) =
            [i \in DOMAIN sheet.rows |-> ReadRow(conf, sheet.heading, sheet.rows[i])]
    BY <1>2, <1>3, <1>4, <1>6 DEF ReadSheet
  <2>2. ReadSheet(conf, sheet) = [i \in DOMAIN list |-> Back(conf, list, list[i])]
    BY <1>2, <1>5, <2>1
  <2> QED
    BY <1>1, <1>6, <2>2
<1>7. CASE ~Headed(conf, list) /\ list # <<>>
  <2>1. PICK rows : rows = Tail(sheet.rows)
    OBVIOUS
  <2>2. ReadSheet(conf, sheet) = [i \in DOMAIN rows |-> ReadRow(conf, sheet.heading, rows[i])]
    BY <1>2, <1>3, <1>4, <1>7, <2>1 DEF ReadSheet
  <2>3. rows = [i \in 1 .. Len(list) - 1 |-> DataRow(keys, list[i + 1])]
    <3>1. PICK Y, N, s : /\ Y = {DataRow(keys, list[i]) : i \in DOMAIN list}
                         /\ N = Len(list) /\ s = sheet.rows
      OBVIOUS
    <3>2. s \in [1 .. N -> Y] /\ N \in Nat \ {0}
      BY <1>2, <1>7, <3>1
    <3>3. rows = [i \in 1 .. Len(list) - 1 |-> sheet.rows[i + 1]]
      BY <2>1, <3>1, <3>2, TailIs
    <3> QED
      BY <1>2, <3>3
  <2>4. ReadSheet(conf, sheet) =
            [i \in 1 .. Len(list) - 1 |-> Back(conf, list, list[i + 1])]
    BY <1>2, <1>5, <2>2, <2>3
  <2> QED
    BY <1>1, <1>7, <2>4
<1> QED
  BY <1>6, <1>7

\* A value that is read stands under a column of the first row, and is one of
\* the values of its own row.
LEMMA BackFits ==
    ASSUME NEW conf \in Seq(DOMAIN Memo), NEW list, NEW row \in Row,
           NEW c \in DOMAIN Back(conf, list, row)
    PROVE  /\ InFirst(list, c)
           /\ \E d \in DOMAIN row :
                 HasValue(row, d) /\ Back(conf, list, row)[c] = Text[row[d]]
<1>1. PICK keys, heading, cells :
        keys = Keys(conf, list) /\ heading = Heading(keys) /\ cells = DataRow(keys, row)
  OBVIOUS
<1>2. /\ keys \in Seq(DOMAIN Memo \cup {Absent}) /\ Len(keys) = Len(conf)
      /\ DOMAIN conf = 1 .. Len(conf) /\ Len(conf) \in Nat
      /\ \A n \in 1 .. Len(conf) :
            /\ conf[n] \in DOMAIN Memo
            /\ keys[n] # Absent => keys[n] = conf[n] /\ InFirst(list, conf[n])
  BY <1>1, KeysAre
<1>3. Back(conf, list, row) =
          [k \in {k \in ToSet(conf) : At(k, heading, cells) # {}} |->
              cells[CHOOSE n \in At(k, heading, cells) : TRUE]]
  <2>1. Back(conf, list, row) = ReadRow(conf, heading, cells)
    BY <1>1 DEF Back
  <2> QED
    BY <2>1, ReadRowIs
<1>4. c \in ToSet(conf) /\ At(c, heading, cells) # {}
  BY <1>3
<1>5. PICK n \in At(c, heading, cells) : Back(conf, list, row)[c] = cells[n]
  <2>1. \A W : W # {} => (CHOOSE k \in W : TRUE) \in W
    OBVIOUS
  <2>2. (CHOOSE k \in At(c, heading, cells) : TRUE) \in At(c, heading, cells)
    BY Zenon, <1>4, <2>1
  <2> QED
    BY <1>3, <1>4, <2>2
<1>6. n \in DOMAIN heading /\ n \in DOMAIN cells /\ heading[n] = Memo[c] /\ cells[n] # Empty
  BY DEF At
<1>7. InFirst(list, c)
  <2>1. heading \in Seq(Named(keys))
    BY <1>1, <1>2, NamedSeq
  <2>2. heading[n] \in Named(keys)
    <3>1. \A W : \A s \in Seq(W) : \A k \in DOMAIN s : s[k] \in W
      OBVIOUS
    <3> QED
      BY Zenon, <1>6, <2>1, <3>1
  <2>3. PICK j \in 1 .. Len(conf) : keys[j] # Absent /\ Memo[c] = Memo[keys[j]]
    BY <1>2, <1>6, <2>2 DEF Named, ToSet
  <2>4. keys[j] \in DOMAIN Memo /\ c \in DOMAIN Memo /\ InFirst(list, keys[j])
    BY <1>2, <1>4, <2>3 DEF ToSet
  <2> QED
    BY <2>3, <2>4, HeadingAssumption DEF IsInjective
<1>8. HasValue(row, keys[n]) /\ keys[n] \in DOMAIN row /\ cells[n] = Text[row[keys[n]]]
  <2>1. n \in 1 .. Len(conf)
    BY <1>1, <1>2, <1>6 DEF DataRow
  <2> QED
    BY Zenon, <1>1, <1>6, <2>1, CellIs
<1> QED
  BY <1>5, <1>7, <1>8

-----------------------------------------------------------------------------
(* All sheets of a file.                                                   *)

Join(seqs, flatten) ==
    [i \in 1 .. Len(seqs) |-> IF i = 1 THEN seqs[i] ELSE flatten[i - 1] \o seqs[i]]
Joined(seqs) == CHOOSE flatten : flatten = Join(seqs, flatten)

LEMMA FlattenIs ==
    ASSUME NEW seqs, Len(seqs) # 0
    PROVE  FlattenSeq(seqs) = Joined(seqs)[Len(seqs)]
BY Zenon DEF FlattenSeq, Joined, Join

LEMMA JoinedIs ==
    ASSUME NEW A, NEW seqs \in Seq(Seq(A)), Len(seqs) # 0
    PROVE  LET f == Joined(seqs)
           IN  /\ f[1] = seqs[1]
               /\ \A k \in 2 .. Len(seqs) : f[k] = f[k - 1] \o seqs[k]
<1> DEFINE X == Seq(A)
           F == [q \in (1 .. Len(seqs)) \X X |-> q[2] \o seqs[q[1]]]
<1>1. Len(seqs) \in Nat \ {0} /\ <<>> \in X /\ \A k \in 1 .. Len(seqs) : seqs[k] \in X
  OBVIOUS
<1>2. F \in [(1 .. Len(seqs)) \X X -> X]
  <2>1. \A s, t \in X : s \o t \in X
    OBVIOUS
  <2> HIDE DEF X
  <2>2. \A q \in (1 .. Len(seqs)) \X X : q[1] \in 1 .. Len(seqs) /\ q[2] \in X
    OBVIOUS
  <2>3. \A q \in (1 .. Len(seqs)) \X X : q[2] \o seqs[q[1]] \in X
    BY Zenon, <1>1, <2>1, <2>2
  <2> QED
    BY <2>3
<1>3. PICK g \in [0 .. Len(seqs) -> X] :
        g[0] = <<>> /\ \A k \in 1 .. Len(seqs) : g[k] = F[<<k, g[k - 1]>>]
  <2> HIDE DEF F, X
  <2>1. Chain(X, <<>>, Len(seqs), F) # {}
    BY <1>1, <1>2, Recursion
  <2> QED
    BY <2>1 DEF Chain
<1>4. ASSUME NEW k \in 1 .. Len(seqs) PROVE g[k] = g[k - 1] \o seqs[k]
  <2>1. k - 1 \in 0 .. Len(seqs) /\ g[k - 1] \in X
    <3>1. k - 1 \in 0 .. Len(seqs)
      BY <1>1
    <3>2. \A W : \A h \in [0 .. Len(seqs) -> W] : \A j \in 0 .. Len(seqs) : h[j] \in W
      OBVIOUS
    <3> HIDE DEF X, F
    <3> QED
      BY Zenon, <3>1, <3>2
  <2>2. F[<<k, g[k - 1]>>] = g[k - 1] \o seqs[k]
    <3> HIDE DEF X
    <3> QED
      BY <2>1
  <2> QED
    BY <1>3, <2>2
<1>5. g[1] = seqs[1]
  <2>1. 1 \in 1 .. Len(seqs) /\ 1 - 1 = 0
    BY <1>1
  <2>2. g[1] = g[1 - 1] \o seqs[1]
    BY Zenon, <1>4, <2>1
  <2>3. \A s \in X : <<>> \o s = s
    OBVIOUS
  <2> HIDE DEF X, F
  <2> QED
    BY Zenon, <1>1, <1>3, <2>1, <2>2, <2>3
<1> HIDE DEF F, X
<1>6. PICK h : h = [k \in 1 .. Len(seqs) |-> g[k]]
  OBVIOUS
<1>7. h = Join(seqs, h)
  <2>1. PICK L \in Nat \ {0} : L = Len(seqs)
    BY <1>1
  <2>2. \A k \in 1 .. L : h[k] = IF k = 1 THEN seqs[k] ELSE h[k - 1] \o seqs[k]
    <3> SUFFICES ASSUME NEW k \in 1 .. L, k # 1 PROVE h[k] = h[k - 1] \o seqs[k]
      BY <1>5, <1>6, <2>1
    <3>1. k - 1 \in 1 .. L
      OBVIOUS
    <3> QED
      BY <1>4, <1>6, <2>1, <3>1
  <2>3. h = [k \in 1 .. L |-> h[k]]
    BY <1>6, <2>1
  <2>4. Join(seqs, h) = [k \in 1 .. L |-> IF k = 1 THEN seqs[k] ELSE h[k - 1] \o seqs[k]]
    BY Zenon, <2>1 DEF Join
  <2> QED
    BY <2>2, <2>3, <2>4
<1>8. PICK f : f = Joined(seqs) /\ f = Join(seqs, f)
  BY Zenon, <1>7 DEF Joined
<1>9. \A k \in 1 .. Len(seqs) :
        Join(seqs, f)[k] = IF k = 1 THEN seqs[k] ELSE f[k - 1] \o seqs[k]
  BY DEF Join
<1>10. 1 \in 1 .. Len(seqs) /\ \A k \in 2 .. Len(seqs) : k \in 1 .. Len(seqs) /\ k # 1
  BY <1>1
<1>11. f[1] = seqs[1] /\ \A k \in 2 .. Len(seqs) : f[k] = f[k - 1] \o seqs[k]
  BY Zenon, <1>8, <1>9, <1>10
<1> QED
  BY <1>8, <1>11

\* Sequences of sequences that are alike, place by place, are alike when joined.
Alike(R, s, t) == Len(s) = Len(t) /\ \A i \in 1 .. Len(t) : <<s[i], t[i]>> \in R

LEMMA ConcatAlike ==
    ASSUME NEW A, NEW B, NEW R,
           NEW s \in Seq(A), NEW t \in Seq(B), Alike(R, s, t),
           NEW u \in Seq(A), NEW v \in Seq(B), Alike(R, u, v)
    PROVE  Alike(R, s \o u, t \o v)
<1>1. /\ Len(s) \in Nat /\ Len(u) \in Nat /\ Len(t) = Len(s) /\ Len(v) = Len(u)
      /\ Len(s \o u) = Len(s) + Len(u) /\ Len(t \o v) = Len(s) + Len(u)
  <2>1. Len(s) \in Nat /\ Len(u) \in Nat /\ Len(t) = Len(s) /\ Len(v) = Len(u)
    BY Zenon, LenProperties DEF Alike
  <2>2. Len(s \o u) = Len(s) + Len(u) /\ Len(t \o v) = Len(t) + Len(v)
    BY Zenon, ConcatProperties
  <2> QED
    BY <2>1, <2>2
<1>2. ASSUME NEW i \in 1 .. Len(s) + Len(u) PROVE <<(s \o u)[i], (t \o v)[i]>> \in R
  <2>1. CASE i <= Len(s)
    <3>1. (s \o u)[i] = s[i] /\ (t \o v)[i] = t[i]
      BY <1>1, <2>1
    <3> QED
      BY <1>1, <2>1, <3>1 DEF Alike
  <2>2. CASE ~(i <= Len(s))
    <3>1. (s \o u)[i] = u[i - Len(s)] /\ (t \o v)[i] = v[i - Len(s)]
      BY <1>1, <2>2
    <3>2. i - Len(s) \in 1 .. Len(v)
      BY <1>1, <2>2
    <3> QED
      BY <3>1, <3>2 DEF Alike
  <2> QED
    BY <2>1, <2>2
<1> QED
  BY <1>1, <1>2 DEF Alike

LEMMA FlattenAlike ==
    ASSUME NEW A, NEW B, NEW R, NEW S \in Seq(Seq(A)), NEW T \in Seq(Seq(B)),
           Len(S) = Len(T), \A n \in 1 .. Len(T) : Alike(R, S[n], T[n])
    PROVE  FlattenSeq(T) \in Seq(B) /\ Alike(R, FlattenSeq(S), FlattenSeq(T))
<1>0. Len(S) \in Nat /\ Len(T) \in Nat
  BY Zenon, LenProperties
<1>1. CASE Len(T) = 0
  <2>1. FlattenSeq(S) = S /\ FlattenSeq(T) = T /\ T = <<>>
    BY <1>1 DEF FlattenSeq
  <2>2. <<>> \in Seq(B)
    OBVIOUS
  <2> QED
    BY <1>1, <2>1, <2>2 DEF Alike
<1>2. CASE Len(T) # 0
  <2>0. PICK N \in Nat : N = Len(T) /\ N # 0
    BY Zenon, <1>0, <1>2
  <2>1. PICK L \in Nat : N = L + 1 /\ Len(T) = N /\ Len(S) = N
    <3>1. N - 1 \in Nat /\ N = (N - 1) + 1
      BY <2>0
    <3> QED
      BY Zenon, <2>0, <3>1
  <2>2. PICK f : /\ f[1] = S[1] /\ FlattenSeq(S) = f[L + 1]
                 /\ \A k \in 2 .. L + 1 : f[k] = f[k - 1] \o S[k]
    <3>1. Len(S) # 0 /\ Len(S) = L + 1
      BY Zenon, <2>0, <2>1
    <3>2. FlattenSeq(S) = Joined(S)[Len(S)]
      BY Zenon, <3>1, FlattenIs
    <3>3. /\ Joined(S)[1] = S[1]
          /\ \A k \in 2 .. Len(S) : Joined(S)[k] = Joined(S)[k - 1] \o S[k]
      BY <3>1, JoinedIs
    <3> QED
      BY Zenon, <3>1, <3>2, <3>3
  <2>3. PICK g : /\ g[1] = T[1] /\ FlattenSeq(T) = g[L + 1]
                 /\ \A k \in 2 .. L + 1 : g[k] = g[k - 1] \o T[k]
    <3>1. Len(T) # 0 /\ Len(T) = L + 1
      BY Zenon, <2>0, <2>1
    <3>2. FlattenSeq(T) = Joined(T)[Len(T)]
      BY Zenon, <3>1, FlattenIs
    <3>3. /\ Joined(T)[1] = T[1]
          /\ \A k \in 2 .. Len(T) : Joined(T)[k] = Joined(T)[k - 1] \o T[k]
      BY <3>1, JoinedIs
    <3> QED
      BY Zenon, <3>1, <3>2, <3>3
  <2>4. \A k \in 1 .. L + 1 : S[k] \in Seq(A) /\ T[k] \in Seq(B) /\ Alike(R, S[k], T[k])
    BY <2>1
  <2> DEFINE G == {n \in 0 .. L : /\ f[n + 1] \in Seq(A) /\ g[n + 1] \in Seq(B)
                                  /\ Alike(R, f[n + 1], g[n + 1])}
  <2>5. 0 \in G
    BY <2>2, <2>3, <2>4
  <2>6. ASSUME NEW n \in G, n < L PROVE n + 1 \in G
    <3>1. n + 1 \in 0 .. L /\ (n + 1) + 1 \in 2 .. L + 1 /\ (n + 1) + 1 \in 1 .. L + 1
      BY <2>6
    <3>2. PICK k : k = (n + 1) + 1 /\ k - 1 = n + 1
      BY <3>1
    <3>3. f[k] = f[n + 1] \o S[k] /\ g[k] = g[n + 1] \o T[k]
      BY <2>2, <2>3, <3>1, <3>2
    <3>4. /\ S[k] \in Seq(A) /\ T[k] \in Seq(B) /\ Alike(R, S[k], T[k])
          /\ f[n + 1] \in Seq(A) /\ g[n + 1] \in Seq(B) /\ Alike(R, f[n + 1], g[n + 1])
      BY <2>4, <3>1, <3>2
    <3>5. f[k] \in Seq(A) /\ g[k] \in Seq(B)
      BY <3>3, <3>4
    <3>6. Alike(R, f[k], g[k])
      BY <3>3, <3>4, ConcatAlike
    <3> QED
      BY <3>1, <3>2, <3>5, <3>6
  <2>7. L \in G
    <3> HIDE DEF G
    <3>1. G \in SUBSET (0 .. L) /\ \A n \in G : n < L => n + 1 \in G
      BY <2>6 DEF G
    <3>2. G = 0 .. L
      BY Zenon, <2>5, <3>1, UpTo
    <3>3. L \in 0 .. L
      OBVIOUS
    <3> QED
      BY Zenon, <3>2, <3>3
  <2> QED
    BY <2>2, <2>3, <2>7
<1> QED
  BY <1>1, <1>2

\* The row that a row of a result comes from, with the first row of its list.
Origin == [row : Row, first : Row]
Origins(conf, list) ==
    IF list # <<>> /\ ~Headed(conf, list)
    THEN Tail([i \in DOMAIN list |-> [row |-> list[i], first |-> list[1]]])
    ELSE [i \in DOMAIN list |-> [row |-> list[i], first |-> list[1]]]

Fits(got, origin) ==
    \A c \in DOMAIN got :
        /\ c \in DOMAIN origin.first
        /\ \E d \in DOMAIN origin.row : HasValue(origin.row, d) /\ got[c] = Text[origin.row[d]]

LEMMA SheetFits ==
    ASSUME NEW conf \in Seq(DOMAIN Memo), NEW list \in Seq(Row),
           NEW A, \A row \in Row : Back(conf, list, row) \in A,
           NEW R, R = {p \in A \X Origin : Fits(p[1], p[2])}
    PROVE  LET read == ReadSheet(conf, createSheet(conf, list))
           IN  /\ read \in Seq(A) /\ Origins(conf, list) \in Seq(Origin)
               /\ Alike(R, read, Origins(conf, list))
<1>1. PICK read, origins :
        read = ReadSheet(conf, createSheet(conf, list)) /\ origins = Origins(conf, list)
  OBVIOUS
<1>2. PICK N \in Nat : N = Len(list) /\ DOMAIN list = 1 .. N /\ list \in [1 .. N -> Row]
  BY LenProperties
<1>3. ASSUME NEW i \in 1 .. N
      PROVE  /\ list[i] \in Row /\ Back(conf, list, list[i]) \in A
             /\ [row |-> list[i], first |-> list[1]] \in Origin
             /\ <<Back(conf, list, list[i]), [row |-> list[i], first |-> list[1]]>> \in R
  <2>1. list[i] \in Row /\ list[1] \in Row
    BY <1>2
  <2>2. PICK got, origin : /\ got = Back(conf, list, list[i])
                           /\ origin = [row |-> list[i], first |-> list[1]]
    OBVIOUS
  <2>3. got \in A /\ origin \in Origin /\ origin.row = list[i] /\ origin.first = list[1]
    BY <2>1, <2>2 DEF Origin
  <2>4. Fits(got, origin)
    <3>1. ASSUME NEW c \in DOMAIN got
          PROVE  /\ c \in DOMAIN list[1]
                 /\ \E d \in DOMAIN list[i] : HasValue(list[i], d) /\ got[c] = Text[list[i][d]]
      <4>1. PICK row \in Row : row = list[i] /\ got = Back(conf, list, row)
        BY Zenon, <2>1, <2>2
      <4>2. /\ InFirst(list, c)
            /\ \E d \in DOMAIN row : HasValue(row, d) /\ Back(conf, list, row)[c] = Text[row[d]]
        <5>1. c \in DOMAIN Back(conf, list, row)
          BY <3>1, <4>1
        <5> QED
          BY <5>1, BackFits
      <4>3. c \in DOMAIN list[1]
        BY <4>2 DEF InFirst
      <4> QED
        BY <4>1, <4>2, <4>3
    <3> QED
      BY <2>3, <3>1 DEF Fits
  <2>5. <<got, origin>> \in R
    BY <2>3, <2>4
  <2> QED
    BY <2>1, <2>2, <2>3, <2>5
<1>4. CASE Headed(conf, list) \/ list = <<>>
  <2>1. read = [i \in 1 .. N |-> Back(conf, list, list[i])]
    BY <1>1, <1>2, <1>4, SheetIs
  <2>2. origins = [i \in 1 .. N |-> [row |-> list[i], first |-> list[1]]]
    BY <1>1, <1>2, <1>4 DEF Origins
  <2>3. read \in [1 .. N -> A] /\ origins \in [1 .. N -> Origin]
    BY <1>3, <2>1, <2>2
  <2>4. /\ read \in Seq(A) /\ Len(read) = N
        /\ origins \in Seq(Origin) /\ Len(origins) = N
    BY <2>3
  <2>5. \A i \in 1 .. N : <<read[i], origins[i]>> \in R
    BY <1>3, <2>1, <2>2
  <2> QED
    BY <1>1, <2>4, <2>5 DEF Alike
<1>5. CASE ~Headed(conf, list) /\ list # <<>>
  <2>1. N \in Nat \ {0} /\ N - 1 \in Nat /\ \A i \in 1 .. N - 1 : i + 1 \in 1 .. N
    BY <1>2, <1>5
  <2>2. read = [i \in 1 .. N - 1 |-> Back(conf, list, list[i + 1])]
    BY <1>1, <1>2, <1>5, SheetIs
  <2>3. origins = [i \in 1 .. N - 1 |-> [row |-> list[i + 1], first |-> list[1]]]
    <3>1. PICK s : s = [i \in DOMAIN list |-> [row |-> list[i], first |-> list[1]]]
      OBVIOUS
    <3>2. s \in [1 .. N -> Origin]
      BY <1>2, <1>3, <3>1
    <3>3. Tail(s) = [i \in 1 .. N - 1 |-> s[i + 1]]
      <4>1. N \in Nat \ {0}
        BY <2>1
      <4>2. PICK Y : Y = Origin /\ s \in [1 .. N -> Y]
        BY <3>2
      <4> QED
        BY ZenonT(60), <4>1, <4>2, TailIs
    <3>4. origins = Tail(s)
      BY Zenon, <1>1, <1>5, <3>1 DEF Origins
    <3> QED
      BY <1>2, <2>1, <3>1, <3>3, <3>4
  <2>4. read \in [1 .. N - 1 -> A] /\ origins \in [1 .. N - 1 -> Origin]
    BY <1>3, <2>1, <2>2, <2>3
  <2>5. /\ read \in Seq(A) /\ Len(read) = N - 1
        /\ origins \in Seq(Origin) /\ Len(origins) = N - 1
    BY <2>1, <2>4
  <2>6. \A i \in 1 .. N - 1 : <<read[i], origins[i]>> \in R
    BY <1>3, <2>1, <2>2, <2>3
  <2> QED
    BY <1>1, <2>5, <2>6 DEF Alike
<1> QED
  BY <1>4, <1>5

LEMMA SheetKept ==
    ASSUME NEW conf \in Seq(DOMAIN Memo), IsInjective(conf), NEW list \in Seq(Row),
           list # <<>> => Aligned(conf, list) /\ Headed(conf, list)
    PROVE  ReadSheet(conf, createSheet(conf, list)) =
               [i \in DOMAIN list |-> Kept(conf, list, list[i])]
<1>1. ReadSheet(conf, createSheet(conf, list)) = [i \in DOMAIN list |-> Back(conf, list, list[i])]
  BY SheetIs
<1>2. ASSUME NEW i \in DOMAIN list PROVE Back(conf, list, list[i]) = Kept(conf, list, list[i])
  <2>1. list[i] \in Row /\ Aligned(conf, list)
    BY <1>2
  <2> QED
    BY <2>1, ReadKept DEF Back
<1> QED
  BY <1>1, <1>2

Read(conf, lists) == [n \in DOMAIN lists |-> ReadSheet(conf, createSheet(conf, lists[n]))]

LEMMA ReadIs ==
    ASSUME NEW conf, NEW lists
    PROVE  readExcel(conf, [n \in DOMAIN lists |-> createSheet(conf, lists[n])]) =
               FlattenSeq(Read(conf, lists))
<1>1. PICK excel : excel = [n \in DOMAIN lists |-> createSheet(conf, lists[n])]
  OBVIOUS
<1>2. [n \in DOMAIN excel |-> ReadSheet(conf, excel[n])] = Read(conf, lists)
  BY <1>1 DEF Read
<1>3. readExcel(conf, excel) = FlattenSeq(Read(conf, lists))
  BY <1>2 DEF readExcel
<1> QED
  BY <1>1, <1>3

LEMMA AllKept ==
    ASSUME NEW conf \in Seq(DOMAIN Memo), IsInjective(conf), NEW lists \in Seq(Seq(Row)),
           \A n \in DOMAIN lists :
              lists[n] # <<>> => Aligned(conf, lists[n]) /\ Headed(conf, lists[n])
    PROVE  Read(conf, lists) =
               [n \in DOMAIN lists |->
                   [i \in DOMAIN lists[n] |-> Kept(conf, lists[n], lists[n][i])]]
<1>1. ASSUME NEW n \in DOMAIN lists
      PROVE  ReadSheet(conf, createSheet(conf, lists[n])) =
                 [i \in DOMAIN lists[n] |-> Kept(conf, lists[n], lists[n][i])]
  <2>1. PICK list \in Seq(Row) : list = lists[n]
    OBVIOUS
  <2> QED
    BY <2>1, SheetKept
<1> QED
  BY <1>1 DEF Read

LEMMA AllFit ==
    ASSUME NEW conf \in Seq(DOMAIN Memo), NEW lists \in Seq(Seq(Row))
    PROVE  LET got == FlattenSeq(Read(conf, lists))
               all == FlattenSeq([n \in DOMAIN lists |-> Origins(conf, lists[n])])
           IN  Len(got) = Len(all) /\ \A i \in DOMAIN all : Fits(got[i], all[i])
<1>1. PICK A : A = UNION {{Back(conf, lists[n], row) : row \in Row} : n \in DOMAIN lists}
  OBVIOUS
<1>2. PICK R : R = {p \in A \X Origin : Fits(p[1], p[2])}
  OBVIOUS
<1>3. PICK S, T :
        S = Read(conf, lists) /\ T = [n \in DOMAIN lists |-> Origins(conf, lists[n])]
  OBVIOUS
<1>4. PICK N \in Nat : N = Len(lists) /\ DOMAIN lists = 1 .. N /\ lists \in [1 .. N -> Seq(Row)]
  BY Zenon, LenProperties
<1>5. ASSUME NEW n \in 1 .. N
      PROVE  S[n] \in Seq(A) /\ T[n] \in Seq(Origin) /\ Alike(R, S[n], T[n])
  <2>1. PICK list \in Seq(Row) : list = lists[n]
    BY <1>4
  <2>2. \A row \in Row : Back(conf, list, row) \in A
    BY <1>1, <1>4, <2>1
  <2>3. PICK read, origins :
          read = ReadSheet(conf, createSheet(conf, list)) /\ origins = Origins(conf, list)
    OBVIOUS
  <2>4. read \in Seq(A) /\ origins \in Seq(Origin) /\ Alike(R, read, origins)
    BY <1>2, <2>2, <2>3, SheetFits
  <2>5. S[n] = read /\ T[n] = origins
    BY <1>3, <1>4, <2>1, <2>3 DEF Read
  <2> QED
    BY <2>4, <2>5
<1>6. /\ S \in Seq(Seq(A)) /\ Len(S) = N /\ T \in Seq(Seq(Origin)) /\ Len(T) = N
  <2>1. S = [n \in 1 .. N |-> S[n]] /\ T = [n \in 1 .. N |-> T[n]]
    BY <1>3, <1>4 DEF Read
  <2>2. S \in [1 .. N -> Seq(A)] /\ T \in [1 .. N -> Seq(Origin)]
    BY <1>5, <2>1
  <2>3. \A W : \A s \in [1 .. N -> W] : s \in Seq(W) /\ Len(s) = N
    OBVIOUS
  <2> QED
    BY Zenon, <2>2, <2>3
<1>7. FlattenSeq(T) \in Seq(Origin) /\ Alike(R, FlattenSeq(S), FlattenSeq(T))
  <2>1. Len(S) = Len(T) /\ \A n \in 1 .. Len(T) : Alike(R, S[n], T[n])
    BY Zenon, <1>5, <1>6
  <2> QED
    BY Zenon, <1>6, <2>1, FlattenAlike
<1>8. PICK got, all : got = FlattenSeq(S) /\ all = FlattenSeq(T)
  OBVIOUS
<1>9. DOMAIN all = 1 .. Len(all)
  BY Zenon, <1>7, <1>8, LenProperties
<1>10. Len(got) = Len(all) /\ \A i \in DOMAIN all : Fits(got[i], all[i])
  BY <1>2, <1>7, <1>8, <1>9 DEF Alike
<1> QED
  BY <1>3, <1>8, <1>10

-----------------------------------------------------------------------------
(* The calls.                                                              *)

UInv ==
    /\ task.op = "page" => task.data \in PageData /\ (result # NULL => result = Result(task.data))
    /\ task.op = "export" =>
          /\ task.conf \in Configurations /\ task.lists \in Exports
          /\ result # NULL =>
                result = readExcel(task.conf,
                             [n \in DOMAIN task.lists |-> createSheet(task.conf, task.lists[n])])
    /\ task.op = "document" =>
          /\ task.imports \in Imports
          /\ result # NULL =>
                result = [options |-> Options(task.imports, task.env),
                          pages |-> Pages(task.imports, task.env)]

LEMMA InitUInv == Init => UInv
<1> SUFFICES ASSUME Init PROVE UInv
  OBVIOUS
<1>1. ASSUME NEW data \in [total_count : Totals, page : PageNumbers, size : Sizes,
                           page_size : PageSizes, all_search_yn : {"Y", "N"}],
             task = [op |-> "page", data |-> data]
      PROVE  UInv
  <2>1. data \in PageData
    BY ParameterAssumption DEF PageData
  <2> QED
    BY <1>1, <2>1 DEF Init, UInv
<1> QED
  BY <1>1 DEF Init, UInv

LEMMA NextUInv == UInv /\ [Next]_<<task, result>> => UInv'
<1> SUFFICES ASSUME UInv, [Next]_<<task, result>> PROVE UInv'
  OBVIOUS
<1>1. CASE Paginate
  BY <1>1 DEF UInv, Paginate, Return
<1>2. CASE Export
  BY <1>2 DEF UInv, Export, Return
<1>3. CASE Document
  BY <1>3 DEF UInv, Document, Return
<1>4. CASE UNCHANGED <<task, result>>
  BY <1>4 DEF UInv
<1> QED
  BY <1>1, <1>2, <1>3, <1>4 DEF Next

LEMMA UInvHolds == Spec => []UInv
BY InitUInv, NextUInv, PTL DEF Spec

\* pagination.ts:31: for every number of rows and every size of a page, the
\* pages show each row exactly once, in order, and none of them is empty.
THEOREM PagesCoverRows == Spec => []PagesPartitionRows
<1>1. UInv => PagesPartitionRows
  <2> SUFFICES ASSUME UInv, Done("page") PROVE PagesPartitionRows
    BY DEF PagesPartitionRows
  <2>1. PICK d \in PageData : d = task.data /\ result = Result(d)
    BY DEF UInv, Done
  <2>2. \A n : AtPage(n) = Result(Turned(d, n))
    BY <2>1 DEF AtPage, Turned
  <2>3. result.total_count = Total(d) /\ result.max_page = MaxPage(d)
    BY <2>1, ResultIs
  <2>4. /\ Total(d) \in Nat /\ Size(d) \in Nat /\ MaxPage(d) \in Nat \ {0}
    BY Numbers
  <2>5. UNION {Rows(AtPage(n)) : n \in 1 .. MaxPage(d)} = 0 .. Total(d) - 1
    <3>1. ASSUME NEW n \in 1 .. MaxPage(d) PROVE Rows(AtPage(n)) \subseteq 0 .. Total(d) - 1
      BY <2>2, RowsOfPage
    <3>2. ASSUME NEW k \in 0 .. Total(d) - 1
          PROVE  \E n \in 1 .. MaxPage(d) : k \in Rows(AtPage(n))
      BY <2>2, RowsOfPage, PageOfRow
    <3> QED
      BY <3>1, <3>2
  <2>6. ASSUME NEW n \in 1 .. MaxPage(d), d.all_search_yn = "N", Total(d) > 0
        PROVE  Rows(AtPage(n)) # {}
    <3>1. (n - 1) * Size(d) < Total(d) /\ Size(d) > 0 /\ (n - 1) * Size(d) \in Nat
      BY <2>6, NoPageEmpty, RowsOfPage
    <3>2. PICK k \in Nat : k = (n - 1) * Size(d)
      BY <3>1
    <3>3. k \in Rows(AtPage(n))
      BY <2>2, <2>4, <3>1, <3>2, RowsOfPage
    <3> QED
      BY <3>3
  <2>7. ASSUME NEW n \in 1 .. MaxPage(d), NEW k \in Rows(AtPage(n)),
               NEW m \in n + 1 .. MaxPage(d), NEW l \in Rows(AtPage(m))
        PROVE  k < l
    <3>1. /\ n \in Nat \ {0} /\ m \in Nat /\ n < m /\ m \in 1 .. MaxPage(d)
      BY <2>4
    <3>2. PICK e \in Nat, b \in Nat : /\ e = (n - 1) * Size(d) /\ b = (m - 1) * Size(d)
                                      /\ e + Size(d) <= b
      BY <2>4, <3>1, PagesInOrder, RowsOfPage
    <3>3. k \in Int /\ k < e + Size(d)
      BY <2>2, <3>2, RowsOfPage
    <3>4. l \in Int /\ b <= l
      BY <2>2, <3>1, <3>2, RowsOfPage
    <3> QED
      BY <2>4, <3>2, <3>3, <3>4
  <2> QED
    BY <2>1, <2>3, <2>5, <2>6, <2>7 DEF PagesPartitionRows
<1> QED
  BY <1>1, UInvHolds, PTL

\* pagination.ts:59-68: for every page and every length of a tab, the tab shows
\* its page, is the same from each of its pages, and shows pages that exist.
THEOREM RangeIsTab == Spec => []RangeIsOneTab
<1>1. UInv => RangeIsOneTab
  <2> SUFFICES ASSUME UInv, Done("page") PROVE RangeIsOneTab
    BY DEF RangeIsOneTab
  <2>1. PICK d \in PageData : d = task.data /\ result = Result(d)
    BY DEF UInv, Done
  <2>2. PICK start \in Int, end \in Int :
          /\ start = TabEnd(d) - (Tab(d) - 1) /\ end = AtMost(TabEnd(d), MaxPage(d))
          /\ result.page_range = [start |-> start, end |-> end]
    <3>1. TabEnd(d) - (Tab(d) - 1) \in Int /\ AtMost(TabEnd(d), MaxPage(d)) \in Int
      BY RangeOfPage, Numbers DEF AtMost
    <3> QED
      BY <2>1, <3>1, ResultIs
  <2>3. /\ start <= Page(d) /\ Page(d) <= end /\ 1 <= start /\ end <= MaxPage(d)
        /\ end <= TabEnd(d)
    BY <2>2, RangeOfPage, Numbers DEF AtMost
  <2>4. ASSUME NEW n \in start .. end PROVE AtPage(n).page_range = result.page_range
    <3>1. n \in 1 .. MaxPage(d) /\ start <= n /\ n <= TabEnd(d)
      BY <2>2, <2>3, Numbers, RangeOfPage
    <3>2. /\ TabEnd(Turned(d, n)) = TabEnd(d) /\ Tab(Turned(d, n)) = Tab(d)
          /\ MaxPage(Turned(d, n)) = MaxPage(d)
      BY <2>2, <3>1, SameTab, TurnedIs
    <3>3. AtPage(n) = Result(Turned(d, n))
      BY <2>1 DEF AtPage, Turned
    <3>4. /\ Result(d).page_range = [start |-> TabEnd(d) - (Tab(d) - 1),
                                     end |-> AtMost(TabEnd(d), MaxPage(d))]
          /\ Result(Turned(d, n)).page_range =
                [start |-> TabEnd(Turned(d, n)) - (Tab(Turned(d, n)) - 1),
                 end |-> AtMost(TabEnd(Turned(d, n)), MaxPage(Turned(d, n)))]
      BY ResultIs
    <3> QED
      BY <2>1, <3>2, <3>3, <3>4
  <2>5. result.page = Page(d) /\ result.max_page = MaxPage(d)
    BY <2>1, ResultIs
  <2> QED
    BY <2>2, <2>3, <2>4, <2>5 DEF RangeIsOneTab
<1> QED
  BY <1>1, UInvHolds, PTL

\* excel.ts:90, 129: whatever columns are configured and whatever lists are
\* exported, each value is read back under its own column if the columns that
\* the first row lacks come last, and no row is lost, moved or mixed with another
\* in any case.
THEOREM ExportReadBack == Spec => []ExportIsReadBack
<1>1. UInv => ExportIsReadBack
  <2> SUFFICES ASSUME UInv, Done("export") PROVE ExportIsReadBack
    BY DEF ExportIsReadBack, RoundTrip, RowsStayApart
  <2>1. PICK conf, lists : conf = task.conf /\ lists = task.lists
    OBVIOUS
  <2>2. /\ conf \in Seq(DOMAIN Memo) /\ IsInjective(conf) /\ lists \in Seq(Seq(Row))
        /\ result = FlattenSeq(Read(conf, lists))
    BY <2>1, ExportAssumption, ReadIs DEF UInv, Done
  <2>3. RoundTrip
    <3> SUFFICES ASSUME \A n \in DOMAIN lists : lists[n] # <<>> =>
                            Aligned(conf, lists[n]) /\ Headed(conf, lists[n])
                 PROVE  result = FlattenSeq([n \in DOMAIN lists |->
                            [i \in DOMAIN lists[n] |-> Kept(conf, lists[n], lists[n][i])]])
      BY Zenon, <2>1 DEF RoundTrip
    <3> QED
      BY Zenon, <2>2, AllKept
  <2>4. RowsStayApart
    <3>1. PICK all : all = FlattenSeq([n \in DOMAIN lists |-> Origins(conf, lists[n])])
      OBVIOUS
    <3>2. Len(result) = Len(all) /\ \A i \in DOMAIN all : Fits(result[i], all[i])
      BY <2>2, <3>1, AllFit
    <3>3. all = FlattenSeq([n \in DOMAIN task.lists |->
                  LET list == task.lists[n]
                  IN  IF list # <<>> /\ ~Headed(task.conf, list)
                      THEN Tail([i \in DOMAIN list |-> [row |-> list[i], first |-> list[1]]])
                      ELSE [i \in DOMAIN list |-> [row |-> list[i], first |-> list[1]]]])
      BY Zenon, <2>1, <3>1 DEF Origins
    <3>4. \A i \in DOMAIN all : \A c \in DOMAIN result[i] :
            /\ c \in DOMAIN all[i].first
            /\ \E d \in DOMAIN all[i].row :
                  HasValue(all[i].row, d) /\ result[i][c] = Text[all[i].row[d]]
      BY Zenon, <3>2 DEF Fits
    <3> QED
      BY Zenon, <3>2, <3>3, <3>4 DEF RowsStayApart
  <2> QED
    BY <2>3, <2>4 DEF ExportIsReadBack
<1> QED
  BY <1>1, UInvHolds, PTL

\* main.ts:87-169: the two loops agree whatever modules are registered and
\* whatever the environment selects: no page is without an entry, no entry without
\* a page, and with different paths it is the page of the entry's module.
THEOREM BoxIsPages == Spec => []BoxMatchesPages
<1>1. UInv => BoxMatchesPages
  <2> SUFFICES ASSUME UInv, Done("document") PROVE BoxMatchesPages
    BY DEF BoxMatchesPages
  <2> DEFINE imports == task.imports
             env == task.env
             api == {i \in Modules(imports) : imports[i].type = "API"}
             own == IF env.select THEN {i \in api : imports[i].path \in env.targets} ELSE api
             options == Options(imports, env)
             pages == Pages(imports, env)
  <2>1. result.options = options /\ result.pages = pages /\ imports \in Imports
    BY DEF UInv, Done
  <2>2. own \subseteq api /\ api \subseteq Nat \ {0}
    BY <2>1, ImportAssumption DEF Modules
  <2>3. options = {Option(imports, i) : i \in own} \cup (IF env.select THEN {} ELSE {WholeOption})
    BY DEF Options
  <2>4. pages = {OwnPage(imports, i) : i \in own} \cup (IF env.select THEN {} ELSE {WholePage(imports)})
    BY DEF Pages
  <2>5. \A i : /\ Option(imports, i).to = imports[i].path /\ Option(imports, i).of = i
               /\ OwnPage(imports, i).at = imports[i].path /\ OwnPage(imports, i).include = {i}
               /\ OwnPage(imports, i).order = i
    BY DEF Option, OwnPage
  <2>6. /\ WholeOption.to = Whole /\ WholeOption.of = 0
        /\ WholePage(imports).at = Whole /\ WholePage(imports).include = api
        /\ WholePage(imports).order = 0
    BY DEF WholeOption, WholePage
  <2>7. \A i \in own : Option(imports, i) # WholeOption
    BY <2>2, <2>5, <2>6
  <2> HIDE DEF options, pages, own, api, imports, env
  <2>8. {o.to : o \in options} = {p.at : p \in pages}
    <3>1. ASSUME NEW o \in options PROVE \E p \in pages : p.at = o.to
      BY <2>3, <2>4, <2>5, <2>6
    <3>2. ASSUME NEW p \in pages PROVE \E o \in options : p.at = o.to
      BY <2>3, <2>4, <2>5, <2>6
    <3> QED
      BY <3>1, <3>2
  <2>9. ASSUME Distinct(imports), NEW i \in own
        PROVE  Opened(pages, Option(imports, i).to).include = {i}
    <3>1. \A p \in pages : p.at = imports[i].path => p = OwnPage(imports, i)
      <4>1. \A j \in own : imports[j].path = imports[i].path => j = i
        BY <2>2, <2>9 DEF Distinct, api
      <4>2. imports[i].path # Whole
        BY <2>2, <2>9 DEF Distinct, api
      <4> QED
        BY <2>4, <2>5, <2>6, <4>1, <4>2
    <3>2. OwnPage(imports, i) \in pages /\ OwnPage(imports, i).order <= OwnPage(imports, i).order
      BY <2>2, <2>4, <2>5
    <3>3. Opened(pages, imports[i].path) = OwnPage(imports, i)
      BY <2>5, <3>1, <3>2 DEF Opened
    <3> QED
      BY <2>5, <3>3
  <2>10. ASSUME Distinct(imports), WholeOption \in options
         PROVE  Opened(pages, Whole).include = {q.of : q \in options} \ {0}
    <3>1. ~env.select
      BY <2>3, <2>7, <2>10
    <3>2. \A p \in pages : p.at = Whole => p = WholePage(imports)
      <4>1. \A j \in own : imports[j].path # Whole
        BY <2>2, <2>10 DEF Distinct, api
      <4> QED
        BY <2>4, <2>5, <4>1
    <3>3. WholePage(imports) \in pages /\ WholePage(imports).order <= WholePage(imports).order
      BY <2>4, <2>6, <3>1
    <3>4. Opened(pages, Whole) = WholePage(imports)
      BY <2>6, <3>2, <3>3 DEF Opened
    <3>5. {q.of : q \in options} = own \cup {0}
      <4>1. ASSUME NEW q \in options PROVE q.of \in own \cup {0}
        BY <2>3, <2>5, <2>6
      <4>2. ASSUME NEW i \in own PROVE \E q \in options : q.of = i
        BY <2>3, <2>5
      <4> QED
        BY <2>6, <2>10, <4>1, <4>2
    <3>6. own = api
      BY <3>1 DEF own
    <3> QED
      BY <2>2, <2>6, <3>4, <3>5, <3>6
  <2>11. ASSUME Distinct(imports), NEW o \in options
         PROVE  Opened(pages, o.to).include =
                    IF o = WholeOption THEN {q.of : q \in options} \ {0} ELSE {o.of}
    <3>1. CASE o = WholeOption
      BY <2>6, <2>10, <2>11, <3>1
    <3>2. CASE o # WholeOption
      <4>1. PICK i \in own : o = Option(imports, i)
        BY <2>3, <3>2
      <4> QED
        BY <2>5, <2>9, <2>11, <3>2, <4>1
    <3> QED
      BY <3>1, <3>2
  <2> QED
    BY <2>1, <2>8, <2>11 DEF BoxMatchesPages, imports
<1> QED
  BY <1>1, UInvHolds, PTL
=======
