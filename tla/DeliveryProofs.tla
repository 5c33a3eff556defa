--------------------------- MODULE DeliveryProofs ---------------------------
(***************************************************************************)
(* What Delivery promises of a call holds for any number of calls, workers *)
(* and redeliveries.                                                       *)
(***************************************************************************)
EXTENDS Delivery, FiniteSetTheorems, TLAPS

\* A delivery is due, or open, or came to an end, of which one may be a commit.
Counted ==
    \A c \in Calls : applied[c] + Cardinality(OpenOf(c)) + due[c] <= 1 + redelivered[c]

\* A call not made has left nothing anywhere; one that runs directly, and one
\* that Redis did not store, has no job.
Fresh ==
    \A c \in Calls :
        /\ answer[c] \in {"none", "direct", "failed"} => due[c] = 0 /\ redelivered[c] = 0
        /\ answer[c] = "none" => applied[c] = 0 /\ OpenOf(c) = {}

IInv == TypeOK /\ Counted /\ Fresh /\ AckedIsApplied /\ RefusedIsNotApplied

\* The open executions of a call are finitely many.
LEMMA OpenFinite ==
    ASSUME IsFiniteSet(Workers), NEW c
    PROVE  IsFiniteSet(OpenOf(c)) /\ Cardinality(OpenOf(c)) \in Nat
<1>1. OpenOf(c) \subseteq Workers
  BY DEF OpenOf
<1> QED
  BY <1>1, FS_Subset, FS_CardinalityType

\* They are one fewer at least when one ends.
LEMMA OpenRemoved ==
    ASSUME IsFiniteSet(Workers), NEW c, NEW x \in OpenOf(c), OpenOf(c)' \subseteq OpenOf(c) \ {x}
    PROVE  Cardinality(OpenOf(c)') <= Cardinality(OpenOf(c)) - 1 /\ Cardinality(OpenOf(c)') \in Nat
<1>1. IsFiniteSet(OpenOf(c)) /\ Cardinality(OpenOf(c)) \in Nat
  BY OpenFinite
<1>2. IsFiniteSet(OpenOf(c) \ {x}) /\ Cardinality(OpenOf(c) \ {x}) = Cardinality(OpenOf(c)) - 1
  BY <1>1, FS_RemoveElement
<1>3. /\ Cardinality(OpenOf(c)') <= Cardinality(OpenOf(c) \ {x})
      /\ IsFiniteSet(OpenOf(c)')
  BY <1>2, FS_Subset
<1>4. Cardinality(OpenOf(c)') \in Nat
  BY <1>3, FS_CardinalityType
<1> QED
  BY <1>1, <1>2, <1>3, <1>4

\* They are one more at most when one begins.
LEMMA OpenAdded ==
    ASSUME IsFiniteSet(Workers), NEW c, NEW x, OpenOf(c)' = OpenOf(c) \cup {x}
    PROVE  Cardinality(OpenOf(c)') <= Cardinality(OpenOf(c)) + 1 /\ Cardinality(OpenOf(c)') \in Nat
<1>1. IsFiniteSet(OpenOf(c)) /\ Cardinality(OpenOf(c)) \in Nat
  BY OpenFinite
<1>2. /\ IsFiniteSet(OpenOf(c) \cup {x})
      /\ Cardinality(OpenOf(c) \cup {x}) = IF x \in OpenOf(c) THEN Cardinality(OpenOf(c))
                                           ELSE Cardinality(OpenOf(c)) + 1
  BY <1>1, FS_AddElement
<1> QED
  BY <1>1, <1>2

\* They are no more when some are rolled back.
LEMMA OpenReduced ==
    ASSUME IsFiniteSet(Workers), NEW c, OpenOf(c)' \subseteq OpenOf(c)
    PROVE  Cardinality(OpenOf(c)') <= Cardinality(OpenOf(c)) /\ Cardinality(OpenOf(c)') \in Nat
<1>1. IsFiniteSet(OpenOf(c)) /\ Cardinality(OpenOf(c)) \in Nat
  BY OpenFinite
<1>2. IsFiniteSet(OpenOf(c)') /\ Cardinality(OpenOf(c)') <= Cardinality(OpenOf(c))
  BY <1>1, FS_Subset
<1> QED
  BY <1>2, FS_CardinalityType

LEMMA InitIInv == Init => IInv
<1> SUFFICES ASSUME Init PROVE IInv
  OBVIOUS
<1>1. \A c \in Calls : OpenOf(c) = {} /\ Cardinality(OpenOf(c)) = 0
  BY FS_EmptySet DEF Init, OpenOf
<1> QED
  BY <1>1 DEF Init, IInv, TypeOK, Counted, Fresh, AckedIsApplied, RefusedIsNotApplied

\* A step that opens nothing and commits nothing.
LEMMA QuietStep ==
    ASSUME IsFiniteSet(Workers), IInv, UNCHANGED <<open, applied>>,
           due' \in [Calls -> Nat], redelivered' \in [Calls -> Nat],
           \A c \in Calls : due'[c] - redelivered'[c] <= due[c] - redelivered[c]
    PROVE  Counted' /\ \A c \in Calls : OpenOf(c)' = OpenOf(c)
<1>1. \A c \in Calls : OpenOf(c)' = OpenOf(c) /\ Cardinality(OpenOf(c)) \in Nat
  BY OpenFinite DEF OpenOf
<1> QED
  BY <1>1 DEF IInv, TypeOK, Counted

\* Only what is counted of one call changes.
LEMMA CountedAfter ==
    ASSUME IsFiniteSet(Workers), IInv, NEW c \in Calls,
           \A d \in Calls \ {c} : /\ OpenOf(d)' = OpenOf(d) /\ due'[d] = due[d]
                                  /\ applied'[d] = applied[d] /\ redelivered'[d] = redelivered[d],
           applied'[c] + Cardinality(OpenOf(c)') + due'[c] <= 1 + redelivered'[c]
    PROVE  Counted'
<1> SUFFICES ASSUME NEW d \in Calls
             PROVE  applied'[d] + Cardinality(OpenOf(d)') + due'[d] <= 1 + redelivered'[d]
  BY DEF Counted
<1>1. CASE d = c
  BY <1>1
<1>2. CASE d # c
  BY <1>2 DEF IInv, Counted
<1> QED
  BY <1>1, <1>2

LEMMA NextIInv == ASSUME IsFiniteSet(Workers) PROVE IInv /\ [Next]_delivery => IInv'
<1> SUFFICES ASSUME IInv, [Next]_delivery PROVE IInv'
  OBVIOUS
<1> USE DEF IInv, TypeOK
<1>1. ASSUME NEW c \in Calls, Queue(c) PROVE IInv'
  <2>1. /\ due' = [due EXCEPT ![c] = due[c] + 1]
        /\ due[c] = 0 /\ redelivered[c] = 0 /\ applied[c] = 0 /\ OpenOf(c) = {}
    BY <1>1 DEF Queue, Fresh
  <2>2. \A d \in Calls : OpenOf(d)' = OpenOf(d) /\ Cardinality(OpenOf(d)) \in Nat
    BY <1>1, OpenFinite DEF Queue, OpenOf
  <2>3. Counted'
    <3>1. applied'[c] = 0 /\ due'[c] = 1 /\ redelivered'[c] = 0
      BY <1>1, <2>1 DEF Queue
    <3>2. Cardinality(OpenOf(c)') = 0
      BY <2>1, <2>2, FS_EmptySet
    <3>3. applied'[c] + Cardinality(OpenOf(c)') + due'[c] <= 1 + redelivered'[c]
      BY <3>1, <3>2
    <3> QED
      BY <1>1, <2>1, <2>2, <3>3, CountedAfter DEF Queue
  <2> QED
    BY <1>1, <2>1, <2>2, <2>3 DEF Queue, Answer, Fresh, AckedIsApplied, RefusedIsNotApplied, Spent
<1>2. ASSUME NEW x \in Workers, NEW c \in Calls, Run(x, c) PROVE IInv'
  <2>1. due[c] = 0 /\ redelivered[c] = 0 /\ applied[c] = 0 /\ OpenOf(c) = {}
    BY <1>2 DEF Run, Fresh
  <2>2. OpenOf(c)' = OpenOf(c) \cup {x} /\ \A d \in Calls \ {c} : OpenOf(d)' = OpenOf(d)
    BY <1>2 DEF Run, OpenOf
  <2>3. Counted'
    <3>1. /\ Cardinality(OpenOf(c)') <= Cardinality(OpenOf(c)) + 1
          /\ Cardinality(OpenOf(c)') \in Nat /\ Cardinality(OpenOf(c)) = 0
      BY <2>1, <2>2, OpenAdded, FS_EmptySet
    <3>2. applied'[c] = 0 /\ due'[c] = 0 /\ redelivered'[c] = 0
      BY <1>2, <2>1 DEF Run
    <3>3. applied'[c] + Cardinality(OpenOf(c)') + due'[c] <= 1 + redelivered'[c]
      BY <3>1, <3>2
    <3> QED
      BY <1>2, <2>2, <3>3, CountedAfter DEF Run
  <2> QED
    BY <1>2, <2>1, <2>2, <2>3 DEF Run, Answer, Fresh, AckedIsApplied, RefusedIsNotApplied, Spent
<1>3. ASSUME NEW x \in Workers, NEW c \in Calls, Begin(x, c) PROVE IInv'
  <2>1. OpenOf(c)' = OpenOf(c) \cup {x} /\ \A d \in Calls \ {c} : OpenOf(d)' = OpenOf(d)
    BY <1>3 DEF Begin, OpenOf
  <2>2. Counted'
    <3>1. /\ Cardinality(OpenOf(c)') <= Cardinality(OpenOf(c)) + 1
          /\ Cardinality(OpenOf(c)') \in Nat /\ Cardinality(OpenOf(c)) \in Nat
      BY <2>1, OpenAdded, OpenFinite
    <3>2. due'[c] = due[c] - 1 /\ applied'[c] = applied[c] /\ redelivered'[c] = redelivered[c]
      BY <1>3 DEF Begin
    <3>3. applied'[c] + Cardinality(OpenOf(c)') + due'[c] <= 1 + redelivered'[c]
      BY <3>1, <3>2 DEF Counted
    <3> QED
      BY <1>3, <2>1, <3>3, CountedAfter DEF Begin
  <2>3. answer[c] \notin {"none", "direct"} /\ (answer[c] = "refused" => redelivered[c] > 0)
    BY <1>3 DEF Begin, Fresh, RefusedIsNotApplied, Spent
  <2> QED
    BY <1>3, <2>1, <2>2, <2>3 DEF Begin, Fresh, AckedIsApplied, RefusedIsNotApplied, Spent
<1>4. ASSUME NEW c \in Calls, Drop(c) PROVE IInv'
  <2>1. Counted' /\ \A d \in Calls : OpenOf(d)' = OpenOf(d)
    BY <1>4, QuietStep DEF Drop
  <2> QED
    BY <1>4, <2>1 DEF Drop, Fresh, AckedIsApplied, RefusedIsNotApplied, Spent
<1>5. ASSUME NEW x \in Workers, NEW c \in Calls, NEW kept \in BOOLEAN, End(x, c, kept) PROVE IInv'
  <2>1. /\ x \in OpenOf(c) /\ OpenOf(c)' = OpenOf(c) \ {x}
        /\ \A d \in Calls \ {c} : OpenOf(d)' = OpenOf(d)
    BY <1>5 DEF End, OpenOf
  <2>2. Counted'
    <3>1. /\ Cardinality(OpenOf(c)') <= Cardinality(OpenOf(c)) - 1
          /\ Cardinality(OpenOf(c)') \in Nat /\ Cardinality(OpenOf(c)) \in Nat
      BY <2>1, OpenRemoved, OpenFinite
    <3>2. /\ applied'[c] \in Nat /\ applied'[c] <= applied[c] + 1
          /\ due'[c] = due[c] /\ redelivered'[c] = redelivered[c]
      BY <1>5 DEF End
    <3>3. applied'[c] + Cardinality(OpenOf(c)') + due'[c] <= 1 + redelivered'[c]
      BY <3>1, <3>2 DEF Counted
    <3> QED
      BY <1>5, <2>1, <3>3, CountedAfter DEF End
  <2>3. answer[c] # "none" /\ (answer[c] = "refused" => redelivered[c] > 0)
    BY <2>1 DEF Fresh, RefusedIsNotApplied, Spent
  <2> QED
    BY <1>5, <2>1, <2>2, <2>3 DEF End, Fresh, AckedIsApplied, RefusedIsNotApplied, Spent
<1>6. ASSUME NEW c \in Calls, Tell(c) PROVE IInv'
  <2>1. Counted' /\ \A d \in Calls : OpenOf(d)' = OpenOf(d)
    BY <1>6, QuietStep DEF Tell
  <2> QED
    BY <1>6, <2>1 DEF Tell, Answer, Fresh, AckedIsApplied, RefusedIsNotApplied, Spent
<1>10. ASSUME NEW c \in Calls, Fail(c) PROVE IInv'
  <2>1. Counted' /\ \A d \in Calls : OpenOf(d)' = OpenOf(d)
    BY <1>10, QuietStep DEF Fail
  <2>2. \E a \in {"failed", "unsure"} : answer' = [answer EXCEPT ![c] = a]
    BY <1>10 DEF Fail, Answer
  <2>3. AckedIsApplied' /\ RefusedIsNotApplied'
    BY <1>10, <2>1, <2>2 DEF Fail, AckedIsApplied, RefusedIsNotApplied, Spent
  <2> QED
    BY <1>10, <2>1, <2>3 DEF Fail, Answer, Fresh
<1>7. ASSUME NEW c \in Calls, Redeliver(c) PROVE IInv'
  <2>1. Counted' /\ \A d \in Calls : OpenOf(d)' = OpenOf(d)
    BY <1>7, QuietStep DEF Redeliver
  <2> QED
    BY <1>7, <2>1 DEF Redeliver, Fresh, AckedIsApplied, RefusedIsNotApplied, Spent
<1>8. ASSUME NEW x \in Workers, Crash(x) PROVE IInv'
  <2>1. /\ due' \in [Calls -> Nat] /\ \A c \in Calls : due'[c] <= due[c]
        /\ applied' = applied /\ redelivered' = redelivered
    BY <1>8 DEF Crash
  <2>2. \A c \in Calls : OpenOf(c)' = OpenOf(c) \ {x}
    BY <1>8 DEF Crash, OpenOf
  <2>3. Counted'
    <3>1. \A c \in Calls : /\ Cardinality(OpenOf(c)') <= Cardinality(OpenOf(c))
                           /\ Cardinality(OpenOf(c)') \in Nat /\ Cardinality(OpenOf(c)) \in Nat
      BY <2>2, OpenReduced, OpenFinite
    <3> QED
      BY <2>1, <3>1 DEF Counted
  <2>4. PICK dead \in SUBSET {c \in Calls : answer[c] \in {"queued", "direct"}} :
          /\ \A e \in open : answer[e[2]] = "direct" => (e[1] = x <=> e[2] \in dead)
          /\ answer' = [c \in Calls |->
                IF c \notin dead THEN answer[c]
                ELSE IF answer[c] = "queued" THEN "gone"
                ELSE IF applied[c] > 0 THEN "lost" ELSE "none"]
    BY <1>8 DEF Crash
  <2>5. ASSUME NEW c \in dead, answer[c] = "direct" PROVE OpenOf(c)' = {}
    <3>1. \A w \in OpenOf(c) : w = x
      BY <2>4, <2>5 DEF OpenOf
    <3> QED
      BY <2>2, <3>1, <2>4
  <2>6. TypeOK'
    BY <1>8, <2>1, <2>4 DEF Crash
  <2>7. Fresh'
    BY <2>1, <2>2, <2>4, <2>5 DEF Fresh
  <2>8. AckedIsApplied' /\ RefusedIsNotApplied'
    BY <2>1, <2>2, <2>4 DEF AckedIsApplied, RefusedIsNotApplied, Spent
  <2> QED
    BY <2>3, <2>6, <2>7, <2>8
<1>9. CASE UNCHANGED delivery
  BY <1>9 DEF delivery, Counted, Fresh, AckedIsApplied, RefusedIsNotApplied, Spent, OpenOf
<1> QED
  BY <1>1, <1>2, <1>3, <1>4, <1>5, <1>6, <1>7, <1>8, <1>9, <1>10 DEF Next

\* use-queue.decorator.ts:46, write-queue.registry.ts:137: what a caller is told
\* agrees with what was committed, and a delivery commits at most once, for any
\* number of calls, processes, deaths and redeliveries.
THEOREM DeliveryTellsTruth == ASSUME IsFiniteSet(Workers) PROVE Spec => []ToldIsTrue
<1>1. IInv => ToldIsTrue
  <2> SUFFICES ASSUME IInv PROVE AppliedPerDelivery
    BY DEF IInv, ToldIsTrue
  <2>1. \A c \in Calls : Cardinality(OpenOf(c)) \in Nat
    BY OpenFinite
  <2> QED
    BY <2>1 DEF IInv, TypeOK, Counted, AppliedPerDelivery
<1> QED
  BY <1>1, InitIInv, NextIInv, PTL DEF Spec
=============================================================================
