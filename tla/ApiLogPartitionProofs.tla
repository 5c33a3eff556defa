----------------------- MODULE ApiLogPartitionProofs -----------------------
(***************************************************************************)
(* The maintenance of the partitions is safe for any number of processes   *)
(* and connections, any calendar of observed days and any span of time.    *)
(***************************************************************************)
EXTENDS ApiLogPartition, TLAPS

\* Of the months that have a partition t is the last, and the three before it
\* have one.
Last(p, t) ==
    /\ pmax \in p /\ t \in p /\ t # pmax
    /\ (t - 3) .. t \subseteq p
    /\ \A m \in p : m = pmax \/ m <= t

\* Maintenance brings the last month to three after the current one; a midnight
\* that passes takes one of them away.
Lead(i, t) == t >= today.month + 2 /\ (i \notin late => t >= today.month + 3)

Calendar == today.month \in 24 .. MaxMonth

Locked == lock = NULL <=> depth = 0

\* Whoever is at work holds the lock, unless it broke.
Holds ==
    losses = 0 => \A i \in Instances : Working(i) => \E k \in Conns : lock = <<i, k>>

Table == parts = {} \/ \E t \in Month : Last(parts, t) /\ t <= today.month + 3

\* The list of a process may be stale, but what was added since leads.
Listed(i) ==
    pc[i] = "alter" /\ existing[i] # {} =>
        \E s, t \in Month : /\ Last(existing[i], s) /\ Last(parts, t) /\ s <= t
                            /\ s = t \/ Lead(i, t)

Covered(i) == pc[i] \in {"expire", "drop"} => \E t \in Month : Last(parts, t) /\ Lead(i, t)

\* The cutoff of a process keeps 24 months, however long ago it was computed.
Kept(m) == m + 24 < today.month \/ (m + 24 = today.month /\ today.day > DaysIn(m))
CutoffKeeps(i) == pc[i] = "drop" => \A m \in Month : m < cutoff[i] => Kept(m)

PInv ==
    /\ TypeOK /\ Calendar /\ Locked /\ Holds /\ Table
    /\ \A i \in Instances : Listed(i) /\ Covered(i) /\ CutoffKeeps(i)
    /\ RetentionKept

-----------------------------------------------------------------------------
(* The type invariant.                                                     *)

LEMMA DaysInNat == \A m \in Nat : DaysIn(m) \in Nat
BY DEF DaysIn, Leap

LEMMA InitTypes == Init => TypeOK
<1> SUFFICES ASSUME Init PROVE TypeOK
  OBVIOUS
<1>1. parts \subseteq Month
  BY TableAssumption DEF Init
<1>2. today \in Date
  BY DateAssumption DEF Init
<1>3. depth \in 0 .. MaxDepth /\ losses \in 0 .. MaxLosses
  BY BoundAssumption DEF Init
<1>4. /\ timer \in [Instances -> [at : Date, soon : BOOLEAN] \cup {NULL}]
      /\ pc \in [Instances -> {"down", "idle", "acquire", "list", "alter", "expire",
                               "drop", "release"}]
      /\ existing \in [Instances -> SUBSET Month]
      /\ cutoff \in [Instances -> Month]
      /\ outcome \in [Instances -> {"none", "done", "skipped", "failed"}]
  BY DEF Init, Month
<1> QED
  BY <1>1, <1>2, <1>3, <1>4 DEF Init, TypeOK

\* setTimeout's delay is a date and a flag.
LEMMA DelayType == \A d \in Date : Delay(d) \in [at : Date, soon : BOOLEAN]
<1> SUFFICES ASSUME NEW d \in Date PROVE Delay(d) \in [at : Date, soon : BOOLEAN]
  OBVIOUS
<1>1. [month |-> d.month + 1, day |-> 1] \in Date
  BY DEF Date, Month
<1> QED
  BY <1>1 DEF Delay

\* The end of a maintenance, without the lock.
LEMMA EndTypes ==
    TypeOK => \A i \in Instances :
        /\ timer' = [timer EXCEPT ![i] = Delay(today)]
              => timer' \in [Instances -> [at : Date, soon : BOOLEAN] \cup {NULL}]
        /\ existing' = [existing EXCEPT ![i] = {}]
              => existing' \in [Instances -> SUBSET Month]
        /\ cutoff' = [cutoff EXCEPT ![i] = 0] => cutoff' \in [Instances -> Month]
BY DelayType DEF TypeOK, Month

LEMMA CutoffType ==
    TypeOK /\ Calendar => Cutoff(today) \in Month
BY DEF TypeOK, Calendar, Cutoff, Date, Month, API_LOG_RETENTION_MONTHS

LEMMA AheadType ==
    TypeOK => Ahead(today) \subseteq Month
BY DEF TypeOK, Ahead, Date, Month, API_LOG_AHEAD_PARTITIONS

LEMMA TickTypes == TypeOK /\ Tick => TypeOK'
<1> SUFFICES ASSUME TypeOK, Tick PROVE TypeOK'
  OBVIOUS
<1>1. today' \in Date
  <2>1. ASSUME NEW d \in Days, today' = [today EXCEPT !.day = d]
        PROVE  today' \in Date
    BY <2>1, DateAssumption DEF TypeOK, Date
  <2>2. CASE today' = [month |-> today.month + 1, day |-> 1]
    BY <2>2 DEF TypeOK, Date, Month
  <2> QED
    BY <2>1, <2>2 DEF Tick
<1>2. late' \subseteq Instances
  BY DEF Tick
<1> QED
  BY <1>1, <1>2 DEF TypeOK, Tick, locals

LEMMA StepTypes ==
    ASSUME TypeOK, Calendar, Locked, NEW i \in Instances, Step(i)
    PROVE  TypeOK'
<1>1. CASE Acquire(i)
  <2> PICK k \in Conns :
          \/ /\ lock \in {NULL, <<i, k>>}
             /\ depth < MaxDepth
             /\ lock' = <<i, k>>
             /\ depth' = depth + 1
             /\ Go(i, "list")
             /\ UNCHANGED <<today, parts, dropped, timer, locals, outcome, losses, late>>
          \/ /\ lock \notin {NULL, <<i, k>>}
             /\ End(i, "skipped")
             /\ UNCHANGED <<lock, depth>>
    BY <1>1 DEF Acquire
  <2>1. CASE Go(i, "list")
    <3>1. lock' \in (Instances \X Conns) \cup {NULL}
      BY <2>1 DEF TypeOK, End, Go
    <3>2. depth' \in 0 .. MaxDepth
      BY <2>1, BoundAssumption DEF TypeOK
    <3> QED
      BY <2>1, <3>1, <3>2, EndTypes DEF TypeOK, Go, End, locals
  <2>2. CASE End(i, "skipped") /\ UNCHANGED <<lock, depth>>
    BY <2>2, EndTypes DEF TypeOK, End
  <2> QED
    BY <2>1, <2>2
<1>2. CASE List(i)
  BY <1>2 DEF TypeOK, List, Go
<1>3. CASE Alter(i)
  <2>1. parts' \subseteq Month
    <3>1. Initial(today) \subseteq Month
      BY AheadType DEF Initial, pmax, Month
    <3>2. ToAdd(i) \subseteq Month
      BY AheadType DEF ToAdd
    <3> QED
      BY <1>3, <3>1, <3>2 DEF Alter, TypeOK
  <2> QED
    BY <1>3, <2>1 DEF TypeOK, Alter, Go, locals
<1>4. CASE Expire(i)
  BY <1>4, CutoffType DEF TypeOK, Expire, Go
<1>5. CASE Drop(i)
  <2> PICK drops \in SUBSET parts :
          /\ parts' = parts \ drops
          /\ dropped' = dropped \cup {[part |-> m, on |-> today] : m \in drops}
    BY <1>5 DEF Drop
  <2>1. dropped' \subseteq [part : Month, on : Date]
    BY DEF TypeOK
  <2>2. parts' \subseteq Month
    BY DEF TypeOK
  <2> QED
    BY <1>5, <2>1, <2>2 DEF TypeOK, Drop, Go, locals
<1>6. CASE Release(i)
  <2>1. lock' \in (Instances \X Conns) \cup {NULL}
    BY <1>6 DEF TypeOK, Release
  <2>2. depth' \in 0 .. MaxDepth
    <3>1. PICK k \in Conns :
              \/ lock = <<i, k>> /\ depth' = depth - 1
              \/ lock # <<i, k>> /\ UNCHANGED <<lock, depth>>
      BY <1>6 DEF Release
    <3>2. CASE lock = <<i, k>> /\ depth' = depth - 1
      <4>1. lock # NULL
        BY <3>2, NullAssumption
      <4>2. depth # 0
        BY <4>1 DEF Locked
      <4> QED
        BY <3>2, <4>2, BoundAssumption DEF TypeOK
    <3>3. CASE UNCHANGED depth
      BY <3>3 DEF TypeOK
    <3> QED
      BY <3>1, <3>2, <3>3
  <2>3. End(i, outcome[i])
    BY <1>6 DEF Release
  <2> QED
    BY <2>1, <2>2, <2>3, EndTypes DEF TypeOK, End
<1> QED
  BY <1>1, <1>2, <1>3, <1>4, <1>5, <1>6 DEF Step

LEMMA FaultTypes ==
    ASSUME TypeOK, NEW i \in Instances,
           Boot(i) \/ Fire(i) \/ QueryFails(i) \/ Stop(i) \/ LoseConnection
    PROVE  TypeOK'
<1>1. CASE Boot(i) \/ Fire(i)
  BY <1>1 DEF Boot, Fire, Begin, TypeOK, locals
<1>2. CASE QueryFails(i)
  <2>1. losses' \in 0 .. MaxLosses
    BY <1>2, BoundAssumption DEF QueryFails, TypeOK
  <2>2. CASE timer' = [timer EXCEPT ![i] = Delay(today)] /\ pc[i] = "acquire"
    BY <1>2, <2>1, <2>2, EndTypes DEF QueryFails, Fail, Go, TypeOK, locals
  <2>3. CASE pc[i] # "acquire"
    BY <1>2, <2>1, <2>3 DEF QueryFails, Fail, Go, TypeOK, locals
  <2> QED
    BY <1>2, <2>2, <2>3 DEF QueryFails
<1>3. CASE Stop(i)
  <2>1. losses' \in 0 .. MaxLosses
    BY <1>3, BoundAssumption DEF Stop, TypeOK
  <2>2. depth' \in 0 .. MaxDepth /\ lock' \in (Instances \X Conns) \cup {NULL}
    BY <1>3, BoundAssumption DEF Stop, TypeOK
  <2>3. timer' \in [Instances -> [at : Date, soon : BOOLEAN] \cup {NULL}]
    BY <1>3 DEF Stop, TypeOK
  <2> QED
    BY <1>3, <2>1, <2>2, <2>3, EndTypes DEF Stop, TypeOK
<1>4. CASE LoseConnection
  BY <1>4, BoundAssumption DEF LoseConnection, TypeOK, locals
<1> QED
  BY <1>1, <1>2, <1>3, <1>4

LEMMA NextTypes == TypeOK /\ Calendar /\ Locked /\ [Next]_vars => TypeOK'
<1> SUFFICES ASSUME TypeOK, Calendar, Locked, [Next]_vars PROVE TypeOK'
  OBVIOUS
<1>1. CASE Tick
  BY <1>1, TickTypes
<1>2. CASE LoseConnection
  BY <1>2, BoundAssumption DEF LoseConnection, TypeOK, locals
<1>3. ASSUME NEW i \in Instances, Boot(i) \/ Fire(i) \/ QueryFails(i) \/ Stop(i)
      PROVE  TypeOK'
  BY <1>3, FaultTypes
<1>4. ASSUME NEW i \in Instances, Step(i) PROVE TypeOK'
  BY <1>4, StepTypes
<1>5. CASE UNCHANGED vars
  BY <1>5 DEF vars, locals, TypeOK
<1> QED
  BY <1>1, <1>2, <1>3, <1>4, <1>5 DEF Next

-----------------------------------------------------------------------------
(* The initial state.                                                      *)

LEMMA InitPInv == Init => PInv
<1> SUFFICES ASSUME Init PROVE PInv
  OBVIOUS
<1>1. TypeOK
  BY InitTypes
<1>2. Calendar
  BY DateAssumption DEF Init, Calendar
<1>3. Table
  <2>1. CASE parts \in OldParts
    <3>1. pmax \in parts /\ \E t \in parts \ {pmax} :
              /\ t <= FirstDate.month + 3
              /\ (t - 3) .. t \subseteq parts
              /\ \A m \in parts \ {pmax} : m <= t
      BY <2>1, TableAssumption
    <3>2. parts \subseteq Month /\ today = FirstDate
      BY <1>1 DEF TypeOK, Init
    <3> QED
      BY <3>1, <3>2 DEF Table, Last
  <2> QED
    BY <2>1 DEF Init, Table
<1>4. Locked /\ Holds /\ RetentionKept
  BY DEF Init, Locked, Holds, Working, RetentionKept
<1>5. \A i \in Instances : Listed(i) /\ Covered(i) /\ CutoffKeeps(i)
  BY DEF Init, Listed, Covered, CutoffKeeps
<1> QED
  BY <1>1, <1>2, <1>3, <1>4, <1>5 DEF PInv

-----------------------------------------------------------------------------
(* The lock.                                                               *)

LEMMA NextLocked == TypeOK /\ Locked /\ [Next]_vars => Locked'
<1> SUFFICES ASSUME TypeOK, Locked, [Next]_vars PROVE Locked'
  OBVIOUS
<1>1. CASE UNCHANGED <<lock, depth>>
  BY <1>1 DEF Locked
<1>2. CASE lock' = NULL /\ depth' = 0
  BY <1>2 DEF Locked
<1>3. ASSUME NEW i \in Instances, Acquire(i) PROVE Locked'
  <2>1. PICK k \in Conns : \/ lock' = <<i, k>> /\ depth' = depth + 1
                           \/ UNCHANGED <<lock, depth>>
    BY <1>3 DEF Acquire
  <2>2. <<i, k>> # NULL
    BY NullAssumption
  <2> QED
    BY <1>1, <2>1, <2>2 DEF TypeOK, Locked
<1>4. ASSUME NEW i \in Instances, Release(i) PROVE Locked'
  <2>1. PICK k \in Conns : \/ /\ lock = <<i, k>>
                              /\ depth' = depth - 1
                              /\ lock' = IF depth = 1 THEN NULL ELSE lock
                           \/ UNCHANGED <<lock, depth>>
    BY <1>4 DEF Release
  <2>2. <<i, k>> # NULL
    BY NullAssumption
  <2> QED
    BY <1>1, <2>1, <2>2 DEF TypeOK, Locked
<1>5. ASSUME NEW i \in Instances, Boot(i) \/ Fire(i) \/ QueryFails(i) \/ Stop(i)
      PROVE  (lock' = NULL /\ depth' = 0) \/ UNCHANGED <<lock, depth>>
  BY <1>5 DEF Boot, Fire, Begin, QueryFails, Fail, Stop
<1>6. CASE Tick \/ UNCHANGED vars
  BY <1>1, <1>6 DEF Tick, vars
<1>7. CASE LoseConnection
  BY <1>2, <1>7 DEF LoseConnection
<1>8. ASSUME NEW i \in Instances, List(i) \/ Alter(i) \/ Expire(i) \/ Drop(i)
      PROVE  UNCHANGED <<lock, depth>>
  BY <1>8 DEF List, Alter, Expire, Drop
<1> QED
  BY <1>1, <1>2, <1>3, <1>4, <1>5, <1>6, <1>7, <1>8 DEF Next, Step

\* Whoever is at work keeps what it holds.
LEMMA NextHolds == TypeOK /\ Holds /\ [Next]_vars => Holds'
<1> SUFFICES ASSUME TypeOK, Holds, [Next]_vars, losses' = 0,
                    NEW j \in Instances, Working(j)'
             PROVE  \E k \in Conns : lock' = <<j, k>>
  BY DEF Holds
<1>1. losses = 0
  <2>1. losses' = losses \/ losses' = losses + 1
    BY DEF Next, Tick, LoseConnection, Boot, Fire, Begin, QueryFails, Fail, Stop, Step,
           Acquire, List, Alter, Expire, Drop, Release, End, vars
  <2> QED
    BY <2>1, BoundAssumption DEF TypeOK
<1>2. losses' # losses + 1
  BY <1>1
<1>3. CASE Working(j) /\ lock' = lock
  BY <1>1, <1>3 DEF Holds
<1>4. ASSUME NEW i \in Instances, Acquire(i) PROVE \E k \in Conns : lock' = <<j, k>>
  <2>1. PICK k \in Conns : \/ /\ lock \in {NULL, <<i, k>>} /\ lock' = <<i, k>>
                              /\ pc' = [pc EXCEPT ![i] = "list"]
                           \/ lock' = lock /\ pc' = [pc EXCEPT ![i] = "idle"]
    BY <1>4 DEF Acquire, Go, End
  <2>2. i # j => Working(j)
    BY <2>1 DEF TypeOK, Working
  <2>3. CASE lock' = lock /\ pc' = [pc EXCEPT ![i] = "idle"]
    BY <1>3, <2>2, <2>3 DEF TypeOK, Working
  <2>4. CASE lock \in {NULL, <<i, k>>} /\ lock' = <<i, k>>
    <3>1. CASE i # j
      <4>1. PICK l \in Conns : lock = <<j, l>>
        BY <1>1, <2>2, <3>1 DEF Holds
      <4> QED
        BY <2>4, <3>1, <4>1, NullAssumption
    <3> QED
      BY <2>4, <3>1
  <2> QED
    BY <2>1, <2>3, <2>4
<1>5. ASSUME NEW i \in Instances, Release(i) PROVE \E k \in Conns : lock' = <<j, k>>
  <2>1. PICK k \in Conns : lock = <<i, k>> \/ lock' = lock
    BY <1>5 DEF Release
  <2>2. pc' = [pc EXCEPT ![i] = "idle"]
    BY <1>5 DEF Release, End
  <2>3. i # j /\ Working(j)
    BY <2>2 DEF TypeOK, Working
  <2>4. lock # <<i, k>>
    BY <1>1, <2>3 DEF Holds
  <2> QED
    BY <1>3, <2>1, <2>3, <2>4
<1>6. ASSUME NEW i \in Instances, List(i) \/ Alter(i) \/ Expire(i) \/ Drop(i)
      PROVE  Working(j) /\ lock' = lock
  BY <1>6 DEF TypeOK, List, Alter, Expire, Drop, Go, Working
<1>7. ASSUME NEW i \in Instances, Boot(i) \/ Fire(i) PROVE Working(j) /\ lock' = lock
  BY <1>7 DEF TypeOK, Boot, Fire, Begin, Working
<1>8. ASSUME NEW i \in Instances, QueryFails(i) \/ Stop(i) \/ LoseConnection PROVE FALSE
  BY <1>2, <1>8 DEF QueryFails, Stop, LoseConnection
<1>9. CASE Tick \/ UNCHANGED vars
  BY <1>3, <1>9 DEF Tick, vars, Working
<1> QED
  BY <1>2, <1>3, <1>4, <1>5, <1>6, <1>7, <1>8, <1>9 DEF Next, Step, LoseConnection

-----------------------------------------------------------------------------
(* The table.                                                              *)

LEMMA LastUnique ==
    ASSUME NEW p, NEW s \in Nat, NEW t \in Nat, Last(p, s), Last(p, t)
    PROVE  s = t
BY DEF Last

\* What the invariant says of one process.
Mine(i) == Listed(i) /\ Covered(i) /\ CutoffKeeps(i)

\* A process that neither moves nor sees the table move.
SameFor(j) ==
    /\ pc'[j] = pc[j] /\ existing'[j] = existing[j] /\ cutoff'[j] = cutoff[j]
    /\ (j \in late' <=> j \in late)

LEMMA Undisturbed ==
    UNCHANGED <<today, parts>> =>
        \A j \in Instances : Mine(j) /\ SameFor(j) => Mine(j)'
BY DEF Mine, SameFor, Listed, Covered, CutoffKeeps, Lead, Kept

LEMMA NotAtTheTable ==
    \A j \in Instances : pc'[j] \notin {"alter", "expire", "drop"} => Mine(j)'
BY DEF Mine, Listed, Covered, CutoffKeeps

\* The steps that leave the table alone and take a process away from it.
LEMMA QuietSteps ==
    ASSUME TypeOK, NEW i \in Instances,
           Boot(i) \/ Fire(i) \/ Acquire(i) \/ Release(i) \/ QueryFails(i) \/ Stop(i)
    PROVE  /\ UNCHANGED <<today, parts, dropped>>
           /\ pc'[i] \notin {"alter", "expire", "drop"}
           /\ \A j \in Instances \ {i} : SameFor(j)
<1>1. CASE Boot(i) \/ Fire(i)
  BY <1>1 DEF TypeOK, Boot, Fire, Begin, SameFor, locals
<1>2. CASE Acquire(i)
  BY <1>2 DEF TypeOK, Acquire, Go, End, SameFor, locals
<1>3. CASE Release(i)
  BY <1>3 DEF TypeOK, Release, Go, End, SameFor, locals
<1>4. CASE QueryFails(i)
  BY <1>4 DEF TypeOK, QueryFails, Fail, Go, SameFor, locals
<1>5. CASE Stop(i)
  BY <1>5 DEF TypeOK, Stop, SameFor, locals
<1> QED
  BY <1>1, <1>2, <1>3, <1>4, <1>5

\* The steps at the table leave the other processes where they are.
LEMMA WorkSteps ==
    ASSUME TypeOK, NEW i \in Instances, List(i) \/ Alter(i) \/ Expire(i) \/ Drop(i)
    PROVE  /\ \A j \in Instances \ {i} : SameFor(j)
           /\ UNCHANGED today /\ UNCHANGED late
BY DEF TypeOK, List, Alter, Expire, Drop, Go, SameFor, locals

LEMMA ListKeeps ==
    ASSUME TypeOK, Table, NEW i \in Instances, List(i)
    PROVE  Mine(i)'
<1>1. pc'[i] = "alter" /\ existing'[i] = parts /\ parts' = parts
  BY DEF TypeOK, List, Go
<1>2. Covered(i)' /\ CutoffKeeps(i)'
  BY <1>1 DEF Covered, CutoffKeeps
<1>3. ASSUME parts # {} PROVE Listed(i)'
  <2>1. PICK t \in Month : Last(parts, t)
    BY <1>3 DEF Table
  <2> QED
    BY <1>1, <2>1 DEF Listed, Last, Month
<1> QED
  BY <1>1, <1>2, <1>3 DEF Mine, Listed

LEMMA ExpireKeeps ==
    ASSUME TypeOK, Calendar, NEW i \in Instances, Mine(i), Expire(i)
    PROVE  Mine(i)'
<1>1. /\ pc[i] = "expire" /\ pc'[i] = "drop" /\ cutoff'[i] = Cutoff(today)
      /\ UNCHANGED <<today, parts, late>>
  BY DEF TypeOK, Expire, Go
<1>2. Listed(i)' /\ Covered(i)'
  BY <1>1 DEF Mine, Listed, Covered, Lead
<1>3. ASSUME NEW m \in Month, m < Cutoff(today) PROVE Kept(m)
  <2>1. today.month \in Nat /\ today.month - 24 \in Nat
    BY DEF TypeOK, Calendar, Date, Month
  <2>2. m < today.month - 24 \/ (m = today.month - 24 /\ today.day > DaysIn(m))
    BY <1>3, <2>1 DEF Cutoff, API_LOG_RETENTION_MONTHS, Month
  <2> QED
    BY <2>1, <2>2 DEF Kept, Month
<1>4. CutoffKeeps(i)'
  BY <1>1, <1>3 DEF CutoffKeeps, Kept
<1> QED
  BY <1>2, <1>4 DEF Mine

\* Whatever became of the REORGANIZE, a last month leads afterwards, and it is
\* no earlier than the one before.
LEMMA AlterLeads ==
    ASSUME TypeOK, Calendar, Table, NEW i \in Instances, Mine(i), Alter(i)
    PROVE  \E t \in Month :
              /\ Last(parts', t) /\ t <= today.month + 3 /\ Lead(i, t)
              /\ \A s \in Month : Last(parts, s) => s <= t
              /\ \A s \in Month : Last(parts, s) => s = t \/ t = today.month + 3
<1> DEFINE end == today.month + 3
<1>1. /\ today.month \in Nat /\ today.month <= MaxMonth
      /\ end \in Month /\ end < pmax
  BY DateAssumption DEF TypeOK, Calendar, Date, Month, pmax
<1>2. \A s \in Month : Last(parts, s) => s <= end
  BY <1>1, LastUnique DEF Table, Month, Last
<1>3. pc[i] = "alter"
  BY DEF Alter
<1>4. Ahead(today) = today.month .. end
  BY <1>1 DEF Ahead, API_LOG_AHEAD_PARTITIONS
<1>5. Lead(i, end)
  BY <1>1 DEF Lead
<1>6. Last(parts', end) => \E t \in Month :
              /\ Last(parts', t) /\ t <= today.month + 3 /\ Lead(i, t)
              /\ \A s \in Month : Last(parts, s) => s <= t
              /\ \A s \in Month : Last(parts, s) => s = t \/ t = today.month + 3
  BY <1>1, <1>2, <1>5
<1>7. CASE existing[i] = {}
  <2>1. parts' = (today.month .. end) \cup {pmax}
    BY <1>4, <1>7 DEF Alter, Initial
  <2>2. Last(parts', end)
    BY <1>1, <2>1 DEF Last, Month
  <2> QED
    BY <1>6, <2>2
<1>8. CASE existing[i] # {}
  <2> PICK s \in Month, t \in Month :
          Last(existing[i], s) /\ Last(parts, t) /\ s <= t /\ (s = t \/ Lead(i, t))
    BY <1>3, <1>8 DEF Mine, Listed
  <2>1. t <= end
    BY <1>2
  <2>2. ToAdd(i) = (today.month .. end) \ existing[i]
    BY <1>4 DEF ToAdd
  <2>3. CASE ToAdd(i) \cap parts = {}
    <3>1. parts' = parts \cup ((today.month .. end) \ existing[i])
      BY <1>8, <2>2, <2>3 DEF Alter
    <3>2. \A m \in today.month .. end : m \in existing[i] => m \in parts
      BY <1>1, <2>1 DEF Last, Month
    <3>3. today.month .. end \subseteq parts'
      BY <3>1, <3>2
    <3>4. Last(parts', end)
      BY <1>1, <2>1, <3>1, <3>3 DEF Last, Month
    <3> QED
      BY <1>6, <3>4
  <2>4. CASE ToAdd(i) \cap parts # {}
    <3>1. parts' = parts
      BY <1>8, <2>4 DEF Alter
    <3>2. s # t
      BY <1>1, <2>1, <2>2, <2>4 DEF Last, Month
    <3>3. Lead(i, t)
      BY <3>2
    <3>4. \A r \in Month : Last(parts, r) => r = t
      BY LastUnique DEF Month
    <3> QED
      BY <2>1, <3>1, <3>3, <3>4 DEF Month
  <2> QED
    BY <2>3, <2>4
<1> QED
  BY <1>7, <1>8

LEMMA AlterKeeps ==
    ASSUME TypeOK, Calendar, Table, \A j \in Instances : Mine(j),
           NEW i \in Instances, Alter(i)
    PROVE  Table' /\ \A j \in Instances : Mine(j)'
<1> PICK t \in Month :
        /\ Last(parts', t) /\ t <= today.month + 3 /\ Lead(i, t)
        /\ \A s \in Month : Last(parts, s) => s <= t
        /\ \A s \in Month : Last(parts, s) => s = t \/ t = today.month + 3
  BY AlterLeads
<1>1. /\ UNCHANGED <<today, late>>
      /\ pc'[i] = "expire"
      /\ \A j \in Instances \ {i} : SameFor(j)
  BY WorkSteps DEF Alter, Go, TypeOK
<1>2. Table'
  BY <1>1 DEF Table
<1>3. Mine(i)'
  BY <1>1 DEF Mine, Listed, Covered, CutoffKeeps, Lead
<1>4. ASSUME NEW j \in Instances \ {i} PROVE Mine(j)'
  <2>1. SameFor(j) /\ Mine(j)
    BY <1>1
  <2>2. Lead(j, today.month + 3)
    BY DEF Lead, TypeOK, Date, Month
  <2>3. Listed(j)'
    <3> SUFFICES ASSUME pc[j] = "alter", existing[j] # {}
                 PROVE  Listed(j)'
      BY <2>1 DEF Listed, SameFor
    <3> PICK r \in Month, s \in Month :
            Last(existing[j], r) /\ Last(parts, s) /\ r <= s /\ (r = s \/ Lead(j, s))
      BY <2>1 DEF Mine, Listed
    <3>1. s <= t /\ r <= t
      BY DEF Month
    <3>2. r = t \/ Lead(j, t)
      BY <2>2
    <3>3. Lead(j, t) => Lead(j, t)'
      BY <1>1 DEF Lead
    <3>4. Last(existing'[j], r) /\ Last(parts', t)
      BY <2>1 DEF SameFor
    <3> QED
      BY <3>1, <3>2, <3>3, <3>4 DEF Listed
  <2>4. Covered(j)'
    <3> SUFFICES ASSUME pc[j] \in {"expire", "drop"} PROVE Covered(j)'
      BY <2>1 DEF Covered, SameFor
    <3> PICK s \in Month : Last(parts, s) /\ Lead(j, s)
      BY <2>1 DEF Mine, Covered
    <3>1. Lead(j, t)
      BY <2>2
    <3>2. Lead(j, t) => Lead(j, t)'
      BY <1>1 DEF Lead
    <3> QED
      BY <3>1, <3>2 DEF Covered
  <2>5. CutoffKeeps(j)'
    BY <1>1, <2>1 DEF Mine, CutoffKeeps, SameFor, Kept
  <2> QED
    BY <2>3, <2>4, <2>5 DEF Mine
<1> QED
  BY <1>2, <1>3, <1>4

\* What is dropped is old, so the last months stay.
LEMMA DropsOld ==
    ASSUME TypeOK, Calendar, NEW i \in Instances, Mine(i), Drop(i)
    PROVE  \E drops \in SUBSET parts :
              /\ parts' = parts \ drops
              /\ dropped' = dropped \cup {[part |-> m, on |-> today] : m \in drops}
              /\ \A m \in drops : m \in Month /\ Kept(m)
<1> DEFINE toDrop == {m \in existing[i] : m < cutoff[i]}
<1> DEFINE drops == IF toDrop \subseteq parts THEN toDrop ELSE {}
<1>1. /\ parts' = parts \ drops
      /\ dropped' = dropped \cup {[part |-> m, on |-> today] : m \in drops}
  BY DEF Drop
<1>2. drops \in SUBSET parts
  OBVIOUS
<1>3. pc[i] = "drop" /\ existing[i] \subseteq Month
  BY DEF Drop, TypeOK
<1>4. \A m \in drops : m \in Month /\ Kept(m)
  BY <1>3 DEF Mine, CutoffKeeps
<1> QED
  BY <1>1, <1>2, <1>4

LEMMA DropKeeps ==
    ASSUME TypeOK, Calendar, Table, RetentionKept, \A j \in Instances : Mine(j),
           NEW i \in Instances, Drop(i)
    PROVE  Table' /\ RetentionKept' /\ \A j \in Instances : Mine(j)'
<1> PICK drops \in SUBSET parts :
        /\ parts' = parts \ drops
        /\ dropped' = dropped \cup {[part |-> m, on |-> today] : m \in drops}
        /\ \A m \in drops : m \in Month /\ Kept(m)
  BY DropsOld
<1>1. /\ UNCHANGED <<today, late>>
      /\ pc'[i] = "release"
      /\ \A j \in Instances \ {i} : SameFor(j)
  BY WorkSteps DEF Drop, Go, TypeOK
<1>2. today.month \in Nat /\ today.month < pmax
  BY DateAssumption DEF TypeOK, Calendar, Date, Month, pmax
<1>3. PICK t \in Month : Last(parts, t) /\ today.month + 2 <= t /\ t <= today.month + 3
  <2>1. PICK u \in Month : Last(parts, u) /\ Lead(i, u)
    BY DEF Drop, Mine, Covered
  <2>2. u <= today.month + 3
    BY <2>1, LastUnique DEF Table, Last, Month
  <2> QED
    BY <2>1, <2>2 DEF Lead, Month
<1>4. \A m \in drops : m + 24 <= today.month
  BY <1>2 DEF Kept, Month
<1>5. Last(parts', t)
  <2>1. \A m \in drops : m < t - 3 /\ m # pmax
    BY <1>2, <1>3, <1>4 DEF Month, pmax
  <2> QED
    BY <1>3, <2>1 DEF Last, Month
<1>6. Table'
  BY <1>1, <1>3, <1>5 DEF Table
<1>7. RetentionKept'
  BY DEF RetentionKept, Kept
<1>8. Mine(i)'
  BY <1>1, NotAtTheTable
<1>9. ASSUME NEW j \in Instances \ {i} PROVE Mine(j)'
  <2>1. SameFor(j) /\ Mine(j)
    BY <1>1
  <2>2. \A s \in Month : Last(parts, s) => Last(parts', s)
    BY <1>3, <1>5, LastUnique DEF Month
  <2>3. \A s \in Month : Lead(j, s) => Lead(j, s)'
    BY <1>1 DEF Lead
  <2>4. Listed(j)' /\ Covered(j)'
    BY <2>1, <2>2, <2>3 DEF Mine, SameFor, Listed, Covered
  <2>5. CutoffKeeps(j)'
    BY <1>1, <2>1 DEF Mine, CutoffKeeps, SameFor, Kept
  <2> QED
    BY <2>4, <2>5 DEF Mine
<1> QED
  BY <1>6, <1>7, <1>8, <1>9

\* A day or a month passes.
LEMMA TickKeeps ==
    ASSUME TypeOK, Calendar, Table, \A j \in Instances : Mine(j), Tick
    PROVE  Calendar' /\ Table' /\ \A j \in Instances : Mine(j)'
<1>1. /\ UNCHANGED <<parts, dropped, pc, existing, cutoff>>
      /\ late = {} /\ late' = {i \in Instances : pc[i] \notin {"down", "idle"}}
  BY DEF Tick, locals
<1>2. \/ /\ today'.month = today.month
         /\ today'.day \in Nat /\ today.day < today'.day
      \/ today'.month = today.month + 1 /\ today.month < MaxMonth
  <2>1. ASSUME NEW d \in Days, today.day < d, today' = [today EXCEPT !.day = d]
        PROVE  /\ today'.month = today.month
               /\ today'.day \in Nat /\ today.day < today'.day
    BY <2>1, DateAssumption DEF TypeOK, Date
  <2> QED
    BY <2>1 DEF Tick
<1>3. /\ today.month \in 24 .. MaxMonth /\ MaxMonth \in Nat
      /\ today.day \in Nat
  BY DateAssumption DEF TypeOK, Calendar, Date, Month
<1>4. Calendar'
  BY <1>2, <1>3 DEF Calendar
<1>5. Table'
  BY <1>1, <1>2, <1>3 DEF Table, Month
<1>6. ASSUME NEW m \in Month, Kept(m) PROVE Kept(m)'
  BY <1>2, <1>3, <1>6, DaysInNat DEF Kept, Month
<1>7. ASSUME NEW j \in Instances PROVE Mine(j)'
  <2>1. ASSUME NEW t \in Month, pc[j] \in {"alter", "expire", "drop"}, Lead(j, t)
        PROVE  Lead(j, t)'
    <3>1. j \in late' /\ t >= today.month + 3
      BY <1>1, <2>1 DEF Lead
    <3> QED
      BY <1>2, <1>3, <3>1 DEF Lead, Month
  <2>2. Listed(j)' /\ Covered(j)'
    BY <1>1, <2>1 DEF Mine, Listed, Covered
  <2>3. CutoffKeeps(j)'
    BY <1>1, <1>6 DEF Mine, CutoffKeeps
  <2> QED
    BY <2>2, <2>3 DEF Mine
<1> QED
  BY <1>4, <1>5, <1>7

-----------------------------------------------------------------------------
(* The theorems.                                                           *)

\* Every step preserves the invariant.
LEMMA NextPInv == PInv /\ [Next]_vars => PInv'
<1> SUFFICES ASSUME PInv, [Next]_vars PROVE PInv'
  OBVIOUS
<1>0. /\ TypeOK /\ Calendar /\ Locked /\ Holds /\ Table /\ RetentionKept
      /\ \A j \in Instances : Mine(j)
  BY DEF PInv, Mine
<1>1. TypeOK' /\ Locked' /\ Holds'
  BY <1>0, NextTypes, NextLocked, NextHolds
<1>2. Calendar' /\ Table' /\ RetentionKept' /\ \A j \in Instances : Mine(j)'
  <2>1. ASSUME NEW i \in Instances,
               Boot(i) \/ Fire(i) \/ Acquire(i) \/ Release(i) \/ QueryFails(i) \/ Stop(i)
        PROVE  Calendar' /\ Table' /\ RetentionKept' /\ \A j \in Instances : Mine(j)'
    <3>1. /\ UNCHANGED <<today, parts, dropped>>
          /\ pc'[i] \notin {"alter", "expire", "drop"}
          /\ \A j \in Instances \ {i} : SameFor(j)
      BY <1>0, <2>1, QuietSteps
    <3>2. \A j \in Instances : Mine(j)'
      BY <1>0, <3>1, Undisturbed, NotAtTheTable
    <3> QED
      BY <1>0, <3>1, <3>2 DEF Calendar, Table, RetentionKept
  <2>2. ASSUME NEW i \in Instances, List(i) \/ Expire(i)
        PROVE  Calendar' /\ Table' /\ RetentionKept' /\ \A j \in Instances : Mine(j)'
    <3>1. UNCHANGED <<today, parts, dropped>>
      BY <2>2 DEF List, Expire
    <3>2. \A j \in Instances \ {i} : SameFor(j)
      BY <1>0, <2>2, WorkSteps
    <3>3. Mine(i)'
      BY <1>0, <2>2, ListKeeps, ExpireKeeps
    <3>4. \A j \in Instances : Mine(j)'
      BY <1>0, <3>1, <3>2, <3>3, Undisturbed
    <3> QED
      BY <1>0, <3>1, <3>4 DEF Calendar, Table, RetentionKept
  <2>3. ASSUME NEW i \in Instances, Alter(i)
        PROVE  Calendar' /\ Table' /\ RetentionKept' /\ \A j \in Instances : Mine(j)'
    <3>1. Table' /\ \A j \in Instances : Mine(j)'
      BY <1>0, <2>3, AlterKeeps
    <3>2. UNCHANGED <<today, dropped>>
      BY <2>3 DEF Alter
    <3> QED
      BY <1>0, <3>1, <3>2 DEF Calendar, RetentionKept
  <2>4. ASSUME NEW i \in Instances, Drop(i)
        PROVE  Calendar' /\ Table' /\ RetentionKept' /\ \A j \in Instances : Mine(j)'
    <3>1. UNCHANGED today
      BY <2>4 DEF Drop
    <3> QED
      BY <1>0, <2>4, <3>1, DropKeeps DEF Calendar
  <2>5. CASE Tick
    <3>1. UNCHANGED dropped
      BY <2>5 DEF Tick
    <3> QED
      BY <1>0, <2>5, <3>1, TickKeeps DEF RetentionKept
  <2>6. CASE LoseConnection \/ UNCHANGED vars
    <3>1. UNCHANGED <<today, parts, dropped>> /\ \A j \in Instances : SameFor(j)
      BY <2>6 DEF LoseConnection, vars, locals, SameFor
    <3>2. \A j \in Instances : Mine(j)'
      BY <1>0, <3>1, Undisturbed
    <3> QED
      BY <1>0, <3>1, <3>2 DEF Calendar, Table, RetentionKept
  <2> QED
    BY <2>1, <2>2, <2>3, <2>4, <2>5, <2>6 DEF Next, Step
<1> QED
  BY <1>1, <1>2 DEF PInv, Mine

LEMMA PInvHolds == Spec => []PInv
BY InitPInv, NextPInv, PTL DEF Spec

\* Every variable keeps its type (ApiLogPartitionService,
\* api-log.partition.service.ts:16).
THEOREM PartitionTypes == Spec => []TypeOK
<1>1. PInv => TypeOK
  BY DEF PInv
<1> QED
  BY <1>1, PInvHolds, PTL

\* api-log.constants.ts:15: the advisory lock admits one process to the table,
\* although each query takes any connection of the pool, as long as none breaks.
THEOREM PartitionsOneMaintainer == Spec => []OneMaintainer
<1>1. PInv => OneMaintainer
  <2> SUFFICES ASSUME PInv, losses = 0, NEW i \in Instances, NEW j \in Instances,
                      Working(i), Working(j)
               PROVE  i = j
    BY DEF OneMaintainer
  <2>1. PICK k \in Conns : lock = <<i, k>>
    BY DEF PInv, Holds
  <2>2. PICK l \in Conns : lock = <<j, l>>
    BY DEF PInv, Holds
  <2> QED
    BY <2>1, <2>2
<1> QED
  BY <1>1, PInvHolds, PTL

\* api-log.constants.ts:1-5: no process, however old its cutoff, drops a
\* partition that holds a row of the last 24 months.
THEOREM PartitionsRetained == Spec => []RetentionKept
<1>1. PInv => RetentionKept
  BY DEF PInv
<1> QED
  BY <1>1, PInvHolds, PTL

\* api-log.constants.ts:9: whatever other processes did to the table meanwhile,
\* after the ALTER of a maintenance this month and the next two are partitioned.
THEOREM PartitionsCovered == Spec => []CoveredWhenDone
<1>1. PInv => CoveredWhenDone
  <2> SUFFICES ASSUME PInv, NEW i \in Instances, pc[i] \in {"expire", "drop"}
               PROVE  today.month .. today.month + 2 \subseteq parts
    BY DEF CoveredWhenDone
  <2>1. PICK t \in Month : Last(parts, t) /\ Lead(i, t)
    BY DEF PInv, Covered
  <2>2. t <= today.month + 3
    BY <2>1, LastUnique DEF PInv, Table, Last, Month
  <2>3. today.month \in Nat
    BY DEF PInv, TypeOK, Date, Month
  <2> QED
    BY <2>1, <2>2, <2>3 DEF Last, Lead, Month
<1> QED
  BY <1>1, PInvHolds, PTL

\* api-log.partition.service.ts:155: a REORGANIZE computed from a stale list
\* still adds its months above the rest.
THEOREM PartitionsAddAbove == Spec => []AddsAbove
<1>1. PInv => AddsAbove
  <2> SUFFICES ASSUME PInv, NEW i \in Instances, pc[i] = "alter", existing[i] # {},
                      ToAdd(i) \cap parts = {},
                      NEW m \in ToAdd(i), NEW p \in parts \ {pmax}
               PROVE  p < m
    BY DEF AddsAbove
  <2>1. PICK t \in Month : Last(parts, t)
    BY DEF PInv, Listed
  <2>2. t <= today.month + 3
    BY <2>1, LastUnique DEF PInv, Table, Last, Month
  <2>3. today.month \in Nat
    BY DEF PInv, TypeOK, Date, Month
  <2>4. m \in today.month .. today.month + 3 /\ m \notin parts
    BY DEF ToAdd, Ahead, API_LOG_AHEAD_PARTITIONS
  <2>5. t < m
    BY <2>1, <2>2, <2>3, <2>4 DEF Last, Month
  <2>6. p \in Month /\ p <= t
    BY <2>1 DEF Last, PInv, TypeOK
  <2> QED
    BY <2>3, <2>4, <2>5, <2>6 DEF Month
<1> QED
  BY <1>1, PInvHolds, PTL
=============================================================================
