--------------------------- MODULE ApiLogPartition ---------------------------
(***************************************************************************)
(* The monthly partitions of t_api_log and the service that maintains them *)
(* (ApiLogPartitionService): a run at start-up and on a timer, under an    *)
(* advisory lock of MySQL, by every server process.                        *)
(*                                                                         *)
(* A month is counted from year 0: January of y is 12 * y.  Partition      *)
(* pYYYYMM is named by its month m and takes rows LESS THAN the first day  *)
(* of m + 1.  GET_LOCK belongs to the connection it ran on; each query     *)
(* takes whichever connection of the process's pool is free.               *)
(***************************************************************************)
EXTENDS Integers, FiniteSets

CONSTANTS
    Instances,   \* server processes
    Conns,       \* connections of a process's pool
    Days,        \* the days of a month at which the model looks
    FirstDate,   \* the date the model starts at
    MaxMonth,    \* bound on time
    OldParts,    \* partitions a table may have when the model starts
    MaxDepth,    \* bound on how often one connection holds the lock
    MaxLosses,   \* bound on lost connections and failed queries
    NULL

RetentionShort == 23    \* slip: a month short
API_LOG_RETENTION_MONTHS == 24
NoneAhead == 0          \* slip: the month under way only
API_LOG_AHEAD_PARTITIONS == 3

Month == Nat
Date == [month : Month, day : 1 .. 31]

\* Above every month a name pYYYYMM can stand for.
pmax == 12 * 10000

ASSUME NullAssumption ==
    /\ NULL \notin Instances \X Conns
    /\ NULL \notin [at : Date, soon : BOOLEAN]
ASSUME DateAssumption ==
    /\ Days \subseteq 1 .. 31 /\ 1 \in Days
    /\ FirstDate \in Date
    /\ MaxMonth \in Month
    /\ FirstDate.month \in 24 .. MaxMonth
    /\ MaxMonth + 3 < pmax
\* A table that is partitioned has been maintained before: four months in a row
\* are its last, and none is further ahead than maintenance goes.
ASSUME TableAssumption ==
    /\ OldParts \subseteq SUBSET Month
    /\ \A p \in OldParts :
          /\ pmax \in p
          /\ \E t \in p \ {pmax} :
                /\ t <= FirstDate.month + 3
                /\ (t - 3) .. t \subseteq p
                /\ \A m \in p \ {pmax} : m <= t
ASSUME BoundAssumption == MaxDepth \in Nat \ {0} /\ MaxLosses \in Nat

VARIABLES
    today,
    parts,     \* months with a partition, and pmax; none: not partitioned
    dropped,   \* (history) each partition dropped and when
    lock,      \* the process and connection that hold the lock, or NULL
    depth,     \* how often that connection has taken it
    timer,     \* of each process: when it fires, and whether within 1 ms
    pc,        \* next query of each process's maintenance
    existing,  \* the partitions it listed
    cutoff,    \* the first month it keeps
    outcome,   \* how its last maintenance ended
    late,      \* processes whose maintenance has gone on past a midnight
    losses

locals == <<existing, cutoff>>
vars == <<today, parts, dropped, lock, depth, timer, pc, locals, outcome, late, losses>>

-----------------------------------------------------------------------------
Leap(y) == (y % 4 = 0 /\ y % 100 # 0) \/ y % 400 = 0
DaysIn(m) ==
    CASE m % 12 = 1 -> IF Leap(m \div 12) THEN 29 ELSE 28
      [] m % 12 \in {3, 5, 8, 10} -> 30
      [] OTHER -> 31

\* cutoff.setMonth(getMonth() - 24), whose day may not exist there and then
\* rolls into the next month; setDate(1).
Cutoff(date) ==
    LET m == date.month - API_LOG_RETENTION_MONTHS
    IN  IF date.day > DaysIn(m) THEN m + 1 ELSE m

Ahead(date) == date.month .. date.month + API_LOG_AHEAD_PARTITIONS

\* setTimeout keeps its delay in 32 bits: more than 2^31 - 1 ms (2147483.647
\* seconds) becomes 1 ms.
LongestDelay == 2147483
Delay(date) ==
    LET seconds == (DaysIn(date.month) - date.day + 1) * 86400
    IN  IF seconds > LongestDelay
        THEN [at |-> date, soon |-> TRUE]
        ELSE [at |-> [month |-> date.month + 1, day |-> 1], soon |-> FALSE]

Earlier(a, b) == a.month < b.month \/ (a.month = b.month /\ a.day < b.day)
Fires(i) == ~Earlier(today, timer[i].at)
Working(i) == pc[i] \in {"list", "alter", "expire", "drop", "release"}

-----------------------------------------------------------------------------
\* The next of Days.  A timer that is due goes off before the day is over (one of
\* 1 ms again and again), and no maintenance takes longer than a day.
Tick ==
    /\ late = {}
    /\ late' = {i \in Instances : pc[i] \notin {"down", "idle"}}
    /\ \A i \in Instances :
          pc[i] = "idle" => ~Fires(i) \/ (timer[i].soon /\ timer[i].at = today)
    /\ LET later == {d \in Days : today.day < d /\ d <= DaysIn(today.month)}
       IN  \/ \E d \in later :
                 /\ \A e \in later : d <= e
                 /\ today' = [today EXCEPT !.day = d]
           \/ /\ later = {}
              /\ today.month < MaxMonth
              /\ today' = [month |-> today.month + 1, day |-> 1]
    /\ UNCHANGED <<parts, dropped, lock, depth, timer, pc, locals, outcome, losses>>

Begin(i) ==
    /\ pc' = [pc EXCEPT ![i] = "acquire"]
    /\ outcome' = [outcome EXCEPT ![i] = "none"]
    /\ UNCHANGED <<today, parts, dropped, lock, depth, timer, locals, losses, late>>

\* onModuleInit, and the timer's callback.
Boot(i) == pc[i] = "down" /\ Begin(i)
Fire(i) == pc[i] = "idle" /\ Fires(i) /\ Begin(i)

\* Both end in scheduleNext, whatever became of the maintenance.
End(i, how) ==
    /\ pc' = [pc EXCEPT ![i] = "idle"]
    /\ timer' = [timer EXCEPT ![i] = Delay(today)]
    /\ outcome' = [outcome EXCEPT ![i] = how]
    /\ existing' = [existing EXCEPT ![i] = {}]
    /\ cutoff' = [cutoff EXCEPT ![i] = 0]
    /\ late' = late \ {i}
    /\ UNCHANGED <<today, parts, dropped, losses>>

Go(i, step) == pc' = [pc EXCEPT ![i] = step]

AcquireUnchecked(i) ==   \* slip: the result of GET_LOCK is not looked at
    /\ pc[i] = "acquire"
    /\ Go(i, "list")
    /\ UNCHANGED <<today, parts, dropped, lock, depth, timer, locals, outcome, losses, late>>

\* GET_LOCK(name, 0) on some connection: 1 if it is free or held by the same
\* connection, which then holds it once more.
Acquire(i) ==
    /\ pc[i] = "acquire"
    /\ \E k \in Conns :
          \/ /\ lock \in {NULL, <<i, k>>}
             /\ depth < MaxDepth
             /\ lock' = <<i, k>>
             /\ depth' = depth + 1
             /\ Go(i, "list")
             /\ UNCHANGED <<today, parts, dropped, timer, locals, outcome, losses, late>>
          \/ /\ lock \notin {NULL, <<i, k>>}
             /\ End(i, "skipped")
             /\ UNCHANGED <<lock, depth>>

List(i) ==
    /\ pc[i] = "list"
    /\ existing' = [existing EXCEPT ![i] = parts]
    /\ Go(i, "alter")
    /\ UNCHANGED <<today, parts, dropped, lock, depth, timer, cutoff, outcome, losses, late>>

\* Either runs the finally block.
Fail(i) ==
    /\ outcome' = [outcome EXCEPT ![i] = "failed"]
    /\ Go(i, "release")
    /\ UNCHANGED <<today, parts, dropped, lock, depth, timer, locals, late>>

InitialFromNext(date) == (Ahead(date) \ {date.month}) \cup {pmax}   \* slip: i = 1
Initial(date) == Ahead(date) \cup {pmax}
ToAdd(i) == Ahead(today) \ existing[i]

\* initialPartitioning, or ensureFuturePartitions: REORGANIZE pmax adds nothing,
\* with error 1517 (ignored), if one name exists already.  It would fail with
\* 1493 for a range below an existing one, which AddsAbove excludes.
Alter(i) ==
    /\ pc[i] = "alter"
    /\ \/ existing[i] = {} /\ parts' = Initial(today)
       \/ /\ existing[i] # {}
          /\ parts' = IF ToAdd(i) \cap parts # {} THEN parts ELSE parts \cup ToAdd(i)
    /\ Go(i, "expire")
    /\ UNCHANGED <<today, dropped, lock, depth, timer, locals, outcome, losses, late>>

\* dropExpiredPartitions computes its cutoff, then lists again.
Expire(i) ==
    /\ pc[i] = "expire"
    /\ cutoff' = [cutoff EXCEPT ![i] = Cutoff(today)]
    /\ existing' = [existing EXCEPT ![i] = parts]
    /\ Go(i, "drop")
    /\ UNCHANGED <<today, parts, dropped, lock, depth, timer, outcome, losses, late>>

\* DROP PARTITION of all of them, or, when another process was first, of none:
\* the error is logged.
Drop(i) ==
    /\ pc[i] = "drop"
    /\ LET toDrop == {m \in existing[i] : m < cutoff[i]}
           drops == IF toDrop \subseteq parts THEN toDrop ELSE {}
       IN  /\ parts' = parts \ drops
           /\ dropped' = dropped \cup {[part |-> m, on |-> today] : m \in drops}
    /\ outcome' = [outcome EXCEPT ![i] = "done"]
    /\ Go(i, "release")
    /\ UNCHANGED <<today, lock, depth, timer, locals, losses, late>>

\* RELEASE_LOCK on some connection: releases if that one holds the lock.
ReleaseAgain(i) ==   \* slip: released by the callers too
    /\ pc[i] = "release"
    /\ \E k \in Conns :
          \/ /\ lock = <<i, k>>
             /\ depth' = depth - 2
             /\ lock' = IF depth = 1 THEN NULL ELSE lock
          \/ lock # <<i, k>> /\ UNCHANGED <<lock, depth>>
    /\ End(i, outcome[i])
Release(i) ==
    /\ pc[i] = "release"
    /\ \E k \in Conns :
          \/ /\ lock = <<i, k>>
             /\ depth' = depth - 1
             /\ lock' = IF depth = 1 THEN NULL ELSE lock
          \/ lock # <<i, k>> /\ UNCHANGED <<lock, depth>>
    /\ End(i, outcome[i])

\* A query fails.  GET_LOCK: the maintenance is over.  The lists and the ALTERs:
\* finally.  DROP: caught.  RELEASE_LOCK: ignored.
QueryFails(i) ==
    /\ losses < MaxLosses
    /\ losses' = losses + 1
    /\ \/ /\ pc[i] = "acquire"
          /\ pc' = [pc EXCEPT ![i] = "idle"]
          /\ timer' = [timer EXCEPT ![i] = Delay(today)]
          /\ outcome' = [outcome EXCEPT ![i] = "failed"]
          /\ late' = late \ {i}
          /\ UNCHANGED <<today, parts, dropped, lock, depth, locals>>
       \/ pc[i] \in {"list", "alter", "expire"} /\ Fail(i)
       \/ /\ pc[i] = "drop"
          /\ outcome' = [outcome EXCEPT ![i] = "done"]
          /\ Go(i, "release")
          /\ UNCHANGED <<today, parts, dropped, lock, depth, timer, locals, late>>

\* The connection that holds the lock breaks: MySQL frees the lock.
LoseConnection ==
    /\ losses < MaxLosses
    /\ lock # NULL
    /\ losses' = losses + 1
    /\ lock' = NULL
    /\ depth' = 0
    /\ UNCHANGED <<today, parts, dropped, timer, pc, locals, outcome, late>>

\* The process ends, at any point; its connections and its timer go with it.
Stop(i) ==
    /\ pc[i] # "down"
    /\ losses < MaxLosses
    /\ losses' = losses + 1
    /\ pc' = [pc EXCEPT ![i] = "down"]
    /\ timer' = [timer EXCEPT ![i] = NULL]
    /\ existing' = [existing EXCEPT ![i] = {}]
    /\ cutoff' = [cutoff EXCEPT ![i] = 0]
    /\ outcome' = [outcome EXCEPT ![i] = "none"]
    /\ late' = late \ {i}
    /\ \/ /\ \E k \in Conns : lock = <<i, k>>
          /\ lock' = NULL /\ depth' = 0
       \/ /\ \A k \in Conns : lock # <<i, k>>
          /\ UNCHANGED <<lock, depth>>
    /\ UNCHANGED <<today, parts, dropped>>

-----------------------------------------------------------------------------
Init ==
    /\ today = FirstDate
    /\ parts \in OldParts \cup {{}}
    /\ dropped = {}
    /\ lock = NULL
    /\ depth = 0
    /\ timer = [i \in Instances |-> NULL]
    /\ pc = [i \in Instances |-> "down"]
    /\ existing = [i \in Instances |-> {}]
    /\ cutoff = [i \in Instances |-> 0]
    /\ outcome = [i \in Instances |-> "none"]
    /\ late = {}
    /\ losses = 0

Step(i) == Acquire(i) \/ List(i) \/ Alter(i) \/ Expire(i) \/ Drop(i) \/ Release(i)

Next ==
    \/ Tick
    \/ LoseConnection
    \/ \E i \in Instances : Boot(i) \/ Fire(i) \/ Step(i) \/ QueryFails(i) \/ Stop(i)

Spec == Init /\ [][Next]_vars

-----------------------------------------------------------------------------
\* The type of every variable.
TypeOK ==
    /\ today \in Date
    /\ parts \subseteq Month
    /\ dropped \subseteq [part : Month, on : Date]
    /\ lock \in (Instances \X Conns) \cup {NULL}
    /\ depth \in 0 .. MaxDepth
    /\ timer \in [Instances -> [at : Date, soon : BOOLEAN] \cup {NULL}]
    /\ pc \in [Instances -> {"down", "idle", "acquire", "list", "alter", "expire",
                             "drop", "release"}]
    /\ existing \in [Instances -> SUBSET Month]
    /\ cutoff \in [Instances -> Month]
    /\ outcome \in [Instances -> {"none", "done", "skipped", "failed"}]
    /\ late \subseteq Instances
    /\ losses \in 0 .. MaxLosses

\* api-log.constants.ts:1-5: no row is dropped before it is 24 months old, in
\* a leap year's February either: the last day of a dropped partition is, with
\* the month clipped to its length, at least that far back.
RetentionKept ==
    \A d \in dropped :
        \/ d.part + 24 < d.on.month
        \/ d.part + 24 = d.on.month /\ d.on.day > DaysIn(d.part)

\* api-log.constants.ts:15: while no connection breaks, at most one process
\* lists, alters and drops.
OneMaintainer ==
    losses = 0 => \A i, j \in Instances : Working(i) /\ Working(j) => i = j

\* api-log.constants.ts:9: after a maintenance that did not fail, rows of this
\* month and the next two have partitions of their own and stay out of pmax.
\* The lead of three absorbs a REORGANIZE ignored as a duplicate of another's.
CoveredWhenDone ==
    \A i \in Instances :
        pc[i] \in {"expire", "drop"} => today.month .. today.month + 2 \subseteq parts

\* A REORGANIZE that is not ignored as a duplicate adds months above all that
\* have a partition, although it was computed from a list that may be stale:
\* MySQL never refuses the ranges (1493).
AddsAbove ==
    \A i \in Instances : pc[i] = "alter" /\ existing[i] # {} =>
        \/ ToAdd(i) \cap parts # {}
        \/ \A m \in ToAdd(i), p \in parts \ {pmax} : p < m

\* api-log.partition.service.ts:65: a run that does not get the lock ends
\* because another process is at work.
SkipMeansBusy ==
    [][\A i \in Instances :
          outcome[i] = "none" /\ outcome'[i] = "skipped"
              => \E j \in Instances \ {i} : Working(j)]_vars

\* api-log.partition.service.ts:41: the timer starts maintenance at the first
\* of a month.
OnSchedule ==
    [][\A i \in Instances :
          pc[i] = "idle" /\ pc'[i] = "acquire" => today.day = 1]_vars
=============================================================================
