------------------------------ MODULE Delivery ------------------------------
(***************************************************************************)
(* What @UseQueue promises of a call, whoever runs it: the abstract        *)
(* specification of WriteQueue, and the scheduler under UserAccounts.      *)
(*                                                                         *)
(* A call is run by its own process, or becomes a job that is delivered to *)
(* a worker.  Each delivery may open one transaction, which is committed   *)
(* or rolled back before anybody is told.  A job may be delivered again    *)
(* when its worker is believed dead, whether it is or not.                 *)
(***************************************************************************)
EXTENDS Integers, FiniteSets

CONSTANTS
    Calls,
    Workers,
    MaxRedelivered   \* bound on the redeliveries of a job

VARIABLES
    answer,       \* none; queued or direct (awaited); told: ok, refused, or
                  \*   500 of a call without a job (failed) or with one
                  \*   (unsure); gone (nobody awaits its job) or lost (it ran
                  \*   directly, committed, and its process died)
    due,          \* deliveries of a call's job that have not begun
    open,         \* <<worker, call>> with an open transaction
    applied,      \* transactions committed for each call
    redelivered

delivery == <<answer, due, open, applied, redelivered>>

OpenOf(c) == {x \in Workers : <<x, c>> \in open}

-----------------------------------------------------------------------------
Answer(c, a) == answer' = [answer EXCEPT ![c] = a]

\* queue.add, then waitUntilFinished.
Queue(c) ==
    /\ answer[c] = "none"
    /\ Answer(c, "queued")
    /\ due' = [due EXCEPT ![c] = @ + 1]
    /\ UNCHANGED <<open, applied, redelivered>>

\* The wrapper calls the method itself.
Run(x, c) ==
    /\ answer[c] = "none"
    /\ Answer(c, "direct")
    /\ open' = open \cup {<<x, c>>}
    /\ UNCHANGED <<due, applied, redelivered>>

\* The one job a worker processes at a time.
Begin(x, c) ==
    /\ due[c] > 0
    /\ \A d \in Calls : <<x, d>> \in open => answer[d] = "direct"
    /\ due' = [due EXCEPT ![c] = @ - 1]
    /\ open' = open \cup {<<x, c>>}
    /\ UNCHANGED <<answer, applied, redelivered>>

\* A delivery comes to nothing: no handler, or its worker died before it began.
Drop(c) ==
    /\ due[c] > 0
    /\ due' = [due EXCEPT ![c] = @ - 1]
    /\ UNCHANGED <<answer, open, applied, redelivered>>

\* @Transactional commits what the method did, or has rolled it back.
End(x, c, kept) ==
    /\ <<x, c>> \in open
    /\ open' = open \ {<<x, c>>}
    /\ applied' = [applied EXCEPT ![c] = IF kept THEN @ + 1 ELSE @]
    /\ UNCHANGED <<answer, due, redelivered>>

\* No execution of the call is left that could commit yet.
Spent(c) == due[c] = 0 /\ OpenOf(c) = {}

\* The caller is told the outcome of one execution: that it committed, or that
\* it refused and was rolled back.
Tell(c) ==
    /\ answer[c] \in {"queued", "direct"}
    /\ \/ applied[c] > 0 /\ Answer(c, "ok")
       \/ redelivered[c] > 0 /\ Answer(c, "refused")
       \/ applied[c] = 0 /\ Spent(c) /\ Answer(c, "refused")
    /\ UNCHANGED <<due, open, applied, redelivered>>

\* The caller is told 500, which says nothing: Redis did not store the job, or
\* failed while the job goes on; the job failed in any way; the method did.
Fail(c) ==
    /\ \/ answer[c] = "none" /\ Answer(c, "failed")
       \/ answer[c] = "queued" /\ Answer(c, "unsure")
       \/ answer[c] = "direct" /\ Spent(c) /\ Answer(c, "failed")
    /\ UNCHANGED <<due, open, applied, redelivered>>

Redeliver(c) ==
    /\ answer[c] \in {"queued", "unsure", "gone"}
    /\ redelivered[c] < MaxRedelivered
    /\ redelivered' = [redelivered EXCEPT ![c] = @ + 1]
    /\ due' = [due EXCEPT ![c] = @ + 1]
    /\ UNCHANGED <<answer, open, applied>>

\* A process dies with its transactions and with those who awaited an answer
\* in it: surely the calls it ran itself and was not done with.
Crash(x) ==
    /\ open' = {e \in open : e[1] # x}
    /\ \/ UNCHANGED due
       \/ \E c \in Calls : due[c] > 0 /\ due' = [due EXCEPT ![c] = @ - 1]
    /\ \E dead \in SUBSET {c \in Calls : answer[c] \in {"queued", "direct"}} :
          /\ \A e \in open : answer[e[2]] = "direct" => (e[1] = x <=> e[2] \in dead)
          /\ answer' = [c \in Calls |->
                IF c \notin dead THEN answer[c]
                ELSE IF answer[c] = "queued" THEN "gone"
                ELSE IF applied[c] > 0 THEN "lost" ELSE "none"]
    /\ UNCHANGED <<applied, redelivered>>

-----------------------------------------------------------------------------
Init ==
    /\ answer = [c \in Calls |-> "none"]
    /\ due = [c \in Calls |-> 0]
    /\ open = {}
    /\ applied = [c \in Calls |-> 0]
    /\ redelivered = [c \in Calls |-> 0]

Next ==
    \/ \E c \in Calls : Queue(c) \/ Drop(c) \/ Tell(c) \/ Fail(c) \/ Redeliver(c)
    \/ \E x \in Workers, c \in Calls :
          Run(x, c) \/ Begin(x, c) \/ End(x, c, TRUE) \/ End(x, c, FALSE)
    \/ \E x \in Workers : Crash(x)

Spec == Init /\ [][Next]_delivery

-----------------------------------------------------------------------------
\* The type of every variable.
TypeOK ==
    /\ answer \in [Calls -> {"none", "queued", "direct", "ok", "refused", "failed", "unsure",
                           "gone", "lost"}]
    /\ due \in [Calls -> Nat]
    /\ open \subseteq Workers \X Calls
    /\ applied \in [Calls -> Nat]
    /\ redelivered \in [Calls -> Nat]

\* A caller told that its call succeeded can rely on its write, whatever
\* process ran it, how often, and what died meanwhile.
AckedIsApplied == \A c \in Calls : answer[c] = "ok" => applied[c] > 0

\* A caller told its method's own exception may make the call again: nothing
\* was written and nothing can be any more, unless its job was delivered more
\* than once.
RefusedIsNotApplied ==
    \A c \in Calls :
        answer[c] = "refused" => (applied[c] = 0 /\ Spent(c)) \/ redelivered[c] > 0

\* A call's transaction commits at most once per delivery.
AppliedPerDelivery == \A c \in Calls : applied[c] <= 1 + redelivered[c]

\* write-queue.registry.ts:137, 142: all three.
ToldIsTrue == AckedIsApplied /\ RefusedIsNotApplied /\ AppliedPerDelivery
=============================================================================
