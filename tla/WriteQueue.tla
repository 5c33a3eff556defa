----------------------------- MODULE WriteQueue -----------------------------
(***************************************************************************)
(* The write queue of one consumer key: the @UseQueue wrapper around       *)
(* service methods, WriteQueueRegistry.dispatch, the worker of each server *)
(* process, and BullMQ's lists in Redis as far as the code relies on them. *)
(* Every process has its own worker and its own map of handlers, which is  *)
(* filled by the first dispatch of each job key in that process.           *)
(*                                                                         *)
(* A method body commits its one transaction, or refuses and rolls it      *)
(* back, or fails (500), after which it may have committed or not; it may  *)
(* call another queued method first.  Redis may fail a process that found  *)
(* it at start-up at any time: who awaits a job is then told 500, whatever *)
(* becomes of the job.                                                     *)
(***************************************************************************)
EXTENDS Integers, Sequences, FiniteSets

CONSTANTS
    Instances,    \* server processes
    Calls,        \* calls of methods under @UseQueue, each made once
    JobKeys,
    JobKey,       \* the job key of each call's method
    Inner,        \* the queued call a call's method makes itself, or NULL
    NULL,
    MaxCrashes    \* bound on process deaths

Roots == {c \in Calls : \A d \in Calls : Inner[d] # c}

ASSUME NullAssumption == NULL \notin Instances \cup Calls
ASSUME CallAssumption ==
    /\ JobKey \in [Calls -> JobKeys]
    /\ Inner \in [Calls -> Calls \cup {NULL}]
    /\ \A c \in Calls : Inner[c] # NULL => c \in Roots
ASSUME CrashAssumption == MaxCrashes \in Nat

VARIABLES
    boot,       \* down, starting (worker runs, not yet serving), queued
                \*   (serving) or direct (serving, no Redis at start-up)
    handlers,   \* job keys in each process's handlers map
    caller,     \* where each call is: idle, called, adding, queued, direct (then
                \*   wrote, threw or broke), inline, or how it ended: ok, refused
                \*   (the method's own exception), failed (500) or gone (its
                \*   process died)
    host,       \* the process a call was made in
    wait,       \* BullMQ's wait list, the next job first
    job,        \* state of each call's job; BullMQ's failed is refused if it
                \*   holds the method's own exception, failed otherwise
    lock,       \* the process whose worker holds the job's lock
    stalls,     \* how often a job was found stalled
    run,        \* what each process's worker does with each job
    applied,    \* transactions committed for each call
    added,      \* (history) jobs in the order they were added
    committed,  \* (history) calls in the order their jobs committed
    crashes

callers == <<caller, host>>
redis == <<wait, job, lock, stalls>>
history == <<added, committed>>
vars == <<boot, handlers, callers, redis, run, applied, history, crashes>>

MaxStalled == 1      \* BullMQ's maxStalledCount
ConcurrencyTwo == 2  \* slip: concurrency raised
Concurrency == 1

Serving(i) == boot[i] \in {"queued", "direct"}
Running(i) == {c \in Calls : run[i][c] # "none"}

Pending == {"called", "adding", "queued"}
Waits == Pending \cup {"direct", "wrote", "threw", "broke", "inline"}
Told == {"ok", "refused", "failed"}

-----------------------------------------------------------------------------
\* QueueModule.register probes Redis for a second; without it no registry is
\* provided.  With it, onModuleInit constructs the worker, which takes jobs
\* from then on, and awaits the events' connection.
Start(i) ==
    /\ boot[i] = "down"
    /\ \E mode \in {"starting", "direct"} : boot' = [boot EXCEPT ![i] = mode]
    /\ UNCHANGED <<handlers, callers, redis, run, applied, history, crashes>>

\* queueEvents are ready, the consumer is registered and the server listens.
Ready(i) ==
    /\ boot[i] = "starting"
    /\ boot' = [boot EXCEPT ![i] = "queued"]
    /\ UNCHANGED <<handlers, callers, redis, run, applied, history, crashes>>

\* The wrapper's two reasons to run the method where it is called.
DirectUnlessQueued(i, inContext) == boot[i] = "direct"   \* slip: no context check
Direct(i, inContext) == inContext \/ boot[i] = "direct"

\* A request reaches a method under @UseQueue.
Call(c, i) ==
    /\ c \in Roots
    /\ caller[c] = "idle"
    /\ Serving(i)
    /\ host' = [host EXCEPT ![c] = i]
    /\ caller' = [caller EXCEPT ![c] = IF Direct(i, FALSE) THEN "direct" ELSE "called"]
    /\ UNCHANGED <<boot, handlers, redis, run, applied, history, crashes>>

\* dispatch awaits getOrCreate, which sets the handler.
Register(c) ==
    /\ caller[c] = "called"
    /\ caller' = [caller EXCEPT ![c] = "adding"]
    /\ handlers' = [handlers EXCEPT ![host[c]] = @ \cup {JobKey[c]}]
    /\ UNCHANGED <<boot, host, redis, run, applied, history, crashes>>

EnqueueEarly(c) ==   \* slip: the job is added before the handler is set
    /\ caller[c] \in {"called", "adding"}
    /\ caller' = [caller EXCEPT ![c] = "queued"]
    /\ wait' = Append(wait, c)
    /\ job' = [job EXCEPT ![c] = "waiting"]
    /\ added' = Append(added, c)
    /\ UNCHANGED <<boot, handlers, host, lock, stalls, run, applied, committed, crashes>>

\* queue.add, then waitUntilFinished.
Enqueue(c) ==
    /\ caller[c] = "adding"
    /\ caller' = [caller EXCEPT ![c] = "queued"]
    /\ wait' = Append(wait, c)
    /\ job' = [job EXCEPT ![c] = "waiting"]
    /\ added' = Append(added, c)
    /\ UNCHANGED <<boot, handlers, host, lock, stalls, run, applied, committed, crashes>>

\* The method runs in the request itself, in its own transaction.
FinishDirect(c) ==
    /\ caller[c] = "direct"
    /\ \/ /\ applied' = [applied EXCEPT ![c] = @ + 1]
          /\ \E end \in {"wrote", "broke"} : caller' = [caller EXCEPT ![c] = end]
       \/ /\ \E end \in {"threw", "broke"} : caller' = [caller EXCEPT ![c] = end]
          /\ UNCHANGED applied
    /\ UNCHANGED <<boot, handlers, host, redis, run, history, crashes>>

ReturnDirect(c) ==
    /\ caller[c] \in {"wrote", "threw", "broke"}
    /\ caller' = [caller EXCEPT ![c] = CASE @ = "wrote" -> "ok"
                                        [] @ = "threw" -> "refused"
                                        [] @ = "broke" -> "failed"]
    /\ UNCHANGED <<boot, handlers, host, redis, run, applied, history, crashes>>

SettleRefused(c) ==   \* slip: every failure is told as the method's exception
    /\ caller[c] = "queued"
    /\ job[c] \in {"completed", "refused", "failed"}
    /\ caller' = [caller EXCEPT ![c] = IF job[c] = "completed" THEN "ok" ELSE "refused"]
    /\ UNCHANGED <<boot, handlers, host, redis, run, applied, history, crashes>>

\* waitUntilFinished returns, or throws what the job failed with: dispatch
\* rebuilds the method's exception, and makes a 500 of any other error.
Settle(c) ==
    /\ caller[c] = "queued"
    /\ job[c] \in {"completed", "refused", "failed"}
    /\ caller' = [caller EXCEPT ![c] = IF job[c] = "completed" THEN "ok" ELSE job[c]]
    /\ UNCHANGED <<boot, handlers, host, redis, run, applied, history, crashes>>

\* Redis fails queue.add, before or after it has stored the job, or the wait
\* for the job: dispatch makes a 500 of that too, and the job goes its way.
RedisFails(c) ==
    /\ caller[c] \in {"adding", "queued"}
    /\ caller' = [caller EXCEPT ![c] = "failed"]
    /\ UNCHANGED <<boot, handlers, host, redis, run, applied, history, crashes>>

-----------------------------------------------------------------------------
SetRun(i, c, step) == run' = [run EXCEPT ![i][c] = step]

\* A worker with capacity takes the next job and its lock.
Take(i) ==
    /\ boot[i] \in {"starting", "queued"}
    /\ Cardinality(Running(i)) < Concurrency
    /\ wait # <<>>
    /\ LET c == Head(wait)
       IN  /\ job' = [job EXCEPT ![c] = "active"]
           /\ lock' = [lock EXCEPT ![c] = i]
           /\ SetRun(i, c, "taken")
    /\ wait' = Tail(wait)
    /\ UNCHANGED <<boot, handlers, callers, stalls, applied, history, crashes>>

BeginUnawaited(i, c) ==   \* slip: the processor does not await the method
    /\ run[i][c] = "taken"
    /\ JobKey[c] \in handlers[i]
    /\ SetRun(i, c, "done")
    /\ UNCHANGED <<boot, handlers, callers, redis, applied, history, crashes>>

\* The processor runs the method in the processing context.  A queued method
\* the method calls runs inline, in the same transaction.
Begin(i, c) ==
    /\ run[i][c] = "taken"
    /\ JobKey[c] \in handlers[i]
    /\ LET d == Inner[c]
       IN  \/ /\ d = NULL
              /\ SetRun(i, c, "open")
              /\ UNCHANGED callers
           \/ /\ d # NULL
              /\ SetRun(i, c, "inner")
              /\ host' = [host EXCEPT ![d] = i]
              /\ caller' = [caller EXCEPT ![d] = IF Direct(i, TRUE) THEN "inline" ELSE "called"]
    /\ UNCHANGED <<boot, handlers, redis, applied, history, crashes>>

InnerReturns(i, c) ==
    /\ run[i][c] = "inner"
    /\ caller[Inner[c]] \notin Pending
    /\ SetRun(i, c, "open")
    /\ UNCHANGED <<boot, handlers, callers, redis, applied, history, crashes>>

\* No handler in this process's map: the processor throws, and not what dispatch
\* could rebuild.
NoHandler(i, c) ==
    /\ run[i][c] = "taken"
    /\ JobKey[c] \notin handlers[i]
    /\ SetRun(i, c, "broken")
    /\ UNCHANGED <<boot, handlers, callers, redis, applied, history, crashes>>

\* The method's transaction commits, with the inner call's writes in it; the
\* database may fail to say so.
Commit(i, c) ==
    /\ run[i][c] = "open"
    /\ \E end \in {"done", "broken"} : SetRun(i, c, end)
    /\ applied' = [d \in Calls |-> IF d \in {c, Inner[c]} THEN applied[d] + 1 ELSE applied[d]]
    /\ committed' = Append(committed, c)
    /\ UNCHANGED <<boot, handlers, callers, redis, added, crashes>>

\* The method refuses or fails; @Transactional has rolled back, the exception
\* is encoded.
Throw(i, c) ==
    /\ run[i][c] = "open"
    /\ \E end \in {"thrown", "broken"} : SetRun(i, c, end)
    /\ UNCHANGED <<boot, handlers, callers, redis, applied, history, crashes>>

\* moveToFinished: Redis refuses a worker that no longer holds the lock.
Finish(i, c) ==
    /\ run[i][c] \in {"done", "thrown", "broken"}
    /\ \/ /\ lock[c] = i
          /\ job' = [job EXCEPT ![c] = CASE run[i][c] = "done" -> "completed"
                                        [] run[i][c] = "thrown" -> "refused"
                                        [] run[i][c] = "broken" -> "failed"]
          /\ lock' = [lock EXCEPT ![c] = NULL]
       \/ lock[c] # i /\ UNCHANGED <<job, lock>>
    /\ SetRun(i, c, "none")
    /\ UNCHANGED <<boot, handlers, callers, wait, stalls, applied, history, crashes>>

\* The worker fails to renew the lock in time (a blocked event loop, a broken
\* connection) while the method goes on.
LockLost(i, c) ==
    /\ lock[c] = i
    /\ lock' = [lock EXCEPT ![c] = NULL]
    /\ UNCHANGED <<boot, handlers, callers, wait, job, stalls, run, applied, history, crashes>>

StalledForEver(c) ==   \* slip: redelivered however often it stalls
    /\ job[c] = "active"
    /\ lock[c] = NULL
    /\ wait' = <<c>> \o wait
    /\ job' = [job EXCEPT ![c] = "waiting"]
    /\ stalls' = [stalls EXCEPT ![c] = @ + 1]
    /\ UNCHANGED <<boot, handlers, callers, lock, run, applied, history, crashes>>

\* Some worker's stalled check finds an active job without a lock: once it is
\* put in front of the queue, the next time it has failed.
Stalled(c) ==
    /\ job[c] = "active"
    /\ lock[c] = NULL
    /\ \E i \in Instances : boot[i] \in {"starting", "queued"}
    /\ \/ /\ stalls[c] < MaxStalled
          /\ wait' = <<c>> \o wait
          /\ job' = [job EXCEPT ![c] = "waiting"]
       \/ /\ stalls[c] >= MaxStalled
          /\ job' = [job EXCEPT ![c] = "failed"]
          /\ UNCHANGED wait
    /\ stalls' = [stalls EXCEPT ![c] = @ + 1]
    /\ UNCHANGED <<boot, handlers, callers, lock, run, applied, history, crashes>>

\* A process dies, or is told to stop: no shutdown hook is enabled, so a signal
\* does not reach onModuleDestroy.  Open transactions roll back, callers get
\* no answer, the worker's locks run out.
Crash(i) ==
    /\ boot[i] # "down"
    /\ crashes < MaxCrashes
    /\ crashes' = crashes + 1
    /\ boot' = [boot EXCEPT ![i] = "down"]
    /\ handlers' = [handlers EXCEPT ![i] = {}]
    /\ caller' = [c \in Calls |->
                    IF host[c] = i /\ caller[c] \in Waits THEN "gone" ELSE caller[c]]
    /\ run' = [run EXCEPT ![i] = [c \in Calls |-> "none"]]
    /\ lock' = [c \in Calls |-> IF lock[c] = i THEN NULL ELSE lock[c]]
    /\ UNCHANGED <<host, wait, job, stalls, applied, history>>

-----------------------------------------------------------------------------
Init ==
    /\ boot = [i \in Instances |-> "down"]
    /\ handlers = [i \in Instances |-> {}]
    /\ caller = [c \in Calls |-> "idle"]
    /\ host = [c \in Calls |-> NULL]
    /\ wait = <<>>
    /\ job = [c \in Calls |-> "none"]
    /\ lock = [c \in Calls |-> NULL]
    /\ stalls = [c \in Calls |-> 0]
    /\ run = [i \in Instances |-> [c \in Calls |-> "none"]]
    /\ applied = [c \in Calls |-> 0]
    /\ added = <<>>
    /\ committed = <<>>
    /\ crashes = 0

Process(i, c) ==
    \/ Begin(i, c)
    \/ InnerReturns(i, c)
    \/ NoHandler(i, c)
    \/ Commit(i, c)
    \/ Throw(i, c)
    \/ Finish(i, c)

Next ==
    \/ \E i \in Instances : Start(i) \/ Ready(i) \/ Take(i) \/ Crash(i)
    \/ \E i \in Instances, c \in Calls : Call(c, i) \/ Process(i, c) \/ LockLost(i, c)
    \/ \E c \in Calls : Register(c) \/ Enqueue(c) \/ Settle(c) \/ RedisFails(c) \/ Stalled(c)
    \/ \E c \in Calls : FinishDirect(c) \/ ReturnDirect(c)

Spec == Init /\ [][Next]_vars

\* Event loops run, Redis and the database answer, workers look for stalled
\* jobs every half minute.  Crashes, lost locks, restarts and failures of Redis
\* are not fair.
Fairness ==
    /\ \A i \in Instances : WF_vars(Ready(i)) /\ WF_vars(Take(i))
    /\ \A i \in Instances, c \in Calls : WF_vars(Process(i, c))
    /\ \A c \in Calls :
       /\ WF_vars(Register(c)) /\ WF_vars(Enqueue(c))
       /\ WF_vars(FinishDirect(c)) /\ WF_vars(ReturnDirect(c))
       /\ WF_vars(Settle(c)) /\ WF_vars(Stalled(c))

FairSpec == Spec /\ Fairness

-----------------------------------------------------------------------------
\* What Delivery sees of the queue: the calls made from outside, the deliveries
\* in the wait list or taken, and the open transactions.
Awaits(c) ==
    CASE caller[c] \in {"idle", "called", "adding"} -> "none"
      [] caller[c] \in {"direct", "wrote", "threw", "broke"} -> "direct"
      [] caller[c] \in {"queued", "ok", "refused"} -> caller[c]
      [] caller[c] = "failed" -> IF job[c] # "none" THEN "unsure" ELSE "failed"
      [] OTHER -> IF job[c] # "none" THEN "gone"
                  ELSE IF applied[c] > 0 THEN "lost" ELSE "none"

Due(c) == Cardinality({n \in 1 .. Len(wait) : wait[n] = c})
          + Cardinality({i \in Instances : run[i][c] = "taken"})

OpenIn(i, c) ==
    \/ run[i][c] \in {"inner", "open"}
    \/ caller[c] = "direct" /\ host[c] = i

Open == {e \in Instances \X Roots : OpenIn(e[1], e[2])}

Redelivered(c) == IF stalls[c] < MaxStalled THEN stalls[c] ELSE MaxStalled

Abstract == INSTANCE Delivery WITH
    Calls <- Roots,
    Workers <- Instances,
    MaxRedelivered <- MaxStalled,
    answer <- [c \in Roots |-> Awaits(c)],
    due <- [c \in Roots |-> Due(c)],
    open <- Open,
    applied <- [c \in Roots |-> applied[c]],
    redelivered <- [c \in Roots |-> Redelivered(c)]

\* use-queue.decorator.ts:46-56: run directly or queued, in one process or many,
\* a call is delivered, committed and answered as Delivery says.
ImplementsDelivery == Abstract!Spec

\* The type of every variable.
TypeOK ==
    /\ boot \in [Instances -> {"down", "starting", "queued", "direct"}]
    /\ handlers \in [Instances -> SUBSET JobKeys]
    /\ caller \in [Calls -> Waits \cup Told \cup {"idle", "gone"}]
    /\ host \in [Calls -> Instances \cup {NULL}]
    /\ wait \in Seq(Calls)
    /\ job \in [Calls -> {"none", "waiting", "active", "completed", "refused", "failed"}]
    /\ lock \in [Calls -> Instances \cup {NULL}]
    /\ stalls \in [Calls -> 0 .. MaxStalled + 1]
    /\ run \in [Instances ->
                  [Calls -> {"none", "taken", "inner", "open", "done", "thrown", "broken"}]]
    /\ applied \in [Calls -> Nat]
    /\ added \in Seq(Calls)
    /\ committed \in Seq(Calls)
    /\ crashes \in 0 .. MaxCrashes

\* A caller told that its call succeeded can rely on its write, whatever
\* process ran the job, how often, and what died meanwhile.
AckedIsApplied == \A c \in Calls : caller[c] = "ok" => applied[c] > 0

\* A caller told its method's own exception may make the call again: nothing
\* was written, unless its job was delivered more than once (a redelivered job
\* can refuse after the first delivery committed).  A 500 says nothing.
RefusedIsNotApplied ==
    \A c \in Calls : caller[c] = "refused" => applied[c] = 0 \/ stalls[c] > 0

\* A call's transaction commits at most once per delivery of its job: only a
\* redelivery can repeat a write, never the wrapper, dispatch or two workers.
AppliedPerDelivery == \A c \in Roots : applied[c] <= 1 + stalls[c]

\* write-queue.registry.ts:137, 142: all three, whatever runs a call, dies, or
\* is delivered again, and although Redis may leave any caller with a 500 whose
\* job is still to be run.
ToldIsTrue == AckedIsApplied /\ RefusedIsNotApplied /\ AppliedPerDelivery

\* write-queue.registry.ts:110: a worker whose process awaits a job of some key
\* finds the handler for every job of that key, whichever process made it and
\* however old it is.
DispatcherHasHandler ==
    \A i \in Instances, c \in Calls, d \in Roots :
        /\ run[i][c] = "taken"
        /\ caller[d] = "queued" /\ host[d] = i /\ JobKey[d] = JobKey[c]
        => JobKey[c] \in handlers[i]

Before(s, c, d) == \E m, n \in 1 .. Len(s) : m < n /\ s[m] = c /\ s[n] = d

\* write-queue.registry.ts:63 and :86, on one process: jobs commit in the order
\* they were added, unless a crash or a lost lock made one be redelivered.
CommitsInOrder ==
    \A c, d \in Calls :
        Before(committed, c, d) /\ Before(added, d, c) => stalls[c] > 0 \/ stalls[d] > 0

\* use-queue.decorator.ts:30, `one worker processes a key serially': no two
\* jobs of the key run at a time.
OneAtATime == Cardinality({e \in Instances \X Calls : run[e[1]][e[2]] = "open"}) <= 1

\* use-queue.decorator.ts:31: the worker that takes a job finds its handler.
HandlerFound ==
    \A i \in Instances, c \in Calls : run[i][c] = "taken" => JobKey[c] \in handlers[i]

\* Every call gets an answer while its process lives, although the process may
\* wait for its own worker, and the worker for a call it makes itself.
Returned == \A c \in Calls : caller[c] \in Waits \ {"inline"} ~> caller[c] \notin Waits \ {"inline"}
=============================================================================
