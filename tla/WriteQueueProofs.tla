-------------------------- MODULE WriteQueueProofs --------------------------
(***************************************************************************)
(* WriteQueue implements Delivery, and so tells its callers the truth, for *)
(* any number of processes, calls, job keys and crashes; what one process  *)
(* may rely on besides; and that no call waits for nothing.                *)
(***************************************************************************)
EXTENDS WriteQueue, SequenceTheorems, FiniteSetTheorems, TLAPS

Q == INSTANCE DeliveryProofs WITH
    Calls <- Roots,
    Workers <- Instances,
    MaxRedelivered <- MaxStalled,
    answer <- [c \in Roots |-> Awaits(c)],
    due <- [c \in Roots |-> Due(c)],
    open <- Open,
    applied <- [c \in Roots |-> applied[c]],
    redelivered <- [c \in Roots |-> Redelivered(c)]

-----------------------------------------------------------------------------
Elements(s) == {s[n] : n \in 1 .. Len(s)}
Distinct(s) == \A m, n \in 1 .. Len(s) : s[m] = s[n] => m = n

\* Where a call is agrees with whether it has a job.
Placed(c) ==
    /\ job[c] # "none" => c \in Roots /\ caller[c] \in {"queued", "ok", "refused", "failed", "gone"}
    /\ job[c] = "none" => /\ stalls[c] = 0 /\ lock[c] = NULL /\ caller[c] # "queued"
                          /\ \A i \in Instances : run[i][c] = "none"
    /\ job[c] \in {"waiting", "active"} => caller[c] \in {"queued", "failed", "gone"}
    /\ caller[c] \in Waits => host[c] \in Instances
    /\ c \notin Roots => caller[c] \in {"idle", "inline", "gone"}
    /\ c \in Roots => caller[c] # "inline"

\* A job waits where the list says; a locked one is active and run by the one
\* that locked it; one found stalled too often has failed.
Listed(c) ==
    /\ job[c] = "waiting" <=> c \in Elements(wait)
    /\ \A i \in Instances : lock[c] = i => job[c] = "active" /\ run[i][c] # "none"
    /\ stalls[c] > MaxStalled => job[c] = "failed"

\* What is said of a call to have been written, has been.
Written(c) ==
    /\ caller[c] = "wrote" \/ job[c] = "completed" => applied[c] > 0
    /\ \A i \in Instances : run[i][c] = "done" => applied[c] > 0

\* A call nobody has begun, or that threw, has written nothing.
Unwritten(c) ==
    c \in Roots /\ job[c] = "none" /\ caller[c] \in {"idle", "called", "adding", "direct", "threw"}
        => applied[c] = 0

\* The first delivery of a job is run by one worker, and writes only when done.
FirstDelivery(c) ==
    stalls[c] = 0 =>
        /\ \A i, j \in Instances : run[i][c] # "none" /\ run[j][c] # "none" => i = j
        /\ \A i \in Instances : run[i][c] \in {"taken", "inner", "open", "thrown"} => applied[c] = 0
        /\ job[c] \in {"waiting", "refused"} =>
               applied[c] = 0 /\ \A i \in Instances : run[i][c] = "none"

HasHandler(c) ==
    c \in Roots /\ caller[c] \in {"adding", "queued"} => JobKey[c] \in handlers[host[c]]

CallOK(c) ==
    Placed(c) /\ Listed(c) /\ Written(c) /\ Unwritten(c) /\ FirstDelivery(c) /\ HasHandler(c)

\* Concurrency is 1.
OneJob == \A i \in Instances, c, d \in Calls : run[i][c] # "none" /\ run[i][d] # "none" => c = d

Rest == Distinct(wait) /\ OneJob /\ \A c \in Calls : CallOK(c)

QInv == TypeOK /\ Rest

-----------------------------------------------------------------------------
LEMMA AtTheEnd ==
    ASSUME NEW S, NEW s \in Seq(S), NEW x \in S, x \notin Elements(s), Distinct(s)
    PROVE  Elements(Append(s, x)) = Elements(s) \cup {x} /\ Distinct(Append(s, x))
BY DEF Elements, Distinct

LEMMA WithoutHead ==
    ASSUME NEW S, NEW s \in Seq(S), s # <<>>, Distinct(s)
    PROVE  /\ Head(s) \in Elements(s)
           /\ Elements(Tail(s)) = Elements(s) \ {Head(s)}
           /\ Distinct(Tail(s))
<1>1. /\ Tail(s) \in Seq(S) /\ Len(s) \in Nat \ {0} /\ Len(Tail(s)) = Len(s) - 1
      /\ Head(s) = s[1]
      /\ \A n \in 1 .. Len(s) - 1 : Tail(s)[n] = s[n + 1]
  OBVIOUS
<1>2. Elements(Tail(s)) = {s[n + 1] : n \in 1 .. Len(s) - 1}
  BY <1>1 DEF Elements
<1>3. \A n \in 2 .. Len(s) : n - 1 \in 1 .. Len(s) - 1 /\ s[n] = s[(n - 1) + 1]
  BY <1>1
<1>4. \A n \in 1 .. Len(s) - 1 : n + 1 \in 1 .. Len(s) /\ n + 1 # 1
  BY <1>1
<1>5. Elements(Tail(s)) \subseteq Elements(s) \ {Head(s)}
  BY <1>1, <1>2, <1>4 DEF Elements, Distinct
<1>6. Elements(s) \ {Head(s)} \subseteq Elements(Tail(s))
  BY <1>1, <1>2, <1>3 DEF Elements
<1> QED
  BY <1>1, <1>4, <1>5, <1>6 DEF Elements, Distinct

LEMMA InFront ==
    ASSUME NEW S, NEW s \in Seq(S), NEW x \in S, x \notin Elements(s), Distinct(s)
    PROVE  /\ <<x>> \o s \in Seq(S)
           /\ Elements(<<x>> \o s) = Elements(s) \cup {x}
           /\ Distinct(<<x>> \o s)
<1> DEFINE t == <<x>> \o s
<1>1. <<x>> \in Seq(S) /\ Len(<<x>>) = 1 /\ <<x>>[1] = x
  OBVIOUS
<1>2. /\ t \in Seq(S) /\ Len(t) = Len(s) + 1 /\ Len(s) \in Nat
      /\ \A n \in 1 .. Len(s) + 1 : t[n] = IF n <= 1 THEN x ELSE s[n - 1]
  BY <1>1, ConcatProperties
<1> HIDE DEF t
<1>3. \A n \in 1 .. Len(s) : n + 1 \in 1 .. Len(t) /\ t[n + 1] = s[n]
  BY <1>2
<1>4. t[1] = x /\ 1 \in 1 .. Len(t)
  BY <1>2
<1>5. \A n \in 1 .. Len(t) : n # 1 => n - 1 \in 1 .. Len(s) /\ t[n] = s[n - 1]
  BY <1>2
<1>6. Elements(t) \subseteq Elements(s) \cup {x}
  BY <1>4, <1>5 DEF Elements
<1>7. Elements(s) \cup {x} \subseteq Elements(t)
  BY <1>3, <1>4 DEF Elements
<1>8. Distinct(t)
  <2> SUFFICES ASSUME NEW m \in 1 .. Len(t), NEW n \in 1 .. Len(t), t[m] = t[n] PROVE m = n
    BY DEF Distinct
  <2>1. CASE m = 1 /\ n # 1
    BY <2>1, <1>4, <1>5 DEF Elements
  <2>2. CASE m # 1 /\ n = 1
    BY <2>2, <1>4, <1>5 DEF Elements
  <2>3. CASE m # 1 /\ n # 1
    <3>1. m - 1 = n - 1
      BY <2>3, <1>5 DEF Distinct
    <3> QED
      BY <3>1
  <2> QED
    BY <2>1, <2>2, <2>3
<1>9. t \in Seq(S) /\ Elements(t) = Elements(s) \cup {x} /\ Distinct(t)
  BY <1>2, <1>6, <1>7, <1>8
<1> QED
  BY <1>9 DEF t

-----------------------------------------------------------------------------
\* What a step leaves of a call that is not its own.
Kept(d) ==
    /\ caller'[d] = caller[d] /\ host'[d] = host[d] /\ job'[d] = job[d] /\ lock'[d] = lock[d]
    /\ stalls'[d] = stalls[d] /\ applied'[d] = applied[d]
    /\ \A i \in Instances : run'[i][d] = run[i][d] /\ handlers[i] \subseteq handlers'[i]
    /\ d \in Elements(wait') <=> d \in Elements(wait)

LEMMA KeptOK == ASSUME NEW d \in Calls, CallOK(d), Kept(d) PROVE CallOK(d)'
<1> USE DEF CallOK, Kept
<1>1. Placed(d)'
  BY DEF Placed
<1>2. Listed(d)'
  BY DEF Listed
<1>3. Written(d)' /\ Unwritten(d)'
  BY DEF Written, Unwritten
<1>4. FirstDelivery(d)'
  BY DEF FirstDelivery
<1>5. HasHandler(d)'
  BY DEF HasHandler, Placed, Waits, Pending, Told
<1> QED
  BY <1>1, <1>2, <1>3, <1>4, <1>5

\* A queued call is one made from outside, and no inner call dispatches.
LEMMA InnerNotRoot == \A c \in Calls : Inner[c] # NULL => Inner[c] \in Calls \ Roots
BY CallAssumption DEF Roots

LEMMA InitQInv == Init => QInv
BY NullAssumption, CallAssumption, CrashAssumption
   DEF Init, QInv, Rest, TypeOK, Distinct, OneJob, CallOK, Placed, Listed, Written, Unwritten,
       FirstDelivery, HasHandler, Elements, Waits, Pending, Told, MaxStalled

\* A worker with capacity runs nothing.
LEMMA IdleWorker ==
    ASSUME IsFiniteSet(Calls), NEW i \in Instances, Cardinality(Running(i)) < Concurrency
    PROVE  \A c \in Calls : run[i][c] = "none"
<1>1. Running(i) \subseteq Calls /\ IsFiniteSet(Running(i)) /\ Cardinality(Running(i)) \in Nat
  BY FS_Subset, FS_CardinalityType DEF Running
<1>2. Running(i) = {}
  BY <1>1, FS_EmptySet DEF Concurrency
<1> QED
  BY <1>2 DEF Running

-----------------------------------------------------------------------------
Steps == {"none", "taken", "inner", "open", "done", "thrown", "broken"}

\* A worker's step with one job is one place of one function.
LEMMA RunSet ==
    ASSUME TypeOK, NEW i \in Instances, NEW c \in Calls, NEW step \in Steps, SetRun(i, c, step)
    PROVE  /\ run' \in [Instances -> [Calls -> Steps]]
           /\ run'[i][c] = step
           /\ \A d \in Calls : d # c => run'[i][d] = run[i][d]
           /\ \A j \in Instances : j # i => run'[j] = run[j]
<1>1. run' = [run EXCEPT ![i] = [run[i] EXCEPT ![c] = step]]
  BY DEF SetRun
<1>2. run \in [Instances -> [Calls -> Steps]]
  BY DEF TypeOK, Steps
<1>3. [run[i] EXCEPT ![c] = step] \in [Calls -> Steps]
  BY <1>2
<1>4. run'[i] = [run[i] EXCEPT ![c] = step] /\ run' \in [Instances -> [Calls -> Steps]]
  BY <1>1, <1>2, <1>3
<1> QED
  BY <1>1, <1>2, <1>4

\* The wrapper's choice, with its conditions spelled out.
CallStep(c, i) ==
    /\ c \in Roots /\ caller[c] = "idle" /\ Serving(i)
    /\ host' = [host EXCEPT ![c] = i]
    /\ \/ boot[i] = "direct" /\ caller' = [caller EXCEPT ![c] = "direct"]
       \/ caller' = [caller EXCEPT ![c] = "called"]
    /\ UNCHANGED <<boot, handlers, redis, run, applied, history, crashes>>

\* A queued method called by a job's method always runs inline.
BeginStep(i, c) ==
    /\ run[i][c] = "taken" /\ JobKey[c] \in handlers[i]
    /\ \/ SetRun(i, c, "open") /\ Inner[c] = NULL /\ caller' = caller /\ host' = host
       \/ /\ SetRun(i, c, "inner") /\ Inner[c] # NULL
          /\ host' = [host EXCEPT ![Inner[c]] = i]
          /\ caller' = [caller EXCEPT ![Inner[c]] = "inline"]
    /\ UNCHANGED <<boot, handlers, redis, applied, history, crashes>>

LEMMA CallCases == \A i \in Instances, c \in Calls : Call(c, i) => CallStep(c, i)
BY Zenon DEF Call, Direct, CallStep

LEMMA BeginCases == \A i \in Instances, c \in Calls : Begin(i, c) => BeginStep(i, c)
BY Zenon DEF Begin, Direct, callers, BeginStep

\* The types a step disturbs, one by one.
LEMMA TypeStep == ASSUME QInv, Next PROVE TypeOK'
<1> USE DEF callers, redis, history
<1>0. TypeOK
  BY DEF QInv
<1>1. ASSUME NEW i \in Instances, Start(i) \/ Ready(i) PROVE TypeOK'
  BY <1>0, <1>1 DEF Start, Ready, TypeOK
<1>2. ASSUME NEW i \in Instances, Take(i) PROVE TypeOK'
  <2>1. Head(wait) \in Calls /\ Tail(wait) \in Seq(Calls)
    BY <1>0, <1>2 DEF Take, TypeOK
  <2>2. run' \in [Instances -> [Calls -> Steps]]
    BY <1>0, <1>2, <2>1, RunSet DEF Take, Steps
  <2> QED
    BY <1>0, <1>2, <2>1, <2>2 DEF Take, TypeOK, Steps
<1>3. ASSUME NEW i \in Instances, Crash(i) PROVE TypeOK'
  <2>1. caller' \in [Calls -> Waits \cup Told \cup {"idle", "gone"}]
    BY <1>0, <1>3 DEF Crash, TypeOK
  <2>2. run' \in [Instances -> [Calls -> Steps]]
    BY <1>0, <1>3 DEF Crash, TypeOK, Steps
  <2> QED
    BY <1>0, <1>3, <2>1, <2>2, CrashAssumption DEF Crash, TypeOK, Steps
<1>4. ASSUME NEW i \in Instances, NEW c \in Calls, Call(c, i) PROVE TypeOK'
  <2>0. CallStep(c, i)
    BY <1>4, CallCases
  <2>1. caller' \in [Calls -> Waits \cup Told \cup {"idle", "gone"}]
    BY <1>0, <2>0 DEF TypeOK, Waits, Pending, Told, CallStep
  <2>2. host' \in [Calls -> Instances \cup {NULL}]
    BY <1>0, <2>0 DEF TypeOK, CallStep
  <2> QED
    BY <1>0, <2>0, <2>1, <2>2 DEF CallStep, TypeOK
<1>5. ASSUME NEW i \in Instances, NEW c \in Calls, Begin(i, c) PROVE TypeOK'
  <2>0. BeginStep(i, c) /\ (Inner[c] # NULL => Inner[c] \in Calls)
    BY <1>5, BeginCases, InnerNotRoot
  <2>1. run' \in [Instances -> [Calls -> Steps]]
    BY <1>0, <2>0, RunSet DEF Steps, BeginStep
  <2>2. caller' \in [Calls -> Waits \cup Told \cup {"idle", "gone"}]
    BY <1>0, <2>0 DEF TypeOK, Waits, Pending, Told, BeginStep
  <2>3. host' \in [Calls -> Instances \cup {NULL}]
    BY <1>0, <2>0 DEF TypeOK, BeginStep
  <2> QED
    BY <1>0, <2>0, <2>1, <2>2, <2>3 DEF BeginStep, TypeOK, Steps
<1>6. ASSUME NEW i \in Instances, NEW c \in Calls,
             InnerReturns(i, c) \/ NoHandler(i, c) \/ Throw(i, c)
      PROVE TypeOK'
  <2>1. run' \in [Instances -> [Calls -> Steps]]
    <3>1. PICK step \in {"open", "thrown", "broken"} : SetRun(i, c, step)
      BY <1>6 DEF InnerReturns, NoHandler, Throw
    <3> QED
      BY <1>0, <3>1, RunSet DEF Steps
  <2> QED
    BY <1>0, <1>6, <2>1 DEF InnerReturns, NoHandler, Throw, TypeOK, Steps
<1>7. ASSUME NEW i \in Instances, NEW c \in Calls, Commit(i, c) PROVE TypeOK'
  <2>1. run' \in [Instances -> [Calls -> Steps]]
    <3>1. PICK step \in {"done", "broken"} : SetRun(i, c, step)
      BY <1>7 DEF Commit
    <3> QED
      BY <1>0, <3>1, RunSet DEF Steps
  <2>2. committed' \in Seq(Calls) /\ applied' \in [Calls -> Nat]
    BY <1>0, <1>7 DEF Commit, TypeOK
  <2> QED
    BY <1>0, <1>7, <2>1, <2>2 DEF Commit, TypeOK, Steps
<1>8. ASSUME NEW i \in Instances, NEW c \in Calls, Finish(i, c) PROVE TypeOK'
  <2>1. run' \in [Instances -> [Calls -> Steps]]
    BY <1>0, <1>8, RunSet DEF Finish, Steps
  <2> QED
    BY <1>0, <1>8, <2>1 DEF Finish, TypeOK, Steps
<1>9. ASSUME NEW i \in Instances, NEW c \in Calls, LockLost(i, c) PROVE TypeOK'
  BY <1>0, <1>9 DEF LockLost, TypeOK
<1>10. ASSUME NEW c \in Calls, Enqueue(c) PROVE TypeOK'
  BY <1>0, <1>10 DEF Enqueue, TypeOK, Waits, Pending, Told
<1>11. ASSUME NEW c \in Calls, FinishDirect(c) PROVE TypeOK'
  <2>1. caller' \in [Calls -> Waits \cup Told \cup {"idle", "gone"}]
    <3>1. \E a \in {"wrote", "threw", "broke"} : caller' = [caller EXCEPT ![c] = a]
      BY <1>11 DEF FinishDirect
    <3> QED
      BY <1>0, <3>1 DEF TypeOK, Waits, Pending, Told
  <2>2. applied' \in [Calls -> Nat]
    <3>1. applied' = applied \/ applied' = [applied EXCEPT ![c] = applied[c] + 1]
      BY <1>11 DEF FinishDirect
    <3>2. applied \in [Calls -> Nat]
      BY <1>0 DEF TypeOK
    <3> QED
      BY <3>1, <3>2
  <2> QED
    BY <1>0, <1>11, <2>1, <2>2 DEF FinishDirect, TypeOK
<1>12. ASSUME NEW c \in Calls, ReturnDirect(c) \/ Settle(c) \/ RedisFails(c) PROVE TypeOK'
  <2>1. caller' \in [Calls -> Waits \cup Told \cup {"idle", "gone"}]
    <3>1. \E a \in Told : caller' = [caller EXCEPT ![c] = a]
      BY <1>12 DEF ReturnDirect, Settle, RedisFails, Told
    <3> QED
      BY <1>0, <3>1 DEF TypeOK
  <2> QED
    BY <1>0, <1>12, <2>1 DEF ReturnDirect, Settle, RedisFails, TypeOK
<1>13. ASSUME NEW c \in Calls, Stalled(c) PROVE TypeOK'
  <2>1. job[c] = "active" /\ Listed(c)
    BY <1>13 DEF QInv, Rest, CallOK, Stalled
  <2>2. stalls[c] \in 0 .. MaxStalled + 1
    BY <1>0 DEF TypeOK
  <2>3. stalls[c] + 1 \in 0 .. MaxStalled + 1
    BY <2>1, <2>2 DEF Listed, MaxStalled
  <2>4. stalls' \in [Calls -> 0 .. MaxStalled + 1]
    BY <1>0, <1>13, <2>3 DEF TypeOK, Stalled
  <2>5. <<c>> \o wait \in Seq(Calls)
    BY <1>0, ConcatProperties DEF TypeOK
  <2>6. wait' \in Seq(Calls)
    BY <1>0, <2>5, <1>13 DEF TypeOK, Stalled
  <2> QED
    BY <1>0, <1>13, <2>4, <2>6 DEF Stalled, TypeOK
<1>14. ASSUME NEW c \in Calls, Register(c) PROVE TypeOK'
  <2>1. JobKey[c] \in JobKeys
    BY CallAssumption
  <2>2. handlers' \in [Instances -> SUBSET JobKeys]
    <3>1. handlers \in [Instances -> SUBSET JobKeys]
      BY <1>0 DEF TypeOK
    <3>2. handlers' = [handlers EXCEPT ![host[c]] = handlers[host[c]] \cup {JobKey[c]}]
      BY <1>14 DEF Register
    <3>3. host[c] \in Instances => handlers[host[c]] \cup {JobKey[c]} \in SUBSET JobKeys
      BY <2>1, <3>1
    <3> QED
      BY <3>1, <3>2, <3>3
  <2>3. caller' \in [Calls -> Waits \cup Told \cup {"idle", "gone"}]
    BY <1>0, <1>14 DEF Register, TypeOK, Waits, Pending, Told
  <2> QED
    BY <1>0, <1>14, <2>2, <2>3 DEF Register, TypeOK
<1> QED
  BY <1>1, <1>2, <1>3, <1>4, <1>5, <1>6, <1>7, <1>8, <1>9, <1>10, <1>11, <1>12, <1>13, <1>14
  DEF Next, Process

-----------------------------------------------------------------------------
Parts == <<caller, host, job, lock, stalls, applied, run, wait>>

\* A step that only registers handlers, or touches nothing a call depends on.
LEMMA QuietStep ==
    ASSUME QInv, UNCHANGED Parts, \A i \in Instances : handlers[i] \subseteq handlers'[i]
    PROVE  Rest'
<1>1. \A d \in Calls : Kept(d)
  BY DEF Kept, Parts
<1> QED
  BY <1>1, KeptOK DEF QInv, Rest, Parts, OneJob

\* A step of one call's that leaves every worker alone, and the list.
LEMMA CallerStep ==
    ASSUME QInv, NEW c \in Calls, UNCHANGED <<job, lock, stalls, run, wait>>,
           \A i \in Instances : handlers[i] \subseteq handlers'[i],
           \A d \in Calls \ {c} : /\ caller'[d] = caller[d] /\ host'[d] = host[d]
                                  /\ applied'[d] = applied[d],
           CallOK(c)'
    PROVE  Rest'
<1>1. \A d \in Calls \ {c} : Kept(d)
  BY DEF Kept
<1>2. \A d \in Calls : CallOK(d)'
  BY <1>1, KeptOK DEF QInv, Rest
<1> QED
  BY <1>2 DEF QInv, Rest, OneJob

LEMMA TakeStep == ASSUME IsFiniteSet(Calls), QInv, NEW i \in Instances, Take(i) PROVE Rest'
<1> USE DEF QInv, Rest
<1>0. PICK c \in Calls : c = Head(wait)
  BY DEF TypeOK, Take
<1>1. wait \in Seq(Calls) /\ wait # <<>> /\ Distinct(wait) /\ wait' = Tail(wait)
  BY DEF TypeOK, Take
<1>2. /\ c \in Elements(wait) /\ Elements(wait') = Elements(wait) \ {c} /\ Distinct(wait')
  BY <1>0, <1>1, WithoutHead
<1>3. /\ CallOK(c) /\ job[c] = "waiting" /\ c \notin Elements(wait')
  BY <1>1, <1>2 DEF CallOK, Listed
<1>4. \A d \in Calls : run[i][d] = "none"
  BY IdleWorker DEF Take
<1>5. SetRun(i, c, "taken") /\ "taken" \in Steps
  BY <1>0 DEF Take, Steps
<1>6. /\ run'[i][c] = "taken"
      /\ \A d \in Calls : d # c => run'[i][d] = run[i][d]
      /\ \A j \in Instances : j # i => run'[j] = run[j]
  BY <1>1, <1>5, RunSet
<1>7. /\ job' = [job EXCEPT ![c] = "active"] /\ lock' = [lock EXCEPT ![c] = i]
      /\ UNCHANGED <<handlers, callers, stalls, applied>>
  BY <1>0 DEF Take
<1>8. /\ job'[c] = "active" /\ lock'[c] = i
      /\ \A d \in Calls : d # c => job'[d] = job[d] /\ lock'[d] = lock[d]
  BY <1>1, <1>7 DEF TypeOK
<1>9. ASSUME NEW d \in Calls, d # c PROVE CallOK(d)'
  <2>1. Kept(d)
    BY <1>2, <1>6, <1>7, <1>8, <1>9 DEF Kept, callers
  <2> QED
    BY <2>1, KeptOK
<1>10. CallOK(c)'
  <2> USE <1>1, <1>3, <1>6, <1>7, <1>8 DEF CallOK, callers
  <2>1. Placed(c)'
    BY DEF Placed
  <2>2. Listed(c)'
    BY DEF Listed
  <2>3. Written(c)' /\ Unwritten(c)'
    BY DEF Written, Unwritten
  <2>4. FirstDelivery(c)'
    BY DEF FirstDelivery
  <2>5. HasHandler(c)'
    BY DEF HasHandler
  <2> QED
    BY <2>1, <2>2, <2>3, <2>4, <2>5
<1>11. OneJob'
  BY <1>4, <1>6 DEF OneJob
<1> QED
  BY <1>2, <1>9, <1>10, <1>11

LEMMA EnqueueStep == ASSUME QInv, NEW c \in Calls, Enqueue(c) PROVE Rest'
<1> USE DEF QInv, Rest
<1>1. CallOK(c) /\ c \in Roots /\ job[c] = "none" /\ c \notin Elements(wait)
  BY DEF Enqueue, CallOK, Placed, Listed
<1>2. /\ wait' = Append(wait, c) /\ Elements(wait') = Elements(wait) \cup {c} /\ Distinct(wait')
  BY <1>1, AtTheEnd DEF Enqueue, TypeOK
<1>3. /\ caller'[c] = "queued" /\ job'[c] = "waiting"
      /\ \A d \in Calls : d # c => job'[d] = job[d] /\ caller'[d] = caller[d]
      /\ UNCHANGED <<handlers, host, lock, stalls, run, applied>>
  BY DEF Enqueue, TypeOK
<1>4. ASSUME NEW d \in Calls, d # c PROVE CallOK(d)'
  <2>1. Kept(d)
    BY <1>2, <1>3, <1>4 DEF Kept
  <2> QED
    BY <2>1, KeptOK
<1>5. CallOK(c)'
  <2> USE <1>1, <1>2, <1>3 DEF CallOK
  <2>0. caller[c] = "adding"
    BY DEF Enqueue
  <2>1. Placed(c)'
    BY <2>0 DEF Placed, Waits, Pending, Told
  <2>2. Listed(c)'
    BY NullAssumption DEF Listed, Placed, MaxStalled
  <2>3. Written(c)' /\ Unwritten(c)'
    BY DEF Written, Unwritten
  <2>4. FirstDelivery(c)'
    BY <2>0 DEF FirstDelivery, Unwritten, Placed
  <2>5. HasHandler(c)'
    BY <2>0 DEF HasHandler
  <2> QED
    BY <2>1, <2>2, <2>3, <2>4, <2>5
<1>6. OneJob'
  BY <1>3 DEF OneJob
<1> QED
  BY <1>2, <1>4, <1>5, <1>6

LEMMA StalledStep == ASSUME QInv, NEW c \in Calls, Stalled(c) PROVE Rest'
<1> USE DEF QInv, Rest
<1>1. /\ CallOK(c) /\ job[c] = "active" /\ lock[c] = NULL /\ c \notin Elements(wait)
      /\ c \in Roots /\ stalls[c] \in Nat
  BY DEF Stalled, CallOK, Placed, Listed, TypeOK
<1>2. /\ stalls'[c] = stalls[c] + 1
      /\ \A d \in Calls : d # c => job'[d] = job[d] /\ stalls'[d] = stalls[d]
      /\ UNCHANGED <<handlers, caller, host, lock, run, applied>>
  BY DEF Stalled, TypeOK, callers
<1>3. /\ Distinct(wait')
      /\ \A d \in Calls : d # c => (d \in Elements(wait') <=> d \in Elements(wait))
      /\ \/ job'[c] = "waiting" /\ c \in Elements(wait') /\ stalls[c] < MaxStalled
         \/ job'[c] = "failed" /\ c \notin Elements(wait')
  <2>1. CASE stalls[c] < MaxStalled /\ wait' = <<c>> \o wait /\ job' = [job EXCEPT ![c] = "waiting"]
    <3>1. Elements(wait') = Elements(wait) \cup {c} /\ Distinct(wait')
      BY <1>1, <2>1, InFront DEF TypeOK
    <3> QED
      BY <2>1, <3>1 DEF TypeOK
  <2>2. CASE wait' = wait /\ job' = [job EXCEPT ![c] = "failed"]
    BY <1>1, <2>2 DEF TypeOK
  <2> QED
    BY <2>1, <2>2 DEF Stalled
<1>4. ASSUME NEW d \in Calls, d # c PROVE CallOK(d)'
  <2>1. Kept(d)
    BY <1>2, <1>3, <1>4 DEF Kept
  <2> QED
    BY <2>1, KeptOK
<1>5. CallOK(c)'
  <2> USE <1>1, <1>2, <1>3 DEF CallOK
  <2>1. Placed(c)'
    BY DEF Placed
  <2>2. Listed(c)'
    BY NullAssumption DEF Listed, MaxStalled
  <2>3. Written(c)' /\ Unwritten(c)'
    BY DEF Written, Unwritten
  <2>4. FirstDelivery(c)'
    BY DEF FirstDelivery
  <2>5. HasHandler(c)'
    BY DEF HasHandler
  <2> QED
    BY <2>1, <2>2, <2>3, <2>4, <2>5
<1>6. OneJob'
  BY <1>2 DEF OneJob
<1> QED
  BY <1>3, <1>4, <1>5, <1>6

\* The request's own steps.
LEMMA CallRest ==
    ASSUME QInv, NEW i \in Instances, NEW c \in Calls, Call(c, i)
    PROVE  Rest'
<1> USE DEF QInv, Rest
<1>1. CallStep(c, i) /\ CallOK(c)
  BY CallCases
<1>2. /\ host'[c] = i /\ c \in Roots /\ caller[c] = "idle"
      /\ \A d \in Calls : d # c => host'[d] = host[d] /\ caller'[d] = caller[d]
      /\ UNCHANGED <<handlers, job, lock, stalls, run, wait, applied>>
  BY <1>1 DEF CallStep, TypeOK, redis
<1>3. caller'[c] \in {"direct", "called"}
  BY <1>1 DEF CallStep, TypeOK
<1>4. CallOK(c)'
  <2> USE <1>1, <1>2, <1>3 DEF CallOK
  <2>1. Placed(c)'
    BY DEF Placed, Waits, Pending, Told
  <2>2. Listed(c)'
    BY DEF Listed
  <2>3. Written(c)' /\ Unwritten(c)'
    BY DEF Written, Unwritten
  <2>4. FirstDelivery(c)'
    BY DEF FirstDelivery
  <2>5. HasHandler(c)'
    BY DEF HasHandler
  <2> QED
    BY <2>1, <2>2, <2>3, <2>4, <2>5
<1> QED
  BY <1>2, <1>4, CallerStep

LEMMA RegisterRest == ASSUME QInv, NEW c \in Calls, Register(c) PROVE Rest'
<1> USE DEF QInv, Rest
<1>1. /\ CallOK(c) /\ c \in Roots /\ job[c] = "none" /\ host[c] \in Instances
      /\ caller[c] = "called"
  BY DEF Register, CallOK, Placed, Waits, Pending
<1>2. /\ caller'[c] = "adding"
      /\ \A d \in Calls : d # c => caller'[d] = caller[d]
      /\ UNCHANGED <<host, job, lock, stalls, run, wait, applied>>
  BY DEF Register, TypeOK, redis
<1>3. handlers' = [handlers EXCEPT ![host[c]] = handlers[host[c]] \cup {JobKey[c]}]
  BY DEF Register
<1>4. handlers \in [Instances -> SUBSET JobKeys]
  BY DEF TypeOK
<1>5. /\ JobKey[c] \in handlers'[host[c]]
      /\ \A j \in Instances : handlers[j] \subseteq handlers'[j]
  BY <1>1, <1>3, <1>4
<1>6. CallOK(c)'
  <2> USE <1>1, <1>2, <1>5 DEF CallOK
  <2>1. Placed(c)'
    BY DEF Placed, Waits, Pending
  <2>2. Listed(c)'
    BY DEF Listed
  <2>3. Written(c)' /\ Unwritten(c)'
    BY DEF Written, Unwritten
  <2>4. FirstDelivery(c)'
    BY DEF FirstDelivery
  <2>5. HasHandler(c)'
    BY DEF HasHandler
  <2> QED
    BY <2>1, <2>2, <2>3, <2>4, <2>5
<1> QED
  BY <1>2, <1>5, <1>6, CallerStep

LEMMA DirectRest ==
    ASSUME QInv, NEW c \in Calls, FinishDirect(c) \/ ReturnDirect(c)
    PROVE  Rest'
<1> USE DEF QInv, Rest
<1>1. CallOK(c) /\ c \in Roots /\ job[c] = "none" /\ applied[c] \in Nat
  BY DEF FinishDirect, ReturnDirect, CallOK, Placed, TypeOK
<1>2. /\ \A d \in Calls : d # c => caller'[d] = caller[d] /\ applied'[d] = applied[d]
      /\ UNCHANGED <<handlers, host, job, lock, stalls, run, wait>>
  BY DEF FinishDirect, ReturnDirect, TypeOK, redis
<1>3. \/ caller[c] = "direct" /\ caller'[c] = "wrote" /\ applied'[c] = applied[c] + 1
      \/ caller[c] = "direct" /\ caller'[c] = "threw" /\ applied'[c] = applied[c]
      \/ caller[c] = "direct" /\ caller'[c] = "broke"
      \/ /\ caller[c] \in {"wrote", "threw", "broke"} /\ caller'[c] \in {"ok", "refused", "failed"}
         /\ applied'[c] = applied[c]
  BY DEF FinishDirect, ReturnDirect, TypeOK
<1>4. CallOK(c)'
  <2> USE <1>1, <1>2, <1>3 DEF CallOK
  <2>0. /\ caller'[c] = "wrote" => applied'[c] > 0
        /\ caller'[c] = "threw" => applied'[c] = 0
    BY DEF Unwritten
  <2>1. Placed(c)'
    BY DEF Placed, Waits, Pending, Told
  <2>2. Listed(c)'
    BY DEF Listed
  <2>3. Written(c)' /\ Unwritten(c)'
    BY <2>0 DEF Written, Unwritten, Placed
  <2>4. FirstDelivery(c)'
    BY DEF FirstDelivery, Placed
  <2>5. HasHandler(c)'
    BY DEF HasHandler
  <2> QED
    BY <2>1, <2>2, <2>3, <2>4, <2>5
<1> QED
  BY <1>2, <1>4, CallerStep

LEMMA SettleRest == ASSUME QInv, NEW c \in Calls, Settle(c) \/ RedisFails(c) PROVE Rest'
<1> USE DEF QInv, Rest
<1>1. /\ CallOK(c) /\ c \in Roots
      /\ job[c] \in {"completed", "refused", "failed"} \/ caller'[c] = "failed"
  BY DEF Settle, RedisFails, CallOK, Placed, TypeOK
<1>2. /\ caller'[c] \in {"ok", "refused", "failed"}
      /\ \A d \in Calls : d # c => caller'[d] = caller[d]
      /\ UNCHANGED <<handlers, host, job, lock, stalls, run, wait, applied>>
  BY DEF Settle, RedisFails, TypeOK, redis
<1>3. CallOK(c)'
  <2> USE <1>1, <1>2 DEF CallOK
  <2>1. Placed(c)'
    BY DEF Placed, Waits, Pending, Told
  <2>2. Listed(c)'
    BY DEF Listed
  <2>3. Written(c)' /\ Unwritten(c)'
    BY DEF Written, Unwritten
  <2>4. FirstDelivery(c)'
    BY DEF FirstDelivery
  <2>5. HasHandler(c)'
    BY DEF HasHandler
  <2> QED
    BY <2>1, <2>2, <2>3, <2>4, <2>5
<1> QED
  BY <1>2, <1>3, CallerStep

LEMMA LockLostRest ==
    ASSUME QInv, NEW i \in Instances, NEW c \in Calls, LockLost(i, c)
    PROVE  Rest'
<1> USE DEF QInv, Rest
<1>1. CallOK(c) /\ c \in Roots /\ job[c] = "active"
  BY DEF LockLost, CallOK, Placed, Listed
<1>2. /\ lock'[c] = NULL
      /\ \A d \in Calls : d # c => lock'[d] = lock[d]
      /\ UNCHANGED <<handlers, caller, host, job, stalls, run, wait, applied>>
  BY DEF LockLost, TypeOK, callers
<1>3. ASSUME NEW d \in Calls, d # c PROVE CallOK(d)'
  <2>1. Kept(d)
    BY <1>2, <1>3 DEF Kept
  <2> QED
    BY <2>1, KeptOK
<1>4. CallOK(c)'
  <2> USE <1>1, <1>2 DEF CallOK
  <2>1. Placed(c)'
    BY DEF Placed, Waits, Pending, Told
  <2>2. Listed(c)'
    BY NullAssumption DEF Listed
  <2>3. Written(c)' /\ Unwritten(c)'
    BY DEF Written, Unwritten
  <2>4. FirstDelivery(c)'
    BY DEF FirstDelivery
  <2>5. HasHandler(c)'
    BY DEF HasHandler
  <2> QED
    BY <2>1, <2>2, <2>3, <2>4, <2>5
<1> QED
  BY <1>2, <1>3, <1>4 DEF OneJob

-----------------------------------------------------------------------------
\* A worker moves its one job on.
LEMMA RunRest ==
    ASSUME QInv, NEW i \in Instances, NEW c \in Calls, NEW step \in Steps, SetRun(i, c, step),
           run[i][c] # "none",
           \A j \in Instances : handlers'[j] = handlers[j],
           wait' = wait /\ stalls' = stalls,
           \A d \in Calls \ {c} : /\ job'[d] = job[d] /\ lock'[d] = lock[d]
                                  /\ d \in Roots => /\ caller'[d] = caller[d] /\ host'[d] = host[d]
                                                    /\ applied'[d] = applied[d],
           \A d \in Calls \ Roots : /\ caller'[d] \in {caller[d], "inline"}
                                    /\ caller'[d] = "inline" => caller[d] = "inline" \/ host'[d] = i
                                    /\ host'[d] \in {host[d], i},
           CallOK(c)'
    PROVE  Rest'
<1> USE DEF QInv, Rest
<1>1. /\ run'[i][c] = step
      /\ \A d \in Calls : d # c => run'[i][d] = run[i][d]
      /\ \A j \in Instances : j # i => run'[j] = run[j]
  BY RunSet
<1>2. c \in Roots
  BY DEF CallOK, Placed
<1>3. ASSUME NEW d \in Calls, d # c PROVE CallOK(d)'
  <2>1. CASE d \in Roots
    <3>1. Kept(d)
      BY <1>1, <1>3, <2>1 DEF Kept
    <3> QED
      BY <3>1, KeptOK
  <2>2. CASE d \notin Roots
    <3>1. /\ CallOK(d) /\ job[d] = "none" /\ caller[d] \in {"idle", "inline", "gone"}
          /\ \A j \in Instances : run'[j][d] = "none"
      BY <1>1, <1>3, <2>2 DEF CallOK, Placed
    <3> USE <1>1, <1>3, <2>2, <3>1 DEF CallOK
    <3>2. Placed(d)'
      BY DEF Placed, Waits, Pending, Told
    <3>3. Listed(d)'
      BY DEF Listed
    <3>4. Written(d)' /\ Unwritten(d)' /\ FirstDelivery(d)' /\ HasHandler(d)'
      BY DEF Written, Unwritten, FirstDelivery, HasHandler
    <3> QED
      BY <3>2, <3>3, <3>4
  <2> QED
    BY <2>1, <2>2
<1>4. OneJob'
  BY <1>1 DEF OneJob
<1> QED
  BY <1>3, <1>4

LEMMA BeginRest ==
    ASSUME QInv, NEW i \in Instances, NEW c \in Calls, Begin(i, c)
    PROVE  Rest'
<1> USE DEF QInv, Rest
<1>0. BeginStep(i, c) /\ (Inner[c] # NULL => Inner[c] \in Calls \ Roots)
  BY BeginCases, InnerNotRoot
<1>1. CallOK(c) /\ c \in Roots /\ job[c] # "none" /\ run[i][c] = "taken"
  BY <1>0 DEF BeginStep, CallOK, Placed
<1>2. PICK step \in {"open", "inner"} : SetRun(i, c, step)
  BY <1>0 DEF BeginStep
<1>3. /\ step \in Steps /\ run'[i][c] = step
      /\ \A j \in Instances : j # i => run'[j][c] = run[j][c]
  BY <1>2, RunSet DEF Steps
<1>4. /\ UNCHANGED <<handlers, wait, job, lock, stalls, applied>>
      /\ \A d \in Roots : caller'[d] = caller[d] /\ host'[d] = host[d]
      /\ \A d \in Calls \ Roots : \/ caller'[d] = caller[d] /\ host'[d] = host[d]
                                  \/ caller'[d] = "inline" /\ host'[d] = i
  BY <1>0 DEF BeginStep, TypeOK, redis, Roots
<1>5. CallOK(c)'
  <2> USE <1>1, <1>3, <1>4 DEF CallOK
  <2>1. Placed(c)'
    BY DEF Placed
  <2>2. Listed(c)'
    BY DEF Listed
  <2>3. Written(c)' /\ Unwritten(c)'
    BY DEF Written, Unwritten
  <2>4. FirstDelivery(c)'
    BY DEF FirstDelivery
  <2>5. HasHandler(c)'
    BY DEF HasHandler
  <2> QED
    BY <2>1, <2>2, <2>3, <2>4, <2>5
<1> QED
  BY <1>1, <1>2, <1>3, <1>4, <1>5, RunRest

LEMMA QuietRunRest ==
    ASSUME QInv, NEW i \in Instances, NEW c \in Calls,
           InnerReturns(i, c) \/ NoHandler(i, c) \/ Throw(i, c)
    PROVE  Rest'
<1> USE DEF QInv, Rest
<1>1. /\ CallOK(c) /\ c \in Roots /\ job[c] # "none" /\ run[i][c] \in {"taken", "inner", "open"}
      /\ UNCHANGED <<handlers, caller, host, wait, job, lock, stalls, applied>>
  BY DEF InnerReturns, NoHandler, Throw, CallOK, Placed, callers, redis
<1>2. PICK step \in {"open", "thrown", "broken"} : SetRun(i, c, step)
  BY DEF InnerReturns, NoHandler, Throw
<1>3. /\ step \in Steps /\ run'[i][c] = step
      /\ \A j \in Instances : j # i => run'[j][c] = run[j][c]
  BY <1>2, RunSet DEF Steps
<1>4. CallOK(c)'
  <2> USE <1>1, <1>3 DEF CallOK
  <2>1. Placed(c)'
    BY DEF Placed
  <2>2. Listed(c)'
    BY DEF Listed
  <2>3. Written(c)' /\ Unwritten(c)'
    BY DEF Written, Unwritten
  <2>4. FirstDelivery(c)'
    BY DEF FirstDelivery
  <2>5. HasHandler(c)'
    BY DEF HasHandler
  <2> QED
    BY <2>1, <2>2, <2>3, <2>4, <2>5
<1>5. \A d \in Calls \ Roots : CallOK(d)
  OBVIOUS
<1> QED
  BY <1>1, <1>2, <1>3, <1>4, <1>5, RunRest DEF CallOK, Placed, Waits, Pending, Told

LEMMA CommitRest ==
    ASSUME QInv, NEW i \in Instances, NEW c \in Calls, Commit(i, c)
    PROVE  Rest'
<1> USE DEF QInv, Rest
<1>1. /\ CallOK(c) /\ c \in Roots /\ job[c] # "none" /\ run[i][c] = "open"
      /\ applied[c] \in Nat
      /\ UNCHANGED <<handlers, caller, host, wait, job, lock, stalls>>
  BY DEF Commit, CallOK, Placed, callers, redis, TypeOK
<1>2. applied'[c] = applied[c] + 1 /\ \A d \in Roots : d # c => applied'[d] = applied[d]
  BY InnerNotRoot, NullAssumption DEF Commit, Roots
<1>3a. PICK step \in {"done", "broken"} : SetRun(i, c, step)
  BY DEF Commit
<1>3. /\ step \in Steps /\ run'[i][c] = step
      /\ \A j \in Instances : j # i => run'[j][c] = run[j][c]
  BY <1>3a, RunSet DEF Steps
<1>4. CallOK(c)'
  <2> USE <1>1, <1>2, <1>3 DEF CallOK
  <2>1. Placed(c)'
    BY DEF Placed
  <2>2. Listed(c)'
    BY DEF Listed
  <2>3. Written(c)' /\ Unwritten(c)'
    BY DEF Written, Unwritten
  <2>4. FirstDelivery(c)'
    BY DEF FirstDelivery
  <2>5. HasHandler(c)'
    BY DEF HasHandler
  <2> QED
    BY <2>1, <2>2, <2>3, <2>4, <2>5
<1>5. \A d \in Calls \ Roots : CallOK(d)
  OBVIOUS
<1> QED
  BY <1>1, <1>2, <1>3a, <1>3, <1>4, <1>5, RunRest DEF CallOK, Placed, Waits, Pending, Told

LEMMA FinishRest ==
    ASSUME QInv, NEW i \in Instances, NEW c \in Calls, Finish(i, c)
    PROVE  Rest'
<1> USE DEF QInv, Rest
<1>1. /\ CallOK(c) /\ c \in Roots /\ job[c] # "none" /\ run[i][c] \in {"done", "thrown", "broken"}
      /\ SetRun(i, c, "none")
      /\ UNCHANGED <<handlers, caller, host, wait, stalls, applied>>
  BY DEF Finish, CallOK, Placed, callers, history
<1>2. \A d \in Calls : d # c => job'[d] = job[d] /\ lock'[d] = lock[d]
  BY DEF Finish, TypeOK
<1>3. /\ run'[i][c] = "none" /\ "none" \in Steps
      /\ \A j \in Instances : j # i => run'[j][c] = run[j][c]
  BY <1>1, RunSet DEF Steps
<1>4. \/ /\ lock[c] = i /\ lock'[c] = NULL /\ job[c] = "active"
         /\ run[i][c] = "done" => job'[c] = "completed"
         /\ run[i][c] = "thrown" => job'[c] = "refused"
         /\ run[i][c] = "broken" => job'[c] = "failed"
      \/ lock[c] # i /\ lock'[c] = lock[c] /\ job'[c] = job[c]
  BY <1>1 DEF Finish, TypeOK, CallOK, Listed
<1>5. CallOK(c)'
  <2> USE <1>1, <1>3, <1>4 DEF CallOK
  <2>1. Placed(c)'
    BY DEF Placed
  <2>2. Listed(c)'
    BY NullAssumption DEF Listed
  <2>3. Written(c)' /\ Unwritten(c)'
    BY DEF Written, Unwritten
  <2>4. FirstDelivery(c)'
    BY DEF FirstDelivery
  <2>5. HasHandler(c)'
    BY DEF HasHandler
  <2> QED
    BY <2>1, <2>2, <2>3, <2>4, <2>5
<1>6. \A d \in Calls \ Roots : CallOK(d)
  OBVIOUS
<1> QED
  BY <1>1, <1>2, <1>3, <1>5, <1>6, RunRest DEF CallOK, Placed, Waits, Pending, Told

LEMMA CrashRest == ASSUME QInv, NEW i \in Instances, Crash(i) PROVE Rest'
<1> USE DEF QInv, Rest
<1>1. /\ \A c \in Calls : caller'[c] = IF host[c] = i /\ caller[c] \in Waits THEN "gone" ELSE caller[c]
      /\ \A c \in Calls : lock'[c] = IF lock[c] = i THEN NULL ELSE lock[c]
      /\ UNCHANGED <<host, wait, job, stalls, applied>>
  BY DEF Crash
<1>2. /\ \A c \in Calls : run'[i][c] = "none"
      /\ \A j \in Instances : j # i => run'[j] = run[j] /\ handlers'[j] = handlers[j]
  BY DEF Crash, TypeOK
<1>3. ASSUME NEW c \in Calls PROVE CallOK(c)'
  <2>0. CallOK(c)
    OBVIOUS
  <2> USE <1>1, <1>2, <2>0 DEF CallOK
  <2>1. Placed(c)'
    BY DEF Placed, Waits, Pending, Told
  <2>2. Listed(c)'
    BY NullAssumption DEF Listed
  <2>3. Written(c)' /\ Unwritten(c)'
    BY DEF Written, Unwritten, Waits, Pending, Told
  <2>4. FirstDelivery(c)'
    BY DEF FirstDelivery
  <2>5. HasHandler(c)'
    BY DEF HasHandler, Placed, Waits, Pending, Told
  <2> QED
    BY <2>1, <2>2, <2>3, <2>4, <2>5
<1>4. OneJob'
  BY <1>2 DEF OneJob
<1> QED
  BY <1>1, <1>3, <1>4

\* QInv is inductive.
LEMMA NextQInv == ASSUME IsFiniteSet(Calls) PROVE QInv /\ [Next]_vars => QInv'
<1> SUFFICES ASSUME QInv, [Next]_vars PROVE QInv'
  OBVIOUS
<1>1. CASE Next
  <2>1. ASSUME NEW i \in Instances, Start(i) \/ Ready(i) PROVE Rest'
    BY <2>1, QuietStep DEF Start, Ready, callers, redis, Parts
  <2>2. Rest'
    BY <1>1, <2>1, TakeStep, CrashRest, CallRest, BeginRest, QuietRunRest, CommitRest, FinishRest,
       LockLostRest, RegisterRest, EnqueueStep, DirectRest, SettleRest, StalledStep
       DEF Next, Process
  <2> QED
    BY <1>1, <2>2, TypeStep DEF QInv
<1>2. CASE UNCHANGED vars
  <2>1. TypeOK'
    BY <1>2 DEF vars, callers, redis, history, QInv, TypeOK
  <2>2. Rest'
    BY <1>2, QuietStep DEF vars, callers, redis, Parts
  <2> QED
    BY <2>1, <2>2 DEF QInv
<1> QED
  BY <1>1, <1>2

-----------------------------------------------------------------------------
\* What Delivery sees of a call.

\* A job is in the list once at most.
LEMMA OneWaits ==
    ASSUME NEW S, NEW s \in Seq(S), Distinct(s), NEW x
    PROVE  Cardinality({n \in 1 .. Len(s) : s[n] = x}) = IF x \in Elements(s) THEN 1 ELSE 0
<1>1. CASE x \in Elements(s)
  <2>1. PICK n \in 1 .. Len(s) : s[n] = x
    BY <1>1 DEF Elements
  <2>2. {m \in 1 .. Len(s) : s[m] = x} = {n}
    BY <2>1 DEF Distinct
  <2> QED
    BY <1>1, <2>2, FS_Singleton
<1>2. CASE x \notin Elements(s)
  <2>1. {m \in 1 .. Len(s) : s[m] = x} = {}
    BY <1>2 DEF Elements
  <2> QED
    BY <1>2, <2>1, FS_EmptySet
<1> QED
  BY <1>1, <1>2

Takers(c) == {i \in Instances : run[i][c] = "taken"}
Waiting(c) == IF job[c] = "waiting" THEN 1 ELSE 0

LEMMA DueNow == ASSUME QInv, NEW c \in Calls PROVE Due(c) = Waiting(c) + Cardinality(Takers(c))
<1>1. /\ Distinct(wait) /\ wait \in Seq(Calls)
      /\ job[c] = "waiting" <=> c \in Elements(wait)
  BY DEF QInv, Rest, TypeOK, CallOK, Listed
<1> QED
  BY <1>1, OneWaits DEF Due, Takers, Waiting

LEMMA DueNext ==
    ASSUME QInv', NEW c \in Calls PROVE Due(c)' = Waiting(c)' + Cardinality(Takers(c)')
<1>1. /\ Distinct(wait') /\ wait' \in Seq(Calls)
      /\ job'[c] = "waiting" <=> c \in Elements(wait')
  BY DEF QInv, Rest, TypeOK, CallOK, Listed
<1>2. Cardinality({n \in 1 .. Len(wait') : wait'[n] = c}) = IF c \in Elements(wait') THEN 1 ELSE 0
  BY <1>1, OneWaits
<1> QED
  BY <1>1, <1>2 DEF Due, Takers, Waiting

\* A call that Delivery sees unchanged.
Same(d) ==
    /\ caller'[d] = caller[d] /\ host'[d] = host[d] /\ job'[d] = job[d]
    /\ stalls'[d] = stalls[d] /\ applied'[d] = applied[d]
    /\ \A i \in Instances : run'[i][d] = run[i][d]

Shows(d) ==
    /\ Awaits(d)' = Awaits(d) /\ Due(d)' = Due(d) /\ Redelivered(d)' = Redelivered(d)
    /\ applied'[d] = applied[d]
    /\ \A i \in Instances : OpenIn(i, d)' <=> OpenIn(i, d)

LEMMA SameShows == ASSUME QInv, QInv', NEW d \in Calls, Same(d) PROVE Shows(d)
<1>1. Awaits(d)' = Awaits(d) /\ Redelivered(d)' = Redelivered(d)
  BY DEF Same, Awaits, Redelivered
<1>2. Takers(d)' = Takers(d) /\ Waiting(d)' = Waiting(d)
  BY DEF Same, Takers, Waiting
<1>3. Due(d)' = Due(d)
  BY <1>2, DueNow, DueNext
<1>4. \A i \in Instances : OpenIn(i, d)' <=> OpenIn(i, d)
  BY DEF Same, OpenIn
<1> QED
  BY <1>1, <1>3, <1>4 DEF Shows, Same

\* One call's step: where Delivery sees it, and nothing else.
OnlyOf(c) ==
    /\ [d \in Roots |-> Awaits(d)]' = [[d \in Roots |-> Awaits(d)] EXCEPT ![c] = Awaits(c)']
    /\ [d \in Roots |-> Due(d)]' = [[d \in Roots |-> Due(d)] EXCEPT ![c] = Due(c)']
    /\ [d \in Roots |-> applied[d]]' = [[d \in Roots |-> applied[d]] EXCEPT ![c] = applied'[c]]
    /\ [d \in Roots |-> Redelivered(d)]'
         = [[d \in Roots |-> Redelivered(d)] EXCEPT ![c] = Redelivered(c)']
    /\ \A i \in Instances, d \in Roots : d # c => (<<i, d>> \in Open' <=> <<i, d>> \in Open)
    /\ \A i \in Instances : /\ <<i, c>> \in Open' <=> OpenIn(i, c)'
                            /\ <<i, c>> \in Open <=> OpenIn(i, c)

LEMMA OneCall ==
    ASSUME QInv, QInv', NEW c \in Roots, \A d \in Roots \ {c} : Same(d)
    PROVE  OnlyOf(c)
<1>1. \A d \in Roots \ {c} : Shows(d)
  BY SameShows DEF Roots
<1> QED
  BY <1>1 DEF OnlyOf, Shows, Open

\* A step that Delivery does not see.
LEMMA Stutter ==
    ASSUME \A d \in Roots : Shows(d)
    PROVE  UNCHANGED Abstract!delivery
<1>1. Open' = Open
  BY DEF Open, Shows
<1>2. /\ [d \in Roots |-> Awaits(d)]' = [d \in Roots |-> Awaits(d)]
      /\ [d \in Roots |-> Due(d)]' = [d \in Roots |-> Due(d)]
      /\ [d \in Roots |-> applied[d]]' = [d \in Roots |-> applied[d]]
      /\ [d \in Roots |-> Redelivered(d)]' = [d \in Roots |-> Redelivered(d)]
  BY DEF Shows
<1> QED
  BY <1>1, <1>2 DEF Abstract!delivery

LEMMA OpenSame ==
    ASSUME NEW c \in Roots, OnlyOf(c), \A i \in Instances : OpenIn(i, c)' <=> OpenIn(i, c)
    PROVE  Open' = Open
<1>1. \A i \in Instances, d \in Roots : <<i, d>> \in Open' <=> <<i, d>> \in Open
  BY DEF OnlyOf
<1>2. Open \subseteq Instances \X Roots /\ Open' \subseteq Instances \X Roots
  BY DEF Open, Roots
<1> QED
  BY <1>1, <1>2

LEMMA OpenPlus ==
    ASSUME NEW c \in Roots, OnlyOf(c), NEW i \in Instances, OpenIn(i, c)',
           \A j \in Instances : j # i => (OpenIn(j, c)' <=> OpenIn(j, c))
    PROVE  Open' = Open \cup {<<i, c>>}
<1>1. \A j \in Instances, d \in Roots : <<j, d>> \in Open' <=> <<j, d>> \in Open \/ <<j, d>> = <<i, c>>
  BY DEF OnlyOf
<1>2. Open \subseteq Instances \X Roots /\ Open' \subseteq Instances \X Roots
  BY DEF Open, Roots
<1> QED
  BY <1>1, <1>2

LEMMA OpenMinus ==
    ASSUME NEW c \in Roots, OnlyOf(c), NEW i \in Instances, ~OpenIn(i, c)',
           \A j \in Instances : j # i => (OpenIn(j, c)' <=> OpenIn(j, c))
    PROVE  Open' = Open \ {<<i, c>>}
<1>1. \A j \in Instances, d \in Roots : <<j, d>> \in Open' <=> <<j, d>> \in Open /\ <<j, d>> # <<i, c>>
  BY DEF OnlyOf
<1>2. Open \subseteq Instances \X Roots /\ Open' \subseteq Instances \X Roots
  BY DEF Open, Roots
<1> QED
  BY <1>1, <1>2

AnswerOf == [d \in Roots |-> Awaits(d)]
DueOf == [d \in Roots |-> Due(d)]
AppliedOf == [d \in Roots |-> applied[d]]
RedeliveredOf == [d \in Roots |-> Redelivered(d)]

\* What a step does to its one call, as Delivery's actions say it.
LEMMA MappedAs ==
    ASSUME NEW c \in Roots, OnlyOf(c)
    PROVE  /\ AnswerOf' = [AnswerOf EXCEPT ![c] = Awaits(c)']
           /\ Awaits(c)' = Awaits(c) => AnswerOf' = AnswerOf
           /\ Due(c)' = Due(c) => DueOf' = DueOf
           /\ Due(c)' = Due(c) + 1 => DueOf' = [DueOf EXCEPT ![c] = @ + 1]
           /\ Due(c)' = Due(c) - 1 => DueOf' = [DueOf EXCEPT ![c] = @ - 1]
           /\ applied'[c] = applied[c] => AppliedOf' = AppliedOf
           /\ applied'[c] = applied[c] + 1 => AppliedOf' = [AppliedOf EXCEPT ![c] = @ + 1]
           /\ Redelivered(c)' = Redelivered(c) => RedeliveredOf' = RedeliveredOf
           /\ Redelivered(c)' = Redelivered(c) + 1 =>
                  RedeliveredOf' = [RedeliveredOf EXCEPT ![c] = @ + 1]
<1> USE DEF OnlyOf, AnswerOf, DueOf, AppliedOf, RedeliveredOf
<1>1. AnswerOf' = [AnswerOf EXCEPT ![c] = Awaits(c)'] /\ (Awaits(c)' = Awaits(c) => AnswerOf' = AnswerOf)
  OBVIOUS
<1>2. Due(c)' = Due(c) => DueOf' = DueOf
  OBVIOUS
<1>3. Due(c)' = Due(c) + 1 => DueOf' = [DueOf EXCEPT ![c] = @ + 1]
  OBVIOUS
<1>4. Due(c)' = Due(c) - 1 => DueOf' = [DueOf EXCEPT ![c] = @ - 1]
  OBVIOUS
<1>5. applied'[c] = applied[c] => AppliedOf' = AppliedOf
  OBVIOUS
<1>6. applied'[c] = applied[c] + 1 => AppliedOf' = [AppliedOf EXCEPT ![c] = @ + 1]
  OBVIOUS
<1>7. Redelivered(c)' = Redelivered(c) => RedeliveredOf' = RedeliveredOf
  OBVIOUS
<1>8. Redelivered(c)' = Redelivered(c) + 1 => RedeliveredOf' = [RedeliveredOf EXCEPT ![c] = @ + 1]
  OBVIOUS
<1> QED
  BY <1>1, <1>2, <1>3, <1>4, <1>5, <1>6, <1>7, <1>8

\* queue.add is Delivery's Queue.
LEMMA EnqueueMaps ==
    ASSUME QInv, QInv', NEW c \in Calls, Enqueue(c)
    PROVE  c \in Roots /\ Abstract!Queue(c)
<1>1. /\ CallOK(c) /\ c \in Roots /\ caller[c] = "adding" /\ job[c] = "none" /\ stalls[c] = 0
      /\ \A i \in Instances : run[i][c] = "none"
  BY DEF QInv, Rest, CallOK, Placed, Enqueue
<1>2. /\ caller'[c] = "queued" /\ job'[c] = "waiting"
      /\ stalls' = stalls /\ applied' = applied /\ run' = run /\ host' = host
      /\ \A d \in Roots \ {c} : Same(d)
  BY DEF Enqueue, QInv, TypeOK, Same, Roots
<1>3. OnlyOf(c)
  BY <1>1, <1>2, OneCall
<1>4. Awaits(c) = "none" /\ Awaits(c)' = "queued" /\ Redelivered(c)' = Redelivered(c)
  BY <1>1, <1>2 DEF Awaits, Redelivered
<1>5. Due(c) = 0 /\ Due(c)' = 1
  <2>1. Takers(c) = {} /\ Takers(c)' = {} /\ Waiting(c) = 0 /\ Waiting(c)' = 1
    BY <1>1, <1>2 DEF Takers, Waiting
  <2> QED
    BY <2>1, DueNow, DueNext, FS_EmptySet
<1>6. Open' = Open
  BY <1>1, <1>2, <1>3, OpenSame DEF OpenIn
<1>7. Due(c)' = Due(c) + 1
  BY <1>5
<1>8. /\ AnswerOf' = [AnswerOf EXCEPT ![c] = "queued"] /\ DueOf' = [DueOf EXCEPT ![c] = @ + 1]
      /\ RedeliveredOf' = RedeliveredOf /\ AppliedOf' = AppliedOf
  BY <1>1, <1>2, <1>3, <1>4, <1>7, MappedAs
<1> QED
  BY <1>1, <1>4, <1>6, <1>8
     DEF Abstract!Queue, Abstract!Answer, AnswerOf, DueOf, AppliedOf, RedeliveredOf

\* A call the wrapper runs itself is Delivery's Run; one it dispatches is not
\* seen yet.
LEMMA CallMaps ==
    ASSUME QInv, QInv', NEW c \in Calls, NEW i \in Instances, Call(c, i)
    PROVE  c \in Roots /\ (Abstract!Run(i, c) \/ UNCHANGED Abstract!delivery)
<1>1. CallStep(c, i) /\ CallOK(c) /\ c \in Roots /\ caller[c] = "idle"
  BY CallCases DEF QInv, Rest, CallStep
<1>2. /\ job[c] = "none" /\ \A j \in Instances : run[j][c] = "none"
      /\ host'[c] = i /\ caller'[c] \in {"direct", "called"}
      /\ job' = job /\ stalls' = stalls /\ applied' = applied /\ run' = run
      /\ \A d \in Roots \ {c} : Same(d)
  BY <1>1 DEF CallStep, CallOK, Placed, QInv, TypeOK, Same, Roots, redis
<1>3. OnlyOf(c)
  BY <1>1, <1>2, OneCall
<1>4. Awaits(c) = "none" /\ Redelivered(c)' = Redelivered(c)
  BY <1>1, <1>2 DEF Awaits, Redelivered
<1>5. Due(c)' = Due(c)
  <2>1. Takers(c)' = Takers(c) /\ Waiting(c)' = Waiting(c)
    BY <1>2 DEF Takers, Waiting
  <2> QED
    BY <2>1, DueNow, DueNext
<1>6. CASE caller'[c] = "direct"
  <2>1. Awaits(c)' = "direct"
    BY <1>6 DEF Awaits
  <2>2. Open' = Open \cup {<<i, c>>}
    BY <1>1, <1>2, <1>3, <1>6, OpenPlus DEF OpenIn
  <2>3. [d \in Roots |-> Due(d)]' = [d \in Roots |-> Due(d)]
    BY <1>1, <1>3, <1>5 DEF OnlyOf
  <2> QED
    BY <1>1, <1>2, <1>3, <1>4, <2>1, <2>2, <2>3 DEF Abstract!Run, Abstract!Answer, OnlyOf
<1>7. CASE caller'[c] = "called"
  <2>1. Awaits(c)' = "none"
    BY <1>7 DEF Awaits
  <2>2. \A j \in Instances : OpenIn(j, c)' <=> OpenIn(j, c)
    BY <1>1, <1>2, <1>7 DEF OpenIn
  <2>3. \A d \in Roots : Shows(d)
    BY <1>1, <1>2, <1>4, <1>5, <2>1, <2>2, SameShows DEF Shows, Roots
  <2> QED
    BY <1>1, <2>3, Stutter
<1> QED
  BY <1>2, <1>6, <1>7

\* Setting the handler is not seen.
LEMMA RegisterMaps ==
    ASSUME QInv, QInv', NEW c \in Calls, Register(c)
    PROVE  UNCHANGED Abstract!delivery
<1>1. /\ caller[c] = "called" /\ caller'[c] = "adding"
      /\ job' = job /\ stalls' = stalls /\ applied' = applied /\ run' = run /\ host' = host
      /\ \A d \in Roots \ {c} : Same(d)
  BY DEF Register, QInv, TypeOK, Same, Roots, redis
<1>2. Awaits(c)' = Awaits(c) /\ Redelivered(c)' = Redelivered(c)
  BY <1>1 DEF Awaits, Redelivered
<1>3. Due(c)' = Due(c)
  <2>1. Takers(c)' = Takers(c) /\ Waiting(c)' = Waiting(c)
    BY <1>1 DEF Takers, Waiting
  <2> QED
    BY <2>1, DueNow, DueNext
<1>4. \A j \in Instances : OpenIn(j, c)' <=> OpenIn(j, c)
  BY <1>1 DEF OpenIn
<1>5. Shows(c)
  BY <1>1, <1>2, <1>3, <1>4 DEF Shows
<1>6. \A d \in Roots : Shows(d)
  BY <1>1, <1>5, SameShows DEF Roots
<1> QED
  BY <1>6, Stutter

\* The method's transaction in the request is Delivery's End.
LEMMA FinishDirectMaps ==
    ASSUME QInv, QInv', NEW c \in Calls, FinishDirect(c)
    PROVE  /\ c \in Roots /\ host[c] \in Instances
           /\ Abstract!End(host[c], c, TRUE) \/ Abstract!End(host[c], c, FALSE)
<1>1. /\ CallOK(c) /\ c \in Roots /\ caller[c] = "direct" /\ job[c] = "none"
      /\ host[c] \in Instances /\ \A j \in Instances : run[j][c] = "none"
  BY DEF QInv, Rest, CallOK, Placed, FinishDirect, Waits, Pending, Told
<1>2. /\ caller'[c] \in {"wrote", "threw", "broke"}
      /\ job' = job /\ stalls' = stalls /\ run' = run /\ host' = host
      /\ applied'[c] = applied[c] + 1 \/ applied'[c] = applied[c]
      /\ \A d \in Roots \ {c} : Same(d)
  BY DEF FinishDirect, QInv, TypeOK, Same, Roots, redis
<1>3. OnlyOf(c)
  BY <1>1, <1>2, OneCall
<1>4. Awaits(c)' = Awaits(c) /\ Redelivered(c)' = Redelivered(c)
  BY <1>1, <1>2 DEF Awaits, Redelivered
<1>5. Due(c)' = Due(c)
  <2>1. Takers(c)' = Takers(c) /\ Waiting(c)' = Waiting(c)
    BY <1>2 DEF Takers, Waiting
  <2> QED
    BY <2>1, DueNow, DueNext
<1>6. Open' = Open \ {<<host[c], c>>} /\ <<host[c], c>> \in Open
  BY <1>1, <1>2, <1>3, OpenMinus DEF OpenIn, OnlyOf
<1>7. /\ AnswerOf' = AnswerOf /\ DueOf' = DueOf /\ RedeliveredOf' = RedeliveredOf
      /\ AppliedOf' = [AppliedOf EXCEPT ![c] = @ + 1] \/ AppliedOf' = AppliedOf
  BY <1>1, <1>2, <1>3, <1>4, <1>5, MappedAs
<1> QED
  BY <1>1, <1>6, <1>7 DEF Abstract!End, AnswerOf, DueOf, AppliedOf, RedeliveredOf

\* Whoever is told ok, or the method's exception, is told what happened.
LEMMA TellMaps ==
    ASSUME QInv, QInv', NEW c \in Calls, ReturnDirect(c) \/ Settle(c), caller'[c] # "failed"
    PROVE  c \in Roots /\ Abstract!Tell(c)
<1>1. /\ CallOK(c) /\ c \in Roots /\ caller[c] \in {"wrote", "threw", "broke", "queued"}
      /\ stalls[c] \in Nat /\ applied[c] \in Nat
  BY DEF QInv, Rest, CallOK, Placed, ReturnDirect, Settle, TypeOK
<1>2. /\ caller'[c] \in {"ok", "refused"}
      /\ job' = job /\ stalls' = stalls /\ run' = run /\ host' = host /\ applied' = applied
      /\ \A d \in Roots \ {c} : Same(d)
  BY DEF ReturnDirect, Settle, QInv, TypeOK, Same, Roots, redis
<1>3. OnlyOf(c)
  BY <1>1, <1>2, OneCall
<1>4. /\ Awaits(c) \in {"queued", "direct"} /\ Awaits(c)' = caller'[c]
      /\ Redelivered(c)' = Redelivered(c)
  BY <1>1, <1>2 DEF Awaits, Redelivered
<1>5. Due(c)' = Due(c)
  <2>1. Takers(c)' = Takers(c) /\ Waiting(c)' = Waiting(c)
    BY <1>2 DEF Takers, Waiting
  <2> QED
    BY <2>1, DueNow, DueNext
<1>6. Open' = Open
  BY <1>1, <1>2, <1>3, OpenSame DEF OpenIn
<1>7. caller'[c] = "ok" => applied[c] > 0
  BY <1>1 DEF ReturnDirect, Settle, CallOK, Written, QInv, TypeOK
<1>8. caller'[c] = "refused" =>
          Redelivered(c) > 0 \/ (applied[c] = 0 /\ Due(c) = 0 /\ \A i \in Instances : ~OpenIn(i, c))
  <2>1. CASE stalls[c] > 0
    BY <1>1, <2>1 DEF Redelivered, MaxStalled
  <2>2. CASE stalls[c] = 0 /\ caller'[c] = "refused"
    <3>1. /\ applied[c] = 0 /\ job[c] \in {"none", "refused"}
          /\ \A i \in Instances : run[i][c] = "none"
          /\ caller[c] # "direct"
      BY <1>1, <2>2 DEF ReturnDirect, Settle, CallOK, Placed, Unwritten, FirstDelivery, QInv, TypeOK
    <3>2. Takers(c) = {} /\ Waiting(c) = 0
      BY <3>1 DEF Takers, Waiting
    <3> QED
      BY <3>1, <3>2, DueNow, FS_EmptySet DEF OpenIn
  <2> QED
    BY <1>1, <2>1, <2>2
<1>9. /\ AnswerOf' = [AnswerOf EXCEPT ![c] = caller'[c]] /\ DueOf' = DueOf
      /\ RedeliveredOf' = RedeliveredOf /\ AppliedOf' = AppliedOf
  BY <1>1, <1>2, <1>3, <1>4, <1>5, MappedAs
<1>10. (\A i \in Instances : ~OpenIn(i, c)) => \A i \in Instances : <<i, c>> \notin Open
  BY <1>1, <1>3 DEF OnlyOf
<1>11. AnswerOf[c] \in {"queued", "direct"} /\ AppliedOf[c] = applied[c] /\ DueOf[c] = Due(c)
       /\ RedeliveredOf[c] = Redelivered(c)
  BY <1>1, <1>4 DEF AnswerOf, AppliedOf, DueOf, RedeliveredOf
<1>12. Abstract!Answer(c, caller'[c]) /\ UNCHANGED <<DueOf, Open, AppliedOf, RedeliveredOf>>
  BY <1>6, <1>9 DEF Abstract!Answer, AnswerOf
<1>13. CASE caller'[c] = "ok"
  BY <1>1, <1>7, <1>11, <1>12, <1>13
     DEF Abstract!Tell, AnswerOf, DueOf, AppliedOf, RedeliveredOf
<1>14. CASE caller'[c] = "refused"
  BY <1>1, <1>8, <1>10, <1>11, <1>12, <1>14
     DEF Abstract!Tell, Abstract!Spent, Abstract!OpenOf, AnswerOf, DueOf, AppliedOf, RedeliveredOf
<1> QED
  BY <1>1, <1>2, <1>13, <1>14

\* A 500 is Delivery's Fail, whatever it comes from.
LEMMA FailMaps ==
    ASSUME QInv, QInv', NEW c \in Calls, ReturnDirect(c) \/ Settle(c) \/ RedisFails(c),
           caller'[c] = "failed"
    PROVE  c \in Roots /\ Abstract!Fail(c)
<1>1. /\ CallOK(c) /\ c \in Roots
      /\ \/ caller[c] = "broke" /\ job[c] = "none"
         \/ caller[c] = "adding" /\ job[c] = "none"
         \/ caller[c] = "queued" /\ job[c] # "none"
      /\ job[c] = "none" => \A i \in Instances : run[i][c] = "none"
  BY DEF QInv, Rest, CallOK, Placed, ReturnDirect, Settle, RedisFails, TypeOK
<1>2. /\ job' = job /\ stalls' = stalls /\ run' = run /\ host' = host /\ applied' = applied
      /\ \A d \in Roots \ {c} : Same(d)
  BY DEF ReturnDirect, Settle, RedisFails, QInv, TypeOK, Same, Roots, redis
<1>3. OnlyOf(c)
  BY <1>1, <1>2, OneCall
<1>4. /\ Redelivered(c)' = Redelivered(c)
      /\ \/ Awaits(c) = "none" /\ Awaits(c)' = "failed"
         \/ Awaits(c) = "queued" /\ Awaits(c)' = "unsure"
         \/ Awaits(c) = "direct" /\ Awaits(c)' = "failed" /\ caller[c] = "broke"
  BY <1>1, <1>2 DEF Awaits, Redelivered
<1>5. Due(c)' = Due(c) /\ (job[c] = "none" => Due(c) = 0)
  <2>1. Takers(c)' = Takers(c) /\ Waiting(c)' = Waiting(c)
    BY <1>2 DEF Takers, Waiting
  <2>2. job[c] = "none" => Takers(c) = {} /\ Waiting(c) = 0
    BY <1>1 DEF Takers, Waiting
  <2> QED
    BY <2>1, <2>2, DueNow, DueNext, FS_EmptySet
<1>6. Open' = Open
  BY <1>1, <1>2, <1>3, OpenSame DEF OpenIn
<1>7. /\ AnswerOf' = [AnswerOf EXCEPT ![c] = Awaits(c)'] /\ DueOf' = DueOf
      /\ RedeliveredOf' = RedeliveredOf /\ AppliedOf' = AppliedOf
  BY <1>1, <1>2, <1>3, <1>4, <1>5, MappedAs
<1>8. caller[c] = "broke" => \A i \in Instances : <<i, c>> \notin Open
  BY <1>1, <1>3 DEF OnlyOf, OpenIn
<1>9. AnswerOf[c] = Awaits(c) /\ DueOf[c] = Due(c)
  BY <1>1 DEF AnswerOf, DueOf
<1>10. Abstract!Answer(c, Awaits(c)') /\ UNCHANGED <<DueOf, Open, AppliedOf, RedeliveredOf>>
  BY <1>6, <1>7 DEF Abstract!Answer, AnswerOf
<1>11. caller[c] = "broke" => DueOf[c] = 0 /\ Abstract!OpenOf(c) = {}
  BY <1>1, <1>5, <1>8, <1>9 DEF Abstract!OpenOf
<1> QED
  BY <1>1, <1>4, <1>9, <1>10, <1>11
     DEF Abstract!Fail, Abstract!Spent, AnswerOf, DueOf, AppliedOf, RedeliveredOf

-----------------------------------------------------------------------------
\* The worker's steps.

LEMMA TakersFinite ==
    ASSUME IsFiniteSet(Instances), NEW c
    PROVE  IsFiniteSet(Takers(c)) /\ Cardinality(Takers(c)) \in Nat
BY FS_Subset, FS_CardinalityType DEF Takers

\* A worker that goes on with a job it took owes it no more.
LEMMA TakersLess ==
    ASSUME IsFiniteSet(Instances), QInv, QInv', NEW c \in Calls, NEW i \in Instances,
           run[i][c] = "taken", run'[i][c] # "taken",
           \A j \in Instances : j # i => run'[j][c] = run[j][c], job'[c] = job[c]
    PROVE  Due(c) > 0 /\ Due(c)' = Due(c) - 1
<1>1. i \in Takers(c) /\ Takers(c)' = Takers(c) \ {i}
  BY DEF Takers
<1>2. /\ Cardinality(Takers(c) \ {i}) = Cardinality(Takers(c)) - 1
      /\ Cardinality(Takers(c)) \in Nat /\ Cardinality(Takers(c) \ {i}) \in Nat
  BY <1>1, TakersFinite, FS_RemoveElement, FS_CardinalityType
<1>3. Waiting(c)' = Waiting(c) /\ Waiting(c) \in {0, 1}
  BY DEF Waiting
<1>4. Due(c) = Waiting(c) + Cardinality(Takers(c))
  BY DueNow
<1>5. Due(c)' = Waiting(c)' + Cardinality(Takers(c)')
  BY DueNext
<1>6. Cardinality(Takers(c)') = Cardinality(Takers(c)) - 1
  BY <1>1, <1>2
<1> QED
  BY <1>2, <1>3, <1>4, <1>5, <1>6

\* Taking a job out of the list does not change what is owed.
LEMMA TakeMaps ==
    ASSUME IsFiniteSet(Instances), IsFiniteSet(Calls), QInv, QInv', NEW i \in Instances, Take(i)
    PROVE  UNCHANGED Abstract!delivery
<1>0. PICK c \in Calls : c = Head(wait)
  BY DEF QInv, TypeOK, Take
<1>1. /\ wait \in Seq(Calls) /\ wait # <<>> /\ Distinct(wait) /\ SetRun(i, c, "taken")
      /\ job' = [job EXCEPT ![c] = "active"] /\ UNCHANGED <<caller, host, stalls, applied>>
  BY <1>0 DEF QInv, Rest, TypeOK, Take, callers
<1>2. CallOK(c) /\ job[c] = "waiting" /\ caller[c] \in {"queued", "failed", "gone"} /\ c \in Roots
  BY <1>0, <1>1, WithoutHead DEF QInv, Rest, CallOK, Listed, Placed
<1>3. /\ run'[i][c] = "taken" /\ run[i][c] = "none"
      /\ \A d \in Calls : d # c => run'[i][d] = run[i][d]
      /\ \A j \in Instances : j # i => run'[j] = run[j]
  BY <1>1, IdleWorker, RunSet DEF QInv, Steps, Take
<1>4. job'[c] = "active" /\ \A d \in Calls \ {c} : Same(d)
  BY <1>1, <1>3 DEF QInv, TypeOK, Same
<1>5. Due(c)' = Due(c)
  <2>1. i \notin Takers(c) /\ Takers(c)' = Takers(c) \cup {i}
    BY <1>3 DEF Takers
  <2>2. Cardinality(Takers(c)') = Cardinality(Takers(c)) + 1 /\ Cardinality(Takers(c)) \in Nat
    BY <2>1, TakersFinite, FS_AddElement
  <2>3. Waiting(c) = 1 /\ Waiting(c)' = 0
    BY <1>2, <1>4 DEF Waiting
  <2>4. Due(c) = 1 + Cardinality(Takers(c))
    BY <2>3, DueNow
  <2>5. Due(c)' = 0 + Cardinality(Takers(c)')
    BY <2>3, DueNext
  <2> QED
    BY <2>2, <2>4, <2>5
<1>6. Shows(c)
  <2>1. Awaits(c)' = Awaits(c) /\ Redelivered(c)' = Redelivered(c) /\ applied'[c] = applied[c]
    BY <1>1, <1>2, <1>4 DEF Awaits, Redelivered
  <2>2. \A j \in Instances : OpenIn(j, c)' <=> OpenIn(j, c)
    BY <1>1, <1>3 DEF OpenIn
  <2> QED
    BY <1>5, <2>1, <2>2 DEF Shows
<1>7. \A d \in Roots : Shows(d)
  BY <1>4, <1>6, SameShows DEF Roots
<1> QED
  BY <1>7, Stutter

\* A worker's step with its job, of which Delivery sees only that job's call.
LEMMA RunSame ==
    ASSUME QInv, NEW i \in Instances, NEW c \in Calls, NEW step \in Steps, SetRun(i, c, step),
           \A d \in Roots \ {c} : /\ caller'[d] = caller[d] /\ host'[d] = host[d]
                                  /\ job'[d] = job[d] /\ stalls'[d] = stalls[d]
                                  /\ applied'[d] = applied[d]
    PROVE  /\ run'[i][c] = step
           /\ \A j \in Instances : j # i => run'[j][c] = run[j][c]
           /\ \A d \in Roots \ {c} : Same(d)
<1>1. /\ run'[i][c] = step
      /\ \A d \in Calls : d # c => run'[i][d] = run[i][d]
      /\ \A j \in Instances : j # i => run'[j] = run[j]
  BY RunSet DEF QInv
<1> QED
  BY <1>1 DEF Same, Roots

\* A worker processes one job at a time: Delivery's Begin may open it.
LEMMA BeginMaps ==
    ASSUME IsFiniteSet(Instances), QInv, QInv', NEW i \in Instances, NEW c \in Calls, Begin(i, c)
    PROVE  c \in Roots /\ Abstract!Begin(i, c)
<1>1. BeginStep(i, c) /\ (Inner[c] # NULL => Inner[c] \in Calls \ Roots)
  BY BeginCases, InnerNotRoot
<1>2. /\ CallOK(c) /\ c \in Roots /\ job[c] # "none" /\ run[i][c] = "taken"
      /\ caller[c] \in {"queued", "ok", "refused", "failed", "gone"}
  BY <1>1 DEF BeginStep, QInv, Rest, CallOK, Placed
<1>3. PICK step \in {"open", "inner"} : SetRun(i, c, step)
  BY <1>1 DEF BeginStep
<1>4. /\ job' = job /\ stalls' = stalls /\ applied' = applied
      /\ \A d \in Roots : caller'[d] = caller[d] /\ host'[d] = host[d]
  BY <1>1 DEF BeginStep, QInv, TypeOK, redis, Roots
<1>5. /\ run'[i][c] = step
      /\ \A j \in Instances : j # i => run'[j][c] = run[j][c]
      /\ \A d \in Roots \ {c} : Same(d)
  BY <1>3, <1>4, RunSame DEF Steps
<1>6. OnlyOf(c)
  BY <1>2, <1>5, OneCall
<1>7. Awaits(c)' = Awaits(c) /\ Redelivered(c)' = Redelivered(c)
  BY <1>2, <1>4 DEF Awaits, Redelivered
<1>8. Due(c) > 0 /\ Due(c)' = Due(c) - 1
  BY <1>2, <1>3, <1>4, <1>5, TakersLess
<1>9. Open' = Open \cup {<<i, c>>}
  BY <1>2, <1>4, <1>5, <1>6, OpenPlus DEF OpenIn
<1>10. ASSUME NEW d \in Roots, <<i, d>> \in Open PROVE AnswerOf[d] = "direct"
  <2>1. d \in Calls /\ OpenIn(i, d)
    BY <1>10 DEF Open, Roots
  <2>2. run[i][d] \notin {"inner", "open"}
    BY <1>2, <2>1 DEF QInv, Rest, OneJob
  <2>3. caller[d] = "direct"
    BY <2>1, <2>2 DEF OpenIn
  <2> QED
    BY <2>3 DEF AnswerOf, Awaits
<1>11. /\ AnswerOf' = AnswerOf /\ DueOf' = [DueOf EXCEPT ![c] = @ - 1]
       /\ RedeliveredOf' = RedeliveredOf /\ AppliedOf' = AppliedOf
  BY <1>2, <1>4, <1>6, <1>7, <1>8, MappedAs
<1>12. DueOf[c] > 0
  BY <1>2, <1>8 DEF DueOf
<1> QED
  BY <1>2, <1>9, <1>10, <1>11, <1>12 DEF Abstract!Begin, AnswerOf, DueOf, AppliedOf, RedeliveredOf

\* No handler: Delivery's Drop.
LEMMA NoHandlerMaps ==
    ASSUME IsFiniteSet(Instances), QInv, QInv', NEW i \in Instances, NEW c \in Calls, NoHandler(i, c)
    PROVE  c \in Roots /\ Abstract!Drop(c)
<1>1. /\ CallOK(c) /\ c \in Roots /\ run[i][c] = "taken" /\ SetRun(i, c, "broken")
      /\ UNCHANGED <<caller, host, job, stalls, applied>>
  BY DEF NoHandler, QInv, Rest, CallOK, Placed, callers, redis
<1>2. /\ run'[i][c] = "broken"
      /\ \A j \in Instances : j # i => run'[j][c] = run[j][c]
      /\ \A d \in Roots \ {c} : Same(d)
  BY <1>1, RunSame DEF Steps
<1>3. OnlyOf(c)
  BY <1>1, <1>2, OneCall
<1>4. Awaits(c)' = Awaits(c) /\ Redelivered(c)' = Redelivered(c)
  BY <1>1 DEF Awaits, Redelivered
<1>5. Due(c) > 0 /\ Due(c)' = Due(c) - 1
  BY <1>1, <1>2, TakersLess
<1>6. Open' = Open
  BY <1>1, <1>2, <1>3, OpenSame DEF OpenIn
<1>7. /\ AnswerOf' = AnswerOf /\ DueOf' = [DueOf EXCEPT ![c] = @ - 1]
      /\ RedeliveredOf' = RedeliveredOf /\ AppliedOf' = AppliedOf
  BY <1>1, <1>3, <1>4, <1>5, MappedAs
<1>8. DueOf[c] > 0
  BY <1>1, <1>5 DEF DueOf
<1> QED
  BY <1>1, <1>6, <1>7, <1>8 DEF Abstract!Drop, AnswerOf, DueOf, AppliedOf, RedeliveredOf

\* The method's transaction in a worker is Delivery's End, too.
LEMMA EndMaps ==
    ASSUME QInv, QInv', NEW i \in Instances, NEW c \in Calls, Commit(i, c) \/ Throw(i, c)
    PROVE  c \in Roots /\ (Abstract!End(i, c, TRUE) \/ Abstract!End(i, c, FALSE))
<1>1. /\ CallOK(c) /\ c \in Roots /\ job[c] # "none" /\ run[i][c] = "open"
      /\ caller[c] \in {"queued", "ok", "refused", "failed", "gone"}
      /\ UNCHANGED <<caller, host, job, stalls>>
  BY DEF Commit, Throw, QInv, Rest, CallOK, Placed, callers, redis
<1>2. PICK step \in {"done", "thrown", "broken"} : SetRun(i, c, step)
  BY DEF Commit, Throw
<1>3. /\ \A d \in Roots \ {c} : applied'[d] = applied[d]
      /\ applied'[c] = applied[c] + 1 \/ applied'[c] = applied[c]
  BY <1>1, InnerNotRoot, NullAssumption DEF Commit, Throw, Roots
<1>4. /\ run'[i][c] = step
      /\ \A j \in Instances : j # i => run'[j][c] = run[j][c]
      /\ \A d \in Roots \ {c} : Same(d)
  BY <1>1, <1>2, <1>3, RunSame DEF Steps
<1>5. OnlyOf(c)
  BY <1>1, <1>4, OneCall
<1>6. Awaits(c)' = Awaits(c) /\ Redelivered(c)' = Redelivered(c)
  BY <1>1 DEF Awaits, Redelivered
<1>7. Due(c)' = Due(c)
  <2>1. Takers(c)' = Takers(c) /\ Waiting(c)' = Waiting(c)
    BY <1>1, <1>4 DEF Takers, Waiting
  <2> QED
    BY <2>1, DueNow, DueNext
<1>8. Open' = Open \ {<<i, c>>} /\ <<i, c>> \in Open
  BY <1>1, <1>4, <1>5, OpenMinus DEF OpenIn, OnlyOf
<1>9. /\ AnswerOf' = AnswerOf /\ DueOf' = DueOf /\ RedeliveredOf' = RedeliveredOf
      /\ AppliedOf' = [AppliedOf EXCEPT ![c] = @ + 1] \/ AppliedOf' = AppliedOf
  BY <1>1, <1>3, <1>5, <1>6, <1>7, MappedAs
<1> QED
  BY <1>1, <1>8, <1>9 DEF Abstract!End, AnswerOf, DueOf, AppliedOf, RedeliveredOf

\* Steps of the worker and of its lock that leave deliveries as they are.
LEMMA QuietMaps ==
    ASSUME QInv, QInv', NEW i \in Instances, NEW c \in Calls,
           InnerReturns(i, c) \/ Finish(i, c) \/ LockLost(i, c)
    PROVE  UNCHANGED Abstract!delivery
<1>1. /\ CallOK(c) /\ c \in Roots /\ job[c] \notin {"none"}
      /\ caller[c] \in {"queued", "ok", "refused", "failed", "gone"}
      /\ UNCHANGED <<caller, host, stalls, applied>>
      /\ \A d \in Roots : d # c => job'[d] = job[d]
  <2>1. /\ UNCHANGED <<caller, host, stalls, applied>>
        /\ \A d \in Roots : d # c => job'[d] = job[d]
    BY DEF InnerReturns, Finish, LockLost, QInv, TypeOK, callers, redis, Roots
  <2>2. run[i][c] # "none" \/ lock[c] = i
    BY DEF InnerReturns, Finish, LockLost
  <2>3. CallOK(c)
    BY DEF QInv, Rest
  <2> QED
    BY <2>1, <2>2, <2>3 DEF CallOK, Placed, Listed
<1>2. /\ \A j \in Instances : /\ run'[j][c] = "taken" <=> run[j][c] = "taken"
                              /\ OpenIn(j, c)' <=> OpenIn(j, c)
      /\ \A d \in Roots \ {c} : Same(d)
  <2>1. CASE InnerReturns(i, c)
    <3>1. SetRun(i, c, "open") /\ run[i][c] = "inner" /\ job' = job
      BY <2>1 DEF InnerReturns, redis
    <3>2. /\ run'[i][c] = "open" /\ \A j \in Instances : j # i => run'[j][c] = run[j][c]
          /\ \A d \in Roots \ {c} : Same(d)
      BY <1>1, <3>1, RunSame DEF Steps
    <3> QED
      BY <1>1, <3>1, <3>2 DEF OpenIn
  <2>2. CASE Finish(i, c)
    <3>1. SetRun(i, c, "none") /\ run[i][c] \in {"done", "thrown", "broken"}
      BY <2>2 DEF Finish
    <3>2. /\ run'[i][c] = "none" /\ \A j \in Instances : j # i => run'[j][c] = run[j][c]
          /\ \A d \in Roots \ {c} : Same(d)
      BY <1>1, <3>1, RunSame DEF Steps
    <3> QED
      BY <1>1, <3>1, <3>2 DEF OpenIn
  <2>3. CASE LockLost(i, c)
    <3>1. run' = run
      BY <2>3 DEF LockLost
    <3> QED
      BY <1>1, <3>1 DEF OpenIn, Same, Roots
  <2> QED
    BY <2>1, <2>2, <2>3
<1>3. job'[c] # "none" /\ (job'[c] = "waiting" <=> job[c] = "waiting")
  BY <1>1 DEF InnerReturns, Finish, LockLost, QInv, Rest, TypeOK, CallOK, Listed, redis
<1>4. Due(c)' = Due(c)
  <2>1. Takers(c)' = Takers(c) /\ Waiting(c)' = Waiting(c)
    BY <1>2, <1>3 DEF Takers, Waiting
  <2> QED
    BY <2>1, DueNow, DueNext
<1>5. Awaits(c)' = Awaits(c) /\ Redelivered(c)' = Redelivered(c)
  BY <1>1, <1>3 DEF Awaits, Redelivered
<1>6. \A d \in Roots : Shows(d)
  BY <1>1, <1>2, <1>4, <1>5, SameShows DEF Shows, Roots
<1> QED
  BY <1>6, Stutter

\* A stalled job is delivered once more, or it has failed for good.
LEMMA StalledMaps ==
    ASSUME IsFiniteSet(Instances), QInv, QInv', NEW c \in Calls, Stalled(c)
    PROVE  c \in Roots /\ (Abstract!Redeliver(c) \/ UNCHANGED Abstract!delivery)
<1>1. /\ CallOK(c) /\ c \in Roots /\ job[c] = "active"
      /\ caller[c] \in {"queued", "failed", "gone"}
      /\ stalls[c] \in Nat /\ stalls'[c] = stalls[c] + 1
      /\ UNCHANGED <<caller, host, applied, run>>
      /\ \A d \in Roots \ {c} : Same(d)
  BY DEF Stalled, QInv, Rest, TypeOK, CallOK, Placed, callers, Same, Roots
<1>2. OnlyOf(c)
  BY <1>1, OneCall
<1>3. \/ job'[c] = "waiting" /\ stalls[c] < MaxStalled
      \/ job'[c] = "failed" /\ stalls[c] >= MaxStalled
  BY DEF Stalled, QInv, TypeOK
<1>4. Awaits(c)' = Awaits(c) /\ Awaits(c) \in {"queued", "unsure", "gone"}
  BY <1>1, <1>3 DEF Awaits
<1>5. Takers(c)' = Takers(c) /\ Cardinality(Takers(c)) \in Nat /\ Waiting(c) = 0
  BY <1>1, TakersFinite DEF Takers, Waiting
<1>6. Open' = Open
  BY <1>1, <1>2, OpenSame DEF OpenIn
<1>7. CASE job'[c] = "waiting" /\ stalls[c] < MaxStalled
  <2>1. Due(c)' = Due(c) + 1
    <3>1. Waiting(c)' = 1
      BY <1>7 DEF Waiting
    <3>2. Due(c)' = 1 + Cardinality(Takers(c))
      BY <1>5, <3>1, DueNext
    <3>3. Due(c) = 0 + Cardinality(Takers(c))
      BY <1>5, DueNow
    <3> QED
      BY <1>5, <3>2, <3>3
  <2>2. Redelivered(c)' = Redelivered(c) + 1 /\ Redelivered(c) < MaxStalled
    BY <1>1, <1>7 DEF Redelivered, MaxStalled
  <2>3. /\ AnswerOf' = AnswerOf /\ DueOf' = [DueOf EXCEPT ![c] = @ + 1]
        /\ RedeliveredOf' = [RedeliveredOf EXCEPT ![c] = @ + 1] /\ AppliedOf' = AppliedOf
    BY <1>1, <1>2, <1>4, <2>1, <2>2, MappedAs
  <2>4. AnswerOf[c] \in {"queued", "unsure", "gone"} /\ RedeliveredOf[c] < MaxStalled
    BY <1>1, <1>4, <2>2 DEF AnswerOf, RedeliveredOf
  <2> QED
    BY <1>1, <1>6, <2>3, <2>4 DEF Abstract!Redeliver, AnswerOf, DueOf, AppliedOf, RedeliveredOf
<1>8. CASE job'[c] = "failed" /\ stalls[c] >= MaxStalled
  <2>1. Due(c)' = Due(c)
    <3>1. Waiting(c)' = Waiting(c)
      BY <1>5, <1>8 DEF Waiting
    <3> QED
      BY <1>5, <3>1, DueNow, DueNext
  <2>2. Redelivered(c)' = Redelivered(c)
    BY <1>1, <1>8 DEF Redelivered, MaxStalled
  <2>3. \A i \in Instances : OpenIn(i, c)' <=> OpenIn(i, c)
    BY <1>1 DEF OpenIn
  <2>4. \A d \in Roots : Shows(d)
    BY <1>1, <1>4, <2>1, <2>2, <2>3, SameShows DEF Shows, Roots
  <2> QED
    BY <1>1, <2>4, Stutter
<1> QED
  BY <1>1, <1>3, <1>7, <1>8

\* A crash rolls back what its process had open, lets the delivery it had taken
\* come to nothing, and takes the callers in it away.
LEMMA CrashMaps ==
    ASSUME IsFiniteSet(Instances), QInv, QInv', NEW i \in Instances, Crash(i)
    PROVE  Abstract!Crash(i)
<1>1. /\ \A c \in Calls : caller'[c] = IF host[c] = i /\ caller[c] \in Waits THEN "gone" ELSE caller[c]
      /\ UNCHANGED <<host, wait, job, stalls, applied>>
      /\ \A c \in Calls : run'[i][c] = "none"
      /\ \A j \in Instances : j # i => run'[j] = run[j]
  BY DEF Crash, QInv, TypeOK
<1>2. \A c \in Calls : CallOK(c)
  BY DEF QInv, Rest
<1>3. Open' = {e \in Open : e[1] # i}
  <2>1. ASSUME NEW j \in Instances, NEW d \in Calls
        PROVE  OpenIn(j, d)' <=> OpenIn(j, d) /\ j # i
    <3>1. CASE j = i
      BY <1>1, <3>1 DEF OpenIn, Waits, Pending, Told
    <3>2. CASE j # i
      BY <1>1, <3>2 DEF OpenIn, Waits, Pending, Told
    <3> QED
      BY <3>1, <3>2
  <2> QED
    BY <2>1 DEF Open, Roots
<1>4. \/ DueOf' = DueOf
      \/ \E c \in Roots : DueOf[c] > 0 /\ DueOf' = [DueOf EXCEPT ![c] = @ - 1]
  <2>1. ASSUME NEW d \in Calls, run[i][d] # "taken" PROVE Due(d)' = Due(d)
    <3>1. Takers(d)' = Takers(d) /\ Waiting(d)' = Waiting(d)
      BY <1>1, <2>1 DEF Takers, Waiting
    <3> QED
      BY <3>1, DueNow, DueNext
  <2>2. CASE \A c \in Calls : run[i][c] # "taken"
    BY <2>1, <2>2 DEF DueOf, Roots
  <2>3. ASSUME NEW c \in Calls, run[i][c] = "taken" PROVE <1>4!2
    <3>1. c \in Roots /\ \A d \in Roots : d # c => Due(d)' = Due(d)
      BY <1>2, <2>1, <2>3 DEF CallOK, Placed, QInv, Rest, OneJob, Roots
    <3>2. Due(c) > 0 /\ Due(c)' = Due(c) - 1
      BY <1>1, <2>3, TakersLess
    <3>3. DueOf' = [DueOf EXCEPT ![c] = Due(c)']
      BY <3>1 DEF DueOf
    <3>4. DueOf[c] = Due(c)
      BY <3>1 DEF DueOf
    <3> QED
      BY <3>1, <3>2, <3>3, <3>4
  <2> QED
    BY <2>2, <2>3
<1>5. PICK dead \in SUBSET Roots :
          \A c \in Roots :
              c \in dead <=> host[c] = i /\ caller[c] \in {"queued", "direct", "wrote", "threw", "broke"}
  <2> WITNESS {c \in Roots :
                  host[c] = i /\ caller[c] \in {"queued", "direct", "wrote", "threw", "broke"}}
        \in SUBSET Roots
  <2> QED
    OBVIOUS
<1>6. dead \in SUBSET {c \in Roots : AnswerOf[c] \in {"queued", "direct"}}
  BY <1>5 DEF AnswerOf, Awaits
<1>7. \A e \in Open : AnswerOf[e[2]] = "direct" => (e[1] = i <=> e[2] \in dead)
  <2> SUFFICES ASSUME NEW j \in Instances, NEW d \in Roots, OpenIn(j, d), AnswerOf[d] = "direct"
               PROVE  j = i <=> d \in dead
    BY DEF Open
  <2>1. d \in Calls /\ Awaits(d) = "direct" /\ CallOK(d)
    BY <1>2 DEF AnswerOf, Roots
  <2>2. caller[d] \in {"direct", "wrote", "threw", "broke"}
    BY <2>1 DEF Awaits
  <2>3. run[j][d] = "none"
    BY <2>1, <2>2 DEF CallOK, Placed
  <2>4. caller[d] = "direct" /\ host[d] = j
    BY <2>3 DEF OpenIn
  <2> QED
    BY <1>5, <2>4
<1>8. AnswerOf' = [c \in Roots |->
          IF c \notin dead THEN AnswerOf[c]
          ELSE IF AnswerOf[c] = "queued" THEN "gone"
          ELSE IF AppliedOf[c] > 0 THEN "lost" ELSE "none"]
  <2> SUFFICES ASSUME NEW c \in Roots
               PROVE  Awaits(c)' = IF c \notin dead THEN Awaits(c)
                                   ELSE IF Awaits(c) = "queued" THEN "gone"
                                   ELSE IF applied[c] > 0 THEN "lost" ELSE "none"
    BY DEF AnswerOf, AppliedOf
  <2>1. c \in Calls /\ CallOK(c) /\ applied[c] \in Nat
    BY <1>2 DEF Roots, QInv, TypeOK
  <2>2. CASE c \in dead
    <3>1. caller'[c] = "gone" /\ caller[c] \in {"queued", "direct", "wrote", "threw", "broke"}
      BY <1>1, <1>5, <2>1, <2>2 DEF Waits, Pending, Told
    <3>2. CASE caller[c] = "queued"
      <4>1. job'[c] # "none"
        BY <1>1, <2>1, <3>2 DEF CallOK, Placed
      <4> QED
        BY <2>2, <3>1, <3>2, <4>1 DEF Awaits
    <3>3. CASE caller[c] # "queued"
      <4>1. job'[c] = "none" /\ applied' = applied
        BY <1>1, <2>1, <3>1, <3>3 DEF CallOK, Placed
      <4> QED
        BY <2>2, <3>1, <3>3, <4>1 DEF Awaits
    <3> QED
      BY <3>2, <3>3
  <2>3. CASE c \notin dead
    <3>1. CASE caller'[c] = caller[c]
      BY <1>1, <2>3, <3>1 DEF Awaits
    <3>2. CASE caller'[c] # caller[c]
      <4>1. caller[c] \in {"called", "adding"} /\ caller'[c] = "gone"
        BY <1>1, <1>5, <2>1, <2>3, <3>2 DEF Waits, Pending, Told, CallOK, Placed
      <4>2. job'[c] = "none" /\ applied'[c] = 0
        BY <1>1, <2>1, <4>1 DEF CallOK, Placed, Unwritten
      <4> QED
        BY <2>3, <4>1, <4>2 DEF Awaits
    <3> QED
      BY <3>1, <3>2
  <2> QED
    BY <2>2, <2>3
<1>9. AppliedOf' = AppliedOf /\ RedeliveredOf' = RedeliveredOf
  BY <1>1 DEF AppliedOf, RedeliveredOf, Redelivered
<1> QED
  BY <1>3, <1>4, <1>6, <1>7, <1>8, <1>9
     DEF Abstract!Crash, AnswerOf, DueOf, AppliedOf, RedeliveredOf

LEMMA InitMaps == Init => Abstract!Init
<1> SUFFICES ASSUME Init PROVE Abstract!Init
  OBVIOUS
<1>1. \A c \in Calls : Awaits(c) = "none" /\ Redelivered(c) = 0 /\ applied[c] = 0
  BY DEF Init, Awaits, Redelivered, MaxStalled
<1>2. \A c \in Calls : Due(c) = 0
  <2> SUFFICES ASSUME NEW c \in Calls PROVE Due(c) = 0
    OBVIOUS
  <2>1. {n \in 1 .. Len(wait) : wait[n] = c} = {} /\ {i \in Instances : run[i][c] = "taken"} = {}
    BY DEF Init
  <2>2. Cardinality({}) = 0
    BY FS_EmptySet
  <2>3. Due(c) = Cardinality({}) + Cardinality({})
    BY <2>1 DEF Due
  <2> QED
    BY <2>2, <2>3
<1>3. Open = {}
  BY DEF Init, Open, OpenIn, Roots
<1> QED
  BY <1>1, <1>2, <1>3 DEF Abstract!Init, Roots

LEMMA NextMaps ==
    ASSUME IsFiniteSet(Calls), IsFiniteSet(Instances)
    PROVE  QInv /\ QInv' /\ [Next]_vars => [Abstract!Next]_(Abstract!delivery)
<1> SUFFICES ASSUME QInv, QInv', [Next]_vars
             PROVE  Abstract!Next \/ UNCHANGED Abstract!delivery
  OBVIOUS
<1> USE DEF Abstract!Next
<1>1. ASSUME NEW i \in Instances, Start(i) \/ Ready(i) PROVE UNCHANGED Abstract!delivery
  <2>1. \A d \in Calls : Same(d)
    BY <1>1 DEF Start, Ready, Same, callers, redis
  <2> QED
    BY <2>1, SameShows, Stutter DEF Roots
<1>2. ASSUME NEW i \in Instances, NEW c \in Calls, Call(c, i)
      PROVE Abstract!Next \/ UNCHANGED Abstract!delivery
  BY <1>2, CallMaps
<1>3. ASSUME NEW i \in Instances, NEW c \in Calls, Begin(i, c) \/ NoHandler(i, c) PROVE Abstract!Next
  BY <1>3, BeginMaps, NoHandlerMaps
<1>4. ASSUME NEW i \in Instances, NEW c \in Calls, Commit(i, c) \/ Throw(i, c) PROVE Abstract!Next
  BY <1>4, EndMaps
<1>5. ASSUME NEW c \in Calls, Enqueue(c) \/ FinishDirect(c) PROVE Abstract!Next
  BY <1>5, EnqueueMaps, FinishDirectMaps
<1>6. ASSUME NEW c \in Calls, ReturnDirect(c) \/ Settle(c) \/ RedisFails(c)
      PROVE Abstract!Next
  <2>1. CASE caller'[c] = "failed"
    BY <1>6, <2>1, FailMaps
  <2>2. CASE caller'[c] # "failed"
    <3>1. ReturnDirect(c) \/ Settle(c)
      BY <1>6, <2>2 DEF RedisFails, QInv, TypeOK
    <3> QED
      BY <2>2, <3>1, TellMaps
  <2> QED
    BY <2>1, <2>2
<1>7. ASSUME NEW c \in Calls, Stalled(c) PROVE Abstract!Next \/ UNCHANGED Abstract!delivery
  BY <1>7, StalledMaps
<1>8. ASSUME NEW i \in Instances, Crash(i) PROVE Abstract!Next
  BY <1>8, CrashMaps
<1>9. CASE Next
  BY <1>1, <1>2, <1>3, <1>4, <1>5, <1>6, <1>7, <1>8, <1>9, TakeMaps, QuietMaps, RegisterMaps
     DEF Next, Process
<1>10. CASE UNCHANGED vars
  <2>1. \A d \in Calls : Same(d)
    BY <1>10 DEF vars, Same, callers, redis
  <2> QED
    BY <2>1, SameShows, Stutter DEF Roots
<1> QED
  BY <1>9, <1>10

-----------------------------------------------------------------------------
\* The type of every variable, for any number of processes, calls and deaths.
THEOREM QueueTypes == ASSUME IsFiniteSet(Calls) PROVE Spec => []TypeOK
<1>1. QInv => TypeOK
  BY DEF QInv
<1> QED
  BY <1>1, InitQInv, NextQInv, PTL DEF Spec

\* use-queue.decorator.ts:46-56: what the queue does with a call, in whatever
\* processes, is what Delivery allows.
THEOREM QueueImplementsDelivery ==
    ASSUME IsFiniteSet(Calls), IsFiniteSet(Instances)
    PROVE  Spec => ImplementsDelivery
<1> QED
  BY InitQInv, NextQInv, InitMaps, NextMaps, PTL DEF Spec, ImplementsDelivery, Abstract!Spec

\* write-queue.registry.ts:110: a worker whose process awaits a job of some key
\* finds the handler for every job of that key, whoever made it and however
\* often processes died and came back without handlers.
THEOREM QueueHasHandler == ASSUME IsFiniteSet(Calls) PROVE Spec => []DispatcherHasHandler
<1>1. QInv => DispatcherHasHandler
  <2> SUFFICES ASSUME QInv, NEW i \in Instances, NEW c \in Calls, NEW d \in Roots,
                      caller[d] = "queued", host[d] = i, JobKey[d] = JobKey[c]
               PROVE  JobKey[c] \in handlers[i]
    BY DEF DispatcherHasHandler
  <2>1. HasHandler(d)
    BY DEF QInv, Rest, CallOK, Roots
  <2> QED
    BY <2>1 DEF HasHandler
<1> QED
  BY <1>1, InitQInv, NextQInv, PTL DEF Spec

\* write-queue.registry.ts:137, 142: who is told that the method returned, or
\* its own exception, is told what was committed, although Redis may have failed
\* anybody with the job under way, and a job commits at most once per delivery:
\* because the queue implements Delivery.
THEOREM QueueTellsTruth ==
    ASSUME IsFiniteSet(Calls), IsFiniteSet(Instances)
    PROVE  Spec => []ToldIsTrue
<1>1. Q!IsFiniteSet(Instances)
  BY DEF IsFiniteSet, Q!IsFiniteSet
<1>2. Q!Spec => []Q!ToldIsTrue
  BY <1>1, Q!DeliveryTellsTruth
<1>3. Abstract!Init => Q!Init
  BY DEF Abstract!Init, Q!Init
<1>4. [Abstract!Next]_(Abstract!delivery) => [Q!Next]_(Q!delivery)
  BY DEF Abstract!Next, Q!Next, Abstract!delivery, Q!delivery, Abstract!Queue, Q!Queue,
         Abstract!Drop, Q!Drop, Abstract!Tell, Q!Tell, Abstract!Fail, Q!Fail,
         Abstract!Redeliver, Q!Redeliver,
         Abstract!Run, Q!Run, Abstract!Begin, Q!Begin, Abstract!End, Q!End,
         Abstract!Crash, Q!Crash, Abstract!Answer, Q!Answer, Abstract!Spent, Q!Spent,
         Abstract!OpenOf, Q!OpenOf
<1>5. QInv /\ Q!ToldIsTrue => ToldIsTrue
  <2> SUFFICES ASSUME QInv, Q!ToldIsTrue PROVE ToldIsTrue
    OBVIOUS
  <2> USE DEF Q!ToldIsTrue
  <2>1. ASSUME NEW c \in Calls
        PROVE  /\ CallOK(c) /\ stalls[c] \in Nat /\ applied[c] \in Nat
               /\ Redelivered(c) \in Nat /\ Redelivered(c) <= stalls[c]
    <3>1. CallOK(c) /\ stalls[c] \in Nat /\ applied[c] \in Nat
      BY DEF QInv, Rest, TypeOK
    <3> QED
      BY <3>1 DEF Redelivered, MaxStalled
  <2>2. AckedIsApplied
    BY <2>1 DEF AckedIsApplied, Q!AckedIsApplied, CallOK, Placed, Awaits
  <2>3. RefusedIsNotApplied
    <3> SUFFICES ASSUME NEW c \in Calls, caller[c] = "refused"
                 PROVE  applied[c] = 0 \/ stalls[c] > 0
      BY DEF RefusedIsNotApplied
    <3>1. c \in Roots
      BY <2>1 DEF CallOK, Placed
    <3>2. [d \in Roots |-> Awaits(d)][c] = "refused"
      BY <3>1 DEF Awaits
    <3>3. applied[c] = 0 \/ Redelivered(c) > 0
      BY <3>1, <3>2 DEF Q!RefusedIsNotApplied
    <3> QED
      BY <2>1, <3>3
  <2>4. AppliedPerDelivery
    <3> SUFFICES ASSUME NEW c \in Roots PROVE applied[c] <= 1 + stalls[c]
      BY DEF AppliedPerDelivery
    <3>1. applied[c] <= 1 + Redelivered(c)
      BY DEF Q!AppliedPerDelivery
    <3> QED
      BY <2>1, <3>1 DEF Roots
  <2> QED
    BY <2>2, <2>3, <2>4 DEF ToldIsTrue
<1> QED
  BY <1>2, <1>3, <1>4, <1>5, InitQInv, NextQInv, InitMaps, NextMaps, PTL DEF Spec, Q!Spec

-----------------------------------------------------------------------------
\* The order of jobs on one process.

LEMMA BeforeAppend ==
    ASSUME NEW S, NEW s \in Seq(S), NEW x \in S, NEW a, NEW b
    PROVE  Before(Append(s, x), a, b) <=> Before(s, a, b) \/ (b = x /\ a \in Elements(s))
<1> DEFINE t == Append(s, x)
<1>1. /\ Len(s) \in Nat /\ Len(t) = Len(s) + 1 /\ t[Len(s) + 1] = x
      /\ \A n \in 1 .. Len(s) : t[n] = s[n] /\ n \in 1 .. Len(t)
  OBVIOUS
<1> HIDE DEF t
<1>2. \A n \in 1 .. Len(t) : n \in 1 .. Len(s) \/ n = Len(s) + 1
  BY <1>1
<1>3. ASSUME Before(t, a, b) PROVE Before(s, a, b) \/ (b = x /\ a \in Elements(s))
  <2>1. PICK m \in 1 .. Len(t) : \E n \in 1 .. Len(t) : m < n /\ t[m] = a /\ t[n] = b
    BY <1>3 DEF Before
  <2>2. PICK n \in 1 .. Len(t) : m < n /\ t[m] = a /\ t[n] = b
    BY <2>1
  <2>3. m \in 1 .. Len(s) /\ s[m] = a
    BY <1>1, <1>2, <2>2
  <2>4. CASE n \in 1 .. Len(s)
    BY <1>1, <2>2, <2>3, <2>4 DEF Before
  <2>5. CASE n = Len(s) + 1
    BY <1>1, <2>2, <2>3, <2>5 DEF Elements
  <2> QED
    BY <1>2, <2>4, <2>5
<1>4. ASSUME Before(s, a, b) PROVE Before(t, a, b)
  BY <1>1, <1>4 DEF Before
<1>5. ASSUME b = x, a \in Elements(s) PROVE Before(t, a, b)
  <2>1. PICK m \in 1 .. Len(s) : s[m] = a
    BY <1>5 DEF Elements
  <2>2. m \in 1 .. Len(t) /\ Len(s) + 1 \in 1 .. Len(t) /\ m < Len(s) + 1
    BY <1>1
  <2> QED
    BY <1>1, <1>5, <2>1, <2>2 DEF Before
<1>6. Before(t, a, b) <=> Before(s, a, b) \/ (b = x /\ a \in Elements(s))
  BY <1>3, <1>4, <1>5
<1> QED
  BY <1>6 DEF t

LEMMA BeforeTail ==
    ASSUME NEW S, NEW s \in Seq(S), s # <<>>, NEW a, NEW b
    PROVE  /\ Before(Tail(s), a, b) => Before(s, a, b)
           /\ b \in Elements(Tail(s)) => Before(s, Head(s), b)
<1>1. /\ Tail(s) \in Seq(S) /\ Len(s) \in Nat \ {0} /\ Len(Tail(s)) = Len(s) - 1
      /\ Head(s) = s[1]
      /\ \A n \in 1 .. Len(s) - 1 : Tail(s)[n] = s[n + 1] /\ n + 1 \in 1 .. Len(s) /\ 1 < n + 1
  OBVIOUS
<1>2. ASSUME Before(Tail(s), a, b) PROVE Before(s, a, b)
  <2>1. PICK m \in 1 .. Len(s) - 1 : \E n \in 1 .. Len(s) - 1 : m < n /\ s[m + 1] = a /\ s[n + 1] = b
    BY <1>1, <1>2 DEF Before
  <2>2. PICK n \in 1 .. Len(s) - 1 : m < n /\ s[m + 1] = a /\ s[n + 1] = b
    BY <2>1
  <2>3. m + 1 < n + 1
    BY <2>2
  <2> QED
    BY <1>1, <2>2, <2>3 DEF Before
<1>3. ASSUME b \in Elements(Tail(s)) PROVE Before(s, Head(s), b)
  <2>1. PICK n \in 1 .. Len(s) - 1 : s[n + 1] = b
    BY <1>1, <1>3 DEF Elements
  <2>2. 1 \in 1 .. Len(s)
    BY <1>1
  <2> QED
    BY <1>1, <2>1, <2>2 DEF Before
<1> QED
  BY <1>2, <1>3

LEMMA BeforeFront ==
    ASSUME NEW S, NEW s \in Seq(S), NEW x \in S, NEW a, NEW b, a # x, Before(<<x>> \o s, a, b)
    PROVE  Before(s, a, b)
<1> DEFINE t == <<x>> \o s
<1>1. <<x>> \in Seq(S) /\ Len(<<x>>) = 1 /\ <<x>>[1] = x
  OBVIOUS
<1>2. /\ t \in Seq(S) /\ Len(t) = Len(s) + 1 /\ Len(s) \in Nat
      /\ \A n \in 1 .. Len(s) + 1 : t[n] = IF n <= 1 THEN x ELSE s[n - 1]
  BY <1>1, ConcatProperties
<1>3. Before(t, a, b)
  OBVIOUS
<1> HIDE DEF t
<1>4. \A n \in 1 .. Len(t) : n # 1 => n - 1 \in 1 .. Len(s) /\ t[n] = s[n - 1]
  BY <1>2
<1>5. t[1] = x
  BY <1>2
<1>6. PICK m \in 1 .. Len(t) : \E n \in 1 .. Len(t) : m < n /\ t[m] = a /\ t[n] = b
  BY <1>3 DEF Before
<1>7. PICK n \in 1 .. Len(t) : m < n /\ t[m] = a /\ t[n] = b
  BY <1>6
<1>8. m # 1 /\ n # 1 /\ m - 1 < n - 1
  BY <1>5, <1>7
<1> QED
  BY <1>4, <1>7, <1>8 DEF Before

LEMMA BeforeOnce ==
    ASSUME NEW S, NEW s \in Seq(S), NEW a, NEW b, Before(s, a, b)
    PROVE  /\ a \in Elements(s) /\ b \in Elements(s)
           /\ Distinct(s) => ~Before(s, b, a)
<1>1. PICK m \in 1 .. Len(s) : \E n \in 1 .. Len(s) : m < n /\ s[m] = a /\ s[n] = b
  BY DEF Before
<1>2. PICK n \in 1 .. Len(s) : m < n /\ s[m] = a /\ s[n] = b
  BY <1>1
<1>3. ASSUME Distinct(s), Before(s, b, a) PROVE FALSE
  <2>1. PICK k \in 1 .. Len(s) : \E l \in 1 .. Len(s) : k < l /\ s[k] = b /\ s[l] = a
    BY <1>3 DEF Before
  <2>2. PICK l \in 1 .. Len(s) : k < l /\ s[k] = b /\ s[l] = a
    BY <2>1
  <2>3. k = n /\ l = m
    BY <1>2, <1>3, <2>2 DEF Distinct
  <2> QED
    BY <1>2, <2>2, <2>3
<1> QED
  BY <1>2, <1>3 DEF Elements

\* Neither was delivered again.
Undisturbed(c, d) == stalls[c] = 0 /\ stalls[d] = 0

Begun(c) == job[c] \notin {"none", "waiting"}

\* A job is added once; the list, the job being run and the jobs begun keep the
\* order in which the jobs were added.
InOrder ==
    /\ Distinct(added)
    /\ \A c \in Calls : c \in Elements(added) <=> job[c] # "none"
    /\ \A c \in Calls : c \in Elements(committed) => applied[c] > 0 /\ job[c] # "none"
    /\ \A c, d \in Calls : Before(wait, c, d) /\ Undisturbed(c, d) => Before(added, c, d)
    /\ \A c, d \in Calls :
          Begun(c) /\ job[d] = "waiting" /\ Undisturbed(c, d) => Before(added, c, d)
    /\ \A i \in Instances, c, d \in Calls :
          run[i][c] # "none" /\ Begun(d) /\ d # c /\ Undisturbed(c, d) => Before(added, d, c)
    /\ CommitsInOrder

OneProcess == \A i, j \in Instances : i = j

LEMMA OrderKept ==
    ASSUME InOrder, UNCHANGED <<added, committed>>,
           \A c \in Calls :
             /\ job'[c] = "none" <=> job[c] = "none"
             /\ stalls'[c] = 0 => stalls[c] = 0 /\ (job'[c] = "waiting" <=> job[c] = "waiting")
             /\ stalls[c] > 0 => stalls'[c] > 0
             /\ applied[c] > 0 => applied'[c] > 0
             /\ \A i \in Instances : run'[i][c] # "none" => run[i][c] # "none",
           \A c, d \in Calls : Before(wait', c, d) /\ Undisturbed(c, d)' => Before(wait, c, d)
    PROVE  InOrder'
<1> USE DEF InOrder, Undisturbed, Begun
<1>1. \A c, d \in Calls : Undisturbed(c, d)' => Undisturbed(c, d)
  OBVIOUS
<1>2. /\ Distinct(added')
      /\ \A c \in Calls : c \in Elements(added') <=> job'[c] # "none"
      /\ \A c \in Calls : c \in Elements(committed') => applied'[c] > 0 /\ job'[c] # "none"
  OBVIOUS
<1>3. \A c, d \in Calls : Before(wait', c, d) /\ Undisturbed(c, d)' => Before(added', c, d)
  BY <1>1
<1>4. \A c, d \in Calls :
          Begun(c)' /\ job'[d] = "waiting" /\ Undisturbed(c, d)' => Before(added', c, d)
  BY <1>1
<1>5. \A i \in Instances, c, d \in Calls :
          run'[i][c] # "none" /\ Begun(d)' /\ d # c /\ Undisturbed(c, d)' => Before(added', d, c)
  BY <1>1
<1>6. CommitsInOrder'
  BY DEF CommitsInOrder
<1> QED
  BY <1>2, <1>3, <1>4, <1>5, <1>6

LEMMA OrderEnqueue == ASSUME QInv, InOrder, NEW c \in Calls, Enqueue(c) PROVE InOrder'
<1> USE DEF InOrder, Undisturbed, Begun
<1>1. /\ job[c] = "none" /\ c \notin Elements(added) /\ c \notin Elements(committed)
      /\ added \in Seq(Calls) /\ wait \in Seq(Calls)
      /\ \A i \in Instances : run[i][c] = "none"
  BY DEF Enqueue, QInv, Rest, CallOK, Placed, TypeOK
<1>2. /\ wait' = Append(wait, c) /\ added' = Append(added, c)
      /\ job'[c] = "waiting" /\ \A d \in Calls : d # c => job'[d] = job[d]
      /\ UNCHANGED <<stalls, run, applied, committed>>
  BY DEF Enqueue, QInv, TypeOK
<1>3. Distinct(added') /\ Elements(added') = Elements(added) \cup {c}
  BY <1>1, <1>2, AtTheEnd
<1>4. \A a, b : Before(added', a, b) <=> Before(added, a, b) \/ (b = c /\ a \in Elements(added))
  BY <1>1, <1>2, BeforeAppend
<1>5. \A a, b : Before(wait', a, b) <=> Before(wait, a, b) \/ (b = c /\ a \in Elements(wait))
  BY <1>1, <1>2, BeforeAppend
<1>6. \A a \in Calls : a \in Elements(wait) => a \in Elements(added)
  BY DEF QInv, Rest, CallOK, Listed
<1>7. \A a, b \in Calls : Before(wait', a, b) /\ Undisturbed(a, b)' => Before(added', a, b)
  BY <1>2, <1>4, <1>5, <1>6
<1>8. \A a, b \in Calls :
          Begun(a)' /\ job'[b] = "waiting" /\ Undisturbed(a, b)' => Before(added', a, b)
  BY <1>2, <1>4
<1>9. \A i \in Instances, a, b \in Calls :
          run'[i][a] # "none" /\ Begun(b)' /\ b # a /\ Undisturbed(a, b)' => Before(added', b, a)
  BY <1>2, <1>4
<1>10. CommitsInOrder'
  <2> SUFFICES ASSUME NEW a \in Calls, NEW b \in Calls, Before(committed, a, b), Before(added', b, a)
               PROVE  stalls[a] > 0 \/ stalls[b] > 0
    BY <1>2 DEF CommitsInOrder
  <2>1. a \in Elements(committed)
    BY BeforeOnce DEF QInv, TypeOK
  <2>2. Before(added, b, a)
    BY <1>1, <1>4, <2>1
  <2> QED
    BY <2>2 DEF CommitsInOrder
<1> QED
  BY <1>1, <1>2, <1>3, <1>7, <1>8, <1>9, <1>10

LEMMA OrderTake ==
    ASSUME IsFiniteSet(Calls), OneProcess, QInv, InOrder, NEW i \in Instances, Take(i)
    PROVE  InOrder'
<1> USE DEF InOrder, Undisturbed, Begun
<1>0. PICK c \in Calls : c = Head(wait)
  BY DEF QInv, TypeOK, Take
<1>1. /\ wait \in Seq(Calls) /\ wait # <<>> /\ Distinct(wait) /\ wait' = Tail(wait)
      /\ SetRun(i, c, "taken")
      /\ job' = [job EXCEPT ![c] = "active"] /\ UNCHANGED <<stalls, applied, added, committed>>
  BY <1>0 DEF QInv, Rest, TypeOK, Take, history
<1>2. /\ job[c] = "waiting" /\ job'[c] = "active" /\ \A d \in Calls : d # c => job'[d] = job[d]
      /\ Elements(wait') = Elements(wait) \ {c}
  BY <1>0, <1>1, WithoutHead DEF QInv, Rest, TypeOK, CallOK, Listed
<1>3. \A j \in Instances, d \in Calls : run'[j][d] # "none" => d = c
  <2>1. \A d \in Calls : run[i][d] = "none"
    BY IdleWorker DEF Take
  <2>2. \A d \in Calls : d # c => run'[i][d] = run[i][d]
    BY <1>1, RunSet DEF QInv, Steps
  <2> QED
    BY <2>1, <2>2 DEF OneProcess
<1>4. \A a, b : /\ Before(wait', a, b) => Before(wait, a, b)
                /\ b \in Elements(wait') => Before(wait, c, b)
  BY <1>0, <1>1, BeforeTail
<1>5. \A a, b \in Calls : Before(wait', a, b) /\ Undisturbed(a, b)' => Before(added', a, b)
  BY <1>1, <1>4
<1>6. ASSUME NEW a \in Calls, NEW b \in Calls, Begun(a)', job'[b] = "waiting", Undisturbed(a, b)'
      PROVE  Before(added', a, b)
  <2>1. b # c /\ job[b] = "waiting" /\ Undisturbed(a, b)
    BY <1>1, <1>2, <1>6
  <2>2. CASE a = c
    <3>1. b \in Elements(wait')
      BY <1>2, <2>1 DEF QInv, Rest, CallOK, Listed
    <3> QED
      BY <1>1, <1>4, <2>1, <2>2, <3>1
  <2>3. CASE a # c
    <3>1. Begun(a)
      BY <1>2, <1>6, <2>3
    <3> QED
      BY <1>1, <2>1, <3>1
  <2> QED
    BY <2>2, <2>3
<1>7. ASSUME NEW j \in Instances, NEW a \in Calls, NEW b \in Calls, run'[j][a] # "none", Begun(b)',
             b # a, Undisturbed(a, b)'
      PROVE  Before(added', b, a)
  <2>1. a = c /\ Begun(b) /\ Undisturbed(b, a)
    BY <1>1, <1>2, <1>3, <1>7
  <2> QED
    BY <1>1, <1>2, <2>1
<1>8. CommitsInOrder'
  BY <1>1 DEF CommitsInOrder
<1>9. /\ Distinct(added')
      /\ \A a \in Calls : a \in Elements(added') <=> job'[a] # "none"
      /\ \A a \in Calls : a \in Elements(committed') => applied'[a] > 0 /\ job'[a] # "none"
  BY <1>1, <1>2
<1> QED
  BY <1>5, <1>6, <1>7, <1>8, <1>9

LEMMA OrderStalled == ASSUME QInv, InOrder, NEW c \in Calls, Stalled(c) PROVE InOrder'
<1>1. /\ job[c] = "active" /\ stalls'[c] > 0 /\ job'[c] # "none" /\ wait \in Seq(Calls)
      /\ \A d \in Calls : d # c => job'[d] = job[d] /\ stalls'[d] = stalls[d]
      /\ UNCHANGED <<run, applied, added, committed>>
      /\ wait' = wait \/ wait' = <<c>> \o wait
  BY DEF Stalled, QInv, TypeOK, history
<1>2. ASSUME NEW a \in Calls, NEW b \in Calls, Before(wait', a, b), Undisturbed(a, b)'
      PROVE  Before(wait, a, b)
  <2>1. a # c
    BY <1>1, <1>2 DEF Undisturbed
  <2> QED
    BY <1>1, <1>2, <2>1, BeforeFront
<1> QED
  BY <1>1, <1>2, OrderKept

LEMMA OrderCommit ==
    ASSUME QInv, InOrder, NEW i \in Instances, NEW c \in Calls, Commit(i, c)
    PROVE  InOrder'
<1> USE DEF InOrder, Undisturbed, Begun
<1>1. /\ CallOK(c) /\ job[c] # "none" /\ run[i][c] = "open"
      /\ committed' = Append(committed, c) /\ committed \in Seq(Calls)
      /\ UNCHANGED <<job, stalls, wait, added>>
  BY DEF Commit, QInv, Rest, CallOK, Placed, redis, TypeOK
<1>2. \A d \in Calls : /\ applied'[d] \in Nat /\ applied[d] \in Nat /\ applied'[d] >= applied[d]
                       /\ d = c => applied'[d] > 0
  BY DEF Commit, QInv, TypeOK
<1>3. \A j \in Instances, d \in Calls : run'[j][d] # "none" => run[j][d] # "none"
  <2>1. PICK step \in {"done", "broken"} : SetRun(i, c, step)
    BY DEF Commit
  <2> QED
    BY <1>1, <2>1, RunSet DEF QInv, Steps
<1>4. \A a, b : Before(committed', a, b)
                  <=> Before(committed, a, b) \/ (b = c /\ a \in Elements(committed))
  BY <1>1, BeforeAppend
<1>5. \A a : a \in Elements(committed') <=> a = c \/ a \in Elements(committed)
  BY <1>1 DEF Elements
<1>6. \A a \in Calls : a \in Elements(committed') => applied'[a] > 0 /\ job'[a] # "none"
  BY <1>1, <1>2, <1>5
<1>7. CommitsInOrder'
  <2> SUFFICES ASSUME NEW a \in Calls, NEW b \in Calls, Before(committed', a, b), Before(added, b, a),
                      Undisturbed(a, b)
               PROVE  FALSE
    BY <1>1 DEF CommitsInOrder, QInv, TypeOK
  <2>1. CASE Before(committed, a, b)
    BY <2>1 DEF CommitsInOrder
  <2>2. CASE b = c /\ a \in Elements(committed)
    <3>1. applied[a] > 0 /\ job[a] # "none" /\ CallOK(a)
      BY <2>2 DEF QInv, Rest
    <3>2. applied[c] = 0
      BY <1>1, <2>2 DEF CallOK, FirstDelivery
    <3>3. Begun(a)
      BY <3>1 DEF CallOK, FirstDelivery
    <3>4. Before(added, a, c)
      BY <1>1, <2>2, <3>1, <3>2, <3>3
    <3> QED
      BY <2>2, <3>4, BeforeOnce DEF QInv, TypeOK
  <2> QED
    BY <1>4, <2>1, <2>2
<1> QED
  BY <1>1, <1>3, <1>6, <1>7

LEMMA InitOrder == Init => InOrder
BY DEF Init, InOrder, Distinct, Elements, Before, Begun, CommitsInOrder

LEMMA NextOrder ==
    ASSUME IsFiniteSet(Calls), OneProcess
    PROVE  QInv /\ InOrder /\ [Next]_vars => InOrder'
<1> SUFFICES ASSUME QInv, InOrder, [Next]_vars PROVE InOrder'
  OBVIOUS
<1>1. CASE UNCHANGED <<job, stalls, applied, run, wait, added, committed>>
  BY <1>1, OrderKept DEF Undisturbed
<1>2. ASSUME NEW i \in Instances, Start(i) \/ Ready(i) PROVE InOrder'
  BY <1>1, <1>2 DEF Start, Ready, redis, history
<1>3. ASSUME NEW i \in Instances, Crash(i) PROVE InOrder'
  <2>1. \A j \in Instances, d \in Calls : run'[j][d] # "none" => run[j][d] # "none"
    BY <1>3 DEF Crash, QInv, TypeOK
  <2> QED
    BY <1>3, <2>1, OrderKept DEF Crash, Undisturbed, history
<1>4. ASSUME NEW i \in Instances, NEW c \in Calls, Call(c, i) PROVE InOrder'
  BY <1>1, <1>4 DEF Call, redis, history
<1>5. ASSUME NEW i \in Instances, NEW c \in Calls, NEW step \in Steps, SetRun(i, c, step),
             run[i][c] # "none", UNCHANGED <<stalls, applied, wait, added, committed>>,
             \A d \in Calls : /\ job'[d] = "none" <=> job[d] = "none"
                              /\ job'[d] = "waiting" <=> job[d] = "waiting"
      PROVE  InOrder'
  <2>1. \A j \in Instances, d \in Calls : run'[j][d] # "none" => run[j][d] # "none"
    BY <1>5, RunSet DEF QInv
  <2> QED
    BY <1>5, <2>1, OrderKept DEF Undisturbed
<1>6. ASSUME NEW i \in Instances, NEW c \in Calls, Begin(i, c) PROVE InOrder'
  <2>1. BeginStep(i, c)
    BY <1>6, BeginCases
  <2>2. PICK step \in {"open", "inner"} : SetRun(i, c, step)
    BY <2>1 DEF BeginStep
  <2> QED
    BY <1>5, <2>1, <2>2 DEF BeginStep, Steps, redis, history
<1>7. ASSUME NEW i \in Instances, NEW c \in Calls,
             InnerReturns(i, c) \/ NoHandler(i, c) \/ Throw(i, c)
      PROVE InOrder'
  <2>1. PICK step \in {"open", "thrown", "broken"} : SetRun(i, c, step)
    BY <1>7 DEF InnerReturns, NoHandler, Throw
  <2> QED
    BY <1>5, <1>7, <2>1 DEF InnerReturns, NoHandler, Throw, Steps, redis, history
<1>8. ASSUME NEW i \in Instances, NEW c \in Calls, Finish(i, c) PROVE InOrder'
  <2>1. \A d \in Calls : /\ job'[d] = "none" <=> job[d] = "none"
                         /\ job'[d] = "waiting" <=> job[d] = "waiting"
    BY <1>8 DEF Finish, QInv, Rest, TypeOK, CallOK, Listed
  <2> QED
    BY <1>5, <1>8, <2>1 DEF Finish, Steps, history
<1>9. ASSUME NEW i \in Instances, NEW c \in Calls, LockLost(i, c) PROVE InOrder'
  BY <1>1, <1>9 DEF LockLost, history
<1>10. ASSUME NEW c \in Calls, FinishDirect(c) PROVE InOrder'
  <2>1. ASSUME NEW d \in Calls, applied[d] > 0 PROVE applied'[d] > 0
    <3>1. applied \in [Calls -> Nat]
      BY DEF QInv, TypeOK
    <3>2. applied' = applied \/ applied' = [applied EXCEPT ![c] = applied[c] + 1]
      BY <1>10 DEF FinishDirect
    <3> QED
      BY <2>1, <3>1, <3>2
  <2> QED
    BY <1>10, <2>1, OrderKept DEF FinishDirect, Undisturbed, redis, history
<1>11. ASSUME NEW c \in Calls, Register(c) \/ ReturnDirect(c) \/ Settle(c) \/ RedisFails(c)
       PROVE InOrder'
  BY <1>1, <1>11 DEF Register, ReturnDirect, Settle, RedisFails, redis, history
<1>12. CASE UNCHANGED vars
  BY <1>1, <1>12 DEF vars, redis, history
<1> QED
  BY <1>2, <1>3, <1>4, <1>6, <1>7, <1>8, <1>9, <1>10, <1>11, <1>12, OrderEnqueue, OrderTake,
     OrderStalled, OrderCommit DEF Next, Process

\* write-queue.registry.ts:63 and :86: one process runs the jobs of its key in
\* the order they were added, unless one of them is delivered again.
THEOREM QueueCommitsInOrder ==
    ASSUME IsFiniteSet(Calls), \A i, j \in Instances : i = j
    PROVE  Spec => []CommitsInOrder
<1>1. OneProcess
  BY DEF OneProcess
<1>2. InOrder => CommitsInOrder
  BY DEF InOrder
<1> QED
  BY <1>1, <1>2, InitQInv, NextQInv, InitOrder, NextOrder, PTL DEF Spec

-----------------------------------------------------------------------------
(* What one process may rely on.                                           *)

\* use-queue.decorator.ts:30: one process works on the jobs of its key serially,
\* whatever is added, found stalled or dies: the claim fails only with a second
\* process.
THEOREM OneProcessOneAtATime ==
    ASSUME IsFiniteSet(Calls), \A i, j \in Instances : i = j
    PROVE  Spec => []OneAtATime
<1>1. QInv => OneAtATime
  <2> SUFFICES ASSUME QInv PROVE OneAtATime
    OBVIOUS
  <2>1. PICK E : E = {e \in Instances \X Calls : run[e[1]][e[2]] = "open"}
    OBVIOUS
  <2>2. ASSUME NEW e \in E, NEW f \in E PROVE e = f
    <3>1. /\ e \in Instances \X Calls /\ run[e[1]][e[2]] = "open"
          /\ f \in Instances \X Calls /\ run[f[1]][f[2]] = "open"
      BY <2>1
    <3>2. e[1] = f[1]
      BY <3>1
    <3>3. e[2] = f[2]
      BY <3>1, <3>2 DEF QInv, Rest, OneJob
    <3> QED
      BY <3>1, <3>2, <3>3
  <2>3. CASE E = {}
    BY <2>1, <2>3, FS_EmptySet DEF OneAtATime
  <2>4. CASE E # {}
    <3>1. PICK e \in E : E = {e}
      BY <2>2, <2>4
    <3>2. Cardinality(E) = 1
      BY <3>1, FS_Singleton
    <3> QED
      BY <2>1, <3>2 DEF OneAtATime
  <2> QED
    BY <2>3, <2>4
<1> QED
  BY <1>1, InitQInv, NextQInv, PTL DEF Spec

-----------------------------------------------------------------------------
(* That no call waits for nothing.                                         *)

\* A worker's step with a job that it runs: what Process(i, c) waits for.
Moves(i, c) ==
    /\ run[i][c] # "none"
    /\ run[i][c] = "inner" => caller[Inner[c]] \notin Pending

\* A queued call's answer is there, or its job has failed to renew its lock and
\* a worker looks for such jobs, or the worker that holds it goes on, or it is in
\* the list and the worker of its own process is free or goes on.
Attended(c) ==
    LET i == host[c]
    IN  \/ job[c] \in {"completed", "refused", "failed"}
        \/ job[c] = "active" /\ lock[c] = NULL /\ boot[i] = "queued"
        \/ job[c] = "active" /\ lock[c] \in Instances /\ Moves(lock[c], c)
        \/ /\ job[c] = "waiting" /\ c \in Elements(wait) /\ boot[i] = "queued"
           /\ Running(i) = {} \/ \E d \in Running(i) : Moves(i, d)

NoneForgotten == \A c \in Calls : caller[c] = "queued" => Attended(c)

\* A process with calls in the queue serves.
Hosted == \A c \in Calls : caller[c] \in Pending => boot[host[c]] = "queued"

\* A method that waits for one it calls calls one.
Nested == \A i \in Instances, c \in Calls : run[i][c] = "inner" => Inner[c] # NULL

LEMMA InitNested == Init => Nested
BY DEF Init, Nested

LEMMA NextNested == QInv /\ Nested /\ [Next]_vars => Nested'
<1> SUFFICES ASSUME QInv, Nested, [Next]_vars PROVE Nested'
  OBVIOUS
<1> USE DEF Nested
<1>1. ASSUME NEW i \in Instances, NEW c \in Calls, NEW step \in Steps,
             SetRun(i, c, step), step = "inner" => Inner[c] # NULL
      PROVE  Nested'
  <2>1. /\ run'[i][c] = step /\ \A d \in Calls : d # c => run'[i][d] = run[i][d]
        /\ \A j \in Instances : j # i => run'[j] = run[j]
    BY <1>1, RunSet DEF QInv
  <2> QED
    BY <1>1, <2>1
<1>2. ASSUME NEW i \in Instances, NEW c \in Calls, Process(i, c) PROVE Nested'
  <2>1. CASE Begin(i, c)
    <3>1. BeginStep(i, c)
      BY <2>1, BeginCases
    <3> QED
      BY <1>1, <3>1 DEF BeginStep, Steps
  <2>2. CASE ~Begin(i, c)
    BY <1>1, <1>2, <2>2
       DEF Process, InnerReturns, NoHandler, Commit, Throw, Finish, Steps
  <2> QED
    BY <2>1, <2>2
<1>3. ASSUME NEW i \in Instances, Take(i) PROVE Nested'
  <2>1. Head(wait) \in Calls
    BY <1>3 DEF Take, QInv, TypeOK
  <2>2. SetRun(i, Head(wait), "taken")
    BY <1>3 DEF Take
  <2> QED
    BY <1>1, <2>1, <2>2 DEF Steps
<1>4. ASSUME NEW i \in Instances, Crash(i) PROVE Nested'
  BY <1>4 DEF Crash, QInv, TypeOK
<1>5. ASSUME run' = run PROVE Nested'
  BY <1>5
<1>6. ASSUME NEW i \in Instances, NEW c \in Calls,
             Call(c, i) \/ LockLost(i, c)
      PROVE  Nested'
  BY <1>5, <1>6 DEF Call, LockLost
<1>7. ASSUME NEW i \in Instances, Start(i) \/ Ready(i) PROVE Nested'
  BY <1>5, <1>7 DEF Start, Ready
<1>8. ASSUME NEW c \in Calls,
             \/ Register(c) \/ Enqueue(c) \/ FinishDirect(c) \/ ReturnDirect(c) \/ Settle(c)
             \/ RedisFails(c) \/ Stalled(c)
      PROVE  Nested'
  BY <1>5, <1>8
     DEF Register, Enqueue, FinishDirect, ReturnDirect, Settle, RedisFails, Stalled
<1>9. CASE UNCHANGED vars
  BY <1>5, <1>9 DEF vars
<1> QED
  BY <1>2, <1>3, <1>4, <1>6, <1>7, <1>8, <1>9 DEF Next

LEMMA InitHosted == Init => Hosted
BY DEF Init, Hosted, Pending

LEMMA NextHosted == QInv /\ Hosted /\ [Next]_vars => Hosted'
<1> SUFFICES ASSUME QInv, Hosted, [Next]_vars PROVE Hosted'
  OBVIOUS
<1> USE DEF Hosted
<1>1. /\ boot \in [Instances -> {"down", "starting", "queued", "direct"}]
      /\ caller \in [Calls -> Waits \cup Told \cup {"idle", "gone"}]
      /\ host \in [Calls -> Instances \cup {NULL}]
      /\ \A c \in Calls : caller[c] \in Pending => c \in Roots /\ host[c] \in Instances
  BY DEF QInv, TypeOK, Rest, CallOK, Placed, Waits, Pending, Told
<1>2. ASSUME boot' = boot, host' = host,
             \A c \in Calls : caller'[c] \in Pending => caller[c] \in Pending
      PROVE  Hosted'
  BY <1>2
<1>3. ASSUME NEW i \in Instances, Start(i) \/ Ready(i) PROVE Hosted'
  BY <1>1, <1>3 DEF Start, Ready, callers
<1>4. ASSUME NEW i \in Instances, Take(i) PROVE Hosted'
  BY <1>2, <1>4 DEF Take, callers
<1>5. ASSUME NEW i \in Instances, Crash(i) PROVE Hosted'
  BY <1>1, <1>5 DEF Crash, Waits, Pending
<1>6. ASSUME NEW i \in Instances, NEW c \in Calls, Call(c, i) PROVE Hosted'
  <2>1. CallStep(c, i)
    BY <1>6, CallCases
  <2>2. boot' = boot /\ \A d \in Calls : d # c => caller'[d] = caller[d] /\ host'[d] = host[d]
    BY <1>1, <2>1 DEF CallStep
  <2>3. caller'[c] \in Pending => boot'[host'[c]] = "queued"
    BY <1>1, <1>6, <2>1, <2>2 DEF CallStep, Call, Serving, Direct, Pending
  <2> QED
    BY <2>2, <2>3
<1>7. ASSUME NEW i \in Instances, NEW c \in Calls, Begin(i, c) PROVE Hosted'
  <2>1. BeginStep(i, c)
    BY <1>7, BeginCases
  <2>2. \A d \in Calls : caller'[d] \in Pending =>
                             caller[d] = caller'[d] /\ host'[d] = host[d]
    BY <1>1, <2>1, InnerNotRoot DEF BeginStep, Pending
  <2> QED
    BY <2>1, <2>2 DEF BeginStep
<1>8. ASSUME NEW i \in Instances, NEW c \in Calls,
             \/ InnerReturns(i, c) \/ NoHandler(i, c) \/ Commit(i, c) \/ Throw(i, c)
             \/ Finish(i, c) \/ LockLost(i, c)
      PROVE  Hosted'
  BY <1>2, <1>8 DEF InnerReturns, NoHandler, Commit, Throw, Finish, LockLost, callers
<1>9. ASSUME NEW c \in Calls,
             \/ Register(c) \/ Enqueue(c) \/ FinishDirect(c) \/ ReturnDirect(c) \/ Settle(c)
             \/ RedisFails(c)
      PROVE  Hosted'
  <2>1. \A d \in Calls : caller'[d] \in Pending => caller[d] \in Pending
    BY <1>1, <1>9
       DEF Register, Enqueue, FinishDirect, ReturnDirect, Settle, RedisFails, Pending
  <2> QED
    BY <1>2, <1>9, <2>1 DEF Register, Enqueue, FinishDirect, ReturnDirect, Settle, RedisFails
<1>10. ASSUME NEW c \in Calls, Stalled(c) PROVE Hosted'
  BY <1>2, <1>10 DEF Stalled, callers
<1>11. CASE UNCHANGED vars
  BY <1>2, <1>11 DEF vars, callers
<1> QED
  BY <1>3, <1>4, <1>5, <1>6, <1>7, <1>8, <1>9, <1>10, <1>11 DEF Next, Process

\* write-queue.registry.ts:137 and use-queue.decorator.ts:46: a call in the queue
\* never waits for nothing, nor a worker for itself: whatever died or lost its
\* lock, the guard of some step that leads to its answer holds.
THEOREM QueueForgetsNone ==
    ASSUME IsFiniteSet(Calls)
    PROVE  Spec => []NoneForgotten
<1>1. QInv /\ Hosted /\ Nested => NoneForgotten
  <2> SUFFICES ASSUME QInv, Hosted, Nested, NEW c \in Calls, caller[c] = "queued" PROVE Attended(c)
    BY DEF NoneForgotten
  <2>1. /\ boot[host[c]] = "queued" /\ host[c] \in Instances
        /\ job[c] \in {"waiting", "active", "completed", "refused", "failed"}
        /\ lock[c] \in Instances \cup {NULL} /\ CallOK(c)
    BY DEF Hosted, QInv, Rest, TypeOK, CallOK, Placed, Waits, Pending, Told
  <2>2. ASSUME NEW i \in Instances, NEW d \in Calls, run[i][d] # "none" PROVE Moves(i, d)
    <3>1. ASSUME run[i][d] = "inner" PROVE caller[Inner[d]] \notin Pending
      <4>1. Inner[d] # NULL
        BY <3>1 DEF Nested
      <4>2. Inner[d] \in Calls \ Roots
        BY <4>1, InnerNotRoot
      <4> QED
        BY <4>2 DEF QInv, Rest, CallOK, Placed, Pending
    <3> QED
      BY <2>2, <3>1 DEF Moves
  <2>3. CASE job[c] = "active"
    BY <2>1, <2>2, <2>3 DEF Attended, CallOK, Listed
  <2>4. CASE job[c] = "waiting"
    <3>1. c \in Elements(wait)
      BY <2>1, <2>4 DEF CallOK, Listed
    <3>2. \A d \in Running(host[c]) : Moves(host[c], d)
      BY <2>1, <2>2 DEF Running
    <3> QED
      BY <2>1, <2>4, <3>1, <3>2 DEF Attended
  <2> QED
    BY <2>1, <2>3, <2>4 DEF Attended
<1> QED
  BY <1>1, InitQInv, NextQInv, InitHosted, NextHosted, InitNested, NextNested,
     PTL DEF Spec
=============================================================================
