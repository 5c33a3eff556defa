------------------------- MODULE TestRetryHookProofs -------------------------
(***************************************************************************)
(* The limit of run-tests.sh holds for any number of spec files.           *)
(***************************************************************************)
EXTENDS TestRetryHook, TLAPS

Retries == IF retryFile = NULL THEN 0 ELSE retryFile

\* The failure a run has met and not counted yet.
Uncounted == IF pc = "failed" THEN 1 ELSE 0

\* A run that tests knows the number of retries made.
Counted == pc \in {"unit", "failed"} => count = Retries

\* All failed tests of an episode are in the one count, or their run was killed.
Bounded ==
    /\ \A s \in Specs : failures[s] <= Retries + Uncounted + lost
    /\ \A s, t \in Specs : s # t => failures[s] + failures[t] <= Retries + Uncounted + lost

\* Whoever tests or retries knows its spec, the one saved last unless the run
\* of its save was killed; without the count nobody retries.
SpecKnown ==
    /\ retryFile # NULL \/ pc \in {"count", "unit", "failed", "full"} => specFile # NULL
    /\ specFile # NULL /\ pc # "spec" => specFile = lastSaved \/ unrecorded
    /\ pc = "spec" => lastSaved # NULL
    /\ pc = "cleaned" => retryFile = NULL

IInv == TypeOK /\ Counted /\ Bounded /\ SpecKnown

LEMMA InitIInv == Init => IInv
<1> SUFFICES ASSUME Init PROVE IInv
  OBVIOUS
<1>1. TypeOK
  <2>1. 0 \in 0 .. MaxLost /\ failures \in [Specs -> Nat] /\ 0 \in 0 .. MAX_RETRY - 1
    BY BoundAssumption DEF Init, MAX_RETRY
  <2> QED
    BY Zenon, <2>1 DEF Init, TypeOK
<1>2. Counted /\ SpecKnown
  BY NullAssumption DEF Init, Counted, SpecKnown
<1>3. Bounded
  <2>1. Retries = 0 /\ Uncounted = 0 /\ lost = 0 /\ \A s \in Specs : failures[s] = 0
    BY DEF Init, Retries, Uncounted
  <2> QED
    BY <2>1 DEF Bounded
<1> QED
  BY <1>1, <1>2, <1>3 DEF IInv

LEMMA NextIInv == IInv /\ [Next]_vars => IInv'
<1> SUFFICES ASSUME IInv, [Next]_vars PROVE IInv'
  OBVIOUS
<1> USE NullAssumption, BoundAssumption DEF IInv, MAX_RETRY, files, saved, episode
<1>1. ASSUME NEW s \in Specs, SaveSpec(s) PROVE IInv'
  BY <1>1 DEF SaveSpec, TypeOK, Counted, Bounded, SpecKnown, Retries, Uncounted
<1>2. CASE SaveImpl
  BY <1>2 DEF SaveImpl, TypeOK, Counted, Bounded, SpecKnown, Retries, Uncounted
<1>3. CASE WriteSpec
  BY <1>3 DEF WriteSpec, TypeOK, Counted, Bounded, SpecKnown, Retries, Uncounted
<1>4. CASE Count
  <2>1. CASE Exhausted(Retries) /\ told' = "stop" /\ pc' = "clean" /\ UNCHANGED count
    BY <1>4, <2>1 DEF Count, TypeOK, Counted, Bounded, SpecKnown, Retries, Uncounted
  <2>2. CASE ~Exhausted(Retries) /\ count' = Retries /\ pc' = "unit" /\ UNCHANGED told
    BY <1>4, <2>2
       DEF Count, Exhausted, TypeOK, Counted, Bounded, SpecKnown, Retries, Uncounted
  <2> QED
    BY <1>4, <2>1, <2>2 DEF Count, Retries
<1>5. CASE Unit
  <2>1. specFile \in Specs /\ pc = "unit" /\ UNCHANGED <<files, count, told, saved, lost>>
    BY <1>5 DEF Unit, TypeOK, SpecKnown
  <2>2. CASE pc' = "failed" /\ failures' = [failures EXCEPT ![specFile] = @ + 1]
    <3>1. /\ failures[specFile] \in Nat /\ Retries \in Nat /\ lost \in Nat
          /\ failures' = [failures EXCEPT ![specFile] = failures[specFile] + 1]
      BY <2>1, <2>2 DEF TypeOK, Retries
    <3>2. Retries' = Retries /\ Uncounted = 0 /\ Uncounted' = 1 /\ lost' = lost
      BY <2>1, <2>2 DEF Retries, Uncounted
    <3>3. ASSUME NEW s \in Specs PROVE failures'[s] <= Retries' + Uncounted' + lost'
      BY <2>1, <3>1, <3>2 DEF TypeOK, Bounded
    <3>4. ASSUME NEW s \in Specs, NEW t \in Specs, s # t
          PROVE  failures'[s] + failures'[t] <= Retries' + Uncounted' + lost'
      BY <2>1, <3>1, <3>2, <3>4 DEF TypeOK, Bounded
    <3>5. Bounded'
      BY <3>3, <3>4 DEF Bounded
    <3>6. failures' \in [Specs -> Nat]
      BY <2>1, <3>1 DEF TypeOK
    <3> QED
      BY <2>1, <2>2, <3>5, <3>6 DEF TypeOK, Counted, SpecKnown, Retries
  <2>3. CASE pc' = "full" /\ UNCHANGED failures
    BY <2>1, <2>3 DEF TypeOK, Counted, Bounded, SpecKnown, Retries, Uncounted
  <2> QED
    BY <1>5, <2>2, <2>3 DEF Unit
<1>6. CASE Record
  <2>1. /\ retryFile' = count + 1 /\ count = Retries /\ count \in 0 .. 9 /\ count + 1 # NULL
        /\ pc = "failed" /\ pc' = "idle" /\ UNCHANGED <<specFile, saved, episode>>
    BY <1>6 DEF Record, TypeOK, Counted
  <2>2. Retries' + Uncounted' + lost' = Retries + Uncounted + lost
    BY <2>1 DEF Retries, Uncounted, TypeOK
  <2>3. Bounded'
    BY <2>1, <2>2 DEF Bounded
  <2> QED
    BY <1>6, <2>1, <2>3 DEF Record, TypeOK, Counted, SpecKnown
<1>7. CASE Full
  BY <1>7 DEF Full, TypeOK, Counted, Bounded, SpecKnown, Retries, Uncounted
<1>8. CASE CleanCount
  <2>1. /\ Retries' = 0 /\ Uncounted' = 0 /\ lost' = 0 /\ \A s \in Specs : failures'[s] = 0
        /\ failures' \in [Specs -> Nat]
    BY <1>8 DEF CleanCount, Retries, Uncounted
  <2>2. Bounded'
    BY <2>1 DEF Bounded
  <2> QED
    BY <1>8, <2>1, <2>2 DEF CleanCount, TypeOK, Counted, SpecKnown
<1>9. CASE CleanSpec
  BY <1>9 DEF CleanSpec, TypeOK, Counted, Bounded, SpecKnown, Retries, Uncounted
<1>10. CASE Kill
  <2>1. lost' \in 0 .. MaxLost /\ Retries' + Uncounted' + lost' = Retries + Uncounted + lost
    BY <1>10 DEF Kill, TypeOK, Retries, Uncounted
  <2>2. Bounded'
    BY <1>10, <2>1 DEF Kill, Bounded
  <2>3. TypeOK'
    <3>1. 0 \in 0 .. MAX_RETRY - 1 /\ unrecorded' \in BOOLEAN
      BY <1>10 DEF Kill
    <3> QED
      BY Zenon, <1>10, <2>1, <3>1 DEF Kill, TypeOK
  <2>4. SpecKnown'
    BY Zenon, <1>10 DEF Kill, SpecKnown
  <2> QED
    BY <1>10, <2>2, <2>3, <2>4 DEF Kill, Counted
<1>11. CASE UNCHANGED vars
  BY <1>11 DEF vars, TypeOK, Counted, Bounded, SpecKnown, Retries, Uncounted
<1> QED
  BY <1>1, <1>2, <1>3, <1>4, <1>5, <1>6, <1>7, <1>8, <1>9, <1>10, <1>11 DEF Next

LEMMA Invariance == Spec => []IInv
  BY InitIInv, NextIInv, PTL DEF Spec

\* run-tests.sh:40-58: every file and variable of the hook has its type: the
\* retry file never counts beyond the limit, for any number of specs.
THEOREM HookTypes == Spec => []TypeOK
<1>1. IInv => TypeOK
  BY DEF IInv
<1> QED
  BY <1>1, Invariance, PTL

\* harness-config.json:11: no two specs together fail more often than the limit
\* allows before somebody is asked for help, the runs killed before line 45 apart.
THEOREM HookLimit == Spec => []LimitHolds
<1>1. IInv => LimitHolds
  <2> SUFFICES ASSUME IInv, NEW s \in Specs, NEW t \in Specs, s # t
               PROVE  failures[s] + failures[t] <= MAX_RETRY + lost
    BY DEF LimitHolds
  <2>1. failures[s] + failures[t] <= Retries + Uncounted + lost
    BY DEF IInv, Bounded
  <2>2. Retries + Uncounted \in 0 .. MAX_RETRY
    BY DEF IInv, Counted, Retries, Uncounted, TypeOK, MAX_RETRY
  <2> QED
    BY <2>1, <2>2, BoundAssumption DEF IInv, TypeOK, MAX_RETRY
<1> QED
  BY <1>1, Invariance, PTL

\* run-tests.sh:22, 38: the hook tests the spec that was saved last, unless the
\* run of that save was killed before line 22, and never an empty pattern.
THEOREM HookTarget == Spec => []TestsTheSavedSpec
<1>1. IInv => TestsTheSavedSpec
  BY DEF IInv, SpecKnown, TestsTheSavedSpec
<1> QED
  BY <1>1, Invariance, PTL

\* With one spec file there are as many failures as the count and the killed say.
Exact == \A s \in Specs : failures[s] = Retries + Uncounted + lost

LEMMA NextExact ==
    ASSUME \A s, t \in Specs : s = t
    PROVE  IInv /\ Exact /\ [Next]_vars => Exact'
<1> SUFFICES ASSUME IInv, Exact, [Next]_vars PROVE Exact'
  OBVIOUS
<1>1. ASSUME UNCHANGED <<retryFile, failures, lost>>, Uncounted' = Uncounted PROVE Exact'
  BY <1>1 DEF Exact, Retries
<1>2. CASE Unit
  <2>1. CASE pc' = "failed" /\ failures' = [failures EXCEPT ![specFile] = @ + 1]
    <3>1. /\ specFile \in Specs /\ failures \in [Specs -> Nat] /\ pc = "unit"
          /\ UNCHANGED <<retryFile, lost>> /\ lost \in Nat /\ Retries \in Nat
      BY <1>2, BoundAssumption DEF Unit, IInv, TypeOK, SpecKnown, Retries, files
    <3>2. \A s \in Specs : failures'[s] = failures[s] + 1
      BY <2>1, <3>1
    <3>3. Retries' = Retries /\ Uncounted' = 1 /\ Uncounted = 0
      BY <2>1, <3>1 DEF Retries, Uncounted
    <3> QED
      BY <3>1, <3>2, <3>3 DEF Exact
  <2> QED
    BY <1>1, <1>2, <2>1 DEF Unit, files, Uncounted
<1>3. CASE Record
  <2>1. Retries' + Uncounted' + lost' = Retries + Uncounted + lost
    BY <1>3, NullAssumption, BoundAssumption
       DEF Record, IInv, TypeOK, Counted, Retries, Uncounted, episode, MAX_RETRY
  <2> QED
    BY <1>3, <2>1 DEF Record, episode, Exact
<1>4. CASE CleanCount
  <2>1. Retries' = 0 /\ Uncounted' = 0 /\ lost' = 0 /\ \A s \in Specs : failures'[s] = 0
    BY <1>4 DEF CleanCount, Retries, Uncounted
  <2> QED
    BY <2>1 DEF Exact
<1>5. CASE Kill
  <2>1. Retries' + Uncounted' + lost' = Retries + Uncounted + lost
    BY <1>5, BoundAssumption DEF Kill, IInv, TypeOK, Retries, Uncounted, files, MAX_RETRY
  <2> QED
    BY <1>5, <2>1 DEF Kill, Exact
<1>6. ASSUME NEW s \in Specs, SaveSpec(s) PROVE Exact'
  BY <1>1, <1>6 DEF SaveSpec, files, episode, Uncounted
<1>7. CASE SaveImpl \/ WriteSpec \/ Count \/ Full \/ CleanSpec \/ UNCHANGED vars
  BY <1>1, <1>7 DEF SaveImpl, WriteSpec, Count, Full, CleanSpec, vars, files, episode, Uncounted
<1> QED
  BY <1>2, <1>3, <1>4, <1>5, <1>6, <1>7 DEF Next

\* README.md:212: somebody is asked for help only after MAX_RETRY failures of
\* the spec at hand, if it is the only one: what spoils the claim is the count
\* that all specs share.
THEOREM HookAttempts ==
    ASSUME \A s, t \in Specs : s = t
    PROVE  Spec => AttemptsPerSpec
<1>1. ASSUME Init PROVE Exact
  <2>1. Retries + Uncounted + lost = 0 /\ \A s \in Specs : failures[s] = 0
    BY <1>1 DEF Init, Retries, Uncounted
  <2> QED
    BY <2>1 DEF Exact
<1>2. IInv /\ Exact /\ [Next]_vars =>
        [told' = "stop" /\ told # "stop" => failures[specFile] >= MAX_RETRY]_vars
  <2> SUFFICES ASSUME IInv, Exact, Next, told' = "stop", told # "stop"
               PROVE  failures[specFile] >= MAX_RETRY
    OBVIOUS
  <2>1. Count /\ Exhausted(Retries)
    BY DEF Next, SaveSpec, SaveImpl, WriteSpec, Count, Unit, Record, Full, CleanCount,
           CleanSpec, Kill, Retries
  <2>2. specFile \in Specs
    BY <2>1 DEF Count, IInv, TypeOK, SpecKnown
  <2>3. /\ failures[specFile] = Retries + Uncounted + lost
        /\ Retries \in Nat /\ Uncounted \in Nat /\ lost \in Nat
    BY <2>2, BoundAssumption DEF Exact, Retries, Uncounted, IInv, TypeOK, MAX_RETRY
  <2> QED
    BY <2>1, <2>3 DEF Exhausted, MAX_RETRY
<1> QED
  BY <1>1, <1>2, InitIInv, NextIInv, NextExact, PTL DEF Spec, AttemptsPerSpec
=============================================================================
