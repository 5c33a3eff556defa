---------------------------- MODULE TestRetryHook ----------------------------
(***************************************************************************)
(* .harness/hooks/run-tests.sh, run after every file an agent saves: it    *)
(* tests the spec that was saved, and while that fails, tests it again     *)
(* after every change of an implementation file, up to MAX_RETRY times.    *)
(* Its memory between two runs is two files.  The agent waits for a run to *)
(* end before it saves again; a run may be killed at any point.            *)
(***************************************************************************)
EXTENDS Integers

CONSTANTS
    Specs, NULL,   \* spec files
    MaxLost        \* bound on the runs killed between a failure and its count

ASSUME NullAssumption == NULL \notin Specs \cup Nat
ASSUME BoundAssumption == MaxLost \in Nat

MAX_RETRY == 10

VARIABLES
    retryFile,    \* .harness/.retry-count, NULL if there is none
    specFile,     \* .harness/.current-spec
    pc,           \* where the hook is
    count,
    told,         \* what it said last
    lastSaved,    \* (history) the spec file saved last
    unrecorded,   \* (history) its run was killed before it was recorded
    failures,     \* (history) failed unit tests of each spec, and those whose
    lost          \*   run was killed before it counted, in this episode

files == <<retryFile, specFile>>
saved == <<lastSaved, unrecorded>>
episode == <<failures, lost>>
vars == <<files, pc, count, told, saved, episode>>

-----------------------------------------------------------------------------
\* An agent saves a spec file, and the hook is run.
SaveSpec(s) ==
    /\ pc = "idle"
    /\ lastSaved' = s
    /\ unrecorded' = FALSE
    /\ pc' = "spec"
    /\ UNCHANGED <<files, count, told, episode>>

\* It saves a file under src/: of interest only while retrying.
SaveImpl ==
    /\ pc = "idle"
    /\ retryFile # NULL
    /\ pc' = "count"
    /\ UNCHANGED <<files, count, told, saved, episode>>

WriteSpec ==
    /\ pc = "spec"
    /\ specFile' = lastSaved
    /\ pc' = "count"
    /\ UNCHANGED <<retryFile, count, told, saved, episode>>

ExhaustedLate(n) == n > MAX_RETRY   \* slip: -gt
Exhausted(n) == n >= MAX_RETRY

\* The retries made so far decide between a test and an escalation.
Count ==
    /\ pc = "count"
    /\ LET n == IF retryFile = NULL THEN 0 ELSE retryFile
       IN  \/ /\ Exhausted(n)
              /\ told' = "stop"
              /\ pc' = "clean"
              /\ UNCHANGED count
           \/ /\ ~Exhausted(n)
              /\ count' = n
              /\ pc' = "unit"
              /\ UNCHANGED told
    /\ UNCHANGED <<files, saved, episode>>

\* STEP 1: the current spec alone.
Unit ==
    /\ pc = "unit"
    /\ \/ /\ failures' = [failures EXCEPT ![specFile] = @ + 1]
          /\ pc' = "failed"
       \/ /\ UNCHANGED failures
          /\ pc' = "full"
    /\ UNCHANGED <<files, count, told, saved, lost>>

\* Its failure is counted and reported.
RecordUncounted ==   \* slip: the count is kept in the shell only
    /\ pc = "failed"
    /\ retryFile' = count
    /\ told' = "fix"
    /\ pc' = "idle"
    /\ count' = 0
    /\ UNCHANGED <<specFile, saved, episode>>
Record ==
    /\ pc = "failed"
    /\ retryFile' = count + 1
    /\ told' = IF count + 1 < MAX_RETRY THEN "fix" ELSE "final"
    /\ pc' = "idle"
    /\ count' = 0
    /\ UNCHANGED <<specFile, saved, episode>>

\* STEP 2: all tests, the last step however it ends.
Full ==
    /\ pc = "full"
    /\ told' \in {"regression", "green"}
    /\ pc' = "clean"
    /\ UNCHANGED <<files, count, saved, episode>>

\* rm -f removes one file after the other; without the first an episode is over.
CleanKeepsCount ==   \* slip: the count is left behind
    /\ pc = "clean"
    /\ specFile' = NULL
    /\ pc' = "cleaned"
    /\ UNCHANGED <<retryFile, count, told, saved, episode>>
CleanCount ==
    /\ pc = "clean"
    /\ retryFile' = NULL
    /\ failures' = [s \in Specs |-> 0]
    /\ lost' = 0
    /\ pc' = "cleaned"
    /\ UNCHANGED <<specFile, count, told, saved>>
CleanSpec ==
    /\ pc = "cleaned"
    /\ specFile' = NULL
    /\ pc' = "idle"
    /\ count' = 0
    /\ UNCHANGED <<retryFile, told, saved, episode>>

\* The run is killed, by a time limit or by hand.
Kill ==
    /\ pc # "idle"
    /\ pc = "failed" => lost < MaxLost
    /\ lost' = IF pc = "failed" THEN lost + 1 ELSE lost
    /\ unrecorded' = (unrecorded \/ pc = "spec")
    /\ pc' = "idle"
    /\ count' = 0
    /\ UNCHANGED <<files, told, lastSaved, failures>>

Init ==
    /\ retryFile = NULL
    /\ specFile = NULL
    /\ pc = "idle"
    /\ count = 0
    /\ told = "none"
    /\ lastSaved = NULL
    /\ unrecorded = FALSE
    /\ failures = [s \in Specs |-> 0]
    /\ lost = 0

Next ==
    \/ (\E s \in Specs : SaveSpec(s)) \/ SaveImpl
    \/ WriteSpec \/ Count \/ Unit \/ Record \/ Full \/ CleanCount \/ CleanSpec
    \/ Kill

Spec == Init /\ [][Next]_vars

-----------------------------------------------------------------------------
\* The type of every variable: the file never counts beyond the limit.
TypeOK ==
    /\ retryFile \in (1 .. MAX_RETRY) \cup {NULL}
    /\ specFile \in Specs \cup {NULL}
    /\ pc \in {"idle", "spec", "count", "unit", "failed", "full", "clean", "cleaned"}
    /\ count \in 0 .. MAX_RETRY - 1
    /\ told \in {"none", "fix", "final", "stop", "regression", "green"}
    /\ lastSaved \in Specs \cup {NULL}
    /\ unrecorded \in BOOLEAN
    /\ failures \in [Specs -> Nat]
    /\ lost \in 0 .. MaxLost

\* harness-config.json:11: an episode of self-healing has at most MAX_RETRY
\* failed tests, over all specs and however often runs are killed, but for those
\* whose own run was killed between the failure and its count.
LimitHolds == \A s, t \in Specs : s # t => failures[s] + failures[t] <= MAX_RETRY + lost

\* run-tests.sh:22, 38: a test runs the spec saved last, also after a change of
\* another file and whatever an earlier run left behind, unless the run of that
\* save was killed before line 22; and it never runs without a spec.
TestsTheSavedSpec ==
    pc \in {"unit", "failed", "full"} =>
        specFile # NULL /\ (specFile = lastSaved \/ unrecorded)

\* run-tests.sh:53: after `last attempt' the next save runs the final test.
FinalTestRuns == [][told = "final" /\ told' # told => told' # "stop"]_vars

\* README.md:212: a feature's spec has MAX_RETRY attempts before escalation.
AttemptsPerSpec ==
    [][told' = "stop" /\ told # "stop" => failures[specFile] >= MAX_RETRY]_vars
=============================================================================
