------------------------- MODULE UserAccountsProofs -------------------------
(***************************************************************************)
(* What UserAccounts promises, for any number of processes, calls, deaths, *)
(* failures and redeliveries:                                              *)
(*   IInv     a login id names at most one account;                        *)
(*   LockInv  which locks an execution holds at which query, so that no    *)
(*            two wait for each other;                                     *)
(*   AInv     what an execution has read and written at each query, and    *)
(*            what the tables say of every call that is made.              *)
(***************************************************************************)
EXTENDS UserAccounts, FiniteSetTheorems, TLAPS

DP == INSTANCE DeliveryProofs

\* The row an execution has inserted and not committed.
Holds(e, u) == mine[e].user # NULL /\ u = mine[e].user

\* What the unique key keeps out is settled at the insert, before the commit:
\* an inserted login id is in no committed row and in no other insert.
Reserved ==
    \A e \in Executions : \A u : Holds(e, u) =>
        /\ "login_id" \in DOMAIN u
        /\ \A v \in t_user : v.login_id # u.login_id
        /\ \A f \in Executions : \A v : Holds(f, v) /\ v.login_id = u.login_id => f = e

Shape ==
    /\ \A u \in t_user : "login_id" \in DOMAIN u
    /\ DOMAIN mine = Executions
    /\ \A e \in Executions : DOMAIN mine[e] = {"user", "device", "session", "root"}

IInv == Shape /\ LoginIdUnique /\ Reserved

LEMMA InitIInv == Init => IInv
<1> SUFFICES ASSUME Init PROVE IInv
  OBVIOUS
<1>1. \A e \in Executions : mine[e] = NoRows
  BY DEF Init
<1>2. \A e \in Executions : mine[e].user = NULL
  BY <1>1 DEF NoRows
<1>3. \A s \in Staff : DOMAIN StaffRow[s] =
          {"user_id", "login_id", "login_pw", "auth_id", "state_id", "device"}
  BY StaffAssumption DEF UserEntity
<1>4. Shape
  BY <1>1, <1>3 DEF Init, NoRows, Shape
<1>5. LoginIdUnique
  BY StaffAssumption DEF Init, LoginIdUnique
<1> QED
  BY <1>2, <1>4, <1>5 DEF IInv, Reserved, Holds

\* Nothing changes in the table, and nobody holds a row it did not hold.
LEMMA NothingNew ==
    ASSUME IInv, t_user' = t_user, Shape',
           \A e \in Executions : mine'[e].user \in {NULL, mine[e].user}
    PROVE  IInv'
<1>1. \A e \in Executions : \A u : Holds(e, u)' => Holds(e, u)
  BY DEF Holds
<1> QED
  BY <1>1 DEF IInv, LoginIdUnique, Reserved

\* An execution that is left holds nothing.
LEMMA LeaveKeeps ==
    ASSUME IInv, NEW e \in Executions, Leave(e)
    PROVE  /\ DOMAIN mine' = Executions
           /\ mine'[e] = NoRows
           /\ \A f \in Executions \ {e} : mine'[f] = mine[f]
           /\ \A f \in Executions : mine'[f].user \in {NULL, mine[f].user}
           /\ \A f \in Executions : DOMAIN mine'[f] = {"user", "device", "session", "root"}
BY DEF IInv, Shape, Leave, NoRows

LEMMA ThrowKeeps == ASSUME IInv, NEW e \in Executions, NEW why, Throw(e, why) PROVE IInv'
<1>1. t_user' = t_user /\ Leave(e)
  BY DEF Throw, tables
<1> QED
  BY <1>1, LeaveKeeps, NothingNew DEF IInv, Shape

\* A query that writes anything but a user.
LEMMA WriteKeeps ==
    ASSUME IInv, NEW e \in Executions, NEW row, NEW field \in {"device", "session", "root"},
           Write(e, field, row), t_user' = t_user
    PROVE  IInv'
<1>1. /\ DOMAIN mine' = Executions
      /\ mine'[e] = [mine[e] EXCEPT ![field] = row]
      /\ \A f \in Executions \ {e} : mine'[f] = mine[f]
  BY DEF Write, IInv, Shape
<1>2. DOMAIN mine'[e] = DOMAIN mine[e] /\ mine'[e].user = mine[e].user
  BY <1>1 DEF IInv, Shape
<1> QED
  BY <1>1, <1>2, NothingNew DEF IInv, Shape

LEMMA InsertKeeps == ASSUME IInv, NEW e \in Executions, InsertUser(e) PROVE IInv'
<1>1. CASE DuplicateLogin(e) /\ Throw(e, "duplicate")
  BY <1>1, ThrowKeeps
<1>2. CASE ~DuplicateLogin(e) /\ Write(e, "user", UserRow(e)) /\ Proceed(e, "commit")
  <2>1. t_user' = t_user
    BY <1>2 DEF Proceed, tables
  <2>2. /\ DOMAIN mine' = Executions
        /\ mine'[e] = [mine[e] EXCEPT !["user"] = UserRow(e)]
        /\ \A f \in Executions \ {e} : mine'[f] = mine[f]
    BY <1>2 DEF Write, IInv, Shape
  <2>3. DOMAIN mine'[e] = DOMAIN mine[e] /\ mine'[e].user = UserRow(e)
    BY <2>2 DEF IInv, Shape
  <2>4. Shape'
    BY <2>1, <2>2, <2>3 DEF IInv, Shape
  <2>5. "login_id" \in DOMAIN UserRow(e) /\ UserRow(e).login_id = Req(e).login_id
    BY DEF UserRow
  <2>6. \A v \in t_user : v.login_id # Req(e).login_id
    BY <1>2 DEF DuplicateLogin, FindOne
  <2>7. \A f \in Executions \ {e} : \A v : Holds(f, v)' =>
            Holds(f, v) /\ v.login_id # Req(e).login_id
    BY <2>2 DEF InsertUser, SameLogin, Holds
  <2>8. \A v : Holds(e, v)' => v = UserRow(e)
    BY <2>3 DEF Holds
  <2>9. Reserved'
    BY <2>1, <2>5, <2>6, <2>7, <2>8 DEF IInv, Reserved
  <2> QED
    BY <2>1, <2>4, <2>9 DEF IInv, LoginIdUnique
<1> QED
  BY <1>1, <1>2 DEF InsertUser

\* A patch leaves every login id where it was.
LEMMA PatchedRows ==
    ASSUME IInv, NEW id, NEW device, NEW u \in Patched(id, device)
    PROVE  /\ "login_id" \in DOMAIN u
           /\ \E v \in t_user : v.login_id = u.login_id
           /\ \A w \in Patched(id, device) : w.login_id = u.login_id => w = u
<1> DEFINE P(v) == IF v.user_id = id THEN [v EXCEPT !.device = device] ELSE v
<1>1. \A v \in t_user : "login_id" \in DOMAIN P(v) /\ P(v).login_id = v.login_id
  BY DEF IInv, Shape
<1>2. PICK v \in t_user : u = P(v)
  BY DEF Patched
<1>3. ASSUME NEW w \in Patched(id, device), w.login_id = u.login_id PROVE w = u
  <2>1. PICK x \in t_user : w = P(x)
    BY DEF Patched
  <2>2. x.login_id = v.login_id
    BY <1>1, <1>2, <1>3, <2>1
  <2> QED
    BY <1>2, <2>1, <2>2 DEF IInv, LoginIdUnique
<1> QED
  BY <1>1, <1>2, <1>3

LEMMA CommitKeeps == ASSUME IInv, NEW e \in Executions, Commit(e) PROVE IInv'
<1> DEFINE Old == IF mine[e].device = NULL THEN t_user
                  ELSE Patched(found[e].user_id, mine[e].device)
           New == {mine[e].user} \ {NULL}
<1>1. t_user' = New \cup Old /\ Leave(e)
  BY DEF Commit
<1>2. \A u \in Old : /\ "login_id" \in DOMAIN u
                     /\ \E v \in t_user : v.login_id = u.login_id
                     /\ \A w \in Old : w.login_id = u.login_id => w = u
  BY PatchedRows DEF IInv, Shape, LoginIdUnique
<1>3. \A u \in New : Holds(e, u)
  BY DEF Holds
<1>4. \A u \in New : "login_id" \in DOMAIN u /\ \A v \in Old : v.login_id # u.login_id
  BY <1>2, <1>3 DEF IInv, Reserved
<1>5. Shape'
  BY <1>1, <1>2, <1>4, LeaveKeeps DEF Shape
<1>6. LoginIdUnique'
  BY <1>1, <1>2, <1>4 DEF LoginIdUnique
<1>7. \A f \in Executions : \A u : Holds(f, u)' => Holds(f, u) /\ f # e
  BY <1>1, LeaveKeeps DEF Holds, NoRows
<1>8. \A f \in Executions : \A u : Holds(f, u)' => \A v \in New \cup Old : v.login_id # u.login_id
  BY <1>2, <1>3, <1>7 DEF IInv, Reserved
<1>9. Reserved'
  BY <1>1, <1>7, <1>8 DEF IInv, Reserved
<1> QED
  BY <1>5, <1>6, <1>9 DEF IInv

LEMMA CrashKeeps == ASSUME IInv, NEW x \in Workers, Crash(x) PROVE IInv'
<1>1. /\ t_user' = t_user
      /\ mine' = [e \in Executions |-> IF e[1] = x THEN NoRows ELSE mine[e]]
  BY DEF Crash, tables
<1>2. /\ DOMAIN NoRows = {"user", "device", "session", "root"}
      /\ NoRows.user = NULL
  BY DEF NoRows
<1>3. Shape'
  BY <1>1, <1>2 DEF IInv, Shape
<1> QED
  BY <1>1, <1>2, <1>3, NothingNew

LEMMA DismissKeeps == ASSUME IInv, NEW id, Dismiss(id) PROVE IInv'
<1>1. PICK u \in t_user : t_user' = (t_user \ {u}) \cup {[u EXCEPT !.state_id = "RESIGNED"]}
  BY DEF Dismiss
<1> DEFINE w == [u EXCEPT !.state_id = "RESIGNED"]
<1>2. mine' = mine
  BY DEF Dismiss, local
<1>3. "login_id" \in DOMAIN w /\ w.login_id = u.login_id
  BY DEF IInv, Shape
<1>4. Shape'
  BY <1>1, <1>2, <1>3 DEF IInv, Shape
<1>5. LoginIdUnique'
  BY <1>1, <1>3 DEF IInv, LoginIdUnique
<1>6. Reserved'
  BY <1>1, <1>2, <1>3 DEF IInv, Reserved, Holds
<1> QED
  BY <1>4, <1>5, <1>6 DEF IInv

LEMMA NextIInv == IInv /\ [Next]_vars => IInv'
<1> SUFFICES ASSUME IInv, [Next]_vars PROVE IInv'
  OBVIOUS
<1>1. ASSUME UNCHANGED <<t_user, mine>> PROVE IInv'
  BY <1>1, NothingNew DEF IInv, Shape
<1>2. ASSUME NEW c \in Calls, Submit(c) \/ Deliver(c) PROVE IInv'
  BY <1>1, <1>2 DEF Submit, Deliver, tables, local
<1>3. ASSUME NEW e \in Executions, Begin(e) PROVE IInv'
  BY <1>1, <1>3 DEF Begin, tables
<1>4. ASSUME NEW e \in Executions, Query(e) PROVE IInv'
  <2>1. CASE FindLogin(e)
    BY <1>1, <2>1, ThrowKeeps DEF FindLogin, Proceed, tables
  <2>2. CASE FindUser(e)
    BY <1>1, <2>2, ThrowKeeps DEF FindUser, Proceed, tables
  <2>3. CASE CheckState(e)
    BY <1>1, <2>3, ThrowKeeps DEF CheckState, Proceed, tables
  <2>4. CASE InsertRefresh(e)
    BY <2>4, WriteKeeps DEF InsertRefresh, Proceed, tables
  <2> QED
    BY <1>4, <2>1, <2>2, <2>3, <2>4 DEF Query
<1>5. ASSUME NEW e \in Executions, Locking(e) PROVE IInv'
  <2>1. CASE InsertUser(e)
    BY <2>1, InsertKeeps
  <2>2. CASE UpdateDevice(e)
    BY <2>2, WriteKeeps DEF UpdateDevice, Proceed, tables
  <2>3. CASE InsertSession(e)
    BY <2>3, WriteKeeps DEF InsertSession, Proceed, tables
  <2> QED
    BY <1>5, <2>1, <2>2, <2>3 DEF Locking
<1>6. ASSUME NEW e \in Executions, DbFailure(e) PROVE IInv'
  BY <1>6, ThrowKeeps DEF DbFailure
<1>7. CASE UNCHANGED vars
  BY <1>1, <1>7 DEF vars, tables, local
<1> QED
  BY <1>2, <1>3, <1>4, <1>5, <1>6, <1>7, CommitKeeps, CrashKeeps, DismissKeeps DEF Next

\* user.repository.ts:41: two creations that both saw no such login id do not
\* both make it, for any number of processes, calls, failures and redeliveries.
THEOREM LoginIdsUnique == Spec => []LoginIdUnique
<1>1. IInv => LoginIdUnique
  BY DEF IInv
<1> QED
  BY <1>1, InitIInv, NextIInv, PTL DEF Spec

-----------------------------------------------------------------------------
\* Every step of a request is one of the queue's, or none.
LEMMA QueueStep == [Next]_vars => [DP!Next]_(DP!delivery)
<1> SUFFICES ASSUME [Next]_vars PROVE [DP!Next]_(DP!delivery)
  OBVIOUS
<1> USE DEF D!Answer, DP!Answer, D!OpenOf, DP!OpenOf, D!Spent, DP!Spent
<1>1. ASSUME UNCHANGED queue PROVE [DP!Next]_(DP!delivery)
  BY <1>1 DEF queue, DP!delivery
<1>2. ASSUME NEW c \in Calls, Submit(c) PROVE DP!Next
  BY <1>2 DEF Submit, DP!Next, D!Queue, DP!Queue, D!Fail, DP!Fail, D!Run, DP!Run
<1>3. ASSUME NEW c \in Calls, Deliver(c) PROVE DP!Next
  BY <1>3 DEF Deliver, DP!Next, D!Drop, DP!Drop, D!Redeliver, DP!Redeliver, D!Tell, DP!Tell,
     D!Fail, DP!Fail
<1>4. ASSUME NEW e \in Executions, Begin(e) PROVE DP!Next
  BY <1>4 DEF Begin, DP!Next, D!Begin, DP!Begin, Executions
<1>5. ASSUME NEW e \in Executions, NEW why, Throw(e, why) PROVE DP!Next
  BY <1>5 DEF Throw, DP!Next, D!End, DP!End, Executions
<1>6. ASSUME NEW e \in Executions, Commit(e) PROVE DP!Next
  BY <1>6 DEF Commit, DP!Next, D!End, DP!End, Executions
<1>7. ASSUME NEW e \in Executions, Query(e) \/ Locking(e) PROVE [DP!Next]_(DP!delivery)
  BY <1>1, <1>5, <1>7 DEF Query, Locking, FindLogin, FindUser, CheckState,
     InsertRefresh, InsertUser, UpdateDevice, InsertSession, Proceed
<1>8. ASSUME NEW x \in Workers, Crash(x) PROVE DP!Next
  BY <1>8 DEF Crash, DP!Next, D!Crash, DP!Crash
<1>9. ASSUME NEW id, Dismiss(id) PROVE UNCHANGED queue
  BY <1>9 DEF Dismiss
<1>10. CASE UNCHANGED vars
  BY <1>1, <1>10 DEF vars
<1> QED
  BY <1>1, <1>2, <1>3, <1>4, <1>5, <1>6, <1>7, <1>8, <1>9, <1>10 DEF Next, DbFailure

\* So what holds of the queue holds of it here.
LEMMA QueueKeeps == ASSUME IsFiniteSet(Workers), DP!IInv, [Next]_vars PROVE DP!IInv'
<1>1. [DP!Next]_(DP!delivery)
  BY QueueStep
<1>2. DP!IsFiniteSet(Workers)
  BY DEF IsFiniteSet, DP!IsFiniteSet
<1> QED
  BY <1>1, <1>2, DP!NextIInv

\* Which locks an execution holds at which of its queries.
LocksAt(e) ==
    /\ mine[e].user # NULL => step[e] = "commit"
    /\ mine[e].device # NULL => step[e] \in {"session", "refresh", "commit"}
    /\ mine[e].session # NULL => step[e] \in {"refresh", "commit"}
    /\ step[e] = "device" => Req(e).device # NULL
    /\ step[e] # "none" => e \in open

Locks == \A e \in Executions : LocksAt(e)

\* A patched row is patched by nobody else.
Exclusive ==
    \A e, f \in Executions :
        mine[e].device # NULL /\ Patches(f, found[e].user_id) => e = f

LocalShape ==
    /\ DOMAIN step = Executions /\ DOMAIN found = Executions /\ DOMAIN mine = Executions
    /\ \A e \in Executions : DOMAIN mine[e] = {"user", "device", "session", "root"}

LockInv == LocalShape /\ Locks /\ Exclusive /\ DP!IInv

\* What others do leaves an execution as it is.
Same(f) ==
    /\ step'[f] = step[f] /\ found'[f] = found[f] /\ mine'[f] = mine[f]
    /\ Req(f)' = Req(f) /\ (f \in open => f \in open')

\* One execution moves, and patches no row that another has patched.
LEMMA OneMoves ==
    ASSUME LockInv, LocalShape', DP!IInv', NEW e \in Executions,
           \A f \in Executions \ {e} : Same(f),
           LocksAt(e)',
           mine'[e].device = NULL \/ (mine'[e].device = mine[e].device /\ found'[e] = found[e])
    PROVE  LockInv'
<1>1. \A f \in Executions \ {e} : LocksAt(f)'
  BY DEF LockInv, Locks, LocksAt, Same
<1>2. Exclusive'
  BY DEF LockInv, Exclusive, Patches, Same
<1> QED
  BY <1>1, <1>2 DEF LockInv, Locks

\* signIn's order of writes.
LEMMA Order ==
    ASSUME NEW e
    PROVE  /\ step[e] = "device" /\ Req(e).device # NULL => After(e) = "session"
           /\ step[e] = "session" => After(e) = "refresh"
           /\ step[e] = "refresh" => After(e) = "commit"
           /\ Head(Writes(Req(e))) \in {"device", "session"}
           /\ Head(Writes(Req(e))) = "device" => Req(e).device # NULL
<1>1. CASE Req(e).device = NULL
  BY <1>1 DEF After, Writes
<1>2. CASE Req(e).device # NULL
  BY <1>2 DEF After, Writes
<1> QED
  BY <1>1, <1>2

LEMMA ThrowUnlocks ==
    ASSUME LockInv, DP!IInv', NEW e \in Executions, Leave(e), open' = open \ {e},
           request' = request
    PROVE  LockInv'
<1>1. /\ LocalShape' /\ mine'[e] = NoRows /\ step'[e] = "none"
      /\ \A f \in Executions \ {e} : Same(f)
  BY DEF LockInv, LocalShape, Leave, Goto, NoRows, Same, Req
<1>2. LocksAt(e)' /\ mine'[e].device = NULL
  BY <1>1 DEF LocksAt, NoRows
<1> QED
  BY <1>1, <1>2, OneMoves

LEMMA ThrowLocks ==
    ASSUME LockInv, DP!IInv', NEW e \in Executions, NEW why, Throw(e, why)
    PROVE  LockInv'
<1>1. Leave(e) /\ open' = open \ {e} /\ request' = request
  BY DEF Throw, D!End, Executions
<1> QED
  BY <1>1, ThrowUnlocks

\* An execution that only reads moves to its next query.
LEMMA ReadLocks ==
    ASSUME LockInv, DP!IInv', NEW e \in Executions, NEW s, Proceed(e, s), mine' = mine,
           step[e] \in {"lookup", "state"}, DOMAIN found' = Executions,
           \A f \in Executions \ {e} : found'[f] = found[f],
           s = "device" => Req(e).device # NULL
    PROVE  LockInv'
<1>1. /\ LocalShape' /\ step'[e] = s /\ open' = open /\ request' = request
      /\ \A f \in Executions \ {e} : Same(f)
  BY DEF LockInv, LocalShape, Proceed, Goto, Same, Req, queue, calls
<1>2. LocksAt(e)' /\ mine'[e].device = NULL
  BY <1>1 DEF LockInv, Locks, LocksAt, Req
<1> QED
  BY <1>1, <1>2, OneMoves

\* Writing a row leaves the others as they are.
LEMMA Written ==
    ASSUME LockInv, NEW e \in Executions, NEW field \in {"user", "device", "session", "root"},
           NEW row, NEW s, Write(e, field, row), Proceed(e, s), found' = found
    PROVE  /\ LocalShape' /\ step'[e] = s /\ open' = open /\ Req(e)' = Req(e)
           /\ mine'[e] = [mine[e] EXCEPT ![field] = row]
           /\ \A f \in Executions \ {e} : Same(f)
<1>1. /\ DOMAIN mine' = Executions
      /\ mine'[e] = [mine[e] EXCEPT ![field] = row]
      /\ \A f \in Executions \ {e} : mine'[f] = mine[f]
  BY DEF Write, LockInv, LocalShape
<1>2. /\ DOMAIN step' = Executions /\ step'[e] = s
      /\ \A f \in Executions \ {e} : step'[f] = step[f]
  BY DEF Proceed, Goto, LockInv, LocalShape
<1>3. open' = open /\ request' = request
  BY DEF Proceed, queue, calls
<1> QED
  BY <1>1, <1>2, <1>3 DEF LockInv, LocalShape, Same, Req

LEMMA InsertLocks ==
    ASSUME LockInv, DP!IInv', NEW e \in Executions, InsertUser(e) PROVE LockInv'
<1>1. CASE Throw(e, "duplicate")
  BY <1>1, ThrowLocks
<1>2. CASE Write(e, "user", UserRow(e)) /\ Proceed(e, "commit") /\ found' = found
  <2>1. /\ LocalShape' /\ step'[e] = "commit" /\ open' = open
        /\ mine'[e] = [mine[e] EXCEPT !["user"] = UserRow(e)]
        /\ \A f \in Executions \ {e} : Same(f)
    BY <1>2, Written
  <2>2. mine'[e].device = mine[e].device /\ mine'[e].session = mine[e].session
    BY <2>1 DEF LockInv, LocalShape
  <2>3. LocksAt(e)'
    BY <2>1, <2>2 DEF LockInv, Locks, LocksAt, InsertUser
  <2> QED
    BY <1>2, <2>1, <2>2, <2>3, OneMoves
<1> QED
  BY <1>1, <1>2 DEF InsertUser

LEMMA PatchLocks ==
    ASSUME LockInv, DP!IInv', NEW e \in Executions, UpdateDevice(e) PROVE LockInv'
<1>1. Req(e).device # NULL /\ After(e) = "session"
  BY Order DEF UpdateDevice, LockInv, Locks, LocksAt
<1>2. /\ LocalShape' /\ step'[e] = "session" /\ open' = open
      /\ mine'[e] = [mine[e] EXCEPT !["device"] = Req(e).device]
      /\ \A f \in Executions \ {e} : Same(f)
  BY <1>1, Written DEF UpdateDevice
<1>3. mine'[e].user = mine[e].user /\ mine'[e].session = mine[e].session
  BY <1>2 DEF LockInv, LocalShape
<1>4. LocksAt(e)' /\ \A f \in Executions \ {e} : LocksAt(f)'
  BY <1>2, <1>3 DEF LockInv, Locks, LocksAt, UpdateDevice, Same
<1>5. \A f \in Executions \ {e} : ~Patches(f, found[e].user_id)
  BY DEF UpdateDevice
<1>6. Exclusive'
  BY <1>2, <1>5 DEF LockInv, Exclusive, Patches, Same, UpdateDevice
<1> QED
  BY <1>2, <1>4, <1>6 DEF LockInv, Locks

LEMMA SessionLocks ==
    ASSUME LockInv, DP!IInv', NEW e \in Executions, InsertSession(e) \/ InsertRefresh(e)
    PROVE  LockInv'
<1>1. PICK field \in {"session", "root"} : \E row :
          /\ Write(e, field, row) /\ Proceed(e, After(e)) /\ found' = found
          /\ step[e] = IF field = "session" THEN "session" ELSE "refresh"
  BY DEF InsertSession, InsertRefresh
<1>2. After(e) = IF field = "session" THEN "refresh" ELSE "commit"
  BY <1>1, Order
<1>3. PICK row : Write(e, field, row)
  BY <1>1
<1>4. /\ LocalShape' /\ step'[e] = After(e) /\ open' = open
      /\ mine'[e] = [mine[e] EXCEPT ![field] = row]
      /\ \A f \in Executions \ {e} : Same(f)
  BY <1>1, <1>3, Written
<1>5. mine'[e].user = mine[e].user /\ mine'[e].device = mine[e].device
  BY <1>4 DEF LockInv, LocalShape
<1>6. LocksAt(e)'
  BY <1>1, <1>2, <1>4, <1>5 DEF LockInv, Locks, LocksAt
<1> QED
  BY <1>1, <1>4, <1>5, <1>6, OneMoves

\* A call that is not made has no execution, nor a delivery to begin one.
LEMMA NotMade ==
    ASSUME LockInv, NEW e \in Executions, answer[e[2]] = "none" \/ Begin(e)
    PROVE  step[e] = "none"
<1>1. e[1] \in Workers /\ e[2] \in Calls /\ e = <<e[1], e[2]>>
  BY DEF Executions
<1>2. e \notin open
  BY <1>1 DEF LockInv, DP!IInv, DP!TypeOK, DP!Fresh, DP!OpenOf, Begin, D!Begin
<1> QED
  BY <1>2 DEF LockInv, Locks, LocksAt

LEMMA SubmitLocks ==
    ASSUME LockInv, DP!IInv', NEW c \in Calls, Submit(c) PROVE LockInv'
<1>1. /\ answer[c] = "none" /\ open \subseteq open'
      /\ found' = found /\ mine' = mine
  BY DEF Submit, D!Queue, D!Fail, D!Run
<1>2. \A f \in Executions : f[2] = c => step[f] = "none"
  BY <1>1, NotMade
<1>3. ASSUME NEW f \in Executions
      PROVE  /\ step'[f] = step[f] \/ (f[2] = c /\ step'[f] = "lookup" /\ f \in open')
             /\ f[2] # c => Req(f)' = Req(f)
  <2>1. f[2] # c => Req(f)' = Req(f)
    BY DEF Submit, Req
  <2>2. CASE UNCHANGED step
    BY <2>1, <2>2
  <2>3. ASSUME NEW x \in Workers, D!Run(x, c), Goto(<<x, c>>, "lookup")
        PROVE  step'[f] = step[f] \/ (f[2] = c /\ step'[f] = "lookup" /\ f \in open')
    BY <2>3 DEF D!Run, Goto, LockInv, LocalShape
  <2> QED
    BY <2>1, <2>2, <2>3 DEF Submit
<1>4. LocalShape'
  BY <1>1 DEF Submit, Goto, LockInv, LocalShape
<1>5. \A f \in Executions : LocksAt(f)'
  BY <1>1, <1>2, <1>3 DEF LockInv, Locks, LocksAt
<1> QED
  BY <1>1, <1>4, <1>5 DEF LockInv, Locks, Exclusive, Patches

LEMMA BeginLocks ==
    ASSUME LockInv, DP!IInv', NEW e \in Executions, Begin(e) PROVE LockInv'
<1>1. step[e] = "none"
  BY NotMade
<1>2. /\ LocalShape' /\ step'[e] = "lookup" /\ mine' = mine /\ found' = found /\ e \in open'
      /\ \A f \in Executions \ {e} : Same(f)
  BY DEF Begin, D!Begin, Goto, LockInv, LocalShape, Same, Req, calls, Executions
<1>3. LocksAt(e)'
  BY <1>1, <1>2 DEF LockInv, Locks, LocksAt
<1> QED
  BY <1>2, <1>3, OneMoves

LEMMA CrashLocks ==
    ASSUME LockInv, DP!IInv', NEW x \in Workers, Crash(x) PROVE LockInv'
<1>1. /\ open' = {e \in open : e[1] # x}
      /\ step' = [e \in Executions |-> IF e[1] = x THEN "none" ELSE step[e]]
      /\ found' = [e \in Executions |-> IF e[1] = x THEN NULL ELSE found[e]]
      /\ mine' = [e \in Executions |-> IF e[1] = x THEN NoRows ELSE mine[e]]
  BY DEF Crash, D!Crash
<1>2. /\ DOMAIN NoRows = {"user", "device", "session", "root"}
      /\ NoRows.user = NULL /\ NoRows.device = NULL /\ NoRows.session = NULL
  BY DEF NoRows
<1>3. LocalShape'
  BY <1>1, <1>2 DEF LockInv, LocalShape
<1>4. ASSUME NEW e \in Executions, step'[e] # "none" PROVE e \in open' /\ Req(e)' = Req(e)
  <2>1. e[2] \in Calls /\ step[e] # "none" /\ e \in open /\ e[1] # x /\ e \in open'
    BY <1>1, <1>4 DEF LockInv, Locks, LocksAt, Executions
  <2>2. answer'[e[2]] # "none"
    BY <2>1, <1>4 DEF LockInv, DP!IInv, DP!Fresh, DP!OpenOf, Executions
  <2> QED
    BY <2>1, <2>2 DEF Crash, Req
<1>5. ASSUME NEW e \in Executions PROVE LocksAt(e)'
  BY <1>1, <1>2, <1>4 DEF LockInv, Locks, LocksAt
<1>6. Exclusive'
  BY <1>1, <1>2 DEF LockInv, Exclusive, Patches
<1> QED
  BY <1>3, <1>5, <1>6 DEF LockInv, Locks

LEMMA InitLocks == ASSUME IsFiniteSet(Workers) PROVE Init => LockInv
<1> SUFFICES ASSUME Init PROVE LockInv
  OBVIOUS
<1>1. DP!IInv
  BY DP!InitIInv DEF Init, D!Init, DP!Init
<1>2. \A e \in Executions : mine[e] = NoRows /\ step[e] = "none"
  BY DEF Init
<1> QED
  BY <1>1, <1>2 DEF Init, NoRows, LockInv, LocalShape, Locks, LocksAt, Exclusive

LEMMA NextLocks == ASSUME IsFiniteSet(Workers) PROVE LockInv /\ [Next]_vars => LockInv'
<1> SUFFICES ASSUME LockInv, [Next]_vars PROVE LockInv'
  OBVIOUS
<1>1. DP!IInv'
  BY QueueKeeps DEF LockInv
<1>2. ASSUME UNCHANGED <<open, request, local>> PROVE LockInv'
  BY <1>1, <1>2 DEF LockInv, LocalShape, Locks, LocksAt, Exclusive, Patches, Req, local
<1>3. ASSUME NEW c \in Calls, Deliver(c) PROVE LockInv'
  BY <1>2, <1>3 DEF Deliver, D!Drop, D!Redeliver, D!Tell, D!Fail, calls
<1>4. ASSUME NEW e \in Executions, Query(e) PROVE LockInv'
  <2>1. CASE FindLogin(e)
    BY <1>1, <2>1, ThrowLocks, ReadLocks DEF FindLogin, LockInv, LocalShape
  <2>2. CASE FindUser(e)
    <3>1. CASE \E why : Throw(e, why)
      BY <1>1, <3>1, ThrowLocks
    <3>2. ASSUME NEW u, found' = [found EXCEPT ![e] = u], Proceed(e, "state"), mine' = mine
          PROVE  LockInv'
      BY <1>1, <2>2, <3>2, ReadLocks DEF FindUser, LockInv, LocalShape
    <3> QED
      BY <2>2, <3>1, <3>2 DEF FindUser
  <2>3. CASE CheckState(e)
    <3>1. CASE Throw(e, "restricted")
      BY <1>1, <3>1, ThrowLocks
    <3>2. CASE Proceed(e, Head(Writes(Req(e)))) /\ found' = found /\ mine' = mine
      BY <1>1, <2>3, <3>2, ReadLocks, Order DEF CheckState, LockInv, LocalShape
    <3> QED
      BY <2>3, <3>1, <3>2 DEF CheckState
  <2>4. CASE InsertRefresh(e)
    BY <1>1, <2>4, SessionLocks
  <2> QED
    BY <1>4, <2>1, <2>2, <2>3, <2>4 DEF Query
<1>5. ASSUME NEW e \in Executions, Locking(e) PROVE LockInv'
  BY <1>1, <1>5, InsertLocks, PatchLocks, SessionLocks DEF Locking
<1>6. ASSUME NEW id, Dismiss(id) PROVE LockInv'
  BY <1>2, <1>6 DEF Dismiss, queue, calls
<1>7. CASE UNCHANGED vars
  BY <1>2, <1>7 DEF vars, queue, calls
<1>8. ASSUME NEW e \in Executions, Commit(e) PROVE LockInv'
  <2>1. Leave(e) /\ open' = open \ {e} /\ request' = request
    BY <1>8 DEF Commit, D!End, calls, Executions
  <2> QED
    BY <1>1, <2>1, ThrowUnlocks
<1> QED
  BY <1>1, <1>3, <1>4, <1>5, <1>6, <1>7, <1>8, SubmitLocks, BeginLocks, CrashLocks, ThrowLocks
  DEF Next, DbFailure

\* user.service.ts:84: sign-ins of one user patch the row before they refer to
\* it, so that no set of them, however large, waits for its own locks: whoever
\* is waited for waits, if at all, for one that waits for nobody.
THEOREM DeadlockFree == ASSUME IsFiniteSet(Workers) PROVE Spec => []NoDeadlock
<1>1. LockInv => NoDeadlock
  <2> SUFFICES ASSUME LockInv,
                      NEW S \in SUBSET {e \in Executions : step[e] # "none"},
                      \A e \in S : \E f \in S : WaitsFor(e, f),
                      NEW e \in S
               PROVE  FALSE
    BY DEF NoDeadlock
  <2>1. ASSUME NEW f \in S, mine[f].device # NULL PROVE FALSE
    <3>1. PICK g \in S : WaitsFor(f, g)
      OBVIOUS
    <3>2. Patches(g, found[f].user_id) /\ g # f
      BY <2>1, <3>1 DEF WaitsFor, LockInv, Locks, LocksAt
    <3> QED
      BY <2>1, <3>2 DEF LockInv, Exclusive
  <2>2. ASSUME NEW f \in S, step[f] \in {"refresh", "commit"} PROVE FALSE
    BY <2>2 DEF WaitsFor
  <2>3. PICK f \in S : WaitsFor(e, f)
    OBVIOUS
  <2>4. mine[f].user # NULL \/ mine[f].device # NULL \/ mine[f].session # NULL
    BY <2>3 DEF WaitsFor, SameLogin, Patches, Refers
  <2> QED
    BY <2>1, <2>2, <2>4 DEF LockInv, Locks, LocksAt
<1> QED
  BY <1>1, InitLocks, NextLocks, PTL DEF Spec

-----------------------------------------------------------------------------
(* What the tables say of the calls.                                       *)

\* A user made by a call bears an id of that call.
MadeIn(id, c) == id \notin Staff /\ id[1][2] = c

\* An execution between its look at the login id and its commit.
Creating(e) ==
    /\ Req(e).op = "create"
    /\ found[e] = NULL
    /\ mine[e].user \in UserEntity
    /\ mine[e].user.user_id \in {e} \X Nat
    /\ mine[e].user.login_id = Req(e).login_id
    /\ mine[e].user.device = NULL
    /\ mine[e].device = NULL /\ mine[e].session = NULL /\ ~mine[e].root

\* A sign-in of a user who was found: what it has written at which query.
Signing(e) ==
    /\ Req(e).op = "signIn"
    /\ found[e] \in UserEntity /\ found[e].user_id \in Users
    /\ found[e].state_id = "ACTIVE" => found[e].user_id \notin seen[e[2]].barred
    /\ step[e] # "state" => found[e].state_id = "ACTIVE"
    /\ mine[e].user = NULL
    /\ mine[e].device = IF step[e] \in {"state", "device"} THEN NULL ELSE Req(e).device
    /\ step[e] \in {"state", "device", "session"} => mine[e].session = NULL
    /\ step[e] \in {"refresh", "commit"} =>
          /\ mine[e].session \in SessionEntity
          /\ mine[e].session.session_id \in {e} \X Nat
          /\ mine[e].session.user_id = found[e].user_id
          /\ mine[e].session.device = Req(e).device
    /\ mine[e].root <=> step[e] = "commit"

Progress(e) ==
    /\ step[e] # "none" <=> e \in open
    /\ step[e] \in {"none", "lookup", "user"} => found[e] = NULL /\ mine[e] = NoRows
    /\ step[e] = "user" => Req(e).op = "create"
    /\ step[e] \in {"state", "device", "session", "refresh"} => Signing(e)
    /\ step[e] = "commit" => Creating(e) \/ Signing(e)

\* A call that is not made has left nothing.
Made(c) ==
    /\ request[c] = NULL <=> answer[c] = "none"
    /\ answer[c] = "none" => threw[c] = {}

\* Its rows are there exactly if its transaction was committed.
Accounts(c) ==
    /\ \A u \in t_user : MadeIn(u.user_id, c) =>
          Asks(c, "create") /\ applied[c] > 0 /\ u.login_id = request[c].login_id
    /\ Asks(c, "create") /\ applied[c] > 0 => \E u \in t_user : MadeIn(u.user_id, c)

SignIns(c) ==
    /\ \A n \in DOMAIN t_session : MadeIn(t_session[n].session_id, c) =>
          /\ Asks(c, "signIn") /\ applied[c] > 0
          /\ t_session[n].user_id \notin seen[c].barred
    /\ Asks(c, "signIn") /\ applied[c] > 0 =>
          \E n \in DOMAIN t_session : MadeIn(t_session[n].session_id, c)

\* What was so when it was made is so for good.
Before(c) ==
    request[c] # NULL =>
        /\ \A id \in seen[c].barred :
              id \in Users /\ \A u \in t_user : u.user_id = id => u.state_id # "ACTIVE"
        /\ \A l \in seen[c].created : \E u \in t_user : u.login_id = l
        /\ request[c].op = "create" =>
              /\ request[c].by \notin seen[c].barred
              /\ \E u \in t_user : u.user_id = request[c].by /\ u.auth_id # "USER"

Reasoned(c) ==
    /\ "duplicate" \in threw[c] =>
          \E u \in t_user : /\ u.login_id = request[c].login_id
                            /\ MadeIn(u.user_id, c) => redelivered[c] > 0
    /\ "unknown" \in threw[c] => request[c].login_id \notin seen[c].created

CallOK(c) == Made(c) /\ Accounts(c) /\ SignIns(c) /\ Before(c) /\ Reasoned(c)

TablesOK ==
    /\ t_user \subseteq UserEntity
    /\ \A u, v \in t_user : u.user_id = v.user_id => u = v
    /\ t_session \in Seq(SessionEntity)
    /\ \A n \in DOMAIN t_session : t_session[n].user_id \in Users
    /\ Sessions = t_session_refresh
    /\ LatestDevice

FunctionsOK ==
    /\ request \in [Calls -> Requests \cup {NULL}]
    /\ DOMAIN seen = Calls
    /\ threw \in [Calls -> SUBSET Reasons]
    /\ step \in [Executions -> Steps]

AInv ==
    /\ IInv /\ LockInv /\ TablesOK /\ FunctionsOK
    /\ \A e \in Executions : Progress(e)
    /\ \A c \in Calls : CallOK(c)

-----------------------------------------------------------------------------
(* What does not change.                                                   *)

Unmoved(f) ==
    /\ step'[f] = step[f] /\ found'[f] = found[f] /\ mine'[f] = mine[f]
    /\ f \in open' <=> f \in open
    /\ step[f] # "none" => request'[f[2]] = request[f[2]] /\ seen'[f[2]] = seen[f[2]]

CallSame(c) ==
    /\ request'[c] = request[c] /\ seen'[c] = seen[c] /\ threw'[c] = threw[c]
    /\ applied'[c] = applied[c]
    /\ redelivered[c] > 0 => redelivered'[c] > 0
    /\ answer'[c] = "none" <=> answer[c] = "none"

\* A row that became another of the same user.
Is(u, v) ==
    /\ v.user_id = u.user_id /\ v.login_id = u.login_id /\ v.auth_id = u.auth_id
    /\ u.state_id # "ACTIVE" => v.state_id # "ACTIVE"

RowsKept == \A u \in t_user : \E v \in t_user' : Is(u, v)
SessionsKept ==
    \A n \in DOMAIN t_session : n \in DOMAIN t_session' /\ t_session'[n] = t_session[n]

LEMMA NewIds ==
    \A e \in Executions : \A id \in {e} \X Nat :
        id \in Ids /\ id \notin Staff /\ \A c : MadeIn(id, c) <=> c = e[2]
<1> SUFFICES ASSUME NEW e \in Executions, NEW n \in Nat, NEW id, id = <<e, n>>
             PROVE  id \in Ids /\ id \notin Staff /\ \A c : MadeIn(id, c) <=> c = e[2]
  OBVIOUS
<1>1. id \in Executions \X Nat
  OBVIOUS
<1>2. id \notin Staff /\ id \in Ids
  BY <1>1, StaffAssumption DEF Ids
<1>3. id[1] = e
  OBVIOUS
<1> QED
  BY <1>2, <1>3 DEF MadeIn

LEMMA UnmovedProgress ==
    Users \subseteq Users' => \A f \in Executions : Progress(f) /\ Unmoved(f) => Progress(f)'
<1> SUFFICES ASSUME Users \subseteq Users', NEW f \in Executions, Progress(f), Unmoved(f)
             PROVE  Progress(f)'
  OBVIOUS
<1>1. step[f] # "none" => Req(f)' = Req(f)
  BY DEF Unmoved, Req
<1>2. step[f] # "none" /\ Signing(f) => Signing(f)'
  BY <1>1 DEF Unmoved, Signing
<1>3. step[f] # "none" /\ Creating(f) => Creating(f)'
  BY <1>1 DEF Unmoved, Creating
<1> QED
  BY <1>1, <1>2, <1>3 DEF Progress, Unmoved

LEMMA MadeKept == \A c \in Calls : Made(c) /\ CallSame(c) => Made(c)'
BY DEF Made, CallSame

LEMMA AccountsKept ==
    ASSUME NEW c \in Calls, Accounts(c), CallSame(c), RowsKept,
           \A v \in t_user' : MadeIn(v.user_id, c) => \E u \in t_user : Is(u, v)
    PROVE  Accounts(c)'
<1>1. Asks(c, "create")' <=> Asks(c, "create")
  BY DEF Asks, CallSame
<1>2. \A v \in t_user' : MadeIn(v.user_id, c) =>
          Asks(c, "create") /\ applied[c] > 0 /\ v.login_id = request[c].login_id
  BY DEF Accounts, Is
<1>3. Asks(c, "create") /\ applied[c] > 0 => \E v \in t_user' : MadeIn(v.user_id, c)
  BY DEF Accounts, RowsKept, Is
<1> QED
  BY <1>1, <1>2, <1>3 DEF Accounts, CallSame

LEMMA SignInsKept ==
    ASSUME NEW c \in Calls, SignIns(c), CallSame(c), SessionsKept,
           \A n \in DOMAIN t_session' : MadeIn(t_session'[n].session_id, c) =>
               n \in DOMAIN t_session /\ t_session'[n] = t_session[n]
    PROVE  SignIns(c)'
<1>1. Asks(c, "signIn")' <=> Asks(c, "signIn")
  BY DEF Asks, CallSame
<1>2. \A n \in DOMAIN t_session' : MadeIn(t_session'[n].session_id, c) =>
          /\ Asks(c, "signIn") /\ applied[c] > 0
          /\ t_session'[n].user_id \notin seen[c].barred
  BY DEF SignIns
<1>3. Asks(c, "signIn") /\ applied[c] > 0 =>
          \E n \in DOMAIN t_session' : MadeIn(t_session'[n].session_id, c)
  BY DEF SignIns, SessionsKept
<1> QED
  BY <1>1, <1>2, <1>3 DEF SignIns, CallSame

LEMMA BeforeKept ==
    ASSUME NEW c \in Calls, Before(c), RowsKept, request'[c] = request[c], seen'[c] = seen[c],
           \A v \in t_user' : v.user_id \in Users => \E u \in t_user : Is(u, v)
    PROVE  Before(c)'
<1> SUFFICES ASSUME request[c] # NULL
             PROVE  /\ \A id \in seen[c].barred :
                          id \in Users' /\ \A v \in t_user' : v.user_id = id => v.state_id # "ACTIVE"
                    /\ \A l \in seen[c].created : \E v \in t_user' : v.login_id = l
                    /\ request[c].op = "create" =>
                          /\ request[c].by \notin seen[c].barred
                          /\ \E v \in t_user' : v.user_id = request[c].by /\ v.auth_id # "USER"
  BY DEF Before
<1>1. Users \subseteq Users'
  BY DEF Users, RowsKept, Is
<1>2. ASSUME NEW id \in seen[c].barred
      PROVE  id \in Users' /\ \A v \in t_user' : v.user_id = id => v.state_id # "ACTIVE"
  <2>1. id \in Users /\ \A u \in t_user : u.user_id = id => u.state_id # "ACTIVE"
    BY <1>2 DEF Before
  <2> QED
    BY <1>1, <2>1 DEF Is
<1>3. \A l \in seen[c].created : \E v \in t_user' : v.login_id = l
  BY DEF Before, RowsKept, Is
<1>4. request[c].op = "create" =>
          /\ request[c].by \notin seen[c].barred
          /\ \E v \in t_user' : v.user_id = request[c].by /\ v.auth_id # "USER"
  BY DEF Before, RowsKept, Is
<1> QED
  BY <1>2, <1>3, <1>4

LEMMA ReasonedKept ==
    ASSUME NEW c \in Calls, Reasoned(c), RowsKept,
           request'[c] = request[c], seen'[c] = seen[c],
           threw'[c] \subseteq threw[c] \cup {"failed"},
           redelivered[c] > 0 => redelivered'[c] > 0
    PROVE  Reasoned(c)'
<1>1. ASSUME "duplicate" \in threw[c]
      PROVE  \E v \in t_user' : /\ v.login_id = request[c].login_id
                                /\ MadeIn(v.user_id, c) => redelivered'[c] > 0
  <2>1. PICK u \in t_user : /\ u.login_id = request[c].login_id
                            /\ MadeIn(u.user_id, c) => redelivered[c] > 0
    BY <1>1 DEF Reasoned
  <2>2. PICK v \in t_user' : Is(u, v)
    BY DEF RowsKept
  <2> QED
    BY <2>1, <2>2 DEF Is
<1> QED
  BY <1>1 DEF Reasoned

\* Tables that do not change.
LEMMA RowsSame ==
    t_user' = t_user /\ t_session' = t_session =>
        /\ RowsKept /\ SessionsKept /\ Users' = Users
        /\ \A v \in t_user' : \E u \in t_user : Is(u, v)
BY DEF RowsKept, SessionsKept, Is, Users

LEMMA CallKept ==
    ASSUME NEW c \in Calls, CallOK(c), CallSame(c), t_user' = t_user, t_session' = t_session
    PROVE  CallOK(c)'
BY RowsSame, MadeKept, AccountsKept, SignInsKept, BeforeKept, ReasonedKept DEF CallOK, CallSame

LEMMA TablesKept == TablesOK /\ UNCHANGED tables => TablesOK' /\ Users' = Users
BY DEF TablesOK, tables, Users, Sessions, LatestDevice, MobileSessions

\* A step that leaves the tables as they are.
LEMMA Preserved ==
    ASSUME AInv, IInv', LockInv', FunctionsOK', UNCHANGED tables,
           \A f \in Executions : Unmoved(f) \/ Progress(f)',
           \A c \in Calls : CallSame(c) \/ CallOK(c)'
    PROVE  AInv'
<1>1. TablesOK' /\ Users' = Users
  BY TablesKept DEF AInv
<1>2. \A f \in Executions : Progress(f)'
  BY <1>1, UnmovedProgress DEF AInv
<1>3. \A c \in Calls : CallOK(c)'
  BY CallKept DEF AInv, tables
<1> QED
  BY <1>1, <1>2, <1>3 DEF AInv

-----------------------------------------------------------------------------
(* An execution moves.                                                     *)

LEMMA RequestTypes ==
    \A r \in Requests :
        /\ r.op \in {"create", "signIn"} /\ r.login_id \in STRING /\ r.login_pw \in STRING
        /\ r.op = "create" => r.auth_id \in AuthIds
        /\ r.op = "signIn" => r.device \in {NULL} \cup STRING
BY RequestAssumption DEF Request

\* Whoever is at work knows its request.
LEMMA Working ==
    ASSUME AInv, NEW e \in Executions, step[e] # "none"
    PROVE  /\ e = <<e[1], e[2]>> /\ e[1] \in Workers /\ e[2] \in Calls /\ e \in open
           /\ Req(e) \in Requests /\ Req(e) # NULL /\ answer[e[2]] # "none"
<1>1. e = <<e[1], e[2]>> /\ e[1] \in Workers /\ e[2] \in Calls
  BY DEF Executions
<1>2. e \in open
  BY DEF AInv, Progress
<1>3. answer[e[2]] # "none"
  BY <1>1, <1>2 DEF AInv, LockInv, DP!IInv, DP!Fresh, DP!OpenOf
<1>4. CallOK(e[2])
  BY <1>1 DEF AInv
<1> QED
  BY <1>1, <1>2, <1>3, <1>4 DEF CallOK, Made, Req, AInv, FunctionsOK

\* Another execution of the call made in its own id, and no more of it.
LEMMA MovesOn ==
    ASSUME AInv, IInv', LockInv', NEW e \in Executions, NEW s \in Steps, Proceed(e, s),
           \A f \in Executions \ {e} : found'[f] = found[f] /\ mine'[f] = mine[f],
           Progress(e)'
    PROVE  AInv'
<1>1. \A f \in Executions \ {e} : Unmoved(f)
  BY DEF Proceed, Goto, AInv, LockInv, LocalShape, Unmoved, queue, calls
<1>2. \A c \in Calls : CallSame(c)
  BY DEF Proceed, CallSame, queue, calls
<1>3. FunctionsOK' /\ UNCHANGED tables
  BY DEF Proceed, Goto, AInv, FunctionsOK, calls
<1> QED
  BY <1>1, <1>2, <1>3, Preserved

\* Where a query leads, in the terms of Progress.
LEMMA AtNext ==
    ASSUME AInv, NEW e \in Executions, NEW s \in Steps \ {"none"}, Proceed(e, s),
           step[e] # "none"
    PROVE  /\ step'[e] = s /\ e \in open /\ e \in open' /\ Req(e)' = Req(e)
           /\ seen' = seen /\ Users' = Users
           /\ UNCHANGED <<request, open>>
BY DEF Proceed, Goto, AInv, LockInv, LocalShape, Progress, queue, calls, tables, Req, Users

\* A write, in the terms of Progress.
LEMMA AtWrite ==
    ASSUME AInv, NEW e \in Executions, NEW field \in {"user", "device", "session", "root"},
           NEW row, Write(e, field, row)
    PROVE  /\ \A f \in Executions \ {e} : mine'[f] = mine[f]
           /\ mine'[e][field] = row
           /\ \A g \in {"user", "device", "session", "root"} \ {field} : mine'[e][g] = mine[e][g]
<1>1. /\ mine'[e] = [mine[e] EXCEPT ![field] = row]
      /\ \A f \in Executions \ {e} : mine'[f] = mine[f]
  BY DEF Write, AInv, LockInv, LocalShape
<1>2. DOMAIN mine[e] = {"user", "device", "session", "root"}
  BY DEF AInv, LockInv, LocalShape
<1> QED
  BY <1>1, <1>2

LEMMA FindLoginMoves ==
    ASSUME AInv, IInv', LockInv', NEW e \in Executions, FindLogin(e), Proceed(e, "user"),
           UNCHANGED <<found, mine>>
    PROVE  AInv'
<1>1. step[e] = "lookup" /\ Req(e).op = "create"
  BY DEF FindLogin
<1>2. step'[e] = "user" /\ e \in open' /\ Req(e)' = Req(e)
  BY <1>1, AtNext DEF Steps
<1>3. found[e] = NULL /\ mine[e] = NoRows
  BY <1>1 DEF AInv, Progress
<1>4. Progress(e)'
  BY <1>1, <1>2, <1>3 DEF Progress, Steps
<1> QED
  BY <1>4, MovesOn DEF Steps

LEMMA UserRowType ==
    ASSUME AInv, NEW e \in Executions, step[e] = "user"
    PROVE  /\ UserRow(e) \in UserEntity /\ UserRow(e) # NULL
           /\ UserRow(e).user_id \in {e} \X Nat
           /\ UserRow(e).login_id = Req(e).login_id /\ UserRow(e).device = NULL
<1>1. Req(e) \in Requests /\ Req(e).op = "create" /\ e[2] \in Calls
  BY Working DEF AInv, Progress
<1>2. applied[e[2]] \in Nat
  BY <1>1 DEF AInv, LockInv, DP!IInv, DP!TypeOK
<1>3. <<e, applied[e[2]]>> \in {e} \X Nat /\ <<e, applied[e[2]]>> \in Ids
  BY <1>2, NewIds
<1>4. /\ Req(e).login_id \in STRING /\ Req(e).login_pw \in STRING
      /\ Req(e).auth_id \in AuthIds
  BY <1>1, RequestTypes
<1>5. UserRow(e) \in UserEntity
  BY <1>3, <1>4 DEF UserRow, UserEntity, StateIds
<1>6. UserRow(e) # NULL
  BY <1>5, NullAssumption
<1> QED
  BY <1>3, <1>5, <1>6 DEF UserRow

LEMMA InsertUserMoves ==
    ASSUME AInv, IInv', LockInv', NEW e \in Executions, step[e] = "user",
           Write(e, "user", UserRow(e)), Proceed(e, "commit"), UNCHANGED found
    PROVE  AInv'
<1>1. step'[e] = "commit" /\ e \in open' /\ Req(e)' = Req(e)
  BY AtNext DEF Steps
<1>2. found[e] = NULL /\ mine[e] = NoRows /\ Req(e).op = "create"
  BY DEF AInv, Progress
<1>3. /\ \A f \in Executions \ {e} : mine'[f] = mine[f]
      /\ mine'[e]["user"] = UserRow(e)
      /\ \A g \in {"user", "device", "session", "root"} \ {"user"} : mine'[e][g] = mine[e][g]
  BY AtWrite
<1>4. /\ mine'[e].user = UserRow(e) /\ mine'[e].device = NULL /\ mine'[e].session = NULL
      /\ mine'[e].root = FALSE
  BY <1>2, <1>3 DEF NoRows
<1>5. Creating(e)'
  BY <1>1, <1>2, <1>4, UserRowType DEF Creating
<1>6. Progress(e)'
  BY <1>1, <1>5 DEF Progress, Steps
<1> QED
  BY <1>3, <1>6, MovesOn DEF Steps

LEMMA FindUserMoves ==
    ASSUME AInv, IInv', LockInv', NEW e \in Executions, step[e] = "lookup",
           Req(e).op = "signIn", NEW u \in t_user,
           found' = [found EXCEPT ![e] = u], Proceed(e, "state"), UNCHANGED mine
    PROVE  AInv'
<1>1. step'[e] = "state" /\ e \in open' /\ Req(e)' = Req(e) /\ seen' = seen /\ Users' = Users
  BY AtNext DEF Steps
<1>2. mine[e] = NoRows
  BY DEF AInv, Progress
<1>3. found'[e] = u /\ \A f \in Executions \ {e} : found'[f] = found[f]
  BY DEF AInv, LockInv, LocalShape
<1>4. u \in UserEntity /\ u.user_id \in Users
  BY DEF AInv, TablesOK, Users
<1>5. u.state_id = "ACTIVE" => u.user_id \notin seen[e[2]].barred
  <2>1. e[2] \in Calls /\ request[e[2]] # NULL
    BY Working DEF Req
  <2> QED
    BY <2>1 DEF AInv, CallOK, Before
<1>6. Signing(e)'
  BY <1>1, <1>2, <1>3, <1>4, <1>5 DEF Signing, NoRows
<1>7. Progress(e)'
  BY <1>1, <1>6 DEF Progress, Steps
<1> QED
  BY <1>3, <1>7, MovesOn DEF Steps

LEMMA WritesOrder ==
    ASSUME NEW e
    PROVE  Head(Writes(Req(e))) = IF Req(e).device = NULL THEN "session" ELSE "device"
BY DEF Writes

LEMMA CheckStateMoves ==
    ASSUME AInv, IInv', LockInv', NEW e \in Executions, step[e] = "state",
           found[e].state_id \in LoginAble, Proceed(e, Head(Writes(Req(e)))),
           UNCHANGED <<found, mine>>
    PROVE  AInv'
<1> DEFINE s == IF Req(e).device = NULL THEN "session" ELSE "device"
<1>1. Proceed(e, s)
  BY WritesOrder
<1>2. /\ step'[e] = s /\ e \in open' /\ Req(e)' = Req(e) /\ seen' = seen /\ Users' = Users
  BY <1>1, AtNext DEF Steps
<1>3. Signing(e)
  BY DEF AInv, Progress
<1>4. Signing(e)'
  BY <1>2, <1>3 DEF Signing, LoginAble
<1>5. Progress(e)'
  BY <1>2, <1>4 DEF Progress, Steps
<1> QED
  BY <1>1, <1>5, MovesOn DEF Steps

LEMMA UpdateDeviceMoves ==
    ASSUME AInv, IInv', LockInv', NEW e \in Executions, UpdateDevice(e)
    PROVE  AInv'
<1>1. step[e] = "device" /\ Signing(e) /\ Req(e).device # NULL
  BY DEF UpdateDevice, AInv, Progress, LockInv, Locks, LocksAt
<1>2. Proceed(e, "session") /\ Write(e, "device", Req(e).device) /\ UNCHANGED found
  BY <1>1, Order DEF UpdateDevice
<1>3. step'[e] = "session" /\ e \in open' /\ Req(e)' = Req(e) /\ seen' = seen /\ Users' = Users
  BY <1>1, <1>2, AtNext DEF Steps
<1>4. /\ \A f \in Executions \ {e} : mine'[f] = mine[f]
      /\ mine'[e]["device"] = Req(e).device
      /\ \A g \in {"user", "device", "session", "root"} \ {"device"} : mine'[e][g] = mine[e][g]
  BY <1>2, AtWrite
<1>5. Signing(e)'
  BY <1>1, <1>2, <1>3, <1>4 DEF Signing
<1>6. Progress(e)'
  BY <1>3, <1>5 DEF Progress, Steps
<1> QED
  BY <1>2, <1>4, <1>6, MovesOn DEF Steps

LEMMA InsertSessionMoves ==
    ASSUME AInv, IInv', LockInv', NEW e \in Executions, InsertSession(e)
    PROVE  AInv'
<1> DEFINE row == [session_id |-> <<e, applied[e[2]]>>,
                   user_id |-> found[e].user_id, device |-> Req(e).device]
<1>1. step[e] = "session" /\ Signing(e)
  BY DEF InsertSession, AInv, Progress
<1>2. Proceed(e, "refresh") /\ Write(e, "session", row) /\ UNCHANGED found
  BY <1>1, Order DEF InsertSession
<1>3. step'[e] = "refresh" /\ e \in open' /\ Req(e)' = Req(e) /\ seen' = seen /\ Users' = Users
  BY <1>1, <1>2, AtNext DEF Steps
<1>4. /\ \A f \in Executions \ {e} : mine'[f] = mine[f]
      /\ mine'[e]["session"] = row
      /\ \A g \in {"user", "device", "session", "root"} \ {"session"} : mine'[e][g] = mine[e][g]
  BY <1>2, AtWrite
<1>5. row \in SessionEntity /\ row.session_id \in {e} \X Nat
  <2>1. e[2] \in Calls /\ Req(e) \in Requests
    BY <1>1, Working
  <2>2. applied[e[2]] \in Nat
    BY <2>1 DEF AInv, LockInv, DP!IInv, DP!TypeOK
  <2>3. <<e, applied[e[2]]>> \in {e} \X Nat /\ <<e, applied[e[2]]>> \in Ids
    BY <2>2, NewIds
  <2>4. Req(e).device \in {NULL} \cup STRING
    BY <1>1, <2>1, RequestTypes DEF Signing
  <2>5. found[e].user_id \in Ids
    BY <1>1 DEF Signing, UserEntity
  <2> QED
    BY <2>3, <2>4, <2>5 DEF SessionEntity
<1>6. Signing(e)'
  BY <1>1, <1>2, <1>3, <1>4, <1>5 DEF Signing
<1>7. Progress(e)'
  BY <1>3, <1>6 DEF Progress, Steps
<1> QED
  BY <1>2, <1>4, <1>7, MovesOn DEF Steps

LEMMA InsertRefreshMoves ==
    ASSUME AInv, IInv', LockInv', NEW e \in Executions, InsertRefresh(e)
    PROVE  AInv'
<1>1. step[e] = "refresh" /\ Signing(e)
  BY DEF InsertRefresh, AInv, Progress
<1>2. Proceed(e, "commit") /\ Write(e, "root", TRUE) /\ UNCHANGED found
  BY <1>1, Order DEF InsertRefresh
<1>3. step'[e] = "commit" /\ e \in open' /\ Req(e)' = Req(e) /\ seen' = seen /\ Users' = Users
  BY <1>1, <1>2, AtNext DEF Steps
<1>4. /\ \A f \in Executions \ {e} : mine'[f] = mine[f]
      /\ mine'[e]["root"] = TRUE
      /\ \A g \in {"user", "device", "session", "root"} \ {"root"} : mine'[e][g] = mine[e][g]
  BY <1>2, AtWrite
<1>5. Signing(e)'
  BY <1>1, <1>2, <1>3, <1>4 DEF Signing
<1>6. Progress(e)'
  BY <1>3, <1>5 DEF Progress, Steps
<1> QED
  BY <1>2, <1>4, <1>6, MovesOn DEF Steps

\* A failed query or a refusal ends an execution and writes nothing.
LEMMA ThrowMoves ==
    ASSUME IsFiniteSet(Workers), AInv, IInv', LockInv', NEW e \in Executions,
           NEW why \in Reasons, Throw(e, why), step[e] # "none",
           why = "duplicate" => FindOne(Req(e).login_id) # {},
           why = "unknown" => FindOne(Req(e).login_id) = {}
    PROVE  AInv'
<1> DEFINE c == e[2]
<1>1. /\ c \in Calls /\ e \in open /\ e[1] \in Workers /\ e = <<e[1], e[2]>>
      /\ request[c] # NULL /\ answer[c] # "none"
  BY Working DEF Req
<1>2. /\ open' = open \ {e} /\ applied' = applied /\ UNCHANGED <<answer, due, redelivered>>
      /\ Leave(e) /\ UNCHANGED <<tables, request, seen>>
      /\ threw' = [threw EXCEPT ![c] = @ \cup {why}]
  <2>1. applied' = [applied EXCEPT ![c] = IF FALSE THEN @ + 1 ELSE @]
    BY DEF Throw, D!End
  <2>2. applied' = applied
    BY <2>1 DEF AInv, LockInv, DP!IInv, DP!TypeOK
  <2> QED
    BY <1>1, <2>2 DEF Throw, D!End
<1>3. /\ step'[e] = "none" /\ found'[e] = NULL /\ mine'[e] = NoRows
      /\ \A f \in Executions \ {e} : Unmoved(f)
  BY <1>2 DEF Leave, Goto, AInv, LockInv, LocalShape, Unmoved
<1>4. Progress(e)'
  BY <1>2, <1>3 DEF Progress, Steps
<1>5. \A d \in Calls \ {c} : CallSame(d)
  BY <1>2 DEF CallSame, AInv, FunctionsOK
<1>6. CallOK(c)'
  <2>1. threw'[c] = threw[c] \cup {why}
    BY <1>1, <1>2 DEF AInv, FunctionsOK
  <2>2. t_user' = t_user /\ t_session' = t_session
    BY <1>2 DEF tables
  <2>3. CallOK(c)
    BY <1>1 DEF AInv
  <2>4. Made(c)'
    BY <1>1, <1>2, <2>1, <2>3 DEF CallOK, Made
  <2>5. Accounts(c)' /\ SignIns(c)' /\ Before(c)'
    BY <1>2, <2>2, <2>3 DEF CallOK, Accounts, SignIns, Before, Asks, Users
  <2>6. Reasoned(c)'
    <3>1. ASSUME why = "duplicate"
          PROVE  \E u \in t_user : /\ u.login_id = request[c].login_id
                                   /\ MadeIn(u.user_id, c) => redelivered[c] > 0
      <4>1. PICK u \in t_user : u.login_id = request[c].login_id
        BY <3>1 DEF FindOne, Req
      <4>2. ASSUME MadeIn(u.user_id, c) PROVE redelivered[c] > 0
        <5>1. applied[c] > 0
          BY <2>3, <4>2 DEF CallOK, Accounts
        <5>2. e[1] \in DP!OpenOf(c)
          BY <1>1 DEF DP!OpenOf
        <5>3. DP!IsFiniteSet(Workers)
          BY DEF IsFiniteSet, DP!IsFiniteSet
        <5>4. DP!IsFiniteSet(DP!OpenOf(c)) /\ DP!Cardinality(DP!OpenOf(c)) \in Nat
          BY <5>3, DP!OpenFinite
        <5>5. DP!Cardinality(DP!OpenOf(c)) # 0
          BY <5>2, <5>4, DP!FS_EmptySet
        <5>6. applied[c] + DP!Cardinality(DP!OpenOf(c)) + due[c] <= 1 + redelivered[c]
          BY <1>1 DEF AInv, LockInv, DP!IInv, DP!Counted
        <5>7. applied[c] \in Nat /\ due[c] \in Nat /\ redelivered[c] \in Nat
          BY <1>1 DEF AInv, LockInv, DP!IInv, DP!TypeOK
        <5> QED
          BY <5>1, <5>4, <5>5, <5>6, <5>7
      <4> QED
        BY <4>1, <4>2
    <3>2. ASSUME why = "unknown" PROVE request[c].login_id \notin seen[c].created
      BY <1>1, <2>3, <3>2 DEF CallOK, Before, FindOne, Req
    <3> QED
      BY <1>2, <2>1, <2>2, <2>3, <3>1, <3>2 DEF CallOK, Reasoned
  <2> QED
    BY <2>4, <2>5, <2>6 DEF CallOK
<1>7. FunctionsOK'
  BY <1>1, <1>2 DEF AInv, FunctionsOK, Leave, Goto, Steps
<1> QED
  BY <1>2, <1>3, <1>4, <1>5, <1>6, <1>7, Preserved

-----------------------------------------------------------------------------
(* The queue's steps, a death and a dismissal.                             *)

LEMMA BeginMoves ==
    ASSUME AInv, IInv', LockInv', NEW e \in Executions, Begin(e)
    PROVE  AInv'
<1>1. step[e] = "none"
  BY NotMade DEF AInv
<1>2. /\ open' = open \cup {e} /\ UNCHANGED <<answer, applied, redelivered, found, mine>>
      /\ UNCHANGED <<tables, request, seen, threw>> /\ Goto(e, "lookup")
  BY DEF Begin, D!Begin, calls, Executions
<1>3. step'[e] = "lookup" /\ \A f \in Executions \ {e} : Unmoved(f)
  BY <1>2 DEF Goto, AInv, LockInv, LocalShape, Unmoved
<1>4. found[e] = NULL /\ mine[e] = NoRows
  BY <1>1 DEF AInv, Progress
<1>5. Progress(e)'
  BY <1>2, <1>3, <1>4 DEF Progress, Steps
<1>6. FunctionsOK' /\ \A c \in Calls : CallSame(c)
  BY <1>2 DEF AInv, FunctionsOK, CallSame, Goto, Steps
<1> QED
  BY <1>2, <1>3, <1>5, <1>6, Preserved

LEMMA DeliverMoves ==
    ASSUME AInv, IInv', LockInv', NEW c \in Calls, Deliver(c)
    PROVE  AInv'
<1>1. /\ open' = open /\ applied' = applied /\ UNCHANGED <<tables, request, seen, threw>>
      /\ UNCHANGED <<step, found, mine>>
  BY DEF Deliver, D!Drop, D!Redeliver, D!Tell, D!Fail, calls, local
<1>2. \A f \in Executions : Unmoved(f)
  BY <1>1 DEF Unmoved
<1>3. /\ DOMAIN answer = Calls /\ DOMAIN redelivered = Calls
      /\ \A d \in Calls : redelivered[d] \in Nat
  BY DEF AInv, LockInv, DP!IInv, DP!TypeOK
<1>4. ASSUME NEW d \in Calls
      PROVE  /\ redelivered[d] > 0 => redelivered'[d] > 0
             /\ answer'[d] = "none" <=> answer[d] = "none"
  <2>1. CASE D!Drop(c)
    BY <2>1 DEF D!Drop
  <2>2. CASE D!Redeliver(c)
    BY <1>3, <2>2 DEF D!Redeliver
  <2>3. CASE D!Tell(c)
    BY <1>3, <2>3 DEF D!Tell, D!Answer
  <2>4. CASE D!Fail(c) /\ answer[c] # "none"
    BY <1>3, <2>4 DEF D!Fail, D!Answer
  <2> QED
    BY <2>1, <2>2, <2>3, <2>4 DEF Deliver
<1>5. FunctionsOK' /\ \A d \in Calls : CallSame(d)
  BY <1>1, <1>4 DEF AInv, FunctionsOK, CallSame
<1> QED
  BY <1>1, <1>2, <1>5, Preserved

\* A request that passed the guards.
LEMMA SubmitMoves ==
    ASSUME AInv, IInv', LockInv', NEW c \in Calls, Submit(c)
    PROVE  AInv'
<1>1. PICK r \in Requests : Admitted(r) /\ request' = [request EXCEPT ![c] = r]
  BY DEF Submit
<1>2. /\ answer[c] = "none" /\ answer'[c] \in {"queued", "direct", "failed"}
      /\ \A d \in Calls \ {c} : answer'[d] = answer[d]
      /\ UNCHANGED <<tables, threw, found, mine, applied, redelivered>>
  BY DEF Submit, D!Queue, D!Fail, D!Run, D!Answer, AInv, LockInv, DP!IInv, DP!TypeOK
<1>3. seen'[c] = [created |-> {request[d].login_id : d \in {d \in Calls : Told(d, "create")}},
                  barred |-> Barred]
      /\ \A d \in Calls \ {c} : seen'[d] = seen[d]
  BY DEF Submit, AInv, FunctionsOK
<1>4. request'[c] = r /\ r # NULL /\ \A d \in Calls \ {c} : request'[d] = request[d]
  BY <1>1, NullAssumption, RequestAssumption DEF AInv, FunctionsOK
<1>5. ASSUME NEW f \in Executions, f[2] = c PROVE step[f] = "none"
  BY <1>2, <1>5, NotMade DEF AInv
<1>6. ASSUME NEW f \in Executions PROVE Unmoved(f) \/ Progress(f)'
  <2>1. step[f] # "none" => request'[f[2]] = request[f[2]] /\ seen'[f[2]] = seen[f[2]]
    BY <1>3, <1>4, <1>5 DEF Executions
  <2>2. CASE (D!Queue(c) \/ D!Fail(c)) /\ UNCHANGED step
    BY <1>2, <2>1, <2>2 DEF D!Queue, D!Fail, Unmoved
  <2>3. ASSUME NEW x \in Workers, D!Run(x, c), Goto(<<x, c>>, "lookup")
        PROVE  Unmoved(f) \/ Progress(f)'
    <3>1. open' = open \cup {<<x, c>>}
      BY <2>3 DEF D!Run
    <3>2. CASE f # <<x, c>>
      BY <1>2, <2>1, <2>3, <3>1, <3>2 DEF Goto, AInv, LockInv, LocalShape, Unmoved
    <3>3. CASE f = <<x, c>>
      <4>1. step'[f] = "lookup" /\ f \in open' /\ step[f] = "none"
        BY <1>5, <2>3, <3>1, <3>3 DEF Goto, AInv, LockInv, LocalShape
      <4>2. found[f] = NULL /\ mine[f] = NoRows
        BY <4>1 DEF AInv, Progress
      <4> QED
        BY <1>2, <4>1, <4>2 DEF Progress, Steps
    <3> QED
      BY <3>2, <3>3
  <2> QED
    BY <2>2, <2>3 DEF Submit
<1>7. \A d \in Calls \ {c} : CallSame(d)
  BY <1>2, <1>3, <1>4 DEF CallSame
<1>8. CallOK(c)'
  <2>1. CallOK(c) /\ threw[c] = {} /\ applied[c] = 0
    BY <1>2 DEF AInv, CallOK, Made, LockInv, DP!IInv, DP!Fresh
  <2>2. t_user' = t_user /\ t_session' = t_session /\ Users' = Users
    BY <1>2 DEF tables, Users
  <2>3. Made(c)'
    BY <1>2, <1>4, <2>1 DEF Made
  <2>4. Accounts(c)' /\ SignIns(c)'
    BY <1>2, <2>1, <2>2 DEF CallOK, Accounts, SignIns
  <2>5. ASSUME NEW id \in Barred
        PROVE  id \in Users /\ \A u \in t_user : u.user_id = id => u.state_id # "ACTIVE"
    BY <2>5 DEF Barred, Users, AInv, TablesOK
  <2>6. ASSUME NEW d \in Calls, Told(d, "create")
        PROVE  \E u \in t_user : u.login_id = request[d].login_id
    <3>1. applied[d] > 0 /\ answer[d] # "none"
      BY <2>6 DEF Told, AInv, LockInv, DP!IInv, DP!AckedIsApplied
    <3>2. CallOK(d) /\ Asks(d, "create")
      BY <2>6, <3>1 DEF AInv, CallOK, Made, Told, Asks
    <3> QED
      BY <3>1, <3>2 DEF CallOK, Accounts
  <2>7. r.op = "create" =>
            /\ r.by \notin Barred
            /\ \E u \in t_user : u.user_id = r.by /\ u.auth_id # "USER"
    BY <1>1 DEF Admitted, LoginAble, Barred, AInv, TablesOK
  <2>8. Before(c)'
    BY <1>3, <1>4, <2>2, <2>5, <2>6, <2>7 DEF Before
  <2>9. Reasoned(c)'
    BY <1>2, <2>1 DEF Reasoned
  <2> QED
    BY <2>3, <2>4, <2>8, <2>9 DEF CallOK
<1>9. FunctionsOK'
  BY <1>1, <1>2 DEF Submit, AInv, FunctionsOK, Goto, Steps
<1> QED
  BY <1>2, <1>6, <1>7, <1>8, <1>9, Preserved

LEMMA CrashMoves ==
    ASSUME AInv, IInv', LockInv', NEW x \in Workers, Crash(x)
    PROVE  AInv'
<1>1. /\ open' = {e \in open : e[1] # x} /\ UNCHANGED <<tables, applied, redelivered>>
      /\ step' = [e \in Executions |-> IF e[1] = x THEN "none" ELSE step[e]]
      /\ found' = [e \in Executions |-> IF e[1] = x THEN NULL ELSE found[e]]
      /\ mine' = [e \in Executions |-> IF e[1] = x THEN NoRows ELSE mine[e]]
      /\ request' = [c \in Calls |-> IF answer'[c] = "none" THEN NULL ELSE request[c]]
      /\ seen' = [c \in Calls |-> IF answer'[c] = "none" THEN NULL ELSE seen[c]]
      /\ threw' = [c \in Calls |-> IF answer'[c] = "none" THEN {} ELSE threw[c]]
  BY DEF Crash, D!Crash
<1>2. \A c \in Calls : answer'[c] = "none" => applied[c] = 0 /\ DP!OpenOf(c)' = {}
  BY <1>1 DEF LockInv, DP!IInv, DP!Fresh
<1>3. ASSUME NEW f \in Executions PROVE Unmoved(f) \/ Progress(f)'
  <2>1. CASE f[1] = x
    BY <1>1, <2>1 DEF Progress, Steps
  <2>2. CASE f[1] # x
    <3>1. ASSUME step[f] # "none"
          PROVE  request'[f[2]] = request[f[2]] /\ seen'[f[2]] = seen[f[2]]
      <4>1. f \in open' /\ f[1] \in Workers /\ f[2] \in Calls /\ f = <<f[1], f[2]>>
        BY <1>1, <2>2, <3>1 DEF AInv, Progress, Executions
      <4>2. answer'[f[2]] # "none"
        BY <1>2, <4>1 DEF DP!OpenOf
      <4> QED
        BY <1>1, <4>1, <4>2
    <3> QED
      BY <1>1, <2>2, <3>1 DEF Unmoved
  <2> QED
    BY <2>1, <2>2
<1>4. \A c \in Calls : answer[c] = "none" => answer'[c] = "none"
  BY DEF Crash, D!Crash
<1>5. ASSUME NEW c \in Calls PROVE CallSame(c) \/ CallOK(c)'
  <2>1. CASE answer'[c] # "none"
    BY <1>1, <1>4, <2>1 DEF CallSame
  <2>2. CASE answer'[c] = "none"
    <3>1. CallOK(c) /\ t_user' = t_user /\ t_session' = t_session
      BY <1>1 DEF AInv, tables
    <3>2. applied[c] = 0 /\ request'[c] = NULL /\ threw'[c] = {}
      BY <1>1, <1>2, <2>2
    <3>3. Made(c)'
      BY <2>2, <3>2 DEF Made
    <3>4. Accounts(c)' /\ SignIns(c)'
      BY <1>1, <3>1, <3>2 DEF CallOK, Accounts, SignIns, Asks
    <3>5. Before(c)' /\ Reasoned(c)'
      BY <3>2 DEF Before, Reasoned
    <3> QED
      BY <3>3, <3>4, <3>5 DEF CallOK
  <2> QED
    BY <2>1, <2>2
<1>6. FunctionsOK'
  BY <1>1 DEF AInv, FunctionsOK, Steps
<1> QED
  BY <1>1, <1>3, <1>5, <1>6, Preserved

\* Rows change; whose they are does not, nor what sessions there are.
LEMMA DismissMoves ==
    ASSUME AInv, IInv', LockInv', NEW id, Dismiss(id)
    PROVE  AInv'
<1>1. PICK u \in t_user : t_user' = (t_user \ {u}) \cup {[u EXCEPT !.state_id = "RESIGNED"]}
  BY DEF Dismiss
<1>2. UNCHANGED <<queue, t_session, t_session_refresh, calls, local>>
  BY DEF Dismiss
<1>3. u \in UserEntity
  BY DEF AInv, TablesOK
<1>4. PICK w \in UserEntity :
        /\ t_user' = (t_user \ {u}) \cup {w}
        /\ w.user_id = u.user_id /\ w.login_id = u.login_id /\ w.auth_id = u.auth_id
        /\ w.state_id = "RESIGNED" /\ w.device = u.device
  <2> DEFINE v == [u EXCEPT !.state_id = "RESIGNED"]
  <2>1. /\ v \in UserEntity /\ v.user_id = u.user_id /\ v.login_id = u.login_id
        /\ v.auth_id = u.auth_id /\ v.state_id = "RESIGNED" /\ v.device = u.device
    BY <1>3 DEF UserEntity, StateIds
  <2> QED
    BY <1>1, <2>1
<1>5. RowsKept /\ \A v \in t_user' : \E y \in t_user : Is(y, v) /\ v.device = y.device
  BY <1>4 DEF RowsKept, Is
<1>6. Users' = Users
  BY <1>4 DEF Users
<1>7. TablesOK'
  <2>1. t_user' \subseteq UserEntity
    BY <1>4 DEF AInv, TablesOK
  <2>2. \A v, y \in t_user' : v.user_id = y.user_id => v = y
    BY <1>4 DEF AInv, TablesOK
  <2>3. LatestDevice'
    <3>1. ASSUME NEW v \in t_user'
          PROVE  LET mobile == MobileSessions(v.user_id)
                 IN  /\ mobile = {} => v.device = NULL
                     /\ \A n \in mobile : (\A m \in mobile : m <= n) =>
                            v.device = t_session[n].device
      <4>1. PICK y \in t_user : v.user_id = y.user_id /\ v.device = y.device
        BY <1>5 DEF Is
      <4> QED
        BY <4>1 DEF AInv, TablesOK, LatestDevice
    <3> QED
      BY <1>2, <3>1 DEF LatestDevice, MobileSessions
  <2>4. t_session' = t_session /\ Sessions' = Sessions /\ t_session_refresh' = t_session_refresh
    BY <1>2 DEF Sessions
  <2>5. TablesOK
    BY DEF AInv
  <2> QED
    BY <1>6, <2>1, <2>2, <2>3, <2>4, <2>5 DEF TablesOK
<1>8. \A f \in Executions : Unmoved(f)
  BY <1>2 DEF Unmoved, queue, calls, local
<1>9. \A f \in Executions : Progress(f)'
  BY <1>6, <1>8, UnmovedProgress DEF AInv
<1>10. ASSUME NEW c \in Calls PROVE CallOK(c)'
  <2>1. CallSame(c) /\ CallOK(c)
    BY <1>2 DEF CallSame, queue, calls, AInv
  <2>2. Made(c)' /\ Before(c)' /\ Reasoned(c)'
    BY <1>5, <2>1, MadeKept, BeforeKept, ReasonedKept DEF CallOK, CallSame
  <2>3. Accounts(c)'
    BY <1>5, <2>1, AccountsKept DEF CallOK
  <2>4. SignIns(c)'
    BY <1>2, <2>1, SignInsKept DEF CallOK, SessionsKept
  <2> QED
    BY <2>2, <2>3, <2>4 DEF CallOK
<1>11. FunctionsOK'
  BY <1>2 DEF AInv, FunctionsOK, calls, local
<1> QED
  BY <1>7, <1>9, <1>10, <1>11 DEF AInv

-----------------------------------------------------------------------------
(* A commit.                                                               *)

\* What a commit does whatever it commits: the call has one more transaction,
\* and nobody else's changes.
LEMMA CommitEnds ==
    ASSUME AInv, IInv', LockInv', NEW e \in Executions, Commit(e),
           RowsKept, SessionsKept, TablesOK', Accounts(e[2])', SignIns(e[2])',
           \A v \in t_user' : v.user_id \in {e} \X Nat \/ \E u \in t_user : Is(u, v),
           \A v \in t_user' : v.user_id \in Users => \E u \in t_user : Is(u, v),
           \A n \in DOMAIN t_session' :
               \/ t_session'[n].session_id \in {e} \X Nat
               \/ n \in DOMAIN t_session /\ t_session'[n] = t_session[n]
    PROVE  AInv'
<1> DEFINE c == e[2]
<1>1. c \in Calls /\ e = <<e[1], e[2]>>
  BY DEF Executions
<1>2. /\ open' = open \ {e} /\ UNCHANGED <<answer, due, redelivered, request, seen>>
      /\ applied' = [applied EXCEPT ![c] = @ + 1] /\ Leave(e)
      /\ threw' = threw \/ threw' = [threw EXCEPT ![c] = @ \cup {"failed"}]
  BY <1>1 DEF Commit, D!End, calls
<1>2a. /\ threw' \in [Calls -> SUBSET Reasons]
       /\ threw'[c] \subseteq threw[c] \cup {"failed"}
       /\ \A d \in Calls : d # c => threw'[d] = threw[d]
  <2>1. threw \in [Calls -> SUBSET Reasons] /\ threw[c] \cup {"failed"} \in SUBSET Reasons
    BY <1>1 DEF AInv, FunctionsOK, Reasons
  <2> QED
    BY <1>1, <1>2, <2>1
<1>3. /\ step'[e] = "none" /\ found'[e] = NULL /\ mine'[e] = NoRows
      /\ \A f \in Executions \ {e} : Unmoved(f)
  BY <1>2 DEF Leave, Goto, AInv, LockInv, LocalShape, Unmoved
<1>4. Users \subseteq Users'
  BY DEF Users, RowsKept, Is
<1>5. \A f \in Executions : Progress(f)'
  <2>1. Progress(e)'
    BY <1>2, <1>3 DEF Progress, Steps
  <2> QED
    BY <1>3, <1>4, <2>1, UnmovedProgress DEF AInv
<1>6. ASSUME NEW d \in Calls PROVE CallOK(d)'
  <2>1. CallOK(d)
    BY DEF AInv
  <2>2. Made(d)'
    <3>1. answer[c] # "none"
      BY Working DEF Commit
    <3> QED
      BY <1>2, <1>2a, <2>1, <3>1 DEF CallOK, Made
  <2>3. Before(d)' /\ Reasoned(d)'
    <3>1. threw'[d] \subseteq threw[d] \cup {"failed"}
      BY <1>2a
    <3> QED
      BY <1>2, <2>1, <3>1, BeforeKept, ReasonedKept DEF CallOK
  <2>4. CASE d # c
    <3>1. CallSame(d)
      BY <1>2, <1>2a, <2>4 DEF CallSame, AInv, LockInv, DP!IInv, DP!TypeOK
    <3>2. \A id \in {e} \X Nat : ~MadeIn(id, d)
      BY <2>4, NewIds
    <3>3. Accounts(d)'
      BY <2>1, <3>1, <3>2, AccountsKept DEF CallOK
    <3>4. SignIns(d)'
      BY <2>1, <3>1, <3>2, SignInsKept DEF CallOK
    <3> QED
      BY <2>2, <2>3, <3>3, <3>4 DEF CallOK
  <2> QED
    BY <2>2, <2>3, <2>4 DEF CallOK
<1>7. FunctionsOK'
  BY <1>2, <1>2a DEF AInv, FunctionsOK, Leave, Goto, Steps
<1> QED
  BY <1>5, <1>6, <1>7 DEF AInv

\* An account is added: nobody has its id, since its call has no account yet
\* that had another login id, and this one is reserved.
LEMMA CommitAccount ==
    ASSUME AInv, IInv', LockInv', NEW e \in Executions, Commit(e), Creating(e)
    PROVE  AInv'
<1> DEFINE c == e[2]
           row == mine[e].user
<1>1. c \in Calls /\ e = <<e[1], e[2]>> /\ CallOK(c)
  BY DEF Executions, AInv
<1>2. /\ UNCHANGED <<request, seen>> /\ applied' = [applied EXCEPT ![c] = @ + 1]
  BY <1>1 DEF Commit, D!End, calls
<1>3. row \in UserEntity /\ row # NULL /\ row.user_id \in {e} \X Nat /\ row.device = NULL
  BY NullAssumption DEF Creating
<1>4. t_user' = {row} \cup t_user /\ t_session' = t_session
      /\ t_session_refresh' = t_session_refresh
  BY <1>3 DEF Commit, Creating
<1>5. MadeIn(row.user_id, c)
  BY <1>3, NewIds
<1>6. row.user_id \notin Users
  <2> SUFFICES ASSUME NEW u \in t_user, u.user_id = row.user_id PROVE FALSE
    BY DEF Users
  <2>1. u.login_id = row.login_id
    BY <1>1, <1>5 DEF CallOK, Accounts, Creating, Req
  <2>2. u.login_id # row.login_id
    BY <1>3 DEF AInv, IInv, Reserved, Holds
  <2> QED
    BY <2>1, <2>2
<1>7. RowsKept /\ SessionsKept
  BY <1>4 DEF RowsKept, SessionsKept, Is
<1>8. /\ \A v \in t_user' : v.user_id \in {e} \X Nat \/ \E u \in t_user : Is(u, v)
      /\ \A v \in t_user' : v.user_id \in Users => \E u \in t_user : Is(u, v)
  BY <1>3, <1>4, <1>6 DEF Is
<1>9. Users' = Users \cup {row.user_id}
  BY <1>4 DEF Users
<1>10. TablesOK'
  <2>1. TablesOK
    BY DEF AInv
  <2>2. t_user' \subseteq UserEntity /\ \A u, v \in t_user' : u.user_id = v.user_id => u = v
    BY <1>3, <1>4, <1>6, <2>1 DEF TablesOK, Users
  <2>3. /\ \A n \in DOMAIN t_session' : t_session'[n].user_id \in Users'
        /\ Sessions' = t_session_refresh'
    BY <1>4, <1>9, <2>1 DEF TablesOK, Sessions
  <2>4. MobileSessions(row.user_id) = {}
    BY <1>6, <2>1 DEF TablesOK, MobileSessions
  <2>5. \A id : MobileSessions(id)' = MobileSessions(id)
    BY <1>4 DEF MobileSessions
  <2>6. LatestDevice'
    BY <1>3, <1>4, <2>1, <2>4, <2>5 DEF TablesOK, LatestDevice
  <2> QED
    BY <1>4, <2>1, <2>2, <2>3, <2>6 DEF TablesOK
<1>11. applied[c] \in Nat /\ applied'[c] > 0
  BY <1>1, <1>2 DEF AInv, LockInv, DP!IInv, DP!TypeOK
<1>12. Asks(c, "create") /\ ~Asks(c, "signIn")
  BY <1>1, Working DEF Creating, Asks, Req, Commit
<1>13. Accounts(c)'
  BY <1>1, <1>2, <1>4, <1>5, <1>11, <1>12 DEF CallOK, Accounts, Asks, Creating, Req
<1>14. SignIns(c)'
  BY <1>1, <1>2, <1>4, <1>12 DEF CallOK, SignIns, Asks
<1> QED
  BY <1>4, <1>7, <1>8, <1>10, <1>13, <1>14, CommitEnds

\* A session is added, and its device put into its user's row as it is now.
LEMMA CommitSession ==
    ASSUME AInv, IInv', LockInv', NEW e \in Executions, Commit(e), Signing(e)
    PROVE  AInv'
<1> DEFINE c == e[2]
           row == mine[e].session
           id == found[e].user_id
           device == Req(e).device
           P(u) == IF u.user_id = id THEN [u EXCEPT !.device = device] ELSE u
<1>1. c \in Calls /\ e = <<e[1], e[2]>> /\ CallOK(c) /\ step[e] = "commit" /\ TablesOK
  BY DEF Executions, AInv, Commit
<1>2. UNCHANGED <<request, seen>> /\ applied' = [applied EXCEPT ![c] = @ + 1]
  BY <1>1 DEF Commit, D!End, calls
<1>3. /\ row \in SessionEntity /\ row # NULL /\ row.session_id \in {e} \X Nat
      /\ row.user_id = id /\ row.device = device /\ mine[e].root
      /\ mine[e].device = device /\ mine[e].user = NULL /\ id \in Users
  BY <1>1, NullAssumption DEF Signing
<1>4. /\ t_session' = Append(t_session, row)
      /\ t_session_refresh' = t_session_refresh \cup {row.session_id}
  BY <1>3 DEF Commit
<1>5. t_user' = IF device = NULL THEN t_user ELSE {P(u) : u \in t_user}
  BY <1>3 DEF Commit, Patched
<1>6. \A u \in t_user : /\ P(u) \in UserEntity /\ P(u).user_id = u.user_id
                        /\ Is(u, P(u))
                        /\ P(u).device = IF u.user_id = id THEN device ELSE u.device
  <2> SUFFICES ASSUME NEW u \in t_user
               PROVE  /\ P(u) \in UserEntity /\ P(u).user_id = u.user_id
                      /\ Is(u, P(u))
                      /\ P(u).device = IF u.user_id = id THEN device ELSE u.device
    OBVIOUS
  <2>1. device \in {NULL} \cup STRING
    BY <1>3 DEF SessionEntity
  <2>2. u \in UserEntity
    BY <1>1 DEF TablesOK
  <2> QED
    BY <2>1, <2>2 DEF UserEntity, Is
<1> HIDE DEF P
<1>7. RowsKept /\ \A v \in t_user' : \E u \in t_user : Is(u, v)
  BY <1>5, <1>6 DEF RowsKept, Is
<1>8. Users' = Users
  BY <1>5, <1>6 DEF Users
<1>9. /\ Len(t_session) \in Nat /\ DOMAIN t_session = 1 .. Len(t_session)
      /\ DOMAIN t_session' = 1 .. Len(t_session) + 1
      /\ t_session'[Len(t_session) + 1] = row
      /\ \A n \in DOMAIN t_session : t_session'[n] = t_session[n]
      /\ t_session' \in Seq(SessionEntity)
  BY <1>1, <1>3, <1>4 DEF TablesOK
<1> DEFINE last == Len(t_session) + 1
<1>10. /\ DOMAIN t_session' = DOMAIN t_session \cup {last} /\ last \notin DOMAIN t_session
       /\ last \in Nat /\ \A n \in DOMAIN t_session : n \in Nat /\ n < last
  BY <1>9
<1>11. SessionsKept
  BY <1>9, <1>10 DEF SessionsKept
<1>12. Sessions' = Sessions \cup {row.session_id}
  BY <1>9, <1>10 DEF Sessions
<1>13. LatestDevice'
  <2> SUFFICES ASSUME NEW v \in t_user'
               PROVE  /\ MobileSessions(v.user_id)' = {} => v.device = NULL
                      /\ \A n \in MobileSessions(v.user_id)' :
                            (\A m \in MobileSessions(v.user_id)' : m <= n) =>
                                v.device = t_session'[n].device
    BY DEF LatestDevice
  <2>1. PICK u \in t_user : v = IF device = NULL THEN u ELSE P(u)
    BY <1>5
  <2>2. v.user_id = u.user_id
    BY <1>6, <2>1
  <2>3. CASE u.user_id = id /\ device # NULL
    <3>1. v.device = device
      BY <1>6, <2>1, <2>3
    <3>2. last \in MobileSessions(v.user_id)'
      BY <1>3, <1>9, <1>10, <2>2, <2>3 DEF MobileSessions
    <3>3. \A n \in MobileSessions(v.user_id)' : n \in DOMAIN t_session'
      BY DEF MobileSessions
    <3>4. \A n \in MobileSessions(v.user_id)' : last <= n => n = last
      BY <1>10, <3>3
    <3> QED
      BY <1>3, <1>9, <3>1, <3>2, <3>4
  <2>4. CASE u.user_id # id \/ device = NULL
    <3>1. v.device = u.device
      BY <1>6, <2>1, <2>4
    <3>2. MobileSessions(v.user_id)' = MobileSessions(u.user_id)
      BY <1>3, <1>9, <1>10, <2>2, <2>4 DEF MobileSessions
    <3>3. \A n \in MobileSessions(u.user_id) : t_session'[n] = t_session[n]
      BY <1>9 DEF MobileSessions
    <3> QED
      BY <1>1, <3>1, <3>2, <3>3 DEF TablesOK, LatestDevice
  <2> QED
    BY <2>3, <2>4
<1>14. TablesOK'
  <2>1. t_user' \subseteq UserEntity
    BY <1>1, <1>5, <1>6 DEF TablesOK
  <2>2. \A v, y \in t_user' : v.user_id = y.user_id => v = y
    BY <1>1, <1>5, <1>6 DEF TablesOK
  <2>3. \A n \in DOMAIN t_session' : t_session'[n].user_id \in Users'
    BY <1>1, <1>3, <1>8, <1>9, <1>10 DEF TablesOK
  <2>4. Sessions' = t_session_refresh'
    BY <1>1, <1>4, <1>12 DEF TablesOK
  <2> QED
    BY <1>9, <1>13, <2>1, <2>2, <2>3, <2>4 DEF TablesOK
<1>15. applied[c] \in Nat /\ applied'[c] > 0
  BY <1>1, <1>2 DEF AInv, LockInv, DP!IInv, DP!TypeOK
<1>16. Asks(c, "signIn") /\ ~Asks(c, "create")
  BY <1>1, Working DEF Signing, Asks, Req
<1>17. Accounts(c)'
  BY <1>1, <1>2, <1>7, <1>16 DEF CallOK, Accounts, Asks, Is
<1>18. SignIns(c)'
  <2>1. MadeIn(row.session_id, c)
    BY <1>3, NewIds
  <2>2. row.user_id \notin seen[c].barred
    BY <1>1, <1>3 DEF Signing
  <2> QED
    BY <1>1, <1>2, <1>9, <1>10, <1>15, <1>16, <2>1, <2>2 DEF CallOK, SignIns, Asks
<1>19. \A n \in DOMAIN t_session' :
           \/ t_session'[n].session_id \in {e} \X Nat
           \/ n \in DOMAIN t_session /\ t_session'[n] = t_session[n]
  BY <1>3, <1>9, <1>10
<1> QED
  BY <1>7, <1>11, <1>14, <1>17, <1>18, <1>19, CommitEnds

LEMMA CommitMoves ==
    ASSUME AInv, IInv', LockInv', NEW e \in Executions, Commit(e)
    PROVE  AInv'
<1>1. Creating(e) \/ Signing(e)
  BY DEF AInv, Progress, Commit
<1> QED
  BY <1>1, CommitAccount, CommitSession

-----------------------------------------------------------------------------
(* Every step.                                                             *)

LEMMA QueryMoves ==
    ASSUME IsFiniteSet(Workers), AInv, IInv', LockInv', NEW e \in Executions, Query(e)
    PROVE  AInv'
<1>1. CASE FindLogin(e)
  <2>1. step[e] # "none"
    BY <1>1 DEF FindLogin
  <2>2. CASE Throw(e, "mismatch")
    BY <2>1, <2>2, ThrowMoves DEF Reasons
  <2>3. CASE FindOne(Req(e).login_id) # {} /\ Throw(e, "duplicate")
    BY <2>1, <2>3, ThrowMoves DEF Reasons
  <2>4. CASE Proceed(e, "user") /\ UNCHANGED <<found, mine>>
    BY <1>1, <2>4, FindLoginMoves
  <2> QED
    BY <1>1, <2>2, <2>3, <2>4 DEF FindLogin
<1>2. CASE FindUser(e)
  <2>1. step[e] = "lookup" /\ Req(e).op = "signIn"
    BY <1>2 DEF FindUser
  <2>2. CASE FindOne(Req(e).login_id) = {} /\ Throw(e, "unknown")
    BY <2>1, <2>2, ThrowMoves DEF Reasons
  <2>3. CASE Throw(e, "password")
    BY <2>1, <2>3, ThrowMoves DEF Reasons
  <2>4. ASSUME NEW u \in FindOne(Req(e).login_id), found' = [found EXCEPT ![e] = u],
               Proceed(e, "state"), UNCHANGED mine
        PROVE  AInv'
    BY <2>1, <2>4, FindUserMoves DEF FindOne
  <2> QED
    BY <1>2, <2>2, <2>3, <2>4 DEF FindUser
<1>3. CASE CheckState(e)
  <2>1. step[e] = "state"
    BY <1>3 DEF CheckState
  <2>2. CASE Throw(e, "restricted")
    BY <2>1, <2>2, ThrowMoves DEF Reasons
  <2>3. CASE found[e].state_id \in LoginAble /\ Proceed(e, Head(Writes(Req(e))))
             /\ UNCHANGED <<found, mine>>
    BY <2>1, <2>3, CheckStateMoves
  <2> QED
    BY <1>3, <2>2, <2>3 DEF CheckState
<1> QED
  BY <1>1, <1>2, <1>3, InsertRefreshMoves DEF Query

LEMMA LockingMoves ==
    ASSUME IsFiniteSet(Workers), AInv, IInv', LockInv', NEW e \in Executions, Locking(e)
    PROVE  AInv'
<1>1. CASE InsertUser(e)
  <2>1. step[e] = "user"
    BY <1>1 DEF InsertUser
  <2>2. CASE DuplicateLogin(e) /\ Throw(e, "duplicate")
    BY <2>1, <2>2, ThrowMoves DEF Reasons, DuplicateLogin
  <2>3. CASE Write(e, "user", UserRow(e)) /\ Proceed(e, "commit") /\ UNCHANGED found
    BY <2>1, <2>3, InsertUserMoves
  <2> QED
    BY <1>1, <2>2, <2>3 DEF InsertUser
<1> QED
  BY <1>1, UpdateDeviceMoves, InsertSessionMoves DEF Locking

LEMMA NextAInv == ASSUME IsFiniteSet(Workers) PROVE AInv /\ [Next]_vars => AInv'
<1> SUFFICES ASSUME AInv, [Next]_vars PROVE AInv'
  OBVIOUS
<1>1. IInv' /\ LockInv'
  BY NextIInv, NextLocks DEF AInv
<1>2. ASSUME NEW e \in Executions, DbFailure(e) PROVE AInv'
  BY <1>1, <1>2, ThrowMoves DEF DbFailure, Reasons
<1>3. CASE UNCHANGED vars
  <2>1. /\ \A f \in Executions : Unmoved(f)
        /\ \A c \in Calls : CallSame(c)
    BY <1>3 DEF Unmoved, CallSame, vars, queue, calls, local
  <2>2. FunctionsOK' /\ UNCHANGED tables
    BY <1>3 DEF AInv, FunctionsOK, vars, calls, local
  <2> QED
    BY <1>1, <2>1, <2>2, Preserved
<1> QED
  BY <1>1, <1>2, <1>3, SubmitMoves, DeliverMoves, BeginMoves, QueryMoves, LockingMoves,
     CommitMoves, CrashMoves, DismissMoves DEF Next

-----------------------------------------------------------------------------
(* The first rows.                                                         *)

\* A finite set listed by SetToSeq: a sequence of it, and the whole of it.
LEMMA Listed ==
    ASSUME NEW S, IsFiniteSet(S)
    PROVE  /\ SetToSeq(S) \in Seq(S)
           /\ \A x \in S : \E n \in DOMAIN SetToSeq(S) : SetToSeq(S)[n] = x
<1> DEFINE k == Cardinality(S)
           f == SetToSeq(S)
<1>1. k \in Nat /\ ExistsBijection(1 .. k, S)
  BY FS_CardinalityType
<1>2. \E g \in [1 .. k -> S] : IsInjective(g)
  BY <1>1 DEF ExistsBijection, Bijection, Injection, IsInjective
<1>3. f \in [1 .. k -> S] /\ IsInjective(f)
  BY <1>2 DEF SetToSeq
<1> HIDE DEF f
<1>4. f \in Injection(1 .. k, S)
  BY <1>3 DEF Injection, IsInjective
<1>5. Cardinality(1 .. k) = k
  BY <1>1, FS_Interval
<1>6. f \in Surjection(1 .. k, S)
  BY <1>4, <1>5, FS_Injection
<1>7. \A x \in S : \E n \in 1 .. k : f[n] = x
  BY <1>6 DEF Surjection
<1>8. f \in Seq(S) /\ DOMAIN f = 1 .. k
  BY <1>1, <1>3
<1> QED
  BY <1>7, <1>8 DEF f

LEMMA InitAInv == ASSUME IsFiniteSet(Workers), IsFiniteSet(Staff) PROVE Init => AInv
<1> SUFFICES ASSUME Init PROVE AInv
  OBVIOUS
<1>1. IInv /\ LockInv
  BY InitIInv, InitLocks
<1> DEFINE Row(s) == [session_id |-> s, user_id |-> s, device |-> NULL]
           S == {Row(s) : s \in Staff}
<1>2. IsFiniteSet(S)
  <2> DEFINE f == [s \in Staff |-> Row(s)]
  <2>1. f \in Surjection(Staff, S)
    BY DEF Surjection
  <2> QED
    BY <2>1, FS_Surjection
<1>3. /\ t_session \in Seq(S)
      /\ \A x \in S : \E n \in DOMAIN t_session : t_session[n] = x
  BY <1>2, Listed DEF Init
<1>4. \A n \in DOMAIN t_session : t_session[n] \in S
  BY <1>3
<1>5. \A n \in DOMAIN t_session : \E s \in Staff : t_session[n] = Row(s)
  BY <1>4
<1>6. Staff \subseteq Ids /\ S \subseteq SessionEntity
  BY DEF Ids, SessionEntity
<1>7. Users = Staff /\ Sessions = Staff
  <2>1. Users = Staff
    BY StaffAssumption DEF Init, Users
  <2>2. ASSUME NEW s \in Staff
        PROVE  \E n \in DOMAIN t_session : t_session[n].session_id = s
    <3>1. PICK n \in DOMAIN t_session : t_session[n] = Row(s)
      BY <1>3
    <3> QED
      BY <3>1
  <2> QED
    BY <1>5, <2>1, <2>2 DEF Sessions
<1>8. TablesOK
  <2>1. t_user \subseteq UserEntity /\ \A u, v \in t_user : u.user_id = v.user_id => u = v
    BY StaffAssumption DEF Init
  <2>2. t_session \in Seq(SessionEntity)
    BY <1>3, <1>6
  <2>3. \A n \in DOMAIN t_session : t_session[n].user_id \in Users /\ t_session[n].device = NULL
    BY <1>5, <1>7
  <2>4. LatestDevice
    BY <2>3, StaffAssumption DEF Init, LatestDevice, MobileSessions
  <2> QED
    BY <1>7, <2>1, <2>2, <2>3, <2>4 DEF Init, TablesOK
<1>9. FunctionsOK
  BY DEF Init, FunctionsOK, Steps
<1>10. \A e \in Executions : Progress(e)
  BY DEF Init, D!Init, Progress
<1>11. ASSUME NEW c \in Calls PROVE CallOK(c)
  <2>1. /\ request[c] = NULL /\ answer[c] = "none" /\ threw[c] = {} /\ applied[c] = 0
    BY DEF Init, D!Init
  <2>2. \A u \in t_user : ~MadeIn(u.user_id, c)
    BY <1>7 DEF MadeIn, Users
  <2>3. \A n \in DOMAIN t_session : ~MadeIn(t_session[n].session_id, c)
    BY <1>7 DEF MadeIn, Sessions
  <2> QED
    BY <2>1, <2>2, <2>3 DEF CallOK, Made, Accounts, SignIns, Before, Reasoned, Asks
<1> QED
  BY <1>1, <1>8, <1>9, <1>10, <1>11 DEF AInv

LEMMA AccountsInvariant ==
    ASSUME IsFiniteSet(Workers), IsFiniteSet(Staff) PROVE Spec => []AInv
BY InitAInv, NextAInv, PTL DEF Spec

-----------------------------------------------------------------------------
\* The type of every variable.
THEOREM AccountTypes == ASSUME IsFiniteSet(Workers), IsFiniteSet(Staff) PROVE Spec => []TypeOK
<1>1. AInv => TypeOK
  <2> SUFFICES ASSUME AInv PROVE TypeOK
    OBVIOUS
  <2>1. D!TypeOK
    BY DEF AInv, LockInv, DP!IInv, DP!TypeOK, D!TypeOK
  <2>2. t_session_refresh \subseteq Ids
    <3>1. \A n \in DOMAIN t_session : t_session[n] \in SessionEntity
      BY DEF AInv, TablesOK
    <3> QED
      BY <3>1 DEF AInv, TablesOK, Sessions, SessionEntity
  <2>3. \A e \in Executions : found[e] = NULL \/ found[e] \in UserEntity
    BY DEF AInv, Progress, Creating, Signing, FunctionsOK, Steps
  <2>4. \A e \in Executions : step[e] # "none" <=> e \in open
    BY DEF AInv, Progress
  <2> QED
    BY <2>1, <2>2, <2>3, <2>4 DEF AInv, TablesOK, FunctionsOK, TypeOK
<1> QED
  BY <1>1, AccountsInvariant, PTL

\* The ids a call made, as CallOK speaks of them.
LEMMA MadeByCall ==
    ASSUME NEW c
    PROVE  /\ \A u \in t_user : u.user_id \in MadeBy(c, Users) <=> MadeIn(u.user_id, c)
           /\ \A n \in DOMAIN t_session :
                 t_session[n].session_id \in MadeBy(c, Sessions)
                 <=> MadeIn(t_session[n].session_id, c)
           /\ \A id \in MadeBy(c, Users) : \E u \in t_user : u.user_id = id /\ MadeIn(id, c)
           /\ \A id \in MadeBy(c, Sessions) :
                 \E n \in DOMAIN t_session : t_session[n].session_id = id /\ MadeIn(id, c)
BY DEF MadeBy, Users, Sessions, MadeIn

\* What was told of a call, and what it committed.
LEMMA WhatIsTold ==
    ASSUME AInv, NEW c \in Calls
    PROVE  /\ answer[c] = "ok" => applied[c] > 0
           /\ answer[c] = "refused" /\ redelivered[c] = 0 => ~(applied[c] > 0)
BY DEF AInv, LockInv, DP!IInv, DP!TypeOK, DP!AckedIsApplied, DP!RefusedIsNotApplied

\* user.service.ts:33: whatever races, fails or is redelivered, a creation makes
\* at most one account, one that was told to be made is there, and one that was
\* refused is not, unless its job was delivered twice; a 500 promises nothing.
THEOREM CreationsTold ==
    ASSUME IsFiniteSet(Workers), IsFiniteSet(Staff) PROVE Spec => []CreationTold
<1>1. AInv => CreationTold
  <2> SUFFICES ASSUME AInv, NEW c \in Calls, Asks(c, "create")
               PROVE  /\ Cardinality(MadeBy(c, Users)) <= 1
                      /\ answer[c] = "ok" => MadeBy(c, Users) # {}
                      /\ answer[c] = "refused" /\ redelivered[c] = 0 => MadeBy(c, Users) = {}
    BY DEF CreationTold
  <2>1. Accounts(c)
    BY DEF AInv, CallOK
  <2>2. \A i, j \in MadeBy(c, Users) : i = j
    BY <2>1, MadeByCall DEF Accounts, AInv, IInv, LoginIdUnique
  <2>3. Cardinality(MadeBy(c, Users)) <= 1
    <3>1. CASE MadeBy(c, Users) = {}
      BY <3>1, FS_EmptySet
    <3>2. ASSUME NEW i \in MadeBy(c, Users) PROVE Cardinality(MadeBy(c, Users)) <= 1
      <4>1. MadeBy(c, Users) = {i}
        BY <2>2, <3>2
      <4>2. Cardinality({i}) = 1
        BY FS_Singleton
      <4>3. Cardinality(MadeBy(c, Users)) = 1
        BY <4>1, <4>2
      <4> QED
        BY <4>3
    <3> QED
      BY <3>1, <3>2
  <2>4. answer[c] = "ok" => MadeBy(c, Users) # {}
    BY <2>1, WhatIsTold, MadeByCall DEF Accounts
  <2>5. answer[c] = "refused" /\ redelivered[c] = 0 => MadeBy(c, Users) = {}
    BY <2>1, WhatIsTold, MadeByCall DEF Accounts
  <2> QED
    BY <2>3, <2>4, <2>5
<1> QED
  BY <1>1, AccountsInvariant, PTL

\* user.service.ts:42, 66: a login id is refused as used only if somebody else's
\* account has it for good, and whoever signs in after the creation was
\* acknowledged is not told that there is no such user, whichever process looks.
THEOREM RefusalsFounded ==
    ASSUME IsFiniteSet(Workers), IsFiniteSet(Staff) PROVE Spec => []RefusedForReason
<1>1. AInv => RefusedForReason
  <2> SUFFICES ASSUME AInv, NEW c \in Calls
               PROVE  /\ "duplicate" \in threw[c] =>
                            \E u \in t_user :
                               /\ u.login_id = request[c].login_id
                               /\ u.user_id \in MadeBy(c, Users) => redelivered[c] > 0
                      /\ "unknown" \in threw[c] => request[c].login_id \notin seen[c].created
    BY DEF RefusedForReason
  <2>1. Reasoned(c)
    BY DEF AInv, CallOK
  <2> QED
    BY <2>1, MadeByCall DEF Reasoned
<1> QED
  BY <1>1, AccountsInvariant, PTL

\* user.service.ts:91-119: every stored session has the first refresh row its
\* tokens need; a sign-in told to have worked has left a session, one that was
\* refused none, unless its job was delivered twice; a 500 promises nothing.
THEOREM SignInsTold ==
    ASSUME IsFiniteSet(Workers), IsFiniteSet(Staff) PROVE Spec => []SignInTold
<1>1. AInv => SignInTold
  <2> SUFFICES ASSUME AInv, NEW c \in Calls, Asks(c, "signIn")
               PROVE  /\ answer[c] = "ok" => MadeBy(c, Sessions) # {}
                      /\ answer[c] = "refused" /\ redelivered[c] = 0 => MadeBy(c, Sessions) = {}
    BY DEF SignInTold, AInv, TablesOK
  <2>1. SignIns(c)
    BY DEF AInv, CallOK
  <2> QED
    BY <2>1, WhatIsTold, MadeByCall DEF SignIns
<1> QED
  BY <1>1, AccountsInvariant, PTL

\* user.service.ts:84: a user's device is that of the last mobile session of the
\* user to be committed, whatever sign-ins of the user race or fail.
THEOREM DeviceIsLatest ==
    ASSUME IsFiniteSet(Workers), IsFiniteSet(Staff) PROVE Spec => []LatestDevice
<1>1. AInv => LatestDevice
  BY DEF AInv, TablesOK
<1> QED
  BY <1>1, AccountsInvariant, PTL

\* user.controller.ts:31, user.service.ts:75: a user who may not log in when a
\* request is made neither signs in nor creates anybody by it, however long the
\* job waits, and however often it is redelivered.
THEOREM BarredStayOut ==
    ASSUME IsFiniteSet(Workers), IsFiniteSet(Staff) PROVE Spec => []BarredStaysOut
<1>1. AInv => BarredStaysOut
  <2> SUFFICES ASSUME AInv, NEW c \in Calls, request[c] # NULL
               PROVE  /\ MadeBy(c, Users) # {} =>
                            /\ request[c].by \notin seen[c].barred
                            /\ \E u \in t_user : u.user_id = request[c].by /\ u.auth_id # "USER"
                      /\ \A n \in DOMAIN t_session :
                            t_session[n].session_id \in MadeBy(c, Sessions) =>
                                t_session[n].user_id \notin seen[c].barred
    BY DEF BarredStaysOut
  <2>1. Accounts(c) /\ SignIns(c) /\ Before(c)
    BY DEF AInv, CallOK
  <2>2. MadeBy(c, Users) # {} => request[c].op = "create"
    BY <2>1, MadeByCall DEF Accounts, Asks
  <2> QED
    BY <2>1, <2>2, MadeByCall DEF SignIns, Before
<1> QED
  BY <1>1, AccountsInvariant, PTL
=============================================================================
