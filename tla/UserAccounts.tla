---------------------------- MODULE UserAccounts ----------------------------
(***************************************************************************)
(* UserService.adminCreate and signIn, query by query, as executions that  *)
(* the write queue (Delivery) hands to workers or that run directly, with  *)
(* the guards in front of adminCreate.  An execution is <<worker, call>>;  *)
(* what it wrote is its own until its transaction commits, and keeps       *)
(* others waiting: an inserted login id, a patched user row, and the user  *)
(* row a new session refers to.                                            *)
(***************************************************************************)
EXTENDS Integers, Sequences, FiniteSets, SequencesExt

CONSTANTS
    Calls, Workers, MaxRedelivered,   \* of Delivery
    Requests,    \* what clients may ask, see Request
    Staff,       \* user ids of the first users
    StaffRow,    \* their rows
    Leavers,     \* staff who may be dismissed
    MaxFaults,   \* bound on failed queries, dead processes and jobs lost or redelivered
    NULL

AuthIds == {"SUPER_ADMIN", "ADMIN", "USER"}            \* rows of t_auth
StateIds == {"ACTIVE", "ON_LEAVE", "RESIGNED"}         \* rows of t_state
EveryState == StateIds                                 \* slip: is_login_able not read
LoginAble == {"ACTIVE"}                                \* is_login_able = 1

Executions == Workers \X Calls
\* A uuid: no two attempts have the same.
Ids == Staff \cup (Executions \X Nat)

UserEntity ==
    [user_id : Ids, login_id : STRING, login_pw : STRING, auth_id : AuthIds,
     state_id : StateIds, device : {NULL} \cup STRING]
SessionEntity == [session_id : Ids, user_id : Ids, device : {NULL} \cup STRING]

\* AdminUserCreateDto with the bearer of its token, and UserSignInDto.
Request ==
    [op : {"create"}, by : Ids, login_id : STRING, login_pw : STRING, login_pw2 : STRING,
     auth_id : AuthIds]
    \cup [op : {"signIn"}, login_id : STRING, login_pw : STRING, device : {NULL} \cup STRING]

ASSUME NullAssumption == NULL \notin Ids \cup UserEntity \cup SessionEntity \cup Request
ASSUME StaffAssumption ==
    /\ Staff \cap (Executions \X Nat) = {}
    /\ \A s, t \in Staff :
          /\ StaffRow[s].user_id = s /\ StaffRow[s] \in UserEntity
          /\ StaffRow[s].device = NULL
          /\ StaffRow[s].login_id = StaffRow[t].login_id => s = t
ASSUME RequestAssumption == Requests \subseteq Request

VARIABLES
    answer, due, open, applied, redelivered,   \* of Delivery
    t_user,              \* committed rows
    t_session,           \* committed rows, in the order of their commits
    t_session_refresh,   \* sessions with a first refresh row
    request,             \* what each call asks
    seen,                \* (history) logins acknowledged and users barred
                         \*   when the call was made
    threw,               \* (history) why executions of each call failed
    step,                \* the query each execution awaits
    found,               \* the user row it has read
    mine,                \* what it has written and not committed
    faults

D == INSTANCE Delivery

queue == <<answer, due, open, applied, redelivered>>
tables == <<t_user, t_session, t_session_refresh>>
calls == <<request, seen, threw>>
local == <<step, found, mine>>
vars == <<queue, tables, calls, local, faults>>

-----------------------------------------------------------------------------
Fault == faults < MaxFaults /\ faults' = faults + 1

NoRows == [user |-> NULL, device |-> NULL, session |-> NULL, root |-> FALSE]

Goto(e, s) == step' = [step EXCEPT ![e] = s]
Write(e, field, row) == mine' = [mine EXCEPT ![e][field] = row]
Req(e) == request[e[2]]
LeaveOpen(e) == UNCHANGED local   \* slip: the connection is not released
Leave(e) ==
    /\ Goto(e, "none")
    /\ found' = [found EXCEPT ![e] = NULL]
    /\ mine' = [mine EXCEPT ![e] = NoRows]

\* What findOne({login_id}) sees.
FindOneDirty(login_id) ==   \* slip: READ UNCOMMITTED
    {u \in t_user \cup ({mine[e].user : e \in Executions} \ {NULL}) : u.login_id = login_id}
FindOne(login_id) == {u \in t_user : u.login_id = login_id}

-----------------------------------------------------------------------------
\* PassportJwtAuthGuard and RolesGuard: the bearer of an access token who may
\* log in, and whose role the route asks for.
Admitted(r) ==
    r.op = "create" => \E u \in t_user :
        /\ u.user_id = r.by
        /\ \E n \in DOMAIN t_session : t_session[n].user_id = r.by
        /\ u.state_id \in LoginAble
        /\ u.auth_id \in {"ADMIN", "SUPER_ADMIN"}

Told(c, op) == answer[c] = "ok" /\ request[c].op = op
Barred == {u.user_id : u \in {u \in t_user : u.state_id # "ACTIVE"}}

\* A request passes the guards, then the job is queued, unless Redis fails, or
\* the method entered.
Submit(c) ==
    /\ answer[c] = "none"
    /\ \E r \in Requests :
          /\ Admitted(r)
          /\ request' = [request EXCEPT ![c] = r]
    /\ seen' = [seen EXCEPT ![c] =
          [created |-> {request[d].login_id : d \in {d \in Calls : Told(d, "create")}},
           barred |-> Barred]]
    /\ \/ (D!Queue(c) \/ D!Fail(c)) /\ UNCHANGED step
       \/ \E x \in Workers : D!Run(x, c) /\ Goto(<<x, c>>, "lookup")
    /\ UNCHANGED <<tables, threw, found, mine>>

Begin(e) ==
    /\ D!Begin(e[1], e[2])
    /\ Goto(e, "lookup")
    /\ UNCHANGED <<tables, calls, found, mine>>

ThrowKept(e, why) ==   \* slip: no @Transactional, what was inserted stays
    /\ D!End(e[1], e[2], FALSE)
    /\ threw' = [threw EXCEPT ![e[2]] = @ \cup {why}]
    /\ t_user' = t_user \cup ({mine[e].user} \ {NULL})
    /\ Leave(e)
    /\ UNCHANGED <<t_session, t_session_refresh, request, seen>>

Throw(e, why) ==
    /\ D!End(e[1], e[2], FALSE)
    /\ threw' = [threw EXCEPT ![e[2]] = @ \cup {why}]
    /\ Leave(e)
    /\ UNCHANGED <<tables, request, seen>>

Proceed(e, s) ==
    /\ Goto(e, s)
    /\ UNCHANGED <<queue, tables, calls>>

-----------------------------------------------------------------------------
\* adminCreate up to its look at the login id.
FindLogin(e) ==
    /\ step[e] = "lookup"
    /\ Req(e).op = "create"
    /\ LET r == Req(e)
           existing == FindOne(r.login_id)
       IN  \/ r.login_pw # r.login_pw2 /\ Throw(e, "mismatch")
           \/ r.login_pw = r.login_pw2 /\ existing # {} /\ Throw(e, "duplicate")
           \/ /\ r.login_pw = r.login_pw2 /\ existing = {}
              /\ Proceed(e, "user")
              /\ UNCHANGED <<found, mine>>

\* The row adminCreate inserts.
UserRow(e) ==
    [user_id |-> <<e, applied[e[2]]>>, login_id |-> Req(e).login_id,
     login_pw |-> Req(e).login_pw, auth_id |-> Req(e).auth_id,
     state_id |-> "ACTIVE", device |-> NULL]

SameLogin(e, f) == mine[f].user # NULL /\ mine[f].user.login_id = Req(e).login_id
NoUniqueLogin(e) == FALSE   \* slip: no UK_User_LoginId
DuplicateLogin(e) == FindOne(Req(e).login_id) # {}

\* insert: waits for the key while another transaction holds it.
InsertUser(e) ==
    /\ step[e] = "user"
    /\ \A f \in Executions \ {e} : ~SameLogin(e, f)
    /\ \/ DuplicateLogin(e) /\ Throw(e, "duplicate")
       \/ /\ ~DuplicateLogin(e)
          /\ Write(e, "user", UserRow(e))
          /\ Proceed(e, "commit")
          /\ UNCHANGED found

-----------------------------------------------------------------------------
\* signIn: the user of the login id, and the password.
FindUser(e) ==
    /\ step[e] = "lookup"
    /\ Req(e).op = "signIn"
    /\ \/ FindOne(Req(e).login_id) = {} /\ Throw(e, "unknown")
       \/ \E u \in FindOne(Req(e).login_id) :
             \/ u.login_pw # Req(e).login_pw /\ Throw(e, "password")
             \/ /\ u.login_pw = Req(e).login_pw
                /\ found' = [found EXCEPT ![e] = u]
                /\ Proceed(e, "state")
                /\ UNCHANGED mine

SessionFirst(r) == <<"session", "device", "refresh", "commit">>   \* slip: patched last
NoFirstToken(r) == <<"session", "commit">>                        \* slip: token not stored
\* What signIn writes, in its order: isMobile also patches the user.
Writes(r) ==
    IF r.device = NULL THEN <<"session", "refresh", "commit">>
    ELSE <<"device", "session", "refresh", "commit">>
After(e) ==
    LET writes == Writes(Req(e))
    IN  writes[1 + CHOOSE n \in DOMAIN writes : writes[n] = step[e]]

\* findOneState of the user that was read.
CheckState(e) ==
    /\ step[e] = "state"
    /\ \/ found[e].state_id \notin LoginAble /\ Throw(e, "restricted")
       \/ /\ found[e].state_id \in LoginAble
          /\ Proceed(e, Head(Writes(Req(e))))
          /\ UNCHANGED <<found, mine>>

\* Locks on a user row: exclusive by a patch, shared by a session that refers
\* to it (FK_Session_User).
Patches(f, id) == mine[f].device # NULL /\ found[f].user_id = id
Refers(f, id) == mine[f].session # NULL /\ found[f].user_id = id

Patched(id, device) ==
    {IF u.user_id = id THEN [u EXCEPT !.device = device] ELSE u : u \in t_user}

PatchAtOnce(e) ==   \* slip: the update is outside the transaction
    /\ step[e] = "device"
    /\ t_user' = Patched(found[e].user_id, Req(e).device)
    /\ Goto(e, After(e))
    /\ UNCHANGED <<queue, t_session, t_session_refresh, calls, found, mine>>

UpdateDevice(e) ==
    /\ step[e] = "device"
    /\ \A f \in Executions \ {e} : ~Patches(f, found[e].user_id) /\ ~Refers(f, found[e].user_id)
    /\ Write(e, "device", Req(e).device)
    /\ Proceed(e, After(e))
    /\ UNCHANGED found

InsertSession(e) ==
    /\ step[e] = "session"
    /\ \A f \in Executions \ {e} : ~Patches(f, found[e].user_id)
    /\ Write(e, "session", [session_id |-> <<e, applied[e[2]]>>,
                            user_id |-> found[e].user_id, device |-> Req(e).device])
    /\ Proceed(e, After(e))
    /\ UNCHANGED found

\* Both tokens are signed, and the refresh token stored as the chain's first.
InsertRefresh(e) ==
    /\ step[e] = "refresh"
    /\ Write(e, "root", TRUE)
    /\ Proceed(e, After(e))
    /\ UNCHANGED found

-----------------------------------------------------------------------------
\* The method returns and the transaction commits, which the database may fail
\* to say.
Commit(e) ==
    /\ step[e] = "commit"
    /\ D!End(e[1], e[2], TRUE)
    /\ t_user' = ({mine[e].user} \ {NULL}) \cup
                 IF mine[e].device = NULL THEN t_user
                 ELSE Patched(found[e].user_id, mine[e].device)
    /\ t_session' = IF mine[e].session = NULL THEN t_session
                    ELSE Append(t_session, mine[e].session)
    /\ t_session_refresh' = t_session_refresh \cup
                            (IF mine[e].root THEN {mine[e].session.session_id} ELSE {})
    /\ Leave(e)
    /\ \/ UNCHANGED <<calls, faults>>
       \/ /\ threw' = [threw EXCEPT ![e[2]] = @ \cup {"failed"}]
          /\ Fault
          /\ UNCHANGED <<request, seen>>

\* A query (an insert with an auth_id nobody defined, too) or the commit
\* fails: every repository method answers 500.
DbFailure(e) == step[e] # "none" /\ Fault /\ Throw(e, "failed")

\* The answer is that of an execution, or comes of a failure of Redis.
Agrees(c) ==
    /\ answer'[c] = "refused" => threw[c] \ {"failed"} # {}
    /\ answer[c] = "direct" => /\ answer'[c] = "ok" => threw[c] = {}
                               /\ answer'[c] = "failed" => "failed" \in threw[c]

\* The queue's own steps: lost deliveries, redelivery, the answer.
Deliver(c) ==
    /\ answer[c] # "none"
    /\ \/ (D!Drop(c) \/ D!Redeliver(c)) /\ Fault
       \/ (D!Tell(c) \/ D!Fail(c)) /\ Agrees(c) /\ UNCHANGED faults
    /\ UNCHANGED <<tables, calls, local>>

\* A process dies; a call that left no trace may be made again.
Crash(x) ==
    /\ D!Crash(x)
    /\ Fault
    /\ step' = [e \in Executions |-> IF e[1] = x THEN "none" ELSE step[e]]
    /\ found' = [e \in Executions |-> IF e[1] = x THEN NULL ELSE found[e]]
    /\ mine' = [e \in Executions |-> IF e[1] = x THEN NoRows ELSE mine[e]]
    /\ request' = [c \in Calls |-> IF answer'[c] = "none" THEN NULL ELSE request[c]]
    /\ seen' = [c \in Calls |-> IF answer'[c] = "none" THEN NULL ELSE seen[c]]
    /\ threw' = [c \in Calls |-> IF answer'[c] = "none" THEN {} ELSE threw[c]]
    /\ UNCHANGED tables

\* Somebody outside this repository ends a user's employment.
Dismiss(id) ==
    /\ \E u \in t_user :
          /\ u.user_id = id
          /\ id \in Leavers
          /\ u.state_id = "ACTIVE"
          /\ t_user' = (t_user \ {u}) \cup {[u EXCEPT !.state_id = "RESIGNED"]}
    /\ \A f \in Executions : ~Patches(f, id) /\ ~Refers(f, id)
    /\ UNCHANGED <<queue, t_session, t_session_refresh, calls, local>>

-----------------------------------------------------------------------------
Init ==
    /\ D!Init
    /\ t_user = {StaffRow[s] : s \in Staff}
    /\ t_session = SetToSeq({[session_id |-> s, user_id |-> s, device |-> NULL] : s \in Staff})
    /\ t_session_refresh = Staff
    /\ request = [c \in Calls |-> NULL]
    /\ seen = [c \in Calls |-> NULL]
    /\ threw = [c \in Calls |-> {}]
    /\ step = [e \in Executions |-> "none"]
    /\ found = [e \in Executions |-> NULL]
    /\ mine = [e \in Executions |-> NoRows]
    /\ faults = 0

\* The queries that wait in no lock queue, and those that may.
Query(e) == FindLogin(e) \/ FindUser(e) \/ CheckState(e) \/ InsertRefresh(e)
Locking(e) == InsertUser(e) \/ UpdateDevice(e) \/ InsertSession(e)

Next ==
    \/ \E c \in Calls : (Submit(c) /\ UNCHANGED faults) \/ Deliver(c)
    \/ \E e \in Executions : (Begin(e) \/ Query(e) \/ Locking(e)) /\ UNCHANGED faults
    \/ \E e \in Executions : Commit(e) \/ DbFailure(e)
    \/ \E x \in Workers : Crash(x)
    \/ (\E u \in t_user : Dismiss(u.user_id)) /\ UNCHANGED faults

Spec == Init /\ [][Next]_vars

-----------------------------------------------------------------------------
Steps == {"none", "lookup", "user", "state", "device", "session", "refresh", "commit"}
Reasons == {"mismatch", "duplicate", "unknown", "password", "restricted", "failed"}

\* The type of every variable.
TypeOK ==
    /\ D!TypeOK
    /\ t_user \subseteq UserEntity
    /\ t_session \in Seq(SessionEntity)
    /\ t_session_refresh \subseteq Ids
    /\ request \in [Calls -> Requests \cup {NULL}]
    /\ threw \in [Calls -> SUBSET Reasons]
    /\ step \in [Executions -> Steps]
    /\ \A e \in Executions : found[e] = NULL \/ found[e] \in UserEntity
    /\ \A e \in Executions : step[e] # "none" <=> e \in open

Asks(c, op) == request[c] # NULL /\ request[c].op = op
MadeBy(c, ids) == {id \in ids \ Staff : id[1][2] = c}
Users == {u.user_id : u \in t_user}
Sessions == {t_session[n].session_id : n \in DOMAIN t_session}
MobileSessions(id) ==
    {n \in DOMAIN t_session : t_session[n].user_id = id /\ t_session[n].device # NULL}

\* user.service.ts:33: whatever races, fails or is redelivered, a creation makes
\* at most one account, one that was told to be made is there, and one that was
\* refused is not, unless its job was delivered twice; a 500 promises nothing.
CreationTold ==
    \A c \in Calls : Asks(c, "create") =>
        /\ Cardinality(MadeBy(c, Users)) <= 1
        /\ answer[c] = "ok" => MadeBy(c, Users) # {}
        /\ answer[c] = "refused" /\ redelivered[c] = 0 => MadeBy(c, Users) = {}

\* user.repository.ts:41: two creations that both saw no such login id do not
\* both make it.
LoginIdUnique == \A u, v \in t_user : u.login_id = v.login_id => u = v

\* user.service.ts:42, 66: a login id is refused as used only if somebody else's
\* account has it for good, never for one that is rolled back later (a
\* redelivered creation may meet its own), and whoever signs in after the
\* creation was acknowledged is not told that there is no such user, whichever
\* process looks.
RefusedForReason ==
    \A c \in Calls :
        /\ "duplicate" \in threw[c] =>
              \E u \in t_user : /\ u.login_id = request[c].login_id
                                /\ u.user_id \in MadeBy(c, Users) => redelivered[c] > 0
        /\ "unknown" \in threw[c] => request[c].login_id \notin seen[c].created

\* user.service.ts:91-119: every stored session has the first refresh row its
\* tokens need; a sign-in told to have worked has left a session, one that was
\* refused none, unless its job was delivered twice; a 500 promises nothing.
SignInTold ==
    /\ Sessions = t_session_refresh
    /\ \A c \in Calls : Asks(c, "signIn") =>
          /\ answer[c] = "ok" => MadeBy(c, Sessions) # {}
          /\ answer[c] = "refused" /\ redelivered[c] = 0 => MadeBy(c, Sessions) = {}

\* user.service.ts:84: a user's device is that of the last mobile session of the
\* user to be committed: a sign-in that fails leaves no device, and of two
\* at once both the session and the device of the same one are last.
LatestDevice ==
    \A u \in t_user :
        LET mobile == MobileSessions(u.user_id)
        IN  /\ mobile = {} => u.device = NULL
            /\ \A n \in mobile : (\A m \in mobile : m <= n) => u.device = t_session[n].device

\* user.controller.ts:31, user.service.ts:75: a user who may not log in when a
\* request is made neither signs in nor creates anybody by it, though the job
\* may wait, be redelivered, and run in another process.
BarredStaysOut ==
    \A c \in Calls : request[c] # NULL =>
        /\ MadeBy(c, Users) # {} =>
              /\ request[c].by \notin seen[c].barred
              /\ \E u \in t_user : u.user_id = request[c].by /\ u.auth_id # "USER"
        /\ \A n \in DOMAIN t_session :
              t_session[n].session_id \in MadeBy(c, Sessions) =>
                  t_session[n].user_id \notin seen[c].barred

WaitsFor(e, f) ==
    /\ e # f
    /\ \/ step[e] = "user" /\ SameLogin(e, f)
       \/ step[e] = "device" /\ (Patches(f, found[e].user_id) \/ Refers(f, found[e].user_id))
       \/ step[e] = "session" /\ Patches(f, found[e].user_id)

\* user.service.ts:84: sign-ins of one user patch the row before they refer to
\* it, so that no two wait for each other's locks.
NoDeadlock ==
    \A S \in SUBSET {e \in Executions : step[e] # "none"} :
        S # {} => \E e \in S : \A f \in S : ~WaitsFor(e, f)
=============================================================================
