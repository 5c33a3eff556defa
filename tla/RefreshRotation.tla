--------------------------- MODULE RefreshRotation ---------------------------
(***************************************************************************)
(* Refresh-token rotation: UserService.refresh with the queries and error  *)
(* handlers of UserRepository it calls, the two unique keys of             *)
(* t_session_refresh, and the sign-in that starts a chain of tokens.       *)
(* refresh runs in one database transaction and outside the write queue,   *)
(* so requests interleave at every query, on several server processes.     *)
(*                                                                         *)
(* A slot r \in Requests is one request in flight; it is free again when   *)
(* its reply is sent.  Hashing and encryption are free constructors: no    *)
(* two tokens share a hash and only decryption undoes encryption.          *)
(***************************************************************************)
EXTENDS Integers

CONSTANTS
    Sessions,    \* session ids (UUIDs sign-in may draw)
    Requests,    \* request slots: the bound on requests in flight
    Instances,   \* server processes
    Ips,         \* client addresses
    NULL,
    Isolation,   \* isolation level of the database's transactions
    TTL,         \* token lifetime in seconds, by type
    Offset,      \* how far ahead of true time each process's clock runs
    DbOffset,    \* the same for the database's clock
    MaxNow       \* bound on time

Types == {"access", "refresh"}

Token == [type : Types, session_id : Sessions, iat : Nat]
Hash == [sha256 : Token]
Cipher == [aesGcm : Token]

SessionRow == [ip : Ips \cup {NULL}, is_delete : {0, 1}]
Row == [session_id : Sessions, refresh_hash : Hash, refresh_encrypted : Cipher,
        before_refresh_hash : Hash \cup {NULL}, end_at : Nat]
View == [sessions : [Sessions -> SessionRow \cup {NULL}], rows : SUBSET Row]
Submission == [token : Token, ip : Ips \cup {NULL}, on : Instances,
               revoked : BOOLEAN, rotated : BOOLEAN]

ASSUME NullAssumption ==
    /\ NULL \notin Ips
    /\ NULL \notin Token \cup Hash \cup Row \cup SessionRow \cup View \cup Submission
ASSUME IsolationAssumption == Isolation \in {"REPEATABLE READ", "READ COMMITTED"}
ASSUME ClockAssumption ==
    /\ TTL \in [Types -> Nat \ {0}]
    /\ Offset \in [Instances -> Nat]
    /\ DbOffset \in Nat
    /\ MaxNow \in Nat

VARIABLES
    now,                \* true time, seconds
    t_session,          \* committed sessions, NULL where the id is not drawn
    t_session_refresh,  \* committed rows
    held,               \* refresh tokens delivered to clients
    answered,           \* (history) every [asked, given] pair of an OK reply
    pc,                 \* next step of each slot's handler
    sub,                \* the submission: token, ip, process, and what held
                        \*   of its session and token at that moment (history)
    view,               \* snapshot the transaction reads, NULL before the first
                        \*   read and when every statement reads afresh
    found,              \* the `rotated' row the handler will answer from
    fresh,              \* the refresh token it signed
    pending,            \* its inserted, uncommitted row
    reply               \* the last reply of the slot

db == <<t_session, t_session_refresh>>
clients == <<held, answered>>
locals == <<view, found, fresh, pending>>
vars == <<now, db, clients, pc, sub, locals, reply>>

-----------------------------------------------------------------------------
Clock(i) == now + Offset[i]
DbNow == now + DbOffset

Exp(t) == t.iat + TTL[t.type]
sha256Hex(t) == [sha256 |-> t]
encryptAesGcm(t) == [aesGcm |-> t]
decryptAesGcm(c) == c.aesGcm

\* jwtService.sign: the claims are a function of the session and the second.
Signed(s, i) == [type |-> "refresh", session_id |-> s, iat |-> Clock(i)]

UnlinkedRow(t, before) ==   \* slip: before_refresh_hash never assigned
    [session_id |-> t.session_id, refresh_hash |-> sha256Hex(t),
     refresh_encrypted |-> encryptAesGcm(t), before_refresh_hash |-> NULL,
     end_at |-> Exp(t)]
RefreshRow(t, before) ==
    [session_id |-> t.session_id, refresh_hash |-> sha256Hex(t),
     refresh_encrypted |-> encryptAesGcm(t), before_refresh_hash |-> before,
     end_at |-> Exp(t)]

OldHash(r) == sha256Hex(sub[r].token)
NewRow(r) == RefreshRow(fresh[r], OldHash(r))

Committed == [sessions |-> t_session, rows |-> t_session_refresh]
Read(r) == IF view[r] = NULL THEN Committed ELSE view[r]

Rotated(h, rows) == {row \in rows : row.before_refresh_hash = h}
Deleted(s) == t_session[s] # NULL /\ t_session[s].is_delete = 1

Go(r, step) == pc' = [pc EXCEPT ![r] = step]

\* Slip: the connection goes back to the pool with its transaction open.
FinishUnreleased(r, status) ==
    /\ Go(r, "idle")
    /\ reply' = [reply EXCEPT ![r] = status]
    /\ view' = [view EXCEPT ![r] = NULL]
    /\ found' = [found EXCEPT ![r] = NULL]
    /\ fresh' = [fresh EXCEPT ![r] = NULL]
    /\ UNCHANGED <<now, t_session, sub, pending>>

\* The handler ends: its transaction is over and the reply is on its way.
Finish(r, status) ==
    /\ Go(r, "idle")
    /\ reply' = [reply EXCEPT ![r] = status]
    /\ view' = [view EXCEPT ![r] = NULL]
    /\ found' = [found EXCEPT ![r] = NULL]
    /\ fresh' = [fresh EXCEPT ![r] = NULL]
    /\ pending' = [pending EXCEPT ![r] = NULL]
    /\ UNCHANGED <<now, t_session, sub>>

\* An HttpException: @Transactional rolls the transaction back.
Refuse(r, status) == Finish(r, status) /\ UNCHANGED <<t_session_refresh, clients>>

-----------------------------------------------------------------------------
Tick ==
    /\ now < MaxNow
    /\ now' = now + 1
    /\ UNCHANGED <<db, clients, pc, sub, locals, reply>>

\* UserService.signIn from the insert of the session on: a session id nobody
\* holds yet, so its one commit is the only step another transaction can see.
SignIn(s, i, ip) ==
    /\ t_session[s] = NULL
    /\ t_session' = [t_session EXCEPT ![s] = [ip |-> ip, is_delete |-> 0]]
    /\ t_session_refresh' = t_session_refresh \cup {RefreshRow(Signed(s, i), NULL)}
    /\ held' = held \cup {Signed(s, i)}
    /\ UNCHANGED <<now, answered, pc, sub, locals, reply>>

\* Whoever sets is_delete (an operator, a batch: nothing in this repository).
\* The foreign key makes an insert lock its session's row until it commits.
DeleteSession(s) ==
    /\ t_session[s] # NULL
    /\ ~Deleted(s)
    /\ \A r \in Requests : pending[r] # NULL => pending[r].session_id # s
    /\ t_session' = [t_session EXCEPT ![s].is_delete = 1]
    /\ UNCHANGED <<now, t_session_refresh, clients, pc, sub, locals, reply>>

\* A client sends any refresh token it was given, however old, or by mistake
\* the access token that came with it; its address may be unknown to the server.
Submit(r, t, ip, i) ==
    /\ pc[r] = "idle"
    /\ Go(r, "verify")
    /\ sub' = [sub EXCEPT ![r] =
                 [token |-> t, ip |-> ip, on |-> i,
                  revoked |-> Deleted(t.session_id),
                  rotated |-> Rotated(sha256Hex(t), t_session_refresh) # {}]]
    /\ reply' = [reply EXCEPT ![r] = "NONE"]
    /\ UNCHANGED <<now, db, clients, locals>>

Submittable == held \cup {[t EXCEPT !.type = "access"] : t \in held}

Expired(t, i) == Clock(i) >= Exp(t)

\* 1) jwtService.verify on the server's clock, then the type of the payload.
Verify(r) ==
    /\ pc[r] = "verify"
    /\ LET t == sub[r].token
           expired == Expired(t, sub[r].on)
       IN  \/ /\ expired
              /\ Refuse(r, "TOKEN_EXPIRED")
           \/ /\ ~expired
              /\ t.type # "refresh"
              /\ Refuse(r, "TOKEN_INVALID")
           \/ /\ ~expired
              /\ t.type = "refresh"
              /\ Go(r, "rotated")
              /\ UNCHANGED <<now, db, clients, sub, locals, reply>>

\* Slip: step 2) is left to the unique key.
FindRotatedSkipped(r) ==
    /\ pc[r] = "rotated"
    /\ view' = [view EXCEPT ![r] =
                  IF Isolation = "REPEATABLE READ" THEN Committed ELSE NULL]
    /\ Go(r, "submitted")
    /\ UNCHANGED <<now, db, clients, sub, found, fresh, pending, reply>>

\* 2) The transaction's first read fixes the snapshot of a repeatable read.
FindRotated(r) ==
    /\ pc[r] = "rotated"
    /\ view' = [view EXCEPT ![r] =
                  IF Isolation = "REPEATABLE READ" THEN Committed ELSE NULL]
    /\ LET rotated == Rotated(OldHash(r), t_session_refresh)
       IN  \/ \E row \in rotated : found' = [found EXCEPT ![r] = row]
           \/ rotated = {} /\ UNCHANGED found
    /\ Go(r, "submitted")
    /\ UNCHANGED <<now, db, clients, sub, fresh, pending, reply>>

\* validateAndLoadSession, first query: submitted, unexpired by the database.
FindSubmitted(r) ==
    /\ pc[r] = "submitted"
    /\ LET exists == \E row \in Read(r).rows :
                        row.refresh_hash = OldHash(r) /\ row.end_at > DbNow
       IN  \/ /\ exists
              /\ Go(r, "session")
              /\ UNCHANGED <<now, db, clients, sub, locals, reply>>
           \/ ~exists /\ Refuse(r, "TOKEN_INVALID")

SessionId(r) == IF found[r] # NULL THEN found[r].session_id ELSE sub[r].token.session_id

MatchesDeleted(session, ip) ==   \* slip: is_delete not in the WHERE
    /\ session # NULL
    /\ ip # NULL => session.ip = ip

\* is_delete = 0 always; the ip only when the request has one, and then a
\* session whose ip is NULL never matches.
Matches(session, ip) ==
    /\ session # NULL
    /\ session.is_delete = 0
    /\ ip # NULL => session.ip = ip

\* validateAndLoadSession, second query: the session of the rotated row when
\* replying from it, else of the payload.
FindSession(r) ==
    /\ pc[r] = "session"
    /\ LET valid == Matches(Read(r).sessions[SessionId(r)], sub[r].ip)
       IN  \/ /\ valid
              /\ Go(r, IF found[r] # NULL THEN "commit" ELSE "sign")
              /\ UNCHANGED <<now, db, clients, sub, locals, reply>>
           \/ ~valid /\ Refuse(r, "TOKEN_INVALID")

\* 3) The first exchange: sign the next token.
Sign(r) ==
    /\ pc[r] = "sign"
    /\ fresh' = [fresh EXCEPT ![r] = Signed(SessionId(r), sub[r].on)]
    /\ Go(r, "insert")
    /\ UNCHANGED <<now, db, clients, sub, view, found, pending, reply>>

\* The two unique keys of t_session_refresh; NULL equals no key.
SameRefreshHash(x, y) == x.refresh_hash = y.refresh_hash
SameBeforeHash(x, y) ==
    x.before_refresh_hash # NULL /\ x.before_refresh_hash = y.before_refresh_hash

\* An insert checks its unique keys in order, against every committed row
\* whatever the snapshot, and waits for a transaction that holds an equal key.
Waits(r) ==
    \E q \in Requests \ {r} :
        /\ pending[q] # NULL
        /\ \/ SameRefreshHash(NewRow(r), pending[q])
           \/ SameBeforeHash(NewRow(r), pending[q])
KeyDropped(r) == FALSE   \* slip: a migration without the unique key
DuplicateRefreshHash(r) ==
    \E row \in t_session_refresh : SameRefreshHash(NewRow(r), row)
DuplicateBeforeHash(r) ==
    \E row \in t_session_refresh : SameBeforeHash(NewRow(r), row)

\* 4) insertSessionRefresh and the catch around it.
Insert(r) ==
    /\ pc[r] = "insert"
    /\ \/ DuplicateRefreshHash(r) /\ Refuse(r, "DUPLICATE_REFRESH")
       \/ /\ ~DuplicateRefreshHash(r)
          /\ ~Waits(r)
          /\ DuplicateBeforeHash(r)
          /\ Go(r, "winner")
          /\ UNCHANGED <<now, db, clients, sub, locals, reply>>
       \/ /\ ~DuplicateRefreshHash(r)
          /\ ~Waits(r)
          /\ ~DuplicateBeforeHash(r)
          /\ pending' = [pending EXCEPT ![r] = NewRow(r)]
          /\ Go(r, "commit")
          /\ UNCHANGED <<now, db, clients, sub, view, found, fresh, reply>>

\* Slip: no catch around the insert.
LoserRefused(r) == pc[r] = "winner" /\ Refuse(r, "REFRESH_ALREADY_ROTATED")

\* The loser of the race looks for the winner's row, in its own snapshot, and
\* validates again before it replies; not found, the insert's error is rethrown.
FindWinner(r) ==
    /\ pc[r] = "winner"
    /\ LET winner == Rotated(OldHash(r), Read(r).rows)
       IN  \/ /\ \E row \in winner : found' = [found EXCEPT ![r] = row]
              /\ Go(r, "submitted")
              /\ UNCHANGED <<now, db, clients, sub, view, fresh, pending, reply>>
           \/ winner = {} /\ Refuse(r, "REFRESH_ALREADY_ROTATED")

GivenOwn(r) ==   \* slip: the loser replies with the token it signed itself
    IF fresh[r] # NULL THEN fresh[r] ELSE decryptAesGcm(found[r].refresh_encrypted)
GivenCipher(r) ==   \* slip: the rotated row's token is not decrypted
    IF found[r] # NULL THEN found[r].refresh_encrypted ELSE fresh[r]
Given(r) == IF found[r] # NULL THEN decryptAesGcm(found[r].refresh_encrypted) ELSE fresh[r]
NothingInserted(r) == {}   \* slip: the reply does not wait for the insert
Inserted(r) == IF pending[r] = NULL THEN {} ELSE {pending[r]}

\* The transaction commits and the client gets the tokens.
Commit(r) ==
    /\ pc[r] = "commit"
    /\ t_session_refresh' = t_session_refresh \cup Inserted(r)
    /\ held' = held \cup {Given(r)}
    /\ answered' = answered \cup {[asked |-> sub[r].token, given |-> Given(r)]}
    /\ Finish(r, "OK")

\* It commits, and the reply never reaches the client: the connection to the
\* database, the process or the client's own connection is lost right after.
CommitUnacknowledged(r) ==
    /\ pc[r] = "commit"
    /\ t_session_refresh' = t_session_refresh \cup Inserted(r)
    /\ Finish(r, "LOST")
    /\ UNCHANGED clients

\* A query or the commit fails (lost connection, lock wait timeout, deadlock
\* victim): the repository's 500, and the transaction rolls back.
DbFailure(r) ==
    /\ pc[r] \notin {"idle", "verify", "sign"}
    /\ Refuse(r, "FAILED")

\* A process dies: its requests get no reply, the database rolls them back.
Crash(i) ==
    /\ \E r \in Requests : pc[r] # "idle" /\ sub[r].on = i
    /\ LET hit == {r \in Requests : pc[r] # "idle" /\ sub[r].on = i}
           Wipe(f, v) == [r \in Requests |-> IF r \in hit THEN v ELSE f[r]]
       IN  /\ pc' = Wipe(pc, "idle")
           /\ reply' = Wipe(reply, "LOST")
           /\ view' = Wipe(view, NULL)
           /\ found' = Wipe(found, NULL)
           /\ fresh' = Wipe(fresh, NULL)
           /\ pending' = Wipe(pending, NULL)
    /\ UNCHANGED <<now, db, clients, sub>>

-----------------------------------------------------------------------------
Init ==
    /\ now = 0
    /\ t_session = [s \in Sessions |-> NULL]
    /\ t_session_refresh = {}
    /\ held = {}
    /\ answered = {}
    /\ pc = [r \in Requests |-> "idle"]
    /\ sub = [r \in Requests |-> NULL]
    /\ view = [r \in Requests |-> NULL]
    /\ found = [r \in Requests |-> NULL]
    /\ fresh = [r \in Requests |-> NULL]
    /\ pending = [r \in Requests |-> NULL]
    /\ reply = [r \in Requests |-> "NONE"]

\* What the handler of r does when nothing fails, the insert's wait apart.
Handle(r) ==
    \/ Verify(r)
    \/ FindRotated(r)
    \/ FindSubmitted(r)
    \/ FindSession(r)
    \/ Sign(r)
    \/ FindWinner(r)
    \/ Commit(r)

Next ==
    \/ Tick
    \/ \E s \in Sessions, i \in Instances, ip \in Ips \cup {NULL} : SignIn(s, i, ip)
    \/ \E s \in Sessions : DeleteSession(s)
    \/ \E r \in Requests, t \in Submittable, ip \in Ips \cup {NULL}, i \in Instances :
          Submit(r, t, ip, i)
    \/ \E r \in Requests : Handle(r) \/ Insert(r) \/ CommitUnacknowledged(r) \/ DbFailure(r)
    \/ \E i \in Instances : Crash(i)

Spec == Init /\ [][Next]_vars

\* Node's event loop resumes every handler whose query has returned, and the
\* database answers every query.  An insert waits in the lock queue of a key,
\* first come first served, so it is not passed over for ever.
Fairness == \A r \in Requests : WF_vars(Handle(r)) /\ SF_vars(Insert(r))

FairSpec == Spec /\ Fairness

-----------------------------------------------------------------------------
Steps == {"idle", "verify", "rotated", "submitted", "session", "sign", "insert",
          "winner", "commit"}
Statuses == {"NONE", "OK", "TOKEN_EXPIRED", "TOKEN_INVALID", "DUPLICATE_REFRESH",
             "REFRESH_ALREADY_ROTATED", "FAILED", "LOST"}

\* The type of every variable.
TypeOK ==
    /\ now \in Nat
    /\ t_session \in [Sessions -> SessionRow \cup {NULL}]
    /\ t_session_refresh \subseteq Row
    /\ held \subseteq Token
    /\ answered \subseteq [asked : Token, given : Token]
    /\ pc \in [Requests -> Steps]
    /\ sub \in [Requests -> Submission \cup {NULL}]
    /\ view \in [Requests -> View \cup {NULL}]
    /\ found \in [Requests -> Row \cup {NULL}]
    /\ fresh \in [Requests -> Token \cup {NULL}]
    /\ pending \in [Requests -> Row \cup {NULL}]
    /\ reply \in [Requests -> Statuses]

\* user.service.ts:140-141: whatever requests race or retry, on whatever
\* processes, a submitted token is only ever exchanged for one token.
IdempotentReplies ==
    \A a, b \in answered : a.asked = b.asked => a.given = b.given

HasSuccessor(row) ==
    \E next \in t_session_refresh : next.before_refresh_hash = row.refresh_hash

\* A session is one chain: of the tokens ever stored for it exactly one has no
\* successor, so neither a race nor a lost reply forks it or ends it.
OneOpenEnd ==
    \A s \in Sessions : t_session[s] # NULL =>
        \E end \in t_session_refresh :
            /\ end.session_id = s
            /\ \A row \in t_session_refresh : row.session_id = s =>
                  (HasSuccessor(row) <=> row # end)

\* A client never holds a token the server would not know: what was delivered
\* is committed, under the session it was asked for.
DeliveredIsStored ==
    /\ \A t \in held : \E row \in t_session_refresh :
          /\ row.refresh_hash = sha256Hex(t)
          /\ row.refresh_encrypted = encryptAesGcm(t)
    /\ \A a \in answered : a.asked.session_id = a.given.session_id

\* A request sent after its session was deleted is not given tokens, whatever
\* snapshot it reads and whichever path answers it.
DeletedSessionGetsNothing ==
    \A r \in Requests : reply[r] = "OK" => ~sub[r].revoked

\* A client that retries an exchange which was already committed, say because
\* the reply was lost, never meets a unique key: it is answered from the row.
RetryMeetsNoConflict ==
    \A r \in Requests :
        reply[r] \in {"DUPLICATE_REFRESH", "REFRESH_ALREADY_ROTATED"} => ~sub[r].rotated

\* user.service.ts:222, 227: whoever the key on before_refresh_hash turned away
\* finds the row it met, so REFRESH_ALREADY_ROTATED never reaches a client.
WinnerIsFound == \A r \in Requests : reply[r] # "REFRESH_ALREADY_ROTATED"

\* user.service.ts:222-231: a unique key costs a client its exchange only if the
\* very token it signed is stored already, signed by another request in the same
\* second.  Every other loser of a race finds the winner's row.
OnlyTwinsAreRefused ==
    [][\A r \in Requests :
          /\ reply'[r] # reply[r]
          /\ reply'[r] \in {"DUPLICATE_REFRESH", "REFRESH_ALREADY_ROTATED"}
          => \E row \in t_session_refresh : row.refresh_hash = sha256Hex(fresh[r])]_vars

\* user.service.ts:222: also a loser that signed the winner's token is answered:
\* no request is refused while the row that exchanges its token is stored.
TwinsAreAnswered ==
    [][\A r \in Requests :
          reply'[r] # reply[r] /\ reply'[r] = "DUPLICATE_REFRESH" =>
              Rotated(OldHash(r), t_session_refresh) = {}]_vars

\* user.repository.ts:108: a refresh_hash collides only by a statistical
\* anomaly, of which the model has none.
NoHashCollision == \A r \in Requests : reply[r] # "DUPLICATE_REFRESH"

\* user.service.ts:139: time is compared on the database's clock only, so no
\* token is called expired that the database holds to be unexpired.
ExpiredByDbClock ==
    \A r \in Requests : reply[r] = "TOKEN_EXPIRED" => Exp(sub[r].token) <= DbNow

-----------------------------------------------------------------------------
Plain(row) == decryptAesGcm(row.refresh_encrypted)
Issued == {Plain(row) : row \in t_session_refresh}
Links == {[asked |-> row.before_refresh_hash.sha256, given |-> Plain(row)] :
              row \in {row \in t_session_refresh : row.before_refresh_hash # NULL}}

Signable == {[type |-> "refresh", session_id |-> s, iat |-> n + Offset[i]] :
                 s \in Sessions, n \in 0 .. MaxNow, i \in Instances}

Chain == INSTANCE RefreshChain WITH Token <- Signable, issued <- Issued, links <- Links

\* The rotation implements the abstract chain: races, retries, failures and
\* crashes between them only ever issue a token, link an open end or repeat
\* a link's answer.
ImplementsChain == Chain!Spec

\* Every request in flight ends, be it in the lock queue of a unique key.
Answered == \A r \in Requests : pc[r] # "idle" ~> pc[r] = "idle"
=============================================================================
