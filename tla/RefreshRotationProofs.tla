----------------------- MODULE RefreshRotationProofs -----------------------
(***************************************************************************)
(* Safety of RefreshRotation, for any sessions, requests, processes,       *)
(* clocks and, unless a theorem names one, either isolation level: types,  *)
(* an inductive invariant Sound of the tables and what it implies, the     *)
(* refinement of RefreshChain, an inductive invariant Heedful of what the  *)
(* replies may say, and that every request runs out of steps.              *)
(***************************************************************************)
EXTENDS RefreshRotation, TLAPS

-----------------------------------------------------------------------------
(***************************************************************************)
(* Type correctness.  TypeOK alone is not inductive: a commit may only     *)
(* answer from a row or a token that is set.                               *)
(***************************************************************************)
\* What the step a handler is at says of its local variables.
SlotTyped(r) ==
    /\ pc[r] # "idle" => sub[r] # NULL
    /\ pc[r] \in {"idle", "verify", "rotated"} =>
          view[r] = NULL /\ found[r] = NULL /\ fresh[r] = NULL /\ pending[r] = NULL
    /\ pc[r] \in {"sign", "insert", "winner"} => found[r] = NULL
    /\ pc[r] \in {"insert", "winner"} => fresh[r] # NULL
    /\ pc[r] = "commit" => found[r] # NULL \/ pending[r] # NULL
    /\ pending[r] # NULL =>
          /\ pc[r] = "commit"
          /\ found[r] = NULL
          /\ fresh[r] # NULL
          /\ pending[r] = NewRow(r)

Typed == TypeOK /\ \A r \in Requests : SlotTyped(r)

\* Leaves of the type proofs: what the constructors return.
LEMMA SignedType ==
    ASSUME TypeOK, NEW s \in Sessions, NEW i \in Instances
    PROVE  Signed(s, i) \in Token
  BY ClockAssumption DEF TypeOK, Signed, Clock, Token, Types

LEMMA RefreshRowType ==
    ASSUME NEW t \in Token, NEW before \in Hash \cup {NULL}
    PROVE  RefreshRow(t, before) \in Row
  <1>1. Exp(t) \in Nat
    BY ClockAssumption DEF Exp, Token
  <1>2. sha256Hex(t) \in Hash /\ encryptAesGcm(t) \in Cipher /\ t.session_id \in Sessions
    BY DEF sha256Hex, encryptAesGcm, Hash, Cipher, Token
  <1> QED
    BY <1>1, <1>2 DEF RefreshRow, Row

LEMMA NewRowType ==
    ASSUME TypeOK, NEW r \in Requests, sub[r] # NULL, fresh[r] # NULL
    PROVE  NewRow(r) \in Row
  <1>1. fresh[r] \in Token /\ sub[r].token \in Token
    BY DEF TypeOK, Submission
  <1>2. OldHash(r) \in Hash
    BY <1>1 DEF OldHash, sha256Hex, Hash
  <1> QED
    BY <1>1, <1>2, RefreshRowType DEF NewRow

LEMMA GivenType ==
    ASSUME Typed, NEW r \in Requests, pc[r] = "commit"
    PROVE  Given(r) \in Token
  <1>1. CASE found[r] # NULL
    <2>1. found[r] \in Row
      BY <1>1 DEF Typed, TypeOK
    <2> QED
      BY <1>1, <2>1 DEF Given, decryptAesGcm, Row, Cipher
  <1>2. CASE found[r] = NULL
    BY <1>2 DEF Given, Typed, TypeOK, SlotTyped
  <1> QED
    BY <1>1, <1>2

LEMMA InitTyped == Init => Typed
  BY ClockAssumption DEF Init, Typed, TypeOK, SlotTyped, Steps, Statuses

\* A handler that ends leaves its slot idle and empty.
LEMMA FinishTyped ==
    ASSUME Typed, NEW r \in Requests, NEW status \in Statuses, Finish(r, status),
           t_session_refresh' \subseteq Row, held' \subseteq Token,
           answered' \subseteq [asked : Token, given : Token]
    PROVE  Typed'
  <1> USE DEF Typed
  <1>1. TypeOK'
    BY DEF TypeOK, Finish, Go, Steps
  <1>2. ASSUME NEW q \in Requests PROVE SlotTyped(q)'
    <2>1. CASE q = r
      BY <2>1 DEF TypeOK, Finish, Go, SlotTyped
    <2>2. CASE q # r
      BY <2>2 DEF TypeOK, Finish, Go, SlotTyped, NewRow, OldHash
    <2> QED
      BY <2>1, <2>2
  <1> QED
    BY <1>1, <1>2

LEMMA RefuseTyped ==
    ASSUME Typed, NEW r \in Requests, NEW status \in Statuses, Refuse(r, status)
    PROVE  Typed'
  <1>1. t_session_refresh' \subseteq Row /\ held' \subseteq Token
        /\ answered' \subseteq [asked : Token, given : Token]
    BY DEF Typed, TypeOK, Refuse, clients
  <1> QED
    BY <1>1, FinishTyped DEF Refuse

\* The other steps of a handler move one slot and leave the tables alone.
LEMMA VerifyTyped ==
    ASSUME Typed, NEW r \in Requests, Verify(r)
    PROVE  Typed'
  <1>1. CASE \E status \in Statuses : Refuse(r, status)
    BY <1>1, RefuseTyped
  <1>2. CASE Go(r, "rotated") /\ UNCHANGED <<now, db, clients, sub, locals, reply>>
    BY <1>2 DEF Verify, Typed, TypeOK, SlotTyped, Go, Steps, db, clients, locals,
                NewRow, OldHash
  <1> QED
    BY <1>1, <1>2 DEF Verify, Statuses

LEMMA FindRotatedTyped ==
    ASSUME Typed, NEW r \in Requests, FindRotated(r)
    PROVE  Typed'
  <1>1. Committed \in View
    BY DEF Typed, TypeOK, Committed, View
  <1>2. TypeOK'
    BY <1>1 DEF FindRotated, Typed, TypeOK, Go, Steps, db, clients, Rotated
  <1>3. ASSUME NEW q \in Requests PROVE SlotTyped(q)'
    BY DEF FindRotated, Typed, TypeOK, SlotTyped, Go, NewRow, OldHash
  <1> QED
    BY <1>2, <1>3 DEF Typed

LEMMA FindSubmittedTyped ==
    ASSUME Typed, NEW r \in Requests, FindSubmitted(r)
    PROVE  Typed'
  <1>1. CASE Refuse(r, "TOKEN_INVALID")
    BY <1>1, RefuseTyped DEF Statuses
  <1>2. CASE Go(r, "session") /\ UNCHANGED <<now, db, clients, sub, locals, reply>>
    BY <1>2 DEF FindSubmitted, Typed, TypeOK, SlotTyped, Go, Steps, db, clients, locals,
                NewRow, OldHash
  <1> QED
    BY <1>1, <1>2 DEF FindSubmitted

LEMMA FindSessionTyped ==
    ASSUME Typed, NEW r \in Requests, FindSession(r)
    PROVE  Typed'
  <1>1. CASE Refuse(r, "TOKEN_INVALID")
    BY <1>1, RefuseTyped DEF Statuses
  <1>2. CASE /\ Go(r, IF found[r] # NULL THEN "commit" ELSE "sign")
             /\ UNCHANGED <<now, db, clients, sub, locals, reply>>
    BY <1>2 DEF FindSession, Typed, TypeOK, SlotTyped, Go, Steps, db, clients, locals,
                NewRow, OldHash
  <1> QED
    BY <1>1, <1>2 DEF FindSession

LEMMA SignTyped ==
    ASSUME Typed, NEW r \in Requests, Sign(r)
    PROVE  Typed'
  <1>1. SessionId(r) \in Sessions /\ sub[r].on \in Instances
    BY DEF Sign, SessionId, Typed, TypeOK, SlotTyped, Submission, Token
  <1>2. Signed(SessionId(r), sub[r].on) \in Token
    BY <1>1, SignedType DEF Typed
  <1>3. Signed(SessionId(r), sub[r].on) # NULL
    BY <1>2, NullAssumption
  <1>4. TypeOK'
    BY <1>2 DEF Sign, Typed, TypeOK, Go, Steps, db, clients
  <1>5. ASSUME NEW q \in Requests PROVE SlotTyped(q)'
    BY <1>3 DEF Sign, Typed, TypeOK, SlotTyped, Go, NewRow, OldHash
  <1> QED
    BY <1>4, <1>5 DEF Typed

LEMMA InsertTyped ==
    ASSUME Typed, NEW r \in Requests, Insert(r)
    PROVE  Typed'
  <1>1. NewRow(r) \in Row
    BY NewRowType DEF Insert, Typed, SlotTyped
  <1>2. NewRow(r) # NULL
    BY <1>1, NullAssumption
  <1>3. CASE Refuse(r, "DUPLICATE_REFRESH")
    BY <1>3, RefuseTyped DEF Statuses
  <1>4. CASE Go(r, "winner") /\ UNCHANGED <<now, db, clients, sub, locals, reply>>
    BY <1>4 DEF Insert, Typed, TypeOK, SlotTyped, Go, Steps, db, clients, locals,
                NewRow, OldHash
  <1>5. CASE /\ pending' = [pending EXCEPT ![r] = NewRow(r)]
             /\ Go(r, "commit")
             /\ UNCHANGED <<now, db, clients, sub, view, found, fresh, reply>>
    <2>1. TypeOK'
      BY <1>1, <1>5 DEF Typed, TypeOK, Go, Steps, db, clients
    <2>2. ASSUME NEW q \in Requests PROVE SlotTyped(q)'
      BY <1>2, <1>5 DEF Insert, Typed, TypeOK, SlotTyped, Go, NewRow, OldHash
    <2> QED
      BY <2>1, <2>2 DEF Typed
  <1> QED
    BY <1>3, <1>4, <1>5 DEF Insert

LEMMA FindWinnerTyped ==
    ASSUME Typed, NEW r \in Requests, FindWinner(r)
    PROVE  Typed'
  <1>1. CASE Refuse(r, "REFRESH_ALREADY_ROTATED")
    BY <1>1, RefuseTyped DEF Statuses
  <1>2. ASSUME NEW row \in Rotated(OldHash(r), Read(r).rows),
               found' = [found EXCEPT ![r] = row],
               Go(r, "submitted"),
               UNCHANGED <<now, db, clients, sub, view, fresh, pending, reply>>
        PROVE  Typed'
    <2>1. Read(r).rows \subseteq Row
      BY DEF Read, Committed, Typed, TypeOK, View
    <2>2. TypeOK'
      BY <1>2, <2>1 DEF Typed, TypeOK, Go, Steps, db, clients, Rotated
    <2>3. ASSUME NEW q \in Requests PROVE SlotTyped(q)'
      BY <1>2 DEF FindWinner, Typed, TypeOK, SlotTyped, Go, NewRow, OldHash
    <2> QED
      BY <2>2, <2>3 DEF Typed
  <1> QED
    BY <1>1, <1>2 DEF FindWinner

\* What a commit adds to the table.
LEMMA InsertedType ==
    ASSUME Typed, NEW r \in Requests
    PROVE  (t_session_refresh \cup Inserted(r)) \subseteq Row
  BY DEF Inserted, Typed, TypeOK

LEMMA CommitTyped ==
    ASSUME Typed, NEW r \in Requests, Commit(r)
    PROVE  Typed'
  <1>1. Given(r) \in Token /\ sub[r].token \in Token
    BY GivenType DEF Commit, Typed, TypeOK, SlotTyped, Submission
  <1>2. held' \subseteq Token /\ answered' \subseteq [asked : Token, given : Token]
    BY <1>1 DEF Commit, Typed, TypeOK
  <1>3. t_session_refresh' \subseteq Row
    BY InsertedType DEF Commit
  <1>4. Finish(r, "OK") /\ "OK" \in Statuses
    BY DEF Commit, Statuses
  <1> QED
    BY <1>2, <1>3, <1>4, FinishTyped

LEMMA CommitUnacknowledgedTyped ==
    ASSUME Typed, NEW r \in Requests, CommitUnacknowledged(r)
    PROVE  Typed'
  <1>1. held' \subseteq Token /\ answered' \subseteq [asked : Token, given : Token]
    BY DEF CommitUnacknowledged, Typed, TypeOK, clients
  <1>2. t_session_refresh' \subseteq Row
    BY InsertedType DEF CommitUnacknowledged
  <1>3. Finish(r, "LOST") /\ "LOST" \in Statuses
    BY DEF CommitUnacknowledged, Statuses
  <1> QED
    BY <1>1, <1>2, <1>3, FinishTyped

\* The steps of the environment.
LEMMA SignInTyped ==
    ASSUME Typed, NEW s \in Sessions, NEW i \in Instances, NEW ip \in Ips \cup {NULL},
           SignIn(s, i, ip)
    PROVE  Typed'
  <1>1. Signed(s, i) \in Token
    BY SignedType DEF Typed
  <1>2. RefreshRow(Signed(s, i), NULL) \in Row
    BY <1>1, RefreshRowType
  <1>3. [ip |-> ip, is_delete |-> 0] \in SessionRow
    BY DEF SessionRow
  <1>4. TypeOK'
    BY <1>1, <1>2, <1>3 DEF SignIn, Typed, TypeOK, locals
  <1>5. ASSUME NEW q \in Requests PROVE SlotTyped(q)'
    BY DEF SignIn, Typed, SlotTyped, locals, NewRow, OldHash
  <1> QED
    BY <1>4, <1>5 DEF Typed

LEMMA DeleteSessionTyped ==
    ASSUME Typed, NEW s \in Sessions, DeleteSession(s)
    PROVE  Typed'
  <1>1. t_session[s] \in SessionRow
    BY DEF DeleteSession, Typed, TypeOK
  <1>2. [t_session[s] EXCEPT !.is_delete = 1] \in SessionRow
    BY <1>1 DEF SessionRow
  <1>3. t_session' = [t_session EXCEPT ![s] = [t_session[s] EXCEPT !.is_delete = 1]]
    BY DEF DeleteSession
  <1>4. TypeOK'
    BY <1>2, <1>3 DEF DeleteSession, Typed, TypeOK, clients, locals
  <1>5. ASSUME NEW q \in Requests PROVE SlotTyped(q)'
    BY DEF DeleteSession, Typed, SlotTyped, clients, locals, NewRow, OldHash
  <1> QED
    BY <1>4, <1>5 DEF Typed

LEMMA SubmitTyped ==
    ASSUME Typed, NEW r \in Requests, NEW t \in Submittable,
           NEW ip \in Ips \cup {NULL}, NEW i \in Instances, Submit(r, t, ip, i)
    PROVE  Typed'
  <1> DEFINE submission == [token |-> t, ip |-> ip, on |-> i,
                            revoked |-> Deleted(t.session_id),
                            rotated |-> Rotated(sha256Hex(t), t_session_refresh) # {}]
  <1>1. t \in Token
    <2>1. ASSUME NEW u \in Token PROVE [u EXCEPT !.type = "access"] \in Token
      BY DEF Token, Types
    <2> QED
      BY <2>1 DEF Submittable, Typed, TypeOK
  <1>2. Deleted(t.session_id) \in BOOLEAN
    BY DEF Deleted
  <1>3. submission \in Submission
    BY <1>1, <1>2 DEF Submission
  <1>4. submission # NULL
    BY <1>3, NullAssumption
  <1>5. TypeOK'
    BY <1>3 DEF Submit, Typed, TypeOK, Go, Steps, Statuses, db, clients, locals
  <1>6. ASSUME NEW q \in Requests PROVE SlotTyped(q)'
    BY <1>4 DEF Submit, Typed, TypeOK, SlotTyped, Go, locals, NewRow, OldHash
  <1> QED
    BY <1>5, <1>6 DEF Typed

LEMMA CrashTyped ==
    ASSUME Typed, NEW i \in Instances, Crash(i)
    PROVE  Typed'
  <1>1. TypeOK'
    BY DEF Crash, Typed, TypeOK, Steps, Statuses, db, clients
  <1>2. ASSUME NEW q \in Requests PROVE SlotTyped(q)'
    BY DEF Crash, Typed, TypeOK, SlotTyped, NewRow, OldHash
  <1> QED
    BY <1>1, <1>2 DEF Typed

LEMMA TickTyped ==
    ASSUME Typed, Tick
    PROVE  Typed'
  BY DEF Tick, Typed, TypeOK, SlotTyped, db, clients, locals, NewRow, OldHash

LEMMA NextTyped ==
    ASSUME Typed, [Next]_vars
    PROVE  Typed'
  <1>1. CASE UNCHANGED vars
    BY <1>1 DEF vars, db, clients, locals, Typed, TypeOK, SlotTyped, NewRow, OldHash
  <1>2. ASSUME NEW r \in Requests, Handle(r) PROVE Typed'
    BY <1>2, VerifyTyped, FindRotatedTyped, FindSubmittedTyped, FindSessionTyped,
       SignTyped, FindWinnerTyped, CommitTyped DEF Handle
  <1>3. ASSUME NEW r \in Requests, DbFailure(r) PROVE Typed'
    BY <1>3, RefuseTyped DEF DbFailure, Statuses
  <1> QED
    BY <1>1, <1>2, <1>3, TickTyped, SignInTyped, DeleteSessionTyped, SubmitTyped,
       InsertTyped, CommitUnacknowledgedTyped, CrashTyped DEF Next

\* Every variable has its type in every behaviour, and the step a handler is at
\* determines which of its local variables are set.
THEOREM TypeCorrect == Spec => []Typed
  <1> QED
    BY InitTyped, NextTyped, PTL DEF Spec

\* TypeOK holds in every behaviour.
THEOREM TypeInvariant == Spec => []TypeOK
  <1>1. Typed => TypeOK
    BY DEF Typed
  <1> QED
    BY <1>1, TypeCorrect, PTL

-----------------------------------------------------------------------------
(***************************************************************************)
(* What the tables, and what the handlers have read of them, always are.   *)
(***************************************************************************)
\* A row is what RefreshRow makes of its own token, and continues a chain.
RowsSound ==
    \A row \in t_session_refresh :
        /\ Plain(row) \in Signable
        /\ row = RefreshRow(Plain(row), row.before_refresh_hash)
        /\ t_session[row.session_id] # NULL
        /\ row.before_refresh_hash # NULL =>
              /\ row.before_refresh_hash.sha256.session_id = row.session_id
              /\ \E prev \in t_session_refresh : prev.refresh_hash = row.before_refresh_hash

\* Two rows the unique keys keep apart.
Clash(x, y) == SameRefreshHash(x, y) \/ SameBeforeHash(x, y)

KeysUnique == \A x, y \in t_session_refresh : Clash(x, y) => x = y

AnsweredStored ==
    \A a \in answered : \E row \in t_session_refresh :
        row.before_refresh_hash = sha256Hex(a.asked) /\ Plain(row) = a.given

\* An uncommitted row holds its keys against every other row.
PendingApart ==
    \A r \in Requests : pending[r] # NULL =>
        /\ \A row \in t_session_refresh : ~Clash(pending[r], row)
        /\ \A q \in Requests \ {r} : pending[q] # NULL => ~Clash(pending[r], pending[q])

\* What a handler has read stays true of the table.
SlotSound(r) ==
    /\ sub[r] # NULL => t_session[sub[r].token.session_id] # NULL
    /\ found[r] # NULL =>
          found[r] \in t_session_refresh /\ found[r].before_refresh_hash = OldHash(r)
    /\ fresh[r] # NULL =>
          fresh[r] \in Signable /\ fresh[r].session_id = sub[r].token.session_id
    /\ view[r] # NULL => view[r].rows \subseteq t_session_refresh
    /\ pc[r] \in {"session", "sign", "insert", "commit"} =>
          \E row \in t_session_refresh : row.refresh_hash = OldHash(r)

TableSound == RowsSound /\ KeysUnique /\ AnsweredStored /\ DeliveredIsStored /\ OneOpenEnd

Sound ==
    /\ Typed
    /\ now \in 0 .. MaxNow
    /\ TableSound
    /\ PendingApart
    /\ \A r \in Requests : SlotSound(r)

-----------------------------------------------------------------------------
LEMMA InitSound == Init => Sound
  <1> SUFFICES ASSUME Init PROVE Sound
    OBVIOUS
  <1>1. Typed /\ now \in 0 .. MaxNow
    BY InitTyped, ClockAssumption DEF Init
  <1>2. RowsSound /\ KeysUnique /\ AnsweredStored /\ DeliveredIsStored
    BY DEF Init, RowsSound, KeysUnique, AnsweredStored, DeliveredIsStored
  <1>3. OneOpenEnd
    BY DEF Init, OneOpenEnd
  <1>4. PendingApart /\ \A r \in Requests : SlotSound(r)
    BY DEF Init, PendingApart, SlotSound
  <1> QED
    BY <1>1, <1>2, <1>3, <1>4 DEF Sound, TableSound

LEMMA SignedSignable ==
    ASSUME now \in 0 .. MaxNow, NEW s \in Sessions, NEW i \in Instances
    PROVE  Signed(s, i) \in Signable /\ Signed(s, i).session_id = s
  BY DEF Signed, Signable, Clock

\* The fields of a stored row are those of its token.
LEMMA RowFields ==
    ASSUME RowsSound, NEW row \in t_session_refresh
    PROVE  /\ row.session_id = Plain(row).session_id
           /\ row.refresh_hash = sha256Hex(Plain(row))
           /\ row.refresh_encrypted = encryptAesGcm(Plain(row))
  <1> DEFINE t == Plain(row)
  <1>1. row = RefreshRow(t, row.before_refresh_hash)
    BY DEF RowsSound
  <1> HIDE DEF t
  <1>2. row.session_id = t.session_id
    BY <1>1 DEF RefreshRow
  <1>3. row.refresh_hash = sha256Hex(t)
    BY <1>1 DEF RefreshRow
  <1>4. row.refresh_encrypted = encryptAesGcm(t)
    BY <1>1 DEF RefreshRow
  <1> QED
    BY <1>2, <1>3, <1>4 DEF t

LEMMA SignableToken == Signable \subseteq Token
  BY ClockAssumption DEF Signable, Token, Types

\* Steps that leave the rows and what clients know alone.
SessionsKept == \A s \in Sessions : t_session[s] # NULL <=> t_session'[s] # NULL

LEMMA TableKept ==
    ASSUME Typed, TableSound, SessionsKept, UNCHANGED <<t_session_refresh, clients>>
    PROVE  TableSound'
  <1> USE DEF TableSound
  <1>1. \A row \in t_session_refresh : row.session_id \in Sessions
    BY DEF Typed, TypeOK, Row
  <1>2. RowsSound'
    BY <1>1 DEF RowsSound, SessionsKept
  <1>3. KeysUnique' /\ AnsweredStored' /\ DeliveredIsStored'
    BY DEF KeysUnique, AnsweredStored, DeliveredIsStored, clients
  <1>4. OneOpenEnd'
    BY DEF OneOpenEnd, HasSuccessor, SessionsKept
  <1> QED
    BY <1>2, <1>3, <1>4

LEMMA PendingKept ==
    ASSUME PendingApart, UNCHANGED t_session_refresh,
           \A r \in Requests : pending'[r] = pending[r] \/ pending'[r] = NULL
    PROVE  PendingApart'
  BY DEF PendingApart

\* A slot no step touches.
LEMMA SlotKept ==
    ASSUME Typed, NEW r \in Requests, SlotSound(r),
           \A s \in Sessions : t_session[s] # NULL => t_session'[s] # NULL,
           t_session_refresh \subseteq t_session_refresh',
           sub'[r] = sub[r], found'[r] = found[r], fresh'[r] = fresh[r],
           view'[r] = view[r],
           pc'[r] \in {"session", "sign", "insert", "commit"} =>
              pc[r] \in {"session", "sign", "insert", "commit"}
    PROVE  SlotSound(r)'
  <1>1. sub[r] # NULL => sub[r].token.session_id \in Sessions
    BY DEF Typed, TypeOK, Submission, Token
  <1> QED
    BY <1>1 DEF SlotSound, OldHash

\* A slot whose handler has ended.
LEMMA SlotEmptied ==
    ASSUME Typed, NEW r \in Requests, SlotSound(r),
           \A s \in Sessions : t_session[s] # NULL => t_session'[s] # NULL,
           sub'[r] = sub[r], found'[r] = NULL, fresh'[r] = NULL, view'[r] = NULL,
           pc'[r] = "idle"
    PROVE  SlotSound(r)'
  <1>1. sub[r] # NULL => sub[r].token.session_id \in Sessions
    BY DEF Typed, TypeOK, Submission, Token
  <1> QED
    BY <1>1 DEF SlotSound

LEMMA FinishSlots ==
    ASSUME Typed, \A q \in Requests : SlotSound(q), NEW r \in Requests, NEW status,
           Finish(r, status), t_session_refresh \subseteq t_session_refresh'
    PROVE  \A q \in Requests : SlotSound(q)'
  <1> SUFFICES ASSUME NEW q \in Requests PROVE SlotSound(q)'
    OBVIOUS
  <1>1. CASE q = r
    BY <1>1, SlotEmptied DEF Finish, Go, Typed, TypeOK
  <1>2. CASE q # r
    BY <1>2, SlotKept DEF Finish, Go, Typed, TypeOK
  <1> QED
    BY <1>1, <1>2

LEMMA RefuseSound ==
    ASSUME Sound, NEW r \in Requests, NEW status \in Statuses, Refuse(r, status)
    PROVE  Sound'
  <1>1. Typed' /\ now' \in 0 .. MaxNow
    BY RefuseTyped DEF Sound, Refuse, Finish
  <1>2. TableSound'
    BY TableKept DEF Sound, Refuse, Finish, SessionsKept
  <1>3. PendingApart'
    BY PendingKept DEF Sound, Refuse, Finish, Typed, TypeOK
  <1>4. \A q \in Requests : SlotSound(q)'
    BY FinishSlots DEF Sound, Refuse
  <1> QED
    BY <1>1, <1>2, <1>3, <1>4 DEF Sound

\* A step of slot r's handler that moves on without touching the tables or
\* its insert: only its own slot is left to check.
LEMMA MoveSound ==
    ASSUME Sound, Typed', NEW r \in Requests,
           UNCHANGED <<now, db, clients, sub, pending>>,
           \A q \in Requests \ {r} : /\ found'[q] = found[q]
                                      /\ fresh'[q] = fresh[q]
                                      /\ view'[q] = view[q]
                                      /\ pc'[q] = pc[q],
           SlotSound(r)'
    PROVE  Sound'
  <1>1. now' \in 0 .. MaxNow
    BY DEF Sound
  <1>2. TableSound'
    BY TableKept DEF Sound, db, SessionsKept
  <1>3. PendingApart'
    BY PendingKept DEF Sound, db
  <1>4. \A q \in Requests : SlotSound(q)'
    BY SlotKept DEF Sound, db
  <1> QED
    BY <1>1, <1>2, <1>3, <1>4 DEF Sound

LEMMA VerifySound ==
    ASSUME Sound, NEW r \in Requests, Verify(r)
    PROVE  Sound'
  <1>1. CASE \E status \in Statuses : Refuse(r, status)
    BY <1>1, RefuseSound
  <1>2. CASE Go(r, "rotated") /\ UNCHANGED <<now, db, clients, sub, locals, reply>>
    <2>1. Typed'
      BY VerifyTyped DEF Sound
    <2>2. SlotSound(r)'
      BY <1>2, SlotKept DEF Sound, Go, Typed, TypeOK, db, locals
    <2> QED
      BY <1>2, <2>1, <2>2, MoveSound DEF Sound, Go, Typed, TypeOK, locals
  <1> QED
    BY <1>1, <1>2 DEF Verify, Statuses

LEMMA FindRotatedSound ==
    ASSUME Sound, NEW r \in Requests, FindRotated(r)
    PROVE  Sound'
  <1>1. Typed'
    BY FindRotatedTyped DEF Sound
  <1>2. UNCHANGED <<now, db, clients, sub, fresh, pending>> /\ Go(r, "submitted")
    BY DEF FindRotated
  <1>3. view'[r] # NULL => view'[r].rows = t_session_refresh
    BY DEF FindRotated, Committed, Sound, Typed, TypeOK
  <1>4. found'[r] # NULL => /\ found'[r] \in t_session_refresh
                            /\ found'[r].before_refresh_hash = OldHash(r)
    BY DEF FindRotated, Rotated, Sound, Typed, TypeOK, SlotTyped
  <1>5. SlotSound(r)'
    BY <1>2, <1>3, <1>4 DEF SlotSound, OldHash, Sound, Typed, TypeOK, Go, db
  <1>6. \A q \in Requests \ {r} : /\ found'[q] = found[q]
                                   /\ fresh'[q] = fresh[q]
                                   /\ view'[q] = view[q]
                                   /\ pc'[q] = pc[q]
    BY DEF FindRotated, Go, Sound, Typed, TypeOK
  <1> QED
    BY <1>1, <1>2, <1>5, <1>6, MoveSound

\* What a transaction reads was committed, whenever its snapshot was taken.
LEMMA ReadCommitted ==
    ASSUME Sound, NEW r \in Requests
    PROVE  Read(r).rows \subseteq t_session_refresh
  BY DEF Read, Committed, Sound, SlotSound

LEMMA FindSubmittedSound ==
    ASSUME Sound, NEW r \in Requests, FindSubmitted(r)
    PROVE  Sound'
  <1>1. CASE Refuse(r, "TOKEN_INVALID")
    BY <1>1, RefuseSound DEF Statuses
  <1>2. CASE /\ \E row \in Read(r).rows : row.refresh_hash = OldHash(r)
             /\ Go(r, "session")
             /\ UNCHANGED <<now, db, clients, sub, locals, reply>>
    <2>1. Typed'
      BY FindSubmittedTyped DEF Sound
    <2>2. \E row \in t_session_refresh : row.refresh_hash = OldHash(r)
      BY <1>2, ReadCommitted
    <2>3. SlotSound(r)'
      BY <1>2, <2>2 DEF Sound, SlotSound, OldHash, Go, db, locals
    <2> QED
      BY <1>2, <2>1, <2>3, MoveSound DEF Sound, Go, Typed, TypeOK, locals
  <1> QED
    BY <1>1, <1>2 DEF FindSubmitted

LEMMA FindSessionSound ==
    ASSUME Sound, NEW r \in Requests, FindSession(r)
    PROVE  Sound'
  <1>1. CASE Refuse(r, "TOKEN_INVALID")
    BY <1>1, RefuseSound DEF Statuses
  <1>2. CASE /\ Go(r, IF found[r] # NULL THEN "commit" ELSE "sign")
             /\ UNCHANGED <<now, db, clients, sub, locals, reply>>
    <2>1. Typed'
      BY FindSessionTyped DEF Sound
    <2>2. SlotSound(r)'
      BY <1>2, SlotKept DEF FindSession, Sound, Go, Typed, TypeOK, db, locals
    <2> QED
      BY <1>2, <2>1, <2>2, MoveSound DEF Sound, Go, Typed, TypeOK, locals
  <1> QED
    BY <1>1, <1>2 DEF FindSession

LEMMA SignSound ==
    ASSUME Sound, NEW r \in Requests, Sign(r)
    PROVE  Sound'
  <1>1. Typed'
    BY SignTyped DEF Sound
  <1>2. /\ SessionId(r) = sub[r].token.session_id
        /\ SessionId(r) \in Sessions
        /\ sub[r].on \in Instances
    BY DEF Sign, SessionId, Sound, Typed, TypeOK, SlotTyped, Submission, Token
  <1>3. fresh'[r] \in Signable /\ fresh'[r].session_id = sub[r].token.session_id
    BY <1>2, SignedSignable DEF Sign, Sound, Typed, TypeOK
  <1>4. SlotSound(r)'
    BY <1>3 DEF Sign, Sound, SlotSound, OldHash, Go, Typed, TypeOK, db
  <1> QED
    BY <1>1, <1>4, MoveSound DEF Sign, Sound, Go, Typed, TypeOK

LEMMA InsertSound ==
    ASSUME Sound, NEW r \in Requests, Insert(r)
    PROVE  Sound'
  <1>1. CASE Refuse(r, "DUPLICATE_REFRESH")
    BY <1>1, RefuseSound DEF Statuses
  <1>2. CASE Go(r, "winner") /\ UNCHANGED <<now, db, clients, sub, locals, reply>>
    <2>1. Typed'
      BY InsertTyped DEF Sound
    <2>2. SlotSound(r)'
      BY <1>2, SlotKept DEF Insert, Sound, Go, Typed, TypeOK, db, locals
    <2> QED
      BY <1>2, <2>1, <2>2, MoveSound DEF Sound, Go, Typed, TypeOK, locals
  <1>3. CASE /\ ~DuplicateRefreshHash(r)
             /\ ~Waits(r)
             /\ ~DuplicateBeforeHash(r)
             /\ pending' = [pending EXCEPT ![r] = NewRow(r)]
             /\ Go(r, "commit")
             /\ UNCHANGED <<now, db, clients, sub, view, found, fresh, reply>>
    <2>1. Typed' /\ now' \in 0 .. MaxNow
      BY <1>3, InsertTyped DEF Sound
    <2>2. TableSound'
      BY <1>3, TableKept DEF Sound, db, SessionsKept
    <2>3. \A row \in t_session_refresh : ~Clash(NewRow(r), row) /\ ~Clash(row, NewRow(r))
      BY <1>3 DEF DuplicateRefreshHash, DuplicateBeforeHash, Clash, SameRefreshHash, SameBeforeHash
    <2>4. \A q \in Requests \ {r} : pending[q] # NULL =>
             ~Clash(NewRow(r), pending[q]) /\ ~Clash(pending[q], NewRow(r))
      BY <1>3 DEF Waits, Clash, SameRefreshHash, SameBeforeHash
    <2>5. PendingApart'
      BY <1>3, <2>3, <2>4 DEF PendingApart, Sound, Typed, TypeOK, db
    <2>6. ASSUME NEW q \in Requests PROVE SlotSound(q)'
      BY <1>3, SlotKept DEF Insert, Sound, Go, Typed, TypeOK, db
    <2> QED
      BY <2>1, <2>2, <2>5, <2>6 DEF Sound
  <1> QED
    BY <1>1, <1>2, <1>3 DEF Insert

LEMMA FindWinnerSound ==
    ASSUME Sound, NEW r \in Requests, FindWinner(r)
    PROVE  Sound'
  <1>1. CASE Refuse(r, "REFRESH_ALREADY_ROTATED")
    BY <1>1, RefuseSound DEF Statuses
  <1>2. ASSUME NEW row \in Rotated(OldHash(r), Read(r).rows),
               found' = [found EXCEPT ![r] = row],
               Go(r, "submitted"),
               UNCHANGED <<now, db, clients, sub, view, fresh, pending, reply>>
        PROVE  Sound'
    <2>1. Typed'
      BY FindWinnerTyped DEF Sound
    <2>2. row \in t_session_refresh /\ row.before_refresh_hash = OldHash(r)
      BY ReadCommitted DEF Rotated
    <2>3. SlotSound(r)'
      BY <1>2, <2>2 DEF Sound, SlotSound, OldHash, Go, Typed, TypeOK, db
    <2> QED
      BY <1>2, <2>1, <2>3, MoveSound DEF Sound, Go, Typed, TypeOK
  <1> QED
    BY <1>1, <1>2 DEF FindWinner

LEMMA TickSound ==
    ASSUME Sound, Tick
    PROVE  Sound'
  <1>1. Typed' /\ now' \in 0 .. MaxNow
    BY TickTyped, ClockAssumption DEF Sound, Tick
  <1>2. TableSound' /\ PendingApart'
    BY TableKept, PendingKept DEF Sound, Tick, db, locals, SessionsKept
  <1>3. \A q \in Requests : SlotSound(q)'
    BY SlotKept DEF Sound, Tick, db, locals
  <1> QED
    BY <1>1, <1>2, <1>3 DEF Sound

LEMMA DeleteSessionSound ==
    ASSUME Sound, NEW s \in Sessions, DeleteSession(s)
    PROVE  Sound'
  <1>1. Typed' /\ now' \in 0 .. MaxNow
    BY DeleteSessionTyped DEF Sound, DeleteSession
  <1>2. t_session'[s] # NULL
    <2>1. t_session[s] \in SessionRow
      BY DEF DeleteSession, Sound, Typed, TypeOK
    <2>2. t_session'[s] = [t_session[s] EXCEPT !.is_delete = 1]
      BY DEF DeleteSession, Sound, Typed, TypeOK
    <2>3. [t_session[s] EXCEPT !.is_delete = 1] \in SessionRow
      BY <2>1 DEF SessionRow
    <2> QED
      BY <2>2, <2>3, NullAssumption
  <1>3. SessionsKept
    BY <1>2 DEF DeleteSession, Sound, Typed, TypeOK, SessionsKept
  <1>4. TableSound' /\ PendingApart'
    BY <1>3, TableKept, PendingKept DEF Sound, DeleteSession, locals
  <1>5. \A q \in Requests : SlotSound(q)'
    BY <1>3, SlotKept DEF Sound, DeleteSession, locals, SessionsKept
  <1> QED
    BY <1>1, <1>4, <1>5 DEF Sound

LEMMA SubmitSound ==
    ASSUME Sound, NEW r \in Requests, NEW t \in Submittable,
           NEW ip \in Ips \cup {NULL}, NEW i \in Instances, Submit(r, t, ip, i)
    PROVE  Sound'
  <1>1. Typed' /\ now' \in 0 .. MaxNow
    BY SubmitTyped DEF Sound, Submit
  <1>2. TableSound' /\ PendingApart'
    BY TableKept, PendingKept DEF Sound, Submit, db, locals, SessionsKept
  <1>3. \A u \in held : t_session[u.session_id] # NULL
    <2>1. ASSUME NEW u \in held
          PROVE  \E row \in t_session_refresh : Plain(row) = u
      <3>1. PICK row \in t_session_refresh : row.refresh_encrypted = encryptAesGcm(u)
        BY DEF Sound, TableSound, DeliveredIsStored
      <3> QED
        BY <3>1 DEF Plain, encryptAesGcm, decryptAesGcm
    <2>2. RowsSound
      BY DEF Sound, TableSound
    <2>3. \A row \in t_session_refresh : t_session[row.session_id] # NULL
      BY <2>2 DEF RowsSound
    <2>4. \A row \in t_session_refresh : row.session_id = Plain(row).session_id
      BY <2>2, RowFields
    <2> QED
      BY <2>1, <2>3, <2>4
  <1>4. t_session[t.session_id] # NULL
    <2>1. t \in held \/ \E u \in held : t = [u EXCEPT !.type = "access"]
      BY DEF Submittable
    <2>2. \A u \in held : [u EXCEPT !.type = "access"].session_id = u.session_id
      BY DEF Sound, Typed, TypeOK, Token
    <2> QED
      BY <1>3, <2>1, <2>2
  <1>5. SlotSound(r)'
    BY <1>4 DEF Submit, SlotSound, Sound, Typed, TypeOK, SlotTyped, Go, db, locals
  <1>6. ASSUME NEW q \in Requests \ {r} PROVE SlotSound(q)'
    BY SlotKept DEF Submit, Sound, Typed, TypeOK, Go, db, locals
  <1> QED
    BY <1>1, <1>2, <1>5, <1>6 DEF Sound

LEMMA CrashSound ==
    ASSUME Sound, NEW i \in Instances, Crash(i)
    PROVE  Sound'
  <1>1. Typed' /\ now' \in 0 .. MaxNow
    BY CrashTyped DEF Sound, Crash
  <1>2. TableSound'
    BY TableKept DEF Sound, Crash, db, SessionsKept
  <1>3. PendingApart'
    BY PendingKept DEF Sound, Crash, db
  <1>4. ASSUME NEW q \in Requests PROVE SlotSound(q)'
    <2>1. CASE pc[q] # "idle" /\ sub[q].on = i
      BY <2>1, SlotEmptied DEF Crash, Sound, db
    <2>2. CASE ~(pc[q] # "idle" /\ sub[q].on = i)
      BY <2>2, SlotKept DEF Crash, Sound, db
    <2> QED
      BY <2>1, <2>2
  <1> QED
    BY <1>1, <1>2, <1>3, <1>4 DEF Sound

-----------------------------------------------------------------------------
(***************************************************************************)
(* The steps that add a row: sign-in starts a chain, a commit extends one. *)
(***************************************************************************)
LEMMA HashInjective ==
    ASSUME NEW t, NEW u, sha256Hex(t) = sha256Hex(u)
    PROVE  t = u
  BY DEF sha256Hex

\* A row of a session no stored row belongs to clashes with none.
LEMMA FreshSessionApart ==
    ASSUME Sound, NEW s \in Sessions, t_session[s] = NULL, NEW t, t.session_id = s
    PROVE  /\ \A row \in t_session_refresh :
                 row.session_id # s /\ row.refresh_hash # sha256Hex(t)
           /\ \A r \in Requests : pending[r] # NULL =>
                 pending[r].refresh_hash # sha256Hex(t)
  <1>1. ASSUME NEW row \in t_session_refresh
        PROVE  row.session_id # s /\ row.refresh_hash # sha256Hex(t)
    <2>1. row.session_id # s
      BY DEF Sound, TableSound, RowsSound
    <2>2. row.session_id = Plain(row).session_id /\ row.refresh_hash = sha256Hex(Plain(row))
      BY RowFields DEF Sound, TableSound
    <2> QED
      BY <2>1, <2>2, HashInjective
  <1>2. ASSUME NEW r \in Requests, pending[r] # NULL
        PROVE  pending[r].refresh_hash # sha256Hex(t)
    <2>1. /\ fresh[r] # NULL
          /\ pending[r] = NewRow(r)
          /\ sub[r] # NULL
      BY <1>2 DEF Sound, Typed, SlotTyped
    <2>2. t_session[fresh[r].session_id] # NULL
      BY <2>1 DEF Sound, SlotSound
    <2>3. pending[r].refresh_hash = sha256Hex(fresh[r])
      BY <2>1 DEF NewRow, RefreshRow
    <2> QED
      BY <2>2, <2>3, HashInjective
  <1> QED
    BY <1>1, <1>2

LEMMA SignInSound ==
    ASSUME Sound, NEW s \in Sessions, NEW i \in Instances, NEW ip \in Ips \cup {NULL},
           SignIn(s, i, ip)
    PROVE  Sound'
  <1>0. PICK t, root : t = Signed(s, i) /\ root = RefreshRow(t, NULL)
    OBVIOUS
  <1>1. Typed' /\ now' \in 0 .. MaxNow
    BY SignInTyped DEF Sound, SignIn
  <1>2. t \in Signable /\ t.session_id = s
    BY <1>0, SignedSignable DEF Sound
  <1>3. /\ root.session_id = s
        /\ root.refresh_hash = sha256Hex(t)
        /\ root.refresh_encrypted = encryptAesGcm(t)
        /\ root.before_refresh_hash = NULL
        /\ Plain(root) = t
        /\ root = RefreshRow(Plain(root), root.before_refresh_hash)
    BY <1>0, <1>2 DEF RefreshRow, Plain, decryptAesGcm, encryptAesGcm
  <1>4. /\ t_session_refresh' = t_session_refresh \cup {root}
        /\ held' = held \cup {t}
        /\ answered' = answered
    BY <1>0 DEF SignIn
  <1>5. /\ t_session'[s] # NULL
        /\ \A u \in Sessions \ {s} : t_session'[u] = t_session[u]
    <2>1. [ip |-> ip, is_delete |-> 0] \in SessionRow
      BY DEF SessionRow
    <2> QED
      BY <2>1, NullAssumption DEF SignIn, Sound, Typed, TypeOK
  <1>6. /\ \A row \in t_session_refresh :
              row.session_id # s /\ row.refresh_hash # sha256Hex(t)
        /\ \A r \in Requests : pending[r] # NULL => pending[r].refresh_hash # sha256Hex(t)
    BY <1>2, FreshSessionApart DEF SignIn
  <1>7. \A row \in t_session_refresh : row.session_id \in Sessions
    BY DEF Sound, Typed, TypeOK, Row
  <1>8. RowsSound'
    BY <1>2, <1>3, <1>4, <1>5, <1>6, <1>7 DEF Sound, TableSound, RowsSound
  <1>9. KeysUnique'
    BY <1>3, <1>4, <1>6 DEF Sound, TableSound, KeysUnique, Clash, SameRefreshHash, SameBeforeHash
  <1>10. AnsweredStored'
    BY <1>4 DEF Sound, TableSound, AnsweredStored
  <1>11. DeliveredIsStored'
    BY <1>3, <1>4 DEF Sound, TableSound, DeliveredIsStored
  <1>12. OneOpenEnd'
    <2>1. NULL # sha256Hex(t)
      BY <1>2, SignableToken, NullAssumption DEF sha256Hex, Hash
    <2>2. \A row \in t_session_refresh : row.before_refresh_hash # sha256Hex(t)
      BY <1>6, <2>1 DEF Sound, TableSound, RowsSound
    <2>3. ~HasSuccessor(root)'
      BY <1>3, <1>4, <2>1, <2>2 DEF HasSuccessor
    <2>4. \A row \in t_session_refresh : NULL # row.refresh_hash
      <3>1. \A row \in t_session_refresh : row.refresh_hash \in Hash
        BY DEF Sound, Typed, TypeOK, Row
      <3> QED
        BY <3>1, NullAssumption
    <2>5. \A row \in t_session_refresh : HasSuccessor(row)' <=> HasSuccessor(row)
      BY <1>3, <1>4, <2>4 DEF HasSuccessor
    <2>6. ASSUME NEW u \in Sessions, t_session'[u] # NULL
          PROVE  \E end \in t_session_refresh' :
                    /\ end.session_id = u
                    /\ \A row \in t_session_refresh' : row.session_id = u =>
                          (HasSuccessor(row)' <=> row # end)
      <3>1. CASE u = s
        BY <1>3, <1>4, <1>6, <2>3, <3>1
      <3>2. CASE u # s
        <4>1. PICK end \in t_session_refresh :
                 /\ end.session_id = u
                 /\ \A row \in t_session_refresh : row.session_id = u =>
                       (HasSuccessor(row) <=> row # end)
          BY <1>5, <2>6, <3>2 DEF Sound, TableSound, OneOpenEnd
        <4>2. \A row \in t_session_refresh' : row.session_id = u =>
                 (HasSuccessor(row)' <=> row # end)
          BY <1>3, <1>4, <2>5, <3>2, <4>1
        <4> QED
          BY <1>4, <4>1, <4>2
      <3> QED
        BY <3>1, <3>2
    <2> QED
      BY <2>6 DEF OneOpenEnd
  <1>13. PendingApart'
    BY <1>3, <1>4, <1>6 DEF SignIn, locals, Sound, PendingApart, Clash, SameRefreshHash, SameBeforeHash
  <1>14. \A r \in Requests : SlotSound(r)'
    BY <1>4, <1>5, SlotKept DEF SignIn, locals, Sound
  <1> QED
    BY <1>1, <1>8, <1>9, <1>10, <1>11, <1>12, <1>13, <1>14 DEF Sound, TableSound

\* What is known of a row that is about to be committed.
LEMMA PendingFacts ==
    ASSUME Sound, NEW r \in Requests, pending[r] # NULL
    PROVE  /\ pc[r] = "commit" /\ found[r] = NULL /\ Given(r) = fresh[r]
           /\ fresh[r] \in Signable
           /\ pending[r] = RefreshRow(fresh[r], OldHash(r))
           /\ pending[r].session_id = sub[r].token.session_id
           /\ pending[r].session_id = fresh[r].session_id
           /\ pending[r].refresh_hash = sha256Hex(fresh[r])
           /\ pending[r].refresh_encrypted = encryptAesGcm(fresh[r])
           /\ pending[r].before_refresh_hash = OldHash(r)
           /\ Plain(pending[r]) = fresh[r]
           /\ OldHash(r) # NULL
           /\ sub[r].token.session_id \in Sessions
           /\ t_session[sub[r].token.session_id] # NULL
           /\ \E prev \in t_session_refresh : /\ prev.refresh_hash = OldHash(r)
                                              /\ Plain(prev) = sub[r].token
                                              /\ prev.session_id = sub[r].token.session_id
  <1>1. /\ pc[r] = "commit"
        /\ found[r] = NULL
        /\ fresh[r] # NULL
        /\ pending[r] = RefreshRow(fresh[r], OldHash(r))
        /\ sub[r] # NULL
    BY DEF Sound, Typed, SlotTyped, NewRow
  <1>2. Given(r) = fresh[r]
    BY <1>1 DEF Given
  <1>3. /\ fresh[r] \in Signable
        /\ fresh[r].session_id = sub[r].token.session_id
        /\ t_session[sub[r].token.session_id] # NULL
    BY <1>1 DEF Sound, SlotSound
  <1>4. /\ pending[r].session_id = fresh[r].session_id
        /\ pending[r].refresh_hash = sha256Hex(fresh[r])
        /\ pending[r].refresh_encrypted = encryptAesGcm(fresh[r])
        /\ pending[r].before_refresh_hash = OldHash(r)
    BY <1>1 DEF RefreshRow
  <1>5. Plain(pending[r]) = fresh[r]
    BY <1>4 DEF Plain, encryptAesGcm, decryptAesGcm
  <1>6. sub[r].token \in Token
    BY <1>1 DEF Sound, Typed, TypeOK, Submission
  <1>7. sub[r].token.session_id \in Sessions /\ OldHash(r) # NULL
    BY <1>6, NullAssumption DEF OldHash, sha256Hex, Hash, Token
  <1>8. PICK prev \in t_session_refresh : prev.refresh_hash = OldHash(r)
    BY <1>1 DEF Sound, SlotSound
  <1>9. /\ prev.refresh_hash = sha256Hex(Plain(prev))
        /\ prev.session_id = Plain(prev).session_id
    BY RowFields DEF Sound, TableSound
  <1>10. Plain(prev) = sub[r].token
    BY <1>8, <1>9, HashInjective DEF OldHash
  <1> QED
    BY <1>1, <1>2, <1>3, <1>4, <1>5, <1>7, <1>8, <1>9, <1>10

\* Committing it keeps the table sound: the row it continues was the open end
\* of its chain, and the new row takes its place.
LEMMA Extended ==
    ASSUME Sound, NEW r \in Requests, pending[r] # NULL,
           UNCHANGED t_session, t_session_refresh' = t_session_refresh \cup {pending[r]}
    PROVE  RowsSound' /\ KeysUnique' /\ OneOpenEnd'
  <1>0. PICK p, t, asked : p = pending[r] /\ t = fresh[r] /\ asked = sub[r].token
    OBVIOUS
  <1>1. /\ t \in Signable
        /\ p = RefreshRow(t, sha256Hex(asked))
        /\ p.session_id = asked.session_id
        /\ p.session_id = t.session_id
        /\ p.refresh_hash = sha256Hex(t)
        /\ p.before_refresh_hash = sha256Hex(asked)
        /\ Plain(p) = t
        /\ p.before_refresh_hash # NULL
        /\ asked.session_id \in Sessions
        /\ t_session[asked.session_id] # NULL
    BY <1>0, PendingFacts DEF OldHash
  <1>2. PICK prev \in t_session_refresh :
           prev.refresh_hash = sha256Hex(asked) /\ prev.session_id = asked.session_id
    BY <1>0, PendingFacts DEF OldHash
  <1>3. t_session_refresh' = t_session_refresh \cup {p}
    BY <1>0
  <1>4. \A row \in t_session_refresh : ~Clash(p, row)
    BY <1>0 DEF Sound, PendingApart
  <1>5. sha256Hex(asked).sha256 = asked
    BY DEF sha256Hex
  <1>6. RowsSound'
    <2>1. /\ p = RefreshRow(Plain(p), p.before_refresh_hash)
          /\ Plain(p) \in Signable
          /\ p.before_refresh_hash.sha256.session_id = p.session_id
          /\ t_session[p.session_id] # NULL
          /\ prev.refresh_hash = p.before_refresh_hash
      BY <1>1, <1>2, <1>5
    <2> QED
      BY <1>2, <1>3, <2>1 DEF Sound, TableSound, RowsSound
  <1>7. KeysUnique'
    BY <1>1, <1>3, <1>4 DEF Sound, TableSound, KeysUnique, Clash, SameRefreshHash, SameBeforeHash
  <1>8. OneOpenEnd'
    <2>1. \A row \in t_session_refresh : row.before_refresh_hash # p.refresh_hash
      <3>1. SUFFICES ASSUME NEW row \in t_session_refresh,
                            row.before_refresh_hash = p.refresh_hash
                     PROVE  FALSE
        OBVIOUS
      <3>2. p.refresh_hash # NULL
        BY <1>1, SignableToken, NullAssumption DEF sha256Hex, Hash
      <3>3. \E x \in t_session_refresh : x.refresh_hash = p.refresh_hash
        BY <3>1, <3>2 DEF Sound, TableSound, RowsSound
      <3> QED
        BY <1>4, <3>3 DEF Clash, SameRefreshHash, SameBeforeHash
    <2>2. p.before_refresh_hash # p.refresh_hash
      BY <1>1, <1>2, <1>4 DEF Clash, SameRefreshHash, SameBeforeHash
    <2>3. ~HasSuccessor(prev)
      BY <1>1, <1>2, <1>4 DEF HasSuccessor, Clash, SameRefreshHash, SameBeforeHash
    <2>4. \A row \in t_session_refresh' : HasSuccessor(row)' <=>
             HasSuccessor(row) \/ row.refresh_hash = p.before_refresh_hash
      BY <1>3 DEF HasSuccessor
    <2>5. \A row \in t_session_refresh : row.refresh_hash = p.before_refresh_hash <=> row = prev
      BY <1>1, <1>2 DEF Sound, TableSound, KeysUnique, Clash, SameRefreshHash, SameBeforeHash
    <2>6. ~HasSuccessor(p)
      BY <2>1 DEF HasSuccessor
    <2>7. p \notin t_session_refresh
      BY <1>4 DEF Clash, SameRefreshHash, SameBeforeHash
    <2>8. ASSUME NEW s \in Sessions, t_session[s] # NULL
          PROVE  \E end \in t_session_refresh' :
                    /\ end.session_id = s
                    /\ \A row \in t_session_refresh' : row.session_id = s =>
                          (HasSuccessor(row)' <=> row # end)
      <3>1. PICK end \in t_session_refresh :
               /\ end.session_id = s
               /\ \A row \in t_session_refresh : row.session_id = s =>
                     (HasSuccessor(row) <=> row # end)
        BY <2>8 DEF Sound, TableSound, OneOpenEnd
      <3>2. CASE s = asked.session_id
        <4>1. end = prev
          BY <1>2, <2>3, <3>1, <3>2
        <4>2. \A row \in t_session_refresh' : row.session_id = s =>
                 (HasSuccessor(row)' <=> row # p)
          BY <1>3, <2>2, <2>4, <2>5, <2>6, <2>7, <3>1, <4>1
        <4>3. p \in t_session_refresh' /\ p.session_id = s
          BY <1>1, <1>3, <3>2
        <4> QED
          BY <4>2, <4>3
      <3>3. CASE s # asked.session_id
        <4>1. \A row \in t_session_refresh' : row.session_id = s =>
                 (HasSuccessor(row)' <=> row # end)
          BY <1>1, <1>2, <1>3, <2>4, <2>5, <3>1, <3>3
        <4> QED
          BY <1>3, <3>1, <4>1
      <3> QED
        BY <3>2, <3>3
    <2> QED
      BY <2>8 DEF OneOpenEnd
  <1> QED
    BY <1>6, <1>7, <1>8

\* A commit, acknowledged or not, up to what its client learns.
LEMMA CommitTable ==
    ASSUME Sound, NEW r \in Requests, NEW status, Finish(r, status),
           t_session_refresh' = t_session_refresh \cup Inserted(r)
    PROVE  /\ RowsSound' /\ KeysUnique' /\ OneOpenEnd'
           /\ PendingApart'
           /\ \A q \in Requests : SlotSound(q)'
           /\ t_session_refresh \subseteq t_session_refresh'
  <1>1. t_session_refresh \subseteq t_session_refresh'
    OBVIOUS
  <1>2. \A q \in Requests : SlotSound(q)'
    BY <1>1, FinishSlots DEF Sound
  <1>3. \A q \in Requests : pending'[q] = IF q = r THEN NULL ELSE pending[q]
    BY DEF Finish, Sound, Typed, TypeOK
  <1>4. UNCHANGED t_session
    BY DEF Finish
  <1>5. CASE pending[r] = NULL
    <2>1. t_session_refresh' = t_session_refresh
      BY <1>5 DEF Inserted
    <2>2. RowsSound' /\ KeysUnique' /\ OneOpenEnd'
      BY <1>4, <2>1 DEF Sound, TableSound, RowsSound, KeysUnique, OneOpenEnd, HasSuccessor
    <2>3. PendingApart'
      BY <1>3, <2>1, PendingKept DEF Sound
    <2> QED
      BY <1>1, <1>2, <2>2, <2>3
  <1>6. CASE pending[r] # NULL
    <2>1. t_session_refresh' = t_session_refresh \cup {pending[r]}
      BY <1>6 DEF Inserted
    <2>2. RowsSound' /\ KeysUnique' /\ OneOpenEnd'
      BY <1>4, <1>6, <2>1, Extended
    <2>3. PendingApart'
      BY <1>3, <1>6, <2>1 DEF Sound, PendingApart
    <2> QED
      BY <1>1, <1>2, <2>2, <2>3
  <1> QED
    BY <1>5, <1>6

LEMMA CommitUnacknowledgedSound ==
    ASSUME Sound, NEW r \in Requests, CommitUnacknowledged(r)
    PROVE  Sound'
  <1>1. Typed' /\ now' \in 0 .. MaxNow
    BY CommitUnacknowledgedTyped DEF Sound, CommitUnacknowledged, Finish
  <1>2. /\ RowsSound' /\ KeysUnique' /\ OneOpenEnd'
        /\ PendingApart'
        /\ \A q \in Requests : SlotSound(q)'
        /\ t_session_refresh \subseteq t_session_refresh'
    BY CommitTable DEF CommitUnacknowledged
  <1>3. AnsweredStored' /\ DeliveredIsStored'
    BY <1>2 DEF CommitUnacknowledged, clients, Sound, TableSound, AnsweredStored,
                DeliveredIsStored
  <1> QED
    BY <1>1, <1>2, <1>3 DEF Sound, TableSound

\* The row an acknowledged commit answers from is in the table by then.
LEMMA GivenStored ==
    ASSUME Sound, NEW r \in Requests, pc[r] = "commit",
           t_session_refresh' = t_session_refresh \cup Inserted(r)
    PROVE  \E row \in t_session_refresh' :
              /\ row.before_refresh_hash = OldHash(r)
              /\ row.refresh_hash = sha256Hex(Given(r))
              /\ row.refresh_encrypted = encryptAesGcm(Given(r))
              /\ Plain(row) = Given(r)
              /\ sub[r].token.session_id = Given(r).session_id
  <1>1. CASE pending[r] # NULL
    BY <1>1, PendingFacts DEF Inserted
  <1>2. CASE pending[r] = NULL
    <2>1. /\ found[r] # NULL
          /\ found[r] \in t_session_refresh
          /\ found[r].before_refresh_hash = OldHash(r)
      BY <1>2 DEF Sound, Typed, SlotTyped, SlotSound
    <2>2. Given(r) = Plain(found[r])
      BY <2>1 DEF Given, Plain
    <2>3. /\ found[r].session_id = Plain(found[r]).session_id
          /\ found[r].refresh_hash = sha256Hex(Plain(found[r]))
          /\ found[r].refresh_encrypted = encryptAesGcm(Plain(found[r]))
      BY <2>1, RowFields DEF Sound, TableSound
    <2>4. sub[r] # NULL
      BY DEF Sound, Typed, SlotTyped
    <2>5. OldHash(r) # NULL
      BY <2>4, NullAssumption
      DEF Sound, Typed, TypeOK, Submission, OldHash, sha256Hex, Hash
    <2>6. found[r].before_refresh_hash.sha256.session_id = found[r].session_id
      BY <2>1, <2>5 DEF Sound, TableSound, RowsSound
    <2>7. sub[r].token.session_id = found[r].session_id
      BY <2>1, <2>6 DEF OldHash, sha256Hex
    <2> QED
      BY <2>1, <2>2, <2>3, <2>7
  <1> QED
    BY <1>1, <1>2

LEMMA CommitSound ==
    ASSUME Sound, NEW r \in Requests, Commit(r)
    PROVE  Sound'
  <1>1. Typed' /\ now' \in 0 .. MaxNow
    BY CommitTyped DEF Sound, Commit, Finish
  <1>2. /\ RowsSound' /\ KeysUnique' /\ OneOpenEnd'
        /\ PendingApart'
        /\ \A q \in Requests : SlotSound(q)'
        /\ t_session_refresh \subseteq t_session_refresh'
    BY CommitTable DEF Commit
  <1>3. PICK row \in t_session_refresh' :
              /\ row.before_refresh_hash = OldHash(r)
              /\ row.refresh_hash = sha256Hex(Given(r))
              /\ row.refresh_encrypted = encryptAesGcm(Given(r))
              /\ Plain(row) = Given(r)
              /\ sub[r].token.session_id = Given(r).session_id
    BY GivenStored DEF Commit
  <1>4. /\ held' = held \cup {Given(r)}
        /\ answered' = answered \cup {[asked |-> sub[r].token, given |-> Given(r)]}
    BY DEF Commit
  <1>5. AnsweredStored'
    BY <1>2, <1>3, <1>4 DEF Sound, TableSound, AnsweredStored, OldHash
  <1>6. DeliveredIsStored'
    BY <1>2, <1>3, <1>4 DEF Sound, TableSound, DeliveredIsStored
  <1> QED
    BY <1>1, <1>2, <1>5, <1>6 DEF Sound, TableSound

-----------------------------------------------------------------------------
LEMMA StutterSound ==
    ASSUME Sound, UNCHANGED vars
    PROVE  Sound'
  <1>1. Typed' /\ now' \in 0 .. MaxNow
    BY NextTyped DEF Sound, vars
  <1>2. TableSound' /\ PendingApart'
    BY TableKept, PendingKept DEF Sound, vars, db, locals, SessionsKept
  <1>3. \A q \in Requests : SlotSound(q)'
    BY SlotKept DEF Sound, vars, db, locals
  <1> QED
    BY <1>1, <1>2, <1>3 DEF Sound

LEMMA NextSound ==
    ASSUME Sound, [Next]_vars
    PROVE  Sound'
  <1>1. CASE UNCHANGED vars
    BY <1>1, StutterSound
  <1>2. ASSUME NEW r \in Requests, Handle(r) PROVE Sound'
    BY <1>2, VerifySound, FindRotatedSound, FindSubmittedSound, FindSessionSound,
       SignSound, FindWinnerSound, CommitSound DEF Handle
  <1>3. ASSUME NEW r \in Requests, DbFailure(r) PROVE Sound'
    BY <1>3, RefuseSound DEF DbFailure, Statuses
  <1> QED
    BY <1>1, <1>2, <1>3, TickSound, SignInSound, DeleteSessionSound, SubmitSound,
       InsertSound, CommitUnacknowledgedSound, CrashSound DEF Next

\* The inductive invariant holds in every behaviour.
THEOREM Soundness == Spec => []Sound
  <1> QED
    BY InitSound, NextSound, PTL DEF Spec

\* Whatever races, retries, failures and crashes there are, every reply to a
\* token gives the same next token (user.service.ts:140-141).
THEOREM Idempotence == Spec => []IdempotentReplies
  <1>1. Sound => IdempotentReplies
    <2> SUFFICES ASSUME Sound, NEW a \in answered, NEW b \in answered, a.asked = b.asked
                 PROVE  a.given = b.given
      BY DEF IdempotentReplies
    <2>1. PICK x \in t_session_refresh :
             x.before_refresh_hash = sha256Hex(a.asked) /\ Plain(x) = a.given
      BY DEF Sound, TableSound, AnsweredStored
    <2>2. PICK y \in t_session_refresh :
             y.before_refresh_hash = sha256Hex(b.asked) /\ Plain(y) = b.given
      BY DEF Sound, TableSound, AnsweredStored
    <2>3. sha256Hex(a.asked) # NULL
      BY NullAssumption DEF Sound, Typed, TypeOK, sha256Hex, Hash
    <2>4. x = y
      BY <2>1, <2>2, <2>3 DEF Sound, TableSound, KeysUnique, Clash, SameRefreshHash, SameBeforeHash
    <2> QED
      BY <2>1, <2>2, <2>4
  <1> QED
    BY <1>1, Soundness, PTL

\* The tokens of a session form one chain with one open end, always.
THEOREM SingleChain == Spec => []OneOpenEnd
  <1>1. Sound => OneOpenEnd
    BY DEF Sound, TableSound
  <1> QED
    BY <1>1, Soundness, PTL

\* A client only ever holds tokens that are stored, of the session it asked for.
THEOREM Durability == Spec => []DeliveredIsStored
  <1>1. Sound => DeliveredIsStored
    BY DEF Sound, TableSound
  <1> QED
    BY <1>1, Soundness, PTL

-----------------------------------------------------------------------------
(***************************************************************************)
(* Refinement of RefreshChain: sign-in issues a token, a commit with a row *)
(* exchanges the open end, one without repeats a known answer, and every   *)
(* other step is invisible.                                                *)
(***************************************************************************)
LEMMA ChainInit == Init => Chain!Init
  BY DEF Init, Chain!Init, Issued, Links

LEMMA ChainUnseen ==
    ASSUME UNCHANGED <<t_session_refresh, answered>>
    PROVE  UNCHANGED Chain!vars
  BY DEF Chain!vars, Issued, Links

LEMMA ChainSignIn ==
    ASSUME Sound, NEW s \in Sessions, NEW i \in Instances, NEW ip \in Ips \cup {NULL},
           SignIn(s, i, ip)
    PROVE  Chain!Next
  <1>0. PICK t, root : t = Signed(s, i) /\ root = RefreshRow(t, NULL)
    OBVIOUS
  <1>1. t \in Signable /\ t.session_id = s
    BY <1>0, SignedSignable DEF Sound
  <1>2. root.before_refresh_hash = NULL /\ Plain(root) = t
    BY <1>0 DEF RefreshRow, Plain, encryptAesGcm, decryptAesGcm
  <1>3. t_session_refresh' = t_session_refresh \cup {root} /\ answered' = answered
    BY <1>0 DEF SignIn
  <1>4. \A row \in t_session_refresh : Plain(row) # t
    <2>1. \A row \in t_session_refresh : row.session_id # s
      BY <1>1, FreshSessionApart DEF SignIn
    <2>2. \A row \in t_session_refresh : row.session_id = Plain(row).session_id
      BY RowFields DEF Sound, TableSound
    <2> QED
      BY <1>1, <2>1, <2>2
  <1>5. t \notin Issued /\ Issued' = Issued \cup {t}
    BY <1>2, <1>3, <1>4 DEF Issued
  <1>6. Links' = Links
    BY <1>2, <1>3 DEF Links
  <1> QED
    BY <1>1, <1>3, <1>5, <1>6 DEF Chain!Next, Chain!Issue

LEMMA ChainCommit ==
    ASSUME Sound, NEW r \in Requests, pc[r] = "commit",
           t_session_refresh' = t_session_refresh \cup Inserted(r),
           \/ answered' = answered
           \/ answered' = answered \cup {[asked |-> sub[r].token, given |-> Given(r)]}
    PROVE  [Chain!Next]_(Chain!vars)
  <1>0. PICK p, t, asked : p = pending[r] /\ t = fresh[r] /\ asked = sub[r].token
    OBVIOUS
  <1>1. CASE pending[r] # NULL
    <2>1. /\ t \in Signable
          /\ t = Given(r)
          /\ p.refresh_hash = sha256Hex(t)
          /\ p.before_refresh_hash = sha256Hex(asked)
          /\ p.before_refresh_hash # NULL
          /\ Plain(p) = t
      BY <1>0, <1>1, PendingFacts DEF OldHash
    <2>2. PICK prev \in t_session_refresh : Plain(prev) = asked
      BY <1>0, <1>1, PendingFacts
    <2>3. asked \in Issued /\ asked \in Signable
      BY <2>2 DEF Issued, Sound, TableSound, RowsSound
    <2>4. t_session_refresh' = t_session_refresh \cup {p}
      BY <1>0, <1>1 DEF Inserted
    <2>5. \A row \in t_session_refresh : ~Clash(p, row)
      BY <1>0, <1>1 DEF Sound, PendingApart
    <2>6. \A row \in t_session_refresh : row.refresh_hash = sha256Hex(Plain(row))
      BY RowFields DEF Sound, TableSound
    <2>7. t \notin Issued
      BY <2>1, <2>5, <2>6 DEF Clash, SameRefreshHash, SameBeforeHash, Issued
    <2>8. Issued' = Issued \cup {t}
      BY <2>1, <2>4 DEF Issued
    <2>9. p.before_refresh_hash.sha256 = asked
      BY <2>1 DEF sha256Hex
    <2>10. Links' = Links \cup {[asked |-> asked, given |-> t]}
      BY <2>1, <2>4, <2>9 DEF Links
    <2>11. \A l \in Links : l.asked # asked
      <3>1. \A row \in t_session_refresh : row.before_refresh_hash # NULL =>
               sha256Hex(row.before_refresh_hash.sha256) = row.before_refresh_hash
        BY DEF Sound, Typed, TypeOK, Row, Hash, sha256Hex
      <3>2. \A row \in t_session_refresh : row.before_refresh_hash # sha256Hex(asked)
        BY <2>1, <2>5 DEF Clash, SameRefreshHash, SameBeforeHash
      <3>3. \A row \in t_session_refresh : row.before_refresh_hash # NULL =>
               row.before_refresh_hash.sha256 # asked
        BY <3>1, <3>2
      <3> QED
        BY <3>3 DEF Links
    <2>12. Chain!Exchange(asked, t)
      BY <1>0, <2>1, <2>3, <2>7, <2>8, <2>10, <2>11 DEF Chain!Exchange, Chain!Link
    <2> QED
      BY <2>1, <2>3, <2>12 DEF Chain!Next
  <1>2. CASE pending[r] = NULL
    <2>1. t_session_refresh' = t_session_refresh
      BY <1>2 DEF Inserted
    <2>2. Issued' = Issued /\ Links' = Links
      BY <2>1 DEF Issued, Links
    <2>3. CASE answered' = answered
      BY <2>2, <2>3 DEF Chain!vars
    <2>4. CASE answered' = answered \cup {[asked |-> sub[r].token, given |-> Given(r)]}
      <3>1. PICK row \in t_session_refresh :
               row.before_refresh_hash = OldHash(r) /\ Plain(row) = Given(r)
        BY <2>1, GivenStored
      <3>2. sub[r].token \in Token
        BY DEF Sound, Typed, TypeOK, SlotTyped, Submission
      <3>3. /\ row.before_refresh_hash # NULL
            /\ row.before_refresh_hash.sha256 = sub[r].token
        BY <3>1, <3>2, NullAssumption DEF OldHash, sha256Hex, Hash
      <3>4. [asked |-> sub[r].token, given |-> Given(r)] \in Links
        BY <3>1, <3>3 DEF Links
      <3> QED
        BY <2>2, <2>4, <3>4 DEF Chain!Next, Chain!Answer
    <2> QED
      BY <2>3, <2>4
  <1> QED
    BY <1>1, <1>2

LEMMA ChainStep ==
    ASSUME Sound, [Next]_vars
    PROVE  [Chain!Next]_(Chain!vars)
  <1>1. CASE UNCHANGED <<t_session_refresh, answered>>
    BY <1>1, ChainUnseen
  <1>2. ASSUME NEW s \in Sessions, NEW i \in Instances, NEW ip \in Ips \cup {NULL},
               SignIn(s, i, ip)
        PROVE  [Chain!Next]_(Chain!vars)
    BY <1>2, ChainSignIn
  <1>3. ASSUME NEW r \in Requests, Commit(r) \/ CommitUnacknowledged(r)
        PROVE  [Chain!Next]_(Chain!vars)
    BY <1>3, ChainCommit DEF Commit, CommitUnacknowledged, clients
  <1>4. ASSUME NEW r \in Requests, NEW status, Refuse(r, status)
        PROVE  UNCHANGED <<t_session_refresh, answered>>
    BY <1>4 DEF Refuse, clients
  <1>5. ASSUME NEW r \in Requests,
               Verify(r) \/ FindRotated(r) \/ FindSubmitted(r) \/ FindSession(r)
                 \/ Sign(r) \/ FindWinner(r) \/ Insert(r) \/ DbFailure(r)
        PROVE  UNCHANGED <<t_session_refresh, answered>>
    BY <1>4, <1>5 DEF Verify, FindRotated, FindSubmitted, FindSession, Sign, FindWinner,
                      Insert, DbFailure, db, clients
  <1>6. ASSUME Tick \/ (\E s \in Sessions : DeleteSession(s))
                 \/ (\E r \in Requests, t \in Submittable, ip \in Ips \cup {NULL},
                        i \in Instances : Submit(r, t, ip, i))
                 \/ (\E i \in Instances : Crash(i)) \/ UNCHANGED vars
        PROVE  UNCHANGED <<t_session_refresh, answered>>
    BY <1>6 DEF Tick, DeleteSession, Submit, Crash, vars, db, clients
  <1> QED
    BY <1>1, <1>2, <1>3, <1>5, <1>6 DEF Next, Handle

\* The rotation implements the abstract chain of tokens.
THEOREM Refinement == Spec => ImplementsChain
  <1>1. Spec => Chain!Init /\ [][Chain!Next]_(Chain!vars)
    BY ChainInit, ChainStep, Soundness, PTL DEF Spec
  <1> QED
    BY <1>1 DEF ImplementsChain, Chain!Spec

-----------------------------------------------------------------------------
(***************************************************************************)
(* RefreshChain keeps its promises.  The proofs expand its definitions and *)
(* nothing of the rotation, whatever stands for its variables.             *)
(***************************************************************************)
GivenIssued == \A l \in Links : l.asked \in Issued /\ l.given \in Issued

ChainInv == Chain!OneToOne /\ Chain!AnswersAreLinks /\ GivenIssued

LEMMA LinkFields ==
    ASSUME NEW t, NEW u
    PROVE  Chain!Link(t, u).asked = t /\ Chain!Link(t, u).given = u
  BY DEF Chain!Link

LEMMA ExchangeKeeps ==
    ASSUME ChainInv, NEW t \in Signable, NEW u \in Signable, Chain!Exchange(t, u)
    PROVE  ChainInv'
  <1>1. Links' = Links \cup {Chain!Link(t, u)} /\ Issued' = Issued \cup {u}
    BY DEF Chain!Exchange
  <1>2. \A l \in Links : l.asked # t /\ l.given # u
    BY DEF Chain!Exchange, ChainInv, GivenIssued
  <1>3. Chain!OneToOne'
    BY <1>1, <1>2, LinkFields DEF ChainInv, Chain!OneToOne
  <1>4. Chain!AnswersAreLinks'
    BY <1>1 DEF Chain!Exchange, ChainInv, Chain!AnswersAreLinks
  <1>5. GivenIssued'
    BY <1>1, LinkFields DEF Chain!Exchange, ChainInv, GivenIssued
  <1> QED
    BY <1>3, <1>4, <1>5 DEF ChainInv

\* A token has at most one successor and one predecessor, and clients are told
\* nothing else: what an implementation of the chain inherits.
THEOREM ChainCorrect == Chain!Spec => [](Chain!OneToOne /\ Chain!AnswersAreLinks)
  <1>1. Chain!Init => ChainInv
    BY DEF Chain!Init, ChainInv, Chain!OneToOne, Chain!AnswersAreLinks, GivenIssued
  <1>2. ChainInv /\ [Chain!Next]_(Chain!vars) => ChainInv'
    <2> SUFFICES ASSUME ChainInv, [Chain!Next]_(Chain!vars) PROVE ChainInv'
      OBVIOUS
    <2>1. ASSUME NEW t \in Signable, Chain!Issue(t) PROVE ChainInv'
      BY <2>1 DEF Chain!Issue, ChainInv, Chain!OneToOne, Chain!AnswersAreLinks, GivenIssued
    <2>2. ASSUME NEW l \in Links, Chain!Answer(l) PROVE ChainInv'
      BY <2>2 DEF Chain!Answer, ChainInv, Chain!OneToOne, Chain!AnswersAreLinks, GivenIssued
    <2>3. CASE UNCHANGED (Chain!vars)
      BY <2>3 DEF Chain!vars, ChainInv, Chain!OneToOne, Chain!AnswersAreLinks, GivenIssued
    <2> QED
      BY <2>1, <2>2, <2>3, ExchangeKeeps DEF Chain!Next
  <1>3. ChainInv => Chain!OneToOne /\ Chain!AnswersAreLinks
    BY DEF ChainInv
  <1> QED
    BY <1>1, <1>2, <1>3, PTL DEF Chain!Spec

\* user.service.ts:140-141: so a token of the rotation has one successor in the
\* tables and is the successor of one, and no client is told anything else.
THEOREM TokensFormChain == Spec => [](Chain!OneToOne /\ Chain!AnswersAreLinks)
  <1> QED
    BY Refinement, ChainCorrect, PTL DEF ImplementsChain

-----------------------------------------------------------------------------
(***************************************************************************)
(* What the replies may say.  Each of the properties relates a reply to    *)
(* what held when its request was sent, several steps and a snapshot ago.  *)
(***************************************************************************)
Ongoing == {"submitted", "session", "sign", "insert", "winner", "commit"}

\* Only a request that was sent has a reply.
Asked(r) == sub[r] = NULL => reply[r] = "NONE"

\* A session deleted before the request is deleted in every view of it.
Revoked(r) ==
    sub[r] # NULL /\ sub[r].revoked =>
        /\ Deleted(sub[r].token.session_id)
        /\ view[r] # NULL => view[r].sessions[sub[r].token.session_id].is_delete = 1
        /\ pc[r] \notin {"sign", "insert", "winner", "commit"}
        /\ reply[r] # "OK"

\* A token exchanged before the request is answered from its row.
Retried(r) ==
    sub[r] # NULL /\ sub[r].rotated =>
        /\ Rotated(OldHash(r), t_session_refresh) # {}
        /\ pc[r] \in Ongoing => found[r] # NULL
        /\ reply[r] \notin {"DUPLICATE_REFRESH", "REFRESH_ALREADY_ROTATED"}

\* Without a snapshot the loser of an insert sees the winner's row.
LostRace(r) ==
    Isolation = "READ COMMITTED" =>
        /\ view[r] = NULL
        /\ pc[r] = "winner" => Rotated(OldHash(r), t_session_refresh) # {}
        /\ reply[r] # "REFRESH_ALREADY_ROTATED"

Heeds(r) == Asked(r) /\ Revoked(r) /\ Retried(r) /\ LostRace(r)

Heedful == Sound /\ \A r \in Requests : Heeds(r)

\* Deletions, rows and time are for good.
Grows ==
    /\ \A s \in Sessions : Deleted(s) => Deleted(s)'
    /\ t_session_refresh \subseteq t_session_refresh'
    /\ now \in Nat /\ now' \in Nat /\ now <= now'

SameSlot(r) ==
    /\ pc'[r] = pc[r] /\ sub'[r] = sub[r] /\ view'[r] = view[r]
    /\ found'[r] = found[r] /\ reply'[r] = reply[r]

\* A submission, and the lifetime of its token.
LEMMA SubmissionType ==
    ASSUME Typed, NEW r \in Requests, sub[r] # NULL
    PROVE  /\ sub[r].token \in Token /\ sub[r].token.session_id \in Sessions
           /\ sub[r].on \in Instances /\ Exp(sub[r].token) \in Nat
           /\ OldHash(r) # NULL
  <1>1. sub[r] \in Submission
    BY DEF Typed, TypeOK
  <1>2. sub[r].token \in Token /\ sub[r].on \in Instances
    BY <1>1 DEF Submission
  <1>3. /\ sub[r].token.session_id \in Sessions
        /\ sub[r].token.type \in Types /\ sub[r].token.iat \in Nat
    BY <1>2 DEF Token
  <1>4. Exp(sub[r].token) \in Nat
    BY <1>3, ClockAssumption DEF Exp
  <1>5. OldHash(r) \in Hash
    BY <1>2 DEF OldHash, sha256Hex, Hash
  <1> QED
    BY <1>2, <1>3, <1>4, <1>5, NullAssumption

LEMMA AlwaysGrows ==
    ASSUME Heedful, [Next]_vars
    PROVE  Grows
  <1>1. /\ t_session \in [Sessions -> SessionRow \cup {NULL}] /\ now \in Nat
        /\ t_session' \in [Sessions -> SessionRow \cup {NULL}]
    BY NextTyped DEF Heedful, Sound, Typed, TypeOK
  <1>2. ASSUME NEW s \in Sessions, NEW i, NEW ip, SignIn(s, i, ip) PROVE Grows
    BY <1>1, <1>2, NullAssumption DEF SignIn, Grows, Deleted
  <1>3. ASSUME NEW s \in Sessions, DeleteSession(s) PROVE Grows
    <2>1. t_session[s] \in SessionRow
      BY <1>1, <1>3 DEF DeleteSession
    <2>2. t_session' = [t_session EXCEPT ![s] = [t_session[s] EXCEPT !.is_delete = 1]]
      BY <1>3 DEF DeleteSession
    <2>3. t_session'[s] = [t_session[s] EXCEPT !.is_delete = 1]
      BY <1>1, <2>2
    <2>4. t_session'[s].is_delete = 1 /\ t_session'[s] \in SessionRow
      BY <2>1, <2>3 DEF SessionRow
    <2>5. Deleted(s)'
      BY <2>4, NullAssumption DEF Deleted
    <2> QED
      BY <1>1, <1>3, <2>2, <2>5 DEF DeleteSession, Grows, Deleted
  <1>4. CASE UNCHANGED <<now, t_session>> /\ t_session_refresh \subseteq t_session_refresh'
    BY <1>1, <1>4 DEF Grows, Deleted
  <1>5. CASE Tick
    BY <1>1, <1>5 DEF Tick, Grows, Deleted, db
  <1>6. ASSUME NEW r \in Requests,
               Handle(r) \/ Insert(r) \/ CommitUnacknowledged(r) \/ DbFailure(r)
        PROVE  UNCHANGED <<now, t_session>> /\ t_session_refresh \subseteq t_session_refresh'
    BY <1>6 DEF Handle, Verify, FindRotated, FindSubmitted, FindSession, Sign, FindWinner,
       Commit, Insert, CommitUnacknowledged, DbFailure, Refuse, Finish, db
  <1>7. ASSUME \/ \E r, t, ip, i : Submit(r, t, ip, i)
               \/ \E i : Crash(i)
               \/ UNCHANGED vars
        PROVE  UNCHANGED <<now, t_session>> /\ t_session_refresh \subseteq t_session_refresh'
    BY <1>7 DEF Submit, Crash, vars, db
  <1> QED
    BY <1>2, <1>3, <1>4, <1>5, <1>6, <1>7 DEF Next

\* A slot no step touches.
LEMMA SameHeeds ==
    ASSUME Typed, NEW r \in Requests, Heeds(r), Grows, SameSlot(r)
    PROVE  Heeds(r)'
  <1>1. CASE sub[r] = NULL
    BY <1>1 DEF Heeds, Asked, Revoked, Retried, LostRace, SameSlot, OldHash,
       Typed, SlotTyped
  <1>2. CASE sub[r] # NULL
    <2>1. OldHash(r)' = OldHash(r)
      BY DEF SameSlot, OldHash
    <2>2. Rotated(OldHash(r), t_session_refresh) # {} =>
              Rotated(OldHash(r)', t_session_refresh') # {}
      BY <2>1 DEF Grows, Rotated
    <2>3. Asked(r)' /\ Retried(r)' /\ LostRace(r)'
      BY <2>2 DEF Heeds, Asked, Retried, LostRace, SameSlot
    <2>4. Revoked(r)'
      BY <1>2, SubmissionType DEF Heeds, Revoked, SameSlot, Grows
    <2> QED
      BY <2>3, <2>4 DEF Heeds
  <1> QED
    BY <1>1, <1>2

\* One slot moves.
LEMMA OneHeeds ==
    ASSUME Heedful, Sound', Grows, NEW r \in Requests, Heeds(r)',
           \A q \in Requests \ {r} : SameSlot(q)
    PROVE  Heedful'
  BY SameHeeds DEF Heedful, Sound

\* A handler ends with a status its step allows.
LEMMA FinishHeeds ==
    ASSUME Heedful, Sound', Grows, NEW r \in Requests, NEW status, Finish(r, status),
           pc[r] # "idle", status # "NONE",
           status = "OK" => pc[r] = "commit",
           status = "DUPLICATE_REFRESH" => pc[r] = "insert",
           status = "REFRESH_ALREADY_ROTATED" =>
               pc[r] = "winner" /\ Isolation # "READ COMMITTED"
    PROVE  Heedful'
  <1>1. /\ pc'[r] = "idle" /\ reply'[r] = status /\ view'[r] = NULL /\ found'[r] = NULL
        /\ sub' = sub /\ now' = now
        /\ \A q \in Requests \ {r} : SameSlot(q)
    <2>1. /\ pc \in [Requests -> Steps] /\ reply \in [Requests -> Statuses]
          /\ view \in [Requests -> View \cup {NULL}] /\ found \in [Requests -> Row \cup {NULL}]
      BY DEF Heedful, Sound, Typed, TypeOK
    <2> QED
      BY <2>1 DEF Finish, Go, SameSlot
  <1>2. sub[r] # NULL /\ (pc[r] \in {"insert", "winner"} => found[r] = NULL)
    BY DEF Heedful, Sound, Typed, SlotTyped
  <1>3. Heeds(r)
    BY DEF Heedful
  <1>4. Asked(r)' /\ LostRace(r)'
    BY <1>1, <1>2, <1>3 DEF Heeds, Asked, LostRace, DbNow
  <1>5. Revoked(r)'
    BY <1>1, <1>2, <1>3, SubmissionType DEF Heeds, Revoked, Grows, Heedful, Sound
  <1>6. Retried(r)'
    <2>1. Rotated(OldHash(r), t_session_refresh) # {} =>
              Rotated(OldHash(r)', t_session_refresh') # {}
      BY <1>1 DEF Grows, Rotated, OldHash
    <2> QED
      BY <1>1, <1>2, <1>3, <2>1 DEF Heeds, Retried, Ongoing
  <1> QED
    BY <1>1, <1>4, <1>5, <1>6, OneHeeds DEF Heeds

\* A handler goes on, and nothing is stored.
LEMMA MoveHeeds ==
    ASSUME Heedful, Sound', Grows, NEW r \in Requests, NEW s \in Ongoing \cup {"rotated"},
           Go(r, s), UNCHANGED <<now, db, sub, reply>>,
           \A q \in Requests \ {r} : view'[q] = view[q] /\ found'[q] = found[q],
           view'[r] # NULL => view'[r] = view[r] \/ view'[r].sessions = t_session,
           Isolation = "READ COMMITTED" => view'[r] = NULL,
           s \in {"sign", "insert", "winner", "commit"} =>
               sub[r] # NULL /\ ~sub[r].revoked,
           s \in Ongoing => found'[r] # NULL \/ ~sub[r].rotated,
           s = "winner" => Rotated(OldHash(r), t_session_refresh) # {}
    PROVE  Heedful'
  <1>1. pc'[r] = s /\ \A q \in Requests \ {r} : SameSlot(q)
    BY DEF Go, SameSlot, Heedful, Sound, Typed, TypeOK
  <1>2. Heeds(r) /\ OldHash(r)' = OldHash(r) /\ t_session_refresh' = t_session_refresh
    BY DEF Heedful, OldHash, db
  <1>3. Asked(r)' /\ LostRace(r)'
    BY <1>1, <1>2 DEF Heeds, Asked, LostRace, DbNow
  <1>4. Revoked(r)'
    BY <1>1, <1>2 DEF Heeds, Revoked, Deleted, db
  <1>5. Retried(r)'
    BY <1>1, <1>2 DEF Heeds, Retried
  <1> QED
    BY <1>1, <1>3, <1>4, <1>5, OneHeeds DEF Heeds

LEMMA VerifyHeeds ==
    ASSUME Heedful, Sound', Grows, NEW r \in Requests, Verify(r)
    PROVE  Heedful'
  <1>1. CASE Refuse(r, "TOKEN_EXPIRED")
    BY <1>1, FinishHeeds DEF Verify, Refuse
  <1>2. CASE Refuse(r, "TOKEN_INVALID")
    BY <1>2, FinishHeeds DEF Verify, Refuse
  <1>3. CASE Go(r, "rotated") /\ UNCHANGED <<now, db, clients, sub, locals, reply>>
    BY <1>3, MoveHeeds DEF locals, Ongoing, Heedful, Heeds, LostRace
  <1> QED
    BY <1>1, <1>2, <1>3 DEF Verify

LEMMA FindRotatedHeeds ==
    ASSUME Heedful, Sound', Grows, NEW r \in Requests, FindRotated(r)
    PROVE  Heedful'
  <1>1. UNCHANGED <<now, db, sub, reply>> /\ Go(r, "submitted")
    BY DEF FindRotated
  <1>2. /\ \A q \in Requests \ {r} : view'[q] = view[q] /\ found'[q] = found[q]
        /\ view'[r] = IF Isolation = "REPEATABLE READ" THEN Committed ELSE NULL
    BY DEF FindRotated, Heedful, Sound, Typed, TypeOK
  <1>3. /\ view'[r] # NULL => view'[r].sessions = t_session
        /\ Isolation = "READ COMMITTED" => view'[r] = NULL
    <2>1. Committed.sessions = t_session
      BY DEF Committed
    <2> QED
      BY <1>2, <2>1
  <1>4. Rotated(OldHash(r), t_session_refresh) # {} => found'[r] # NULL
    <2>1. DOMAIN found = Requests /\ NULL \notin t_session_refresh
      BY NullAssumption DEF Heedful, Sound, Typed, TypeOK
    <2> QED
      BY <2>1 DEF FindRotated, Rotated
  <1>5. sub[r].rotated => Rotated(OldHash(r), t_session_refresh) # {}
    BY DEF FindRotated, Heedful, Heeds, Retried, Sound, Typed, SlotTyped
  <1> QED
    BY <1>1, <1>2, <1>3, <1>4, <1>5, MoveHeeds DEF Ongoing

LEMMA FindSubmittedHeeds ==
    ASSUME Heedful, Sound', Grows, NEW r \in Requests, FindSubmitted(r)
    PROVE  Heedful'
  <1>1. CASE Refuse(r, "TOKEN_INVALID")
    BY <1>1, FinishHeeds DEF FindSubmitted, Refuse
  <1>2. CASE Go(r, "session") /\ UNCHANGED <<now, db, clients, sub, locals, reply>>
    <2>1. found[r] # NULL \/ ~sub[r].rotated
      BY DEF FindSubmitted, Heedful, Heeds, Retried, Ongoing, Sound, Typed, SlotTyped
    <2> QED
      BY <1>2, <2>1, MoveHeeds DEF locals, Ongoing, Heedful, Heeds, LostRace
  <1> QED
    BY <1>1, <1>2 DEF FindSubmitted

\* The session that is checked is the token's, whoever's row it is taken from.
LEMMA SessionIsTokens ==
    ASSUME Sound, NEW r \in Requests, sub[r] # NULL
    PROVE  SessionId(r) = sub[r].token.session_id
  <1>1. CASE found[r] = NULL
    BY <1>1 DEF SessionId
  <1>2. CASE found[r] # NULL
    <2>1. found[r] \in t_session_refresh /\ found[r].before_refresh_hash = OldHash(r)
      BY <1>2 DEF Sound, SlotSound
    <2>2. found[r].before_refresh_hash.sha256.session_id = found[r].session_id
      BY <2>1, SubmissionType DEF Sound, TableSound, RowsSound
    <2> QED
      BY <1>2, <2>1, <2>2 DEF SessionId, OldHash, sha256Hex
  <1> QED
    BY <1>1, <1>2

LEMMA FindSessionHeeds ==
    ASSUME Heedful, Sound', Grows, NEW r \in Requests, FindSession(r)
    PROVE  Heedful'
  <1>1. CASE Refuse(r, "TOKEN_INVALID")
    BY <1>1, FinishHeeds DEF FindSession, Refuse
  <1>2. CASE /\ Matches(Read(r).sessions[SessionId(r)], sub[r].ip)
             /\ Go(r, IF found[r] # NULL THEN "commit" ELSE "sign")
             /\ UNCHANGED <<now, db, clients, sub, locals, reply>>
    <2>1. sub[r] # NULL /\ Heeds(r)
      BY DEF FindSession, Heedful, Sound, Typed, SlotTyped
    <2>2. SessionId(r) = sub[r].token.session_id
      BY <2>1, SessionIsTokens DEF Heedful
    <2>3. ~sub[r].revoked
      BY <1>2, <2>1, <2>2 DEF Heeds, Revoked, Deleted, Matches, Read, Committed
    <2>4. found[r] # NULL \/ ~sub[r].rotated
      BY <2>1 DEF FindSession, Heeds, Retried, Ongoing
    <2> QED
      BY <1>2, <2>1, <2>3, <2>4, MoveHeeds DEF locals, Ongoing, Heeds, LostRace
  <1> QED
    BY <1>1, <1>2 DEF FindSession

LEMMA SignHeeds ==
    ASSUME Heedful, Sound', Grows, NEW r \in Requests, Sign(r)
    PROVE  Heedful'
  <1>1. sub[r] # NULL /\ ~sub[r].revoked /\ (found[r] # NULL \/ ~sub[r].rotated)
    BY DEF Sign, Heedful, Heeds, Revoked, Retried, Ongoing, Sound, Typed, SlotTyped
  <1> QED
    BY <1>1, MoveHeeds DEF Sign, locals, Ongoing, Heedful, Heeds, LostRace

LEMMA InsertHeeds ==
    ASSUME Heedful, Sound', Grows, NEW r \in Requests, Insert(r)
    PROVE  Heedful'
  <1>1. CASE Refuse(r, "DUPLICATE_REFRESH")
    BY <1>1, FinishHeeds DEF Insert, Refuse
  <1>2. sub[r] # NULL /\ ~sub[r].revoked /\ (found[r] # NULL \/ ~sub[r].rotated)
    BY DEF Insert, Heedful, Heeds, Revoked, Retried, Ongoing, Sound, Typed, SlotTyped
  <1>3. CASE /\ DuplicateBeforeHash(r)
             /\ Go(r, "winner")
             /\ UNCHANGED <<now, db, clients, sub, locals, reply>>
    <2>1. Rotated(OldHash(r), t_session_refresh) # {}
      BY <1>3 DEF DuplicateBeforeHash, SameBeforeHash, NewRow, RefreshRow, Rotated
    <2> QED
      BY <1>2, <1>3, <2>1, MoveHeeds DEF locals, Ongoing, Heedful, Heeds, LostRace
  <1>4. CASE Go(r, "commit") /\ UNCHANGED <<now, db, clients, sub, view, found, fresh, reply>>
    BY <1>2, <1>4, MoveHeeds DEF Ongoing, Heedful, Heeds, LostRace
  <1> QED
    BY <1>1, <1>3, <1>4 DEF Insert

LEMMA FindWinnerHeeds ==
    ASSUME Heedful, Sound', Grows, NEW r \in Requests, FindWinner(r)
    PROVE  Heedful'
  <1>1. /\ sub[r] # NULL /\ ~sub[r].revoked /\ ~sub[r].rotated
        /\ Isolation = "READ COMMITTED" =>
              view[r] = NULL /\ Rotated(OldHash(r), Read(r).rows) # {}
    BY DEF FindWinner, Heedful, Heeds, Revoked, Retried, LostRace, Ongoing, Sound, Typed,
       SlotTyped, Read, Committed
  <1>2. CASE Rotated(OldHash(r), Read(r).rows) = {} /\ Refuse(r, "REFRESH_ALREADY_ROTATED")
    BY <1>1, <1>2, FinishHeeds DEF FindWinner, Refuse
  <1>3. ASSUME NEW row, found' = [found EXCEPT ![r] = row], Go(r, "submitted"),
               UNCHANGED <<now, db, clients, sub, view, fresh, pending, reply>>
        PROVE  Heedful'
    <2>1. \A q \in Requests \ {r} : found'[q] = found[q]
      BY <1>3 DEF Heedful, Sound, Typed, TypeOK
    <2> QED
      BY <1>1, <1>3, <2>1, MoveHeeds DEF Ongoing
  <1> QED
    BY <1>2, <1>3 DEF FindWinner

\* A request is sent, and what holds now is what it is held against.
LEMMA SubmitHeeds ==
    ASSUME Heedful, Sound', Grows, NEW r \in Requests, NEW t, NEW ip, NEW i,
           Submit(r, t, ip, i)
    PROVE  Heedful'
  <1>1. /\ pc'[r] = "verify" /\ reply'[r] = "NONE" /\ view' = view /\ found' = found
        /\ sub'[r] = [token |-> t, ip |-> ip, on |-> i,
                      revoked |-> Deleted(t.session_id),
                      rotated |-> Rotated(sha256Hex(t), t_session_refresh) # {}]
        /\ UNCHANGED <<now, db>>
        /\ \A q \in Requests \ {r} : SameSlot(q)
    BY DEF Submit, Go, SameSlot, locals, Heedful, Sound, Typed, TypeOK
  <1>2. view[r] = NULL
    BY DEF Submit, Heedful, Sound, Typed, SlotTyped
  <1>3. /\ sub'[r].token = t /\ sub'[r].revoked = Deleted(t.session_id)
        /\ sub'[r].rotated = (Rotated(sha256Hex(t), t_session_refresh) # {})
    BY <1>1
  <1>4. Asked(r)' /\ LostRace(r)'
    BY <1>1, <1>2 DEF Asked, LostRace
  <1>5. Revoked(r)'
    BY <1>1, <1>2, <1>3 DEF Revoked, Deleted, db
  <1>6. Retried(r)'
    BY <1>1, <1>2, <1>3 DEF Retried, OldHash, db, Ongoing
  <1> QED
    BY <1>1, <1>4, <1>5, <1>6, OneHeeds DEF Heeds

LEMMA CrashHeeds ==
    ASSUME Heedful, Sound', Grows, NEW i \in Instances, Crash(i)
    PROVE  Heedful'
  <1> SUFFICES ASSUME NEW r \in Requests PROVE Heeds(r)'
    BY DEF Heedful
  <1>1. CASE ~(pc[r] # "idle" /\ sub[r].on = i)
    <2>1. SameSlot(r)
      BY <1>1 DEF Crash, SameSlot
    <2> QED
      BY <2>1, SameHeeds DEF Heedful, Sound
  <1>2. CASE pc[r] # "idle" /\ sub[r].on = i
    <2>1. /\ pc'[r] = "idle" /\ reply'[r] = "LOST" /\ view'[r] = NULL /\ found'[r] = NULL
          /\ UNCHANGED <<db, sub>> /\ sub[r] # NULL
      BY <1>2 DEF Crash, Heedful, Sound, Typed, SlotTyped
    <2>2. Heeds(r)
      BY DEF Heedful
    <2>3. Asked(r)' /\ LostRace(r)'
      BY <2>1 DEF Asked, LostRace
    <2>4. Revoked(r)'
      BY <2>1, <2>2 DEF Heeds, Revoked, Deleted, db
    <2>5. Retried(r)'
      BY <2>1, <2>2 DEF Heeds, Retried, OldHash, db, Ongoing
    <2> QED
      BY <2>3, <2>4, <2>5 DEF Heeds
  <1> QED
    BY <1>1, <1>2

LEMMA NextHeeds ==
    ASSUME Heedful, [Next]_vars
    PROVE  Heedful'
  <1>1. Sound' /\ Grows
    BY NextSound, AlwaysGrows DEF Heedful
  <1>2. ASSUME UNCHANGED <<pc, sub, view, found, reply>> PROVE Heedful'
    BY <1>1, <1>2, SameHeeds DEF SameSlot, Heedful, Sound
  <1>3. ASSUME NEW r \in Requests, Handle(r) PROVE Heedful'
    <2>1. CASE Commit(r)
      BY <1>1, <2>1, FinishHeeds DEF Commit
    <2> QED
      BY <1>1, <1>3, <2>1, VerifyHeeds, FindRotatedHeeds, FindSubmittedHeeds,
         FindSessionHeeds, SignHeeds, FindWinnerHeeds DEF Handle
  <1>4. ASSUME NEW r \in Requests, CommitUnacknowledged(r) PROVE Heedful'
    BY <1>1, <1>4, FinishHeeds DEF CommitUnacknowledged
  <1>5. ASSUME NEW r \in Requests, DbFailure(r) PROVE Heedful'
    BY <1>1, <1>5, FinishHeeds DEF DbFailure, Refuse
  <1>6. ASSUME Tick \/ (\E s, i, ip : SignIn(s, i, ip)) \/ (\E s : DeleteSession(s))
               \/ UNCHANGED vars
        PROVE  Heedful'
    BY <1>2, <1>6 DEF Tick, SignIn, DeleteSession, vars, locals
  <1> QED
    BY <1>1, <1>3, <1>4, <1>5, <1>6, InsertHeeds, SubmitHeeds, CrashHeeds DEF Next

LEMMA HeedfulAlways == Spec => []Heedful
  <1>1. Init => Heedful
    BY InitSound DEF Init, Heedful, Heeds, Asked, Revoked, Retried, LostRace
  <1> QED
    BY <1>1, NextHeeds, PTL DEF Spec

\* user.service.ts:199-215: a request sent after its session was deleted is not
\* given tokens, whatever snapshot it reads and whichever path answers it.
THEOREM DeletedGetsNothing == Spec => []DeletedSessionGetsNothing
  <1>1. Heedful => DeletedSessionGetsNothing
    BY DEF Heedful, Heeds, Asked, Revoked, DeletedSessionGetsNothing
  <1> QED
    BY <1>1, HeedfulAlways, PTL

\* user.service.ts:199: a client that retries an exchange which was committed,
\* whoever lost its reply, never meets a unique key.
THEOREM RetryIsAnswered == Spec => []RetryMeetsNoConflict
  <1>1. Heedful => RetryMeetsNoConflict
    BY DEF Heedful, Heeds, Asked, Retried, RetryMeetsNoConflict
  <1> QED
    BY <1>1, HeedfulAlways, PTL

\* user.service.ts:222-231: under READ COMMITTED a unique key costs a client its
\* exchange only if the token it signed is stored already; whoever loses the race
\* otherwise finds the winner's row (under MySQL's default it does not, and
\* rotation_loser shows how).
THEOREM OnlyTwins ==
    ASSUME Isolation = "READ COMMITTED" PROVE Spec => OnlyTwinsAreRefused
  <1> DEFINE Twin(r) == \E row \in t_session_refresh : row.refresh_hash = sha256Hex(fresh[r])
             Conflict(r) == /\ reply'[r] # reply[r]
                            /\ reply'[r] \in {"DUPLICATE_REFRESH", "REFRESH_ALREADY_ROTATED"}
  <1>1. ASSUME Heedful, Heedful', [Next]_vars, NEW r \in Requests, Conflict(r)
        PROVE  Twin(r)
    <2>1. reply'[r] = "DUPLICATE_REFRESH"
      BY <1>1 DEF Heedful, Heeds, LostRace
    <2>2. reply \in [Requests -> Statuses]
      BY <1>1 DEF Heedful, Sound, Typed, TypeOK
    <2>3. ASSUME NEW q \in Requests, NEW status, Finish(q, status)
          PROVE  q = r /\ status = "DUPLICATE_REFRESH"
      BY <1>1, <2>1, <2>2, <2>3 DEF Finish
    <2>4. Next
      BY <1>1 DEF vars
    <2>5. PICK q \in Requests : Insert(q)
      <3>1. ASSUME NEW q \in Requests, Handle(q) \/ CommitUnacknowledged(q) \/ DbFailure(q)
            PROVE  FALSE
        <4>1. ASSUME NEW status \in Statuses \ {"DUPLICATE_REFRESH"}, Refuse(q, status)
              PROVE  FALSE
          BY <2>3, <4>1 DEF Refuse
        <4>2. reply' # reply
          BY <1>1
        <4>3. CASE Commit(q) \/ CommitUnacknowledged(q)
          <5>1. PICK status \in {"OK", "LOST"} : Finish(q, status)
            BY <4>3 DEF Commit, CommitUnacknowledged
          <5> QED
            BY <2>3, <5>1
        <4>4. CASE DbFailure(q)
          BY <4>1, <4>4 DEF DbFailure, Statuses
        <4>5. CASE Verify(q)
          BY <4>1, <4>2, <4>5 DEF Verify, Statuses
        <4>6. CASE FindSubmitted(q)
          BY <4>1, <4>2, <4>6 DEF FindSubmitted, Statuses
        <4>7. CASE FindSession(q)
          BY <4>1, <4>2, <4>7 DEF FindSession, Statuses
        <4>8. CASE FindWinner(q)
          BY <4>1, <4>2, <4>8 DEF FindWinner, Statuses
        <4>9. CASE FindRotated(q) \/ Sign(q)
          BY <4>2, <4>9 DEF FindRotated, Sign
        <4> QED
          BY <3>1, <4>3, <4>4, <4>5, <4>6, <4>7, <4>8, <4>9 DEF Handle
      <3>2. ~\E i \in Instances : Crash(i)
        <4>1. ASSUME NEW i \in Instances, Crash(i) PROVE reply'[r] \in {"LOST", reply[r]}
          BY <4>1 DEF Crash
        <4> QED
          BY <1>1, <2>1, <4>1
      <3>3. ~\E q \in Requests, t \in Submittable, ip \in Ips \cup {NULL}, i \in Instances :
                Submit(q, t, ip, i)
        BY <1>1, <2>1, <2>2 DEF Submit
      <3>4. ~(Tick \/ (\E s, i, ip : SignIn(s, i, ip)) \/ (\E s : DeleteSession(s)))
        BY <1>1 DEF Tick, SignIn, DeleteSession
      <3> QED
        BY <2>4, <3>1, <3>2, <3>3, <3>4 DEF Next
    <2>6. q = r /\ DuplicateRefreshHash(r)
      BY <1>1, <2>3, <2>5 DEF Insert, Refuse
    <2> QED
      BY <2>6 DEF DuplicateRefreshHash, SameRefreshHash, NewRow, RefreshRow
  <1>2. Heedful /\ Heedful' /\ [Next]_vars => \A r \in Requests : Conflict(r) => Twin(r)
    BY <1>1
  <1>3. Heedful /\ Heedful' /\ [Next]_vars
        => [\A r \in Requests : Conflict(r) => Twin(r)]_vars
    BY <1>2
  <1> QED
    BY <1>3, HeedfulAlways, PTL DEF OnlyTwinsAreRefused, Spec

-----------------------------------------------------------------------------
(***************************************************************************)
(* That a request runs out of steps: what Answered needs besides fairness. *)
(***************************************************************************)
\* How many steps a handler can at most still take from one, with the row it
\* answers from found or not yet.
Rank(step, row) ==
    CASE step = "idle" -> 0
      [] step = "commit" -> 1
      [] step = "session" -> IF row = NULL THEN 7 ELSE 2
      [] step = "submitted" -> IF row = NULL THEN 8 ELSE 3
      [] step = "winner" -> 4
      [] step = "insert" -> 5
      [] step = "sign" -> 6
      [] step = "rotated" -> 9
      [] step = "verify" -> 10

Ahead(r) == Rank(pc[r], found[r])

\* A handler's own step brings its request nearer to its reply, and nobody
\* else's takes it farther away.
Approaches(r) ==
    /\ pc[r] # "idle" => Ahead(r)' <= Ahead(r)
    /\ Handle(r) \/ Insert(r) => Ahead(r)' < Ahead(r)

\* An insert that waits, waits for a request that has only its commit ahead.
WaitsForCommit ==
    \A r \in Requests : pc[r] = "insert" /\ Waits(r) =>
        \E q \in Requests \ {r} : pending[q] # NULL /\ Ahead(q) = 1

LEMMA RankIs ==
    \A step \in Steps, row \in Row \cup {NULL} :
        /\ Rank(step, row) \in Nat
        /\ step # "idle" => Rank(step, row) > 0
        /\ Rank("idle", row) = 0 /\ Rank("commit", row) = 1 /\ Rank("winner", row) = 4
        /\ Rank("insert", row) = 5 /\ Rank("sign", row) = 6 /\ Rank("rotated", row) = 9
        /\ Rank("verify", row) = 10
        /\ row # NULL => Rank("session", row) = 2 /\ Rank("submitted", row) = 3
        /\ row = NULL => Rank("session", row) = 7 /\ Rank("submitted", row) = 8
<1> SUFFICES ASSUME NEW step \in Steps, NEW row \in Row \cup {NULL}
             PROVE  /\ Rank(step, row) \in Nat
                    /\ step # "idle" => Rank(step, row) > 0
                    /\ Rank("idle", row) = 0 /\ Rank("commit", row) = 1
                    /\ Rank("winner", row) = 4 /\ Rank("insert", row) = 5
                    /\ Rank("sign", row) = 6 /\ Rank("rotated", row) = 9
                    /\ Rank("verify", row) = 10
                    /\ row # NULL => Rank("session", row) = 2 /\ Rank("submitted", row) = 3
                    /\ row = NULL => Rank("session", row) = 7 /\ Rank("submitted", row) = 8
  OBVIOUS
<1>1. /\ Rank("idle", row) = 0 /\ Rank("commit", row) = 1
      /\ Rank("winner", row) = 4 /\ Rank("insert", row) = 5
      /\ Rank("sign", row) = 6 /\ Rank("rotated", row) = 9
      /\ Rank("verify", row) = 10
  BY DEF Rank
<1>2. /\ row # NULL => Rank("session", row) = 2 /\ Rank("submitted", row) = 3
      /\ row = NULL => Rank("session", row) = 7 /\ Rank("submitted", row) = 8
  BY DEF Rank
<1>3. Rank(step, row) \in Nat /\ (step # "idle" => Rank(step, row) > 0)
  BY <1>1, <1>2 DEF Steps
<1> QED
  BY <1>1, <1>2, <1>3

LEMMA HandleApproaches ==
    ASSUME Typed, Typed', NEW r \in Requests, Handle(r) \/ Insert(r)
    PROVE  Ahead(r)' < Ahead(r)
<1>1. /\ pc \in [Requests -> Steps] /\ pc' \in [Requests -> Steps]
      /\ found \in [Requests -> Row \cup {NULL}] /\ found' \in [Requests -> Row \cup {NULL}]
      /\ pc[r] \in {"sign", "insert", "winner"} => found[r] = NULL
  BY DEF Typed, TypeOK, SlotTyped
<1>2. Ahead(r) = Rank(pc[r], found[r]) /\ Ahead(r)' = Rank(pc'[r], found'[r])
  BY DEF Ahead
<1>3. ASSUME pc'[r] = "idle", pc[r] # "idle" PROVE Ahead(r)' < Ahead(r)
  BY <1>1, <1>2, <1>3, RankIs
<1>4. ASSUME NEW status, Refuse(r, status), pc[r] # "idle" PROVE Ahead(r)' < Ahead(r)
  BY <1>1, <1>3, <1>4 DEF Refuse, Finish, Go
<1>5. CASE Verify(r)
  BY <1>1, <1>2, <1>4, <1>5, RankIs DEF Verify, Go
<1>6. CASE FindRotated(r)
  <2>1. pc[r] = "rotated" /\ pc'[r] = "submitted"
    BY <1>1, <1>6 DEF FindRotated, Go
  <2>2. Ahead(r) = 9
    BY <1>1, <1>2, <2>1, RankIs
  <2>3. Ahead(r)' \in {3, 8}
    BY <1>1, <1>2, <2>1, RankIs
  <2> QED
    BY <2>2, <2>3
<1>7. CASE FindSubmitted(r)
  BY <1>1, <1>2, <1>4, <1>7, RankIs DEF FindSubmitted, Go, locals
<1>8. CASE FindSession(r)
  BY <1>1, <1>2, <1>4, <1>8, RankIs DEF FindSession, Go, locals
<1>9. CASE Sign(r)
  BY <1>1, <1>2, <1>9, RankIs DEF Sign, Go
<1>10. CASE FindWinner(r)
  <2>1. CASE \E row \in Rotated(OldHash(r), Read(r).rows) :
                 found' = [found EXCEPT ![r] = row] /\ Go(r, "submitted")
    <3>1. PICK row \in Rotated(OldHash(r), Read(r).rows) :
                 found' = [found EXCEPT ![r] = row] /\ Go(r, "submitted")
      BY <2>1
    <3>2. row \in Row /\ row # NULL
      <4>1. Read(r).rows \subseteq Row
        BY DEF Read, Committed, Typed, TypeOK, View
      <4> QED
        BY <3>1, <4>1, NullAssumption DEF Rotated
    <3>3. pc[r] = "winner" /\ pc'[r] = "submitted" /\ found'[r] # NULL
      BY <1>1, <1>10, <3>1, <3>2 DEF FindWinner, Go
    <3> QED
      BY <1>1, <1>2, <3>3, RankIs
  <2> QED
    BY <1>4, <1>10, <2>1 DEF FindWinner
<1>11. CASE Commit(r)
  BY <1>1, <1>3, <1>11 DEF Commit, Finish, Go
<1>12. CASE Insert(r)
  BY <1>1, <1>2, <1>4, <1>12, RankIs DEF Insert, Go, locals
<1> QED
  BY <1>5, <1>6, <1>7, <1>8, <1>9, <1>10, <1>11, <1>12 DEF Handle

LEMMA OthersApproach ==
    ASSUME Typed, Typed', [Next]_vars, NEW r \in Requests, pc[r] # "idle"
    PROVE  Ahead(r)' <= Ahead(r)
<1>1. /\ pc \in [Requests -> Steps] /\ pc' \in [Requests -> Steps]
      /\ found \in [Requests -> Row \cup {NULL}] /\ found' \in [Requests -> Row \cup {NULL}]
  BY DEF Typed, TypeOK
<1>2. Ahead(r) = Rank(pc[r], found[r]) /\ Ahead(r)' = Rank(pc'[r], found'[r])
  BY DEF Ahead
<1>3. Ahead(r) \in Nat /\ Ahead(r)' \in Nat /\ (pc'[r] = "idle" => Ahead(r)' = 0)
  BY <1>1, <1>2, RankIs
<1>4. ASSUME pc'[r] = pc[r], found'[r] = found[r] PROVE Ahead(r)' <= Ahead(r)
  BY <1>2, <1>3, <1>4
<1>5. ASSUME pc'[r] = "idle" PROVE Ahead(r)' <= Ahead(r)
  BY <1>3, <1>5
<1>6. ASSUME NEW q \in Requests, Handle(q) \/ Insert(q) PROVE Ahead(r)' <= Ahead(r)
  <2>1. CASE q = r
    BY <1>3, <1>6, <2>1, HandleApproaches
  <2>2. CASE q # r
    <3>1. pc'[r] = pc[r] /\ found'[r] = found[r]
      BY <1>1, <1>6, <2>2
         DEF Handle, Verify, FindRotated, FindSubmitted, FindSession, Sign, FindWinner,
             Commit, Insert, Refuse, Finish, Go, locals
    <3> QED
      BY <1>4, <3>1
  <2> QED
    BY <2>1, <2>2
<1>7. ASSUME NEW q \in Requests, CommitUnacknowledged(q) \/ DbFailure(q)
      PROVE  Ahead(r)' <= Ahead(r)
  BY <1>1, <1>4, <1>5, <1>7 DEF CommitUnacknowledged, DbFailure, Refuse, Finish, Go
<1>8. ASSUME NEW i \in Instances, Crash(i) PROVE Ahead(r)' <= Ahead(r)
  BY <1>4, <1>5, <1>8 DEF Crash
<1>9. ASSUME NEW q \in Requests, NEW t, NEW ip, NEW i, Submit(q, t, ip, i)
      PROVE  Ahead(r)' <= Ahead(r)
  <2>1. q # r
    BY <1>9 DEF Submit
  <2> QED
    BY <1>1, <1>4, <1>9, <2>1 DEF Submit, Go, locals
<1>10. ASSUME NEW s, NEW i, NEW ip, Tick \/ SignIn(s, i, ip) \/ DeleteSession(s)
       PROVE  Ahead(r)' <= Ahead(r)
  BY <1>4, <1>10 DEF Tick, SignIn, DeleteSession, locals
<1>11. CASE UNCHANGED vars
  BY <1>4, <1>11 DEF vars, locals
<1> QED
  BY <1>6, <1>7, <1>8, <1>9, <1>10, <1>11 DEF Next

\* user.service.ts:144: no request goes round in circles, at most ten steps
\* of its handler lead to its reply, and none waits for another that waits: an
\* insert waits only for a request that has nothing but its commit ahead.
THEOREM RequestsRunOut ==
    Spec => [][\A r \in Requests : Approaches(r)]_vars /\ []WaitsForCommit
<1>1. Typed /\ Typed' /\ [Next]_vars => [\A r \in Requests : Approaches(r)]_vars
  BY HandleApproaches, OthersApproach DEF Approaches
<1>2. Typed => WaitsForCommit
  <2> SUFFICES ASSUME Typed, NEW r \in Requests, Waits(r)
               PROVE  \E q \in Requests \ {r} : pending[q] # NULL /\ Ahead(q) = 1
    BY DEF WaitsForCommit
  <2>1. PICK q \in Requests \ {r} : pending[q] # NULL
    BY DEF Waits
  <2>2. pc[q] = "commit" /\ found[q] \in Row \cup {NULL}
    BY <2>1 DEF Typed, TypeOK, SlotTyped
  <2> QED
    BY <2>1, <2>2, RankIs DEF Ahead, Steps
<1> QED
  BY <1>1, <1>2, TypeCorrect, PTL DEF Spec
=============================================================================
