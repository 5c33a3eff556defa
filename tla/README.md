# A verification of nestjs-harness

TLA+ modules, TLC configurations and TLAPS proofs kept beside the code of
`nestjs-harness`: a NestJS back end (users, sessions, refresh tokens, a Redis
write queue, a partitioned API log) and the shell hooks of its development
harness. Paths below are relative to the repository root. Every definition is
translated from the code at the lines `PROJECT.json` names under `map`.

## 1. The system

| Part | Code | State it keeps | Operations | Talks to |
|---|---|---|---|---|
| Refresh rotation (section 2) | `src/api/v1/user/user.service.ts:124-239`, `user.repository.ts`, `session-refresh.entity.ts` | rows of `t_session_refresh` (two unique keys), `t_session` | `refresh` | MySQL, one transaction per request |
| Sign-in, user creation (3, 4) | `user.service.ts:29-122`, `user.controller.ts` | `t_user`, `t_session`, first row of each chain | `signIn`, `adminCreate` | the write queue, MySQL |
| Write queue (3) | `src/modules/queue/*` | BullMQ lists in Redis; per process a worker and a map of handlers | `@UseQueue`, `dispatch`, worker callback, `onModuleInit/Destroy` | Redis, the services |
| API log, capture (6) | `src/modules/api-log/api-log.interceptor.ts`, `src/exception/exception.ts` | one `saved` flag and captured body per request | `intercept`, `finish`/`close` callbacks, error filter | `t_api_log` |
| API log, partitions (5) | `src/modules/api-log/api-log.partition.service.ts` | partitions of `t_api_log`, a named lock, a timer | boot and monthly maintenance | MySQL, a pool of 5 connections |
| Guards (4, 6) | `src/guards/*` | none | JWT strategy, `RolesGuard` | MySQL |
| Pagination, Excel, Swagger pages (8) | `src/common/utils/pagination.ts`, `excel.ts`, `src/main.ts` | none | `Pagination`, `createSheet`/`createExcel`/`readExcel`, `setSwagger` | clients, the browser |
| Other helpers | `src/common/utils/*` | none | hash, cipher, bcrypt, jwt, validation | - |
| Test hook (7) | `.harness/hooks/run-tests.sh` | `.harness/.retry-count`, `.harness/.current-spec` | one run per saved file | jest |
| Validators, other hooks | `.harness/validators/*`, `on-*-written.sh`, `.husky/pre-commit` | none | checks of document text | - |
| Bootstrap, FCM, configuration | `src/main.ts`, `src/config`, `src/modules/typeorm`, `src/modules/firebase-cloud-message` | none | start-up wiring, pushes | - |

How they interact: a controller call passes the guards, the interceptor and the
pipe, then reaches a service method. `signIn` and `adminCreate` are wrapped by
`@UseQueue` and run inside the worker of the key `user-consumer`, possibly in
another process, or in the request itself where no Redis was found; `refresh` is not queued and runs where it arrived, so its only
protection is the database. Its first row is written by `signIn`.

### What is hard here

The hazards are listed at their lines in `PROJECT.json`. In short: requests
interleave at every query; a repeatable read looks at a snapshot; unique keys
make inserts wait for other transactions; replies get lost after a commit;
clocks of processes and database differ; jobs are picked up by any process and
redelivered; a connection-scoped lock is taken and released through a pool; a
timer's delay is a 32-bit number; two callbacks of one response race; a guard
reads a role that the job acts on later; two creations look for a login id
before either inserts it; two sign-ins lock the same user row.

### How the modules hang together

    RefreshRotation --implements--> RefreshChain
    WriteQueue      --implements--> Delivery <--runs on-- UserAccounts
    ApiLogPartition    ApiLogCapture    TestRetryHook
    Utilities = Pagination + Excel + Swagger

A module `XProofs` holds the theorems about `X`; those about `RefreshChain` are
in `RefreshRotationProofs`.

`Delivery` is what a method under `@UseQueue` can count on. `WriteQueue` is
proved to implement it, so `UserAccounts` uses its actions as scheduler instead
of BullMQ's lists; its executions meet in the tables.

## 2. Refresh rotation

`RefreshRotation` follows `UserService.refresh` query by query.

| Model | Code |
|---|---|
| `t_session`, `t_session_refresh` | the committed tables; rows are never deleted, `is_delete` is set by somebody outside this repository |
| `pc[r]` | where the handler of slot `r` awaits: `verify`, `rotated` (line 199), `submitted` and `session` (the two queries of `validateAndLoadSession`), `sign`, `insert`, `winner` (line 227), `commit` |
| `view[r]` | the read view of the transaction, taken by its first query under REPEATABLE READ, `NULL` under READ COMMITTED |
| `pending[r]` | the inserted, uncommitted row; its keys make equal inserts wait |
| `found[r]`, `fresh[r]` | the `rotated`/`winner` row; the token signed at line 209 |
| `held`, `answered` | what clients were given; history |
| `now`, `Offset`, `DbOffset` | true time and each clock's lead over it |

The isolation level is a constant because the code does not set one:
`@Transactional()` takes what the server has, REPEATABLE READ unless somebody
changed it. `DbFailure`, `CommitUnacknowledged` and `Crash` are the ways a
request ends without its reply. `SHA-256` and `AES-GCM` are free constructors;
a token is the record of its claims, which is what makes two signatures of one
second equal. Left out: the access token in the reply (it is signed from the
session that was read and stored nowhere), a malformed token string (refused
like a token of the wrong type), the wording of messages.

`RefreshChain` is what the rotation promises: a token has one successor, chosen
once, new, and told to everybody who asks. `Issued` and `Links` map the table
to it.

| Run | Instance | Shows |
|---|---|---|
| `rotation_rr` | 2 requests, 1 process, 1 session, 4 instants, tokens of 2 s, REPEATABLE READ | types, idempotent replies, one chain per session, delivered tokens are stored, a session deleted before the request gets nothing, a retry of a committed exchange meets no unique key |
| `rotation_rc` | 2 requests, 2 processes one second apart, 2 instants, READ COMMITTED | a unique key refuses a client only if the token it signed is stored already (`OnlyTwinsAreRefused`), so every other loser of a race finds the winner's row; though tokens are signed out of order, the rotation implements `RefreshChain` (idempotence and the single chain are proved for this isolation level too) |
| `rotation_live` | 2 requests, fair | every request ends |
| `rotation_loser` | 2 requests, REPEATABLE READ | finding: the loser does not find the winner's row (`WinnerIsFound`) and is refused |

Bounds. Two slots are enough for each race: a race has two parties, and a slot
that has answered is used again, so a third client takes part in the same
behaviour. Lifetimes of 2 s and 4 instants give a token time to be issued,
exchanged in a later second, exchanged again and expire; in `rotation_rc` the
clock that is ahead makes the second exchange and the expiry possible within
two instants. Sessions do not interact (their tokens differ), so one suffices;
the proofs have no bound. `rotation_rr` has an address to match or not; the
others leave addresses out. Slots are interchangeable, hence the symmetry set in
safety runs; `rotation_live` uses none. Deadlock is checked: a client can
always submit something.

Fairness. `WF` of each handler: Node resumes a handler whose query has
returned and the database answers. `SF` of `Insert`: it waits in InnoDB's lock
queue for a key, and a transaction ahead of it may roll back and be followed by
another one again and again; the queue is first come, first served. Time,
clients, failures and crashes are not fair.

### Proofs

`RefreshRotationProofs` proves `TypeOK` first; `SlotTyped` adds which locals are
set at which step, without which a commit might answer from nothing.
The tables and what was answered have one inductive invariant, `Sound`:

* `RowsSound`: a row's hash, cipher text, session and expiry are those of its
  own token, and its `before_refresh_hash` is another stored row's hash;
* `KeysUnique` and `PendingApart`: committed rows differ in both keys, and an
  uncommitted row differs from all committed and all other uncommitted ones,
  which is what lets a commit add it;
* `SlotSound`: what a handler read stays true, because rows only get added;
* `AnsweredStored`, `DeliveredIsStored`, `OneOpenEnd`.

`IdempotentReplies` alone is not inductive: it needs the row behind each answer,
its uniqueness, and that a second row with the same key can never be pending.
`OneOpenEnd` needs that the row a pending row continues is the open end of its
chain, which follows from `PendingApart` (nobody else has that predecessor).
From `Sound`, every step of the rotation is a step of `RefreshChain` or
invisible: `Refinement`. `ChainCorrect` proves of `RefreshChain` alone that links
are one to one and answers are links, stated for the instance but with nothing of
the rotation expanded; `TokensFormChain` is the two together.

What a reply may say is a second invariant, `Heedful`, which is `Sound` and for
each request `Heeds`. Its parts relate a reply to what held when the request was
sent, several queries and a snapshot ago; all of them rest on `Grows` (deletions,
rows and time are for good):

* `Revoked`: of a request sent after its session was deleted, every read view has
  the deletion, no slot gets past the session's query and no reply is `OK`. The
  view is the part that is easily forgotten: it is taken after the deletion, so
  not even a repeatable read can bring the session back (`DeletedGetsNothing`);
* `Retried`: a token that was exchanged has its row in the table and, once
  looked up, in `found`, so that neither unique key is ever reached (`RetryIsAnswered`);
* `LostRace`: under READ COMMITTED there is no view, and whoever is at `winner`
  met a committed row, which is still there. So the only refusals over a unique
  key are those of a token that is stored already (`OnlyTwins`). That level is
  the theorem's premise; `rotation_loser` shows what happens without it.

Assumptions: `NullAssumption` (the null value is no
record), `IsolationAssumption`, `ClockAssumption` (natural offsets, positive
lifetimes).

Liveness stays with TLC, but what `Answered` rests on besides fairness is
`RequestsRunOut`: `Ahead` counts the steps a handler still has before its reply,
at most ten, the second validation of a loser included; its own step lessens it,
nobody else's adds to it, and an insert that waits does so for a request that
has only its commit ahead, so inserts do not wait in a circle.

## 3. Write queue

`WriteQueue` is one consumer key (the code has one, `user-consumer`).

| Model | Code |
|---|---|
| `boot[i]` | a process that is down, constructing its worker (`starting`: the worker of `ensureConsumer` takes jobs before `waitUntilReady` returns), serving with the registry (`queued`), or serving without it (`direct`, Redis did not answer `checkRedis`) |
| `handlers[i]` | the `handlers` map of the consumer; filled by `getOrCreate`, empty after a restart |
| `caller[c]`, `host[c]` | where the wrapper of call `c` awaits, and in which process |
| `wait`, `job`, `lock`, `stalls` | BullMQ's wait list, job states, job locks and stalled counter, as far as the code relies on them (external) |
| `run[i][c]` | the processor: taken, in an inner queued call, transaction open; done, thrown (the method's own exception) or broken (any other error, after which the write may be there or not) |
| `applied`, `added`, `committed` | transactions committed for each call; history of both orders |

`Direct` is the wrapper's decision to bypass the queue (no registry, or already
in the processing context). A method run directly ends at `FinishDirect` and is
answered at `ReturnDirect`: a process may die between the two. `Commit` and
`Throw` are the two ends of the method's one `@Transactional` body; the database
may fail to acknowledge a commit, and the method then fails although it wrote.

Three answers are told apart, as `dispatch` tells them apart
(`write-queue.registry.ts:139-149`): `ok`; `refused`, the method's own exception,
which came back as JSON in the job's error; and `failed`, the 500 of line 148.
`RedisFails` is that line's own case: `queue.add` or `waitUntilFinished` rejects
at any time, before the job is stored, while it waits, runs or has committed, and
the job goes its way with nobody awaiting it. So a 500 promises nothing, and no
property says it does; a refusal means that nothing was written.

`Register` (the handler is set in `getOrCreate`) and `Enqueue` (the job is added)
are steps of their own, between which other calls and the worker go on. `Finish`,
`LockLost` and `Stalled` are BullMQ's; a job is put back once
(`maxStalledCount` 1) and failed then.

`Delivery` forgets lists, locks and handlers: a call has an `answer`, `due`
deliveries, `open` executions, the number of commits `applied` and of
redeliveries. Its `Tell` says the outcome of an execution; its `Fail` says 500 at
any time, and keeps apart a call that never had a job (`failed`) from one whose
job is still about (`unsure`). Under the mapping `Abstract`, a taken job is still due, a process
that died leaves calls `gone` (a job of theirs lives on), `lost` (written, never
told) or as if never made, and a job without a handler is a `Drop`.

| Run | Instance | Shows |
|---|---|---|
| `queue_one` | 1 process, 3 calls, one of which is made by another's method, 1 crash; fair | types; jobs commit in the order they were added unless one was redelivered; every call of a living process returns, the call inside a job included |
| `queue_many` | 2 processes, 2 calls of different job keys, 1 crash | `ToldIsTrue`: a success told is a write made, a refusal told is no write unless redelivered, one commit per delivery; `DispatcherHasHandler`: a worker finds the handler of every job, whoever made it, whose key its own process awaits; every step is a step of `Delivery` |

No guard reads `added` or `committed`, and no property of `queue_many` does: the
run's view (`WithoutHistory`) leaves them out, so that states that differ only in
this history count once.

`DeliveryProofs` proves `Delivery`'s `ToldIsTrue` for any finite number of
processes and any numbers of calls, deaths and redeliveries. It is not inductive:
`Counted` (commits, open executions and due deliveries together are at most the
deliveries) bounds the commits to come, and `Fresh` (a call not made, or run
directly, has no job) says why a caller that was refused without
redelivery has nothing left to commit.

`WriteQueueProofs` proves that `WriteQueue` implements `Delivery`
(`QueueImplementsDelivery`), whence `ToldIsTrue` of the queue itself
(`QueueTellsTruth`): the abstract theorem is instantiated under the mapping, not
proved again. The inductive invariant `QInv` holds for each call

* `Placed`, `Listed`: where the wrapper awaits agrees with the job's state, a job
  waits exactly if the list has it (once: `Distinct`), a lock is held by a worker
  that runs the job; without this a redelivery would not be one of `Delivery`'s;
* `Written`, `Unwritten`: a completed job and a finished run have committed, a
  call nobody began has not;
* `FirstDelivery`: until a job is found stalled at most one worker has it, and it
  has not committed before its run is done. This is what makes "a refusal told
  is no write unless redelivered" true although workers of several processes
  compete;
* `HasHandler` (`QueueHasHandler`: a process that awaits a job has had its handler
  since before the job was added, and keeps it as long as it awaits), and `OneJob`: a worker runs one job at a time.

Each action is then mapped to its step of `Delivery` or to a stutter; a crash
needs a case for each place a call can be in. `QueueCommitsInOrder` needs one
more invariant, about what is committed against `added`, and has a premise: there
is one process. With two, workers are independent and the property is false,
which is divergence `OneAtATime` (section 9).

The claim the code makes of that case is a theorem too: with one process no two
jobs are in a transaction at once (`OneProcessOneAtATime`, from `OneJob`). That a
worker finds the handler of every job it takes (`HandlerFound`, section 9) fails
with one process as well, after a restart; what is true of it, with no premise,
is `DispatcherHasHandler`.

`QueueForgetsNone` is what `Returned` rests on besides fairness: a call that
awaits the queue has a job that is answered, or is active under a worker that
can go on, or has lost its lock in reach of the search for stalled jobs, or is
in the list and the worker of its own process is free or can go on
(`Attended`, each disjunct the guard of a step). It holds because the caller's
process, alive and serving, has a worker itself (`Hosted`), and because a method
called inside a job runs at once instead of being queued behind it
(`use-queue.decorator.ts:46`): no worker waits for its own queue.

Bounds. Order and double execution need two jobs; two processes are the least
with a foreign worker; one crash (or any number of lost locks) makes a
redelivery, and a second stall ends the job. No present method calls another
queued one; `queue_one` has one that does, because the wrapper's context check
exists for it. Fairness: event loops run, Redis and the database answer, and
some worker looks for stalled jobs; crashes, lost locks, restarts and failures
of Redis under a caller are free.
`CHECK_DEADLOCK FALSE`: each call is made once, so behaviours end.

Left out: `onModuleDestroy`. `main.ts` does not call `enableShutdownHooks`, so
no signal reaches it, and a stop is a `Crash`. A failure of Redis reaches the
callers (`RedisFails`), the start-up probe (`Start`) and a worker's locks
(`LockLost`); Redis losing data that it acknowledged is not modelled.

## 4. Creation and sign-in

`UserAccounts` is `adminCreate` and `signIn` query by query. An execution is a
worker and a call; `step` is the query it awaits, `found` the user row it has
read, `mine` the rows it has written and not committed.

| Action | Code |
|---|---|
| `Submit` | the guards (`Admitted`: the bearer's user may log in and has the role), then queued or run directly (`Delivery`'s `Queue`, `Run`), or told 500 by a failure of Redis (`Fail`) |
| `FindLogin`, `InsertUser` | `user.service.ts:34-57`: passwords differ, login id taken, `insert` with its wait for the unique key and its duplicate error |
| `FindUser`, `CheckState` | `user.service.ts:62-81`: no such user, wrong password, a state that may not log in |
| `UpdateDevice`, `InsertSession`, `InsertRefresh` | `user.service.ts:83-119`, in the order `Writes` gives: only a mobile sign-in patches the user |
| `Commit`, `Throw`, `DbFailure` | the ends of `@Transactional`; every repository method turns a failed query into an exception; a commit may stay unacknowledged, which is a 500 after a write |
| `Deliver`, `Crash` | the queue's steps, a process that dies |
| `Dismiss` | somebody outside this repository changes `state_id` |

Locks are InnoDB's as far as the code meets them (external): an inserted login
id keeps an equal insert waiting, a patch locks the user row exclusively, a
session's foreign key locks it shared. Reads take no lock and see committed
rows.

`accounts` has 2 processes, 2 calls made by an administrator and a user, 7
requests (a creation as it should be, with a mistyped repetition, by somebody
without the role; a sign-in of the user being created; two mobile sign-ins of
one user; a wrong password) and 2 faults, of which a job's redelivery is one. It
shows:

* `CreationTold`, `SignInTold`: a success and a refusal agree with the rows (a 500
  may mean either, `Agrees` being the answers there can be), a creation makes at
  most one account, every session has its first refresh row;
* `LoginIdUnique`: two creations that both saw no such login id;
* `RefusedForReason`: `used` and `unknown` are told only when they are true, as
  seen by whoever asked: in particular never because of a row that was rolled
  back, and not after the creation was acknowledged by another process;
* `LatestDevice`: the user's device is that of the last mobile session committed;
* `BarredStaysOut`: who may not log in when the request is made gets nothing by
  it. Somebody dismissed while the job waits still gets what was asked for: the
  guard is not asked again;
* `NoDeadlock`: no set of executions waits for one another.

Bounds. Races over a key or a row have two parties; two faults allow a
redelivery and a failure in one of the two executions it makes. A second
redelivery is the queue's limit. Workers and calls are interchangeable, hence
the symmetry. `CHECK_DEADLOCK FALSE`: calls are made once; `NoDeadlock` is the
property about waiting. No fairness is assumed and no liveness stated here: that
a call returns is `Returned` of `queue_one`.

Abstracted: an access token is whether its bearer has a session (its expiry and
type are the rotation's subject); the syntax checks of the DTOs, which change no
state; the bcrypt hash, a password being what it verifies; names and the other
profile columns.

`UserAccountsProofs` proves all of these, and the types, for any numbers of
processes, calls, faults and redeliveries:

* `LoginIdUnique` needs `Reserved`: an inserted and uncommitted login id is in no
  committed row and in no other insert;
* `NoDeadlock` needs `Locks` (which lock is held at which query) and `Exclusive`
  (one patch of a row at a time): whoever is waited for then waits, if at all, for
  one that waits for nobody, so that not even an infinite set could wait for
  itself. That a call which was never made has no execution comes from
  `Delivery`: `QueueStep` says that each step here is one of its steps, and its
  invariant is cited;
* the rest is `AInv`. `Progress` says of an execution what it has read and
  written at the query it awaits (`Creating`, `Signing`); `CallOK` says of a call
  what the tables have of it: rows bear an id of their execution, so `Accounts`
  and `SignIns` tie them to `applied`, the number of commits `Delivery` counts,
  and `CreationTold` and `SignInTold` follow from what `Delivery` promises of
  `answer` and `applied`. `Before` carries what held when the request was made
  (who was barred, which login ids were acknowledged) to every later state, since
  rows stay and a dismissal is not undone; `Reasoned` does the same for the
  reasons of refusals. `LatestDevice` is inductive with `Locks`: between a patch
  and its commit nobody else commits a session of that user with a device.

Assumptions: `NullAssumption`, `StaffAssumption` (the first users are rows with
different login ids, no device, and ids no insert generates),
`RequestAssumption` (requests are of the DTOs' form), finitely many processes and
first users.

## 5. API log: partitions

`ApiLogPartition` is `ApiLogPartitionService` query by query, in every process.
A month is a number, partition `pYYYYMM` is its month, `pmax` is above all. The
lock belongs to `<<process, connection>>`; `Acquire` and `Release` each choose
any connection, as `DataSource.query` does. `Delay` is the argument of
`setTimeout` with the 32 bits Node keeps. `Alter` is either initial partitioning
or `REORGANIZE pmax`, which an existing name (1517) turns into nothing.
`QueryFails` follows each `catch`; `LoseConnection` frees the lock while the
process goes on; `Stop` may hit any step.

| Run | Instance | Shows |
|---|---|---|
| `partitions` | 2 processes, 2 connections each, 28 January to March 2028, an unpartitioned table or one with two expired partitions; 1 loss | types; until the lock is lost one process maintains at a time, though a release may miss the lock; no row is dropped before 24 months; this month and the next two have partitions when a maintenance has altered, even if two ran at once; a range is never added below another |
| `partitions_timer` | 1 process | finding: the timer of a long month fires at once |

Bounds. The days looked at (1, 2, 6, 8, 28, 29) are those on either side of the
24.8 days the timer can wait in months of 31 and 29 days, and the leap day whose
`setMonth(-24)` rolls over. `MaxLosses` 1 is one failure of any kind, `MaxDepth`
2 how often one connection may hold the lock. `late` makes a maintenance shorter
than a day; a step may still cross one midnight, the end of a month included.
`CHECK_DEADLOCK FALSE`: time is bounded.

`ApiLogPartitionProofs` proves the four properties of `partitions` and the types
for any processes, connections, days observed, span of time and number of
losses. The invariant `PInv` says

* `Holds`: until a loss, whoever is at work holds the lock on some connection,
  not necessarily the one its release will take (`PartitionsOneMaintainer`);
* `Table`: a partitioned table ends in four months without a gap, the last at
  most three ahead of today, and then `pmax`;
* `Listed`: a list read some queries ago may be stale, but if the table's last
  month has moved since, it is already as far ahead as this maintenance goes. So a
  process either adds above the last month or adds nothing new, which is why two
  processes that lost their lock do not spoil the table
  (`PartitionsAddAbove`, `PartitionsCovered`); `Lead` allows for the one midnight
  a maintenance may cross;
* `CutoffKeeps`: a cutoff leaves 24 months, whenever it was computed. 29 February
  minus 24 months is 1 March, so `Kept` compares days as well as months
  (`PartitionsRetained`).

Assumptions: `DateAssumption` (the first of a month is among the days looked at,
`pmax` lies above all months), `TableAssumption` (a table that is already
partitioned was left by an earlier maintenance), `BoundAssumption`,
`NullAssumption`. That every queried table is of that kind is the code's own
doing: only `Alter` and `Drop` write partitions, and `Table` shows that they keep
it so.

That a skip means somebody is at work is false with a pool (section 9); with the
five connections the code asks for nothing of it is left to prove.

## 6. API log: capture

`ApiLogCapture` is the way of a request through body parser, router, guards,
interceptor, a route's own upload interceptor, pipe and handler, and back
through the error filter, with `finish` and `close` of its response. A request
has a form of body and perhaps a token; a fate says where it ends and how; a
reply has a form, which `res.send` may pass on once or twice (express turns an
object into JSON and sends again) or, for a stream, not at all. The row's
status, body, stack, user, files and request body are compared with what
happened. The body parser reads JSON and forms, and has three ways to refuse
them: too large (413), no JSON (Nest's own 400), and what the filter does not
know, such as a charset or too many parameters (500). What multer leaves on the request is external. Copies of request
fields are left out, like a failed insert, which the code only prints.

`capture` (one request with every form, reply and fate, disconnects at any
moment, fair) shows that a row of a finished response tells what was sent
(`RowTellsResponse`) and who asked for it with what (`RowTellsRequest`: the user,
every file whatever multer made of the fields; where there is no upload, the body
as it came, or none),
and that a request whose client was there when the interceptor ran is logged in
the end, and saved once. Requests share nothing in this code, the interceptor's
closure included, so one is enough; the proofs have any number. Fairness: stages run, and a response that
was sent is handed over; clients need not send or disconnect.

`ApiLogCaptureProofs` proves `RowTellsResponse`, `RowTellsRequest` and the types.
A row is built in a callback, later than anything it tells, so `CInv` must say
that nothing it is built from changes meanwhile: `Answered` (status, stack and
captured body are set when the response is sent, together, and not before),
`Heard` (who listens has passed the guards), `Attaches` (files are those of the
request's form, all of them behind the upload), `Logged` (a row of a response
that was handed over is still what `buildLogEntity` would build now; an earlier
`close` builds one of its own moment, of which only the request is promised).
`CaptureEndsInRow` is what `InterceptedIsLogged` rests on besides fairness, as an
action property (`EndsInRow`): who listens to an open socket goes on listening,
and loses the socket only in a step that leaves a row; no later event replaces
that row; a request passes each of its stages once, and behind the last there is
a response to hand over. `CaptureLogsBehind` says what of `EveryResponseLogged`
(section 9) is true: a response that was handed over is logged if and only if
it was sent behind the interceptor.

Assumptions: the three named ones, that forms and replies are among those
the model knows and that the null value is none of them, nor a response or a row.

## 7. Test hook

`TestRetryHook` is `.harness/hooks/run-tests.sh`: two files that live between
runs, `pc` for the steps of a run (each write of a file is one, `rm -f` of both
files is two), tests that pass or fail freely, runs killed between any two steps.
`lastSaved`, `unrecorded`, `failures` and `lost` are history. One run at a time,
as the hook's caller waits for it.

`hook` has 2 spec files and at most `MaxLost` = 2 runs killed between a failed
test and its count (`run-tests.sh:41-45`), of which one shows the loss and two
that losses add up; kills elsewhere are not bounded. It shows that an episode has
at most ten failed tests over both specs, and one more for each such kill
(`LimitHolds`), and that the spec tested is the one saved last, unless the run of
that save was killed before line 22 (`TestsTheSavedSpec`): after such a kill the
next change of an implementation tests the spec of an earlier save.

`TestRetryHookProofs` proves both and the types for any number of specs and kills
(for the failures: of any two specs). `LimitHolds` needs that the number in the
file bounds the failures of all, the one a run has just met (`Uncounted`) and
the `lost` ones apart (`Counted`, `Bounded`); `TestsTheSavedSpec` needs that a
count, or a run past its first write, implies a spec file, which the order of
`rm -f` ensures (`SpecKnown`). With one spec file, the premise of `HookAttempts`,
the count is exactly its failures but for the lost ones (`Exact`), so that
somebody is asked only after ten of them; with a second the claim is false
(section 9). The assumptions are that the null value is neither a spec nor a
number, and that the bound is a number. A redirection that is cut off between
emptying its file and writing it is left out.

## 8. Pure functions

`Pagination`, `Excel` and `Swagger` are operators without state; `Utilities`
calls each with every argument of a small instance (run `utilities`):

* `Pagination` is the constructor of `common/utils/pagination.ts` and
  `getPagination` as one function: totals 0 to 9, pages -1 to 5, sizes 1 to 4,
  tabs of 1 to 3, each parameter missing, all rows or not. The pages split the
  rows in order without an empty page (`PagesPartitionRows`); a tab is the same
  from each of its pages (`RangeIsOneTab`). Sizes of 0 and below are outside:
  JavaScript answers with Infinity and NaN, and nothing in the class refuses them.
* `Excel` is `createSheet`, `createExcel` and `readExcel`: a row is a function
  on the columns it has. `ExportIsReadBack`: an export is read back value by
  value under its own column when no column the first row lacks is configured
  before one it has; whatever the columns, rows stay apart and in order. Three
  columns, two sheets, lists of up to two rows with any columns and empty
  values are the least in which a hole, a shift and a second sheet occur. What
  `xlsx` makes of a sheet is external: its first row that has cells is the
  heading, also when it was meant as data.
* `Swagger` is `main.ts`'s loops over the registered modules, in the order of
  `AppModule`'s imports: for the entries of the select box and for the pages, each
  with its own conditions, with and without `SWAGGER_TARGET_SELECT`. Of two pages
  at one address the router serves the first (external). `BoxMatchesPages`: no
  page without an entry, no entry without a page, and unless two modules share
  a path (or one has none) an entry opens the page of its own module, that of all
  modules has all that are in the box. Lists of up to three modules are the least
  with a class, a dynamic module and a repeated path. A target with a blank before
  it matches nothing, as in the code.

`UtilitiesProofs` proves `PagesPartitionRows` and `RangeIsOneTab` for every total,
page, size and tab, and `BoxMatchesPages` for all modules and environments. The
arithmetic is in three lemmas: `CeilingBounds` (the floor and the one for a rest
give the least multiple that reaches the number), `CeilingUnique` (there is no
other, so all pages of a tab agree on its end), `Monotone` (multiples of a size
are a size apart, so pages neither overlap nor leave a gap). `ParameterAssumption`
says that sizes are positive and that NULL is no number, `ImportAssumption` that
modules are counted from one.

It also proves `ExportIsReadBack` for every configuration of different columns,
all lists of rows in any number of sheets and all cell texts. `ExportAssumption`
says just that: columns have headings and do not repeat, lists are finite
sequences of rows; `HeadingAssumption` that no two columns share a heading, and
`TextAssumption` that a value that counts as one leaves a text in its cell. The
argument goes from the numbers up:

* `LeastNat` takes a least element from the library's theorem that < on the
  naturals is well-founded; `UpTo` is induction over 0 .. N with a set in the
  place of a predicate, and `Recursion` says that a function given at 0 and from
  each number to the next exists. The last is what lets `PushedIs` and `JoinedIs`
  open the recursive functions of `Heading` and of `FlattenSeq`.
* a heading has the names of the keys that are there and only those (`NamedSeq`),
  and if the holes come last each stands where its key does (`PlainHeading`); so
  there is one cell for it, or none where the row has no value (`ReadKept`).
  Without that condition a value may stand under a neighbour's heading, but it
  is a value of its own row and stands under a column of the first row
  (`BackFits`).
* a sheet gives all its rows back, or all but the first if it has no heading
  (`SheetIs`); sheets that are alike row by row are alike when joined
  (`FlattenAlike`).

## 9. Divergences

Two have a run that reproduces them and an entry under `findings`:

* `rotation_loser`: under REPEATABLE READ the loser of a race is refused
  (`REFRESH_ALREADY_ROTATED`), against `user.service.ts:140-141, 222`. Under READ
  COMMITTED it is not, unless it signed in the winner's second: its row then meets
  the key on `refresh_hash` first, and the client is refused `DUPLICATE_REFRESH`,
  which the same lines deny (`TwinsAreAnswered` below);
* `partitions_timer`: with more than 24.8 days to the first of the month the
  timer fires after 1 ms, again and again (`api-log.partition.service.ts:57`).

The others are stated as properties in their modules; put in place of the
properties of the run named, TLC refutes them. Under a premise that the code
does not ensure some do hold, for every value of the other constants; the
theorem is named behind the property:

| Property | Run's instance | What the code does |
|---|---|---|
| `NoHashCollision` | `rotation_rr` | a refresh in the second of its token signs the same token: the key on `refresh_hash`, called a statistical anomaly at `user.repository.ts:108`, collides every time |
| `TwinsAreAnswered` | `rotation_rc` | two requests that exchange a token in one second sign the same token; the loser is refused `DUPLICATE_REFRESH`, against `user.service.ts:222` |
| `ExpiredByDbClock` | `rotation_rc` | a server whose clock is ahead calls a token expired before the database does, against `user.service.ts:139` |
| `HandlerFound` | `queue_many` | a worker fails jobs of a key that its own process has not dispatched yet (`write-queue.registry.ts:67-70`), against `use-queue.decorator.ts:31` |
| `OneAtATime` (`OneProcessOneAtATime`: one process) | `queue_many` | each process has a worker of its own, so a key is not served serially (`use-queue.decorator.ts:30`) |
| `SkipMeansBusy` | `partitions` | a lock released on another connection stays held and later runs are skipped though nobody is at work (`api-log.partition.service.ts:65`) |
| `EveryResponseLogged` (`CaptureLogsBehind`: sent behind the interceptor) | `capture` | answers of parser, router and guards are not logged (`api-log.interceptor.ts:10`) |
| `FinalTestRuns` | `hook` | after the announcement at `run-tests.sh:53` no final test runs |
| `AttemptsPerSpec` (`HookAttempts`: one spec) | `hook` | one spec's failures use up another's attempts (`README.md:212`) |
| `DefaultSize` | `utilities` | the default is 20, `pagination.dto.ts:50` says 10 |

`RoundTrip` without its condition is refuted in `utilities`: `excel.ts:90` writes
no heading for a configured column that the first row lacks, and a cell for it in
every row, so that later columns stand under their neighbours' headings.

## 10. What is proved, checked, and left

Proved, for every value of the constants and with no further premise but those in
brackets:

* rotation: types, idempotence, the single chain, durability, the refinement of
  `RefreshChain`, that chain's own correctness and so the rotation's; a deleted session
  gets nothing, a retry meets no conflict, a key refuses only
  what is stored already [READ COMMITTED]; every request runs out of steps;
* queue: types, the refinement of `Delivery`, that what is told is true, of
  `Delivery` and of `WriteQueue`, and that handlers are there [finitely many
  processes and calls]; no call waits for nothing [finitely many calls]; the order
  of commits, and one job at a time [one process];
* accounts: types, unique login ids, no deadlock, what is told of creations and
  sign-ins, reasons of refusals, the device, who stays out [finitely many
  processes and first users];
* partitions: types, one maintainer, retention, coverage, adding above;
* capture: types, what a row tells of its response and of its request; who is
  listened to ends in a row; which responses are logged;
* the hook: types, the limit, the spec tested; ten attempts [one spec];
* pure functions: the pages partition the rows, a tab is one from each of its
  pages, an export is read back, an entry of the select box opens its page.

So every safety invariant and both refinements that the runs check are proved.
Only model-checked:

* liveness (`Answered`, `Returned`, `InterceptedIsLogged`): it needs ENABLED and
  reasoning about fairness, which the prover does not do. The part of each that
  is safety is proved (`RequestsRunOut`, `QueueForgetsNone`, `CaptureEndsInRow`):
  what is left to TLC is that a fair step whose guard stays true is taken.

Not modelled:

* push messages: one call of an external service, its result returned, no state;
* configuration of the database and of the environment: options; the pool's
  size and the isolation level are constants of the modules they matter to;
* the rest of `main.ts`: static files, CORS and the flattening of validation
  errors into a message;
* hash, cipher, bcrypt, jwt, file and validation helpers: single library calls;
  the ones the rotation relies on are free constructors there;
* document validators, templates, samples and the other hooks: checks of text
  without state between runs.

### Plan

The measure behind `Returned`: with `QueueForgetsNone` and finitely many crashes
and stalls, the number of steps a queued call has ahead, in the manner of the
rotation's `Ahead`.
