# Verification of the job-allocation system

A chartered-accountancy firm's owner hands out tasks, employees work on them,
submit them, raise issues, and the owner reviews, bills and resolves. This
directory holds TLA+ models of that program, TLC runs that check them on small
instances, and TLAPS proofs for every size.

## 1. Inventory

### Components

| Component | State it keeps | Operations | Talks to |
|---|---|---|---|
| **Task workflow** (`crud.py`, `routes/tasks.py`, `routes/issues.py`) | `tasks`, `task_reviews`, `task_edits`, `issues`, issue and task `notifications` | create, edit, change deadline, submit, mark billed, review (approve / reassign / bill), raise issue, resolve issue, mark notification read | every request runs in one Postgres transaction; two endpoints meet only through row locks and committed rows |
| **Idempotency** (`core/idempotency.py`, `core/db.py:commit_or_recover`) | `idempotency_keys` rows with a request hash and the cached response | look up, replay, reject a reused key, clear an expired one, run the handler, record, recover the winner of a race | wraps the handlers above; its row commits with their writes |
| **Deadline notifications** (`crud.py:912-1036`) | time-based `notifications`, unique per (recipient, type, task) | every `GET /notifications` scans the whole firm | reads tasks and profiles; two polls meet at the partial unique index |
| **Employee accounts** (`crud.py:112-370`, `routes/employees.py`, trigger `handle_new_user`, `routes/auth.py`) | Supabase Auth users, `profiles`, `audit_log` | create (with compensation), (de)activate, reset password, confirm the change | Supabase Admin API over HTTP, before the database commit |
| **Request authentication and tenant context** (`api/deps.py`, `core/db.py`, RLS policies, token hook) | `app.current_tenant` of the transaction, `profiles.is_active`, `must_change_password` | verify token, set tenant, gate by activity, password state and role; re-establish after a commit | every query relies on it |
| **Readiness probe** (`core/health.py`) | cached answer with its time, the probe in flight | `/health/ready` checks share a probe | database connection pool |
| **Job types** (`routes/job_types.py`) | `job_types` | create, list, (de)activate | validated by task creation |
| **Logging, redaction, Sentry, pool monitor** (`core/logging_setup.py`, `redaction.py`, `sentry_config.py`, `db.py:46-89`) | last warning time, scrubbing rules | filter and forward events | all components |
| **Ops scripts** (`backend/ops`) | canary and database-check results | probe production, report | HTTP and SQL |
| **Frontend session** (`frontend/src/stores`, `lib/api-client.ts`, `app/router.tsx`) | Supabase session, profile, query cache per tenant | sign in and out, guard routes, attach tokens and keys | backend API |
| **Desktop shell** (`frontend/src-tauri/src/lib.rs`) | update state, restart claim | check, download, ask, restart | update server, frontend dialog |
| **Load tests, CI, threat model, migrations' DDL** | - | - | not program logic |

### What is hard here

* FastAPI runs the synchronous handlers in a thread pool: any two requests may
  interleave between any two statements. The route reads a row *without* a
  lock (visibility, role, assignee), the `crud` function reads it again *with*
  one. What was decided on the first read may be stale; what was decided on
  the second may not - provided the ORM really looks at the fresh row
  (`populate_existing`).
* Resolving an issue takes two locks (issue, then task); everything else takes
  one. Inserts that reference a locked row wait for it.
* Several endpoints write more than one row (a verdict and a billing task, a
  resolution and a reassignment and three kinds of notification): they must be
  one transaction, and the cached idempotent response must be in it too.
* A retry may arrive while the original is still running, after it, or a day
  later. The Supabase Admin API call is not part of any transaction.
* `app.current_tenant` is transaction-scoped, so every commit and every
  rollback silently drops it.
* An employee is two rows in two systems, an account at Supabase and a profile in
  the database. A call to Supabase may be refused, may time out and be performed
  later, or may be undone for a commit that did go through.
* Every synchronous dependency and handler takes a worker thread of its own turn,
  while the session keeps its connection in between: two pools, threads and
  connections, taken in both orders. Readiness probes borrow from the second one.

### What makes each component correct

* **Task workflow.** A handler's locked decision is still true when it commits;
  one verdict per submission; an issue is resolved once and its raiser told
  once; work in progress always has somebody to do it; submitted and closed
  tasks change only by the owner's word; whoever a task lands on or is taken
  from is told; requests end (no lock cycle); seen from outside every endpoint
  is one atomic step of the documented lifecycle.
* **Idempotency.** One key, one effect; a retry gets the original answer; a key
  reused with another body is refused; a day-old key is a new request.
* **Deadline notifications.** At most one row per (recipient, type, task), and
  every one that stays due is eventually there.
* **Employee accounts.** An account always has a profile; a password that is shown
  is in the audit log; one key resets once; a committed reset is the live password,
  and it ends in a forced change.
* **Tenant context.** No statement of a request runs without its own firm's context,
  and a returned connection carries none to the next request.
* **Readiness probe.** At most one probe in flight whatever hangs; a yes is never
  older than its window; every check is answered.
* **Threads and connections.** Every request ends, though requests may wait for
  each other's threads and connections.
* **Frontend session.** On a shared device nobody sees what was fetched for the user
  before, once somebody has signed out; a page that outlived its session goes away.

The hazards behind these properties are listed line by line in
`PROJECT.json`, with the properties that watch each of them.

## 2. Modules

| Module | What it is |
|---|---|
| `TaskLifecycle` | the abstract promise: a task's life in atomic steps, no requests and no locks |
| `TaskWorkflow` | the task and issue endpoints as concurrent transactions; implements `TaskLifecycle` |
| `OnceOnly` | the abstract promise of an idempotency key: done at most once, in one step, and told truly |
| `Idempotency` | `with_idempotency` and `commit_or_recover` for the keys of one actor; implements `OnceOnly` |
| `RetryingClient` | extends `Idempotency` with the pages that send the keys, their retries and lost answers |
| `TellOnce` | the abstract promise of a notification: true once, told at most once, never withdrawn |
| `DeadlineScan` | the scan that every `GET /notifications` performs, several polls at once; implements `TellOnce` |
| `EmployeeAccounts` | hire, reset, (de)activate and confirm a password, with Supabase outside the transaction |
| `ConnectionPool` | the database connections of one API process, and the tenant each carries |
| `RequestSession` | threads, session and connection of a request, along the path of its endpoint |
| `ReadinessProbe` | `GET /ready`: cache, shared probe, time-out, saturation |
| `ApiServer` | composes the two above on one pool |
| `FrontendSession` | one window: session, pending claims, the page shown, queries and their cache |
| `MCTaskWorkflow`, `MCRetryingClient`, `MCApiServer`, `MCFrontendSession` | instances for TLC: symmetry, numbered requests, two firms |
| `TaskWorkflow_proofs`, `TaskLifecycle_proofs`, `Idempotency_proofs`, `RetryingClient_proofs`, `DeadlineScan_proofs`, `EmployeeAccounts_proofs`, `ApiServer_proofs`, `FrontendSession_proofs` | theorems, checked by TLAPS |

### TaskWorkflow and TaskLifecycle

A *worker* is one HTTP request with its database transaction. Its `pc` follows
the two reads every handler makes: `Begin...` is the route's unlocked read with
the role, activity and assignee gates (`api/deps.py`, `_get_task_or_404`,
`_require_assignee`); `Check...` is `_lock_task` or `_lock_issue` and the state
gate behind it; `Commit...` is the transaction's writes, made visible at once.
`create_task`, `update_task_deadline` and `create_issue` take no lock, so they
go from `Begin` to `Commit`. `Abort` is a failed or closed session. `taskLock`
and `issueLock` are PostgreSQL's row locks; a row that `resolve_issue` needs
second is locked by `LockResolvedTask`. An insert or update that refers to a
locked row waits for it (`TaskFree`). `sent` holds the notifications of the
latest step only, so that the history of notifications does not grow;
`submissions`, `reviews` and `resolutions` count what must agree with the
tables. `req[w].row` is the row as the session's object shows it: `Refreshed`
is `populate_existing`, and the handlers decide on that copy.

`TaskLifecycle` has one atomic step for each change. `Column("status")`,
`Column("assignee")`, `Column("parent")` and the issue columns are the
refinement mapping. Its next-state relation is in two parts: `Documented` is the
lifecycle of DATA_MODEL.md section 3, and `Undocumented` the three steps the code takes
besides, `SubmitBill`, `RaiseLate` and `Reopen` (see Findings). That the endpoints
implement it therefore says that they do nothing else, and not that they keep to
the documents.

`WaitsFor(w, v)` says that a request's next statement needs a row whose lock
another one has. A task is needed (`NeedsTask`) by a handler that locks it, writes it or
inserts a row that refers to it: the foreign key of a notification makes a *clarified*
resolution, which locks no task, wait for the holder of the task's row while it has
the issue locked (crud.py:896). `LockOwned` that a lock belongs to a request under way on that
very row. `Idempotency` and `EmployeeAccounts` have a `WaitsFor` of their own.

### Idempotency and RetryingClient

A worker is a request, a retry another worker with the same key. A `Key` is an
idempotency key together with its endpoint, which is the table's primary key for
one actor. `LookUp` is the query and its four outcomes; `WorkOpen`, `WorkGated`
and `Refuse` are the wrapped handler, reduced to what idempotency can see: an
insert without a lock (create a task, raise an issue), or a locked row that has
to be `ready` (submit, mark billed, review, resolve); either may refuse. `InsertKey`
is the flush at which the unique index is met, `Conflict` its IntegrityError with
the rollback, `RecoverWinner` the refetch. `Lose` is a process or connection
that dies at any point between two statements; `Expire` is the day that passes;
`MakeReady` is another user's request that brings the row back, for instance a
review that sends a submission back.

`OnceOnly` knows requests, keys and answers, and nothing of rows, index entries,
transactions or locks. The mapping takes a stored key row for the operation
performed, with the request that stored it, and `Said` for what a request has been
told: a success names the request whose row was read, an error names none, and the
three kinds of error are one. A commit is the one step that performs; look-ups,
locks, inserts and conflicts are arrivals, answers or stutters.

`RetryingClient` adds one page per key: `Click` sends a request only when no
earlier one is awaited, `Settle` is an answer that arrives, `GiveUp` a fetch that
fails while the request may still be running. `attempt` counts what the user
means to be a new operation.

### DeadlineScan

`poll[p].at` is the `datetime.now` a poll started with, `todo` what it has found
due and not stored. `ReadTasks` and `ReadStored` are the two SELECTs,
`Insert` one row of the flush, `entries` the uncommitted entries of
`ix_notifications_dedup`. A poll that meets another's entry waits; if two wait for
each other PostgreSQL fails one (`Deadlock`), and if the other has committed the
loser is rolled back whole (`Conflict`). `Elsewhere` is the calendar and what the
task endpoints do to the three columns the scan reads. `reached` is history: every
claim that was true at some moment.

`TellOnce` has two steps: the world changes, or a batch of claims is told. The
mapping takes the committed rows for what was told, so that a poll's reads,
inserts, rollbacks and deadlocks are invisible and its commit is one step.

### EmployeeAccounts

A worker is a request of the owner, or one employee's change of password with its
confirmation. An account, and a password, is named by the request that made it, so
"whose password is live" is a comparison. `BeginReset` and `BeginToggle` are the
handlers' reads without a lock; `LockProfile` is the row lock that
`reset_employee_password` takes before it calls Supabase, and keeps until its commit.
`AdminAnswers`, `AdminRefuses` and `AdminTimesOut` are the three ends of an Admin
call; a call that timed out, or whose caller died (`Lose`), is `late` and may still
be performed (`Land`). `CommitRaises` covers a commit that failed and one that
succeeded without the acknowledgement. A hire whose commit raised deletes the
account again (`undoing`); the profile that the trigger inserted has no foreign key
and stays. `LoseKeyRace` is `commit_or_recover` in the slower of two resets with one
key. `ChangePassword` happens at Supabase; `ReadOwnProfile` and the commit are the
confirmation that follows. `Changes` is the ORM: a column whose new value equals
the one the session read is not written. Keys are those of one owner.
`toggled`, `overtaken` and `Request.base` are history, for the properties only.

### ConnectionPool, RequestSession, ReadinessProbe and ApiServer

`RequestSession` reduces an endpoint to the *path* of what it does with its thread
and its connection; the paths of all mutating endpoints and of the reads with a
pattern of their own are definitions named after the code. A dependency is a path
too, and each gives its thread back at its end (`next`, `Hop`) while the session
keeps its connection. (`get_session` has a turn of its own before any connection
is taken; it is part of the first wait.) `Settle` is `commit_or_recover`: the end
of the transaction, then the tenant again. `Stop` leaves a path at any point: a refused
token, a 404, a replay, an exception. `Admit` is anyio's limiter, `GiveUp` the
`pool_timeout` of the connection pool, `Close` the session's exit.

`ReadinessProbe` counts time in ticks. `check()` reads the cache and the future in
flight without an await in between, so what it does up to there is one step;
`Resume` is the poll that finds the future done or the deadline passed. A probe's
thread is a daemon: nothing says it ever returns. `okAge` is history.

`ApiServer` interleaves the two. They share `pool` and nothing else.
`ConnectionsComeBack` is about both: who may hold a connection.

### FrontendSession

`stored` is the Supabase client's session, `shown` the state of `SessionProvider`.
Every event of the client calls `applySessionUpdate` (`Notify`). Without a session it
runs to its end at once, and `queryClient.clear()` takes the entries and the queries in
flight out of the cache. With one it awaits `getClaims`, which reads the client's
session at a moment of its own (`ReadClaims`) and returns later still (`ShowClaims`),
perhaps without claims. Nothing cancels or orders these calls, nor does any compare
the new session's user with the last one's; `replaced` is history. `LoginPage` and
`AuthenticatedLayout` are the router's gates. `Poll` is `useNotifications` in the header,
which stands for every query keyed by `firmId`; `Send` takes the token the client
has by then. A 401 signs out whoever is signed in when it is handled (`SignOut`). A failed
query is sent again while it is in the cache, without the limit of three.
The role chooses among pages and is left out.

## 3. Runs

| Run | Question | Instance | Distinct states |
|---|---|---|---|
| `task_review` | Do create, edit, submit, review and bill hold together under two concurrent requests? | 2 tasks, 2 employees, 1 owner, 2 submissions | about 736,000 up to symmetry |
| `task_issues` | The same for issues, deadlines, deactivation; does every request end? | 1 task, 1 issue, 2 employees | about 223,000 |
| `retrying_client` | One key, one effect? Is what the page says true? | 3 requests, 3 keys, 2 bodies, 2 attempts | about 354,000 up to symmetry |
| `deadline_scan` | Told at most once, never of what never was, and in the end? | 1 task, 1 owner, 2 employees, 2 polls, days 0..3 | about 158,000 |
| `employee_accounts` | What is left of a hire, a reset, an activation, a change of password, whatever fails in between? | 1 employee, 1 address, 2 keys, 3 requests | about 470,000 |
| `api_server` | Does every statement have its tenant, is the probe bounded and honest, does everything end? | 1 thread, 1 connection, 2 requests of 2 firms, 1 check, 2 probe threads, window 2, time-out 1 | about 314,000 |
| `frontend_session` | Is the cache the user's own, does a page of an ended session go away? | 2 users of 2 firms, 2 pending updates, 1 query | about 594,000 |
| `billed_by_former_assignee`, `completed_task_reopened`, `key_expired`, `kept_key`, `one_time_password` | five sentences of the documents and comments that the code does not keep | small | the shortest counterexample |

What the passing runs show:

* **DecisionsHold.** What a locking handler checked is still true when it
  commits. Break `populate_existing` (the mutant decides on the stale copy)
  and it fails.
* **ReviewsMatchSubmissions, IssueResolvedOnce.** No second verdict, no second
  billing task, no second resolution, from any interleaving of two requests.
* **HandedOutHasAssignee.** No path through edits, reviews, billing and issue
  resolutions leaves a task in progress with nobody, or bills an ordinary task.
* **SettledOnlyByOwner, HandoverNotified.** Action properties: a submitted or
  closed task changes by a review or a resolution only; whoever gets or loses a
  task is told in the same transaction.
* **ImplementsLifecycle.** The interleaved endpoints implement `TaskLifecycle`: each
  commit is one step of `Documented` or one of the three that the documents do not have.
* **NoStandstill.** No group of requests waits for itself: `resolve_issue`, which waits
  for the task while it has the issue locked, whether it locks the task next or only
  tells its people, cannot close a circle. The mutant forgets to release a lock when
  the gate behind it refuses.
* **RequestsEnd.** With fair row locks every request ends.
* **ImplementsOnceOnly.** What the requests with one key see is an operation done in
  one step by at most one of them; whoever is told of a failure has done nothing and
  will not, so a user may try again with a new key.
* **ImplementsTellOnce.** The racing polls tell in whole batches, never again and
  never with a later withdrawal.
* **EffectsRecorded, AnswersAreTrue, OncePerRound, HeldWhileOpen.** The handler's
  writes and the key are one transaction under crashes and races; a success
  always names committed work of its key; a locking endpoint acts once each time
  its row becomes ready, whatever keys ask; no lock outlives its request.
* **ToldMeansDone.** When a page reports success, a request of that very attempt
  did the work. True for pages and dialogs whose key goes with them; the finding
  below is the one list that keeps its key.
* **NotifiedOnce, NeverEarly, EntriesAreOpen, EveryDueNotified.** The deadline
  notifications, with stale clocks and stale task rows.
* **ShownIsAudited, OneResetPerKey.** A password that somebody was shown belongs to
  an audited hire or reset; two resets with one key leave one audit row, whether the
  second came later or at the same time.
* **HiresAreWhole.** A successful answer always means an account, its profile and an audit
  row; a hire that Supabase refused leaves neither account nor profile; a profile without
  an account is left only by a hire that failed or whose answer was lost. No account is
  without a profile, because the trigger makes the profile in the transaction that makes
  the account: the comments of `create_employee` say otherwise (section 5). The
  compensation may undo a hire whose commit *did* go through; the answer is then a failure.
* **CommittedResetIsLive.** At its commit a reset's password is the live one: the lock
  from before the Admin call to the commit does that. Only a call that came late
  to Supabase, or the undoing of the hire, is let off.
* **OneTimeUnlessOvertaken.** The live password of a committed hire or reset is flagged for
  change, except where finding 5 applies: a confirmation that cleared the flag after
  that very reset committed, and that confirms a change made before it. The
  history variable `overtaken` collects the resets to which this has happened; an
  earlier, refused or lost confirmation puts none there.
* **UncontestedChangeHolds.** An activation change that overlaps no other is in force
  when it commits. Overlapping ones may lose an update silently.
* **StatementsSeeTenant.** On every path, after every commit and rollback, a statement
  runs on a connection that carries its own firm's tenant, and a free connection carries none.
* **OneProbeInFlight, ReadyIsFresh.** Checks that gave up leave a hanging probe to the
  next ones instead of starting another; a yes rests on a probe that succeeded within
  the window. A slow check may still replace a newer yes by its own no; the code
  promises nothing about a no, and no property forbids it.
* **EveryRequestAnswered.** A request that waits for a connection keeps its thread,
  and the request that keeps the connection waits for that thread. Only `pool_timeout`
  breaks the cycle, with a 500 after 30 seconds: without `GiveUp` the property
  fails. That cycle, with 40 threads over 15 connections, is one explanation of the
  "QueuePool limit of size 5 overflow 10 reached" that OBSERVABILITY.md:190 quotes. A
  request that has committed may meet it too, when `commit_or_recover` sets the tenant again.
* **CacheIsOwnUnlessReplaced.** The query cache holds only answers to whoever is signed in
  now. It takes both controls: the firm in the key does not separate two users of one
  firm, and without clearing the queries in flight an answer to the first user would be
  stored after the second signed in. The exception is a switch of users without a sign-out.
  The login page stays until a new session's claims have come, and a second login can be
  submitted on it; its SIGNED_IN clears nothing (section 5). `replaced` has the users whose
  sessions ended so, until the next sign-out, and only their answers may be left.
* **StalePageRecovers.** Claims that come after a sign-out show the pages of the session
  that ended. The header's next query has no token, its 401 signs out once more,
  and that clears the page. This is the only thing that does: on the page for a new
  password, and without a firm, no query runs.

Every property has a mutant of the modelled code in `PROJECT.json` that breaks
it; the mutants are the definitions whose names start with `Bad`.

### Bounds

* Two requests at once in `TaskWorkflow`: every race in the code is between a
  request and the rows another one changes; the proofs cover any number.
* `MaxSubmissions` (2, or 1 with issues): a second round is needed to see a
  verdict of an earlier round reused; a third repeats it.
* `RoomForTask`, `RoomForIssue`: a request that inserts a row begins only while
  an id is left for it, so that running out of model ids is not a behaviour.
* `MaxRounds` and `MaxAttempts` are 2: an operation, and the same operation after
  the row came back. Three requests are the original, its retry and a rival tab.
* A key expires only while no request with it is in flight: no request takes a day.
* `MaxNow` is 3 with a deadline on day 2: every window (three days, one day,
  exactly now, overdue) opens on a day of the calendar.
* The victim of a deadlock polls again when the other poll has ended: seconds
  against milliseconds. Without this bound two polls could deadlock for ever, a
  coincidence the fairness below does not exclude.
* Three requests on one employee are a change, a rival and an answer that comes
  late; two keys are the same one again and another.
* One thread and one connection are where waiting happens, and two requests suffice
  for a cycle. The safety part was also explored with two connections (1.2 million
  states) and with two checks (2.2 million).
* `Ttl` 2 and `Timeout` 1 in ticks: a cache can be fresh, old and expired, and a probe
  may outlast both. Two probe threads are what it takes to have one too many.
* Two pending updates are one that is late and one that is newer. One query suffices to
  outlive a session; the safety part was also explored with two (2.5 million states).

Runs are without deadlock checking because the bounds and the finished requests
make terminal states: all ids used, all requests answered, the last day reached.
Real blocking is looked for with `RequestsEnd`, `EveryDueNotified` and
`EveryRequestAnswered` instead.

### Fairness

`task_issues` assumes strong fairness of each worker's `Step`: PostgreSQL wakes
the waiters of a row lock in turn, so a request whose next statement is
possible again and again runs it. Requests are not assumed to arrive.
`deadline_scan` assumes weak fairness of `StartPoll` (the frontend polls every 45
seconds while somebody is signed in) and of each poll's next statement (the
server's threads run on).
`employee_accounts` assumes weak fairness of each request's steps: threads run on, and
httpx ends every wait for Supabase. `api_server` assumes weak fairness of a request
that has a thread, strong fairness of `Admit` (the limiter's queue is first in,
first out), weak fairness of `Resume` (the event loop runs) and of `Tick`, and nothing
of the probe's threads. `frontend_session` assumes weak fairness of the first
notification, of pending updates and of each query's next step (timers fire and awaits
return), and strong fairness of the refusal of a query without a token: of requests sent
again and again some reach the API, which answers 401 to a request without credentials.
No fairness is assumed of the calendar, the users, or in `retrying_client` of anything.

## 4. Proofs

All for any number of tasks, issues, people, requests, keys, bodies, polls,
connections, threads, firms, probes, checks, users and queries.
The assumptions are the named `ASSUME`s of the modules: `None` differs from every
id, employees are not owners, deadlines and bounds are numbers, requests are a
finite set (counted by `OncePerRound`), ids of different kinds differ, and thread
and time limits are positive. TLC evaluates them in the runs.

* `TaskWorkflow_proofs`: `Spec => []TypeOK`, `[]DecisionsHold`,
  `[]ReviewsMatchSubmissions`, `[]IssueResolvedOnce`, `[]HandedOutHasAssignee`.
  None of these is inductive alone: that a decision is still true at commit needs
  that the request holds the lock of the row it decided on and that its copy is
  that row (`LocksHeld`), and that its arguments fit its endpoint (`RequestOK`);
  an issue's resolution needs that the issue's task was handed out (`IssuesOK`).
  `IInv` is their conjunction. The argument: a request changes a task only while
  it is the lock's holder, or writes only the deadline (`OwnTask`,
  `OthersElsewhere`), so nobody else's checked row moves. One lemma per commit.
  Under the same invariant each commit is `Lawful`: it settles and hands over as the
  action properties `SettledOnlyByOwner` and `HandoverNotified` say, because the gate
  it passed is still true of the row it writes.
* `TaskWorkflow_proofs`, continued: the state machine that the code has
  (`Spec => [][StatusMoves]_vars`), arrow by arrow and with who takes it. `DocumentedMove`
  are the arrows of the documents; the others are a billing task's way through
  submission and review (`BillReviewMove`) and `ReopenMove`. It carries the
  causes of findings 1 and 2: `ReopenedByResolveOnly` proves that `ClosedStaysClosed`
  holds wherever `resolve_reassigned` is not among the endpoints, and
  `FinishedByOthersOnlyBilled` that `OnlyAssigneeFinishes` holds wherever
  `mark_task_billed` is not. Both hypotheses are on the constant `Endpoint` and are about
  a deployment without that endpoint; with it the runs show the property violated.
* `TaskWorkflow_proofs`, locks: `Spec => []LockOwned`, which is inductive only beside
  `IInv`: that the holder of a lock is past its check needs that a check locks its own
  row. With it, `Spec => []NoStandstill` for a group of requests of any size: by
  `ChainEnds` whoever waits for a task waits for the holder of a task, who waits for nobody
  (`TaskHolderRuns`), and whoever waits for an issue holds nothing and waits for the
  issue's holder, who waits at worst for a task. So a chain of waits has two links and
  no circle. This is the safety half of `RequestsEnd`.
* `TaskLifecycle_proofs`: `Spec => ImplementsLifecycle`, the refinement, and that the
  invariants of the abstract specification hold of the endpoints
  (`Spec => []Lifecycle!LifecycleInv`). Each commit is the lifecycle step of its
  name because its gate is still true of the row (`IInv`); a new deadline, a lock or
  a refusal is a stutter. `IInv` does not say that an id without a row bills nothing
  (`Unbilled`), nor that completed work was reviewed (`Closed`); lifecycle steps keep both.
* `Idempotency_proofs`: `Spec => []EffectsRecorded`, `[]AnswersAreTrue`,
  `[]OncePerRound`, `[]HeldWhileOpen`, `[]TypeOK`. `RequestFits` says what a
  request holds and has done at each step; `RowsOwned` that a stored row belongs
  to committed work of its key. A key's index entry keeps the row slot empty until
  its holder commits, so a commit never overwrites a row; a conflict's winner
  can therefore always be found, and `RecoverWinner` never raises.
  The count of `OncePerRound` uses the cardinality lemmas of the library.
  `Spec => ImplementsOnceOnly` is the refinement: one lemma per kind of step
  (`TellMaps`, `ArrivalMaps`, `CommitMaps`, ...). A commit performs an operation nobody
  has performed because the entry kept its slot empty; an answer is true because
  `AnswersAreTrue` names the row it was read from; and an answered request never acts
  again because its `pc` is `done`. `Spec => []NoStandstill` goes down the order in
  which every handler takes things: the subject's row, then the key's entry.
* `RetryingClient_proofs`: `ClientSpec => Spec`, since a click, an answer and a request
  given up are steps of the service or leave it alone; so everything above holds under
  the pages, `ClientSpec => ImplementsOnceOnly` included. `ClientSpec => []ClientTypeOK`,
  and for every key that is not kept that a
  success told is the work of its attempt: such a key knows one attempt only
  (`OneAttempt`), a page awaits a request with its key (`AwaitsOwn`), and
  `AnswersAreTrue` names that request's work. Hence `[]ToldMeansDone` if `Kept = {}`;
  with a kept key it is false (finding 4).
* `DeadlineScan_proofs`: `Spec => []NotifiedOnce`, `[]NeverEarly`,
  `[]EntriesAreOpen`, `[]TypeOK`. `PollsFit` adds that what an open batch holds was
  true when it was read. `DueIsTrue` is the heart: what is due by an *earlier*
  clock is true by today's, because time only makes a deadline nearer.
  `Spec => ImplementsTellOnce` follows step by step: a committed batch is the notes whose
  entries the poll holds, each was true (`PollsFit`) and is not stored (`EntriesAreOpen`).
* `EmployeeAccounts_proofs`: `Spec => []TypeOK`, `[]ShownIsAudited`,
  `[]OneResetPerKey`, `[]HiresAreWhole`, `[]OneTimeUnlessOvertaken`, and the action
  properties `CommittedResetIsLive` and `UncontestedChangeHolds`. The invariant has
  named parts. A finished request never changes and a profile never disappears, so
  what they witness stays witnessed. `LocksFit`: a reset between its lock and its
  commit is the profile's holder, hence no other reset is there. `LateFits`: a call
  under way without a caller belongs to a request that ended in failure. With both,
  `ResetLive`: between the Admin call and the commit nobody but a stray call sets the
  password. `BasesFit` ties what a toggle saw to the latest toggle it knows of.
  `Spec => []NoStandstill`: the profile's lock is held across the call to Supabase, but
  its holder waits for no row, so nobody waits for a waiter.
* `ApiServer_proofs`: `Spec => []TypeOK`, `[]StatementsSeeTenant`,
  `[]OneProbeInFlight`, and the action property `ReadyIsFresh`. A path is well formed
  if a statement never follows an end without a tenant in between; that every
  handler's path is, once its dependencies have set the tenant, is `HandlersFit`, and
  well-formedness is kept by taking the tail. For the probe: the one that runs is the one
  `_inflight` names, and a cached yes is at least as young as what is left of
  its window says. `Spec => []ConnectionsComeBack`: what a step does to the pool it does for
  one borrower (`UsesPool`), who is still at work afterwards or has returned what it had
  (`Stays`); a probe's thread that is started again holds nothing, because it was done.
* `FrontendSession_proofs`: `Spec => []TypeOK` and `[]CacheIsOwnUnlessReplaced`.
  `QueriesFit`: a query that is still in the cache was sent for the user signed in now,
  or for one whose session was replaced since. A session ends in `SIGNED_OUT`, which
  takes all queries out of the cache, or in another user's login, which `replaced` notes.

Three of these properties, `NoStandstill` of `Idempotency` and of `EmployeeAccounts` and
`ConnectionsComeBack`, and the invariant `LockOwned`, are theorems without a run in
`PROJECT.json`; TLC found no violation of them on the instances of section 3 either.

Only model-checked: liveness (`RequestsEnd` in two modules, `EveryDueNotified`,
`EveryRequestAnswered`, `StalePageRecovers`), which is outside the prover's reach together
with ENABLED. Induction over data, and recursive operators,
are out of the prover's reach as well; no module needs either. The properties of the
five runs that expect a violation are false of the code and proved of nothing, except
with the endpoint taken away as above.

## 5. Findings

1. `billed_by_former_assignee`: `mark_task_billed` repeats the state gate under the
   row lock but not the assignee gate. An edit that commits in between leaves the
   billing to the former assignee.
2. `completed_task_reopened`: resolving an old issue as `reassigned` puts a task
   back to `in_progress` that was completed meanwhile.
3. `key_expired`: an expired key's row has to be deleted, and the application's
   database role may not delete. The reuse ends in a 500.
4. `kept_key`: a row of "My tasks" keeps its key across a success; when the task
   comes back, "Mark completed" is a replay that changes nothing.
5. `one_time_password`: an employee's confirmation that is under way when a reset
   commits clears the flag of the reset, and the password that the owner has just
   been shown is a permanent one.

More places where a document or comment and the code part; the models follow the code.
ARCHITECTURE.md:249-257 says that no employee feature deletes an account; the
compensation of a hire does. API_SPEC.md:54 promises 409 to a retry of a reset with
a used key; of two that overlap the second is answered 200, with the password that is live.
DATA_MODEL.md:240-242, PRD.md:81 and :124 give billing tasks no submitted state and no
review; `submit_task` does not look at the type (crud.py:649), so a billing task
can be submitted, and approved, sent back or charged again like any other (`SubmitBill`,
`BillReviewMove`). The documents have issues raised on work in hand and only a review take
a submitted task back; `create_issue` locks nothing, so the task may be submitted or
closed when the issue appears (`RaiseLate`), and `Reopen` is finding 2.
The comments in `create_employee` (crud.py:220-221, :230-231, repeated in
test_create_employee_cleanup.py:4) have the compensation, and its failure, be about an
account at Supabase without a local profile. The trigger `handle_new_user`
(cb67cdb7538a:78-102, 8d533906f6cd:39-62) inserts the profile with the account, whatever
becomes of the API's own commit, and no foreign key takes it away again: what a failed
compensation leaves is an employee, with profile, whose password nobody was shown; what a
successful one leaves is a profile without an account (`HiresAreWhole`).
The header of idempotency.py (:3-4) has 400 for a key reused with another body; of two
concurrent requests `RecoverWinner` gives the second the first one's response.
session-store.tsx:64-65 says that a logout can never leave the previous firm's id on later
error reports, and api-client.ts:66-71 that a sign-out leads to /login. An update that
awaits its claims meanwhile (`ReadClaims`, `ShowClaims`) undoes both: with claims it
names the firm again and shows its pages until the next query (`StalePageRecovers`),
without them it shows a signed-in shell, without firm or queries, until Log out.
The same file says (:53-57) that nothing survives a session boundary at all, and (:42-45)
that a second user of the device does not see the first one's data. `clear()` runs only
for a missing session. When a second login is submitted before the claims of the first have
come, and the first user's pages fetch something before the second's SIGNED_IN, that stays
in the cache, and is shown to the second user if both are of one firm
(`CacheIsOwnUnlessReplaced`).

## 6. Plan

In this order:

1. The gates of a request (`is_active`, `must_change_password`, role) joined with
   the accounts of `EmployeeAccounts`.
2. An abstract session for `FrontendSession`: the cache as a function of who has signed in
   since the last sign-out.

## 7. Not modelled, and why

* Reads (lists, searches, pagination, dashboards) and presentation: they change
  nothing the models keep.
* Wording, change-log contents, titles and descriptions: no property tells them
  apart.
* Logging, redaction and error reports: text filters.
* Load tests, CI, the operations scripts and the threat model: not part of the
  running program.
* Job types as data: names and an active flag, written by single statements; their
  endpoints' transactions are paths of `RequestSession`.
* The desktop shell: a flag that an update is staged and a one-shot restart claim (an
  atomic swap), around calls to the operating system; a unit test covers the claim.
* The frontend's routes by role and its dialogs: they choose what is drawn; every right is
  checked again by the API.
* Row-level security and token verification are the database's and the auth
  library's. The models have what a statement needs of the first
  (`StatementsSeeTenant`) and that the second may refuse (`Stop`).
