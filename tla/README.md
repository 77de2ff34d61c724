# Blogify: verification of the generation workflow

Blogify turns a topic into a blog post with a human in the loop: an outline is
generated and reviewed, a draft is researched, written and edited, and the draft
is approved, rejected or revised. The FastAPI backend (`src/backend/src`) commits
every request to PostgreSQL, hands jobs to workers over Redis, and recovers from
crashes with an outbox, leases and a reaper. This directory holds TLA+ models of
that machinery, TLC runs over small instances, and TLAPS proofs.

    tlc -workers 4 -config delivery_slow.cfg MCWorkflowDelivery     # one run
    tlapm WorkflowDelivery_proofs.tla                               # the proofs

## 1. The system

| Component | State | Operations | Talks to |
|---|---|---|---|
| Session status machine `models/orm_models.py` | statuses, phases, transition table | `validate_transition` | every service |
| Workflow outbox `workflow_outbox_repository.py` | `workflow_outbox_events` rows: status, attempts, `locked_by`, `locked_until`, `available_at`, `dispatched_at` | enqueue, get_dispatchable, mark_dispatched, claim, heartbeat, complete, retry, fail, fail_exhausted | API, relay, workers (PostgreSQL) |
| Session leases `session_lease_repository.py` | `session_leases` rows: owner, version, expiry | acquire, heartbeat, release, assert_current | workers |
| Review and generation service `blog_service.py` | `blog_sessions`, `blog_versions`, review events | create, outline review, final review, commit_and_dispatch | outbox, budget, quota, Redis |
| Relay and reaper `workers/reaper.py` | none of its own | dispatch outbox events, bury exhausted claims, clean the processing set | outbox, Redis |
| Task queue `core/task_queue.py` | Redis list, processing set, notification channel | enqueue, dequeue, acknowledge, dequeue_or_wait | API, relay, workers |
| Worker `blog_worker.py`, attempt processor `job_attempt_processor.py` | coroutines, one owner id each; a heartbeat task each | claim, hydrate, acquire, execute, persist, retry, release | all of the above |
| Result persister `workflow_result_persister.py` | none of its own | persist_success, persist_failure | sessions, versions, outbox, leases, budget |
| Budget `budget_service.py`, account, reservation and ledger repositories | `budget_accounts`, `session_reservations`, `budget_ledger` | reserve, commit stage, release excess, release all | API (reserve), persister (settle) |
| Admission `blog_service.create_generation`, `blog_quota_repository.py` | `user_blog_quotas`, Redis lock `budget_lock:<user>` | active-session limit, daily quota, idempotency key | API |
| Agent workflow `workflows/`, `agents/`, `llm/`, `tools/` | the session state of one run, seeded from the snapshot of a version | intent, outline, research, writer and editor cycle | worker (one attempt) |
| Normalization `normalizer.py`, guards, sanitizing | none between calls | parse outlines, research and reviews of the models | agent workflow |
| Authentication `api/auth.py`, rate limiter `rate_limiter.py` and its middleware | cookies and tokens; a Redis sorted set per caller and one for the service | dispatch, check | every route |
| Registration and login `auth_service.py`, `auth_user_repository.py`, `core/database.py` | `auth_users`, the grant in `budget_accounts` | register, login | every account; PostgreSQL |
| HTTP, read, export and catalog services | projections | routes | all services |
| Frontend `src/frontend` | page, idempotency key of the form, polling timer, loaded draft | requests, redirects | HTTP API |

What is hard in this system:

* **At-least-once everything.** An event is published twice (the API's fast path
  and the relay), republished after 300 s, lost by Redis, claimed by attempts
  that die, and claimed again. Its effect must happen once.
* **Two clocks.** The claim on the event (300 s, renewed to 300 s) and the lease
  on the session (300 s, renewed to 90 s) are separate rows that expire
  separately; heartbeats renew both, every 30 s, in a transaction that may fail.
* **Zombies.** An attempt that stalls runs on after it has been replaced, and
  after the user has reviewed what its successor produced.
* **Partial failure.** A crash can fall between any two transactions: commit and
  enqueue, enqueue and marker, claim and lease, lease and result, result and
  release; recording a failure can itself fail.
* **Reads before locks.** `_acquire_lease` reads the session before it locks it;
  heartbeats and retries read the event before they write it; budget accounts are
  read and written without a lock; active sessions are counted before the upsert
  that serialises a user's requests.
* **Lock order.** Each attempt has two transactions at a time, its own and its
  heartbeat's, on the same rows.

* **Sleeping on work.** Workers sleep until Redis publishes; a notification that
  finds no listener, a full list or a lost answer must not leave work lying.
* **Documents that travel.** The approved outline and the feedback are copied to
  the version, its snapshot, the job and the session state of a run; a retry or a
  revision must not mix the documents of two runs.
* **Answers out of order.** Polls overlap, answers reach pages that are gone, and
  an answer that is lost leaves the user to click again.
* **One address, two spellings.** Accounts are looked up without regard to case, and
  their unique index has regard to it; the answer to a registration leaves before
  its transaction commits.
* **Borrowed clocks.** The limiter's script knows the time only from its caller's
  stamp, taken before the script runs and sent again with it.

The hazards, each at its line and with the properties that would notice it going
wrong, are listed in `PROJECT.json`.

## 2. Modules

| Module | What it is |
|---|---|
| `SessionStatus` | statuses, phases, transition table of `orm_models.py` |
| `SessionLifecycle` | abstract specification: what the backend promises about a session |
| `WorkflowDelivery` | the outbox protocol: API, relay, reaper, Redis, workers, leases |
| `AttemptRows` | abstract specification: the rows of one job, changed by atomic transactions |
| `RowLocks` | the same transactions lock by lock, with heartbeats, aborts and the reaper |
| `BudgetAccounts` | one user's admission and accounting, statement by statement |
| `WorkQueue` | the Redis list, its notifications, the workers' loops and tasks, the reaper's cleaning |
| `BlogPipeline` | the agents' graphs, what a run reads and stores, and the versions of a session |
| `OutlineParser` | the Markdown outline parser of `normalizer.py` |
| `ClientPages` | one browser tab, its pages and requests, and the API behind them |
| `ApiGate` | the authentication and rate-limit middlewares, with Redis and its clock |
| `Registration` | registering and logging in: requests as transactions on accounts |
| `..._proofs` | theorems about a module, for TLAPS |
| `MC...` | model values, symmetry and line sets for TLC |

`WorkflowDelivery` takes a transaction as one step (or as the two of a read and a
write, where that matters). `RowLocks` opens the transactions that contend for one
job and shows that this is sound, except for deadlocks; `BudgetAccounts` opens the
ones that contend for the account of a user; `WorkQueue` opens the delivery that
`WorkflowDelivery` takes for granted to a fair queue; `BlogPipeline` opens the
attempt that `WorkflowDelivery` finishes in one step; `OutlineParser` opens one
node of its graph; `ClientPages` and `ApiGate` are what lies in front of the API,
with the backend's steps on a session as its environment; `Registration` makes the
accounts whose tokens `ApiGate` knows and whose grant `BudgetAccounts` starts with.
Each models a part the others abstract, so they are checked apart: `reserved` in `WorkflowDelivery` is
`hold` in `BudgetAccounts`, `queue` there is `ready` and `task` in `WorkQueue`, and
`AttemptRows` is the projection of `WorkflowDelivery` to one event, one session
and its leases.

### SessionLifecycle

A session has a status, a phase and the set of jobs it owes. It is submitted,
its one job is started, given back, finished or failed, and the user reviews,
revises, approves or rejects. There is no event, lease, queue or worker. The
module fixes what must be true of any implementation: a session in work owes
exactly one job, of the phase it is in; a finished job moves the session on once;
nothing moves a session that has ended.

### WorkflowDelivery

| Variable | Code |
|---|---|
| `session[s]` | the `blog_sessions` row: status and `job_phase`; with it the status and number (`rev`) of its active `blog_versions` row, and whether its reservation is unreleased |
| `outbox[e]` | the `workflow_outbox_events` row; `expired`, `backoff` and `dispatch` say on which side of now `locked_until`, `available_at` and `dispatched_at` lie |
| `lease[s]` | the one lease of the session that has not ended; `live`: not expired; `renewed`: a heartbeat has replaced its first expiry |
| `queue[e]` | deliveries of the event in Redis, or taken and waiting for the worker's semaphore |
| `attempt[a]` | the coroutine `WorkflowAttemptProcessor._process` that runs under owner id `a`: where it stands, its event, and what it read of the session (`seen`) |
| `publish[p]` | the API's `commit_and_dispatch` and the relay's batch, between commit, enqueue and marker |

One action is one committed transaction, or one step between two of them. Reads
and writes of one transaction are separate actions where the code reads without a
lock and another transaction can come in between: `ReadSession` and
`AcquireLease` are, because `_acquire_lease` reads the session with `get_by_id`
and the locked read that follows returns the same object with the old values; the
ORM then writes only the columns whose value it changes (`AcquireLease`).

Time is not counted. Timestamps are on one side of now or the other, and the
actions `ExpireClaim`, `ExpireLease`, `BackoffElapses` and `DispatchGoesStale`
move them in the orders the code's constants allow: a claim and a lease taken
together run equally long and the claim was first; after a heartbeat the lease
(90 s) ends well before the claim (300 s). While an attempt is alive and its
heartbeats commit, neither expires (`Lapses`).

What can go wrong is a constant, `Faults`, so that each run says what it assumes:

| Fault | Meaning |
|---|---|
| `crash` | a worker, API or relay process dies between two of its steps |
| `loss` | Redis loses a delivery |
| `stall` | an attempt runs on while its heartbeats do not commit: it becomes a zombie |
| `slowStart` | an attempt is held up for the whole claim between claim and lease |
| `dbError` | the transaction that records or retries a failed attempt fails itself |
| `skew` | a worker cannot decode the payload that another release wrote |

### AttemptRows and RowLocks

`AttemptRows` has the committed rows of one job: `event`, `session` (`REVIEW` stands
for both reviews and for `AGENT_REJECTED`: the job is done) and for each owner its
unended `lease`. Its actions are whole transactions, guarded by what their attempt
must own when they commit.

| Variable of `RowLocks` | Code |
|---|---|
| `lock[r]` | the transaction that holds the row lock of the event, the session, its version, or a lease (named by its owner) |
| `tx[t]` | an open transaction: what it is for, and the rows its statements have still to lock. An attempt runs one (`Main`) beside the one of its heartbeat task (`Pulse`); the reaper has one |
| `attempt[o]` | between which transactions the attempt is, and the session status that `_acquire_lease` read before it locked the row |

A step locks one row and checks what it finds there (`LockNext`, `Passes`), or
commits. `FOR UPDATE SKIP LOCKED` (claim, reaper) takes the row or passes by;
`UPDATE` and `FOR UPDATE` wait. `_owned_event` and `_get_active_lease` read without
a lock, so that the row they lead to may have changed when it is written
(`BeatEvent`, `StartHandBack`, `StartBury`). When transactions wait in a cycle,
PostgreSQL aborts any one of them, and the handler of that attempt goes on
(`BreakDeadlock`). Reviews, and the marker `mark_dispatched`, touch no row that
these transactions check.

### BudgetAccounts

| Variable | Code |
|---|---|
| `session[s]` | status, phase and idempotency key of the session, the day whose slot it used, its `session_reservations` row (`hold`) and the sum of its COMMIT entries in `budget_ledger` (`charged`) |
| `account` | `budget_accounts`: balance, reserved, spent; the grant of `AuthService.register` is its initial value |
| `quota` | `user_blog_quotas`: slots used, and the date they count for |
| `lock` | the Redis key `budget_lock:<user>` with the request that set it; `LockExpires` is its 10 s expiry |
| `today` | the UTC date |
| `req[r]` | `create_generation` of a request between its statements, and the account as it read it (`seen`) |
| `settle[s]` | the transaction of `persist_success` or `persist_failure` between reading and committing the account |
| `late`, `crossed` | history: a slot has been booked for a day before the quota row's; a settlement has overlapped another update of the account |

At READ COMMITTED a transaction reads committed rows and locks a row when it writes
it. `consume_daily_slot` is an upsert, so it locks the quota row from there to the
commit (`QuotaUnlocked`); the account is selected without a lock, changed in Python
and written back (`AccountUnlocked`, `Stored`: the ORM writes the columns that
changed, with the values computed from what it read). Midnight falls anywhere,
between a request's clock and its upsert too.

The code withstands all of this but two races, and no guard or fault leaves them
out: the histories record that one has happened, and three properties say what
holds until then.

### WorkQueue

| Variable | Code |
|---|---|
| `event[e]` | status of the outbox row with `available_at`, `locked_until` and `dispatched_at` on one side of now |
| `publish[p][e]` | `commit_and_dispatch` and the relay between scan, push, notification and marker |
| `ready`, `processing` | `blogify:tasks` and `blogify:processing` |
| `worker[w]` | `BlogWorker.run` in `dequeue_or_wait`: outside, checking the list, or listening, and whether a notification is unread |
| `task` | the `_process_job` tasks, waiting for the semaphore or running |
| `returning` | requeued deliveries whose notification and removal are still to come |

A push and its notification are two steps, and so are subscribing and checking. A
fault (up to `FaultBound` per behaviour) loses a notification for some listeners,
an answer of the pop script, the rest of a publication, a connection, or a worker.

### BlogPipeline

| Variable | Code |
|---|---|
| `session`, `versions`, `job` | `blog_sessions` and `blog_versions` with their documents and snapshots, and the phase of the event |
| `run` | the attempt: its place in the graph, the hydrated job, and the session state |
| `booked` | COMPLETED rows of `agent_runs` |
| `kept`, `agreed`, `asked` | history: runs that were stored, the approved outline, the last feedback |

A document is a token that says which run, agent and iteration made it. An action
is a node of the graph with its normalizer, or a transaction. A run can fail, be
retried or lost at every node; what models and searches return is a free choice.

### OutlineParser

A line is what the patterns of `normalizer.py` make of it (form, label, heading
level, number), and what is read from it is its number. Each action reads one line
as the branch of `_parse_outline_markdown` that takes it does; `Finish` is
`normalize_outline`. The forms are the branches in their order. `_BULLET`
(`normalizer.py:338`) asks for no space after the star, so a line that is bold as a
whole ("**Part one**") is a bullet, and the branch for such lines
(`normalizer.py:531-536`) is never reached: it has no action.

The module also states what a document says as a whole, without a pass over it,
and the run compares the two. In that reading a goal is a line labelled as one, or
the first bullet that has no label. Where the parser takes a bullet with another
label instead, the properties name it a guess (`Guess`).

### ClientPages

| Variable | Code |
|---|---|
| `sessions` | the user's sessions as the API shows them |
| `tab` | the page that is mounted, its session, its polling timer, the draft it has loaded, the form and its key |
| `net` | requests and answers under way; `mounted`: the page that sent it is still there |
| `drawn` | history: for which form a key was drawn |
| `ended` | history: the keys that the API has told the tab to belong to an ended session |

A request is served and its answer received in any order, or lost; a page that
is left keeps its requests. React's `isActive` flags, refs and effects are guards.

### ApiGate

| Variable | Code |
|---|---|
| `req[r]` | a request: whom it was authenticated as, the gate it is at, its stamps and when it got its slots |
| `bucket[b]`, `expires[b]` | the sorted set of a caller or of the service, and the expiry of its key |
| `clock` | seconds, as `int(timestamp())` counts them |
| `told[b]` | history: the reset that the last refusal named |

A script runs up to `MaxDelay` after its stamp; its answer may be lost, and the
client sends it again as it was.

### Registration

| Variable | Code |
|---|---|
| `account` | `auth_users` by id, with the entries of `budget_accounts` and `budget_ledger` for its grant, whether its transaction is open, committed or rolled back, and by which request |
| `caller` | the requests: at which statement they are, whom the cookie (`token`) and the body (`user`) name, the answer; `knew`, history: the accounts committed at the last lookup |
| `deaths` | processes and connections that died |

A request is one transaction at READ COMMITTED that sees what is committed and what
it wrote. It looks an address up without its case (`SameMailbox`); the insert waits
for a transaction that inserted the same spelling and fails if that commits
(`SameAddress`). `get_db_session` commits when the answer is already on its way
(`Commit` after `answer = "ok"`), and an exception rolls the transaction back
(`Raise`).

## 3. Runs

| Run | Question | Faults | Answer |
|---|---|---|---|
| `delivery_zombie` | Over an outline, a draft and a revision: can a zombie persist a stale result, or touch a session that has ended? Is work ever lost or left over? Is the transition table kept although most writers bypass `validate_transition`? Do versions follow sessions? Are `SessionLifecycle` implemented and `DeliveryInv` invariant? | stall, dbError | no; no; yes; yes; yes |
| `delivery_slow` | When the claim is no protection any more, does the lease keep the agents of a session to one attempt? | slowStart, skew, crash | yes |
| `delivery_settles` | Does every session in work reach a review or an end? | crash, loss, stall, dbError | yes |
| `locks` | Do transactions interleaved lock by lock do what atomic ones could do (`AsIfAtomic`)? Has a job one outcome? Which transactions can deadlock? | crash, stall | yes; yes; only with a heartbeat |
| `budget` | Two requests, with one key or none, midnight and settlements: are slots counted, keys unique, and is money conserved? Do holds match reservations, and are they covered? How many active sessions can requests that overlap leave? | crash, lockExpiry | yes; yes, until a settlement overlaps another update; one each |
| `work_queue` | Can everyone sleep while work lies in the list? Can two tasks hold a delivery? Is every waiting event taken up? | two of any kind | no; no; yes |
| `blog_pipeline` | Is what the user reviews the work of one run for the newest version, from the approved outline and the last feedback? Is usage booked once, is a reviewed version frozen, does every run end? | failed, retried and lost runs | yes |
| `outline_parser` | Does the parser find in a document what it says as a whole, and nothing twice? | every document of up to five lines of seventeen kinds | yes, but for the goals it guesses |
| `client_pages` | Does a form start a second session while the first may be running? Can an old answer replace the text under review? Does a tab that waits get to the review? | one lost message, any order | no; no; yes |
| `finding_stale_key` | Does the form send another key once it is told that the session of its key has ended? | one lost message, any order | no, see section 5 |
| `api_gate` | Does anyone exceed a limit, or is anyone turned away for what is older or another's? Is the told reset kept? | late scripts, one lost answer | no; no; yes |
| `registration` | Requests that register and log in, with one address in two spellings: where can two accounts of one mailbox come from? Is an account committed without its grant, or left by a registration that failed? Are cookie and body the caller's own account? Is anyone refused without cause? Does everyone get an end? | one death before the commit | only from overlap; no; yes; no; yes |

Bounds. One session is enough for the safety properties of the delivery: sessions
share only the relay's batch, and the proofs cover any number. Three events are an
outline, a draft and a revision, the longest chain that shows every phase and a
second version; two are enough where phases play no part. Two owners are an attempt
and the one that replaces it; an owner nothing refers to any more is used again, so
the number of attempts over time is not bounded by them. `MaxCopies = 2` puts a
duplicate of a delivery in Redis. `AttemptBound` is one above `MaxAttempts`, so
that the claim beyond the limit happens. In `locks`, two attempts and the reaper
have five transactions, enough for every pair that contends; three attempts give
the same answers. In `budget` three sessions pass a limit of two and exhaust the
grant, `MaxDay = 1` has one midnight, and `ChargeBound` caps the COMMIT entries of
a session at one more than its estimate, so that a session can cost more than was
held for it, which nothing in the code prevents and from where on `Funded` says
nothing. Two requests race; what holds of them until a settlement overlaps another
update of the account, or a slot is booked for a day that is over, says so in its
premise (`crossed`, `late`), and section 5 says what happens afterwards. The two
requests of the run are both admitted by the check of active sessions, so that
`ActiveBounded` meets its bound. What serialises requests after that check is the
lock on the quota row, taken before and held longer than the Redis lock: the mutant
without it breaks `AccountMirrorsReservations` with requests alone.

`work_queue` has a list of one entry and two copies of a delivery, so that the list
is full while a copy is in a task and one is returned; with two faults, the second
can strike while the first is repaired. `blog_pipeline` has three versions, so that
a revision of a revision happens, and seven runs leave four retries among them;
`MaxRefinements = 2` has an iteration that is not the last. Five lines hold a title,
a section with goal and target, and one line more in any place; every rule of the
parser depends on the lines of one section and its neighbour. A bullet may state the
total, so that an accepted outline has its total for a goal. `client_pages` has two
sessions and two keys (the second session stays queued, `MaxMoved = 1`), two
versions, two messages in flight when a third would be started, and one loss; a
redirect adds the requests of its page to them. `api_gate` has a window of three
seconds in six, a service limit of two and a limit of one, three requests and two
addresses; smaller limits are reached with fewer requests, and what is compared is
only stamps and window. `registration` has three requests, so that two registrations
race and a login meets what they left, two spellings, two passwords and a weak one.

`api_gate` needs `MaxDelay < Window`: a script that reaches Redis a whole window
late counts against nothing. The window is 60 s; the connection gives up reading
after 30 s (`redis_pool.py:33`) and the client may send again, so a chain of
timeouts could exceed it. A restart of Redis forgets all windows and is left out.

No run uses symmetry together with a temporal property that needs fairness.
Deadlock is not checked: the workflow really ends, once every event row, version,
line or request of the instance is used, and so do the behaviours of each model.

Fairness. `delivery_settles`: the relay keeps scanning and publishing
(`_outbox_relay_forever`, restarted by the deployment), an attempt that has
started takes its next step or dies, and time passes: weak fairness. Strong
fairness says that an enqueue, a claim, and the burial of an exhausted event happen
if they stay possible again and again: not every delivery is lost, and some worker
is up at times. That claims happen is what `work_queue` shows, from weak fairness of
the loops, tasks, timeouts and publishers alone, for any worker. Users, heartbeats,
crashes, losses and stalls are owed nothing. `delivery_settles` leaves out
`slowStart` and `skew`, under which the property is false (a payload that cannot be
decoded fails its event and not its session). `blog_pipeline`: a run takes its next
step or fails; nothing is assumed of what its agents return. `client_pages`: the
interval of three seconds fires, the API answers, and an answer arrives; the
losses are bounded, and nobody is assumed to click. `registration`: each request
takes its next step (the event loop returns to it, and PostgreSQL wakes an insert that
waits when the other transaction has ended); nobody is assumed to ask.

## 4. Proofs

Every invariant, action property and refinement that a run checks is also a
theorem, for all values of the constants, under the hypotheses named below. So are
the type invariants (`TypeOK`, `QueueTypeOK`, ...): they hold for every instance, and
no run spends its time on them. A
hypothesis about `Faults`, or about agents that fall silent, excludes what the code
does not withstand; section 5 says what happens then.

### WorkflowDelivery

For all sets of sessions, events and owners and all bounds, with crashes, losses,
stalls and database errors:

| Theorem | Property | Hypotheses |
|---|---|---|
| `TypeCorrect` | `TypeOK` | none |
| `DeliveryInvariant`, `WorkStaysOutstanding` | `DeliveryInv`, `OutstandingWork` | no `slowStart`, no `skew` |
| `PersistsCurrentWork` | `OwnerIsCurrent` | the same |
| `EndedStaysEnded` | `TerminalIsFinal` | the same |
| `TableIsKept` | `TransitionsAllowed` | the same |
| `VersionFollowsSession` | `VersionMirrorsSession` | the same |
| `LifecycleImplemented` | `ImplementsLifecycle` | the same |
| `OneRunner` | `SoleRunner` | no `stall` |

`OutstandingWork`, that a session in work has exactly one active event, of its
phase, and no other session has any, is not inductive by itself. That a session
leaves work only together with its event is a matter of who may write: an attempt
that completes its event must be one the session still waits for. So the invariant
(`Core` in the proofs) also says that every row and attempt refers to rows that
exist (`Linked`), that an attempt holds its claim until it has the lease
(`ClaimIsHeld`; afterwards every write checks claim, status and lease again), that
what it read of the session is still work for its event (`ReadIsWanted`: the only
writers that could change it hold the claim themselves or need the one active
event to be gone), and that an owner of a claim and a lease was hydrated from the
active version (`HydratedFromActive`). The proof has one lemma per action and one
step per conjunct the action can disturb.

The action properties, the versions and the refinement rest on `SessionsFollow`: a
step rewrites at most one session, as one of the few moves of `Advances`. For the
refinement, `JobsOwed` shows that the jobs a session owes, the phases of its
active events, follow from its status and phase; so a step that moves a session is
the lifecycle's step of that session, and every other step is a stutter.
`OneRunner` needs no invariant about the outbox at all: `RunnersLease` says that
whoever runs agents holds the live lease of its session, which lapses only under a
heartbeat that fails.

### AttemptRows and RowLocks

`JobHasOneOutcome` (`OneOutcome`): once the session of a job has a result or has
failed, neither it nor the event changes again; behind it `OutcomeInv`, that event
and session end together. `LocksInvariant` proves `LockInv` about the transactions
that interleave lock by lock, for any number of attempts, with crashes and stalls:

* where a transaction stands follows from its kind, and fixes exactly which rows
  it holds (`Staged`);
* what it has checked on a row it has locked stays so until it commits (`Checked`,
  `Buries`), and what an attempt relies on without a lock holds too
  (`AttemptHolds`): its claim lasts until it has the lease, and while the event is
  its own nobody else holds a lease. A heartbeat changes no owner, so that what it
  writes without having checked cannot disturb these.

From `Staged` alone, `HeartbeatsDeadlockAlone` (`OnlyHeartbeatsDeadlock`).
Heartbeats left out, whoever waits for the event holds nothing, and whoever waits
while it holds a lease or the version holds the session too. In a cycle, then,
nobody holds the session: it would wait for a lease or the version, whose holder
is itself. So all wait for the event, and none of them holds it. That the retry
locks version and lease the other way round than the persister does no harm.

`LocksMakeAtomic` (`AsIfAtomic`): a commit is the one step of `AttemptRows` it
stands for, and the steps before it are stutters. `OneOutcomeOfLocks` carries
`JobHasOneOutcome` over. The assumption `RowLocksAssumption` says that
transactions, rows and attempts have different names.

### BudgetAccounts

For any numbers of requests and sessions, any limit and amounts:

* `MoneyIsConserved`, under every fault and race: balance and spent add up to the
  grant. `ConservedInv` adds that what a settlement has read satisfies the same
  equation: a commit writes balance and spent both as computed from one such read,
  or neither. So a lost update can break the holds, and can undo a settlement as a
  whole, but cannot create or destroy money.
* `KeysAreUnique` (`OneSessionPerKey`), under every fault and race, by `KeyInv`:
  from its upsert to its commit a request is alone, and its key is free.
* `DailyLimitHolds` (`DailyQuota`), for racing requests, crashes and midnight at any
  point, until a request of one day is booked after one of the next (`late`).
  `QuotaInv`: the quota row counts the sessions of its day, and what the condition
  of a request's upsert saw still holds when it commits.
* `OverlapBoundsActive` (`ActiveBounded`). The check of active sessions and the
  insert are not one step, so that requests that overlap are all admitted; but a
  request is admitted only when no session is active. Hence `FewActive`: active
  sessions and requests in flight together are no more than the requests there
  are. With one request at a time this is the limit of one that the code means to
  enforce.
* `HoldsMirrorReservations` (`AccountMirrorsReservations`) for requests that race,
  with every fault and with the expiry of the Redis lock, until a settlement
  overlaps another update (`crossed`). `AccountInv`: what a request has read of
  the account is what the account is until the request commits, because the quota
  row keeps other requests out and any settlement in between is an overlap; and
  what a settlement has read likewise.
* `HoldsAreFunded` (`Funded`) from the same invariant, as long as no session costs
  more than its estimate: what a request adds to the holds is what it found
  available.

### BlogPipeline

For any number of versions, runs and iterations. What all of it rests on is
`PipelineInv`, the types with the two facts that keep them (the active version
exists; an agent works only before the last iteration is counted).

* `OutlineIsKept` (`OutlineKept`). `OutlineInv` adds that no run is under way
  during a review, and that an approved session has left its first phase, so that
  no agent is asked for an outline again.
* `FeedbackIsCurrent` (`FeedbackReaches`). `FeedbackInv` adds that version and
  snapshot agree on the feedback while the workflow owes a result; the error text
  that `persist_failure` writes over it is only ever read by people.
* `StagesBookedOnce` (`BookedOnce`). `BookInv` adds that before the result of an
  event is stored none of its stages is booked for its version, which is why
  `_commit_usage` never passes over work that was done.
* `VersionsAreFrozen` (`VersionsFrozen`), from the same invariant: a version that
  has an editor's booking is active only while nothing writes documents to it.
* `ReviewedComesFromOneRun` (`ReviewedIsCurrent`), for a writer that always writes
  (`"writer" \notin Silent`). `ReviewInv` adds `Written`: behind each agent of a
  run lies what this run's agents before it have written, of this iteration. A
  retry starts from the snapshot, so the proof has to show that nothing of an
  earlier run survives to the editor.

The first four hold whichever agents fall silent. `NoneAssumption` says that what
stands for no document is no review.

### WorkQueue, ClientPages, ApiGate, Registration

* `WorkQueue_proofs`, for any workers, events, publishers and depth:
  `QueueTypeCorrect`, `OneHolderCorrect` (`OneHolder`, with the list as an
  injective sequence) and `NoWorkerSleepsOnWork` (`NoSleepOnWork`, which is
  inductive beside the types).
* `ClientPages_proofs`, for any losses and orders of messages:
  `ClientTypeCorrect`, `OneSessionOfAForm` and `ShownIsCurrent`. `ClientInv` says
  that one form draws one key, one key starts one session, and that a message
  still wanted by the mounted page was sent by it and carries no text older than
  its mount. So a form starts no second session at all: `OneSessionPerForm` allows
  one after the first is known to have ended, as the repository's documents
  promise, and the form never uses that permission (`finding_stale_key`).
* `ApiGate_proofs`, for any limits, window and delay: `GateTypeCorrect`,
  `LimitsHold` (`WithinLimit`), `RefusalsAreEarned` (`NoFalseRefusal`) and
  `RetriesAreHonoured` (`RetryHonoured`). `GateInv` says that a bucket holds only
  slots that were given in it, and each of them for the window less the delay at
  least, its key included; that rests on the stamps of requests under way and on
  their delay.
* `ApiGate_proofs` also has the theorems of `Registration`, for any addresses and
  requests: `RegistrationTypeCorrect`, `TwinsComeFromOverlap` (`TwinsOverlapped`),
  `RegistrationIsAtomic` (`AllOrNothing`), `SignInsAreOwn` (`SignedInAsSelf`) and
  `RefusalsHaveCause` (`RefusedForCause`). None of the last four is inductive.
  `RegistrationInv` adds that a row belongs to the registration that names it, is open
  until that ends, and has its grant before it can be committed (`RowsOfCallers`,
  `CallersInStep`); that no two rows, uncommitted ones included, have one spelling
  (`AddressesDiffer`); and that of two accounts of one mailbox neither was known to
  the other from its second lookup on (`TwinsUnknown`). It follows that a
  registration that signs in finds its own account or an ambiguity, never another's.

### OutlineParser

`ReadingIsRight` (`ReadsAsStated`) and `OutlineIsStatedOnce` (`StatedOnce`), for
documents of any length, made of any lines. The invariant `ReadInv` says what the
pass knows of the lines behind it: whether a section and a title have been among
them, and which heading the next line stands under (`Known`). The lemmas about the
document compare the readings of a document and of the same document with one line
more (`Longer`): what it says of earlier lines is the same, and what it says of
the new line is what the pass does with it (`LineRead`). The induction is about what
the pass takes for a goal (`ReadsAsTaken`), stated and guessed alike;
`GoalIsStatedOrGuessed` then shows that this is what the document states, or a guess
as `Guess` describes it. `StatedOnce` follows from what kind of line each part can
come from (`PartsDiffer`), and that the line with the total is no part but a guessed
goal from `TotalApart`. That a set of lines has a first and a last comes from the
well-foundedness of `<` on the numbers (`LeastExists`).

### Model-checked only

Liveness (`Settles`, `Delivered`, `RunEnds`, `FollowsToReview`,
`EveryoneAnswered`): fairness and ENABLED are out of the prover's reach. That the sum
`FindTotal` computes by folding over the sections is their total is not stated;
the proofs leave it as it is defined.

## 5. Where the code differs from what is said of it

These came up while modelling. The models contain the behaviour, and the runs state
what is true of it; one, `finding_stale_key`, states what a document of the
repository says, and shows how the code departs from it.

Delivery and accounting:

* When recording a failure fails, the lease is released all the same. The
  redelivered event meets a session that is PROCESSING without a lease, which
  `acquire_lease` cannot recover (though `session_lease_repository.py:62-63` says
  so), until the reaper fails the session.
* The reaper fails a session and keeps its version as it was and its reservation
  (`docs/blogs/incident-budget-ledger-reconciliation.md:128` says otherwise).
* The heartbeat locks the lease before the event, against the order `_lock_attempt`
  announces. If PostgreSQL aborts the transaction that persists a result, the
  finished workflow is recorded as a failure.
* A request and a settlement that overlap, or two settlements, lose one of their two
  updates of the account (`budget_account_repository.py:58`): from there on the
  holds may be more or less than the reservations, and more than the balance.
* Revisions are booked in the ledger and never taken from the account, since the
  reservation was released at the first final review (`budget_service.py:114`).
* An attempt held up for a whole claim after it read its session can set a session
  the reaper has failed back to PROCESSING (`TerminalIsFinal` with `slowStart`); or,
  if its job was done by another and reviewed meanwhile, a revision whose version
  stays QUEUED (`VersionMirrorsSession` with `slowStart`), although
  `docs/decisions/ADR-2026-05-30-worker-recovery-versioned-state.md:89` says that
  "Session and version are marked `PROCESSING`".
* As many requests as overlap pass the check of active sessions
  (`blog_service.py:106`), and each starts a session.
* A request that reads its clock before midnight and is booked after a request of
  the new day sets the quota row back to its own day with one slot used
  (`blog_service.py:116`); the slots used on the new day until then are forgotten.
* `claim_event` does not look at `max_attempts`: a delivery still in Redis starts one
  attempt more than the reaper would allow.

Agent workflow:

* At the refinement bound a draft is accepted whose citations are not checked,
  though `workflows/common.py:186` says they are.
* A writer that ends without text leaves the draft of the state as it was: in a
  revision that is the previous version's, which would be presented as new after
  two rejections. The run therefore has no silent writer (`Silent`).
* An editor that ends without text leaves its earlier review beside the later draft.
* A failed tool result is preferred to the evidence of a fallback search, and the
  source count of a deep search does not match its sources, so it is refused
  (`research_agent.py:31`, `tavily_research.py:149-157`).

Outline parser:

* A bullet labelled as total, title or otherwise becomes the goal of a section that
  has none so far (`normalizer.py:513-516`), although `normalizer.py:390` says "It
  never guesses a missing or renamed field". A bullet "Total words: 300" can so be
  the goal of a section and the total of the outline. `ReadsAsStated` and
  `StatedOnce` name this as their exception.
* `_BULLET` (`normalizer.py:338`) takes every line that begins with a star, so that
  the branch for lines all in bold (`normalizer.py:531-536`) is never reached. A
  bold line that names no section is a bullet like any other, and becomes the goal
  of a section that has none.
* Section ids may repeat, although `schemas.py:24` says "Unique section identifier".
* A stated total may differ from the sum of the targets; the review page then
  refuses approval until the outline is edited (`OutlineReviewPage.tsx:48`).

Client:

* `handleGenerate` drops its key only when the request succeeds
  (`DashboardPage.tsx:55-68`), so that after the 409 `SESSION_TERMINAL` the form sends
  the ended key again and again, although
  `docs/blogs/incident-idempotency-and-ghost-replay.md:175` says that the frontend
  "refreshes its key before the next attempt" (`KeyRefreshed`, violated in
  `finding_stale_key`). The same document says at line 74 that the key "is replaced
  when the user explicitly clicks "Generate" again"; the code keeps it after any
  error, which is what makes a repeated submission safe after a lost answer
  (`OneSessionPerForm`).
* "Save changes" on the outline page queues the research without approval:
  `submit_outline_review` ignores the action, while the page says "Approve when
  you're ready to continue".
* A review names a session and no version: after a lost answer, or when the draft
  was loaded during a revision elsewhere, a text can be approved that the page has
  never shown.
* A story that is edited after a lost answer gets the earlier session.
* The late answer to a page that is gone still moves the tab, and a late
  PROCESSING after FAILED leaves the progress page stale.
* `http_exception_handler` of `core/errors.py` drops the `error_code` of the routes, so that
  SESSION_TERMINAL reaches the page as a 409 with the code VALIDATION_ERROR.

API gate and registration:

* A slot of the service is used up by a request that its caller's own limit then
  refuses; behind a proxy all callers without an account share one address; a
  cookie that has expired hides a valid bearer token.
* `get_by_email` ignores case (`auth_user_repository.py:23`), and the unique index is on
  the address as it was written (`orm_models.py:189`). Two registrations that overlap
  can leave two accounts for one address, and nothing else can (`TwinsOverlapped`).
  Every later login with either spelling then raises in `scalar_one_or_none`
  (`auth_user_repository.py:25`), so that both owners are locked out.
* The answer to a registration leaves before its commit. If the process dies between
  the two, the user holds the cookie of an account that does not exist.

## 6. Plan

Built, in order of importance: session lifecycle and delivery protocol (what the
rest of the system relies on), budget and admission, row locks, the queue, the
agent workflow with its outline parser, the client, the API gate, registration. Next:

* A refinement of `queue` in `WorkflowDelivery` by `WorkQueue`.

Not modelled:

* Prompts, model calls and searches themselves: outcomes are free choices.
* JSON answers and code fences in `normalizer.py`, guards and sanitizing: text
  processing in which no state is kept. The fallback that books a whole run under
  one name when no event names an agent (`runner.py:269-280`).
* Listings, insights, exports, the tone catalog: they only read.
* Hashing of passwords, `last_login_at`, logout, the local development user and the
  profile page: `ApiGate` takes tokens as they come.
* `monitoring/circuit_breaker.py`, whose `call` nothing uses, and
  `core/session_store.py`, which nothing wires in: every run has an in-memory session
  service of its own.
* Metrics, tracing, health checks, configuration, scripts and deployment: nothing in
  them decides a step of the workflow.
