# Verification of the task API

TLA+ models of `arasHi87/gogolook-task-api`, checked with TLC on small instances and, where a
theorem is worth stating for every instance, proved with TLAPS. `PROJECT.json` lists
components, runs, mutants, hazards, findings and theorems, and maps every definition to the
lines of code it models.

## The system

A task service (REST and Connect over one handler), a Postgres repository whose transactions
also insert jobs (the outbox *is* the jobs table), and worker processes that deliver the jobs
as webhooks. All processes share one database and nothing else.

| Component | State | Operations | Hard parts |
|---|---|---|---|
| Job store (`queue/store.go`, `queue/maintenance.go`, migration) | the `jobs` table: state, attempt, lock, lease, schedule, error history | Claim, Heartbeat, Succeed, Retry, Cancel, Discard, Snooze, Release; Schedule, Reap, Purge; outbox insert | zombies after a lapsed lease; attempts given back and paid; two attempt limits; answers lost after a commit |
| Worker pool (`queue/pool.go`) | inflight map, claim loop, goroutines, heartbeat, drain | Run, claimBatch, run/finish, beat, Stop, releaseInflight | five kinds of thread on one map; a snapshot used after the lock is dropped; a drain against a claim under way |
| Maintenance (`queue/service.go`, `postgres/leader.go`) | advisory lock per transaction | Sweep (schedule, then reap), Purge | whoever leads acts on everybody's rows |
| Process lifecycle (`app/runner.go`, `app/workers.go`) | drain table, run context | runWorkers, drain | order of stops; one deadline for all; exit with work in flight |
| Outbox and task repository (`outbox`, `task/pgrepo`, `postgres/tx.go`) | `tasks` rows with versions, jobs, after-commit hooks | Create, Update, Delete, List; Enqueue; Notify | task and event in one transaction; notify only after commit; joining the middleware's transaction |
| Idempotency (`internal/idempotency`) | keys: reserved or completed with a stored response and a TTL | Reserve, Complete, Abandon, Purge; replay | concurrent requests under one key; TTL against a slow request; crash between steps |
| Memory backend (`task/memrepo`, `task/service.go`, `idempotency/memory.go`) | a map of tasks, a map of keys, a mutex each | Create, Update, Delete, List; Reserve, Complete, Abandon, Purge | no transaction around the two maps; pages while rows change; requests that outlive their key |
| Listener and events (`queue/listener.go`, `queue/events.go`) | connection, wake-up channel, subscribers | listen, wake, publish | lost notifications; reconnects; full channels |
| Webhook and resilience (`queue/handler`, `internal/resilience`, `queue/backoff.go`) | circuit breaker, retry budget | deliver, classify | half-open probes; which failures snooze and which pay |
| Middleware (`internal/ratelimit`, `internal/auth`, `httpx`, `runtime/handler.go`) | token buckets, in-flight slots | shed, resolve, Allow, Sweep, recover | eviction against a concurrent request; slots on every way out; headers a caller writes |
| Configuration (`internal/config`, `app/reload.go`, `admin/debug.go`) | configuration snapshot, log level | load, validate, reload, planReload, applyHot | files read while they are written; signals during a reload; who sees a new value |
| Transcoding, CLI, metrics, tracing, logging, generated code | none that the above depends on | | not modelled |

Processes talk through the table only: a claim locks a row with a worker id and a lease, the
heartbeat renews the leases of one process in one statement, the reaper takes back whatever
lapsed, and every completion write carries the claim guard (`state`, `locked_by`, `attempt`).
Inside a process the claim loop feeds an unbuffered channel, goroutines run handlers, and all of
them, with the heartbeat and `Stop`, share the mutex-protected inflight map.

What makes each part correct: a claim's outcome is written by that claim only; attempts are
paid once and within the budget; a dead process's job comes back and a live one's does not;
a drain ends, hands back what it holds and forgets nothing; final rows leave the table; one
live job per key; a write, its event and its key are one step, on either backend, and an answer
is true; a job nobody was told of is still picked up; an outage costs no valid job its attempts and
ends when the receiver is back; no caller gets more than its quota and none loses a slot; whatever is in
the file, the running configuration is sound.

## Modules

| Module | Models | Builds on |
|---|---|---|
| `JobStore` | one row, and what each SQL statement asks of it and makes of it; no state | |
| `JobTable` | the table; one action per statement | `JobStore` |
| `Queue` | the table used by processes that hold claims, lose them and die | `JobTable` |
| `JobLifecycle` | abstract: what a job's owner is promised | |
| `Pool` | the threads of each process, their map and their drain | `JobTable`; refines `Queue` |
| `PoolTail` | a history of the jobs whose lease ran out in the tail of a batch, and what timely heartbeats give all others | `Pool` |
| `QueueProofs` | theorems about `Queue` | `Queue`, TLAPS |
| `Writes` | requests that create, update and delete tasks, statement by statement: middleware, repository, outbox, commit, notification | refines `AtomicWrites` |
| `AtomicWrites` | abstract: a write happens at once, with its event and its key | |
| `Lifecycle` | one process from start to exit: its workers' goroutines, the failure set, the drain | |
| `ProcessProofs` | theorems about `Lifecycle` and `Reload`: one process and its configuration | `Lifecycle`, `Configuration`, TLAPS; `Reload` as an instance |
| `Memory` | the same requests over the in-memory store and key table, and a client that pages through the list | refines `AtomicWrites` |
| `Breaker` | the circuit breaker of one target; no state | |
| `Delivery` | the webhook handler's chain of retries, budget and breaker, for concurrent jobs | `Breaker` |
| `Wakeup` | notifications, the listener, the wake-up channel, the poll and the claim loop; completion events | |
| `Limiter` | one token bucket and what each call makes of it; no state | |
| `Ingress` | requests going down the middleware chain and unwinding | `Limiter`; refines `Quota` |
| `Quota` | abstract: a token bucket per caller that lasts for ever; a tick fills it, a grant costs, credits may be lost | |
| `Settings` | keys, layers, validation and the hot set; no state | |
| `Configuration` | the state of a running process's configuration and what must hold of it | `Settings` |
| `Reload` | a running process, its file, its signals and its reloader | `Configuration` |
| `PoolProofs`, `WritesProofs`, `MemoryProofs`, `WakeupProofs`, `IngressProofs`, `DeliveryProofs` | theorems about the module each is named after | that module, TLAPS; `PoolProofs` extends `PoolTail` and has `QueueProofs` as an instance |
| `MCQueue`, `MCPool`, `MCPoolTail`, `MCWrites`, `MCLifecycle`, `MCMemory`, `MCDelivery`, `MCWakeup`, `MCIngress`, `MCReload` | instances for TLC | |

**Data.** Every timestamp the statements use is compared with the database's `now()` and nothing
else, so a row keeps `scheduledAt` (future/due), `leaseAt` (null/live/lapsed) and `finalizedAt`
(null/recent/aged), and three actions let the clock pass them. Payloads, kinds, priorities
and the text of errors are left out; the error history keeps the attempt number of each entry.
`gen` counts the claims ever made of a row. It is a history variable: no guard but the bound
`MaxClaims` reads it, and the properties use it to say *which* claim a write belongs to.
`handedBack` and `PoolTail`'s `overtaken` are history variables too: they record, and nothing reads them but
the properties.

**Steps.** A SQL statement is atomic (a single `UPDATE` under READ COMMITTED on rows it locks);
whatever a process does between two statements, or between two acquisitions of the map's mutex,
is separate. A statement may commit and its answer be lost (`ClaimLost`, `BeatFails`).
`SKIP LOCKED` is the choice of any set of claimable rows up to the batch size.

**Threads (`Pool`).** `loop` is the claim loop with the batch and the job in hand; `inflight` the
map, an entry holding no cancel function until the handler starts; `runs` the goroutines
(received, handling, written); `beat` and `release` the snapshots that the heartbeat and `Stop`
carry from the map to their statements. `phase` follows `runner.go`: Stop (draining, releasing,
stopped), then the cancelled run context, then exit, or death when the drain deadline cuts
threads short. A handler may return any outcome at any time, with or without its context
cancelled. `Pool` changes the table through `JobTable` alone, and `Queue`'s `held` and `up` are
computed from the threads, so `ImplementsQueue` is a check and not a definition.

**Transactions (`Writes`).** `pc` is the statement a request is about to issue. The tables hold
what is committed; what an open transaction has written is in the variables of its request
(`event`, `inserted`), and the rows it has written are locked: `KeyFree`, `TaskFree` and the first
conjunct of `Enqueue` are where another request waits. As under READ COMMITTED, a row that
the `WHERE` clause does not match as committed is not waited for (`Miss`), and one that does
is looked at again once its lock is granted. An operation stands for the method, path and body
that the fingerprint hashes; an event for the payload, and for the response, which shows the
same task at the same version. A retry by the client is one more request with the same
operation and key. The guards in front of the reservation (safe methods, malformed keys, bodies
that cannot be read, validation) refuse without touching anything and are left out. Handlers are
those of the REST surface: an error has an error status, a success a body (see below for the
others). Jobs end at any time, which frees their unique keys; what happens to them before is
`Queue`'s.

**Process (`Lifecycle`).** `run` is where each worker's goroutine is, `err` and `fired` are the failure
set, `pc` and `turn` the goroutine of `runWorkers`. Recording an error and closing the channel are two
steps, as in `record`; `wg.Done` is another. What a worker does while it runs is left out: it may
fail at any time, a Stop may fail, and a Run may never return.

**Memory backend (`Memory`).** Each critical section of either mutex is a step. A task's id is a number, as
ids are compared as strings, and a create draws its id and its time before it takes the lock, so rows
may enter the list behind a cursor. `walk` is a client that follows page tokens; a token is the cursor
it encodes. `Slow` says whether a request may outlive its key's TTL; `Memory.cfg` assumes not.

**Delivery (`Breaker`, `Delivery`).** One job is one row of the queue seen from its handler: it waits, runs, and
ends or waits again, for as many ticks as `Backoff.For`, a snooze or `RemainingDelay` say. The handler's
call through the chain is a sequence of steps (admission by the breaker, the call, its answer), so calls of
other jobs trip, probe and close the circuit between them. The library's breaker is modelled from its
configuration in `newBreaker`; results that leave the rolling window are a nondeterministic choice. The
receiver goes down and up at will. The pauses between tries inside one attempt are left out.

**Notifications (`Wakeup`).** A notification reaches a connection that listens and nobody else. `received`, a
history variable, holds the available jobs whose notification has been read. A row that another process's
claim has locked is skipped, as `SKIP LOCKED` has it, and leaves `received`: if that claim rolls back, only the
poll finds it.

**Requests (`Limiter`, `Ingress`).** A request is where it is in the chain. Allow is the four steps it is in the code:
the look-up under the limiter's lock, then AllowN, Reserve and Cancel, each under the bucket's own. Tokens
are whole and time is in ticks; a tick does not fall inside an Allow, so a bucket that was looked up is
not idle. A caller is a token, an address and what it forges into `X-Forwarded-For`, and each trusted
proxy appends what it saw.

**Configuration (`Settings`, `Configuration`, `Reload`).** A value is a number. There are eight keys, one or two for each group that
Validate and a reload treat differently: hot or load-time, checked alone, against a key of the same section,
or of another. A half-written file is a file with some of its keys, or one that does not parse; reading it
is one step, as its bytes are read at once. `boot` is what the components were built from.

## Runs

| Run | Checks | Instance |
|---|---|---|
| `queue` | types, lease, error history, budget, fencing, one live job per key, refinement of `JobLifecycle`; dead processes' jobs reclaimed, ended rows purged | 2 jobs with one key, 2 processes of which 1 survives and 1 has the lower ceiling of 1, 2 attempts, 2 claims each |
| `pool` | refinement of `Queue`, drains end, no job lost | 1 job claimed twice, 2 processes of which 1 stays, 2 goroutines each, `Timely` |
| `pool_tail` | no entry without owner; one handler per job, live runs in the map, nothing reaped from a beating process, all but for jobs overtaken in a tail | 2 jobs claimed twice, batch of 2, 1 process with 2 goroutines, `Timely` |
| `writes` | one event per change, truthful answers, notifications after the commit, refinement of `AtomicWrites`, every request answered | 3 requests, each a create, a delete or one of 2 updates, with the one key or none; 2 tasks |
| `memory` | truthful answers, no key without an owner, complete walks, refinement of `AtomicWrites` | 3 requests, 3 tasks, 1 key or none, pages of 1, 2 instants |
| `delivery` | own faults do not trip, discards were tried, one refusal per opening, recovery drains | 3 jobs (good, rejected, malformed), 2 attempts of 2 tries, breaker of 2 calls, open for 2 ticks |
| `wakeup` | no wake-up lost, every job picked up and given an outcome | 2 jobs, 3 faults in all; batch, pool and buffers of 1 |
| `ingress` | slots held, buckets name callers, refinement of `Quota` in which only ticks fill buckets, quiescence | 3 requests of 3 kinds of caller, 2 slots, bursts of 1 and 2, each mode |
| `reload` | the running configuration is sound, edits are applied | 9 files, 4 command lines, an environment with a typing error |
| `lifecycle` | clean exits, graceful before cancelled, shutdown ends | 4 workers of which 3 have a Stop |

The bounds. Two processes are what it takes for a zombie and its successor; two claims for a job
to meet its successor; two jobs for a batch to have a tail;
two goroutines and a second claim for a job that was overtaken in the tail to run beside itself. (Without the exception for such jobs, TLC
finds both `OneHandlerPerJob` and `CurrentRunTracked` violated in that instance, so it does happen there. Two processes with tails are too many
states; the theorems are for any number.) What longer histories do to a row (released,
reaped, snoozed and claimed again, under any ceilings) is proved in `QueueProofs` for any number of
them. Three requests are a create and two writers that race for the task, or three deliveries under
one key, of which one may fail, one execute and one replay. Two calls trip the breaker, so a third
job sees it open; two probes let one fail and the other decide. One place in a channel is the code's own size
for `wakeUp` and the smallest at which the recorder's is full. Three requests exhaust a burst of two and both
slots. `MaxClaims` bounds behaviours (`SnoozeRow` and `ReleaseRow` would allow infinitely many), `MinUp` keeps
processes alive where liveness is asked for, `MaxFaults` and `MaxTime` bound faults and the clock, and `WindowCap`
the results a rolling window holds. Where deadlock is not checked the system may stop: every process is gone, every
request answered, or every claim of the bound used.

`Timely` is a constant of `Pool`. When it is true, leases that a heartbeat covers do not lapse
(three beats fit into a lease, `config/queue.go:99`, and fewer than three in a row fail), and a
backoff outlasts the few instructions between a completion write and the deferred `untrack`.
When it is false, time may pass anywhere. Both runs of the pool have it, `NoJobLost` because without it leases may lapse for ever,
the others of `pool` to keep the instance small: `EntriesOwned` and `QueueRefinement` are proved without it.

### Fairness

`Queue`'s `FairSpec`: the clock passes timestamps; the sweep and purge tickers of some process
fire; some claim loop polls; handlers return, because each has a deadline (`pool.go:249`).
`Writes`' `FairSpec`: a request whose locks are free takes its next step. Failures are not assumed
to end a wait. `Lifecycle`'s: `runWorkers` takes steps, and with it every Stop returns (each is given
the drain's context and honours it); the deadline passes; a goroutine whose Run has returned goes
on. Nothing is assumed of Run itself. `Delivery`'s: what is due is claimed, handlers run, a call returns at
the latest at its timeout, and time passes; nothing of the receiver, except in the premise of `RecoveryDrains`.
`Wakeup`'s: the ticker fires, the loop, the goroutines and the scheduler run, other processes end their
transactions; nothing of notifications, the listener or the recorder. `Ingress`': request goroutines run, time passes,
the sweeper's ticker fires. `Reload`'s: the reloader runs. `Memory` states no fairness: its steps never wait.
`Pool`'s `FairSpec`: every thread of a live process takes steps, statements end one way or the
other, and a claim that is tried again and again is not refused for ever (strong fairness on
`ClaimCommit`: the poll repeats every two seconds, and a database that is never reachable again
is not something the queue can mend). Nothing is assumed of heartbeats succeeding, of Stop being
called, or of the order of threads.

### What the code does other than it says

Two runs expect a violation; each property is a sentence of the repository's own comments or docs.

| Run | Property | What happens |
|---|---|---|
| `queue_undated` | `FinalRowsPurged` | the reaper discards under the lower ceiling, but sets `finalized_at` only at `max_attempts` (`maintenance.go:31`): the row is never purged, and the job's fate does depend on whether it failed or its worker died (against `maintenance.go:22`) |
| `pool_tail_lease` | `NoLiveClaimReaped` | the batch behind a blocked hand-off is not heartbeated and is reaped although every heartbeat is on time (against `maintenance.go:18` and `queue/README.md:57`) |

What is true instead is checked and, where it is safety, proved. `ErrorHistory` says nothing of snoozes: every attempt that was paid is in the history,
in order, and no claim leaves two entries. `EndedRowsPurged` is for the rows that came to their own end. `pool_tail` shows the
complement of `pool_tail_lease`: with time as `Timely` assumes and batches of any size, a lease that runs out in a tail is the
only way for a process that heartbeats to lose a job (`OnlyTailsReaped`), and a job to which that never happened has one handler
at a time.

Seven further configurations, which are not among the runs, show more of what the code does other than it says, and cases that the passing
runs assume away or except. Each ends with its property violated.

| Configuration | Property | What happens |
|---|---|---|
| `PoolHealthyRun.cfg` (`MCPool`) | `HealthyRunKept` | a job that finishes between snapshot and statement looks like a lost lease, and every handler of the snapshot is cancelled, though no lease was reclaimed and they still hold their claims (`pool.go:473`, against `pool.go:477`) |
| `ReloadInForce.cfg` (`MCReload`) | `TunablesInForce` | a reload publishes and logs new values of the hot set, but pool, maintenance, limiter, webhook and breaker keep the copies they were built with (against `docs/plan.md:457`); only the log level moves, and `GET /debug/config` shows the values that are not in force |
| `QueueSnoozeReason.cfg` (`MCQueue`) | `SnoozeReasonRecorded` | "Reason is recorded in the job's error history" (`queue.go:103`), but `snoozeSQL` appends nothing and is not given the reason (`pool.go:362`) |
| `WakeupOutcomes.cfg` (`MCWakeup`) | `LastOutcomeRecorded` | the recorder's select may take the end of the context while outcomes wait, and it has no Stop (against `workers.go:21`) |
| `PoolStaleOutcome.cfg` (`MCPool`) | `NoStaleOutcome` | Release gives the attempt number back; a claim under way takes the row again under the same number, and the old handler's outcome matches (against `store.go:123`) |
| `MemoryLate.cfg` (`MCMemory`) | `TruthfulAnswers` | a request that outlives its key's TTL completes the reservation of the one after it, which is then replayed under the wrong answer |
| `IngressPanic.cfg` (`MCIngress`) | `PanicIsServerError` | a handler that panics after it has set a content type is answered 200: `WriteProblem` writes nothing then (against `recover.go:12`) |

Three smaller disagreements were met while modelling `Pool` and have no run of their own. At
cancellation `claimBatch` hands back the job in hand only; the rest of the batch waits for its
lease (`pool.go:228`, against the comment above it). Between a claim's commit and the first
`track` the map is empty, and Stop may return in that window (`pool.go:149`, against
`pool.go:219`). The map is keyed by job id, so when leases lapse under a running handler and the
same process claims the job again, the older run's `untrack` removes the newer run's entry
(`pool.go:497`): `CurrentRunTracked` needs `Timely`, and excepts the jobs that were overtaken in a tail, whose late run does the same.

And four while modelling `Writes`. The 409 for a key in progress (`idempotency.go:17`,
`middleware.go:143`) is never sent with the Postgres store, whose insert waits for the row
(`postgres.go:34`). "Nothing committed, so nothing happened" (`middleware.go:121`) does not hold
when the commit's answer is lost; `TruthfulAnswers` and the refinement show that a retry under the
same key is still right. The rest is outside the REST surface: gRPC and gRPC-Web report errors
under status 200, so `stored` (`middleware.go:174`, "Only success") would remember a refused
write; and a delete over Connect's binary encoding answers with no bytes, which as a nil slice
is a NULL `response_body`, which the table's CHECK refuses, so that under a key it cannot complete
(against "a retry that will work", `middleware.go:123`).

Two while modelling `Lifecycle`. "The first error seen" (`runner.go:26`) is the first a worker
recorded: the error of a Stop joins the set only after the drain, so a worker that fails later is
reported instead. Tracing is "last of all, flushing the spans every worker above it produced on its
way out" (`workers.go:30`), but it is shut down in the loop of Stops, before the run context ends, and
the workers without a Stop are still running.

And some in the modules after those. A handler that is cancelled, by a drain or a lost lease, reports its call as a
failure of the receiver (`webhook.go:91`): `OwnFaultsDontTrip` has to except cancelled handlers. The listener wakes the
claim loop before it sleeps and not when it is connected again (against `listener.go:73`): what is notified in between
waits for the poll. "One that asks for a thousand gets 100" (`repository.go:37`), but `clampLimit` refuses it.
Between Reserve and Cancel of a refused request the token is gone for others, and when two refusals
overlap the later event is not given back: a refused request may cost a token, never give one. A sweep
drops a bucket that "has necessarily refilled" (`limiter.go`, `Sweep`) only if `key_ttl` is at least
burst / rate, which no validation asks. The defaults have it (10 minutes against 2 seconds), the instance has it, and
`QuotaRefinement` assumes it, together with client ids that are no addresses: nor is that validated, and a client
and a caller whose address is the client's id would replace each other's bucket by turns. A file that was truncated, and is still valid, is read as the defaults. A
SIGHUP does not undo a level set by hand over `/debug` unless another tunable changed.

## Proofs

`QueueProofs` proves, for all sets of jobs and processes, all budgets, ceilings and keys and all
bounds, from `JobStoreAssumption` (there is a process, budgets and ceilings are at least 1):

- `TypeCorrect`, `LeaseCorrect`, `ErrorHistoryCorrect`, `AttemptBudgetCorrect`
- `FencingCorrect`: the claim guard admits the current claim only
- `UniqueKeyCorrect`: one live job per key
- `LifecycleRefinement`: `Queue` implements `JobLifecycle`

The argument. Every statement changes each row on its own, so `RowStep` lists the ways one row
may change and `StepIsRowStep` shows that a step of `Queue` is a `RowStep` of every row.
`RowOK` is what holds of one row; `RowStepOK` shows that a `RowStep` keeps it. `TableOK`, the
inductive invariant, is `RowOK` of every row and the types of the rest. The first four theorems
follow from it. The budget needs the history: that a waiting row has an attempt left is
only inductive together with `attempt = Len(errors)`, which is what the code does about snoozes and more than `ErrorHistory`
asks; that no claim leaves two entries needs `attempt <= gen`.

`FencedByAttempt` is not inductive: a claim that lost its row could, as far as it says, have the
number of a later one. `Fence` adds why it cannot: a claim is handed back, or current, or its
attempt number is in the error history, and histories only grow while a new claim's number is one
past the history. `UniqueKeyCorrect` rests on `LiveAgain` and `OnlyEnqueueInserts`: no row
becomes live except by an insert, which checks the key.

`ProcessProofs` proves, for every table of workers, from `LifecycleAssumption` (every worker is in the
table, Stops belong to workers): `CleanExitCorrect`, `GracefulFirst` and the types. The inductive
invariant says how far the drain is in the table (`Progress`), that a goroutine beyond its `record`
has left an error in the set (`Recorded`), and what the drain knows when it reports (`Ending`): without
`Recorded`, nothing connects a goroutine that is gone with the error it had.

The same module proves of `Reload` (there `R`), for every set of files, every environment and all command lines, from
`ReloadAssumption` (values are numbers, flags name keys): `ReloadSound`, that the running configuration is valid,
keeps the load-time keys it started with and is unchanged by replaying the flags; and `MergeNeverRefused`, that the
check after the merge, which the code makes before it publishes, never fails for a file that passed the
check before it. The inductive invariant adds the same of what the reloader has read. The heart of it is
`MergeStaysValid`: every rule of Validate relates hot keys with hot keys or load-time keys with load-time keys, so a
merge of two valid configurations along that line is valid.

`WakeupProofs` proves `WakeupsKept`, that no wake-up is lost, for every number of jobs, batch size, pool size
and number of faults, from `WakeupAssumption` (there are finitely many jobs, sizes are at least 1). `NoLostWakeup` speaks of a
waiting loop only; the invariant says for every place the loop may be in what is still to come for a notified
job (`Coming`): a token, a claim, or a hand-over after which it claims again. It is the claim that needs
work: a batch that is not full has taken every row (`ShortBatchTakesAll`), by counting.

`IngressProofs` proves `SlotsCorrect` and `BucketsCorrect`, for every number of requests, clients and trusted proxies, from
`IngressAssumption` (finitely many requests, addresses are strings, clients are valid). Slots are counted one by one as
requests enter and unwind. For buckets, the invariant adds that a request in the limiter carries the identity of its caller;
`ClientIPIsAddress` shows that counting from the right finds the caller's address whatever stands left of it.

The same module proves `QuotaRefinement`, that `Ingress` implements `Quota` and that nothing but a tick gives credits, for
all rates, bursts and tiers, under the two conditions above (`NamesApart`, `SweepsFull`). What a bucket is worth is its tokens or what its
caller has earned since it was seen, whichever is more. One lemma per bucket operation says what it does to that worth: a look-up,
a reservation, a cancellation and a sweep never raise it, a grant costs one, a tick gives at most the rate. These lemmas need a
history. A cancellation could give back a token that was never taken, were it not for `Numbered`: the reservations of a bucket that are not
yet cancelled carry different numbers, none above the bucket's latest event, which equals its debt; so only the
latest one gives a token back, and the bucket stays at or below zero until the end of the tick (`Refused`).

`WritesProofs` proves, for any number of requests, tasks and keys: `EventsCorrect`, `AnswersCorrect`, `NotificationsCorrect` and
`AtomicWritesRefinement`. The invariant says of a transaction what it has written and holds locked (`Pending`, `Locked`, `Reserved`),
of what a key remembers that a request of that key committed it (`Remembered`), and of every job that its event is of a version that the
task has reached (`Queued`). The last is what `EventPerChange` needs and does not say: a
new event is of a version not reached yet, so the outbox has no job for it and `ON CONFLICT` never drops it.

`PoolProofs` proves, for any number of processes, goroutines and jobs, all of them finite sets, and whatever the timing: `EntriesOwned` and
`QueueRefinement`. The invariant has the types, the shape of each process by itself (`Local`: which claims the loop, the goroutines and
the map may share), and the count of processes that must stay up. With the refinement, what `QueueProofs` shows of `Queue`
holds of the table as pools use it. That step is made by the prover too: `PoolProofs` has `QueueProofs` as an instance whose
`held` and `up` are read off the threads, and `FleetFenced`, `FleetBudget`, `FleetTable` and `FleetLifecycle` are the theorems
of `Queue` for the fleet's threads, the last of them a refinement in two stages, from `Pool` over `Queue` to `JobLifecycle`. Three more theorems, `OneHandlerCorrect`, `RunsTracked` and
`OnlyTailsLost`, are about `HistorySpec`, which is `Pool` with the history of `PoolTail`, and assume `Timely` only: the batch may have any size. Without `Timely` any
lease may lapse. Their invariant is about one job and one process whose heartbeat is alive, and holds of every job that was not overtaken:
each claim of the job that a thread holds is the row's current claim under a live lease, what is in hand or runs is in the map, and a run that has written its
outcome but not yet left the map stands in no claim's way (`Healthy`). It has to be told job by job, because a tail that lapses spoils its own job for good and no
other. The step that needs `overtaken` is `HeldRenewed`: a claim is in the map and renewed, or it is in a batch, and then its lease runs out in a tail or not at all.

`MemoryProofs` proves, for any number of requests and keys, any finite set of ids, any page size and any timing: `KeysOwned`, whose property
is inductive with the types, and `WalksCorrect`. For the walk the invariant says that the cursor separates what the client got from what
is still to come, however rows are added and removed on either side (`Walked`); that a page ends at a row with nothing skipped needs
the least element of a finite order, taken from the well-foundedness of the naturals (`Smallest`). `AnswersTrue` and
`MemoryRefinement` assume that requests end within their key's TTL (`Slow = FALSE`); `MemoryLate.cfg` is the counterexample without it. There a
record in progress has one owner (`Owned`), and what is stored or answered is a change that was made for that operation
(`Kept`, `Answered`).

`DeliveryProofs` proves, for any set of jobs and every retry, backoff and breaker setting that validation accepts, from
`DeliveryAssumption` and `BreakerAssumption`: `OwnFaultsHarmless`, `DiscardsEarned`, `SnoozesOutlast` and `TriesBounded`. None of
the three properties of the run is inductive. For the first, `Calm` adds that without an outage and a cancellation the window holds no failure at all:
`NoTrip` shows that a positive rate threshold is then out of reach. For the second, `Charged` keeps an account: a job's
failures cover `MaxTries` for every attempt it has used and not got back, plus the failed tries of its present run. A snooze takes
an attempt off the account and leaves the failures, so the account stays covered; the last failure of the last attempt
fills it. For the third, `Held` says where a job is that the present opening has refused: on its way to the snooze, or
waiting at least as long as the opening lasts, since the delay is read after the refusal and both run down with the same clock. A job in either
place has no call out, so a late answer of another job cannot bring it back.

Only model-checked: every liveness property,
`CrashedJobReclaimed`, `EndedRowsPurged`, `DrainEnds`, `NoJobLost`, `RequestAnswered`, `RecoveryDrains`, `PickedUp`, `Quiesces`,
`EditApplied`, `ShutdownEnds`. Fairness and `ENABLED` are out of the prover's reach.

## Mutants

Each property of a passing run has a mutant in `PROJECT.json`: a definition with a bug it could
plausibly have (a dropped condition, an off-by-one, a missing reset). The variants stand before
the definition they replace, marked *Mutant*; no specification uses them.

## Plan

1. *Done*: the queue (`JobStore`, `JobTable`, `Queue`, `JobLifecycle`, `Pool`, `PoolTail`, `QueueProofs`).
2. *Done*: the write path over Postgres (`Writes`, `AtomicWrites`) and in memory (`Memory`); `Lifecycle`.
3. *Done*: what surrounds them (`Wakeup`, `Breaker`, `Delivery`, `Limiter`, `Quota`, `Ingress`, `Settings`, `Configuration`,
   `Reload`, `ProcessProofs`, `WakeupProofs`, `IngressProofs`).
4. *Done*: proofs of the threads and the write paths (`PoolProofs`, `WritesProofs`, `MemoryProofs`), and the refinements of `Queue`,
   `AtomicWrites` (twice) and `Quota`.
5. *Done*: the invariants of `Delivery` (`DeliveryProofs`), and the theorems of `Queue` for the pools' threads. Every safety property of
   a passing run is now a theorem.

## Not modelled

- Transcoding between REST and Connect, CORS, compression, the access log: stateless plumbing of one request.
- Metrics, tracing, logging with its redaction and its throttle: output only. Nothing that is decided depends on it.
- The leader lock: a second leader adds no behaviour, since each sweep statement is atomic.
- `App.New` and `Close`, the CLI's commands, migrations: they run alone, before or after everything else.
- Generated code, the test environment, the webhook sink used in deployments for demonstration.
