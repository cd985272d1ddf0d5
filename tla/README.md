# Verification of the webhook gateway

TLA+ models of the event pipeline of this repository (`function_app.py`,
`src/webhook_gateway/`, `infra/queue/request_queue.py`), TLC instances that check
them, and TLAPS proofs of the results that matter most for every number of
events, handlers and callers. Paths below are relative to the repository.

## 1. The system

Providers (GitHub, generic senders, a delivery service, OpenAI, Anthropic,
OneDrive) call HTTP endpoints of an Azure Functions app. A verified request is
staged in a table, published to a Service Bus queue and marked sent; timers repeat
what failed. A queue worker analyses each event with one or two paid model
providers, or lists the changes of the OneDrive drive, stages the result in a
second table and publishes it to a results queue. Several instances of every
function run at once and any of them can stop between two remote calls. All
shared state is in Azure Tables, blobs and Service Bus.

| component | state | operations | what makes it correct |
|---|---|---|---|
| idempotency table (`idempotency.py`) | a row per (source, id): first envelope, `pending` or `sent` | stage (create, then read), mark_sent, pending(limit), get | first envelope wins; pending to sent, never back |
| webhook intake (`intake.py`, `queueing.py`, handlers of `function_app.py`) | none of its own | github, generic, openai, anthropic; `dispatch_pending_webhooks` | an acknowledged request is on the queue; one envelope per event |
| claim check (`payloads.py`) | blobs | prepare, resolve | a pointer always resolves |
| daily quota (`quota.py`) | a counter and a row per delivery, per repository and UTC day | allow | never above the limit; a recorded delivery takes no second unit |
| event processor (`worker.py`, `analysis.py`, `process_event`) | checkpoints per provider, result outbox | process, dispatch, `dispatch_pending_results` | recorded work is not paid for again; one result per event; nothing is forgotten |
| delta cursor store (`onedrive_sync.py`) | a row per drive: link, lease owner, lease end, committed owner | get, set, acquire, renew, commit, release | conditional writes amount to atomic ones |
| OneDrive delta job (`onedrive_sync.py`, `function_app.py`) | cursor row, result outbox | process, acknowledge, abandon, seeding | the cursor passes only reported changes and does not go back (§3 has the exceptions) |
| subscription maintenance (`function_app.py:240-327`, `onedrive_state.py`) | the recorded subscription, Graph's subscriptions | ensure, bootstrap, maintain, reconcile | the record is repaired whatever went wrong; every change is listed even without notifications |
| OneDrive notification intake (`intake.py:268-352`) | none | authenticate a batch by the record, publish a signal per kind | what is answered 202 has its job |
| `RateLimitedRequestQueue` (`request_queue.py:63-226`) | FIFO, futures, host deadlines, semaphores | start, enqueue, close, worker loop | no request is lost or doubled; callers are answered; backoff holds |
| `RequestQueue` (`request_queue.py:290-433`) | a queue, workers and deadline per host | enqueue, close | the same, with at most `max_attempts` calls per request |
| admission policy, signatures, settings, Graph and GitHub clients, health | none, or connections | pure functions and sequential I/O | unit tests reach them |

Interactions: intake calls quota, then the payload store, the table and the
publisher; the queue calls the processor; processor and result timer share the
outbox; OneDrive jobs, the result timer and subscription maintenance share the
cursor row, which bootstrap requests and the maintenance timer may seed at the same
time. The hard behaviours are the interleavings of these actors on shared
rows, crashes and ambiguous calls between two remote calls, redelivery after a
lost lock, leases that expire under a running worker, optimistic concurrency at
the last unit of a quota, and, in the asyncio queue, what changes across an
`await`. `PROJECT.json` lists each hazard at its line.

## 2. Modules

| module | models | checked by |
|---|---|---|
| `EventTable` | one table of `idempotency.py`: an operator per request to the service | used by Intake, Processing, OneDriveSync |
| `EventChannel` | abstract: what the inbox promises to providers and consumers | refinement in `Intake` |
| `Intake` | handlers, staging, claim check, quota, publisher, dispatcher, change of day | `MCIntake`, `Intake_proofs` |
| `AtomicQuota` | abstract: one atomic answer per request | refinement in `DailyQuota` |
| `DailyQuota` | the optimistic transaction loop of `AzureTableDailyQuota.allow` | `MCDailyQuota`, `DailyQuota_proofs` |
| `PeekLock` | a Service Bus message in peek-lock mode (external) | used by Processing, OneDriveSync |
| `Processing` | `process_event`, checkpoints, result outbox, `dispatch_pending_results` | `MCProcessing`, `Processing_proofs` |
| `CursorRow` | the condition and effect of each cursor operation on the row | used by the next three |
| `CursorLease` | abstract: atomic cursor operations | refinement in `CursorTable` |
| `CursorTable` | read, decide, conditional write, with ETags | `MCCursorTable`, `CursorTable_proofs` |
| `OneDriveSync` | delta jobs over an atomic cursor row, commit after publication, result timer, seeding | `MCOneDriveSync`, `OneDriveSync_proofs` |
| `Subscriptions` | `_ensure_onedrive_subscription` by bootstrap and timer at once, Graph's subscriptions, the record, notification intake, reconciliation | itself, `Subscriptions_proofs` |
| `RateLimitedQueue` | the asyncio queue with rate-limit backoff | `MCRateLimitedQueue`, `RateLimitedQueue_proofs` |
| `HostRequestQueue` | the asyncio queue with workers and a deadline for each host | `MCHostRequestQueue`, `HostRequestQueue_proofs` |

**Correspondence.** One action is one remote call, or in `RateLimitedQueue` and
`HostRequestQueue` one run from an `await` that suspends to the next. Actors (HTTP invocations, queue
workers, timers, tasks) have a record of local state with a `pc` and the values
the code holds in local variables at that point. Failures are actions of their
own: `Fail`, `Raise`, `Crash`, `Defer`, `TimerSkip`, `TimerEnd`. A call that was
applied but reported as failed is its action followed by the failure. `stage()`
is two requests (create, then read), as in the code; for provider checkpoints the
read is merged with the step that uses it, because an answer never changes once
stored.

*Intake.* `rows` is the inbox, `blobs` the claim-check container, `handed` what
the broker took (a set: its duplicate detection keys on a hash of source and id),
`charged` the quota partitions by day, `answered` a history of 2xx answers. The
policy, verification and hash are constants: `Admitted`, `Requests`,
`ContentOf`. `Reserve` is `AtomicQuota`'s step for the current day; `DailyQuota`
implements `AtomicQuota`, so nothing is lost by taking it as one step.

*Processing.* An answer of a provider is named after the delivery that paid for it:
two calls never return the same, and a delivery calls each provider once. `knew` is a
history: the answers on record when a
delivery began. OpenAI callbacks fetch the response again at each delivery and
have no checkpoint. The providers of an event are worked through in the router's
order. Checkpoints and results are rows of one table (`function_app.py:128`), and
`pending()` does not tell them apart: `Unsettled` counts the checkpoints in the way
of `dispatch_pending_results`, and `Room` is what they leave of its page. They come
first, because the rows are listed by partition. Other branches of `EventProcessor.process` make no remote
call and behave as an event with no provider. The dead-letter queue is the end of
a message.

*OneDriveSync.* The drive is a sequence of changes, and a delta link a position
in it. An expired delta token lists from the beginning. `owner` is the uuid of a
run, named after its job and delivery. Each cursor operation is atomic and may be
refused although its condition holds, which is what `CursorTable` shows of the
reads and conditional writes. `base` is a history: the changes before the first
cursor of the drive, which nobody owes. A seeder is an invocation of
`_ensure_onedrive_subscription` at lines 248-250: it finds no cursor (`SeederRead`),
asks for the latest link (`SeederList`) and writes it whatever the row then holds
(`SeederSet`). Bootstrap requests and the maintenance timer do this at once and nothing
protects it, so the seeders overlap freely with each other and with the jobs. What they
write over is in a history: `overwritten` has "link" once a seeding has replaced a
different link, and "lease" once one has set the first link under the lease of a job,
which may be listing the drive from the beginning. Failures of seeders are
`SeederFail`. The result timer's invocation ends with its page.

*Subscriptions.* An invocation goes through `cursor`, `record`, `get`, `list`,
`renew`, `replace`, `save` as the code does, and keeps the URL of the settings it
began with, which are cached per process; maintenance ends in `reconcile`, also when
the repair raised. `subs` is what Graph has; an id that has ceased to exist is replaced
by `Gone` where it is kept, because all the code can learn of it is a 404 or 410, and
the id is then free again. `Raise` ends an invocation at any call while Graph is
failing, and the subscription of a lost reply may exist. `dirty` means that no delta
job has been queued since the last change, and `told` that Graph was answered 202 for
it. A job is taken as done once it is queued: `Processing`, `OneDriveSync` and
`Intake` have what follows. The seeding (get, list, set) is one step,
because this module only asks whether there is a cursor; which link it ends up with,
when two invocations seed it, is the question of `OneDriveSync`. A notification batch
is one step as well, of which any part may have been sent when it is answered. Reads of
the record are assumed to succeed, as the staging
of a reconciliation in the same storage account must too.

*RateLimitedQueue.* Deadlines are counted down by `Tick`; `early` is a history of
calls that began while their host was backing off. Metrics are left out. A
`request_fn` that raises `CancelledError`, which would end the worker task, is
left out too.

*HostRequestQueue.* A worker that parses a malformed Retry-After is `dead` with its
request; `deadline` is what is left of `retry_after`. The tasks of
`_requeue_after_delay` are `delayed`. `close()` deals with one host per step, because
it awaits the cancelled workers in between, and ends as `returned` or, at a dead
worker, as `raised`. The delay of a backoff is any number of units up to the cap.

**Faulty variants.** Each module that models code also defines, under a comment
that says so, operators such as `OverwritesAnyEtag` or `NeverReleased`: a
plausible bug in one definition of the model. They are not used by the
specification. Substituting one makes the property it is paired with in
`PROJECT.json` fail, which shows that the property can tell the code from the bug.

## 3. Runs and bounds

| run | instance | shows |
|---|---|---|
| `intake_safety` | 2 invocations, 2 github events (one retried with a fresh `received_at`, one id reused with another content), 1 unit a day, 2 days, dispatcher | `MessagesAgree`, `SentIsHanded`, `PointersResolve`, `QuotaBoundsQueue`, refinement of `EventChannel` |
| `intake_liveness` | 1 invocation, 3 events, an oversize row at the head of the page, page of 2 | `PendingIsDispatched` |
| `processing_safety` | 1 event of 2 providers, 1 callback, 2 workers, 2 deliveries, page of 1 | `ResultsAgree`, `NoRepeatedWork`, `ResultsAreRecorded`, `NothingForgotten` |
| `processing_liveness` | 1 event of 1 provider, 1 callback, 1 worker, 2 deliveries, page of 2, fair | `QueuedIsPublished`, `StoredIsPublished` |
| `daily_quota` | 3 callers, 3 deliveries, 2 units, 2 attempts | `CounterAgrees`, refinement of `AtomicQuota` |
| `cursor_table` | 2 clients, 2 owners, 1 link, 3 writes | refinement of `CursorLease` |
| `onedrive_sync` | no cursor at first, 2 seeders, 2 jobs with 2 deliveries between them, 2 workers, 1 change | `OnlySeedingSkips`, `OnlySeedingGoesBack`, `CommitIsPublished`, `ResultsAgree` |
| `subscriptions` | 1 bootstrap and the timer, 2 subscriptions, 2 URLs, 2 faults (crash, removal, deployment), any number of outages, fair | `SubscribedIsSeeded`, `TrustedAnswers`, `ChangesAreListed`, `Repaired` |
| `request_queue` | 3 requests, 2 hosts, 2 workers, 1 backoff each, fair | `InOnePlace`, `EnqueuedIsSettled`, `CloseReturns` |
| `host_request_queue` | 2 requests to one host, 1 to another, 1 worker each, 2 attempts, delays up to 2, fair | `InOnePlace`, `BackoffRespected`, `NothingLeftRunning`, `EnqueuedIsSettled` |
| `onedrive_seed_race` | no cursor, 2 seeders, 1 job, 2 changes | **violated:** `NoChangeSkipped` |
| `queue_backoff` | 2 requests to 1 host, 2 workers | **violated:** `BackoffRespected` |

Why the bounds are enough. The races are between two actors on one row, so two
invocations, workers or clients and one contended row make each of them happen.
Two deliveries of one message let two workers hold it at once (a lost lock), let the
second find what the first recorded, and dead-letter it. The liveness run has one
worker, next to the timer: what two workers do to each other is the question of
`processing_safety`. A page of two lets a checkpoint take one of
its places while two results wait. Three writes let a client read, lose its ETag to
another writer and find a third state. One
change makes two links, before and after it, and that is enough to skip it, to leave it
out between two lists and to go back over it. Two seeders let one write over the other,
before, between or after the steps of a job; two deliveries let two jobs, or two runs
of one job, hold and lose the
lease in turn. Two units and three deliveries reach the limit with a race for the last
unit. Two subscriptions are the recorded one and a duplicate, an orphan or one of an
earlier URL; two faults let a deployment and a crash or removal meet in one repair.
One worker per host is the default of `RequestQueue`. `MaxDay`, `MaxWrites`,
`MaxChanges`, `MaxDelivery`, `MaxRuns`, `MaxFaults`, `MaxDelay`, `MaxAttempts` and
`MaxLimited` are the only bounds on counters; `MaxDelivery`, `PendingLimit`,
`MaxAttempts` and `MaxDelay` stand for values the code has (10, 100, 5 and 30 seconds). Deadlock is unchecked
(`CHECK_DEADLOCK FALSE`) where the system really stops: all messages completed or
dead-lettered, or the request queue closed. Symmetry is used only in runs without
liveness. `onedrive_sync` also has a view, `MCView`: it leaves out of a state the messages
once all deliveries are used up, and the owner of a worker that dispatches a stored
result (it acknowledges in the name of that result's owner). No later step reads either,
and no property but `TypeOK` speaks of them.

### Fairness

* `Intake`: weak fairness of the timer, which the Functions host runs every
  minute, and strong fairness of its publish and mark calls: an outage of the
  table or broker ends. Nothing is assumed of providers or of HTTP invocations,
  so a handler may die for ever and its rows are still sent. Rows that can never
  be sent (messages above the size limit) must be fewer than the page:
  `PendingIsDispatched` states that as its hypothesis, and with as many poison rows
  as the page is long the dispatcher does starve the others.
* `Processing`: a worker goes on until it ends (`functionTimeout`), the queue
  delivers what is queued, a lock that nobody holds runs out, and the timer as
  above. A worker may crash or fail at any time. Both properties have `Room = 0` as
  a way out: when checkpoints fill the page (never, at the bounds of the run), the
  results behind them wait.
* `RateLimitedQueue`: the event loop runs each ready task, calls return, time
  passes, `start()` is called, and asyncio's FIFO semaphore does not pass a
  waiting task over for ever (strong fairness of `AcquireSemaphore`).
* `Subscriptions`: the 12-hour timer comes up again, its invocation goes on until it
  ends (each call returns or raises within urllib's 30 seconds), and a reconciliation
  is published (by the dispatcher at the latest, see `Intake`). Nothing is assumed of
  Graph or of bootstrap requests: `ChangesAreListed` holds through endless outages and
  without any notification; `Repaired` has the end of the outages as its hypothesis.
* `HostRequestQueue`: the event loop runs each ready task, calls return, time
  passes. Nothing is assumed of callers or of `close()` being called.

### Disagreements found

1. **The seeding writes over a cursor** (`function_app.py:248-250`). A seeder finds no
   cursor, asks for the latest link and writes it unconditionally. Two that overlap
   (`bootstrap_onedrive`, line 561, and `maintain_onedrive_subscription`, line 677) both
   find none: the first writes its link, a change is made, the second lists and writes
   over it. The change is behind the cursor and no result reports it, with no job in
   flight, although `intake.py:282-284` promises "without losing file changes". That is
   the trace of `onedrive_seed_race`. A job that finds no cursor either, lists the drive
   from the beginning and commits before the seeder writes is overwritten in the same
   way; with one seeder instead of two TLC finds that trace.
   The same overlaps take the cursor back, against the "owner-conditional cursor commit"
   of `docs/webhook-setup.md:32`: the seeder that listed first writes last, over a newer
   link of another seeder or of a job; or a seeder sets the first link under the lease of
   a job that listed the drive before, whose commit then goes back to an earlier
   position. Changes are then reported twice, and none is lost by it.
   What the code does keep is `OnlySeedingSkips` and `OnlySeedingGoesBack`: nothing but
   these overwrites, in any interleaving of seeders, jobs and the timer, makes the cursor
   pass an unreported change or go back.
2. **Backoff is not checked after the semaphore** (`request_queue.py:166-174`). A
   request that waits for the semaphore while the call before it is rate limited
   is made at once.

The models also show the following, for which no run is kept.

* A retry after midnight of a delivery that was charged but not staged takes a second
  unit, where `docs/webhook-setup.md:257` says that retries of one delivery consume
  one. It stays within each day's limit, which is what `QuotaBoundsQueue` checks.
* A recorded delivery can be refused (`quota.py:178-203`): the event entity and the
  counter are two reads, and another invocation can record the same delivery with the
  last unit between them. `tests/test_quota.py:179` states that an accepted event is
  allowed after the limit is reached. A later retry is allowed.
* A checkpoint that is staged and not yet marked when its delivery ends is listed by
  `dispatch_pending_results`, which cannot read it as a result, logs the error and
  leaves it. A redelivery marks it; after the last one it stays. A hundred of them
  fill the page, and results that only the timer can publish are no longer published.
* A reconciliation that runs while the cursor could not be seeded starts a job that
  lists the drive from the beginning: more work than needed, nothing lost.
* Two invocations with different settings, during a deployment, delete each other's
  subscriptions. The next maintenance run repairs that (`Repaired`).
* In `RequestQueue` one malformed Retry-After ends a worker for ever, and with it, at
  the default concurrency, the host; `close()` then raises and leaves the workers of
  later hosts to end with their next request.

## 4. Proofs

Each module that models code has a module of proofs. Its theorems hold for every
value of the constants that satisfies the module's `ASSUME`, which TLC evaluates on
every run. The assumptions say what the constants are (subsets, functions, naturals,
markers such as `None` that are none of the data), and further:

* `DailyQuota`: the limit and the number of attempts are positive, which
  `_validated_inputs` and `__init__` enforce;
* `Processing` and `OneDriveSync`: a message is delivered at least once
  (`MaxDelivery`); a route names a provider once, as the router does;
* `Subscriptions`: there is a URL to notify (`_onedrive_target` returns one or raises);
* the request queues: finitely many workers, at least one per host in
  `HostRequestQueue`, and positive limits, which the constructors enforce; attempts
  and delays are positive by default and in every use. Requests and hosts need not be
  finite.

Every safety property that a passing run checks is a theorem; the temporal ones among
them are the three refinements and `OnlySeedingGoesBack`. A property is seldom
inductive: it speaks of the tables and queues, while a step is taken from what an actor
read some steps before. Each `IInv` therefore adds what the actors know at each `pc`.

*Intake.* Type correctness, `SentIsHanded`, `MessagesAgree`, `PointersResolve`,
`QuotaBoundsQueue` and the refinement of `EventChannel`. `HandlerKnows` and
`TimerKnows` say: in `create` the blob of the request exists;
in `read` the row exists; in `publish` and `mark` the staged envelope is that of the
row and has the content of the request; in `mark` the message is on the queue; each
message of the dispatcher's page is that of a row, and its current one is on the
queue. `AnsweredIsHanded` adds that a request answered with success has its content on
the queue. These are preserved because rows, blobs and messages only
grow and a row's envelope never changes. The refinement then maps `Publish` and
`TimerPublish` of a new message to `Accept`, a success answer to `Acknowledge`, and
every other step to a stutter. For the quota, `QuotaInv` says that the row of a GitHub
event, and a handler about to create one, have been charged; that no day to come has
charges; and that the events charged so far number at most the limit for each day gone
and the charges of today, which a step raises by one at most and only below the limit.

*DailyQuota.* Type correctness, `CounterAgrees` and the refinement of
`AtomicQuota`. The inductive invariant says that the counter equals the number of
recorded deliveries, that the granted ones are among them, that no caller holds an
ETag from the future, and that a caller whose ETag is the current one holds the current count, which was below the
limit when it was read. Hence a transaction that applies adds one to a count below
the limit. `Submit` maps to `Grant`, `SubmitUnheard` to `GrantUnheard`, a full
counter to `Refuse`.

*Processing.* Type correctness, `ResultsAgree`, `NoRepeatedWork`,
`ResultsAreRecorded`, `NothingForgotten`, and `NothingIsTakenBack`: no step undoes a
recorded answer, a stored result, a publication or a mark. That last fact is what makes
knowledge lasting, so that what one worker knows survives the steps of all others. The
heart of `WorkerKnows` is `Gathered`: the output a worker holds is, for each provider
it has dealt with, the recorded and marked answer, and empty for the providers outside the
route. When nothing is left to do this is `ResultsAreRecorded` for the row it stages.
`DeliveriesLeft` bounds the deliveries, and so the names of answers.

*CursorTable.* Type correctness and the refinement of `CursorLease`. The inductive
invariant is that an entity whose ETag is still current is the row, except that
the lease may have expired since, and that the request was allowed on the entity
read. A write that applies is then the atomic operation on the row it replaces: expiry
in between takes no permission from the owner, and cannot have made a live lease free.
A refusal or a lost race maps to the refusal that `CursorLease` always allows.

*OneDriveSync.* For any constants, any number of overlapping seeders among them: type
correctness, `ResultsAgree`, `CommitIsPublished`, `OnlySeedingSkips` and
`OnlySeedingGoesBack`. `OwnersDiffer` and `OwnersAreRuns` establish that an owner names
one run; `WorkerKnows` and `TimerKnows` that what is acknowledged is published and
stored. `CursorInv` is the argument for the cursor. A list whose owner still is the
row's owner begins no later than the cursor while no seeding has replaced a link
(`ListsBegin`), and ends no earlier while none has set one under a lease either
(`ListsEnd`); a run that lost its lease has an owner that the row will not have again. A
commit needs the owner, so the first fact extends the reported changes without a gap,
and the second keeps the cursor from going back. A seeding that finds no link in the row
moves the beginning (`base`) and skips nothing; any other one is in `overwritten`. So
one seeding after the other, or many of the same link, are covered by the theorems, and
what they exempt is exactly what the disagreement above is about.

*Subscriptions.* Type correctness, `SubscribedIsSeeded`, `TrustedAnswers`. The
addition is that an invocation past its first call has seen the cursor
seeded, and a cursor that is seeded stays so.

*RateLimitedQueue.* Type correctness and `InOnePlace`. `Placed` says where a request
can be in terms of membership (queued, held by a worker, delayed: at most one of them,
none before it is enqueued, one while it is waited for); `NoneTwice` and `OneHolder`
that none of the places has it twice. The cardinalities of `InOnePlace` follow at the
end. `BackoffRespected` does not hold here (`queue_backoff`).

*HostRequestQueue.* Type correctness, which includes that no request is called more than
`max_attempts` times and rests on `Spare` (what has still to be called has an attempt
left); `InOnePlace` by the same scheme, with `Home`: a host's queue and workers have
requests of that host only; `BackoffRespected` from `Punctual`: the only worker of a
host does not wake before the host's deadline, which nobody else moves;
`NothingLeftRunning` from `Stopped`, a host that `close()` has dealt with has only ended
workers, and `Together`, the workers of a host are started all at once.

Only model-checked: all liveness (`PendingIsDispatched`, `QueuedIsPublished`,
`StoredIsPublished`, `ChangesAreListed`, `Repaired`, `EnqueuedIsSettled`,
`CloseReturns`), which with fairness and `ENABLED` is out of the prover's reach. The
two violations are TLC's too: each is a counterexample on a small instance.

## 5. Not modelled

Signature verification, the admission policy, analysis prompts and validation,
settings, the GitHub client, paging and URL checks of the Graph client, health,
deployment: pure or sequential code without shared state that changes. The memory and
SQLite stores do under one lock what the Azure stores do in several requests. The
contents of events, results and messages are abstracted to identity and, where it
matters, equality of content. Blobs are never deleted by the code and so never here.
What Graph does with the notifications of a subscription that is not recorded (it
repeats and drops them) is no more than that they have no effect.

## 6. Plan

Acknowledged events and paid work came first (intake, quota, processing), then the
drive (cursor, delta jobs, subscriptions), the two request queues, and the proofs of
the safety properties. What is left:

1. An abstract specification of the result outbox (the first result staged is the one
   published, once) with `Processing` and `OneDriveSync` proved to implement it: the
   steps are those of `NothingIsTakenBack` and of `ResultsAgree`.
2. `OneDriveSync` takes each cursor operation as one step; that its row is one of
   `CursorLease` is now argued in words and could be a theorem.
3. `Repaired` has a safety half that can be proved: what an undisturbed maintenance
   run records is a subscription that Graph has.
4. What `close()` of `RateLimitedQueue` leaves behind: a `Stop` for each worker that
   has not ended, the safety half of `CloseReturns`.
