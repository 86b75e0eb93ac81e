# TLA+ models of the ticket classifier

The service takes support tickets over HTTP, commits them to PostgreSQL, has
them classified by a language model in Celery workers (or inside the request),
routes them to a department queue and lets support agents edit them. This
directory holds its formal models: TLA+ modules, configurations that check them
with TLC, and theorems proved with TLAPS. Line numbers below are those of the
repository at the modelled commit; `PROJECT.json` maps every definition to the
lines it stands for.

    tlc -workers 2 -config Pipeline.cfg MCClassificationPipeline
    tlapm ClassificationPipelineProofs.tla

## 1. Inventory

| Component | State it keeps | Operations | Talks to |
|---|---|---|---|
| Ticket API (`services/ticket_service.py`, `api/v1/endpoints/tickets.py`) | rows of `tickets` | create, create_batch, get, list, update_status, correct_classification, assign | PostgreSQL, broker (publish), cache |
| Classification (`services/classification_service.py`) | `tickets`, `dead_letters` | `_claim`, `process`, `record_failure` | PostgreSQL, a classifier |
| Celery task and worker (`tasks/classification.py`, `workers/celery_app.py`, `tasks/dead_letter.py`) | messages and unacknowledged deliveries in Redis, dead-letter notifications | run, retry, notify, acknowledge | broker, Classification |
| OpenAI client (`services/openai_service.py`) | nothing beyond a call | classify with two models, backoff, `Retry-After` | provider |
| Local classifier (`services/local_classifier.py`) | nothing | category and urgency of a text | — |
| Ticket cache (`services/cache_service.py`) | `ticket:v1:<id>` keys with a TTL | get, set | Redis |
| Routing (`services/routing_service.py`, migrations 0006 and 0007) | `tickets.assigned_queue` | assign_queue, data migrations | PostgreSQL |
| Accounts (`services/auth_service.py`, `endpoints/admin.py`, `scripts/create_admin.py`) | `users` | register, change role/activity, create_admin | PostgreSQL |
| Sessions (`core/security.py`, `api/dependencies.py`, `endpoints/auth.py`) | a signed cookie in the browser | login, logout, authenticate, role checks | `users` |
| Rate limiter (`api/rate_limit.py`) | one Redis counter per client and window | admit or reject | Redis |
| Pricing (`ai/pricing.py`) | nothing | token cost | — |
| HTTP stack (`main.py`, `api/middleware.py`, `core/exceptions.py`, `endpoints/health.py`) | Redis client and engine of the process | headers, error bodies, probes, start-up and shutdown | limiter, handlers, Redis, PostgreSQL |
| Browser client (`frontend/app.js`) | tickets on screen, `state.polling`, `state.loading`, timers | submit, poll, reload, show | API |

The parts meet at the row of a ticket. The API writes it and *then* publishes a
task; a worker claims it in one transaction, waits for the model *without* one,
and saves or records the failure in another; agents write it at any time; the
cache copies it; the migrations rewrite it in bulk.

**What is hard here.**

- Deliveries are acknowledged late and restored by the broker after a crash or
  after the visibility timeout, also while the first worker still runs: every
  step may happen twice, and between any two transactions of a worker another
  worker or an agent may change the row.
- Three stores have to agree without a common transaction: PostgreSQL (row,
  dead letter), the broker (message) and Redis (notification). Every publish
  may fail after the commit that promised it.
- The retry decision depends on the class of the error and on the retry number
  of *this delivery*, which a restored older delivery of the same task lowers.
- Inside a request, SQLAlchemy's identity map makes `SELECT ... FOR UPDATE`
  return the session's own copy of the row.
- Two retry budgets, jitter and `Retry-After` have to fit the visibility timeout.
- A cached representation, a loaded user and a row read before an UPDATE are
  all used after they may have changed.
- A window's counter is dropped by a TTL while requests of the window are on
  the way.
- Five middleware layers are nested by the order of five statements, and what
  an exception or a refusal looks like depends on which layers it still meets.
- The page of the customer mixes answers of polls, of reloads and of its POST,
  any of which may be late, lost, or older than what it shows.

`PROJECT.json` lists each hazard at its line with the properties that watch it.

**What makes each part correct.** No ticket is stranded without a cause one can
name; a completed row is not touched by late deliveries; a failed ticket has
its audit row, written once, and is announced only with it; the queue empties
(pipeline). Reported attempts are the calls made, the fallback has its own
budget, and one classification ends before redelivery (OpenAI). An answered
request leaves its ticket settled, audited if it failed, and with a
`retry_count` that says how often the provider was asked (inline). The cache is
read by administrators only and converges (cache). The two forms of the routing
rule agree (routing); the local rules name the category a reference definition
names (local classifier). One account per address, no lost changes (accounts).
Nothing is served that the user was never entitled to during the request
(sessions). At most the limit per window until its counter can be dropped, no
more than the limit for each later lifetime of a counter, and deserved
rejections, whatever Redis drops or loses (rate limiter). A handler runs once or
never, and every answer is whole (HTTP stack). Polling ends, and the page comes to show the rows (browser).

## 2. Modules

| Module | What it models |
|---|---|
| `TicketLifecycle` | abstract: what the `tickets` and `dead_letters` rows promise, whoever writes them |
| `ClassificationPipeline` | API, broker, workers and agents around the rows, one action per committed transaction or message |
| `ClassificationPipelineProofs` | its theorems |
| `OpenAIRetry` | one classification by `OpenAIService`, in time units |
| `InlineClassification` | classification inside the request, with the session's copy of the row |
| `InlineRequest`, `InlineRequestProofs` | composition of the two before, with `retry_count`; the theorems of the client and of the request |
| `TicketCache`, `TicketCacheProofs` | cache-aside reads of one ticket; its theorems |
| `LocalClassifier` | the local rules, as operators |
| `QueueRouting`, `QueueRoutingProofs` | `RoutingService` and migrations 0006/0007 among writes, local classifications included; its theorems |
| `Accounts`, `AccountsProofs` | the `users` table under unlocked read-then-write; its theorems |
| `Sessions`, `SessionsProofs` | login, cookies, authentication and role checks against role changes; its theorems |
| `WindowBudget` | abstract: what a fixed-window limiter promises |
| `RateLimit` | the limiter with expiry, lateness, lost replies and exempt paths |
| `HttpStack`, `HttpStackProofs` | the layers of `create_app` around the limiter and a handler; the theorems of both |
| `TicketScreen`, `TicketScreenProofs` | the customer's page over the rows of `TicketLifecycle`; its theorems |
| `MC*` | symmetry sets for TLC |

How they are put together:

- `ClassificationPipeline` holds API, broker, workers and agents in one module,
  because they share the row; `Lifecycle == INSTANCE TicketLifecycle` in it
  states the refinement.
- `InlineRequest` EXTENDS `OpenAIRetry` and takes
  `Inline == INSTANCE InlineClassification`: while the handler is classifying,
  the provider's client takes its steps, and how it ends decides what the
  handler may do next. In the pipeline `classifying` abstracts the same client
  by the number of extra attempts it reports (`ExtraAttempts`).
- `HttpStack` EXTENDS `RateLimit`, whose
  `Budget == INSTANCE WindowBudget` states the refinement: `spent` is the number
  of requests charged to a window, `verdict` what became of each request, and
  `closed` the windows that ended more than a second ago.
- `TicketScreen` EXTENDS `TicketLifecycle`: what the page sees are rows that
  behave as the abstract life cycle allows, so by
  `PipelineImplementsLifecycle` those of the pipeline too.
- `Accounts` and `Sessions` share the table `users`: the first models how it is
  written (two steps, a unique index), the second how it is read (writes are
  one step).

### State and actions in the code

**ClassificationPipeline.** `status`, `verdict`, `retryCount` and `deadLetter`
are columns; `outbound` is what an API request has committed and not yet
published; `broker` counts the copies of each message (Redis keeps no useful
order between priorities, retries and restored deliveries, so messages are a
bag); `msg` and `pc` are the delivery and place of each worker slot, `unacked`
the deliveries the broker will restore. A transaction from `FOR UPDATE` to
`COMMIT` is one action: `Claim` (`_claim`), `SaveResult` (`process`),
`RecordFailure` (`record_failure`), `UpdateStatus`, `CorrectClassification`.
Everything that can fail has a failing twin, with a Boolean for "the commit had
gone through": `ClaimFails`, `SaveFails`, `RecordFailureFails`,
`PublishRetryFails`, `DispatchFails`. `Crash` loses a worker and restores its
delivery; `Redeliver` is the visibility timeout. A crash also covers
`worker_cancel_long_running_tasks_on_connection_loss`. A task keeps its id
through Celery retries and each ticket is published by one call, so the ticket
stands for the task id. In the worker, the object `_claim` loaded is released
before the second transaction, so `process` reads the row anew; that differs
inside a request, which `InlineClassification` is about.

`incidents` is a history variable. It names the only ways in which the code may
leave a ticket: a publish that failed, a retry that was not published, a
failure that was not recorded, a delivery the broker dropped, an agent's
override. `NoSilentOrphan` says that there is no other.

**OpenAIRetry.** `Succeeds`, `FailsTransiently`, `PrimaryExhausted`,
`AllModelsFail`, `FailsPermanently` are the outcomes of one provider call in
`_attempt_model` and `classify_ticket`; `Wait` is the sleep between them. The
bounds of `Settings` (5 attempts, 120 s timeout, 60 s backoff, 300 s
`Retry-After`) are the assumption `VisibilityAssumption`: they amount to exactly
3600 s, the broker's `visibility_timeout`.

The client's `Spec` is the classification alone; its proofs are about it, and
`InlineRequest` runs it.

**InlineClassification.** `seen` is the status attribute in the session of the
request, which is what the handler decides on: `get_for_update` locks the row
but does not reload an object the session already has. `AcceptBatch` is
`create_batch` without background processing: nothing classifies those tickets.
`ClaimRow`, `SaveRow` and `FailRow` are what the three transactions commit.
Nothing between an error and `record_failure` (`ticket_service.py:82-98`) rolls
the session back, so a database error has one of two effects.

- `CheckoutFails`: the first statement of the claim or of the save gets no
  connection. The session has no transaction to lose; it keeps its copy, and
  `record_failure` goes on with it.
- The session is not usable after a failed statement (its transaction is
  aborted) or a failed commit (it waits for a rollback), and after a commit
  whose refresh failed the ticket's id cannot be read: what `create()` does next
  raises, and the request dies. `RequestDies` is that case when nothing was
  applied, and a process that is gone; `DiesCommitted` when the write was
  committed and only its answer, or the refresh, was lost.

**InlineRequest.** `AwaitProvider` is a step of the client, `SaveResult`,
`ClassifyFails`, `CheckoutFails`, `RecordFailure` and `DiesCommitted` are the
handler's with the column `retry_count`: a result adds `attempt_count - 1`, an
exhausted provider `attempts - 1`, any other error 1. Without a credential the local rules answer
at the first attempt and never fail.

**TicketCache.** A row is a version number and whether it is COMPLETE. `Begin`,
`CacheHit`/`CacheMiss`, `ReadRow`, `Fill` and `Respond` are the awaits of
`TicketService.get`. `Fill` and the lookup may fail; the code treats that as a
miss.

**QueueRouting.** One action per write to the row and per migration step; the
SQL `CASE` of 0007 is written apart from the Python table it is compared with.
`ClassifyLocally` applies `LocalClassifier` to the ticket's `text`: how many
terms of each category it contains, and which groups of phrases. `Winner` is one
comparison of `max()`, applied in the order of the dictionary.

**Accounts.** A process looks (`SignUp`, `CreateAdmin`, `Change`), then writes
(`Insert`, `InsertRefused`, `Update`). `Merged` is SQLAlchemy's rule that only
columns with a changed value are written. Addresses have two spellings;
`Folded` is `str.casefold`.

**Sessions.** A client's request is sent with the cookie of a user, is
authenticated once (`copy` is the role it has loaded) and decides on that copy.
`create_batch` has no role check, as in the code. Token expiry is a
nondeterministic loss of the cookie or a 401. `held` and `agents` are
histories.

**RateLimit.** `Bypass` is an exempt path; `Arrive` computes the window,
`Charge` is the `MULTI` with `INCR` and `EXPIRE` and the decision, `ReplyLost`
the case where the transaction ran and the limiter does not know, `Unavailable`
the case where it did not run.

**HttpStack.** `Handle` is `call_next` down to the handler: it answers, raises
what `core/exceptions` turns into an answer, or raises anything else. `Layers`
lists the five layers in the order `create_app` adds them, innermost first;
`Response` passes the answer, or the exception, through what each does to it.
The layers keep no state, so this is a function of how limiter and handler
ended. Readiness is a handler with any outcome, exempt; `Probes` only answer.

**TicketScreen.** `phase` is what the page does about a ticket (`posting`,
`timer` and `asking` are the entry of `state.polling`), `wire` the answer to its
POST or GET on the way, `listed` the list on the way. `PostAnswered`,
`PollAnswered` and `CountAttempt` are `submitTicket` and the closure of
`pollTicket`; `ListAnswered` replaces the whole page. An answer is computed at
one moment and arrives at another, or not at all (`PostFails`, `PollFails`,
`ListFails`).

## 3. Runs

| Run | Instance | What it shows |
|---|---|---|
| `pipeline` | 1 ticket, 2 workers, 1 retry, 1 fault | types; `NoSilentOrphan`, `FailedIsAudited`, `RetriesAreRecorded`, `NotificationIsBacked`; `CompleteIsFinal`, `AuditIsPermanent`; refinement of `TicketLifecycle`; `QueueDrains` |
| `pipeline_notification` | 1 ticket, 1 worker | **violated**: a notification without its durable row |
| `inline_requests` | 1 ticket, 2 verdicts, 3 attempts per model, tight visibility bound | budgets, reported counts and total time of the client; an answered request leaves a settled, audited ticket whose `retry_count` is what the provider was asked; a COMPLETE row is written over only where an agent has set it; every ticket settles |
| `inline_idempotence` | 1 ticket | **violated**: a row completed by an agent is overwritten |
| `cache_reads` | 2 administrators, 1 customer, 3 writes | who reads the cache, convergence |
| `cache_staleness` | same | **violated**: an administrator is answered with a superseded row |
| `routing_migrations` | 1 row, every text of up to 2 terms per category | restored rows are routed as the service would; the local rules name the reference category |
| `account_changes` | 4 processes, 2 people, 2 spellings | one account per address, true answers, independent changes |
| `session_roles` | 2 users, 2 clients, 1 ticket | every grant, assignment and refusal is justified |
| `http_stack` | 3 counted requests and a probe, limit 1, window 2 s, up to 4 s late, 3 windows | refinement of `WindowBudget`, though counters are dropped with requests on the way; keys expire; a handler runs once or never; every answer is whole |
| `liveness_probe` | same, `/live` counted | **violated**: a liveness probe is refused |
| `ticket_screen` | 1 ticket, 3 polls | polling ends; the page converges to the rows |

The violated runs are the findings of `PROJECT.json`; each quotes the sentence
the code disagrees with.

### Bounds, and why they are enough

- *Tickets.* Every action of the pipeline but creation and dispatch touches one
  ticket, so its runs use one; that a batch published message by message loses
  none of its tickets is `NoSilentOrphan` for several tickets, which
  `OrphansAreNeverSilent` proves for any set. A request classifies its ticket
  alone.
- *Workers.* Two deliveries of one task must overlap for a race; a third would
  repeat what one of the two does.
- *MaxRetries = 1* gives both a retry and the exhaustion of retries; a restored
  first delivery then meets a row the retry has already failed.
- *MaxFaults = 1* lets a delivery be restored, or one write or publish fail,
  while another worker is anywhere in its task. Safety is proved for any number
  of faults; liveness is checked for one.
- *ExtraAttempts* {1} makes the provider's attempts differ from the number of
  Celery retries in `record_failure`'s maximum; one verdict is enough because a
  second save changes `retryCount` as well. Two verdicts in `inline_requests`
  let an agent's correction differ from the save.
- *OpenAIRetry* uses small units of time with `RetryAfters` below and above
  the cap, and a visibility timeout equal to the computed bound. Three attempts
  give a first, a middle and a last one per model.
- *MaxWrites = 3* lets a fill be overtaken by a newer fill that is itself stale.
- *MaxTerms = 2* gives every order and every tie of four scores with and without
  zero; `FirstBestIsChosen` holds for any bound.
- *Accounts*: two rows and two changes of one of them at once.
- *Sessions*: two users suffice for one to demote or deactivate the other, or
  itself, while the other's request is between two of its steps.
- *RateLimit*: with `Limit = 1` two counted requests fill and overrun a window,
  and the third belongs to the same or the next one. `MaxTime` covers three
  windows. `MaxLate` is the longest way from the stamp to the transaction, a
  slow clock of an API process included; four seconds are the two to connect and
  the two for a reply (`main.py:38-39`). The first key is dropped at the third
  second, and a request stamped with its window may come until the fifth: the
  counter begins again for it within `MaxTime = 4`. For any other lateness
  there are the proofs.
- *PollLimit = 3* (90 in the code) gives a poll that repeats, one that is the
  last, and one before it. One ticket is enough because the page relates tickets
  only by replacing the list as a whole and by disabling the button during a
  POST; with two the list would still be one answer.

Symmetry is used for safety only, never in a run with a liveness property.

### Fairness

- `ClassificationPipeline`: weak fairness of dispatching requests and of each
  worker. A handler that has begun is driven by its event loop and a worker slot
  takes the next message; provider calls and database calls end by their
  timeouts. Agents, creation, crashes and redeliveries are not fair: nobody has
  to act, and liveness holds whether they do or not (faults are bounded by
  `MaxFaults`; unbounded faults could starve any queue).
- `InlineRequest`: weak fairness of the client's steps, which end by
  `openai_timeout_seconds` and by the timer of a sleep, and of the handler's.
  Dying is not a step it is owed: `EverySettles` may not rely on it.
- `TicketCache`: of readers, and of expiry, which Redis guarantees for a key
  with a TTL.
- `TicketScreen`: the page stays open, so its interval, its timers and the end
  of each request are weakly fair. Strong fairness of the list's answer and its
  arrival says that the network does not lose *every* reload for ever; without
  it no page could converge. Nothing is assumed of POSTs or polls but that they
  end. `ScreenConverges` is conditional on the rows coming to rest.
- `QueueRouting`, `Accounts`, `Sessions`, `RateLimit` and `HttpStack` state
  safety only.

Deadlock is not checked where the system may rightly stop: all tickets
settled, all requests answered.

## 4. Proofs

For all values of the constants that satisfy the named assumptions.

**ClassificationPipeline.** `Invariance` proves `Spec => []Inv`, where `Inv` is
the conjunction of

- `TypeInv`: the types, and that a worker holds a delivery exactly when it is
  in a task, may be redelivered only then, and publishes a retry only below
  `MaxRetries`. Without the second part a step could read a ticket from
  `NoMessage`.
- `RowsExist`: every message, delivery and pending publish is for a committed
  row, so that `Claim` on an "absent" row cannot happen; the refinement needs it.
- `NoSilentOrphan` and `FailedIsAudited`, inductive given the former.
- `RetriesInv`: `RetriesAreRecorded` strengthened to workers about to publish a
  retry, whose retry number is one above the delivery they hold.
- `NotificationInv`: `NotificationIsBacked` strengthened to workers about to
  notify.

From it follow `TypeCorrectness`, `OrphansAreNeverSilent`,
`FailuresAreAudited`, `RetriesNeverOutrunTheRecord`, `NotificationsAreBacked`,
the action properties `CompleteRowsAreFinal` and `AuditTrailIsAppendOnly`, and
`PipelineImplementsLifecycle`: each action is shown to be a named action of
`TicketLifecycle` or a stutter. `DrainingSettles` derives `EverySettles` (every
committed ticket settles or met an incident) from `QueueDrains`, which the run
`pipeline` checks: once nothing is carried any more, `NoSilentOrphan` says the
rest, and rows stay. Assumptions: `MaxRetries` and `MaxFaults` are
naturals, extra attempts are naturals, null values differ from data.

**OpenAIRetry** (the first part of `InlineRequestProofs`). `Inv` adds to the types the *position*: calls and waits made
are a linear function of the model and the attempt; and the *clock*: elapsed
time is at most calls times the timeout plus waits times the longest wait.
`ClassificationFitsVisibility` then needs only that products are monotone and
`VisibilityAssumption`. `ReportedAttemptsAreCalls` and `BudgetsAreIndependent`
come from the position.

**InlineRequest.** `RequestInv` is the client's `Inv` and `Handling`, about the
handler. A step of the client keeps `Inv` by the client's own lemma (`NextInv`)
and leaves the row alone; a step of anybody else leaves the client alone and
keeps `Handling`. Its parts are

- `NotYetCalled`: no provider call before the handler waits for one. A claim
  that fails therefore cannot be counted as an exhausted provider.
- `Copy`: the session's copy of the status at each place of the handler. The
  row may differ from it only where an agent has set it; that is why
  `AnsweredIsSettled` has to except overridden tickets.
- `Count`: `retry_count` is 0 until the handler settles the ticket or dies. A
  handler that goes on to `record_failure` has therefore not counted anything
  yet, and the error is counted once.

`RetryCountsAreCalls`, `AnswersAreSettled`, `InlineFailuresAreAudited` and
`RequestTypeCorrectness` follow, for any settings within `SettingsAssumption`
and `VisibilityAssumption`; `ClientKeepsItsPromises` carries the client's bounds
over to the one the handler drives.

`CopyIsRow` says that while the handler may still write, the session's copy is
the row, unless an agent has set the row's status. It holds because a handler
whose write was committed without its knowledge cannot write any more: the
session is the same. A session of its own for the save, as the workers have
(the mutant `DiesCommitted_OwnSession`), would leave the handler with an old copy
and a way to act on it. With `CopyIsRow`

- `CompleteRowsStay`: the handler writes over a COMPLETE row only where an agent
  has set its status. A save whose answer was lost stays in the row.
- `InlineImplementsLifecycleUnlessOverridden`: every step is one of
  `TicketLifecycle`, a stutter, or `WritesOverAgent`. So the violated run
  `inline_idempotence` shows the *only* way in which the inline mode breaks the
  lifecycle that the workers keep.

**QueueRouting.** `BothColumns` (a classified row has an urgency *and* a
category) is what makes the SQL `CASE` and `RoutingService` agree on every row
0007 restores (`TheTwoRulesAgree`); without it the `CASE` answers "support" for
a NULL category where the service has no answer. `RestoredRowsAreRouted` and
`FirstBestIsChosen` hold for any table and any `MaxTerms`.

**Accounts.** `Inv` adds to the types and `SignUpAnswersTruly`

- `LookedUp`: what a process has found when it comes to write. One that inserts
  has no row yet; one that updates has a row before it and the content it read.
- `FoldedAndUnique`: stored addresses are folded and the unique index holds.
  Uniqueness alone gives one account per *spelling*; `OneAccountPerAddress`
  needs both parts.

`ChangesAreIndependent` needs `LookedUp` and that the wanted row differs from
the one that was read in the column of the goal only, so that the written
columns are among those. The only assumption is that `NoRow` is not a row; the
numbers of processes and people are arbitrary.

**TicketCache.** `ReaderInv` says what a reader holds at its place: a request
that is not an administrator's is never at the cache, nothing has been read
before the row is, and what is about to be stored was read from a completed row.
`OthersAreCurrent` needs the first two; `OnlyCompletedIsCached` the third: an
entry was committed, COMPLETE, and is the row or older than it. That it may be
older is the violated run `cache_staleness`.

**Sessions.** `RequestInv` has two parts, for each request on its way.

- `Remembers`: if its user is active, the user's present role is among the roles
  held since it was sent; and all present agents are among the agents since it
  was sent. A change of any user by any other client keeps it (`OthersRemember`),
  and nothing else touches it (`OthersKeep`).
- `Decides`: the copy it decides on is one of the roles held; a request that has
  checked an agent was an administrator's, for one of the agents remembered.

`WhatIsServedWasEntitled`, `WhoIsAssignedWasAgent` and `EveryRefusalHasAReason`
are then statements about the one step with which a request ends; `OwnStep` says
that no other client can end it, `ServedBy` and `RefusedBy` what can. An
assignment is served one step after its check, when the copy may be two changes
old: that is why `Decides` must carry the check's result. Assumptions: `Root` is
a user, and `Nobody` neither a user nor a role.

**RateLimit and HttpStack.** `LimiterInv` adds to the types

- `Stamps`: nobody is stamped in the future, more than `MaxLate` late, or
  charged before the transaction;
- `Keys`: a positive counter has a key, whose expiry is to come, at most
  `Window + 1` away, and *later than the first second after its window*;
- `Counts`: no counter exceeds the number of requests charged to its window.

From it follow `EveryCounterExpires` and `RefusalsEarned` (a 429 is given only
when more than the limit has been charged to the request's own window).
`StackInv` adds that a handler has run exactly once if it has ended:
`HandlersRunOnce`. `EveryAnswerIsWhole` needs no invariant: the five layers are
expanded in their order, whatever limiter and handler did.

`LimiterImplementsBudget` and `StackImplementsBudget` hold for any lateness too.
`Exact` is the strengthening: a counter *equals* the number of charges until more
than a second after its window, when the window is `Over`. An admission then
finds the budget below its limit or the window closed; a refusal needs only
`Counts`, which holds for good. `Charge` is `Admit` or `Reject` of
`WindowBudget`, `ReplyLost` is `ChargeAndWaive`, `Unavailable` and `Bypass` are
`Waive`, the clock is `Close`, and arrivals stutter.

What a closed window may let in is bounded by `StragglersAreFew`: before
`n * (Window + 1)` seconds have passed since a window began, it has admitted at
most `n * Limit` requests. For `n = 1` this is the limit itself, until a second
after the window; with the default window of 60 s, and requests that are up to
62 s late, at most twice the limit. Its invariant `Drops` has, for each window, a
number `k` of dropped counters (`Dropped`): each lived for `Window + 1` seconds
from its first request at least, and admitted at most `Limit`.

Assumptions: finitely many requests, a positive limit and window, and `Never` is
no time.

**TicketScreen.** `KnownAreThere` (what is listed, on the wire or polled has a
row, because rows never go: `RowsStay`) gives an answer to a poll its type, and
`PollsAreCounted` (a ticket that will be asked for again has an attempt left)
bounds `attempts`. They give `ScreenTypes` and `OnlyRowsAreShown`, for any
tickets - the run has one - and any `POLL_LIMIT`.

**Model-checked only.** Liveness (`QueueDrains`, the `EverySettles` of a request,
`CacheConverges`, `PollingEnds`, `ScreenConverges`): fairness and `ENABLED` are
outside what the prover supports. Every invariant and every action property that
a passing run checks is proved. Induction over data is outside too; no module
needs it, as none declares a `RECURSIVE` operator and the layers of `HttpStack`
are applied one by one.

## 5. What is not modelled

- Password hashing, token signatures and input validation: pure functions.
- Prompts and the provider's output schema: an invalid answer is a permanent
  error.
- Which words the local rules look for; the models start from how many match.
- Pricing: decimal arithmetic nothing depends on.
- `list` and analytics: they change nothing. The list orders by creation time
  without a second key, so two tickets of one instant may swap between pages;
  the page asks for the first hundred only, and `TicketScreen` has fewer.
- CORS preflights and header values. CORS is the innermost layer, so the
  limiter's refusals and the 500 of a crash carry no CORS headers and a browser
  of another origin cannot read them; `AnswersAreWhole` is about the other marks.
- The checks of `/ready`: an exempt handler with any outcome. Start-up and
  shutdown run once, before and after all requests, and catch what they close.
- Logging, metrics, settings and their validators: output or constants.
- Redis as such: eviction (`allkeys-lru` acts only with a memory limit, and none
  is configured) and the second of writes an append-only file may lose.
- Rows 0007 leaves out: its `UPDATE` is for complete tickets, so a classified
  ticket that is reopened at that moment stays in the support queue.
  `RestoredIsRouted` is about the rows it restores.
- Schema migrations 0001 to 0005: declarative, run before the service starts.
- `dispose_engine` at the end of a task: it runs after the outcome has been
  committed. If it raised, the task would end there and be acknowledged; what is
  left then is what `PublishRetryFails` and `Notify(w, FALSE)` leave.
- In the browser: rendering, search, the pages of agents and administrators,
  and the 404 branch of `pollTicket` (tickets are never deleted, and a customer
  polls the tickets it has created).
- Outbox, jobs, idempotency service: empty placeholders.

## 6. Plan

Done, in the order of importance: the pipeline with its abstract specification;
the provider's retries; the inline mode and its composition with the provider,
with its refinement of the lifecycle up to what agents have set; cache; routing
and local rules; accounts; sessions; the rate limiter with its abstract budget;
the HTTP stack; the customer's page; and the safety of each of them proved.

Next:

1. A composition of `OpenAIRetry` with a worker's delivery and the visibility
   timeout, in place of the set `ExtraAttempts`: no second delivery while
   `WithinVisibility` holds.
2. An abstract specification of a read for `TicketCache`, which an
   administrator's read implements with a bounded age and everybody else's
   exactly.
3. Rows that 0007 leaves out, and `create_admin` against concurrent changes:
   the hazards of `PROJECT.json` that have no property yet.
