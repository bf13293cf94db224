# ReachPath: TLA+ models, checks and proofs

ReachPath (`src/`) is a FastAPI service that runs prospecting research: a client posts a
request, a background task or a worker takes it through three platform services
(SearchSwarm, ARGUS, ReportForge), and the dossier is stored, exported and announced to
webhooks. This directory holds models of the parts of it that are hard to test, the TLC
configurations that check them, and theorems that TLAPS checks.

`tlc -config X.cfg M` checks a configuration, `tlapm M.tla` a proof; `PROJECT.json` says
which configuration goes with which module, which source lines each definition stands
for, which mutation of a definition each property detects, and which hazards of the code
each property is for.

## 1. The system

| Component | State | Operations | What makes it correct |
|---|---|---|---|
| Research runs (`store.py`, `api.py` handlers and `_execute`, `worker.py`) | `research_runs`, background tasks of the API process, the list a worker drains | create/replay, cancel, clarify, purge, privacy delete; claim, budget check, attempt, report | one attempt at a time; a result belongs to the request shown; what is over stays over; queued runs are taken up; the budget bounds spending; one run per Idempotency-Key |
| Service client (`clients.py`) | consecutive failures, time the circuit opened | `_request` with retries and a circuit breaker | count and stamp agree; an open circuit bounds traffic and ends |
| Orchestrator (`orchestrator.py`) | the LangGraph state of an attempt | collect, analyze, compose; polling with a deadline | no duplicate jobs; usage covers the pipeline; an attempt ends |
| CRM OAuth (`crm_oauth.py`, `api.py`, `store.py`) | `crm_oauth_states`, `crm_connections` | start, callback, refresh, sync, disconnect | a state is good once; a usable refresh token is never dropped; a removed connection stays removed; accounts do not mix |
| Webhooks (`api.py` `_dispatch_webhooks`, `store.py`) | `webhook_subscriptions`, the delivery under way | subscribe, unsubscribe, dispatch with retries | every delivery is accounted for, and none that did not happen |
| Audit log (`store.py`) | `audit_events` | one insert after an operation has committed | the log accounts for the rows |
| CRM contacts, CSV import (`crm.py`, `store.py`, `api.py`) | `crm_contacts`, what ARGUS has taken in | parse, project, upsert, sync, delete a person | what is stored was projected to ARGUS; who was removed does not come back by himself |
| API keys (`store.py`, `api.py`) | `api_keys` | create, rotate, revoke, authenticate | a revoked key stays revoked; one replacement per key |
| Privacy (`api.py`, `store.py`) | the runs and contacts of a person | export, delete, purge | what is deleted does not come back |
| Strategy, CLI, settings, observability, migrations, frontend | none or configuration | pure functions, polling loops, declarations | |

**How they interact.** HTTP handlers of `api.py` call `RunStore` synchronously: within one
process a handler that does not `await` is atomic with respect to all coroutines of that
process, and only statements of *other* processes come in between its statements. A run is
executed by `_execute`, as a background task of the API process (`auto_execute`, the local
deployment) or by the worker (`compose.yml`: `REACHPATH_AUTO_EXECUTE: "false"` and a worker
that polls `queued`). `_execute` awaits the orchestrator, which calls the services through
shared `ServiceClient`s, and then the webhooks. The CRM handlers await the provider in the
middle of a request, between reading and writing a row.

**What is hard.** Statements of two processes that interleave (claim, cancel, clarify);
everything that happens while `_execute` awaits the services; stale values carried over an
await (the report of an attempt, the refresh token of a sync); crashes between a commit and
what should follow it; answers that are lost after the other side has acted (POSTs to the
services, rotated tokens, webhooks); limits that are read and not reserved (budget, queue
batches, retries of an open circuit).

## 2. Plan

Done, most important first:

1. `ResearchRuns`, `MCResearchRuns`, `ResearchRunsProofs`: the life of a run and everybody
   who writes its row; with it, proofs of the keys, of the audit trail, of the budget, of the
   queue, and that nobody forgets a run.
2. `RunLifecycle`, `RunLifecycleProofs`, `ResearchRunsRefinement`: what clients may rely on,
   what follows from it, and that `ResearchRuns` implements it.
3. `ServiceClient`, `MCServiceClient`, `ServiceClientProofs`: retries and circuit breaker.
4. `CrmOAuth`, `MCCrmOAuth`, `CrmOAuthProofs`: states, connection, tokens, accounts.
5. `CrmContacts`, `MCCrmContacts`, `CrmContactsProofs`: the import with its projection, a
   sync's contacts, the removal of a person.
6. `Orchestrator`, `MCOrchestrator`, `OrchestratorProofs`: the calls of an attempt, their
   repetition and usage.
7. `Webhooks`, `MCWebhooks`, `WebhooksProofs`: subscriptions and dispatch.

To come, if the code changes so that it matters:

8. `ApiKeys`: create, rotate, revoke, once there are several API processes (section 12).
9. `CrmOAuth` and `CrmContacts` as one module. They meet in a sync only, which waits for the
   tokens in the first and for the contacts in the second; what one leaves out never decides
   what the other does.

Every module takes its parameters as constants with a named assumption, has one action per
operation and no `RECURSIVE` operator, so that each can be proved about. The modules of one
component share a name; `MC...` gives the constants values for TLC and `...Proofs` holds
the theorems.

## 3. ResearchRuns

**State.** `rows[r]` is the row of run `r`: workspace, Idempotency-Key, request (with which
the request hash is identified), status, the request its result was computed for, and cost;
`"absent"` and `"deleted"` are statuses of no row; `DeletedRow` remembers the workspace, for the
budget check of an attempt that was started before the deletion. Ids are given out in the order of
`created_at`. `thisMonth` and `aged` are what `monthly_cost` and the purge ask of
`created_at` and `updated_at`. `ex[e]` is one invocation of `_execute` (its program counter
and locals); `Host` says in which process it runs. `inbox[p]` holds the runs handed to the
executors of a process: background tasks of an API process, or the list `drain_once` has
read. `handler[p]` is the handler an API process is in the middle of. `audit` holds the
research events of `audit_events`. `env` counts crashes, database errors, days and months,
each up to a bound.

**Actions.** One per statement that another process can observe: `create_research` is
`ReplayResearch` or `CreateResearch`, `InsertRun`, `RecordAudit`; `cancel_research` is
`CancelGet`, `CancelSelect`, `CancelCommit`, `RecordAudit`; `clarify_research` is
`ClarifySelect`, `ClarifyCommit`, `RecordAudit`; purge and privacy delete select ids and
delete them (`PurgeSelect`, `PrivacySelect`, `DeleteCommit`). `_execute` is `ClaimSelect`,
`ClaimCommit`, `CheckBudget`, `Answer`, `UpdateSelect`, `UpdateCommit`, `AuditOutcome`,
`DispatchDone`; its `except` is `Raise`, which reports `failed`, and an error there or in
the claim leaves `_execute` (`Die`; a worker drops its list and lists again). Within one
process these steps are atomic up to the next `await`: `Busy(p)` says that a coroutine of `p`
is between two awaits, and no other one may start or resume then. `StoreError` and
`HandlerError` are a database error at the next statement, `Crash` the end of a process.

**Abstractions.** The monthly cost and the lookup of an Idempotency-Key in one request are
read at one instant. A re-SELECT after a commit is merged with the commit. That SQLAlchemy
leaves a column out of an UPDATE when its value does not change is ignored. Two pending
tasks for one run count as one (the second finds nothing to claim). Background tasks run
side by side up to the number of executors. An UPDATE of a row that has vanished raises
(`StaleDataError`), which is `Abort`, `Raise` or `Die`. A process that has crashed is back at
once; being down longer is `Poll` not happening. The deletion of a workspace's other data
(contacts) and the audit events of purge and privacy requests are not in this module.

**Runs.**

| Run | Instance | What it shows |
|---|---|---|
| `local_run` | one API process with two background tasks, one run, two requests, a key, one crash, one database error, one day, under fairness | `AttemptExclusive`, `ResultOfRequest`, `AuditTrail`, `Attended`, `ImplementsLifecycle` (section 4), `QueuedServed`, `AttemptsEnd` |
| `local_budget` | three runs, two background tasks, a charge of 1 against a budget of 1 | `OvershootBounded`: at most one charge per executor beyond the budget |
| `compose_run` | API and worker in two processes, two runs, `BatchLimit` 1, a crash of either, under fairness | `CompletedLeftOnlyByCancel`, `DeletedStaysDeleted`, `ImplementsLifecycle` (section 4), `OldestServed` |
| `two_apis` | two API processes, two runs, one key, a crash, the end of a month | `OneRunPerKey` |
| `compose_claim` (violated) | API and worker, one run | `ClaimsQueuedOnly` fails, see section 11 |
| `compose_crash` (violated) | the same with a crash, under fairness | `AttemptsResumed` fails, see section 11 |

*Bounds.* One run is enough for what concerns one row, since rows interact only through the
budget, the queue and the keys; the checks about those have two or three. To overshoot
the bound with two executors takes three runs, so the budget is checked with three. Two executors are the
smallest number that can attempt one run at once, or overshoot together. Two requests
about two persons make clarification and privacy requests tell. One crash and one error
reach every gap between two commits; `BatchLimit = 1` is the code's 20 scaled so that the
queue can be longer than what is listed.

*Fairness.* A handler and the poll loop go on (weak fairness). An executor gets strong
fairness: the event loop resumes ready coroutines in turn, but others of its process can
make it wait again and again, and every await of an attempt ends (timeouts). Clients,
crashes and the clock owe nothing. `OldestServed` is about the oldest queued run only: the
queue is ordered by `created_at`, so older runs that are clarified again and again can keep a
younger one waiting for ever. `QueuedServed` and `AttemptsEnd` are promised as long as no process
has died and the database has refused nothing (`Undisturbed`); in `local_run` both happen too,
after which they promise nothing.

`Attended` is the safety half of these two, for every deployment: a running run has an
executor that will report on it, and where runs are background tasks a queued one has
somebody on the way to it (`Scheduled`: the handler about to schedule it, a task that
waits, an executor claiming it). Fairness then only has to move these on.

*Limits of the properties.* `ResultOfRequest` needs a single API process (two could both pass
the guard of `clarify_research`), `AttemptExclusive` a single executing process. `compose.yml`
starts one of each.

## 4. RunLifecycle, and how ResearchRuns implements it

`RunLifecycle` is a run as `GET /v1/research/{id}` shows it: `run[r]` has a status, the request and
the result; `attempt[a]` is what an attempt has come to (`working`, `failing` once nothing was
found, `reported`); `struck` says whether a crash or a database error has happened. A request
or a report takes effect at one instant: `Create`, `Cancel`, `Clarify`, `Delete`, `Start`, `GiveUp`,
`Report`, `ReportFailure`, `Moot` (the run was deleted), `End`, `Crash`, `DatabaseError`. There are
no statements, keys, queue, event loop or budget in it.

Its constant `Apart` says whether requests and attempts are the work of two processes. If they
are, four more things can happen, all of them late (`Late`), because somebody has looked at the
run before it moved on: `LateCancel` (the run was over already; its result stays),
`LateClarify` (a database error had made its attempt a failure), `LateStart` (a
cancelled run is taken up after all, but never one that somebody works at), `Abandon`
(the run was deleted when a failure was about to be reported).

`ImplementsLifecycle` is `Lifecycle!Spec` with `run[r]` the `View` of a row (cost, key and workspace
left out), `attempt[e]` the `Progress` of an executor, `struck` the kinds counted in `env`, and
`Apart` whether some executor is in another process than some handler. An
attempt begins when the claim commits, and its result is out when `UpdateCommit` stores it: every
other statement is a stutter. In particular the result is about the request the row shows
at that instant, in both deployments. If one process does all the work (`local_run`), a
cancellation and a clarification also act on the status their guard has read, and only a
queued run is taken up. None of that holds by itself, since in the code each of these is a
SELECT followed by an UPDATE by id: it holds because the process does not await in
between. Under `compose.yml` (`compose_run`) the lists of `Start` and `Late` together say what a claim
finds: a queued run, or a cancelled one.

What the abstract module promises: `OneAttempt`; `CompletedIsFinal` (unless the database fails, a
completed run keeps its result; an error after it was stored makes `_execute`'s `except`
overwrite it with `failed`, and a late cancellation changes its status); and
`CancelledLeftOnlyByAttempt`. They are proved of it, and so hold of the rows
(`CompletedRunsLast`, `CancelledRunsLast`).

## 5. ServiceClient

`failures` and `openFor` are `_consecutive_failures` and the time since `_circuit_opened_at`
(capped at the cooldown, or `None`); `call[c]` is a coroutine inside `_request`, with its
attempt. `Start` is `_check_circuit` and the first attempt, `Retry`/`Wake` a transient failure
and the sleep after it, `GiveUp` the last one with `_record_failure`, `Answer` any other
status with `_record_success`, `Break` every other exception. Sleeps and answers take any
time, so every backoff and `Retry-After` is covered. A refused call changes nothing. `traffic`
is a history variable: attempts sent while the circuit has been open.

`circuit` checks three calls with two retries against a threshold of 2 and a cooldown of 2:
two calls open the circuit and a third is under way all along, which is what all the
properties are about. `OpenAtThreshold`, `FailuresBounded` and `OpenTrafficBounded` relate
what overlapping calls do to shared fields; `ClosedEarlyByAnswer` says who may cut a
cooldown short; `OpenEnds` and `CallsEnd` hold under weak fairness of the clock and of each
call under way (requests have timeouts), and nobody is obliged to start one.

## 6. CrmOAuth

One workspace and provider (rows are unique per pair), one API process, so a handler is
interrupted only where it awaits the provider. `states` are the one-time OAuth states, `conn`
the row of `crm_connections` or `None`, `imported` whose contacts a sync has stored. A token
is identified with its owner and the serial of its refresh token (0: none). The provider
(external) honours the serials in `live`; `rotates` is chosen once and says whether it replaces
a refresh token it has honoured. `Grant`, `Renew` and `Rotate` are the provider's half of a
request: an answer can be on its way, or get lost (`Fail`, `Crash`), after a token has been
replaced. `lost`, `overlapped` and `exchanges` are history variables.

A handler reads the secret once: after a 401 `Unauthorized` presents the refresh token read
at the start, even if this sync has replaced it, so that second refresh is refused by a
rotating provider. `Fail` stands for every 502. Audit events are left out.

`oauth` checks two handlers, two states and accounts, three refresh tokens, two connection
ids and a crash: enough for a refresh under way while another rotates, reconnects or
removes the connection. `RefreshTokenKept` and `RefreshTokenNotDropped` are about the token,
`StateOneTime` and `DisconnectLasts` about
repeated and late requests, `TokensOfAccount` and `ImportsOfAccount` about accounts as long
as no two requests have overlapped; `HandlersEnd` holds under weak fairness of each handler (20 s and 30 s timeouts). Two requests that do
overlap can store one account's tokens under another; and at a provider that sometimes
rotates and sometimes does not, answers that arrive out of order can put an old refresh
token back. No document promises otherwise.

## 7. CrmContacts

One workspace and one API process, so a handler is interrupted where it awaits ARGUS or the
provider and runs from there to its end. `table` is `crm_contacts`; a row is its source, id and
name (the other cells are data). A file is a source and rows, a row an optional id and
name; who a name belongs to is `PersonOf`, its `casefold`. `sent` and `taken` are the
bundles sent to ARGUS and those it has taken in (external: once per Idempotency-Key, perhaps
after the API has given up, and with the same answer to everybody who sends that key).
`erased` is a history variable, `dry` the setting `REACHPATH_DRY_RUN`.

`ParseCsv` leaves out rows without a name; `StoreId` is a contact's id or its
position *among the contacts*, counted from 2; `Stored` and `Upsert` are the rows an upsert leaves,
the last of several contacts with one id; `Bundle` is what ARGUS gets. `ImportCsv` is
`import_crm_csv` up to its await, `StoreImport` the rest; `Sync`, `Fetch` and `StoreSync` are
the synchronisation, `PrivacyDelete` the contacts half of `privacy_delete`; `Fail` stands for every
answer 502 and 500.

`contacts` checks two handlers, a file of two persons and a nameless row, its correction
under the same source, a file of another source in which two rows have one id and two
spellings of a person, one key of the client's own, crashes at any time (they need no bound),
and a contact whose id reads like the position of the next one:
enough for a correction under the default key, for an upload overlapping a removal, and for
ids that repeat or meet a position. `StoredWasProjected` says that what an import has stored is in
ARGUS, with the same id or
the row its evidence cites, whatever was lost, retried or answered late. It leaves out sources
whose files have shared a key (`KeysApart`): the default key is the source's, so a
corrected file is answered with the first projection and stored without one of its own.
`ErasedStayAway` says that a removed person stays away until they are uploaded or returned
anew, but leaves out a person whom a handler carried at that time (`Carried`): the code
stores such a person afterwards. The model assumes no fairness; nothing here waits for
anything that `HandlersEnd` of `CrmOAuth` does not cover.

## 8. Orchestrator

The attempts at one run. A request is identified with the number of the attempt it is for.
`pc` is the call the attempt is making, `tries` its repetitions, `waited` the time since
polling began (a poll and the sleep after it are two states, so that an attempt could poll
for ever), `evidence` the request the evidence in hand was collected for, `usage` the
jobs the stored usage accounts for, `jobs` what the services have (external: one job per
Idempotency-Key; a key they know is answered with the job they have). The POSTs with a key of
their own are the three of the `Pipeline` and the two `Enrichments` of ARGUS, which are answered
at once; whether an enrichment costs anything is up to ARGUS, and the model takes it that it may. `Retry` is a failure
in transit, before or after the service has taken the POST in (`Disturbed`); `HttpError` the
last one, which an enrichment survives; `OtherError` the exceptions that are no `HTTPError`.
`Finish` is the end of `execute` with the update in `_execute`, `Clarify` the new request.

`pipeline` checks three attempts, two retries per call and a deadline of two ticks:
`OneJobPerRequest` (repeated POSTs do no work twice, enrichments included), `UsageOfResult` (the
usage of a result counts what was done and nothing else, also in the attempts before, and what it
misses are enrichments at most: `JobsUsed` is `usage_breakdown`, which leaves them out, see section
11), `AttemptEnds` under weak fairness of the attempt and the clock, while jobs may run for ever.
`pipeline_clarified` (violated): section 11.

## 9. Webhooks

`subs` are the subscriptions of a workspace, `dispatch[e]` how far the dispatch of an event
is, `received` what the receivers got, `audit` the delivery events of `audit_events`.
`BadHooks` are those whose URL passes `_webhook_url` and makes httpx raise `InvalidURL`
(`Raise`): `_safe_dispatch_webhooks` records one failure for the event. `NoCipher` is an
installation without an encryption key. The hooks of a snapshot come in any order.

`deliveries` checks two overlapping dispatches, a good and a bad subscription that come and
go, one retry and a crash: `Accounted` (one outcome per subscription in the snapshot, or a
record that the dispatch was cut short), `DeliveriesReal`, and `DispatchEnds` under weak
fairness (each attempt has a timeout, each sleep ends).

`CHECK_DEADLOCK FALSE` is in all configurations except `Circuit.cfg`: when the bounded runs,
states, clarifications or events are used up, these systems rightly stop.

## 10. Proofs

Every theorem is about all values of the constants that satisfy the module's
`ConstantsAssumption` (and `FinitenessAssumption` in `ResearchRuns`, `NoneAssumption` in `CrmOAuth`,
`ParseAssumption` in `CrmContacts`), which TLC evaluates for every instance, and the deployment
assumptions a theorem states. TLC has checked each inductive invariant first, on the instance
of the component's run; the runs keep those parts of it that mean something to a reader.

**ResearchRunsProofs** (any number of runs, executors, crashes and errors).

- `TypeCorrect`: `Spec => []TypeOK`, in every deployment. `TypeOK` includes that a handler's
  and an executor's locals are set where they are used.
- `Inductive`: `Spec => []IInv` for one API process (`SingleApi`) and one process that executes
  (`SingleExecutingProcess`), which covers the local deployment and `compose.yml`.
- `NoConcurrentAttempts` (`AttemptExclusive`) and `ResultsMatchRequests` (`ResultOfRequest`)
  follow from it; `DeletionsLast` is `DeletedStaysDeleted`, from the type invariant alone.
- `CompletionsLast` (`CompletedLeftOnlyByCancel`) for the deployments of `IInv` and a database that
  works. `IInv` says nothing of an attempt that is about to report a failure; `HandInv` adds that
  such an attempt too is the only one that has its run in hand, so that it cannot report over
  a result. It holds until the first database error (`HandsKept`).
- `KeysIdentifyRuns` (`OneRunPerKey`), for any number of API processes: the invariant says the same
  of pairs of rows (`KeysUnique`) and only `InsertRun` adds a row, which the unique constraint
  refuses for a key in use. The cardinality follows.
- `RunsAudited` (`AuditTrail`), in every deployment. As it stands the property says nothing while
  somebody is in the middle of a step. The invariant `Trail` says at all times that the event a status
  calls for is in the log, or that a handler or an executor is about to record it (`Recording`).
- `NoRunForgotten` (`Attended`), in every deployment. It is inductive together with the types:
  each action is shown to hand the run on, from handler to inbox to executor, so that
  somebody has it after every step (`HandsOn`).
- `BudgetOvershoot` (`OvershootBounded`), in every deployment, for a finite set of executors and
  of charges (`FinitenessAssumption`). The invariant `BudgetInv` bounds what is stored
  *and* what executors past the check may still store (`Committed`, a full charge
  each): it stays below the budget plus one largest charge per executor. An executor is
  counted when the check lets it through, which is when the sum stored is still below the
  budget, and what it stores it had been counted for. `Consumed` is a fold, about which nothing can be proved by induction over
  data; it is replaced by the number of elements of a set, one per dollar of each row
  (`Dollars`, `ConsumedIsDollars`), so that the theorems about cardinalities apply. That
  the two agree for every set of rows is shown on a smallest set for which they would not,
  which the well-foundedness of the subset ordering gives.
- `BatchesBounded`: a worker never holds more than `BatchLimit` runs, however long the queue. It
  rests on what `OldestQueued` returns (`OldestQueuedBounded`: at most `BatchLimit`;
  `OldestQueuedFirst`: no run before an older one, and something whenever a run is queued).

`AttemptExclusive` is not inductive: claim reads and writes in two steps, so one has to know
that between the two no other coroutine of the same process runs (`OneCoroutine`), that a run
being claimed or attempted is not queued again (`InFlightExclusive`, `InFlightStatus`), and
that a clarification which has passed its guard is about a run nobody attempts
(`ClarifyPending`). `ResultOfRequest` needs in addition that the request of an attempt is
still that of its row (`InFlightStatus`), and `CreatePending` keeps a row that has yet to be
inserted out of all this. `IInv` is the conjunction.

**ResearchRunsRefinement.** `Refinement`: `Spec => ImplementsLifecycle` for one API process and one
process that executes, the same or another. Each action maps to one of `RunLifecycle` or to a
stutter, one lemma per group of actions. Three facts go into a step: `IInv`; `HandInv` until
the first database error, without which `LateStart` and `LateClarify` could not say that nobody is
about to report a failure; and, if there is just one process (`OneProcess`), `Settled`: what a
SELECT has found still holds when its UPDATE is due, because nobody else had a turn.
Where `Settled` fails the step is a late one, and that is how `Apart` is shown there.
`CompletedRunsLast` and `CancelledRunsLast` apply the theorems of **RunLifecycleProofs**
(`OneAttemptAtATime`, `CompletedLasts`, `CancellationsLast`) to the rows. Their invariant `LInv` says
that attempts which work are at different runs, none of which waits or is completed, and that
the same holds of those that are failing as long as the database has not failed.
`ClaimsAtomic` is the other side of the disagreement `compose_claim` shows (section 11): under
`OneProcess`, `ClaimsQueuedOnly` holds.

**ServiceClientProofs** (any number of calls, retries, threshold and cooldown): `TypeCorrect`,
`CircuitConsistent` (`OpenAtThreshold`), `FailureCountBounded` (`FailuresBounded`),
`TrafficBounded` (`OpenTrafficBounded`) and `ClosedByAnswers` (`ClosedEarlyByAnswer`). The third needs that each failure takes a call out of
flight, a fact about cardinalities of finite sets. For the fourth, what the calls under way can
still send is counted as a set of pairs of a call and an attempt (`ToSend`): while the circuit is
open, what was sent and what may still be sent together never exceed the retries of all calls
but the one that opened it, and every attempt sent takes its pair out of the set.

**CrmOAuthProofs** (any number of handlers, states, accounts, tokens, failures and crashes):
`TypeCorrect`; `RefreshTokensKept` (`RefreshTokenKept`), from `Inductive`, `Spec => []IInv`;
`StatesOneTime` (`StateOneTime`) and `DisconnectionsLast` (`DisconnectLasts`), from the type
invariant. `RefreshTokenKept` alone is not inductive, because a provider that rotates makes the
row's token worthless while the answer is on its way. `IInv` adds that refresh tokens in use
have been issued, and are all honoured if the provider does not rotate (`SerialsIssued`); that
the token in an answer on its way is honoured and nobody else has it (`AnswersFresh`), so
storing it is safe and losing it is recorded; and that whoever has the row's token has read it
from this row and not from one removed before (`TokenOfRow`), so the handler for which it is
rotated stores the replacement here. `RefreshTokensNotDropped` (`RefreshTokenNotDropped`),
`TokensMatchAccount` (`TokensOfAccount`) and `ImportsMatchAccount` (`ImportsOfAccount`) rest on two more
facts: the answer to a refresh is for the account whose token was presented, and has a
refresh token (`RenewalsKept`); as long as no two requests have overlapped there is one
at most, and what it has read of the row is what the row shows (`Apart`).

**OrchestratorProofs** (any number of attempts and retries, any deadline): `TypeCorrect`, `WorkDoneOnce`
(`OneJobPerRequest`), `PipelineCounted` (`UsageOfResult`), from `Inductive`. Services see one key
only, and ARGUS has nothing running (`Lone`); what the attempt has passed is done at the services
(`SoFar`); and a result about evidence has used the three jobs of the pipeline (`Answered`), so
what is done and not counted can only be an enrichment.

**WebhooksProofs** (any number of events, subscriptions and retries): `TypeCorrect`,
`DispatchesAccounted` (`Accounted`), `DeliveriesHappened` (`DeliveriesReal`), from `Inductive`. The snapshot of a
dispatch is cut into what it is done with, what it is at and what is to come (`Sorted`), the
first with one outcome each, the last without any; when it is over nothing is left, or a record
says that it was cut short (`Told`).

**CrmContactsProofs** (any files, answers, keys and number of handlers): `TypeCorrect`, which includes the
unique constraint of the table, `ImportsProjected` (`StoredWasProjected`), `ErasuresLast`
(`ErasedStayAway`), from `Inductive`: whoever waits for ARGUS has sent what he is about to store
(`Posted`), every row of a file was in a bundle whose key ARGUS knows (`Sent`), and nobody carries a
person who was removed (`Unburdened`). That what `parse_csv` returns has the type of contacts is
an assumption, since nothing is known to the provers about `SelectSeq`; TLC evaluates it for
the files of `contacts`.

*Model-checked only.* Liveness (`QueuedServed`, `AttemptsEnd`, `OldestServed`, `OpenEnds`, `CallsEnd`,
`HandlersEnd`, `AttemptEnds`, `DispatchEnds`) and `ENABLED` are out of the prover's reach. Every
safety property of the passing runs, and the refinement, is proved.

## 11. Where the code and its documents disagree

Each of the first three has a run whose counterexample shows it:

- **claim is not atomic** (`compose_claim`). `store.py:218` says "Atomically claim a queued run";
  it is a SELECT with the status and an UPDATE by id, so a cancellation committed by the
  API in between is overwritten with `running`, and the run is executed. Two workers could
  both claim a run in the same way.
- **a crash strands the run** (`compose_crash`). `BACKLOG.md:10` calls research "reprenable" and
  `worker.py:9` the worker durable; it lists queued runs only, so a run that was `running`
  when the worker died keeps that status for ever, and can be neither clarified nor purged
  (`AttemptsResumed`).
- **a clarification is answered with the old work** (`pipeline_clarified`). `README.md:143-149`
  says the run is launched again with the complete new request; the Idempotency-Keys of
  the services contain the run id alone, so services that honour them return the jobs of
  the first request.

Others seen while modelling, without a run of their own:

- A cancelled run is completed by the attempt under way (`api.py:239`); the positive half is
  `CancelledLeftOnlyByAttempt` (section 4).
- A call that was let through before the circuit opened closes it at once with any answer
  below the transient statuses, inside the cooldown of `README.md:176`; the positive half is
  `ClosedEarlyByAnswer`.
- A failed attempt stores no usage (`api.py:266`), so a search that was paid for counts for
  nothing, although `README.md:136` wants real costs followed.
- What the two enrichment POSTs of `_analyze` cost is not counted: `usage_breakdown`
  (`orchestrator.py:272-276`) takes the usage of the evidence, the analysis and the report,
  although `README.md:136` wants real costs followed and the monthly budget rests on them. The
  positive half is `UsageOfResult`: nothing else is missing.
- A clarification clears the stored usage (`store.py:712`). If the next attempt succeeds, the jobs of
  the attempts before are in its usage; if it fails, they count for nothing.
- One subscription with a URL httpx refuses keeps the event from those after it in the list
  (`api.py:175`), and nothing is recorded of them.
- A corrected CSV file of the same source goes out under the same default Idempotency-Key
  (`api.py:572`), so ARGUS answers it with the first projection; the positive half is
  `StoredWasProjected` (section 7).

## 12. Not modelled

**API keys, roles and workspaces.** Creating, rotating, revoking and checking a key are one
transaction each, without an await, and `compose.yml` starts one API process: nothing can
come in between.

**Strategy, settings, domain types.** Pure functions and declarations; what values matter are
constants of the modules.

**Command line.** One request and a polling loop with a deadline; its `worker` command is `Poll` in
`ResearchRuns`.

**The rest of the audit log.** The events of privacy requests, keys and connections are single
inserts after an operation, which nothing reads but the list of events; those of runs and
deliveries are modelled.

**Observability, migrations, frontend, deployment.** Counters without consequences, a schema whose
constraints are in the models of the tables, pages that show what the API returns,
configuration whose processes are constants of `ResearchRuns`.

Authentication, signatures and encryption are left out of the models, with the exception of
their failures where they change control. Lengths and formats of names are data, so that an
identifier the column has no room for (`store.py:565`) is just a failure of its handler.
