# A verification of the product-testing backend

The repository is a FastAPI service and a WeChat mini program. A user describes a product,
chooses personas, and starts an *evaluation*: a Celery worker asks a language model for one
answer per persona and the user pays credits for it; a report, a whitepaper and conversations
with the personas follow. This directory models the backend in TLA+, checks it with TLC and
proves parts of it with TLAPS. Paths below are relative to `src/backend/app` unless they say
otherwise.

## The system's parts

| Component | State it keeps | Operations | Interacts with |
|---|---|---|---|
| Evaluation handlers, `services/evaluation_service.py`, `routers/evaluation.py` | the `evaluations` row: status, progress, credit_cost, task_id | create, select personas, run, cancel, delete | the ledger (charge), the broker (publish, revoke) |
| Evaluation task, `tasks/evaluation_tasks.py` | the same row, `answers`, refunds | `evaluation.run`: lock, start, two loops, finalise, refund, error handler | lock, ledger, webhook, report, dead letters |
| Distributed lock, `core/distributed_lock.py` | a Redis key with a TTL | enter, exit | every delivery of the task |
| Celery, `tasks/celery_app.py` | queue, result backend, revoked ids | deliver, acknowledge, redeliver, time out, retry | worker processes |
| Watchdog, `tasks/watchdog.py` | none | every 5 minutes: select stale rows, ask Celery, fail them | the row, the result backend |
| Credit ledger, `services/credit_service.py` | `users.credit_balance`, `credit_transactions` | deduct, refund, award, daily reward | run, task, login, payment |
| Plus orders, `routers/upgrade.py` | `plus_orders`, membership | create an order, notification of its payment | the ledger (award) |
| AI client and circuit breaker, `ai/client.py`, `ai/circuit_breaker.py` | breaker state, counters, probe flag | complete, complete_json, stream, with retries | the provider |
| Choice of provider, `core/config.py`, `ai/factory.py`, `ai/models.py` | the settings | validate, pick a client, pick a model | every call of a model |
| JSON in replies, `ai/json_utils.py` | none | find the object in a text | every reply of a model |
| Conversations, `services/conversation_service.py`, `ai/memory.py` | conversation, messages, message_count, memories | create or get, send (stream), delete | AI client |
| Webhooks, `services/followup_webhook_service.py`, `tasks/followup_webhook_tasks.py` | `webhook_events` | create once per outcome, deliver | the task, an HTTP receiver |
| Reports, `services/report_service.py`, `ai/adapters/report_synthesize.py` | the report row, its analysis, PDF | create or get, analyse, attach and delete a PDF; figures and statements | answers, AI client, Celery |
| Whitepapers, `services/whitepaper_service.py` | the whitepaper row | create or get, retry, generate in the background | reports, AI client |
| Surveys, `services/survey_service.py`, `ai/adapters/structured_generation.py` | the survey and its questions | generate in two halves, edit; answers by model or by rules | AI client, evaluations |
| Products, `services/product_service.py`, `ai/vision_client.py` | product rows, the extract cache, a guard on calls | create, extract from images, reanalyse, list | vision providers, moderation |
| Personas, `services/persona_service.py` | persona rows, cached pages | list, recommend, delete | evaluations |
| Login and sessions, `services/auth_service.py`, `core/security.py`, `core/cache.py`, `core/token_blacklist.py`, `core/rate_limit.py` | users, cached users, blacklisted tokens, counters of addresses | login, refresh, logout, resolve the user, count | ledger (referral), Redis, WeChat |
| Storage, history, health, metrics, prompts, front end | their own tables, or none | reads, rendering, files | |

What is hard here is not in any one of these but between them:

- A session keeps the row it loaded (`db/session.py`: `expire_on_commit=False`,
  `autoflush=False`), so every actor works on a private copy and writes absolute values.
- The run request publishes its message before it commits.
- The task is acknowledged late and redelivered when its process dies; it can be killed by a
  time limit, which runs no handler; it can be retried.
- The lock outlives a dead owner, fails open, and is deleted whoever holds it.
- Refunds are separate commits with no record that they were given.
- Checks and the writes they allow are separate statements nearly everywhere: limits, daily
  rewards, statuses, cached pages and users.
- Whitepapers and synchronous runs are tasks of the web process: a restart forgets them.
- The Celery tasks other than `evaluation.run` go to queues (the default one, `webhooks`) from
  which no worker of the deployments takes anything.
- A reply of a model is any text: what is stored of it must still be something the rest of the
  program can count, show and add up.

`PROJECT.json` lists the hazards line by line, each with the properties that watch it.

## Modules

The core, with its proofs:

| Module | What it is |
|---|---|
| `EvaluationRun` | one evaluation in Celery mode: handlers, broker, lock, task, ledger sums, watchdog |
| `MCEvaluationRun` | its constants for TLC: the two persona assignments, the symmetry sets |
| `EvaluationLifecycle` | the abstract specification: what a user may rely on of an evaluation |
| `EvaluationRunProofs` | types; done, progress, section, cancellation and the watchdog; that `EvaluationRun` implements `EvaluationLifecycle`; what is charged in the end |
| `CreditLedger`, `MCCreditLedger`, `CreditLedgerProofs` | all transactions on the users rows; its constants; its theorems |
| `CircuitBreaker`, `CircuitBreakerProofs` | one breaker and the calls around it; its theorems |
| `ConversationProofs` | theorems about conversations alone |
| `ServicesProofs` | theorems about the services, first the ways in and out: replies, sessions, logins, providers, calls, image extraction; and the lemmas about `Folding` |
| `ResultsProofs` | what an evaluation needs and leads to: surveys, preparation, reports, conversations, whitepapers, webhooks |
| `ReportMetricsProofs` | the figures of a report and the statements made of them |
| `FiguresProofs` | what is shown: pictures read, products, lists, recommended personas, scores of dimensions; and the types of all parts |

The services, each checked in a part of the run `services`:

| Module | Part | What it is |
|---|---|---|
| `Preparation` | preparation | survey, selection, run and answers in synchronous mode |
| `Conversation` | conversation | creation, concurrent sends with streamed replies, memories, deletion |
| `FollowupWebhook` | webhook | the end of the task: event, delivery, retries, dead letters |
| `Reports` | report | the report's row, task, PDF and analysis |
| `Whitepapers` | whitepaper | the whitepaper's row and its background generations |
| `Sessions` | session | tokens, blacklist and the cached user |
| `Login` | login | rate limit, WeChat codes, creation and completion of the user |
| `AIClient` | client | one call: requests, streams, two nested retries, errors |
| `Providers` | provider | validator, factories and router over every combination of settings |
| `ImageExtract` | image | cache, guard and retries of image extraction |
| `VisionFields` | vision | from the reply about a picture to what a user is shown |
| `ProductIntake` | intake | the steps of creating and reanalysing a product |
| `Questionnaire` | survey | generating and answering a survey with replies of any shape |
| `Catalogue` | list | paged, cached lists under writes |
| `Recommendation` | recommend | the quota of critical personas |
| `Rounding`, `ReportMetrics`, `BusinessReport` | metrics | the figures of a report and the statements made of them |
| `DimensionScores` | dimension | scores of dimensions by rules and by the model |
| `JsonText` | json | the bracket scan over a text |
| `Folding` | (several) | a loop over a sequence, as a recursive function; a sort, by its order |
| `Services`, `MCServices` | all | the composition and its values for TLC |

`EvaluationRun` and `CreditLedger` are the two views of one interaction: the former has one
evaluation with every fault and only the sums of its ledger entries, the latter many
evaluations and users and the balance column, with the task reduced to its refund.
`FollowupWebhook` takes over where `EvaluationRun`'s `Announce` ends. The services below share
no state with one another, so their product would only multiply their states: `Services` is a
disjoint union instead. `part` says which of them a behaviour is about, the variables of the
others are `Off`, and every property is that of the module, in its part. Each module also has a
`Spec` of its own and can be checked alone.

### EvaluationRun and the code

- `row` is the `evaluations` row as committed. `worker[w]` holds the program counter of one
  execution of the task *and the columns its session loaded* (status, progress, creditCost,
  taskId); writes go to `row` column by column and only where they differ from that copy. The
  checks for `canceled` inside the loops (`evaluation_tasks.py` 267, 362, 436) read the copy,
  which says `answering`, and therefore are no action. `req[r]` and `watchdog` hold the copies
  of the run requests and of the watchdog's scan in the same way.
- One action is the code from one point where others can act to the next: a commit, the broker,
  the lock. `RunPreflight`, `RunCharge`, `RunPublish`, `RunCommit` are the four such stretches
  of `run_evaluation`; `CancelDecide` and `CancelCommit` those of `cancel_evaluation`.
- PostgreSQL's row locks matter in one place: the run request updates `users` and `evaluations`
  and then publishes, with its transaction open. `charging` is the request that holds them, and
  `RowLocked` makes everybody who updates the row wait.
- The task's actions follow `_run_evaluation_locked` from top to bottom: `ReadRow`,
  `StartCommit`, the first loop (`ScanExisting`, `ScanMissing`, `ScanGenerate`), the second one
  (`StoreAnswer`, `StoreDuplicate`), `Finalize`, `RefundFailed`, `Announce`; its handler is
  `RollbackRead`, `FailCommit`, `Notify`. Answers are generated concurrently and stored one at
  a time in any order, which is all of the concurrency inside the task that reaches the state.
- Slots are positions of `selected_persona_ids`; `PersonaOf` may map two slots to one persona,
  because `update_personas` does not remove duplicates. The second of the two then runs into
  the unique constraint of `answers`.
- Progress is the number of slots counted instead of a percentage of them: the conversion is
  monotone and both ends coincide, and no property tells percentages apart.
- `charged` and `refunded` are the sums of the evaluation's ledger entries; `failOpens`, how
  often the lock was entered without its key, is a ghost, and so is the lock's owner, as the
  key's value is always "1".
- Not in the model because unreachable: the branch for a missing survey (`evaluation_tasks.py`
  223-250), as nothing deletes a survey and a run without one is refused.

`EvaluationLifecycle` has five actions (order, cancel, delete, answer, end) over what a user
sees: an order and its payment are one step, an answer is written once, `done` needs the whole
panel and a proper answer, a deleted evaluation does not come back. `Implements` is its
specification under the mapping at the end of `EvaluationRun`: statuses and answers as they
are, the ledger sum as what was paid.

### CreditLedger and the code

`user[u]` is the users row, `ledger[u]` the entries, `session[r]` a database session: what it is
for, its program counter, and the copies of the rows it has read. `CreditService` changes the
copy and its flush writes the absolute balance; the UPDATE takes the row lock, which the session
keeps to its commit or rollback. The transactions are the run request (count, charge, commit),
the worker's refund, the daily reward, the notification of a payment (with its repetition by
WeChat) and the first login, which inserts a row, awards the welcome credits and then updates
the referrer. `day` advances at midnight. Ghosts: `overwritten`, users whose balance some
session wrote from an outdated copy; `raced[u]`, runs that counted before another run committed.
They are honest exceptions: under them the code really does lose an entry or pass a limit.

### CircuitBreaker and the code

Each method holds an `asyncio.Lock` and awaits nothing inside it, so it is one step; the steps
in between are other coroutines'. `call[c]` remembers whether a call was admitted as the probe,
which the code does not: it lets `ProbeBacked` say what the flag is for. `Abandon` is a call
that ends with `CancelledError` or `GeneratorExit`, which `except Exception` does not see.

### The services and the code

- *Preparation*: every request reads the row, decides on its copy and commits the columns it
  changed; a synchronous run answers in a task of the process. `late` is set when a request that
  had found the evaluation open wrote the selection or the questions after a run had begun.
- *Conversation*: `send_message` reads, flushes question and count, streams with the transaction
  and the row lock open, and commits with the reply or after an error. A client that goes away
  before the commit rolls everything back, also after it was told of an error: what was told
  stays told, and `StoredAsTold` is about the clients that stayed. `stale` is set when a send
  that waited for the lock writes the count it read before.
- *FollowupWebhook*: the ends of several executions race for the unique constraint. An execution
  may be lost anywhere between its final commit and its event, its handler may fail as well, and
  the watchdog writes `failed` without an event: `silent` has the outcomes nobody announced in
  one of these ways, and only these may lack an event. A delivery reads the event, posts, commits
  the result; it may be lost between any two, or end with an exception that nothing retries
  (`max_retries=0`). `repeated` marks outcomes whose deliveries overlapped or were accepted and
  ended unwritten.
- *Reports*, *Whitepapers*: rows with the private copies of the requests and tasks around them.
  A report task may end at any step without a word (`Breaks`: its exceptions are swallowed) or
  with its worker. `Workers` are the consumers of its queue; there may be none. Whitepapers'
  `lost` and `overlap` mark a generation that ended with its process, and two retries of one
  failed row.
- *Sessions*, *Login*: Redis that may fail at every call and is then let through; a token's last
  second, in which its blacklist entry has a TTL of 0, is a state of its own. The users row is two
  numbers, the changes of its profile, which drop the cached user, and those of its account
  (balance, membership, telephone number), which do not. A login computes the window of the
  limiter in one step and is counted by an INCR in the next; the window may turn in between.
- *AIClient*: one call with both retry loops, answered by statuses and chunks in any order. A chunk
  that is JSON but no object raises an exception of its own, which nothing translates.
- *ImageExtract*: the guard's counter and semaphore with cancellation at every await.
- *Catalogue*: an OFFSET walk over rows newest first, pages cached one by one. `pagesStale` marks
  a page that was read before a write and cached after the drop, or a failing drop.
- *DimensionScores*: the answers to scale questions are whatever number the model gave, 9 among
  them: the score by words clamps them, the averages of the radar do not.
- *Providers*, *Questionnaire*, *VisionFields*, *ProductIntake*, *JsonText*, *ReportMetrics*,
  *BusinessReport*, *DimensionScores*, *Recommendation* translate functions: inputs are chosen
  from small sets with all the shapes the code tells apart, the results are computed as the code
  does (integer arithmetic with Python's ties to even in `Rounding`), and the properties compare
  them with an independent statement of what they should be.

## Runs

| Run | Expects | What it asks |
|---|---|---|
| `faults` | pass | types, the lock, done, progress, cancellation, the watchdog and running tasks, and that the life cycle is implemented, with any one fault anywhere |
| `credits` | pass | what was paid when nothing runs any more, over re-runs and repeated personas |
| `recovery` | pass | `answering` ends as long as the task's process lives, without the watchdog |
| `ledger` | pass | balances, awards, the limit of running evaluations, and that no sessions wait for each other |
| `breaker` | pass | counters, probe flag, and closing again |
| `services` | pass | what each of the eighteen services promises, and that sends and requests for a report end |
| `queued_forever` | violation | RUNBOOK: the watchdog handles zombie tasks. It never looks at `queued` |
| `canceled_overwritten` | violation | a cancel during answering is overwritten with `done` |
| `double_refund` | violation | a redelivered task refunds again: more than the charge |
| `breaker_abandoned_probe` | violation | an abandoned probe blocks the breaker for ever |
| `memory` | violation | memories of a turn are flushed after the last commit and lost |
| `balance_cached` | violation | a changed balance leaves the cached user as it was |

The violations are findings of the modelling, each with its quotation in `PROJECT.json`. In short:
the in-loop cancellation checks never see a cancel; a crash between the lock and the first commit
leaves an evaluation `queued` and charged for good; refunds are repeated by redelivery; `except
Exception` is too narrow for a breaker whose calls are cancelled; persona memories are never
stored; the cached user is dropped after changes of the profile only, though its payload has the
balance.

### Bounds, and why they are enough

- *Two slots* (`faults`): one answered and one not is the first state in which an interrupted
  run differs from a fresh one, and in which done, progress and partial failure differ.
  *Three slots, two personas* (`credits`): a duplicate, a failed answer and a given one at
  once. *One slot* (`recovery`): liveness is about who ends the run, not about how many answers.
- *Two workers, two requests*: every race in this code is between two executions or between an
  execution and a handler; a third worker could only repeat one of them. Two requests give the
  overlap, the re-run after a failure, and a late message of the first.
- *MaxFaults = 1 or 2*: counted faults are those whose repetition is unbounded. One fault of any
  kind at any point is the design's own assumption (a redelivery, a watchdog); `credits` has two,
  so that a failed run can be re-run and fail again. Persona failures, early pick-up and
  overlapping requests are not counted and may happen any number of times.
- *Cost = 1*: refunds are linear in it. The theorems hold for every cost, zero included.
- `ledger`: three sessions are two that race and one that outdates both; two users are a
  referrer and a new one; two evaluations of one user and a limit of one make the limit matter;
  two days make midnight matter; one order is notified repeatedly.
- `services`: three sends against a limit of two messages, so that a send waits, one passes the
  limit and one is refused; two deliveries and two posts; three readers of a whitepaper (a retry,
  an overlapping retry, a bystander); three uploads at one place and one waiting place, so that
  one waits and one is refused; one retry of each kind and two of JSON, so that the loops nest;
  two chunks of a stream; pages of one row over three rows; seven personas, one more than the
  smallest selection with a quota of two; sheets of every size up to nine answers, so that a
  share of eight is a tie, in three runs of one to three equal ones out of eight kinds, which
  contain a failed answer, both ends of the scales, prices at bucket limits and more themes than
  a report lists; texts of six characters with braces, brackets, quotes and escapes; two halves
  of a survey with six replies each.
- Symmetry: `faults` permutes slots (which are their own personas there), workers and requests,
  `credits` workers and requests. No run with liveness uses symmetry.
- The breaker's run: three calls, thresholds 3 and 2 instead of 5 and 2; enough for a failure
  that opens, a late one, and a probe in flight together.
- `CHECK_DEADLOCK FALSE` where the system may rest: an evaluation that is done with users who do
  nothing more; a ledger whose sessions have ended; a service whose bounded work is over. The
  breaker's run checks deadlock.

`credits` admits failing answers, failing transactions in the loops and expiring results; not
crashes, time limits, early pick-up, overlap or an exception after the final commit: after each of
those the code does settle wrongly, which is what `double_refund` and the
hazards with a note are about. `recovery` has every fault but a lost process and a time limit,
after which no handler runs: the evaluation is then a zombie, which only the watchdog could end,
and that is never executed (see below). Overlapping run requests are left out of it for the size
of its behaviours.

### Fairness

Every assumption is weak fairness, of what the system itself schedules; users and faults are
under none.

- `EvaluationRun`: a worker that executes goes on (its awaits have time-outs, its process is
  supervised); a request that has begun ends; a message of `evaluation.run`, whose queue the
  deployed worker consumes, is taken by some worker, not by a given one; the TTL and the half hour
  of `STALE_THRESHOLD` pass; a scan of the watchdog that has begun ends. That one ever begins is
  not assumed: beat sends it to the default queue, and the only worker of each compose file
  (`src/backend/deploy/docker-compose.prod.yml:105`, `src/backend/docker-compose.yml:132`,
  `src/backend/docker-compose.loadtest-2c2g.yml:66`) is started with `-Q evaluations`.
- `CircuitBreaker`: time passes, admitted calls end, some caller keeps calling.
- `CreditLedger`: a session that has begun goes on, unless it waits for a row lock.
- `Services`: a send that has begun goes on (the stream has a time-out, a closed one runs its
  `finally`), and so does a request for a report. Nothing is assumed of report tasks and
  deliveries, whose queues (the default one and `webhooks`) no deployed worker consumes; what is
  checked of them is safety, whether or not they run.

## Proofs

All are for every value of the constants: any finite set of slots, workers or users, any
requests, personas and assignment, any cost, any set of faults and any bound on them. The
assumptions on the constants are `ConstantsAssumption`, `ThresholdsAssumption`,
`LedgerAssumption` and `ServicesAssumption`, which TLC evaluates in every run that has them. The
last is the conjunction of one assumption per service, and these say what kind of thing each
constant is (a limit is a number, uploads are a finite set, replies have the shapes the code
tells apart) and otherwise only what the code's own constants say: a page has a row at least, a
request one attempt, both halves of a survey as many dimensions.

### The evaluation, the ledger, the breaker

- `TypeCorrect` (`EvaluationRunProofs`): type correctness, one lemma per group of actions. The
  one conjunct that is more than typing is that a process which is not idle has a task; the crash
  and the acknowledgement put it back in the queue.
- `DoneIsAnswered`, `ProgressIsBacked`: done and progress are decided by what a *worker
  counted*, so alone they are not inductive. `LoopInv` is what is missing: in the
  loops every slot is still to be scanned, being generated, or counted, and a counted slot has a
  stored answer. Answers are never removed, so other workers cannot invalidate it, and steps that
  touch none of this are dealt with once, in `AnswersUntouched`.
- `SectionIsBounded`: the bound alone is not inductive because any worker's release frees the
  key. `LockInv` counts more finely: the section has at most `failOpens` members besides the
  key's owner. A worker without a key that deletes somebody's key leaves with it, which is why
  the bound survives the unconditional DELETE.
- `CancelEndsIt`: an action property from `SnapshotInv`, no worker that is about to write holds
  `canceled`.
- `WatchdogSpares`: from `TaskInv`, a task is in one place at a time and Celery reports `STARTED`
  while a worker has it; so no ready state is ever read for a running task.
- `LifecycleImplemented`: every step of `EvaluationRun` is a step of `EvaluationLifecycle` or a
  stutter. `RefineInv` is `TypeOK`, `AnswerInv` and `FailedInv`: what a worker counted as failed
  is what the table says failed. It is needed in one place, the final status: `done` is a promise
  about the answers, the code decides it by its counters.
- `ChargesSettle`, `RefundsAlwaysCovered`, under the hypothesis `Regular`:
  only personas, transactions of the answering loops and stored results fail. `SettleInv` relates
  the money to whose turn it is: a request past its guards, a task in the queue or a worker with
  one, only one of them at a time, and before the request commits nothing is paid, after it the
  price of one run. `Paid` leaves out what a finished worker has still to give back, which is why
  a re-run may begin before the refund of the last run. The lock is needed for it (`LockInv`: two
  workers never owe a refund), and so is `FailedInv`: what was not counted as failed is exactly
  what is answered. The hypothesis cannot be dropped: see `double_refund`.
- `TypeCorrect`, `BalanceFollowsLedger`, `NeverInDebt`, `LimitHoldsUpToRaces`,
  `AwardsAlwaysBacked` (`CreditLedgerProofs`): the balance is the sum of the entries by an
  invariant about who holds a row lock and whose copies are current; a session between its flush
  and its end holds the lock, and a copy older than the row is noticed by its flush.
  `NeverInDebt` needs nothing of this: each session checks the copy it writes.
  `CountInv` adds that what a charge has counted still holds unless another has started since;
  `AwardInv` says what each session may still award: a reward only to a user whose copy has not
  had the day's, one year per notification, and the welcome with the row it inserts.
- `TypeCorrect`, `CountersAlwaysAgree` and `ProbeIsBacked` (`CircuitBreakerProofs`). The last has
  the hypothesis that probes are not abandoned; the run `breaker_abandoned_probe` shows that it
  cannot be dropped. The other two need no such hypothesis: late results never break the counters.

### The services

A behaviour of `Services` is about one part from its first state to its last (`PartSteps`). So
each theorem has one shape: `part = "..." => XInv` is inductive, with one lemma per action, and
implies what the run checks.

- `SessionsAlwaysHold`: that a revoked token is refused speaks of a request when it passes, so
  `RevokedInv` says what must hold while it waits: a request that came after the revocation either
  still finds its token on the blacklist, or the token has grown old meanwhile, the one way around
  it. The cached profile needs no more than itself, and that no change of the account touches the
  profile (`RowChanges`); of the balance in the same entry nothing holds, see `balance_cached`.
- `LoginAlwaysHolds`: `CountedInv` ties those admitted to the counter, window by window, where
  the counter answered. `RowInv` says that the row only gains: what a login has read before its
  write is still true of the row when it writes.
- `ProvidersAlwaysUsable`: a program that runs was accepted by the validator and keeps its
  configuration; the rest is the table of every combination, by cases.
- `CallAlwaysHolds`: the bound on requests is a product of two loops. `SentInv` counts what the
  prompts before this one may have used (`format * Tried`) and what this one has counted itself.
  The errors of the AI layer are all a call raises but for two exceptions, which the property names.
- `PlacesAlwaysAccounted`: the counter and the semaphore equal the number of requests that hold
  a place (cardinalities of sets of requests, one moved at a time), and that a request calls a
  provider a bounded number of times needs `CallsLeft`, which counts the calls of the second
  reading by the texts of the first.
- `IntakeAlwaysHolds`: `SpentInv` (what has been paid for at each step) and `ProductInv` (what
  was seen goes on through the steps to the row), which do not need each other; and
  `FieldsAlwaysHonest`, the half of the property that is about pictures: by the shape of each
  field, in either mode.
- `ListsAlwaysHold`, the list of products. Three invariants on top of each other. `PagesInv`:
  while nothing is stale, cached pages and pages just read are the list's. `SeenSoFar`: a walk has
  the rows before its offset, and is owed the rows there are. `WalkInv`: every write or stale page
  mixes the walks under way, which is why nothing is owed to those. The lemma `PageRows` says what
  an OFFSET page of a sequence holds.
- `ListsAlwaysHold`, the recommended personas, for a list of any length and any number asked
  for. It follows from the type of the list: the order has every persona once (`AdviceOrder`), a
  cut keeps its beginning (`AdviceCut`), and mending a full selection changes its last place
  only, to the last candidate (`AdviceMended`), which is critical and was not selected.
- `RepliesAlwaysTaken`: the scanner sees characters, the property speaks of objects. `JsonInv`
  says, while the text is written, that everything open is inside the first bracket, and what the
  scan from that bracket has seen so far: it is in a string where the text is, and its depth is
  the number of braces open, until the object is whole; from then on it has its end.
- `SurveysAlwaysCount`: a half that is done is whole (`HalfWhole`, from `QuestionsWhole`: a reply
  of any shape that passes the checks is), so the concatenation has each question in its half, and
  an answer by rules (`RulesAnswer`) gives every question as many different options as it takes.
  The arithmetic behind it is in `PlaceOfQuestion` and `OptionsDiffer`, about div and mod.
- `AlwaysAnsweredAsOrdered`, `DoneIsAlwaysComplete`: `OrderInv`, all of it conditional on `late`:
  the selection is paid for from the first run on, a task asks exactly who is selected and not
  answered. `Proper` is what a request holds between its check and its write.
- `RadarAlwaysServed`: the first half is of rows; `ProcOK` says what a process must hold to be
  about to save one, across overtaking, deletion and revival. The second is about scores, for any
  number of answers: that of a dimension by rules is a rounded mean of evidence, and a mean, a
  mean of means, and their rounding stay between the ends of what they were taken of
  (`TotalBounds`, `RoundBounds`, `MeanBetween`, `WordsBound`); what the model replies replaces one
  only where it is on the scale (`ScoredFair`), and what was stored is completed on reading
  (`ResolvedFair`), so every radar has each dimension once and on one scale. The radar of averages
  clamps nothing and is bounded by the answers alone, which may be any numbers: it lies between two
  of them (`TotalSpans`, `IntRoundBounds`).
- `FiguresAlwaysHold`: sheets of any length, of any answers of the type. The sheet is the whole
  state, so the invariant is its type and the work is in the operators, one lemma for each part
  of the property (`SharesAlwaysFit`, `VerdictAlwaysHasGroup`, `MedianAlwaysOfPeople`,
  `HeatmapAlwaysAgrees`, `ThemesAlwaysRanked`, `GradeAlwaysFits`, `DocumentAlwaysAddsUp`,
  `ChannelsAlwaysBacked`, `StatementsAlwaysQuoted`). They rest on few facts: rounding keeps the
  order and moves a number by half at most, a tie by half to the even side (`RoundMonotone`,
  `RoundNear`); the mean of two groups together lies between theirs (`MeanOfParts`); the shares of
  a whole add up to it but for their roundings (`SharesNearWhole`); and a ranking has each element
  once and in order (`RankedInOrder`), from which medians follow by counting places
  (`PlacesBound`).
- `DeliveredAlwaysAccepted`: `Counted` relates what a delivery has counted to what the receiver
  was sent; `OnceInv` that without overlap an outcome has one delivery at most, and one acceptance
  that either it or the row knows; `AnnounceInv` that whoever wrote the outcome still has to see
  to its event, unless it was lost, its handler failed or it was the watchdog.
- `CountAlwaysExact`, `GeneratingAlwaysOwned`, `ReadyAlwaysStays`: the theorems of
  `ConversationProofs` (`CountStaysExact`, `LimitAlwaysHolds`, `AlwaysStoredAsTold`) and the
  whitepaper's, the former instantiated on the variables of `Services`. They follow from
  `HeldInv`, what a send holds against the number of messages (it cannot be stated against the
  count, which a commit from an outdated copy lowers below what another send has read); and from
  `SingleInv`, until two retries overlap there is one task or one early commit at most, and the
  row says `generating`.

- `TypesAlwaysOK`: the types of all parts with their bounds, mostly from the invariants above.
  A bound such as that of the report's queue or of the posts of a webhook is checked by the guard
  that keeps it, and holds for every value of the constants. A bound of three calls in
  `ImageExtract` did not: it was true for the constants of the run only, and is a number now.

A loop of the code over a list (the sum of scores, the scan of a text, the filling of a quota) is
`Fold` of `Folding`, and a comprehension is `Only`. They are recursive functions, and what they do
at each element is a function and not an operator, so that `FoldSteps` and `OnlySteps` can be
stated of all of them. The library's induction theorems cannot be used, for they take a predicate;
the inductions here are about sets instead: a least number that is stuck (`LeastNumber`), and a
set of sequences that has the empty one and is closed under `Append` (`AllSequences`).

The strengthenings were checked by TLC before they were proved.

Model-checked only: liveness (`AnsweringEnds`, `Recovers`, `SessionsEnd`, `SendsEnd`,
`ReadersEnd`), as the prover handles neither fairness nor ENABLED. Every other property of a
passing run is a theorem; `ProbeBacked`, `Settled` and `RefundsCovered` are so under the
hypotheses named above, which the constants of their runs meet.

Two limits of `FiguresAlwaysHold`. Its sheets have scale answers within 1..5, or none, though the
code stores what the model gave and averages it as it is (`DimensionScores` has such answers). And
the model's averages and shares are exact and a tie goes to the even neighbour. The code divides
floats, where a tie of tenths is sure to be met exactly only on sheets of fewer than 20 answers
(see `Rounding`); on longer ones the theorem is about the figures as they are meant, and a tie may
be rounded to the other side.

Definitions marked *Seeded bug* are deliberate errors a maintainer could make (a dropped guard,
a missing reset, an off-by-one). No specification uses them; each is put in place of the
definition after it to see that a property notices.

## What the code does that its readers may not expect

Met while modelling, and kept in the models as the code has it. Those that contradict a
document or a comment and can be shown by a run are the findings above; these are the rest.

- *Deployment*: beat, `report.generate` and the webhooks use queues that the deployed worker does
  not consume. So the watchdog never runs, and an evaluation whose worker is lost while answering
  stays `answering`: its redelivered task is skipped because of the dead owner's lock. A poll for a
  report queues one more task and answers 202, and none is ever made, where the docstring of
  `get_report_by_evaluation` says that they are pre-generated.
- *Cancelling* refunds nothing, whatever has been answered, and neither does the watchdog.
- *Ledger*: overlapping writers of one users row lose an update of the balance, and the entries
  keep the true sum. Two claims of one day's reward may both be paid, and a payment that is
  notified twice gives its year and credits twice. The limit of running evaluations counts first
  and starts later.
- *Synchronous runs* swallow exceptions, ignore a cancel, and pass over deleted personas that
  were paid for; a survey may still be edited while its evaluation is queued or failed. A persona
  selected twice is charged twice.
- *Whitepapers*: a retry sets `generating` before it makes the description, which commits the
  same session; a failure after that leaves `generating` with nobody generating.
- *Reports*: the business report is answered with 202 without a task, and the report too when the
  broker refuses one; exceptions of the task are swallowed, so its automatic retry never happens;
  deleting a PDF deletes the whole row softly, and the next request revives it with the old
  `pdf_url`. An answer beyond its scale shifts the averages of the radar, which nothing clamps.
- *Webhooks*: an execution that is lost after its final commit, or whose handler fails, and the
  watchdog leave an outcome without an event; a delivery that fails by anything else than httpx
  leaves its event pending for ever.
- *Figures*: the verdict is read from a rounded average; failed answers end among the most
  negative; the confidence may fall when an answer is added. Dimension scores are 0..100 where
  the whitepaper prints "/5".
- *AI client*: `complete_json_with_usage` has no transport retry and lets exceptions of httpx out;
  a chunk that is JSON but no object raises an AttributeError past the translation of errors
  (`ai/client.py:177`); a stream that ends without its end mark counts as complete. Every call
  builds a client and with it a breaker (`ai/factory.py:7-45`), so failures are never counted
  together.
- *Providers*: the validator compares `AI_PROVIDER` as written, the others stripped and lowered;
  unknown providers pass without keys; `VISION_PROVIDER=mock` passes in production.
- *JSON*: of an array of objects the first object is taken; a brace in the prose before an object
  hides it.
- *Surveys*: a half with one reply that lacks an id fails, although ids are renumbered, and
  leaves its sibling's call running; all questions of a half may be about one dimension.
- *Images*: the key of the cache ignores the fields asked for and hashes the first image only;
  concurrent requests for one image all call; text read from an image that is too long makes the
  creation fail, though the docstring says that failures degrade; reanalysis drops what was read.
- *Sessions and login*: a revoked token passes in its last second; refresh leaves the old token
  valid; a slow reader may cache the old user after the invalidation; two overlapping first
  logins end with an IntegrityError for one of them; the limiter counts in fixed windows where
  its docstring says sliding, and fails open.
- *Recommendation*: the quota of critical personas replaces the same last place again, so one at
  most is added. *Conversations*: one that was deleted cannot be created again (its unique
  constraint knows no soft deletion). *Lists*: an OFFSET walk may skip a row while pages are
  cached.

## Not modelled, and what is left

Left out, with the reasons in `PROJECT.json`: storage, history, health, metrics, logging,
tracing, prompts, the front end, migrations, scripts and deployment (input, output and text;
nothing in them decides anything for another part); payment signatures and token signing;
listing and clearing dead letters; customisation requests (one INSERT); the per-user limiter,
which is the limiter of addresses under another key; what reports, prompts and webhooks say,
beyond what a statement names; replies that are JSON `null` or blank in the text mode of the image
reader; empty model names in the settings; an answer in synchronous mode that is
passed over because the mock answers raise as well.

What a continuation would add, in this order: averages of floats, with the sheets on which a tie
is rounded the other way; repeated personas in `Preparation`; the balance column and the faults of
the task in one model.
