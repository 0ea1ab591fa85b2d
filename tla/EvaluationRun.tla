---------------------------- MODULE EvaluationRun ----------------------------
(***************************************************************************)
(* One evaluation of the product-testing backend, from the tap on "run" to *)
(* its final status, in Celery mode: the HTTP handlers of                   *)
(* EvaluationService, the broker, the Celery workers that execute           *)
(* "evaluation.run" under the Redis lock "lock:eval:<id>", the credit       *)
(* charge and its refunds, and the watchdog.                                *)
(*                                                                          *)
(* Three things in the code shape the model.                                *)
(*                                                                          *)
(*  - A session keeps the row it loaded (db/session.py: expire_on_commit    *)
(*    and autoflush are off), so a second SELECT of a held row does not     *)
(*    refresh it.  Every actor therefore owns a snapshot, and only a        *)
(*    rollback makes it read again.  The cancellation checks inside the     *)
(*    worker's loops read that snapshot, whose status is "answering": they  *)
(*    never see a later cancel, and are no action here.                     *)
(*                                                                          *)
(*  - An UPDATE writes the columns that differ from the snapshot, with the  *)
(*    new absolute value, whatever the row holds by then.                   *)
(*                                                                          *)
(*  - PostgreSQL keeps a row lock from an UPDATE to the end of its          *)
(*    transaction.  Only the run request works between its flush and its    *)
(*    commit; the others are one atomic step each, that waits for the rows  *)
(*    it updates: see charging and RowLocked.                               *)
(***************************************************************************)
EXTENDS Integers, FiniteSets

CONSTANTS
    Slots,      \* positions of evaluation.selected_persona_ids
    Personas,   \* persona ids
    PersonaOf,  \* the persona in each slot: update_personas keeps duplicates
    Workers,    \* Celery worker processes
    Requests,   \* POST /run requests; the task a request publishes has its name
    NoTask,     \* the NULL of evaluation.task_id
    Cost,       \* settings.credit_cost_per_persona
    Faults,     \* what the environment may do, see below
    MaxFaults   \* bound: how many of the counted faults may happen

(***************************************************************************)
(* Counted faults: each occurrence uses one of MaxFaults.                   *)
(*   "crash"     a worker process is lost and its message redelivered       *)
(*   "timeLimit" Celery's time limit kills a task between two awaits        *)
(*   "redis"     Redis fails under the distributed lock                     *)
(*   "abort"     a request's transaction fails                              *)
(*   "database"  a transaction of the answering loops fails                 *)
(*   "late"      a transaction fails after the evaluation is finalised      *)
(*   "escape"    a transaction fails where the task does not catch it       *)
(*   "expiry"    a task result outlives result_expires unread               *)
(* Uncounted choices.                                                       *)
(*   "persona"   a persona is gone, or its answer cannot be generated       *)
(*   "early"     a worker takes a message before its request has committed  *)
(*   "overlap"   a run request starts while another is being served         *)
(***************************************************************************)
FaultKinds == {"crash", "timeLimit", "redis", "abort", "database", "late", "escape",
               "expiry", "persona", "early", "overlap"}

ASSUME ConstantsAssumption ==
    /\ IsFiniteSet(Slots) /\ Slots # {} /\ IsFiniteSet(Workers)
    /\ PersonaOf \in [Slots -> Personas]
    /\ NoTask \notin Requests
    /\ {"free", "orphan"} \cap Workers = {}
    /\ Cost \in Nat
    /\ Faults \subseteq FaultKinds
    /\ MaxFaults \in Nat

VARIABLES
    row,       \* the evaluations row
    answers,   \* the answers table: status of each persona's row, or "none"
    charged,   \* sum of this evaluation's deductions in credit_transactions
    refunded,  \* sum of this evaluation's refunds in credit_transactions
    charging,  \* run request whose open transaction has deducted, and locked the users row
    req,       \* the run requests
    cancel,    \* the request serving POST /cancel
    queue,     \* messages of the "evaluations" queue
    revoked,   \* task ids the workers were told to revoke
    result,    \* Celery's result backend
    worker,    \* the worker processes and the task each one executes
    lock,      \* owner of the Redis key: a worker, "free", or "orphan"
    failOpens, \* ghost: how often the lock was entered without its key
    watchdog,  \* the watchdog's scan
    faults     \* counted faults so far

dbVars    == <<row, answers, charged, refunded>>
apiVars   == <<charging, req, cancel>>
brokerVars == <<queue, revoked, result>>
lockVars  == <<lock, failOpens>>
vars == <<dbVars, apiVars, brokerVars, worker, lockVars, watchdog, faults>>

Statuses == {"pending", "queued", "answering", "done", "failed", "canceled"}
Finals   == {"done", "canceled"}
Total    == Cardinality(Slots)
Tasks    == Requests \cup {NoTask}
ReadyStates == {"SUCCESS", "FAILURE", "REVOKED"}

Min2(a, b) == IF a <= b THEN a ELSE b

Row == [status : Statuses, progress : 0..Total, creditCost : Nat,
        taskId : Tasks, stale : BOOLEAN, deleted : BOOLEAN]

Request == [pc : {"new", "checked", "charged", "published", "end"},
            progress : 0..Total, creditCost : Nat]

\* Program counters of one execution of the task.
WorkerPc == {"idle", "lock", "read", "start", "answer", "refund", "webhook",
             "rollback", "fail", "notify", "release", "ack"}

Worker == [pc : WorkerPc, task : Tasks, outcome : {"SUCCESS", "FAILURE", "RETRY"},
           status : Statuses, progress : 0..Total, creditCost : Nat,
           taskId : Tasks, todo : SUBSET Slots, gen : SUBSET Slots,
           counted : SUBSET Slots, failed : SUBSET Slots]

IdleWorker == [pc |-> "idle", task |-> NoTask, outcome |-> "SUCCESS",
               status |-> "pending", progress |-> 0, creditCost |-> 0,
               taskId |-> NoTask, todo |-> {}, gen |-> {},
               counted |-> {}, failed |-> {}]

\* A process that is not idle executes a task.
WorkersOK == /\ worker \in [Workers -> Worker]
             /\ \A w \in Workers : worker[w].pc # "idle" => worker[w].task \in Requests

\* The type invariant.
TypeOK ==
    /\ row \in Row
    /\ answers \in [Personas -> {"none", "done", "failed"}]
    /\ charged \in Nat
    /\ refunded \in Nat
    /\ charging \in Tasks
    /\ req \in [Requests -> Request]
    /\ cancel \in [pc : {"idle", "decided"}, taskId : Tasks]
    /\ queue \subseteq Requests
    /\ revoked \subseteq Requests
    /\ result \in [Requests -> {"PENDING", "STARTED", "RETRY"} \cup ReadyStates]
    /\ WorkersOK
    /\ lock \in Workers \cup {"free", "orphan"}
    /\ failOpens \in Nat
    /\ watchdog \in [pc : {"idle", "selected"}, taskId : Tasks]
    /\ faults \in 0..MaxFaults

\* An evaluation as create_evaluation leaves it, with its survey and personas chosen.
Init ==
    /\ row = [status |-> "pending", progress |-> 0, creditCost |-> 0,
              taskId |-> NoTask, stale |-> FALSE, deleted |-> FALSE]
    /\ answers = [p \in Personas |-> "none"]
    /\ charged = 0
    /\ refunded = 0
    /\ charging = NoTask
    /\ req = [r \in Requests |-> [pc |-> "new", progress |-> 0, creditCost |-> 0]]
    /\ cancel = [pc |-> "idle", taskId |-> NoTask]
    /\ queue = {}
    /\ revoked = {}
    /\ result = [t \in Requests |-> "PENDING"]
    /\ worker = [w \in Workers |-> IdleWorker]
    /\ lock = "free"
    /\ failOpens = 0
    /\ watchdog = [pc |-> "idle", taskId |-> NoTask]
    /\ faults = 0

Fault(f) == /\ f \in Faults
            /\ faults < MaxFaults
            /\ faults' = faults + 1

\* The evaluations row is locked by the open transaction of a run request.
RowLocked == charging # NoTask /\ req[charging].creditCost # Cost * Total

-----------------------------------------------------------------------------
(* The HTTP handlers                                                        *)

CanRun(s)    == s \notin {"queued", "answering"} \cup Finals
CanCancel(s) == s \in {"pending", "queued", "answering"}

\* run_evaluation up to the credit check.  A request the guards refuse changes
\* nothing; so does one refused for its balance or for the per-user limit.
RunPreflight(r) ==
    /\ req[r].pc = "new"
    /\ "overlap" \in Faults \/ \A q \in Requests : req[q].pc \in {"new", "end"}
    /\ ~row.deleted
    /\ CanRun(row.status)
    /\ req' = [req EXCEPT ![r] = [pc |-> "checked", progress |-> row.progress,
                                  creditCost |-> row.creditCost]]
    /\ UNCHANGED <<dbVars, charging, cancel, brokerVars, worker, lockVars, watchdog, faults>>

\* The deduction and credit_cost are flushed, not yet committed: the users row stays
\* locked, and the evaluations row too unless a re-run left credit_cost as it was.
RunCharge(r) ==
    /\ req[r].pc = "checked"
    /\ Cost > 0
    /\ charging = NoTask
    /\ charging' = r
    /\ req' = [req EXCEPT ![r].pc = "charged"]
    /\ UNCHANGED <<dbVars, cancel, brokerVars, worker, lockVars, watchdog, faults>>

\* _enqueue_evaluation hands the message to the broker before it commits.
RunPublish(r) ==
    /\ req[r].pc = IF Cost > 0 THEN "charged" ELSE "checked"
    /\ ~row.deleted
    /\ queue' = queue \cup {r}
    /\ req' = [req EXCEPT ![r].pc = "published"]
    /\ UNCHANGED <<dbVars, charging, cancel, revoked, result, worker, lockVars, watchdog, faults>>

\* Its second look-up of the evaluation finds it deleted: 404, rolled back.
RunGone(r) ==
    /\ req[r].pc \in {"checked", "charged"}
    /\ row.deleted
    /\ charging' = IF charging = r THEN NoTask ELSE charging
    /\ req' = [req EXCEPT ![r].pc = "end"]
    /\ UNCHANGED <<dbVars, cancel, brokerVars, worker, lockVars, watchdog, faults>>

\* The commit: the charge becomes visible with status, task_id and, where the
\* snapshot's progress was not 0 already, progress.
RunCommit(r) ==
    /\ req[r].pc = "published"
    /\ charging \in {NoTask, r}
    /\ row' = [row EXCEPT !.status = "queued", !.taskId = r, !.stale = FALSE,
                          !.progress = IF req[r].progress = 0 THEN @ ELSE 0,
                          !.creditCost = IF Cost > 0 THEN Cost * Total ELSE @]
    /\ charged' = charged + Cost * Total
    /\ charging' = NoTask
    /\ req' = [req EXCEPT ![r].pc = "end"]
    /\ UNCHANGED <<answers, refunded, cancel, brokerVars, worker, lockVars, watchdog, faults>>

\* The request's transaction fails and rolls back; a published message stays.
RunAbort(r) ==
    /\ req[r].pc \in {"charged", "published"}
    /\ Fault("abort")
    /\ charging' = IF charging = r THEN NoTask ELSE charging
    /\ req' = [req EXCEPT ![r].pc = "end"]
    /\ UNCHANGED <<dbVars, cancel, brokerVars, worker, lockVars, watchdog>>

\* cancel_evaluation: the status is checked and the task revoked (terminate=False:
\* a task that a worker has started is not touched) ...
CancelDecide ==
    /\ cancel.pc = "idle"
    /\ ~row.deleted
    /\ CanCancel(row.status)
    /\ cancel' = [pc |-> "decided", taskId |-> row.taskId]
    /\ revoked' = revoked \cup ({row.taskId} \ {NoTask})
    /\ UNCHANGED <<dbVars, charging, req, queue, result, worker, lockVars, watchdog, faults>>

\* ... and then the status is written and committed.
CancelCommit ==
    /\ cancel.pc = "decided"
    /\ ~RowLocked
    /\ row' = [row EXCEPT !.status = "canceled", !.stale = FALSE]
    /\ cancel' = [pc |-> "idle", taskId |-> NoTask]
    /\ UNCHANGED <<answers, charged, refunded, charging, req, brokerVars, worker, lockVars,
                   watchdog, faults>>

CancelAbort ==
    /\ cancel.pc = "decided"
    /\ Fault("abort")
    /\ cancel' = [pc |-> "idle", taskId |-> NoTask]
    /\ UNCHANGED <<dbVars, charging, req, brokerVars, worker, lockVars, watchdog>>

\* delete_evaluation looks at no status and writes only deleted_at.
Delete ==
    /\ ~row.deleted
    /\ ~RowLocked
    /\ row' = [row EXCEPT !.deleted = TRUE, !.stale = FALSE]
    /\ UNCHANGED <<answers, charged, refunded, apiVars, brokerVars, worker, lockVars, watchdog,
                   faults>>

-----------------------------------------------------------------------------
(* The broker and the lock                                                  *)

Delivered(t) == t \in queue /\ ("early" \in Faults \/ req[t].pc = "end")

Pickup(w, t) ==
    /\ worker[w].pc = "idle"
    /\ Delivered(t)
    /\ t \notin revoked
    /\ queue' = queue \ {t}
    /\ result' = [result EXCEPT ![t] = "STARTED"]
    /\ worker' = [worker EXCEPT ![w] = [IdleWorker EXCEPT !.pc = "lock", !.task = t]]
    /\ UNCHANGED <<dbVars, apiVars, revoked, lockVars, watchdog, faults>>

Discard(t) ==
    /\ Delivered(t)
    /\ t \in revoked
    /\ queue' = queue \ {t}
    /\ result' = [result EXCEPT ![t] = "REVOKED"]
    /\ UNCHANGED <<dbVars, apiVars, revoked, worker, lockVars, watchdog, faults>>

\* Seeded bug: a plain SET, without NX.
AcquireLockAlways(w) ==
    /\ worker[w].pc = "lock"
    /\ lock' = w
    /\ worker' = [worker EXCEPT ![w].pc = "read"]
    /\ UNCHANGED <<dbVars, apiVars, brokerVars, failOpens, watchdog, faults>>

\* SET NX EX.  The owner is a ghost: the key's value is always "1".
AcquireLock(w) ==
    /\ worker[w].pc = "lock"
    /\ lock = "free"
    /\ lock' = w
    /\ worker' = [worker EXCEPT ![w].pc = "read"]
    /\ UNCHANGED <<dbVars, apiVars, brokerVars, failOpens, watchdog, faults>>

\* The key exists: the task returns {"status": "skipped"} and is acknowledged.
SkipDuplicate(w) ==
    /\ worker[w].pc = "lock"
    /\ lock # "free"
    /\ worker' = [worker EXCEPT ![w].pc = "ack"]
    /\ UNCHANGED <<dbVars, apiVars, brokerVars, lockVars, watchdog, faults>>

\* Redis raised: fail-open, the task runs without having set the key.
AcquireFailOpen(w) ==
    /\ worker[w].pc = "lock"
    /\ Fault("redis")
    /\ failOpens' = failOpens + 1
    /\ worker' = [worker EXCEPT ![w].pc = "read"]
    /\ UNCHANGED <<dbVars, apiVars, brokerVars, lock, watchdog>>

\* __aexit__ deletes the key without looking whose it is.
ReleaseLock(w) ==
    /\ worker[w].pc = "release"
    /\ lock' = "free"
    /\ worker' = [worker EXCEPT ![w].pc = "ack"]
    /\ UNCHANGED <<dbVars, apiVars, brokerVars, failOpens, watchdog, faults>>

LostBy(w) == IF lock = w THEN "orphan" ELSE lock

\* The DELETE fails and is only logged: the key stays until its TTL.
ReleaseFails(w) ==
    /\ worker[w].pc = "release"
    /\ Fault("redis")
    /\ lock' = LostBy(w)
    /\ worker' = [worker EXCEPT ![w].pc = "ack"]
    /\ UNCHANGED <<dbVars, apiVars, brokerVars, failOpens, watchdog>>

\* The TTL (1800 s) ends.  A live owner is gone long before: its hard time limit
\* is 600 s, so only a key without an owner expires.
LockExpires ==
    /\ lock = "orphan"
    /\ lock' = "free"
    /\ UNCHANGED <<dbVars, apiVars, brokerVars, worker, failOpens, watchdog, faults>>

\* task_acks_late: the message is acknowledged when the task has ended.  An
\* autoretry publishes it again under the same id.
Ack(w) ==
    LET t == worker[w].task IN
    /\ worker[w].pc = "ack"
    /\ result' = [result EXCEPT ![t] = worker[w].outcome]
    /\ queue' = IF worker[w].outcome = "RETRY" THEN queue \cup {t} ELSE queue
    /\ worker' = [worker EXCEPT ![w] = IdleWorker]
    /\ UNCHANGED <<dbVars, apiVars, revoked, lockVars, watchdog, faults>>

\* The process is lost: its transaction rolls back, its message is redelivered
\* (task_reject_on_worker_lost), its key stays.
Crash(w) ==
    /\ worker[w].pc # "idle"
    /\ Fault("crash")
    /\ queue' = queue \cup {worker[w].task}
    /\ lock' = LostBy(w)
    /\ worker' = [worker EXCEPT ![w] = IdleWorker]
    /\ UNCHANGED <<dbVars, apiVars, revoked, result, failOpens, watchdog>>

\* A time limit ends the event loop under the coroutine: no handler runs, the
\* key stays, and the message is acknowledged with a FAILURE.
TimeLimit(w) ==
    /\ worker[w].pc \notin {"idle", "ack"}
    /\ Fault("timeLimit")
    /\ result' = [result EXCEPT ![worker[w].task] = "FAILURE"]
    /\ lock' = LostBy(w)
    /\ worker' = [worker EXCEPT ![w] = IdleWorker]
    /\ UNCHANGED <<dbVars, apiVars, queue, revoked, failOpens, watchdog>>

ResultExpires(t) ==
    /\ result[t] \in ReadyStates
    /\ Fault("expiry")
    /\ result' = [result EXCEPT ![t] = "PENDING"]
    /\ UNCHANGED <<dbVars, apiVars, queue, revoked, worker, lockVars, watchdog>>

-----------------------------------------------------------------------------
(* The task: _run_evaluation_locked                                         *)

\* The actions below change the database and this worker; ToPc moves it on.
ToPc(w, pc) == worker' = [worker EXCEPT ![w].pc = pc]
OnlyTask == UNCHANGED <<charged, apiVars, brokerVars, lockVars, watchdog>>

\* Deleted ("not found") or canceled before the task looked: nothing to do.
ReadNothingToDo(w) ==
    /\ worker[w].pc = "read"
    /\ row.deleted \/ row.status = "canceled"
    /\ ToPc(w, "release")
    /\ UNCHANGED <<row, answers, refunded, faults>> /\ OnlyTask

\* Seeded bug: a task that is delivered again does not look whether it was canceled.
ReadRowUnchecked(w) ==
    /\ worker[w].pc = "read"
    /\ ~row.deleted
    /\ worker' = [worker EXCEPT ![w] = [@ EXCEPT !.pc = "start", !.status = row.status,
                                                 !.progress = row.progress,
                                                 !.creditCost = row.creditCost,
                                                 !.taskId = row.taskId]]
    /\ UNCHANGED <<row, answers, refunded, faults>> /\ OnlyTask

\* The first SELECT fills the snapshot.
ReadRow(w) ==
    /\ worker[w].pc = "read"
    /\ ~row.deleted
    /\ row.status # "canceled"
    /\ worker' = [worker EXCEPT ![w] = [@ EXCEPT !.pc = "start", !.status = row.status,
                                                 !.progress = row.progress,
                                                 !.creditCost = row.creditCost,
                                                 !.taskId = row.taskId]]
    /\ UNCHANGED <<row, answers, refunded, faults>> /\ OnlyTask

\* task_id if it was NULL, "answering" if it was another status.  With neither to
\* write there is no UPDATE and updated_at keeps its old value.
StartCommit(w) ==
    LET setId     == worker[w].taskId = NoTask
        setStatus == worker[w].status # "answering"
    IN  /\ worker[w].pc = "start"
        /\ (setId \/ setStatus) => ~RowLocked
        /\ row' = [row EXCEPT !.taskId = IF setId THEN worker[w].task ELSE @,
                              !.status = IF setStatus THEN "answering" ELSE @,
                              !.stale  = @ /\ ~(setId \/ setStatus)]
        /\ worker' = [worker EXCEPT ![w] = [@ EXCEPT !.pc = "answer", !.status = "answering",
                                                     !.todo = Slots, !.gen = {},
                                                     !.counted = {}, !.failed = {}]]
        /\ UNCHANGED <<answers, refunded, faults>> /\ OnlyTask

\* Seeded bug: a resumed run goes on counting from the progress it finds in the row.
CompletedFromRow(w, s) == worker[w].progress + 1

\* Seeded bug: the answers under way are counted with the stored ones.
CompletedOrStarted(w, s) == Cardinality(worker[w].counted \cup worker[w].gen \cup {s})

\* completed += 1 for slot s, with the progress it amounts to: written only where it
\* differs from the snapshot's, in the transaction of the answer it counts.
Completed(w, s) == Cardinality(worker[w].counted \cup {s})

AfterCount(w, s, isFailed, isScan) ==
    [worker[w] EXCEPT !.counted  = @ \cup {s},
                      !.failed   = IF isFailed THEN @ \cup {s} ELSE @,
                      !.progress = Completed(w, s),
                      !.todo     = IF isScan THEN @ \ {s} ELSE @,
                      !.gen      = IF isScan THEN @ ELSE @ \ {s}]

Count(w, s, isFailed, isScan) ==
    LET written == Completed(w, s) # worker[w].progress
    IN  /\ written => ~RowLocked
        /\ row' = IF written THEN [row EXCEPT !.progress = Completed(w, s), !.stale = FALSE]
                             ELSE row
        /\ worker' = [worker EXCEPT ![w] = AfterCount(w, s, isFailed, isScan)]

\* First loop, an answer is already stored: counted, and counted as failed if it is.
ScanExisting(w, s) ==
    LET a == answers[PersonaOf[s]] IN
    /\ worker[w].pc = "answer"
    /\ s \in worker[w].todo
    /\ a # "none"
    /\ Count(w, s, a = "failed", TRUE)
    /\ UNCHANGED <<answers, refunded, faults>> /\ OnlyTask

\* First loop, the persona is gone: a failed answer is stored for it.
ScanMissing(w, s) ==
    /\ worker[w].pc = "answer"
    /\ s \in worker[w].todo
    /\ "persona" \in Faults
    /\ answers[PersonaOf[s]] = "none"
    /\ answers' = [answers EXCEPT ![PersonaOf[s]] = "failed"]
    /\ Count(w, s, TRUE, TRUE)
    /\ UNCHANGED <<refunded, faults>> /\ OnlyTask

\* First loop, an answer must be generated.
ScanGenerate(w, s) ==
    /\ worker[w].pc = "answer"
    /\ s \in worker[w].todo
    /\ answers[PersonaOf[s]] = "none"
    /\ worker' = [worker EXCEPT ![w] =
                     [worker[w] EXCEPT !.todo = @ \ {s}, !.gen = @ \cup {s}]]
    /\ UNCHANGED <<row, answers, refunded, faults>> /\ OnlyTask

\* Seeded bug: the answers are collected and the run finalised before every slot is scanned.
ScannedSome(w) == worker[w].pc = "answer"

Scanned(w) == worker[w].pc = "answer" /\ worker[w].todo = {}

\* Second loop: the answers arrive in any order and are stored one by one.
StoreAnswer(w, s, status) ==
    /\ Scanned(w)
    /\ s \in worker[w].gen
    /\ status = "failed" => "persona" \in Faults
    /\ answers[PersonaOf[s]] = "none"
    /\ answers' = [answers EXCEPT ![PersonaOf[s]] = status]
    /\ Count(w, s, status = "failed", FALSE)
    /\ UNCHANGED <<refunded, faults>> /\ OnlyTask

\* uq_answers_evaluation_persona: the persona has an answer by now.
StoreDuplicate(w, s) ==
    /\ Scanned(w)
    /\ s \in worker[w].gen
    /\ answers[PersonaOf[s]] # "none"
    /\ ToPc(w, "rollback")
    /\ UNCHANGED <<row, answers, refunded, faults>> /\ OnlyTask

\* Seeded bug: every slot failed and the run is nevertheless "done".
FinalStatusLenient(failedCount) == IF failedCount > Total THEN "failed" ELSE "done"

\* _finalize_evaluation: "failed" when no persona answered.
FinalStatus(failedCount) == IF failedCount >= Total THEN "failed" ELSE "done"

\* _finalize_evaluation and its commit.
Finalize(w) ==
    LET final == FinalStatus(Cardinality(worker[w].failed)) IN
    /\ Scanned(w)
    /\ worker[w].gen = {}
    /\ ~RowLocked
    /\ row' = [row EXCEPT !.status = final, !.stale = FALSE,
                          !.progress = IF worker[w].progress = Total THEN @ ELSE Total]
    /\ worker' = [worker EXCEPT ![w] = [@ EXCEPT !.pc = "refund", !.status = final,
                                                 !.progress = Total]]
    /\ UNCHANGED <<answers, refunded, faults>> /\ OnlyTask

\* Seeded bugs: the whole charge whatever failed; one persona too many, without the cap.
RefundEverything(w, failedCount) == worker[w].creditCost
RefundUncapped(w, failedCount)   == Cost * (failedCount + 1)

\* _refund_failed_credits: what failedCount personas cost, at most credit_cost.
RefundAmount(w, failedCount) == Min2(worker[w].creditCost, Cost * failedCount)

\* A transaction of its own, after the final status is committed.
RefundFailed(w) ==
    LET amount == RefundAmount(w, Cardinality(worker[w].failed)) IN
    /\ worker[w].pc = "refund"
    /\ amount > 0 => charging = NoTask
    /\ refunded' = refunded + amount
    /\ ToPc(w, "webhook")
    /\ UNCHANGED <<row, answers, faults>> /\ OnlyTask

\* The follow-up event is stored and the report enqueued: the task is done.
Announce(w) ==
    /\ worker[w].pc = "webhook"
    /\ ToPc(w, "release")
    /\ UNCHANGED <<row, answers, refunded, faults>> /\ OnlyTask

\* An exception inside the try block, before or after the final commit.
Raise(w) ==
    /\ \/ worker[w].pc = "answer" /\ Fault("database")
       \/ worker[w].pc \in {"refund", "webhook"} /\ Fault("late")
    /\ ToPc(w, "rollback")
    /\ UNCHANGED <<row, answers, refunded>> /\ OnlyTask

\* except: roll back, and read the row again, this time as it is.
RollbackNothingToDo(w) ==
    /\ worker[w].pc = "rollback"
    /\ row.deleted \/ row.status = "canceled"
    /\ ToPc(w, "release")
    /\ UNCHANGED <<row, answers, refunded, faults>> /\ OnlyTask

RollbackRead(w) ==
    /\ worker[w].pc = "rollback"
    /\ ~row.deleted
    /\ row.status # "canceled"
    /\ worker' = [worker EXCEPT ![w] = [@ EXCEPT !.pc = "fail", !.status = row.status,
                                                 !.creditCost = row.creditCost]]
    /\ UNCHANGED <<row, answers, refunded, faults>> /\ OnlyTask

\* Seeded bug: the handler refunds the charge and leaves the status.
FailRefundsOnly(w) ==
    LET amount == RefundAmount(w, Total) IN
    /\ worker[w].pc = "fail"
    /\ amount > 0 => charging = NoTask
    /\ refunded' = refunded + amount
    /\ ToPc(w, "notify")
    /\ UNCHANGED <<row, answers, faults>> /\ OnlyTask

\* "failed", with the whole charge refunded in the same commit.
FailCommit(w) ==
    LET amount == RefundAmount(w, Total) IN
    /\ worker[w].pc = "fail"
    /\ ~RowLocked
    /\ amount > 0 => charging = NoTask
    /\ row' = [row EXCEPT !.status = IF worker[w].status = "failed" THEN @ ELSE "failed",
                          !.stale = FALSE]
    /\ refunded' = refunded + amount
    /\ ToPc(w, "notify")
    /\ UNCHANGED <<answers, faults>> /\ OnlyTask

Notify(w) ==
    /\ worker[w].pc = "notify"
    /\ ToPc(w, "release")
    /\ UNCHANGED <<row, answers, refunded, faults>> /\ OnlyTask

\* An exception outside the try block, or inside its handler, leaves the task:
\* Celery retries a connection error and records any other as a failure.
Escape(w) ==
    /\ worker[w].pc \in {"read", "start", "rollback", "fail", "notify"}
    /\ Fault("escape")
    /\ \E o \in {"RETRY", "FAILURE"} :
           worker' = [worker EXCEPT ![w] = [@ EXCEPT !.pc = "release", !.outcome = o]]
    /\ UNCHANGED <<row, answers, refunded>> /\ OnlyTask

-----------------------------------------------------------------------------
(* The watchdog                                                             *)

\* Half an hour without an UPDATE of the row.  A task runs for ten minutes at most,
\* so no worker and no request is in the middle of anything.
Age ==
    /\ row.status = "answering"
    /\ ~row.stale
    /\ \A w \in Workers : worker[w].pc = "idle"
    /\ \A r \in Requests : req[r].pc \in {"new", "end"}
    /\ cancel.pc = "idle" /\ watchdog.pc = "idle"
    /\ row' = [row EXCEPT !.stale = TRUE]
    /\ UNCHANGED <<answers, charged, refunded, apiVars, brokerVars, worker, lockVars, watchdog,
                   faults>>

WatchdogSelect ==
    /\ watchdog.pc = "idle"
    /\ row.status = "answering"
    /\ row.stale
    /\ ~row.deleted
    /\ watchdog' = [pc |-> "selected", taskId |-> row.taskId]
    /\ UNCHANGED <<dbVars, apiVars, brokerVars, worker, lockVars, faults>>

\* Seeded bug: STARTED is not counted as running.
StillWaiting(t) == t # NoTask /\ result[t] \in {"PENDING", "RETRY"}

\* _task_is_still_running: a result that is unknown or expired reads PENDING.
StillRunning(t) == t # NoTask /\ result[t] \notin ReadyStates

WatchdogDone == watchdog' = [pc |-> "idle", taskId |-> NoTask]

WatchdogSkip ==
    /\ watchdog.pc = "selected"
    /\ StillRunning(watchdog.taskId)
    /\ WatchdogDone
    /\ UNCHANGED <<dbVars, apiVars, brokerVars, worker, lockVars, faults>>

\* The status alone: the watchdog refunds nothing.
WatchdogRecover ==
    /\ watchdog.pc = "selected"
    /\ ~StillRunning(watchdog.taskId)
    /\ ~RowLocked
    /\ row' = [row EXCEPT !.status = "failed", !.stale = FALSE]
    /\ WatchdogDone
    /\ UNCHANGED <<answers, charged, refunded, apiVars, brokerVars, worker, lockVars, faults>>

-----------------------------------------------------------------------------

RequestStep(r) == \/ RunPreflight(r) \/ RunCharge(r) \/ RunPublish(r)
                  \/ RunGone(r) \/ RunCommit(r) \/ RunAbort(r)

UserStep == CancelDecide \/ CancelCommit \/ CancelAbort \/ Delete

\* What a worker does of itself, and what happens to it.
Execute(w) ==
    \/ AcquireLock(w) \/ SkipDuplicate(w) \/ ReleaseLock(w) \/ Ack(w)
    \/ ReadNothingToDo(w) \/ ReadRow(w) \/ StartCommit(w)
    \/ \E s \in Slots : \/ ScanExisting(w, s) \/ ScanMissing(w, s) \/ ScanGenerate(w, s)
                        \/ \E st \in {"done", "failed"} : StoreAnswer(w, s, st)
                        \/ StoreDuplicate(w, s)
    \/ Finalize(w) \/ RefundFailed(w) \/ Announce(w)
    \/ RollbackNothingToDo(w) \/ RollbackRead(w) \/ FailCommit(w) \/ Notify(w)

Suffer(w) == \/ AcquireFailOpen(w) \/ ReleaseFails(w) \/ Crash(w) \/ TimeLimit(w)
             \/ Raise(w) \/ Escape(w)

BrokerStep == \E t \in Requests : \/ \E w \in Workers : Pickup(w, t)
                                  \/ Discard(t)
                                  \/ ResultExpires(t)

WatchdogStep == WatchdogSelect \/ WatchdogSkip \/ WatchdogRecover

Next == \/ \E r \in Requests : RequestStep(r)
        \/ UserStep
        \/ BrokerStep
        \/ \E w \in Workers : Execute(w) \/ Suffer(w)
        \/ LockExpires
        \/ Age
        \/ WatchdogStep

Spec == Init /\ [][Next]_vars

\* What is sure to go on: worker processes, requests and scans that have begun, a free
\* worker taking a message of the queue "evaluations", the lock's TTL, and time.  Users and
\* faults are not, and neither is the next scan of the watchdog: beat sends its task to the
\* default queue, which no worker of the compose files consumes.
Fairness ==
    /\ \A w \in Workers : WF_vars(Execute(w))
    /\ \A r \in Requests : WF_vars(RunCharge(r) \/ RunPublish(r) \/ RunGone(r) \/ RunCommit(r))
    /\ \A t \in Requests : WF_vars(Discard(t) \/ \E w \in Workers : Pickup(w, t))
    /\ WF_vars(CancelCommit)
    /\ WF_vars(LockExpires)
    /\ WF_vars(Age)
    /\ WF_vars(WatchdogSkip \/ WatchdogRecover)

FairSpec == Spec /\ Fairness

-----------------------------------------------------------------------------
(* Properties                                                               *)

AnsweredSlots(ss) == {s \in Slots : answers[PersonaOf[s]] \in ss}
Answered == AnsweredSlots({"done", "failed"})

\* The workers between the lock's __aenter__ and __aexit__.
InSection(w) == worker[w].pc \notin {"idle", "lock", "ack"}
Section      == {w \in Workers : InSection(w)}

\* DistributedLock: as long as Redis answers, one worker at most executes the
\* evaluation; every fail-open lets in one more and no more than one, although the
\* worker it lets in also deletes the key of whoever holds it.
SectionBound == Cardinality(Section) <= 1 + failOpens

\* An evaluation that says "done" has an answer, given or failed, of every selected
\* persona, whatever ran twice, was interrupted or was resumed on the way.
DoneMeansAnswered == row.status = "done" => Answered = Slots

\* The progress shown never runs ahead of the answers that are stored.
ProgressBacked == row.progress <= Cardinality(Answered)

\* cancel_evaluation is final unless some actor already acts on a status it read
\* before the cancel: no actor that reads "canceled" ever writes over it.
HoldsOldRow ==
    \/ \E w \in Workers : /\ worker[w].pc \in {"start", "answer", "fail"}
                          /\ worker[w].status # "canceled"
    \/ \E r \in Requests : req[r].pc \notin {"new", "end"}
    \/ watchdog.pc # "idle"

CancelIsFinal ==
    [][row.status = "canceled" /\ ~HoldsOldRow => row'.status = "canceled"]_vars

\* The watchdog never fails an evaluation while a worker executes the task it asked
\* about, even when the row looks stale because the redelivered task had nothing to
\* write to it.
WatchdogSparesRunning ==
    [][watchdog.pc # watchdog'.pc /\ row.status # "failed" /\ row'.status = "failed"
         => \A w \in Section : worker[w].task # watchdog.taskId]_vars

\* Nothing is left to happen to the evaluation but what users do.
Quiet == /\ queue = {}
         /\ \A w \in Workers : worker[w].pc = "idle"
         /\ \A r \in Requests : req[r].pc \in {"new", "end"}

\* What the user has paid when nothing runs any more: one Cost for each answer given
\* by a run that is done, and nothing when the last run failed, over all the runs and
\* re-runs of the evaluation.
Settled ==
    Quiet => /\ row.status = "done"
                    => charged - refunded = Cost * Cardinality(AnsweredSlots({"done"}))
             /\ row.status = "failed" => charged = refunded

\* _refund_failed_credits returns what failed personas cost: never more than was
\* deducted.  Both refunds of the task go through it.
RefundsCovered == refunded <= charged

\* No evaluation keeps saying "answering": the task ends it, whichever of the exceptions it
\* handles comes in between.
AnsweringEnds == row.status = "answering" ~> row.status # "answering" \/ row.deleted

\* The same as AnsweringEnds for "queued", whose task may have been lost as well.
QueuedEnds == row.status = "queued" ~> row.status # "queued" \/ row.deleted

\* The task that was executing a canceled evaluation does not finalise it.
CanceledNotFinalized ==
    [][\A w \in Workers : worker[w].pc = "answer" /\ worker'[w].pc = "refund"
           => (row.status = "canceled" => row'.status = "canceled")]_vars

\* What the users of the evaluation may rely on, whatever runs, stops or overlaps.
Lifecycle == INSTANCE EvaluationLifecycle
    WITH status <- row.status, deleted <- row.deleted,
         Panel <- {PersonaOf[s] : s \in Slots}, Price <- Cost * Total

\* The requests, the tasks and the watchdog together implement EvaluationLifecycle: each
\* of their steps is one of its steps or invisible to the user.  Above all a run says
\* "done" only of a full panel with a proper answer, and no answer is replaced.
Implements == Lifecycle!Spec

=============================================================================
