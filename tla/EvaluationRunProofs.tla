------------------------- MODULE EvaluationRunProofs -------------------------
(***************************************************************************)
(* Proofs about EvaluationRun, for every number of slots, personas, workers *)
(* and requests, every cost, and every number of faults of every kind.      *)
(* First the types; then the safety properties, each from TypeOK and an     *)
(* inductive invariant of its own, stated before its proof; then the        *)
(* refinement of EvaluationLifecycle and what has been paid in the end.     *)
(***************************************************************************)
EXTENDS EvaluationRun, FiniteSetTheorems, TLAPS

\* Cardinalities of sets of slots: what completed, failed_count and progress count.
LEMMA SlotCount ==
    ASSUME NEW S \in SUBSET Slots
    PROVE  /\ IsFiniteSet(S)
           /\ Total \in Nat
           /\ Cardinality(S) \in 0..Total
  <1>1. IsFiniteSet(Slots)
    BY ConstantsAssumption
  <1>2. Total \in Nat
    BY <1>1, FS_CardinalityType DEF Total
  <1>3. IsFiniteSet(S) /\ Cardinality(S) <= Total
    BY <1>1, FS_Subset DEF Total
  <1>4. Cardinality(S) \in Nat
    BY <1>3, FS_CardinalityType
  <1> QED BY <1>2, <1>3, <1>4

\* The number of slots and the charge for all of them are natural numbers.
LEMMA TotalType == Total \in Nat /\ 0 \in 0..Total /\ Total \in 0..Total /\ Cost * Total \in Nat
  <1>1. Total \in Nat
    BY SlotCount
  <1>2. Cost \in Nat
    BY ConstantsAssumption
  <1> QED BY <1>1, <1>2

\* A refund is an amount.
LEMMA RefundType ==
    ASSUME NEW w \in Workers, NEW n \in Nat, worker[w].creditCost \in Nat
    PROVE  RefundAmount(w, n) \in Nat
  <1>1. Cost * n \in Nat
    BY ConstantsAssumption
  <1> QED BY <1>1 DEF RefundAmount, Min2

-----------------------------------------------------------------------------
(* Type correctness                                                         *)

\* The conjuncts of TypeOK about one group of variables.
LEMMA TypeRequests ==
    ASSUME TypeOK, NEW r \in Requests, RequestStep(r)
    PROVE  TypeOK'
  <1> USE TotalType, ConstantsAssumption
  <1>1. CASE RunPreflight(r)
    BY <1>1 DEF Request, TypeOK, WorkersOK, RunPreflight, Row, Tasks, dbVars, brokerVars, lockVars
  <1>2. CASE RunCharge(r)
    BY <1>2 DEF Request, TypeOK, WorkersOK, RunCharge, Tasks, dbVars, brokerVars, lockVars
  <1>3. CASE RunPublish(r)
    BY <1>3 DEF Request, TypeOK, WorkersOK, RunPublish, Tasks, dbVars, lockVars
  <1>4. CASE RunGone(r)
    BY <1>4 DEF Request, TypeOK, WorkersOK, RunGone, Tasks, dbVars, brokerVars, lockVars
  <1>5. CASE RunCommit(r)
    <2>1. row' \in Row
      BY <1>5 DEF TypeOK, WorkersOK, RunCommit, Row, Statuses, Tasks
    <2>2. charged' \in Nat
      BY <1>5 DEF TypeOK, WorkersOK, RunCommit
    <2>3. req' \in [Requests -> Request]
      BY <1>5 DEF Request, TypeOK, WorkersOK, RunCommit
    <2> QED
      BY <1>5, <2>1, <2>2, <2>3 DEF TypeOK, WorkersOK, RunCommit, Tasks, brokerVars, lockVars
  <1>6. CASE RunAbort(r)
    BY <1>6 DEF Request, TypeOK, WorkersOK, RunAbort, Fault, Tasks, dbVars, brokerVars, lockVars
  <1> QED BY <1>1, <1>2, <1>3, <1>4, <1>5, <1>6 DEF RequestStep

\* Cancelling and deleting preserve the types.
LEMMA TypeUsers ==
    ASSUME TypeOK, UserStep
    PROVE  TypeOK'
  <1>1. CASE CancelDecide
    BY <1>1 DEF TypeOK, WorkersOK, CancelDecide, Row, Tasks, dbVars, lockVars
  <1>2. CASE CancelCommit
    BY <1>2 DEF TypeOK, WorkersOK, CancelCommit, Row, Statuses, Tasks, brokerVars, lockVars
  <1>3. CASE CancelAbort
    BY <1>3, ConstantsAssumption DEF TypeOK, WorkersOK, CancelAbort, Fault, Tasks, dbVars,
                brokerVars, lockVars
  <1>4. CASE Delete
    BY <1>4 DEF TypeOK, WorkersOK, Delete, Row, apiVars, brokerVars, lockVars
  <1> QED BY <1>1, <1>2, <1>3, <1>4 DEF UserStep

\* IdleWorker is what a worker process is between two tasks.
LEMMA IdleType == IdleWorker \in Worker
  BY TotalType DEF IdleWorker, Worker, WorkerPc, Tasks, Statuses

\* Delivering, discarding and forgetting tasks preserves the types.
LEMMA TypeBroker ==
    ASSUME TypeOK, BrokerStep
    PROVE  TypeOK'
  <1>1. ASSUME NEW t \in Requests, NEW w \in Workers, Pickup(w, t)
        PROVE  TypeOK'
    <2>1. [IdleWorker EXCEPT !.pc = "lock", !.task = t] \in Worker
      BY IdleType DEF IdleWorker, Worker, WorkerPc, Tasks
    <2>2. WorkersOK'
      BY <1>1, <2>1 DEF TypeOK, WorkersOK, Pickup, IdleWorker
    <2> QED
      BY <1>1, <2>2 DEF TypeOK, Pickup, dbVars, apiVars, lockVars
  <1>2. ASSUME NEW t \in Requests, Discard(t)
        PROVE  TypeOK'
    BY <1>2 DEF TypeOK, WorkersOK, Discard, ReadyStates, dbVars, apiVars, lockVars
  <1>3. ASSUME NEW t \in Requests, ResultExpires(t)
        PROVE  TypeOK'
    BY <1>3, ConstantsAssumption
    DEF TypeOK, WorkersOK, ResultExpires, Fault, ReadyStates, dbVars, apiVars, lockVars
  <1> QED BY <1>1, <1>2, <1>3 DEF BrokerStep

\* The watchdog, the clock and the lock's TTL preserve the types.
LEMMA TypeWatchdog ==
    ASSUME TypeOK, WatchdogStep \/ Age \/ LockExpires
    PROVE  TypeOK'
  <1>1. CASE WatchdogSelect
    BY <1>1 DEF TypeOK, WorkersOK, WatchdogSelect, Row, Tasks, dbVars, apiVars, brokerVars, lockVars
  <1>2. CASE WatchdogSkip
    BY <1>2 DEF TypeOK, WorkersOK, WatchdogSkip, WatchdogDone, Tasks, dbVars,
                apiVars, brokerVars, lockVars
  <1>3. CASE WatchdogRecover
    BY <1>3 DEF TypeOK, WorkersOK, WatchdogRecover, WatchdogDone, Row, Statuses, Tasks,
                apiVars, brokerVars,
                lockVars
  <1>4. CASE Age
    BY <1>4 DEF TypeOK, WorkersOK, Age, Row, apiVars, brokerVars, lockVars
  <1>5. CASE LockExpires
    BY <1>5 DEF TypeOK, WorkersOK, LockExpires, dbVars, apiVars, brokerVars
  <1> QED BY <1>1, <1>2, <1>3, <1>4, <1>5 DEF WatchdogStep

\* Moving a worker that executes a task to another step keeps its type.
LEMMA ToPcType ==
    ASSUME TypeOK, NEW w \in Workers, NEW pc \in WorkerPc, worker[w].pc # "idle", ToPc(w, pc)
    PROVE  WorkersOK'
  <1>0. worker \in [Workers -> Worker]
    BY DEF TypeOK, WorkersOK
  <1>1. worker' \in [Workers -> Worker]
    BY <1>0 DEF ToPc, Worker
  <1>2. \A v \in Workers : worker'[v].task = worker[v].task
    BY DEF TypeOK, WorkersOK, ToPc, Worker
  <1>3. \A v \in Workers : v # w => worker'[v].pc = worker[v].pc
    BY DEF TypeOK, WorkersOK, ToPc
  <1> QED BY <1>1, <1>2, <1>3 DEF TypeOK, WorkersOK

\* A worker process that ends its task.
LEMMA IdleStep ==
    ASSUME TypeOK, NEW w \in Workers, worker' = [worker EXCEPT ![w] = IdleWorker]
    PROVE  WorkersOK'
  BY IdleType DEF TypeOK, WorkersOK, IdleWorker

\* The lock and what befalls a worker process.
LEMMA TypeLock ==
    ASSUME TypeOK, NEW w \in Workers,
           \/ AcquireLock(w) \/ SkipDuplicate(w) \/ ReleaseLock(w) \/ Ack(w) \/ Suffer(w)
    PROVE  TypeOK'
  <1> USE DEF WorkerPc
  <1>1. CASE AcquireLock(w)
    <2>1. WorkersOK'
      BY <1>1, ToPcType DEF AcquireLock, ToPc
    <2> QED BY <1>1, <2>1 DEF TypeOK, AcquireLock, dbVars, apiVars, brokerVars
  <1>2. CASE SkipDuplicate(w)
    <2>1. WorkersOK'
      BY <1>2, ToPcType DEF SkipDuplicate, ToPc
    <2> QED BY <1>2, <2>1 DEF TypeOK, SkipDuplicate, dbVars, apiVars, brokerVars, lockVars
  <1>3. CASE ReleaseLock(w)
    <2>1. WorkersOK'
      BY <1>3, ToPcType DEF ReleaseLock, ToPc
    <2> QED BY <1>3, <2>1 DEF TypeOK, ReleaseLock, dbVars, apiVars, brokerVars
  <1>4. CASE Ack(w)
    <2>1. WorkersOK'
      BY <1>4, IdleStep DEF Ack
    <2> QED
      BY <1>4, <2>1 DEF TypeOK, WorkersOK, Ack, Worker, ReadyStates, dbVars, apiVars, lockVars
  <1>5. CASE AcquireFailOpen(w)
    <2>1. WorkersOK'
      BY <1>5, ToPcType DEF AcquireFailOpen, ToPc
    <2> QED
      BY <1>5, <2>1, ConstantsAssumption
      DEF TypeOK, AcquireFailOpen, Fault, dbVars, apiVars, brokerVars
  <1>6. CASE ReleaseFails(w)
    <2>1. WorkersOK'
      BY <1>6, ToPcType DEF ReleaseFails, ToPc
    <2> QED
      BY <1>6, <2>1, ConstantsAssumption
      DEF TypeOK, ReleaseFails, LostBy, Fault, dbVars, apiVars, brokerVars
  <1>7. CASE Crash(w)
    <2>1. WorkersOK'
      BY <1>7, IdleStep DEF Crash
    <2> QED
      BY <1>7, <2>1, ConstantsAssumption
      DEF TypeOK, WorkersOK, Crash, LostBy, Fault, dbVars, apiVars
  <1>8. CASE TimeLimit(w)
    <2>1. WorkersOK'
      BY <1>8, IdleStep DEF TimeLimit
    <2> QED
      BY <1>8, <2>1, ConstantsAssumption
      DEF TypeOK, WorkersOK, TimeLimit, LostBy, Fault, ReadyStates, dbVars, apiVars
  <1>9. CASE Raise(w)
    <2>1. WorkersOK'
      BY <1>9, ToPcType DEF Raise
    <2> QED
      BY <1>9, <2>1, ConstantsAssumption
      DEF TypeOK, Raise, Fault, OnlyTask, apiVars, brokerVars, lockVars
  <1>10. CASE Escape(w)
    <2>1. WorkersOK'
      <3>1. PICK o \in {"RETRY", "FAILURE"} :
                worker' = [worker EXCEPT ![w] = [@ EXCEPT !.pc = "release", !.outcome = o]]
        BY <1>10 DEF Escape
      <3>2. worker[w] \in Worker /\ worker[w].task \in Requests
        BY <1>10 DEF TypeOK, WorkersOK, Escape
      <3>3. [worker[w] EXCEPT !.pc = "release", !.outcome = o] \in Worker
        BY <3>2 DEF Worker
      <3> QED BY <3>1, <3>2, <3>3 DEF TypeOK, WorkersOK
    <2> QED
      BY <1>10, <2>1, ConstantsAssumption
      DEF TypeOK, Escape, Fault, OnlyTask, apiVars, brokerVars, lockVars
  <1> QED
    BY <1>1, <1>2, <1>3, <1>4, <1>5, <1>6, <1>7, <1>8, <1>9, <1>10 DEF Suffer

\* completed, failed_count and progress stay what they count.
LEMMA TypeCount ==
    ASSUME TypeOK, NEW w \in Workers, NEW s \in Slots, NEW f \in BOOLEAN, NEW scan \in BOOLEAN,
           worker[w].pc # "idle", Count(w, s, f, scan)
    PROVE  WorkersOK' /\ row' \in Row
  <1> DEFINE rec == AfterCount(w, s, f, scan)
  <1>1. worker[w] \in Worker /\ worker[w].task \in Requests
    BY DEF TypeOK, WorkersOK
  <1>2. Completed(w, s) \in 0..Total
    BY <1>1, SlotCount DEF Worker, Completed
  <1>3. rec \in Worker /\ rec.task = worker[w].task
    BY <1>1, <1>2 DEF Worker, AfterCount
  <1>4. worker' = [worker EXCEPT ![w] = rec]
    BY DEF Count
  <1>5. WorkersOK'
    <2> HIDE DEF rec
    <2> QED BY <1>1, <1>3, <1>4 DEF TypeOK, WorkersOK
  <1>6. row' = [row EXCEPT !.progress = Completed(w, s), !.stale = FALSE] \/ row' = row
    BY DEF Count
  <1>7. row' \in Row
    BY <1>2, <1>6 DEF TypeOK, Row
  <1> QED BY <1>5, <1>7

\* A task step that only moves its worker on.
LEMMA TypeMove ==
    ASSUME TypeOK, NEW w \in Workers, NEW pc \in WorkerPc, worker[w].pc # "idle", ToPc(w, pc),
           UNCHANGED <<row, answers, refunded, faults>>, OnlyTask
    PROVE  TypeOK'
  BY ToPcType DEF TypeOK, OnlyTask, apiVars, brokerVars, lockVars

\* The steps of the task.
LEMMA TypeTask ==
    ASSUME TypeOK, NEW w \in Workers, Execute(w),
           ~(AcquireLock(w) \/ SkipDuplicate(w) \/ ReleaseLock(w) \/ Ack(w))
    PROVE  TypeOK'
  <1> USE DEF WorkerPc
  <1> DEFINE Rest == UNCHANGED <<charged, charging, req, cancel, queue, revoked, result, lock,
                                 failOpens, watchdog, faults>>
  <1>0. WorkersOK' /\ row' \in Row /\ answers' \in [Personas -> {"none", "done", "failed"}]
        /\ refunded' \in Nat /\ Rest => TypeOK'
    BY DEF TypeOK
  <1> HIDE DEF Rest
  <1>w. worker[w] \in Worker /\ row \in Row
    BY DEF TypeOK, WorkersOK
  <1>1. CASE ReadNothingToDo(w)
    BY <1>1, TypeMove DEF ReadNothingToDo
  <1>2. CASE ReadRow(w)
    <2>1. [worker[w] EXCEPT !.pc = "start", !.status = row.status, !.progress = row.progress,
                            !.creditCost = row.creditCost, !.taskId = row.taskId] \in Worker
      BY <1>w DEF Worker, Row
    <2>2. WorkersOK'
      BY <1>2, <2>1 DEF TypeOK, WorkersOK, ReadRow, Worker
    <2> QED BY <1>2, <2>2, <1>0 DEF TypeOK, ReadRow, OnlyTask, Rest, apiVars, brokerVars, lockVars
  <1>3. CASE StartCommit(w)
    <2>1. [worker[w] EXCEPT !.pc = "answer", !.status = "answering", !.todo = Slots, !.gen = {},
                            !.counted = {}, !.failed = {}] \in Worker
      BY <1>w DEF Worker, Statuses
    <2>2. WorkersOK'
      BY <1>3, <2>1 DEF TypeOK, WorkersOK, StartCommit, Worker
    <2>3. row' \in Row
      BY <1>3, <1>w DEF StartCommit, Row, Statuses, Worker
    <2> QED
      BY <1>3, <2>2, <2>3, <1>0 DEF TypeOK, StartCommit, OnlyTask, Rest, apiVars,
                                        brokerVars, lockVars
  <1>4. ASSUME NEW s \in Slots, ScanExisting(w, s)  PROVE TypeOK'
    <2>1. WorkersOK' /\ row' \in Row
      BY <1>4, TypeCount DEF ScanExisting
    <2> QED
      BY <1>4, <2>1, <1>0 DEF TypeOK, ScanExisting, OnlyTask, Rest, apiVars, brokerVars, lockVars
  <1>5. ASSUME NEW s \in Slots, ScanMissing(w, s)  PROVE TypeOK'
    <2>1. WorkersOK' /\ row' \in Row
      BY <1>5, TypeCount DEF ScanMissing
    <2> QED
      BY <1>5, <2>1, <1>0 DEF TypeOK, ScanMissing, OnlyTask, Rest, apiVars, brokerVars, lockVars
  <1>6. ASSUME NEW s \in Slots, ScanGenerate(w, s)  PROVE TypeOK'
    <2> DEFINE rec == [worker[w] EXCEPT !.todo = @ \ {s}, !.gen = @ \cup {s}]
    <2>1. rec \in Worker /\ rec.task = worker[w].task
      BY <1>w DEF Worker
    <2>2. worker' = [worker EXCEPT ![w] = rec]
      BY <1>6 DEF ScanGenerate
    <2>3. worker[w].task \in Requests
      BY <1>6 DEF TypeOK, WorkersOK, ScanGenerate
    <2>4. WorkersOK'
      <3> HIDE DEF rec
      <3> QED BY <2>1, <2>2, <2>3 DEF TypeOK, WorkersOK
    <2> QED
      BY <1>6, <2>4, <1>0 DEF TypeOK, ScanGenerate, OnlyTask, Rest, apiVars, brokerVars, lockVars
  <1>7. ASSUME NEW s \in Slots, NEW st \in {"done", "failed"}, StoreAnswer(w, s, st)
        PROVE  TypeOK'
    <2>1. WorkersOK' /\ row' \in Row
      BY <1>7, TypeCount DEF StoreAnswer, Scanned
    <2> QED
      BY <1>7, <2>1, <1>0 DEF TypeOK, StoreAnswer, OnlyTask, Rest, apiVars, brokerVars, lockVars
  <1>8. ASSUME NEW s \in Slots, StoreDuplicate(w, s)  PROVE TypeOK'
    BY <1>8, TypeMove DEF StoreDuplicate, Scanned
  <1>9. CASE Finalize(w)
    <2> DEFINE final == FinalStatus(Cardinality(worker[w].failed))
    <2>1. final \in Statuses
      BY DEF FinalStatus, Statuses
    <2>2. row' = [row EXCEPT !.status = final, !.stale = FALSE,
                             !.progress = IF worker[w].progress = Total THEN @ ELSE Total]
      BY <1>9 DEF Finalize
    <2>3. worker' = [worker EXCEPT ![w] = [@ EXCEPT !.pc = "refund", !.status = final,
                                                    !.progress = Total]]
      BY <1>9 DEF Finalize
    <2> HIDE DEF final
    <2>4. row' \in Row
      BY <1>w, <2>1, <2>2, TotalType DEF Row
    <2>5. [worker[w] EXCEPT !.pc = "refund", !.status = final, !.progress = Total] \in Worker
      BY <1>w, <2>1, TotalType DEF Worker
    <2>6. WorkersOK'
      BY <1>9, <2>3, <2>5 DEF TypeOK, WorkersOK, Finalize, Scanned, Worker
    <2> QED
      BY <1>9, <2>4, <2>6, <1>0 DEF TypeOK, Finalize, OnlyTask, Rest, apiVars, brokerVars, lockVars
  <1>10. CASE RefundFailed(w)
    <2>1. Cardinality(worker[w].failed) \in Nat
      BY <1>w, SlotCount DEF Worker
    <2>2. RefundAmount(w, Cardinality(worker[w].failed)) \in Nat
      BY <1>w, <2>1, RefundType DEF Worker
    <2>3. refunded' \in Nat
      BY <1>10, <2>2 DEF RefundFailed, TypeOK
    <2>4. WorkersOK'
      BY <1>10, ToPcType DEF RefundFailed
    <2> QED
      BY <1>10, <2>3, <2>4, <1>0
      DEF TypeOK, RefundFailed, OnlyTask, Rest, apiVars, brokerVars, lockVars
  <1>11. CASE Announce(w)
    BY <1>11, TypeMove DEF Announce
  <1>12. CASE RollbackNothingToDo(w)
    BY <1>12, TypeMove DEF RollbackNothingToDo
  <1>13. CASE RollbackRead(w)
    <2>1. [worker[w] EXCEPT !.pc = "fail", !.status = row.status, !.creditCost = row.creditCost]
            \in Worker
      BY <1>w DEF Worker, Row
    <2>2. WorkersOK'
      BY <1>13, <2>1 DEF TypeOK, WorkersOK, RollbackRead, Worker
    <2> QED
      BY <1>13, <2>2, <1>0 DEF TypeOK, RollbackRead, OnlyTask, Rest, apiVars, brokerVars, lockVars
  <1>14. CASE FailCommit(w)
    <2>1. RefundAmount(w, Total) \in Nat
      BY <1>w, TotalType, RefundType DEF Worker
    <2>2. refunded' \in Nat
      BY <1>14, <2>1 DEF FailCommit, TypeOK
    <2>3. row' \in Row
      BY <1>14, <1>w DEF FailCommit, Row, Statuses
    <2>4. WorkersOK'
      BY <1>14, ToPcType DEF FailCommit
    <2> QED
      BY <1>14, <2>2, <2>3, <2>4, <1>0
      DEF TypeOK, FailCommit, OnlyTask, Rest, apiVars, brokerVars, lockVars
  <1>15. CASE Notify(w)
    BY <1>15, TypeMove DEF Notify
  <1> QED
    BY <1>1, <1>2, <1>3, <1>4, <1>5, <1>6, <1>7, <1>8, <1>9, <1>10, <1>11, <1>12, <1>13, <1>14,
       <1>15
    DEF Execute

\* The initial states are well typed.
LEMMA TypeInit == Init => TypeOK
  <1> SUFFICES ASSUME Init PROVE TypeOK
    OBVIOUS
  <1>1. row \in Row
    BY TotalType DEF Init, Row, Statuses, Tasks
  <1>2. WorkersOK
    BY IdleType DEF Init, WorkersOK, IdleWorker
  <1> QED
    BY <1>1, <1>2, TotalType, ConstantsAssumption DEF Request, Init, TypeOK, Tasks

\* Every step preserves the types.
LEMMA TypeStep == TypeOK /\ [Next]_vars => TypeOK'
  <1> SUFFICES ASSUME TypeOK, [Next]_vars PROVE TypeOK'
    OBVIOUS
  <1>1. CASE UNCHANGED vars
    BY <1>1 DEF TypeOK, WorkersOK, vars, dbVars, apiVars, brokerVars, lockVars
  <1>2. CASE Next
    BY <1>2, TypeRequests, TypeUsers, TypeBroker, TypeLock, TypeTask, TypeWatchdog
    DEF Next, Execute
  <1> QED BY <1>1, <1>2

\* Every reachable state is one the tables, the broker and the processes can hold; in
\* particular progress never leaves 0..100 %, whatever was counted twice.
THEOREM TypeCorrect == Spec => []TypeOK
  <1> QED BY TypeInit, TypeStep, PTL DEF Spec

-----------------------------------------------------------------------------
\* What a worker in the answering loops knows: every slot is still to be scanned, to be
\* generated, or counted, and what it counted has an answer in the table.
LoopInv ==
    \A w \in Workers : worker[w].pc = "answer" =>
        /\ Slots \subseteq worker[w].todo \cup worker[w].gen \cup worker[w].counted
        /\ worker[w].counted \subseteq Answered

\* The key's owner is in the section, and who else is there was let in by a fail-open.
LockInv ==
    /\ lock \in Workers => InSection(lock)
    /\ Cardinality(Section) <= failOpens + IF lock \in Workers THEN 1 ELSE 0

-----------------------------------------------------------------------------
(* "done" and the progress mean stored answers                              *)

AnswerInv == LoopInv /\ DoneMeansAnswered /\ ProgressBacked

\* Steps that store no answer, finish no evaluation and leave the loops alone.
AnswersUntouched ==
    /\ answers' = answers
    /\ row'.status = "done" => row.status = "done"
    /\ row'.progress \in {row.progress, 0}
    /\ \A v \in Workers : worker'[v].pc = "answer" => worker'[v] = worker[v]

\* Such steps preserve the invariant.
LEMMA UntouchedKeepsAnswers ==
    ASSUME TypeOK, AnswerInv, AnswersUntouched
    PROVE  AnswerInv'
  <1>1. Answered' = Answered
    BY DEF AnswersUntouched, Answered, AnsweredSlots
  <1>2. LoopInv'
    BY <1>1 DEF AnswerInv, LoopInv, AnswersUntouched
  <1>3. DoneMeansAnswered'
    BY <1>1 DEF AnswerInv, DoneMeansAnswered, AnswersUntouched
  <1>4. ProgressBacked'
    <2>1. Answered \in SUBSET Slots
      BY DEF Answered, AnsweredSlots
    <2>2. 0 <= Cardinality(Answered)
      BY <2>1, SlotCount
    <2> QED BY <1>1, <2>2 DEF AnswerInv, ProgressBacked, AnswersUntouched
  <1> QED BY <1>2, <1>3, <1>4 DEF AnswerInv

\* The steps of everybody but the workers are such steps.
LEMMA OthersKeepAnswers ==
    ASSUME TypeOK, AnswerInv,
           \/ \E r \in Requests : RequestStep(r)
           \/ UserStep \/ BrokerStep \/ LockExpires \/ Age \/ WatchdogStep
    PROVE  AnswersUntouched
  <1>1. ASSUME NEW r \in Requests, RequestStep(r)  PROVE AnswersUntouched
    BY <1>1 DEF RequestStep, RunPreflight, RunCharge, RunPublish, RunGone, RunCommit, RunAbort,
                AnswersUntouched, TypeOK, Row, dbVars
  <1>2. CASE UserStep
    BY <1>2 DEF UserStep, CancelDecide, CancelCommit, CancelAbort, Delete,
                AnswersUntouched, TypeOK, Row, dbVars
  <1>3. ASSUME NEW t \in Requests, NEW w \in Workers, Pickup(w, t)  PROVE AnswersUntouched
    BY <1>3 DEF Pickup, AnswersUntouched, TypeOK, WorkersOK, IdleWorker, dbVars
  <1>4. ASSUME NEW t \in Requests, Discard(t) \/ ResultExpires(t)  PROVE AnswersUntouched
    BY <1>4 DEF Discard, ResultExpires, AnswersUntouched, dbVars
  <1>5. CASE LockExpires \/ Age \/ WatchdogStep
    BY <1>5 DEF LockExpires, Age, WatchdogStep, WatchdogSelect, WatchdogSkip, WatchdogRecover,
                AnswersUntouched, TypeOK, Row, dbVars
  <1> QED BY <1>1, <1>2, <1>3, <1>4, <1>5 DEF BrokerStep

\* Ending a task, or moving to a step outside the loops.
LEMMA LeavesLoop ==
    ASSUME TypeOK, NEW w \in Workers, row' = row, answers' = answers,
           NEW rec, rec.pc # "answer", worker' = [worker EXCEPT ![w] = rec]
    PROVE  AnswersUntouched
  BY DEF AnswersUntouched, TypeOK, WorkersOK

\* The same for a worker that goes on to another step of its task.
LEMMA MovesOn ==
    ASSUME TypeOK, NEW w \in Workers, row' = row, answers' = answers,
           NEW pc, pc # "answer", ToPc(w, pc)
    PROVE  AnswersUntouched
  <1>1. worker \in [Workers -> Worker]
    BY DEF TypeOK, WorkersOK
  <1>2. worker'[w].pc = pc /\ \A v \in Workers : v # w => worker'[v] = worker[v]
    BY <1>1 DEF ToPc, Worker
  <1> QED BY <1>2 DEF AnswersUntouched

\* Entering and leaving the lock, and whatever happens to a worker, leave answers alone.
LEMMA LockKeepsAnswers ==
    ASSUME TypeOK, NEW w \in Workers,
           \/ AcquireLock(w) \/ SkipDuplicate(w) \/ ReleaseLock(w) \/ Ack(w) \/ Suffer(w)
    PROVE  AnswersUntouched
  <1>1. CASE AcquireLock(w)
    BY <1>1, MovesOn DEF AcquireLock, ToPc, dbVars
  <1>2. CASE SkipDuplicate(w)
    BY <1>2, MovesOn DEF SkipDuplicate, ToPc, dbVars
  <1>3. CASE ReleaseLock(w)
    BY <1>3, MovesOn DEF ReleaseLock, ToPc, dbVars
  <1>4. CASE Ack(w)
    BY <1>4, LeavesLoop DEF Ack, IdleWorker, dbVars
  <1>5. CASE AcquireFailOpen(w)
    BY <1>5, MovesOn DEF AcquireFailOpen, ToPc, dbVars
  <1>6. CASE ReleaseFails(w)
    BY <1>6, MovesOn DEF ReleaseFails, ToPc, dbVars
  <1>7. CASE Crash(w)
    BY <1>7, LeavesLoop DEF Crash, IdleWorker, dbVars
  <1>8. CASE TimeLimit(w)
    BY <1>8, LeavesLoop DEF TimeLimit, IdleWorker, dbVars
  <1>9. CASE Raise(w)
    BY <1>9, MovesOn DEF Raise
  <1>10. CASE Escape(w)
    <2>1. PICK o \in {"RETRY", "FAILURE"} :
              worker' = [worker EXCEPT ![w] = [@ EXCEPT !.pc = "release", !.outcome = o]]
      BY <1>10 DEF Escape
    <2>2. [worker[w] EXCEPT !.pc = "release", !.outcome = o].pc = "release"
      BY DEF TypeOK, WorkersOK, Worker
    <2> QED BY <1>10, <2>1, <2>2, LeavesLoop DEF Escape
  <1> QED
    BY <1>1, <1>2, <1>3, <1>4, <1>5, <1>6, <1>7, <1>8, <1>9, <1>10 DEF Suffer

\* Counting slot s, whose answer is stored by then: the slot leaves the set it waited in,
\* and the progress is the number of slots that this worker knows to be answered.
LEMMA CountKeepsAnswers ==
    ASSUME TypeOK, AnswerInv, NEW w \in Workers, NEW s \in Slots,
           NEW f \in BOOLEAN, NEW scan \in BOOLEAN,
           worker[w].pc = "answer",
           s \in IF scan THEN worker[w].todo ELSE worker[w].gen,
           Answered \subseteq Answered', s \in Answered',
           Count(w, s, f, scan)
    PROVE  AnswerInv'
  <1> DEFINE rec == AfterCount(w, s, f, scan)
  <1>1. worker[w] \in Worker /\ worker \in [Workers -> Worker]
    BY DEF TypeOK, WorkersOK
  <1>2. worker' = [worker EXCEPT ![w] = rec]
    BY DEF Count
  <1>3. /\ rec.pc = "answer"
        /\ rec.counted = worker[w].counted \cup {s}
        /\ rec.todo = IF scan THEN worker[w].todo \ {s} ELSE worker[w].todo
        /\ rec.gen = IF scan THEN worker[w].gen ELSE worker[w].gen \ {s}
    BY <1>1 DEF AfterCount, Worker
  <1>4. worker'[w] = rec /\ \A v \in Workers : v # w => worker'[v] = worker[v]
    <2> HIDE DEF rec
    <2> QED BY <1>1, <1>2
  <1>5. rec.counted \subseteq Answered' /\ Slots \subseteq rec.todo \cup rec.gen \cup rec.counted
    <2>1. /\ Slots \subseteq worker[w].todo \cup worker[w].gen \cup worker[w].counted
          /\ worker[w].counted \subseteq Answered
      BY DEF AnswerInv, LoopInv
    <2> HIDE DEF rec
    <2> QED BY <1>3, <2>1
  <1>6. LoopInv'
    <2> HIDE DEF rec
    <2> QED BY <1>4, <1>5 DEF AnswerInv, LoopInv
  <1>7. row'.status = row.status /\ row'.progress \in {row.progress, Completed(w, s)}
    BY DEF Count, TypeOK, Row
  <1>8. Answered' \in SUBSET Slots
    BY DEF Answered, AnsweredSlots
  <1>9. DoneMeansAnswered'
    BY <1>7, <1>8 DEF AnswerInv, DoneMeansAnswered
  <1>10. ProgressBacked'
    <2>1. Answered \subseteq Answered' /\ worker[w].counted \cup {s} \subseteq Answered'
      BY <1>3, <1>5
    <2>2. IsFiniteSet(Answered')
      BY <1>8, ConstantsAssumption, FS_Subset
    <2>3. Cardinality(Answered) <= Cardinality(Answered')
      BY <2>1, <2>2, FS_Subset
    <2>4. Completed(w, s) <= Cardinality(Answered')
      BY <2>1, <2>2, FS_Subset DEF Completed
    <2>5. Cardinality(Answered) \in Int /\ Cardinality(Answered') \in Int /\ row.progress \in Int
      <3>1. Answered \in SUBSET Slots
        BY DEF Answered, AnsweredSlots
      <3> QED BY <3>1, <1>8, SlotCount, TotalType DEF TypeOK, Row
    <2>6. row.progress <= Cardinality(Answered)
      BY DEF AnswerInv, ProgressBacked
    <2>7. row'.progress <= Cardinality(Answered')
      BY <1>7, <2>3, <2>4, <2>5, <2>6
    <2> QED BY <2>7 DEF ProgressBacked
  <1> QED BY <1>6, <1>9, <1>10 DEF AnswerInv

\* An answer stored for s answers s and takes no answer away.
LEMMA StoredAnswer ==
    ASSUME TypeOK, NEW s \in Slots, NEW st \in {"done", "failed"},
           answers' = [answers EXCEPT ![PersonaOf[s]] = st]
    PROVE  Answered \subseteq Answered' /\ s \in Answered'
  <1>1. PersonaOf \in [Slots -> Personas] /\ answers \in [Personas -> {"none", "done", "failed"}]
    BY ConstantsAssumption DEF TypeOK
  <1> QED BY <1>1 DEF Answered, AnsweredSlots

\* The steps of the task proper preserve the invariant.
LEMMA TaskKeepsAnswers ==
    ASSUME TypeOK, AnswerInv, NEW w \in Workers, Execute(w),
           ~(AcquireLock(w) \/ SkipDuplicate(w) \/ ReleaseLock(w) \/ Ack(w))
    PROVE  AnswerInv'
  <1>w. worker[w] \in Worker /\ worker \in [Workers -> Worker] /\ row \in Row
    BY DEF TypeOK, WorkersOK
  <1>1. CASE ReadNothingToDo(w)
    BY <1>1, MovesOn, UntouchedKeepsAnswers DEF ReadNothingToDo
  <1>2. CASE ReadRow(w)
    <2>1. AnswersUntouched
      BY <1>2, <1>w DEF ReadRow, AnswersUntouched, Worker
    <2> QED BY <2>1, UntouchedKeepsAnswers
  <1>3. CASE StartCommit(w)
    <2>1. Answered' = Answered
      BY <1>3 DEF StartCommit, Answered, AnsweredSlots
    <2>2. row'.progress = row.progress /\ (row'.status = "done" => row.status = "done")
      BY <1>3, <1>w DEF StartCommit, Row
    <2>3. worker'[w].todo = Slots /\ worker'[w].counted = {}
      BY <1>3, <1>w DEF StartCommit, Worker
    <2>4. \A v \in Workers : v # w => worker'[v] = worker[v]
      BY <1>3, <1>w DEF StartCommit
    <2>5. LoopInv'
      BY <2>1, <2>3, <2>4 DEF AnswerInv, LoopInv
    <2> QED BY <2>1, <2>2, <2>5 DEF AnswerInv, DoneMeansAnswered, ProgressBacked
  <1>4. ASSUME NEW s \in Slots, ScanExisting(w, s)  PROVE AnswerInv'
    <2>1. Answered' = Answered /\ s \in Answered
      <3>1. answers[PersonaOf[s]] \in {"none", "done", "failed"}
        BY ConstantsAssumption DEF TypeOK
      <3> QED BY <1>4, <3>1 DEF ScanExisting, Answered, AnsweredSlots
    <2> QED BY <1>4, <2>1, CountKeepsAnswers DEF ScanExisting
  <1>5. ASSUME NEW s \in Slots, ScanMissing(w, s)  PROVE AnswerInv'
    <2>1. Answered \subseteq Answered' /\ s \in Answered'
      BY <1>5, StoredAnswer DEF ScanMissing
    <2> QED BY <1>5, <2>1, CountKeepsAnswers DEF ScanMissing
  <1>6. ASSUME NEW s \in Slots, ScanGenerate(w, s)  PROVE AnswerInv'
    <2>1. Answered' = Answered
      BY <1>6 DEF ScanGenerate, Answered, AnsweredSlots
    <2>2. /\ worker'[w].todo = worker[w].todo \ {s}
          /\ worker'[w].gen = worker[w].gen \cup {s}
          /\ worker'[w].counted = worker[w].counted
          /\ \A v \in Workers : v # w => worker'[v] = worker[v]
      BY <1>6, <1>w DEF ScanGenerate, Worker
    <2>3. LoopInv'
      BY <1>6, <2>1, <2>2 DEF AnswerInv, LoopInv, ScanGenerate
    <2> QED BY <1>6, <2>1, <2>3 DEF ScanGenerate, AnswerInv, DoneMeansAnswered, ProgressBacked
  <1>7. ASSUME NEW s \in Slots, NEW st \in {"done", "failed"}, StoreAnswer(w, s, st)
        PROVE  AnswerInv'
    <2>1. Answered \subseteq Answered' /\ s \in Answered'
      BY <1>7, StoredAnswer DEF StoreAnswer
    <2> QED BY <1>7, <2>1, CountKeepsAnswers DEF StoreAnswer, Scanned
  <1>8. ASSUME NEW s \in Slots, StoreDuplicate(w, s)  PROVE AnswerInv'
    BY <1>8, MovesOn, UntouchedKeepsAnswers DEF StoreDuplicate
  <1>9. CASE Finalize(w)
    <2>1. Answered' = Answered /\ Answered \in SUBSET Slots
      BY <1>9 DEF Finalize, Answered, AnsweredSlots
    <2>2. worker[w].todo = {} /\ worker[w].gen = {} /\ worker[w].pc = "answer"
      BY <1>9 DEF Finalize, Scanned
    <2>3. Answered = Slots
      BY <2>1, <2>2 DEF AnswerInv, LoopInv
    <2>4. row'.progress \in {row.progress, Total}
      BY <1>9, <1>w DEF Finalize, Row
    <2>5. worker'[w].pc = "refund" /\ \A v \in Workers : v # w => worker'[v] = worker[v]
      BY <1>9, <1>w DEF Finalize, Worker
    <2>6. LoopInv'
      BY <2>1, <2>5 DEF AnswerInv, LoopInv
    <2>7. ProgressBacked'
      BY <2>1, <2>3, <2>4, TotalType DEF ProgressBacked, Total, Row, AnswerInv
    <2> QED BY <2>1, <2>3, <2>6, <2>7 DEF AnswerInv, DoneMeansAnswered
  <1>10. CASE RefundFailed(w)
    BY <1>10, MovesOn, UntouchedKeepsAnswers DEF RefundFailed
  <1>11. CASE Announce(w)
    BY <1>11, MovesOn, UntouchedKeepsAnswers DEF Announce
  <1>12. CASE RollbackNothingToDo(w)
    BY <1>12, MovesOn, UntouchedKeepsAnswers DEF RollbackNothingToDo
  <1>13. CASE RollbackRead(w)
    <2>1. AnswersUntouched
      BY <1>13, <1>w DEF RollbackRead, AnswersUntouched, Worker
    <2> QED BY <2>1, UntouchedKeepsAnswers
  <1>14. CASE FailCommit(w)
    <2>1. worker'[w].pc = "notify" /\ \A v \in Workers : v # w => worker'[v] = worker[v]
      BY <1>14, <1>w DEF FailCommit, ToPc, Worker
    <2>2. AnswersUntouched
      BY <1>14, <1>w, <2>1 DEF FailCommit, AnswersUntouched, Row
    <2> QED BY <2>2, UntouchedKeepsAnswers
  <1>15. CASE Notify(w)
    BY <1>15, MovesOn, UntouchedKeepsAnswers DEF Notify
  <1> QED
    BY <1>1, <1>2, <1>3, <1>4, <1>5, <1>6, <1>7, <1>8, <1>9, <1>10, <1>11, <1>12, <1>13, <1>14,
       <1>15
    DEF Execute

\* The invariant holds at first: nothing is answered, and nothing claims to be.
LEMMA AnswerInit == Init => AnswerInv
  <1> SUFFICES ASSUME Init PROVE AnswerInv
    OBVIOUS
  <1>1. LoopInv /\ DoneMeansAnswered
    BY DEF Init, LoopInv, IdleWorker, DoneMeansAnswered
  <1>2. Cardinality(Answered) >= 0 /\ row.progress = 0
    <2>1. Answered \in SUBSET Slots
      BY DEF Answered, AnsweredSlots
    <2> QED BY <2>1, SlotCount DEF Init
  <1> QED BY <1>1, <1>2 DEF AnswerInv, ProgressBacked

\* Every step preserves the invariant.
LEMMA AnswerStep == TypeOK /\ AnswerInv /\ [Next]_vars => AnswerInv'
  <1> SUFFICES ASSUME TypeOK, AnswerInv, [Next]_vars PROVE AnswerInv'
    OBVIOUS
  <1>1. CASE UNCHANGED vars
    <2>1. AnswersUntouched
      BY <1>1 DEF AnswersUntouched, vars, dbVars
    <2> QED BY <2>1, UntouchedKeepsAnswers
  <1>2. CASE Next
    BY <1>2, UntouchedKeepsAnswers, OthersKeepAnswers, LockKeepsAnswers, TaskKeepsAnswers
    DEF Next, Execute
  <1> QED BY <1>1, <1>2

\* Crashes, time limits, duplicates and overlapping runs never make an evaluation "done"
\* with a persona unanswered.
THEOREM DoneIsAnswered == Spec => []DoneMeansAnswered
  <1>1. AnswerInv => DoneMeansAnswered
    BY DEF AnswerInv
  <1> QED BY <1>1, AnswerInit, AnswerStep, TypeCorrect, PTL DEF Spec

\* Nor do they make the progress run ahead of the answers in the table.
THEOREM ProgressIsBacked == Spec => []ProgressBacked
  <1>1. AnswerInv => ProgressBacked
    BY DEF AnswerInv
  <1> QED BY <1>1, AnswerInit, AnswerStep, TypeCorrect, PTL DEF Spec

-----------------------------------------------------------------------------
(* The lock admits one worker, and one more for every fail-open             *)

\* The section is finite, before and after a step, so that its members can be counted.
LEMMA SectionFinite == /\ IsFiniteSet(Section) /\ Cardinality(Section) \in Nat
                       /\ IsFiniteSet(Section') /\ Cardinality(Section') \in Nat
  <1>1. Section \in SUBSET Workers /\ Section' \in SUBSET Workers
    BY DEF Section
  <1> QED BY <1>1, ConstantsAssumption, FS_Subset, FS_CardinalityType

\* A worker that passes the lock adds itself to the section.
LEMMA Enters ==
    ASSUME TypeOK, NEW w \in Workers, NEW pc, pc \notin {"idle", "lock", "ack"},
           worker[w].pc = "lock", ToPc(w, pc)
    PROVE  /\ Cardinality(Section') = Cardinality(Section) + 1
           /\ \A v \in Workers : InSection(v)' <=> v = w \/ InSection(v)
  <1>1. worker[w] \in Worker /\ worker \in [Workers -> Worker]
    BY DEF TypeOK, WorkersOK
  <1>2. worker'[w].pc = pc /\ \A v \in Workers : v # w => worker'[v] = worker[v]
    BY <1>1 DEF ToPc, Worker
  <1>3. \A v \in Workers : InSection(v)' <=> v = w \/ InSection(v)
    BY <1>2 DEF InSection
  <1>4. Section' = Section \cup {w} /\ w \notin Section
    BY <1>3 DEF Section, InSection
  <1> QED BY <1>3, <1>4, SectionFinite, FS_AddElement

\* A worker that ends its task, or gets as far as its acknowledgement, leaves the section.
LEMMA Leaves ==
    ASSUME TypeOK, NEW w \in Workers, NEW rec \in Worker, rec.pc \in {"idle", "ack"},
           worker' = [worker EXCEPT ![w] = rec]
    PROVE  /\ Cardinality(Section') = Cardinality(Section) - IF InSection(w) THEN 1 ELSE 0
           /\ \A v \in Workers : InSection(v)' <=> v # w /\ InSection(v)
  <1>1. worker'[w] = rec /\ \A v \in Workers : v # w => worker'[v] = worker[v]
    BY DEF TypeOK, WorkersOK
  <1>2. \A v \in Workers : InSection(v)' <=> v # w /\ InSection(v)
    BY <1>1 DEF InSection
  <1>3. Section' = Section \ {w}
    BY <1>2 DEF Section
  <1>4. w \in Section <=> InSection(w)
    BY DEF Section
  <1>5. CASE InSection(w)
    BY <1>2, <1>3, <1>4, <1>5, SectionFinite, FS_RemoveElement
  <1>6. CASE ~InSection(w)
    <2>1. Section' = Section
      BY <1>3, <1>4, <1>6
    <2> QED BY <1>2, <1>6, <2>1, SectionFinite
  <1> QED BY <1>5, <1>6

LockUntouched == /\ lock' = lock /\ failOpens' = failOpens
                 /\ \A v \in Workers : InSection(v)' <=> InSection(v)

\* Steps that leave the lock and the section alone preserve the invariant.
LEMMA UntouchedKeepsLock ==
    ASSUME LockInv, LockUntouched
    PROVE  LockInv'
  <1>1. Section' = Section
    BY DEF Section, LockUntouched
  <1> QED BY <1>1 DEF LockInv, LockUntouched

\* A worker moves without crossing the border of the section.
LEMMA StaysInSection ==
    ASSUME TypeOK, NEW w \in Workers, lock' = lock, failOpens' = failOpens,
           \A v \in Workers : v # w => worker'[v] = worker[v],
           InSection(w)' <=> InSection(w)
    PROVE  LockUntouched
  <1> SUFFICES ASSUME NEW v \in Workers PROVE InSection(v)' <=> InSection(v)
    BY DEF LockUntouched
  <1> QED BY DEF InSection

\* The steps of the task proper are such steps: it stays in the section.
LEMMA TaskKeepsLock ==
    ASSUME TypeOK, NEW w \in Workers, Execute(w),
           ~(AcquireLock(w) \/ SkipDuplicate(w) \/ ReleaseLock(w) \/ Ack(w))
    PROVE  LockUntouched
  <1>1. worker[w] \in Worker /\ worker \in [Workers -> Worker]
    BY DEF TypeOK, WorkersOK
  <1>2. lock' = lock /\ failOpens' = failOpens
    BY DEF Execute, ReadNothingToDo, ReadRow, StartCommit, ScanExisting, ScanMissing, ScanGenerate,
           StoreAnswer, StoreDuplicate, Finalize, RefundFailed, Announce, RollbackNothingToDo,
           RollbackRead, FailCommit, Notify, OnlyTask, lockVars
  <1> DEFINE Inside == /\ worker[w].pc \notin {"idle", "lock", "ack"}
                       /\ worker'[w].pc \notin {"idle", "lock", "ack"}
                       /\ \A v \in Workers : v # w => worker'[v] = worker[v]
  <1>3. Inside
    <2>1. ASSUME NEW s \in Slots, NEW f, NEW scan, worker[w].pc = "answer", Count(w, s, f, scan)
          PROVE  Inside
      BY <1>1, <2>1 DEF Count, AfterCount, Worker
    <2>2. ASSUME NEW pc, pc \notin {"idle", "lock", "ack"},
                 worker[w].pc \notin {"idle", "lock", "ack"}, ToPc(w, pc)
          PROVE  Inside
      BY <1>1, <2>2 DEF ToPc, Worker
    <2>3. ASSUME NEW s \in Slots, ScanExisting(w, s)  PROVE Inside
      BY <2>1, <2>3 DEF ScanExisting
    <2>4. ASSUME NEW s \in Slots, ScanMissing(w, s)  PROVE Inside
      BY <2>1, <2>4 DEF ScanMissing
    <2>5. ASSUME NEW s \in Slots, ScanGenerate(w, s)  PROVE Inside
      BY <1>1, <2>5 DEF ScanGenerate, Worker
    <2>6. ASSUME NEW s \in Slots, NEW st \in {"done", "failed"}, StoreAnswer(w, s, st)
          PROVE  Inside
      BY <2>1, <2>6 DEF StoreAnswer, Scanned
    <2>7. ASSUME NEW s \in Slots, StoreDuplicate(w, s)  PROVE Inside
      BY <2>2, <2>7 DEF StoreDuplicate, Scanned
    <2>8. CASE ReadNothingToDo(w) \/ RefundFailed(w) \/ Announce(w) \/ RollbackNothingToDo(w)
                 \/ FailCommit(w) \/ Notify(w)
      BY <2>2, <2>8 DEF ReadNothingToDo, RefundFailed, Announce, RollbackNothingToDo, FailCommit,
                        Notify
    <2>9. CASE ReadRow(w) \/ RollbackRead(w)
      BY <1>1, <2>9 DEF ReadRow, RollbackRead, Worker
    <2>11. CASE StartCommit(w)
      BY <1>1, <2>11 DEF StartCommit, Worker
    <2>10. CASE Finalize(w)
      BY <1>1, <2>10 DEF Finalize, Scanned, Worker
    <2> QED
      BY <2>3, <2>4, <2>5, <2>6, <2>7, <2>8, <2>9, <2>10, <2>11 DEF Execute
  <1> QED BY <1>2, <1>3, StaysInSection DEF InSection

\* So are the steps of requests, users, broker, clock and watchdog.
LEMMA OthersKeepLock ==
    ASSUME TypeOK,
           \/ \E r \in Requests : RequestStep(r)
           \/ UserStep \/ BrokerStep \/ Age \/ WatchdogStep
    PROVE  LockUntouched
  <1>1. ASSUME NEW r \in Requests, RequestStep(r)  PROVE LockUntouched
    BY <1>1 DEF RequestStep, RunPreflight, RunCharge, RunPublish, RunGone, RunCommit, RunAbort,
                LockUntouched, InSection, lockVars
  <1>2. CASE UserStep
    BY <1>2 DEF UserStep, CancelDecide, CancelCommit, CancelAbort, Delete,
                LockUntouched, InSection, lockVars
  <1>3. ASSUME NEW t \in Requests, NEW w \in Workers, Pickup(w, t)  PROVE LockUntouched
    <2>1. /\ worker[w].pc = "idle" /\ worker'[w].pc = "lock"
          /\ \A v \in Workers : v # w => worker'[v] = worker[v]
      BY <1>3 DEF Pickup, TypeOK, WorkersOK, IdleWorker
    <2> QED BY <1>3, <2>1, StaysInSection DEF Pickup, InSection, lockVars
  <1>4. ASSUME NEW t \in Requests, Discard(t) \/ ResultExpires(t)  PROVE LockUntouched
    BY <1>4 DEF Discard, ResultExpires, LockUntouched, InSection, lockVars
  <1>5. CASE Age \/ WatchdogStep
    BY <1>5 DEF Age, WatchdogStep, WatchdogSelect, WatchdogSkip, WatchdogRecover,
                LockUntouched, InSection, lockVars
  <1> QED BY <1>1, <1>2, <1>3, <1>4, <1>5 DEF BrokerStep

\* The steps that move the key or cross the border of the section.
LEMMA LockStep ==
    ASSUME TypeOK, LockInv, NEW w \in Workers,
           \/ AcquireLock(w) \/ SkipDuplicate(w) \/ ReleaseLock(w) \/ Ack(w) \/ Suffer(w)
    PROVE  LockInv'
  <1>t. /\ worker[w] \in Worker /\ worker \in [Workers -> Worker]
        /\ failOpens \in Nat /\ lock \in Workers \cup {"free", "orphan"}
        /\ "free" \notin Workers /\ "orphan" \notin Workers
    BY ConstantsAssumption DEF TypeOK, WorkersOK
  <1>s. Cardinality(Section) \in Nat /\ Cardinality(Section') \in Nat
    BY SectionFinite
  <1>1. CASE AcquireLock(w)
    <2>1. /\ Cardinality(Section') = Cardinality(Section) + 1
          /\ \A v \in Workers : InSection(v)' <=> v = w \/ InSection(v)
      <3>1. worker[w].pc = "lock" /\ ToPc(w, "read")
        BY <1>1 DEF AcquireLock, ToPc
      <3> QED BY <3>1, Enters
    <2>2. lock = "free" /\ lock' = w /\ failOpens' = failOpens
      BY <1>1 DEF AcquireLock
    <2> QED BY <1>t, <1>s, <2>1, <2>2 DEF LockInv
  <1>2. CASE AcquireFailOpen(w)
    <2>1. /\ Cardinality(Section') = Cardinality(Section) + 1
          /\ \A v \in Workers : InSection(v)' <=> v = w \/ InSection(v)
      <3>1. worker[w].pc = "lock" /\ ToPc(w, "read")
        BY <1>2 DEF AcquireFailOpen, ToPc
      <3> QED BY <3>1, Enters
    <2>2. lock' = lock /\ failOpens' = failOpens + 1
      BY <1>2 DEF AcquireFailOpen
    <2> QED BY <1>t, <1>s, <2>1, <2>2 DEF LockInv
  \* Whoever leaves takes one worker out; the key it deletes may be another's.
  <1> DEFINE Left == /\ failOpens' = failOpens
                     /\ lock' \in {lock, "free", "orphan"}
                     /\ lock' = w => ~InSection(w)
                     /\ lock' # lock => InSection(w)
  <1>3. ASSUME NEW rec \in Worker, rec.pc \in {"idle", "ack"}, Left,
               worker' = [worker EXCEPT ![w] = rec]
        PROVE  LockInv'
    <2>1. /\ Cardinality(Section') = Cardinality(Section) - IF InSection(w) THEN 1 ELSE 0
          /\ \A v \in Workers : InSection(v)' <=> v # w /\ InSection(v)
      BY <1>3, Leaves
    <2>2. lock' \in Workers => lock' = lock /\ lock' # w
      BY <1>t, <1>3 DEF LockInv
    <2> QED BY <1>t, <1>s, <1>3, <2>1, <2>2 DEF LockInv
  <1>4. /\ [worker[w] EXCEPT !.pc = "ack"] \in Worker /\ IdleWorker \in Worker
        /\ [worker[w] EXCEPT !.pc = "ack"].pc = "ack" /\ IdleWorker.pc = "idle"
    BY <1>t, IdleType DEF Worker, WorkerPc, IdleWorker
  <1>5. CASE ReleaseLock(w) \/ ReleaseFails(w)
    <2>1. worker' = [worker EXCEPT ![w] = [worker[w] EXCEPT !.pc = "ack"]] /\ InSection(w)
      BY <1>5 DEF ReleaseLock, ReleaseFails, InSection
    <2>2. failOpens' = failOpens /\ lock' \in {lock, "free", "orphan"} /\ lock' # w
      BY <1>5, <1>t DEF ReleaseLock, ReleaseFails, LostBy
    <2>3. Left
      BY <2>1, <2>2
    <2> QED BY <1>3, <1>4, <2>1, <2>3
  <1>6. CASE SkipDuplicate(w)
    <2>1. worker' = [worker EXCEPT ![w] = [worker[w] EXCEPT !.pc = "ack"]] /\ ~InSection(w)
      BY <1>6 DEF SkipDuplicate, InSection
    <2>2. Left
      BY <1>6, <2>1 DEF SkipDuplicate, lockVars
    <2> QED BY <1>3, <1>4, <2>1, <2>2
  <1>7. CASE Ack(w)
    <2>1. worker' = [worker EXCEPT ![w] = IdleWorker] /\ ~InSection(w)
      BY <1>7 DEF Ack, InSection
    <2>2. Left
      BY <1>7, <2>1 DEF Ack, lockVars
    <2> QED BY <1>3, <1>4, <2>1, <2>2
  <1>8. CASE Crash(w) \/ TimeLimit(w)
    <2>1. worker' = [worker EXCEPT ![w] = IdleWorker] /\ failOpens' = failOpens
          /\ lock' = LostBy(w)
      BY <1>8 DEF Crash, TimeLimit
    <2>2. Left
      BY <1>t, <2>1 DEF LostBy, LockInv
    <2> QED BY <1>3, <1>4, <2>1, <2>2
  <1>9. CASE Raise(w)
    <2>1. /\ InSection(w) /\ worker'[w].pc = "rollback"
          /\ \A v \in Workers : v # w => worker'[v] = worker[v]
      BY <1>9, <1>t DEF Raise, ToPc, InSection, Worker
    <2>2. LockUntouched
      BY <1>9, <2>1, StaysInSection DEF Raise, OnlyTask, lockVars, InSection
    <2> QED BY <2>2, UntouchedKeepsLock
  <1>10. CASE Escape(w)
    <2>1. /\ InSection(w) /\ worker'[w].pc = "release"
          /\ \A v \in Workers : v # w => worker'[v] = worker[v]
      BY <1>10, <1>t DEF Escape, InSection, Worker
    <2>2. LockUntouched
      BY <1>10, <2>1, StaysInSection DEF Escape, OnlyTask, lockVars, InSection
    <2> QED BY <2>2, UntouchedKeepsLock
  <1> QED BY <1>1, <1>2, <1>5, <1>6, <1>7, <1>8, <1>9, <1>10 DEF Suffer

\* The invariant holds at first: the key is free and the section empty.
LEMMA LockInit == Init => LockInv
  <1> SUFFICES ASSUME Init PROVE LockInv
    OBVIOUS
  <1>1. Section = {} /\ failOpens = 0 /\ lock = "free"
    BY DEF Init, Section, InSection, IdleWorker
  <1>2. Cardinality({}) = 0
    BY FS_EmptySet
  <1> QED BY <1>1, <1>2, ConstantsAssumption DEF LockInv

\* Every step preserves the invariant.
LEMMA LockNext == TypeOK /\ LockInv /\ [Next]_vars => LockInv'
  <1> SUFFICES ASSUME TypeOK, LockInv, [Next]_vars PROVE LockInv'
    OBVIOUS
  <1>1. CASE UNCHANGED vars
    BY <1>1, UntouchedKeepsLock DEF vars, lockVars, LockUntouched, InSection
  <1>2. CASE LockExpires
    <2>1. lock = "orphan" /\ lock' = "free" /\ failOpens' = failOpens /\ Section' = Section
      BY <1>2 DEF LockExpires, Section, InSection
    <2> QED BY <2>1, ConstantsAssumption DEF LockInv
  <1>3. CASE Next /\ ~LockExpires
    BY <1>3, UntouchedKeepsLock, OthersKeepLock, TaskKeepsLock, LockStep DEF Next, Execute
  <1> QED BY <1>1, <1>2, <1>3

\* However workers crash, time out, lose Redis or delete each other's key, the section
\* holds one worker and one more for each fail-open.
THEOREM SectionIsBounded == Spec => []SectionBound
  <1>1. TypeOK /\ LockInv => SectionBound
    BY SectionFinite DEF TypeOK, LockInv, SectionBound
  <1> QED BY <1>1, LockInit, LockNext, TypeCorrect, PTL DEF Spec

-----------------------------------------------------------------------------
(* What actors do with state they read earlier: a cancel is final, and the  *)
(* watchdog spares a running task                                           *)

\* No worker is about to write on the strength of a snapshot that says "canceled".
SnapshotInv ==
    \A w \in Workers : worker[w].pc \in {"start", "answer", "fail"}
                         => worker[w].status # "canceled"

\* A task is in one place at most, and Celery reports the one that a worker has as started.
TaskInv ==
    /\ \A w \in Workers : worker[w].pc # "idle" =>
           /\ worker[w].task \notin queue
           /\ result[worker[w].task] = "STARTED"
           /\ \A v \in Workers : v # w /\ worker[v].pc # "idle"
                                   => worker[v].task # worker[w].task
    /\ \A r \in Requests : req[r].pc \in {"new", "checked", "charged"} =>
           /\ r \notin queue
           /\ \A w \in Workers : worker[w].pc # "idle" => worker[w].task # r

-----------------------------------------------------------------------------
(* What a step of the task does to its worker                               *)

\* Worker w goes from one executing step to another; the others do not move.
Moves(w) == /\ worker[w].pc # "idle" /\ worker'[w].pc # "idle"
            /\ worker'[w].task = worker[w].task
            /\ \A v \in Workers : v # w => worker'[v] = worker[v]

\* ... and does not come to hold "canceled".
Holds(w) == worker'[w].pc \in {"start", "answer", "fail"} => worker'[w].status # "canceled"

\* All the steps of a worker but those that end its task.
LEMMA TaskMoves ==
    ASSUME TypeOK, SnapshotInv, NEW w \in Workers,
           Execute(w) \/ Suffer(w), ~(Ack(w) \/ Crash(w) \/ TimeLimit(w))
    PROVE  Moves(w) /\ Holds(w) /\ UNCHANGED <<req, queue, result>>
  <1>1. worker[w] \in Worker /\ worker \in [Workers -> Worker] /\ row \in Row
    BY DEF TypeOK, WorkersOK
  <1> DEFINE Goal == Moves(w) /\ Holds(w) /\ UNCHANGED <<req, queue, result>>
  <1>2. ASSUME NEW pc, pc \notin {"idle", "start", "answer", "fail"},
               worker[w].pc # "idle", ToPc(w, pc)
        PROVE  Moves(w) /\ Holds(w)
    BY <1>1, <1>2 DEF ToPc, Worker, Moves, Holds
  <1>3. ASSUME NEW s \in Slots, NEW f, NEW scan, worker[w].pc = "answer", Count(w, s, f, scan)
        PROVE  Moves(w) /\ Holds(w)
    BY <1>1, <1>3 DEF Count, AfterCount, Worker, Moves, Holds, SnapshotInv
  <1>4. ASSUME NEW s \in Slots, ScanExisting(w, s)  PROVE Goal
    BY <1>3, <1>4 DEF ScanExisting, OnlyTask, apiVars, brokerVars
  <1>5. ASSUME NEW s \in Slots, ScanMissing(w, s)  PROVE Goal
    BY <1>3, <1>5 DEF ScanMissing, OnlyTask, apiVars, brokerVars
  <1>6. ASSUME NEW s \in Slots, ScanGenerate(w, s)  PROVE Goal
    BY <1>1, <1>6 DEF ScanGenerate, Worker, Moves, Holds, SnapshotInv, OnlyTask, apiVars, brokerVars
  <1>7. ASSUME NEW s \in Slots, NEW st \in {"done", "failed"}, StoreAnswer(w, s, st)  PROVE Goal
    BY <1>3, <1>7 DEF StoreAnswer, Scanned, OnlyTask, apiVars, brokerVars
  <1>8. ASSUME NEW s \in Slots, StoreDuplicate(w, s)  PROVE Goal
    BY <1>2, <1>8 DEF StoreDuplicate, Scanned, OnlyTask, apiVars, brokerVars
  <1>9. CASE ReadNothingToDo(w) \/ RefundFailed(w) \/ Announce(w) \/ RollbackNothingToDo(w)
               \/ FailCommit(w) \/ Notify(w) \/ Raise(w)
    BY <1>2, <1>9 DEF ReadNothingToDo, RefundFailed, Announce, RollbackNothingToDo, FailCommit,
                      Notify, Raise, OnlyTask, apiVars, brokerVars
  <1>10. CASE ReadRow(w)
    BY <1>1, <1>10 DEF ReadRow, Worker, Moves, Holds, OnlyTask, apiVars, brokerVars
  <1>11. CASE StartCommit(w)
    BY <1>1, <1>11 DEF StartCommit, Worker, Moves, Holds, OnlyTask, apiVars, brokerVars
  <1>12. CASE RollbackRead(w)
    BY <1>1, <1>12 DEF RollbackRead, Worker, Moves, Holds, OnlyTask, apiVars, brokerVars
  <1>13. CASE Finalize(w)
    BY <1>1, <1>13 DEF Finalize, Scanned, Worker, Moves, Holds, OnlyTask, apiVars, brokerVars
  <1>14. CASE Escape(w)
    BY <1>1, <1>14 DEF Escape, Worker, Moves, Holds, OnlyTask, apiVars, brokerVars
  <1>15. CASE AcquireLock(w) \/ SkipDuplicate(w) \/ ReleaseLock(w) \/ AcquireFailOpen(w)
                \/ ReleaseFails(w)
    <2>1. PICK pc \in {"read", "ack"} : ToPc(w, pc)
      BY <1>15 DEF AcquireLock, SkipDuplicate, ReleaseLock, AcquireFailOpen, ReleaseFails, ToPc
    <2>2. worker[w].pc # "idle" /\ UNCHANGED <<req, queue, result>>
      BY <1>15 DEF AcquireLock, SkipDuplicate, ReleaseLock, AcquireFailOpen, ReleaseFails,
                   apiVars, brokerVars
    <2> QED BY <1>2, <2>1, <2>2
  <1> QED
    BY <1>4, <1>5, <1>6, <1>7, <1>8, <1>9, <1>10, <1>11, <1>12, <1>13, <1>14, <1>15
    DEF Execute, Suffer

\* Steps that leave every worker process alone.
LEMMA OthersSpareWorkers ==
    ASSUME TypeOK,
           \/ \E r \in Requests : RequestStep(r)
           \/ UserStep \/ LockExpires \/ Age \/ WatchdogStep
           \/ \E t \in Requests : Discard(t) \/ ResultExpires(t)
    PROVE  worker' = worker
  BY DEF RequestStep, RunPreflight, RunCharge, RunPublish, RunGone, RunCommit, RunAbort, UserStep,
         CancelDecide, CancelCommit, CancelAbort, Delete, LockExpires, Age, WatchdogStep,
         WatchdogSelect, WatchdogSkip, WatchdogRecover, Discard, ResultExpires

\* A task is taken by a worker that was idle.
LEMMA WorkerPicksUp ==
    ASSUME TypeOK, NEW w \in Workers, NEW t \in Requests, Pickup(w, t)
    PROVE  /\ worker[w].pc = "idle" /\ worker'[w].pc = "lock" /\ worker'[w].task = t
           /\ \A v \in Workers : v # w => worker'[v] = worker[v]
  BY DEF TypeOK, WorkersOK, Pickup, IdleWorker

\* A task that ends, in whatever way, leaves its worker idle.
LEMMA WorkerEnds ==
    ASSUME TypeOK, NEW w \in Workers, Ack(w) \/ Crash(w) \/ TimeLimit(w)
    PROVE  /\ worker[w].pc # "idle" /\ worker'[w].pc = "idle"
           /\ \A v \in Workers : v # w => worker'[v] = worker[v]
  BY DEF TypeOK, WorkersOK, Ack, Crash, TimeLimit, IdleWorker

-----------------------------------------------------------------------------
(* A cancel is final                                                        *)

\* Every step preserves SnapshotInv.
LEMMA SnapshotStep == TypeOK /\ SnapshotInv /\ [Next]_vars => SnapshotInv'
  <1> SUFFICES ASSUME TypeOK, SnapshotInv, [Next]_vars PROVE SnapshotInv'
    OBVIOUS
  <1>1. CASE worker' = worker
    BY <1>1 DEF SnapshotInv
  <1>2. ASSUME NEW w \in Workers, Moves(w), Holds(w)  PROVE SnapshotInv'
    BY <1>2 DEF SnapshotInv, Moves, Holds
  <1>3. ASSUME NEW w \in Workers, Ack(w) \/ Crash(w) \/ TimeLimit(w)  PROVE SnapshotInv'
    BY <1>3, WorkerEnds DEF SnapshotInv
  <1>4. ASSUME NEW w \in Workers, NEW t \in Requests, Pickup(w, t)  PROVE SnapshotInv'
    BY <1>4, WorkerPicksUp DEF SnapshotInv
  <1>5. CASE UNCHANGED vars
    BY <1>1, <1>5 DEF vars
  <1>6. CASE Next
    BY <1>1, <1>2, <1>3, <1>4, <1>6, OthersSpareWorkers, TaskMoves DEF Next, BrokerStep
  <1> QED BY <1>5, <1>6

\* No step writes over canceled unless some actor holds an older status.
LEMMA CancelStep ==
    ASSUME TypeOK, SnapshotInv, [Next]_vars, row.status = "canceled", ~HoldsOldRow
    PROVE  row'.status = "canceled"
  <1>1. row \in Row
    BY DEF TypeOK
  <1>2. \A w \in Workers : worker[w].pc \notin {"start", "answer", "fail"}
    BY DEF HoldsOldRow, SnapshotInv
  <1>3. ASSUME NEW r \in Requests, RequestStep(r)  PROVE row' = row
    BY <1>3 DEF RequestStep, RunPreflight, RunCharge, RunPublish, RunGone, RunCommit, RunAbort,
                HoldsOldRow, dbVars
  <1>4. CASE UserStep
    BY <1>1, <1>4 DEF UserStep, CancelDecide, CancelCommit, CancelAbort, Delete, Row, dbVars
  <1>5. CASE BrokerStep \/ LockExpires \/ Age
    BY <1>5 DEF BrokerStep, Pickup, Discard, ResultExpires, LockExpires, Age, dbVars
  <1>6. CASE WatchdogStep
    BY <1>6 DEF WatchdogStep, WatchdogSelect, WatchdogSkip, WatchdogRecover, HoldsOldRow, dbVars
  <1>7. ASSUME NEW w \in Workers, Suffer(w)  PROVE row' = row
    BY <1>7 DEF Suffer, AcquireFailOpen, ReleaseFails, Crash, TimeLimit, Raise, Escape, dbVars
  <1>8. ASSUME NEW w \in Workers, Execute(w)  PROVE row' = row
    BY <1>2, <1>8 DEF Execute, AcquireLock, SkipDuplicate, ReleaseLock, Ack, ReadNothingToDo,
         ReadRow, StartCommit, ScanExisting, ScanMissing, ScanGenerate, StoreAnswer, StoreDuplicate,
         Finalize, Scanned, RefundFailed, Announce, RollbackNothingToDo, RollbackRead, FailCommit,
         Notify, dbVars
  <1>9. CASE UNCHANGED vars
    BY <1>9 DEF vars, dbVars
  <1> QED BY <1>3, <1>4, <1>5, <1>6, <1>7, <1>8, <1>9 DEF Next

\* Once nobody is left who read the row before the cancel, nothing brings a canceled
\* evaluation back: no retry, no redelivery, no handler of an exception, no watchdog.
THEOREM CancelEndsIt == Spec => CancelIsFinal
  <1>1. Init => SnapshotInv
    BY DEF Init, SnapshotInv, IdleWorker
  <1>2. TypeOK /\ SnapshotInv /\ [Next]_vars
          => [row.status = "canceled" /\ ~HoldsOldRow => row'.status = "canceled"]_vars
    BY CancelStep
  <1> QED BY <1>1, <1>2, SnapshotStep, TypeCorrect, PTL DEF Spec, CancelIsFinal

-----------------------------------------------------------------------------
(* The watchdog spares a task that a worker executes                        *)

\* A request publishes its task once, and only a task that nobody has.
LEMMA RequestKeepsTask ==
    ASSUME TypeOK, TaskInv, NEW r \in Requests, RequestStep(r)
    PROVE  TaskInv'
  <1>1. worker' = worker /\ result' = result
    BY DEF RequestStep, RunPreflight, RunCharge, RunPublish, RunGone, RunCommit, RunAbort,
           brokerVars
  <1>2. CASE RunPublish(r)
    <2>1. req[r].pc \in {"new", "checked", "charged"}
      BY <1>2 DEF RunPublish
    <2>2. \A w \in Workers : worker[w].pc # "idle" => worker[w].task # r
      BY <2>1 DEF TaskInv
    <2>3. /\ req'[r].pc = "published" /\ \A q \in Requests : q # r => req'[q] = req[q]
          /\ queue' = queue \cup {r}
      BY <1>2 DEF RunPublish, TypeOK
    <2> QED BY <1>1, <2>2, <2>3 DEF TaskInv
  <1>3. CASE ~RunPublish(r)
    <2>1. queue' = queue
      BY <1>3 DEF RequestStep, RunPreflight, RunCharge, RunGone, RunCommit, RunAbort, brokerVars
    <2>2. \A q \in Requests : req'[q].pc \in {"new", "checked", "charged"}
                                => req[q].pc \in {"new", "checked", "charged"}
      BY <1>3 DEF Request, RequestStep, RunPreflight, RunCharge, RunGone, RunCommit,
                  RunAbort, TypeOK
    <2> QED BY <1>1, <2>1, <2>2 DEF TaskInv
  <1> QED BY <1>2, <1>3

\* The broker hands a task to one worker and forgets only results of tasks that ended.
LEMMA BrokerKeepsTask ==
    ASSUME TypeOK, TaskInv, BrokerStep
    PROVE  TaskInv'
  <1>1. ASSUME NEW t \in Requests, NEW w \in Workers, Pickup(w, t)  PROVE TaskInv'
    <2>1. /\ t \in queue /\ queue' = queue \ {t} /\ req' = req
          /\ result'[t] = "STARTED" /\ \A q \in Requests : q # t => result'[q] = result[q]
      BY <1>1 DEF Pickup, Delivered, TypeOK, apiVars
    <2>2. /\ worker[w].pc = "idle" /\ worker'[w].pc = "lock" /\ worker'[w].task = t
          /\ \A v \in Workers : v # w => worker'[v] = worker[v]
      BY <1>1, WorkerPicksUp
    <2>3. \A v \in Workers : worker[v].pc # "idle" => worker[v].task \in Requests
      BY DEF TypeOK, WorkersOK
    <2>4. \A v \in Workers : worker[v].pc # "idle" => worker[v].task # t
      BY <2>1 DEF TaskInv
    <2> QED BY <2>1, <2>2, <2>3, <2>4 DEF TaskInv
  <1>2. ASSUME NEW t \in Requests, Discard(t) \/ ResultExpires(t)  PROVE TaskInv'
    <2>1. /\ queue' \subseteq queue /\ req' = req /\ worker' = worker
          /\ \A q \in Requests : q # t => result'[q] = result[q]
      BY <1>2 DEF Discard, ResultExpires, TypeOK, apiVars
    <2>2. t \in queue \/ result[t] # "STARTED"
      BY <1>2 DEF Discard, ResultExpires, Delivered, ReadyStates
    <2>3. \A v \in Workers : worker[v].pc # "idle"
                               => worker[v].task \in Requests /\ worker[v].task # t
      BY <2>2 DEF TypeOK, WorkersOK, TaskInv
    <2> QED BY <2>1, <2>3 DEF TaskInv
  <1> QED BY <1>1, <1>2 DEF BrokerStep

\* A task that ends may go back to the queue, and then no worker has it.
LEMMA EndKeepsTask ==
    ASSUME TypeOK, TaskInv, NEW w \in Workers, Ack(w) \/ Crash(w) \/ TimeLimit(w)
    PROVE  TaskInv'
  <1> DEFINE t == worker[w].task
  <1>1. /\ worker[w].pc # "idle" /\ worker'[w].pc = "idle"
        /\ \A v \in Workers : v # w => worker'[v] = worker[v]
    BY WorkerEnds
  <1>2. /\ queue' \subseteq queue \cup {t} /\ req' = req
        /\ \A q \in Requests : q # t => result'[q] = result[q]
    BY DEF Ack, Crash, TimeLimit, apiVars, TypeOK
  <1>3. \A v \in Workers : v # w /\ worker[v].pc # "idle"
                             => worker[v].task # t /\ worker[v].task \in Requests
    BY <1>1 DEF TaskInv, TypeOK, WorkersOK
  <1>4. t \in Requests /\ req[t].pc \notin {"new", "checked", "charged"}
    BY <1>1 DEF TaskInv, TypeOK, WorkersOK
  <1> HIDE DEF t
  <1> QED BY <1>1, <1>2, <1>3, <1>4 DEF TaskInv

\* Every step preserves TaskInv.
LEMMA TaskStep == TypeOK /\ SnapshotInv /\ TaskInv /\ [Next]_vars => TaskInv'
  <1> SUFFICES ASSUME TypeOK, SnapshotInv, TaskInv, [Next]_vars PROVE TaskInv'
    OBVIOUS
  <1>1. CASE UNCHANGED <<worker, req, queue, result>>
    BY <1>1 DEF TaskInv
  <1>2. ASSUME NEW w \in Workers, Moves(w), UNCHANGED <<req, queue, result>>  PROVE TaskInv'
    BY <1>2 DEF TaskInv, Moves
  <1>3. CASE UserStep \/ LockExpires \/ Age \/ WatchdogStep
    BY <1>1, <1>3 DEF UserStep, CancelDecide, CancelCommit, CancelAbort, Delete, LockExpires, Age,
       WatchdogStep, WatchdogSelect, WatchdogSkip, WatchdogRecover, apiVars, brokerVars
  <1>4. CASE UNCHANGED vars
    BY <1>1, <1>4 DEF vars, apiVars, brokerVars
  <1>5. CASE Next
    BY <1>2, <1>3, <1>5, RequestKeepsTask, BrokerKeepsTask, EndKeepsTask, TaskMoves DEF Next
  <1> QED BY <1>4, <1>5

\* The watchdog writes "failed" over a task whose result is ready; the one a worker has
\* is "STARTED".
\* The watchdog's verdict is never about a task that a worker executes.
LEMMA RecoverStep ==
    ASSUME TypeOK, TaskInv, [Next]_vars, watchdog.pc # watchdog'.pc,
           row.status # "failed", row'.status = "failed"
    PROVE  \A w \in Section : worker[w].task # watchdog.taskId
  <1>1. WatchdogStep
    <2>1. ASSUME NEW r \in Requests, RequestStep(r)  PROVE watchdog' = watchdog
      BY <2>1 DEF RequestStep, RunPreflight, RunCharge, RunPublish, RunGone, RunCommit, RunAbort
    <2>2. CASE UserStep \/ BrokerStep \/ LockExpires \/ Age
      BY <2>2 DEF UserStep, CancelDecide, CancelCommit, CancelAbort, Delete, BrokerStep, Pickup,
                  Discard, ResultExpires, LockExpires, Age
    <2>3. ASSUME NEW w \in Workers, Suffer(w)  PROVE watchdog' = watchdog
      BY <2>3 DEF Suffer, AcquireFailOpen, ReleaseFails, Crash, TimeLimit, Raise, Escape, OnlyTask
    <2>4. ASSUME NEW w \in Workers, Execute(w)  PROVE watchdog' = watchdog
      BY <2>4 DEF Execute, AcquireLock, SkipDuplicate, ReleaseLock, Ack, ReadNothingToDo,
         ReadRow, StartCommit, ScanExisting, ScanMissing, ScanGenerate, StoreAnswer, StoreDuplicate,
         Finalize, RefundFailed, Announce, RollbackNothingToDo, RollbackRead, FailCommit,
         Notify, OnlyTask
    <2> QED BY <2>1, <2>2, <2>3, <2>4 DEF Next, vars
  <1>2. WatchdogRecover
    BY <1>1 DEF WatchdogStep, WatchdogSelect, WatchdogSkip, dbVars
  <1>3. watchdog.taskId = NoTask \/ result[watchdog.taskId] \in ReadyStates
    BY <1>2 DEF WatchdogRecover, StillRunning
  <1>4. \A w \in Section : worker[w].task \in Requests /\ result[worker[w].task] = "STARTED"
    BY DEF Section, InSection, TaskInv, TypeOK, WorkersOK
  <1> QED BY <1>3, <1>4, ConstantsAssumption DEF ReadyStates

\* The watchdog never takes an evaluation from the worker that executes it.
THEOREM WatchdogSpares == Spec => WatchdogSparesRunning
  <1>1. Init => SnapshotInv /\ TaskInv
    BY DEF Init, SnapshotInv, TaskInv, IdleWorker
  <1>2. TypeOK /\ TaskInv /\ [Next]_vars
          => [watchdog.pc # watchdog'.pc /\ row.status # "failed" /\ row'.status = "failed"
                => \A w \in Section : worker[w].task # watchdog.taskId]_vars
    BY RecoverStep
  <1> QED
    BY <1>1, <1>2, SnapshotStep, TaskStep, TypeCorrect, PTL DEF Spec, WatchdogSparesRunning

-----------------------------------------------------------------------------
(***************************************************************************)

(***************************************************************************)

\* What a worker counted as failed in the loops is exactly what the table says failed.
FailedInv ==
    \A w \in Workers : worker[w].pc = "answer" =>
        worker[w].failed =
            {s \in worker[w].counted : answers[PersonaOf[s]] = "failed"}

RefineInv == TypeOK /\ AnswerInv /\ FailedInv

SlotPersonas == {PersonaOf[s] : s \in Slots}

\* Nothing the user sees has changed.
Unseen == UNCHANGED <<row.status, row.deleted, answers, charged>>

\* The status alone has changed, to one that promises nothing.
Becomes(s) == /\ row'.status = s
              /\ UNCHANGED <<row.deleted, answers, charged>>

\* Both are steps of the lifecycle.
LEMMA SmallSteps ==
    ASSUME Unseen \/ \E s \in {"answering", "failed", "canceled"} : Becomes(s)
    PROVE  [Lifecycle!Next]_Lifecycle!vars
  BY DEF Unseen, Becomes, Lifecycle!Next, Lifecycle!Become, Lifecycle!vars

-----------------------------------------------------------------------------
(* The steps outside the loops                                              *)

\* The requests: the commit of a run is the order, the rest is not seen.
LEMMA RequestsRefine ==
    ASSUME TypeOK, NEW r \in Requests, RequestStep(r)
    PROVE  [Lifecycle!Next]_Lifecycle!vars
  <1>1. CASE RunCommit(r)
    <2>1. Lifecycle!Order
      BY <1>1 DEF RunCommit, Lifecycle!Order, TypeOK, Row
    <2> QED BY <2>1 DEF Lifecycle!Next
  <1>2. CASE RunPreflight(r) \/ RunCharge(r) \/ RunPublish(r) \/ RunGone(r) \/ RunAbort(r)
    <2>1. Unseen
      BY <1>2 DEF RunPreflight, RunCharge, RunPublish, RunGone, RunAbort, Unseen, dbVars
    <2> QED BY <2>1, SmallSteps
  <1> QED BY <1>1, <1>2 DEF RequestStep

\* Cancelling, deleting, the broker, the lock, the clock and the watchdog.
LEMMA OthersRefine ==
    ASSUME TypeOK, UserStep \/ BrokerStep \/ LockExpires \/ Age \/ WatchdogStep
    PROVE  [Lifecycle!Next]_Lifecycle!vars
  <1>1. CASE CancelCommit
    <2>1. Becomes("canceled")
      BY <1>1 DEF CancelCommit, Becomes, TypeOK, Row
    <2> QED BY <2>1, SmallSteps
  <1>2. CASE Delete
    <2>1. Lifecycle!Remove
      BY <1>2 DEF Delete, Lifecycle!Remove, TypeOK, Row
    <2> QED BY <2>1 DEF Lifecycle!Next
  <1>3. CASE WatchdogRecover
    <2>1. Becomes("failed")
      BY <1>3 DEF WatchdogRecover, Becomes, TypeOK, Row
    <2> QED BY <2>1, SmallSteps
  <1>4. CASE Age
    <2>1. Unseen
      BY <1>4 DEF Age, Unseen, TypeOK, Row
    <2> QED BY <2>1, SmallSteps
  <1>5. CASE CancelDecide \/ CancelAbort \/ BrokerStep \/ LockExpires \/ WatchdogSelect
             \/ WatchdogSkip
    <2>1. Unseen
      BY <1>5 DEF CancelDecide, CancelAbort, BrokerStep, Pickup, Discard, ResultExpires,
                  LockExpires, WatchdogSelect, WatchdogSkip, Unseen, dbVars
    <2> QED BY <2>1, SmallSteps
  <1> QED BY <1>1, <1>2, <1>3, <1>4, <1>5 DEF UserStep, WatchdogStep

\* What happens to a worker is not seen.
LEMMA SufferRefines ==
    ASSUME NEW w \in Workers, Suffer(w)
    PROVE  Unseen
  BY DEF Suffer, AcquireFailOpen, ReleaseFails, Crash, TimeLimit, Raise, Escape, OnlyTask,
         Unseen, dbVars

-----------------------------------------------------------------------------
(* The task                                                                 *)

\* Counting changes no status.
LEMMA CountUnseen ==
    ASSUME TypeOK, NEW w \in Workers, NEW s \in Slots, NEW f \in BOOLEAN, NEW scan \in BOOLEAN,
           Count(w, s, f, scan)
    PROVE  UNCHANGED <<row.status, row.deleted>>
  BY DEF Count, TypeOK, Row

\* Storing an answer is the answer of the lifecycle.
LEMMA StoreRefines ==
    ASSUME TypeOK, NEW w \in Workers, NEW s \in Slots, NEW f \in BOOLEAN, NEW scan \in BOOLEAN,
           NEW a \in {"done", "failed"},
           answers[PersonaOf[s]] = "none",
           answers' = [answers EXCEPT ![PersonaOf[s]] = a],
           Count(w, s, f, scan), charged' = charged
    PROVE  [Lifecycle!Next]_Lifecycle!vars
  <1>1. Lifecycle!Answer(PersonaOf[s])
    BY CountUnseen DEF Lifecycle!Answer
  <1> QED BY <1>1 DEF Lifecycle!Next

\* A run that says "done" counted every slot, and one that did not fail.
LEMMA FinishRefines ==
    ASSUME RefineInv, NEW w \in Workers, Finalize(w)
    PROVE  [Lifecycle!Next]_Lifecycle!vars
  <1> DEFINE final == FinalStatus(Cardinality(worker[w].failed))
  <1>1. /\ row'.status = final
        /\ UNCHANGED <<row.deleted, answers, charged>>
    BY DEF Finalize, RefineInv, TypeOK, Row, OnlyTask
  <1>2. CASE final = "failed"
    <2>1. Becomes("failed")
      BY <1>1, <1>2 DEF Becomes
    <2> QED BY <2>1, SmallSteps
  <1>3. CASE final = "done"
    <2>1. Slots \subseteq worker[w].counted /\ worker[w].counted \subseteq Answered
      BY DEF Finalize, Scanned, RefineInv, AnswerInv, LoopInv
    <2>2. worker[w].failed =
              {s \in worker[w].counted : answers[PersonaOf[s]] = "failed"}
      BY DEF Finalize, Scanned, RefineInv, FailedInv
    <2>3. ~(Cardinality(worker[w].failed) >= Total)
      BY <1>3 DEF FinalStatus
    <2>4. worker[w].failed # Slots
      BY <2>3, TotalType DEF Total
    <2>5. PICK s \in Slots : answers[PersonaOf[s]] # "failed"
      <3>1. worker[w].counted \subseteq Slots
        BY <2>1 DEF Answered, AnsweredSlots
      <3> QED BY <2>1, <2>2, <2>4, <3>1
    <2>6. \A t \in Slots : answers[PersonaOf[t]] \in {"done", "failed"}
      BY <2>1 DEF Answered, AnsweredSlots
    <2>7. answers[PersonaOf[s]] = "done"
      BY <2>5, <2>6
    <2>8. Lifecycle!Given({"done", "failed"}) = SlotPersonas
      BY <2>6 DEF Lifecycle!Given, SlotPersonas
    <2>9. PersonaOf[s] \in Lifecycle!Given({"done"})
      BY <2>7 DEF Lifecycle!Given
    <2>10. Lifecycle!Finish
      BY <1>1, <1>3, <2>8, <2>9 DEF Lifecycle!Finish, Lifecycle!Become, SlotPersonas
    <2> QED BY <2>10 DEF Lifecycle!Next
  <1> QED BY <1>2, <1>3 DEF FinalStatus

\* Every step of a task refines a step of the lifecycle.
LEMMA ExecuteRefines ==
    ASSUME RefineInv, NEW w \in Workers, Execute(w)
    PROVE  [Lifecycle!Next]_Lifecycle!vars
  <1>0. TypeOK
    BY DEF RefineInv
  <1>1. CASE StartCommit(w)
    <2>1. Unseen \/ Becomes("answering")
      BY <1>0, <1>1 DEF StartCommit, Unseen, Becomes, TypeOK, Row, OnlyTask
    <2> QED BY <2>1, SmallSteps
  <1>2. ASSUME NEW s \in Slots, ScanExisting(w, s)
        PROVE  [Lifecycle!Next]_Lifecycle!vars
    <2>1. Unseen
      BY <1>0, <1>2, CountUnseen DEF ScanExisting, Unseen, OnlyTask
    <2> QED BY <2>1, SmallSteps
  <1>3. ASSUME NEW s \in Slots, ScanMissing(w, s)
        PROVE  [Lifecycle!Next]_Lifecycle!vars
    BY <1>0, <1>3, StoreRefines DEF ScanMissing, OnlyTask
  <1>4. ASSUME NEW s \in Slots, NEW a \in {"done", "failed"}, StoreAnswer(w, s, a)
        PROVE  [Lifecycle!Next]_Lifecycle!vars
    <2>1. (a = "failed") \in BOOLEAN
      OBVIOUS
    <2> QED BY <1>0, <1>4, <2>1, StoreRefines DEF StoreAnswer, OnlyTask
  <1>5. CASE Finalize(w)
    BY <1>5, FinishRefines
  <1>6. CASE FailCommit(w)
    <2>1. Unseen \/ Becomes("failed")
      BY <1>0, <1>6 DEF FailCommit, Unseen, Becomes, TypeOK, Row, OnlyTask
    <2> QED BY <2>1, SmallSteps
  <1>7. ASSUME \/ AcquireLock(w) \/ SkipDuplicate(w) \/ ReleaseLock(w) \/ Ack(w)
               \/ ReadNothingToDo(w) \/ ReadRow(w)
               \/ \E s \in Slots : ScanGenerate(w, s) \/ StoreDuplicate(w, s)
               \/ RefundFailed(w) \/ Announce(w)
               \/ RollbackNothingToDo(w) \/ RollbackRead(w) \/ Notify(w)
        PROVE  [Lifecycle!Next]_Lifecycle!vars
    <2>1. Unseen
      BY <1>7 DEF AcquireLock, SkipDuplicate, ReleaseLock, Ack, ReadNothingToDo, ReadRow,
                  ScanGenerate, StoreDuplicate, RefundFailed, Announce, RollbackNothingToDo,
                  RollbackRead, Notify, OnlyTask, Unseen, dbVars
    <2> QED BY <2>1, SmallSteps
  <1> QED BY <1>1, <1>2, <1>3, <1>4, <1>5, <1>6, <1>7 DEF Execute

\* Every step of the system does, where the invariant holds.
LEMMA NextRefines == RefineInv /\ [Next]_vars => [Lifecycle!Next]_Lifecycle!vars
  <1> SUFFICES ASSUME RefineInv, [Next]_vars
               PROVE  [Lifecycle!Next]_Lifecycle!vars
    OBVIOUS
  <1>0. TypeOK
    BY DEF RefineInv
  <1>1. CASE UNCHANGED vars
    BY <1>1, SmallSteps DEF vars, dbVars, Unseen
  <1>2. CASE Next
    BY <1>0, <1>2, RequestsRefine, OthersRefine, SufferRefines, SmallSteps, ExecuteRefines
    DEF Next
  <1> QED BY <1>1, <1>2

-----------------------------------------------------------------------------
(* FailedInv is inductive                                                   *)

\* A counted slot is answered, and an answer never changes: so what was counted stays
\* as it was counted, whoever stores the next answer.
LEMMA StoredKeepsFailed ==
    ASSUME RefineInv, NEW v \in Workers, worker[v].pc = "answer",
           NEW s \in Slots, NEW a \in {"done", "failed"}, answers[PersonaOf[s]] = "none",
           answers' = [answers EXCEPT ![PersonaOf[s]] = a]
    PROVE  /\ worker[v].failed = {t \in worker[v].counted : answers'[PersonaOf[t]] = "failed"}
           /\ answers'[PersonaOf[s]] = a
  <1>1. /\ answers \in [Personas -> {"none", "done", "failed"}]
        /\ PersonaOf \in [Slots -> Personas]
    BY ConstantsAssumption DEF RefineInv, TypeOK
  <1>2. worker[v].counted \subseteq Answered
    BY DEF RefineInv, AnswerInv, LoopInv
  <1>3. \A t \in worker[v].counted : answers'[PersonaOf[t]] = answers[PersonaOf[t]]
    BY <1>1, <1>2 DEF Answered, AnsweredSlots
  <1>4. worker[v].failed = {t \in worker[v].counted : answers[PersonaOf[t]] = "failed"}
    BY DEF RefineInv, FailedInv
  <1> QED BY <1>1, <1>3, <1>4

\* Counting a slot, as failed exactly if its answer says so.
LEMMA CountKeepsFailed ==
    ASSUME RefineInv, NEW w \in Workers, NEW s \in Slots, NEW f \in BOOLEAN,
           NEW scan \in BOOLEAN, worker[w].pc = "answer",
           \A v \in Workers : worker[v].pc = "answer" =>
               worker[v].failed = {t \in worker[v].counted : answers'[PersonaOf[t]] = "failed"},
           f <=> answers'[PersonaOf[s]] = "failed",
           Count(w, s, f, scan)
    PROVE  FailedInv'
  <1> DEFINE rec == AfterCount(w, s, f, scan)
  <1>1. worker[w] \in Worker /\ worker \in [Workers -> Worker]
    BY DEF RefineInv, TypeOK, WorkersOK
  <1>2. worker' = [worker EXCEPT ![w] = rec]
    BY DEF Count
  <1>3. /\ rec.counted = worker[w].counted \cup {s}
        /\ rec.failed = IF f THEN worker[w].failed \cup {s} ELSE worker[w].failed
    BY <1>1 DEF AfterCount, Worker
  <1>4. worker'[w] = rec /\ \A v \in Workers : v # w => worker'[v] = worker[v]
    <2> HIDE DEF rec
    <2> QED BY <1>1, <1>2
  <1>5. rec.failed = {t \in rec.counted : answers'[PersonaOf[t]] = "failed"}
    <2> HIDE DEF rec
    <2> QED BY <1>3
  <1> HIDE DEF rec
  <1> QED BY <1>4, <1>5 DEF FailedInv

\* Steps that leave the answers and the loops alone.
LEMMA UntouchedKeepsFailed ==
    ASSUME FailedInv, AnswersUntouched
    PROVE  FailedInv'
  BY DEF FailedInv, AnswersUntouched

\* The steps of the task that enter the loops, or work in them.
LEMMA LoopKeepsFailed ==
    ASSUME RefineInv, NEW w \in Workers,
           \/ StartCommit(w)
           \/ \E s \in Slots : \/ ScanExisting(w, s) \/ ScanMissing(w, s) \/ ScanGenerate(w, s)
                               \/ \E st \in {"done", "failed"} : StoreAnswer(w, s, st)
    PROVE  FailedInv'
  <1>w. worker[w] \in Worker /\ worker \in [Workers -> Worker]
    BY DEF RefineInv, TypeOK, WorkersOK
  <1>0. \A v \in Workers : worker[v].pc = "answer" =>
            worker[v].failed = {t \in worker[v].counted : answers[PersonaOf[t]] = "failed"}
    BY DEF RefineInv, FailedInv
  <1>1. CASE StartCommit(w)
    <2>1. worker'[w].failed = {} /\ worker'[w].counted = {}
      BY <1>1, <1>w DEF StartCommit, Worker
    <2>2. answers' = answers /\ \A v \in Workers : v # w => worker'[v] = worker[v]
      BY <1>1, <1>w DEF StartCommit
    <2> QED BY <1>0, <2>1, <2>2 DEF FailedInv
  <1>2. ASSUME NEW s \in Slots, ScanExisting(w, s)  PROVE FailedInv'
    <2>1. (answers[PersonaOf[s]] = "failed") \in BOOLEAN
      OBVIOUS
    <2>2. /\ worker[w].pc = "answer"
          /\ answers' = answers
          /\ Count(w, s, answers[PersonaOf[s]] = "failed", TRUE)
      BY <1>2 DEF ScanExisting
    <2>3. \A v \in Workers : worker[v].pc = "answer" =>
              worker[v].failed = {t \in worker[v].counted : answers'[PersonaOf[t]] = "failed"}
      BY <1>0, <2>2
    <2> QED BY <2>1, <2>2, <2>3, CountKeepsFailed
  <1>3. ASSUME NEW s \in Slots, ScanMissing(w, s)  PROVE FailedInv'
    BY <1>3, StoredKeepsFailed, CountKeepsFailed DEF ScanMissing
  <1>4. ASSUME NEW s \in Slots, ScanGenerate(w, s)  PROVE FailedInv'
    <2>1. /\ worker[w].pc = "answer"
          /\ worker'[w].failed = worker[w].failed
          /\ worker'[w].counted = worker[w].counted
          /\ \A v \in Workers : v # w => worker'[v] = worker[v]
      BY <1>4, <1>w DEF ScanGenerate, Worker
    <2>2. answers' = answers
      BY <1>4 DEF ScanGenerate
    <2>3. \A v \in Workers : worker'[v].pc = "answer" => worker[v].pc = "answer"
      BY <2>1
    <2>4. \A v \in Workers : /\ worker'[v].failed = worker[v].failed
                             /\ worker'[v].counted = worker[v].counted
      BY <2>1
    <2> QED BY <1>0, <2>2, <2>3, <2>4 DEF FailedInv
  <1>5. ASSUME NEW s \in Slots, NEW st \in {"done", "failed"}, StoreAnswer(w, s, st)
        PROVE  FailedInv'
    <2>1. (st = "failed") \in BOOLEAN
      OBVIOUS
    <2>2. /\ worker[w].pc = "answer"
          /\ answers[PersonaOf[s]] = "none"
          /\ answers' = [answers EXCEPT ![PersonaOf[s]] = st]
          /\ Count(w, s, st = "failed", FALSE)
      BY <1>5 DEF StoreAnswer, Scanned
    <2>3. /\ \A v \in Workers : worker[v].pc = "answer" =>
                 worker[v].failed = {t \in worker[v].counted : answers'[PersonaOf[t]] = "failed"}
          /\ answers'[PersonaOf[s]] = st
      BY <2>2, StoredKeepsFailed
    <2> QED BY <2>1, <2>2, <2>3, CountKeepsFailed
  <1> QED BY <1>1, <1>2, <1>3, <1>4, <1>5

\* The other steps of the task leave the loops alone.
LEMMA TaskKeepsFailed ==
    ASSUME RefineInv, NEW w \in Workers, Execute(w)
    PROVE  FailedInv'
  <1>0. TypeOK /\ FailedInv
    BY DEF RefineInv
  <1>w. worker[w] \in Worker /\ worker \in [Workers -> Worker] /\ row \in Row
    BY <1>0 DEF TypeOK, WorkersOK
  <1>1. CASE \/ AcquireLock(w) \/ SkipDuplicate(w) \/ ReleaseLock(w) \/ Ack(w)
    BY <1>0, <1>1, LockKeepsAnswers, UntouchedKeepsFailed
  <1>2. CASE ReadRow(w)
    <2>1. worker'[w].pc = "start" /\ answers' = answers
          /\ \A v \in Workers : v # w => worker'[v] = worker[v]
      BY <1>2, <1>w DEF ReadRow, Worker
    <2> QED BY <1>0, <2>1 DEF FailedInv
  <1>3. CASE RollbackRead(w)
    <2>1. worker'[w].pc = "fail" /\ answers' = answers
          /\ \A v \in Workers : v # w => worker'[v] = worker[v]
      BY <1>3, <1>w DEF RollbackRead, Worker
    <2> QED BY <1>0, <2>1 DEF FailedInv
  <1>4. CASE Finalize(w)
    <2>1. worker'[w].pc = "refund" /\ answers' = answers
          /\ \A v \in Workers : v # w => worker'[v] = worker[v]
      BY <1>4, <1>w DEF Finalize, Worker
    <2> QED BY <1>0, <2>1 DEF FailedInv
  <1>5. CASE FailCommit(w)
    <2>1. worker'[w].pc = "notify" /\ answers' = answers
          /\ \A v \in Workers : v # w => worker'[v] = worker[v]
      BY <1>5, <1>w DEF FailCommit, ToPc, Worker
    <2> QED BY <1>0, <2>1 DEF FailedInv
  <1>6. ASSUME \/ ReadNothingToDo(w) \/ RefundFailed(w) \/ Announce(w)
               \/ RollbackNothingToDo(w) \/ Notify(w)
               \/ \E s \in Slots : StoreDuplicate(w, s)
        PROVE  FailedInv'
    <2>1. /\ \E pc \in WorkerPc \ {"answer"} : ToPc(w, pc)
          /\ answers' = answers
      BY <1>6 DEF ReadNothingToDo, RefundFailed, Announce, RollbackNothingToDo, Notify,
                  StoreDuplicate, WorkerPc
    <2>2. worker'[w].pc # "answer" /\ \A v \in Workers : v # w => worker'[v] = worker[v]
      BY <1>w, <2>1 DEF ToPc, Worker
    <2> QED BY <1>0, <2>1, <2>2 DEF FailedInv
  <1> QED BY <1>1, <1>2, <1>3, <1>4, <1>5, <1>6, LoopKeepsFailed DEF Execute

\* The invariant of the refinement holds at first ...
LEMMA RefineInit == Init => RefineInv
  <1>1. Init => FailedInv
    BY DEF Init, FailedInv, IdleWorker
  <1> QED BY <1>1, TypeInit, AnswerInit DEF RefineInv

\* ... and every step preserves it.
LEMMA RefineStep == RefineInv /\ [Next]_vars => RefineInv'
  <1> SUFFICES ASSUME RefineInv, [Next]_vars PROVE RefineInv'
    OBVIOUS
  <1>0. TypeOK /\ AnswerInv /\ FailedInv
    BY DEF RefineInv
  <1>1. TypeOK' /\ AnswerInv'
    BY <1>0, TypeStep, AnswerStep
  <1>2. FailedInv'
    <2>1. CASE UNCHANGED vars
      BY <1>0, <2>1 DEF FailedInv, vars, dbVars
    <2>2. CASE Next
      BY <1>0, <2>2, OthersKeepAnswers, LockKeepsAnswers, UntouchedKeepsFailed, TaskKeepsFailed
      DEF Next
    <2> QED BY <2>1, <2>2
  <1> QED BY <1>1, <1>2 DEF RefineInv

\* The initial states are initial states of the lifecycle.
LEMMA InitRefines == Init => Lifecycle!Init
  BY DEF Init, Lifecycle!Init

\* The requests, the workers and the watchdog, with every fault and every overlap, show
\* their users nothing but an evaluation that lives by EvaluationLifecycle.
THEOREM LifecycleImplemented == Spec => Implements
  <1>1. Spec => []RefineInv
    BY RefineInit, RefineStep, PTL DEF Spec
  <1> QED BY <1>1, InitRefines, NextRefines, PTL DEF Spec, Implements, Lifecycle!Spec

-----------------------------------------------------------------------------
\* Personas fail, a transaction of the answering loops fails, results expire; nothing is
\* run twice, half or out of turn.
Regular == Faults \subseteq {"persona", "database", "expiry"}

\* The price of a run, and of the answers that are given.
Price  == Cost * Total
Earned == Cost * Cardinality(AnsweredSlots({"done"}))

\* A run request between its guards and its end; a worker that may still write the
\* outcome of its task; one that is in the middle of it.
InFlight(r) == req[r].pc \in {"checked", "charged", "published"}
Live(w)     == worker[w].pc \in {"lock", "read", "start", "answer", "rollback", "fail"}
Busy(w)     == worker[w].pc \in {"answer", "rollback", "fail"}

\* The user has paid b, apart from what a worker has still to give back of a finished run.
Paid(b) ==
    /\ (\A w \in Workers : worker[w].pc # "refund") => charged - refunded = b
    /\ \A w \in Workers : worker[w].pc = "refund"
                            => charged - refunded = b + Cost * Cardinality(worker[w].failed)

\* What none of these faults does.
CalmInv ==
    /\ failOpens = 0
    /\ watchdog.pc = "idle"
    /\ row.stale => row.deleted
    /\ row.status = "answering" => row.deleted \/ \E w \in Workers : Busy(w)
    /\ \A w \in Workers : worker[w].outcome = "SUCCESS"
    /\ Cost = 0 => row.creditCost = 0

\* Only one thing at a time can charge or decide: a request that has passed its guards, ...
RequestAlone ==
    \A r \in Requests : InFlight(r) =>
        /\ \A q \in Requests : InFlight(q) => q = r
        /\ queue = IF req[r].pc = "published" THEN {r} ELSE {}
        /\ \A w \in Workers : ~Live(w)
        /\ Paid(0)
        /\ row.status \in {"pending", "failed", "canceled"}

\* ... a task in the queue, ...
TaskAlone ==
    \A t \in queue : ~InFlight(t) =>
        /\ queue = {t}
        /\ \A w \in Workers : ~Live(w)
        /\ Paid(Price) /\ row.creditCost = Price
        /\ row.status \in {"queued", "canceled"}

\* ... or a worker that has one; until it decides, the price of one run is paid.
WorkerAlone ==
    \A w \in Workers : Live(w) =>
        /\ queue = {}
        /\ \A v \in Workers : Live(v) => v = w
        /\ Paid(Price) /\ row.creditCost = Price
        /\ row.status \in {"queued", "canceled"} \cup IF Busy(w) THEN {"answering"} ELSE {}

\* What a worker refunds is computed from the price of this run.
CopyInv ==
    \A w \in Workers :
        /\ worker[w].pc \in {"start", "answer", "refund", "fail"} => worker[w].creditCost = Price
        /\ worker[w].pc = "fail" => worker[w].status # "failed"

\* What is paid at rest.
RestInv ==
    /\ row.status \in {"pending", "failed"} => Paid(0)
    /\ row.status = "done" => Paid(Earned)
    /\ \E b \in Nat : Paid(b)

SettleInv == CalmInv /\ RequestAlone /\ TaskAlone /\ WorkerAlone /\ CopyInv /\ RestInv

\* Everything the steps of a calm system preserve.
AllInv == RefineInv /\ LockInv /\ SettleInv

-----------------------------------------------------------------------------
(* Money                                                                    *)

\* Prices are linear in what is paid for, and no part of a run costs more than all of it.
LEMMA Prices ==
    /\ Cost \in Nat /\ Total \in Nat /\ Price \in Nat
    /\ \A a, b \in Nat : Cost * (a + b) = Cost * a + Cost * b
    /\ \A a \in 0..Total : Cost * a \in Nat /\ Cost * a <= Price
  <1>1. Cost \in Nat /\ Total \in Nat /\ Price \in Nat
    BY ConstantsAssumption, TotalType DEF Price
  <1>2. \A a, b \in Nat : Cost * (a + b) = Cost * a + Cost * b
    BY <1>1
  <1>3. \A a \in Nat : Cost * a \in Nat
    BY <1>1
  <1>4. ASSUME NEW a \in 0..Total  PROVE Cost * a <= Price
    <2>1. Total - a \in Nat /\ a \in Nat /\ Total = a + (Total - a)
      BY <1>1
    <2>2. Price = Cost * a + Cost * (Total - a)
      BY <1>2, <2>1 DEF Price
    <2> QED BY <1>3, <2>1, <2>2
  <1> QED BY <1>1, <1>2, <1>3, <1>4

\* What is earned is an amount.
LEMMA EarnedType == Earned \in Nat /\ Earned' \in Nat
  <1>1. AnsweredSlots({"done"}) \in SUBSET Slots /\ AnsweredSlots({"done"})' \in SUBSET Slots
    BY DEF AnsweredSlots
  <1>2. /\ Cardinality(AnsweredSlots({"done"})) \in 0..Total
        /\ Cardinality(AnsweredSlots({"done"})') \in 0..Total
    BY <1>1, SlotCount
  <1> QED BY <1>2, Prices DEF Earned

\* Nothing is charged or refunded, and nobody comes to owe a refund.
MoneySame ==
    /\ charged' = charged /\ refunded' = refunded
    /\ \A v \in Workers : worker[v].pc = "refund" <=> worker'[v].pc = "refund"
    /\ \A v \in Workers : worker[v].pc = "refund" => worker'[v].failed = worker[v].failed

\* Then what is paid stays the same.
LEMMA PaidSame ==
    ASSUME MoneySame
    PROVE  /\ \A b : Paid(b)' <=> Paid(b)
           /\ answers' = answers => (Paid(Earned)' <=> Paid(Earned))
  <1>1. \A b : Paid(b)' <=> Paid(b)
    BY DEF MoneySame, Paid
  <1>2. ASSUME answers' = answers  PROVE Paid(Earned)' <=> Paid(Earned)
    <2>1. Earned' = Earned
      BY <1>2 DEF Earned, AnsweredSlots
    <2> QED BY <2>1 DEF MoneySame, Paid
  <1> QED BY <1>1, <1>2

\* Without fail-opens the section has one worker at most.
LEMMA OneInSection ==
    ASSUME TypeOK, LockInv, failOpens = 0, NEW v \in Workers, NEW w \in Workers,
           InSection(v), InSection(w)
    PROVE  v = w
  <1> SUFFICES ASSUME v # w PROVE FALSE
    OBVIOUS
  <1>1. Cardinality(Section) <= 1 /\ IsFiniteSet(Section) /\ Cardinality(Section) \in Nat
    BY SectionFinite DEF LockInv
  <1>2. {v, w} \subseteq Section
    BY DEF Section
  <1>3. Cardinality({v, w}) <= Cardinality(Section)
    BY <1>1, <1>2, FS_Subset
  <1>4. Cardinality({v, w}) = 2
    <2>1. IsFiniteSet({v}) /\ Cardinality({v}) = 1
      BY FS_Singleton
    <2>2. {v, w} = {v} \cup {w} /\ w \notin {v}
      OBVIOUS
    <2> QED BY <2>1, <2>2, FS_AddElement
  <1> QED BY <1>1, <1>3, <1>4

-----------------------------------------------------------------------------
(* Requests, users, broker and clock                                        *)

\* Steps that at most cancel, delete or age the evaluation.
RowOnly ==
    /\ UNCHANGED <<answers, charged, refunded, queue, worker, failOpens, watchdog>>
    /\ \A q \in Requests : req'[q].pc = req[q].pc
    /\ row'.status \in {row.status, "canceled"} /\ row'.creditCost = row.creditCost
    /\ row'.stale => row'.deleted
    /\ row.deleted => row'.deleted

\* They preserve the invariant.
LEMMA RowKeepsSettled ==
    ASSUME TypeOK, SettleInv, RowOnly
    PROVE  SettleInv'
  <1>1. /\ \A b : Paid(b)' <=> Paid(b)
        /\ Paid(Earned)' <=> Paid(Earned)
    BY PaidSame DEF RowOnly, MoneySame
  <1>2. /\ \A q \in Requests : InFlight(q)' <=> InFlight(q)
        /\ \A w \in Workers : (Live(w)' <=> Live(w)) /\ (Busy(w)' <=> Busy(w))
    BY DEF RowOnly, InFlight, Live, Busy
  <1>3. CalmInv'
    BY <1>2 DEF SettleInv, CalmInv, RowOnly
  <1>4. RequestAlone' /\ TaskAlone'
    <2>1. RequestAlone'
      BY <1>1, <1>2 DEF SettleInv, RequestAlone, RowOnly
    <2>2. Price' = Price
      BY DEF Price, Total
    <2>3. TaskAlone'
      BY <1>1, <1>2, <2>2 DEF SettleInv, TaskAlone, RowOnly, TypeOK
    <2> QED BY <2>1, <2>3
  <1>5. WorkerAlone'
    BY <1>1, <1>2 DEF SettleInv, WorkerAlone, RowOnly
  <1>6. CopyInv'
    BY DEF SettleInv, CopyInv, RowOnly
  <1>7. RestInv'
    BY <1>1 DEF SettleInv, RestInv, RowOnly
  <1> QED BY <1>3, <1>4, <1>5, <1>6, <1>7 DEF SettleInv

\* A request that has only read, flushed, published or given up.
LEMMA RequestMoves ==
    ASSUME TypeOK, SettleInv, NEW r \in Requests,
           UNCHANGED <<row, answers, charged, refunded, worker, failOpens, watchdog>>,
           \A q \in Requests : q # r => req'[q].pc = req[q].pc,
           InFlight(r)' => /\ \A q \in Requests : InFlight(q) => q = r
                           /\ \A w \in Workers : ~Live(w)
                           /\ Paid(0) /\ row.status \in {"pending", "failed", "canceled"},
           InFlight(r)' => queue' = IF req'[r].pc = "published" THEN {r} ELSE {},
           ~InFlight(r)' => queue' = queue /\ r \notin queue
    PROVE  SettleInv'
  <1>1. /\ \A b : Paid(b)' <=> Paid(b)
        /\ Paid(Earned)' <=> Paid(Earned)
    BY PaidSame DEF MoneySame
  <1>2. \A w \in Workers : (Live(w)' <=> Live(w)) /\ (Busy(w)' <=> Busy(w))
    BY DEF Live, Busy
  <1>3. \A q \in Requests : q # r => (InFlight(q)' <=> InFlight(q))
    BY DEF InFlight
  <1>4. CalmInv'
    BY <1>2 DEF SettleInv, CalmInv
  <1>5. RequestAlone'
    BY <1>1, <1>2, <1>3 DEF SettleInv, RequestAlone
  <1>6. TaskAlone'
    <2>1. ASSUME NEW t \in queue', ~InFlight(t)'
          PROVE  t \in queue /\ ~InFlight(t) /\ queue' = queue
      BY <1>3, <2>1 DEF TypeOK
    <2> QED BY <1>1, <1>2, <2>1 DEF SettleInv, TaskAlone
  <1>7. WorkerAlone'
    BY <1>1, <1>2 DEF SettleInv, WorkerAlone
  <1>8. CopyInv' /\ RestInv'
    BY <1>1 DEF SettleInv, CopyInv, RestInv
  <1> QED BY <1>4, <1>5, <1>6, <1>7, <1>8 DEF SettleInv

\* The commit of a run: the price is paid, and the task in the queue is alone.
LEMMA CommitKeepsSettled ==
    ASSUME TypeOK, SettleInv, NEW r \in Requests, RunCommit(r)
    PROVE  SettleInv'
  <1>1. /\ row \in Row /\ req \in [Requests -> Request]
        /\ charged \in Nat /\ refunded \in Nat /\ queue \subseteq Requests
    BY DEF TypeOK
  <1>2. /\ InFlight(r) /\ req[r].pc = "published"
        /\ req'[r].pc = "end" /\ \A q \in Requests : q # r => req'[q] = req[q]
        /\ UNCHANGED <<answers, refunded, queue, worker, failOpens, watchdog>>
        /\ charged' = charged + Price
        /\ row'.status = "queued" /\ row'.deleted = row.deleted /\ row'.stale = FALSE
        /\ row'.creditCost = IF Cost > 0 THEN Price ELSE row.creditCost
    BY <1>1 DEF RunCommit, InFlight, Price, Row, Request, brokerVars, lockVars
  <1>3. /\ \A q \in Requests : InFlight(q) => q = r
        /\ queue = {r} /\ (\A w \in Workers : ~Live(w)) /\ Paid(0)
    BY <1>2 DEF SettleInv, RequestAlone
  <1>4. row'.creditCost = Price /\ (Cost = 0 => row'.creditCost = 0)
    BY <1>2, Prices DEF SettleInv, CalmInv, Price
  <1>5. Paid(Price)' /\ Price' = Price
    <2>1. Price \in Nat /\ Price' = Price
      BY Prices DEF Price, Total
    <2>2. \A w \in Workers : Cost * Cardinality(worker[w].failed) \in Int
      <3>1. \A w \in Workers : worker[w].failed \in SUBSET Slots
        BY DEF TypeOK, WorkersOK, Worker
      <3> QED BY <3>1, SlotCount, Prices
    <2> QED BY <1>1, <1>2, <1>3, <2>1, <2>2 DEF Paid
  <1>6. /\ \A q \in Requests : ~InFlight(q)'
        /\ \A w \in Workers : ~Live(w)'
    BY <1>2, <1>3 DEF InFlight, Live
  <1>7. CalmInv'
    BY <1>2, <1>4 DEF SettleInv, CalmInv
  <1>8. RequestAlone' /\ WorkerAlone'
    BY <1>6 DEF RequestAlone, WorkerAlone
  <1>9. TaskAlone'
    BY <1>2, <1>3, <1>4, <1>5, <1>6 DEF TaskAlone
  <1>10. CopyInv'
    BY <1>2, <1>5 DEF SettleInv, CopyInv
  <1>11. RestInv'
    BY <1>2, <1>5, Prices DEF RestInv
  <1> QED BY <1>7, <1>8, <1>9, <1>10, <1>11 DEF SettleInv

\* The steps of a request.
LEMMA RequestsKeepSettled ==
    ASSUME Regular, TypeOK, SettleInv, NEW r \in Requests, RequestStep(r)
    PROVE  SettleInv'
  <1>0. /\ req \in [Requests -> Request] /\ queue \subseteq Requests
        /\ \A q \in Requests : q # r /\ req' = [req EXCEPT ![r] = req'[r]] => req'[q] = req[q]
    BY DEF TypeOK
  <1>a. InFlight(r) => /\ \A q \in Requests : InFlight(q) => q = r
                       /\ queue = IF req[r].pc = "published" THEN {r} ELSE {}
                       /\ \A w \in Workers : ~Live(w)
                       /\ Paid(0)
                       /\ row.status \in {"pending", "failed", "canceled"}
    BY DEF SettleInv, RequestAlone
  <1>1. CASE RunPreflight(r)
    <2>1. /\ req'[r].pc = "checked" /\ \A q \in Requests : q # r => req'[q] = req[q]
          /\ UNCHANGED <<row, answers, charged, refunded, queue, worker, failOpens, watchdog>>
      BY <1>0, <1>1 DEF RunPreflight, dbVars, brokerVars, lockVars
    <2>2. row.status \in {"pending", "failed"}
      BY <1>1 DEF RunPreflight, CanRun, Finals, TypeOK, Row, Statuses,
                  SettleInv, CalmInv, WorkerAlone
    <2>3. \A q \in Requests : ~InFlight(q)
      BY <1>1 DEF RunPreflight, Regular, InFlight
    <2>4. queue = {}
      BY <1>0, <2>2, <2>3 DEF SettleInv, TaskAlone
    <2>5. (\A w \in Workers : ~Live(w)) /\ Paid(0)
      BY <2>2 DEF SettleInv, WorkerAlone, RestInv
    <2> QED BY <2>1, <2>2, <2>3, <2>4, <2>5, RequestMoves
  <1>2. CASE RunCharge(r) \/ RunPublish(r) \/ RunGone(r)
    <2>1. /\ req[r].pc \in {"checked", "charged"} /\ InFlight(r)
          /\ req'[r].pc \in {"charged", "published", "end"}
          /\ \A q \in Requests : q # r => req'[q] = req[q]
          /\ queue' = IF req'[r].pc = "published" THEN queue \cup {r} ELSE queue
          /\ UNCHANGED <<row, answers, charged, refunded, worker, failOpens, watchdog>>
      BY <1>0, <1>2 DEF RunCharge, RunPublish, RunGone, InFlight, dbVars, brokerVars, lockVars,
                        Request
    <2>2. queue = {} /\ (~InFlight(r)' => queue' = {})
      BY <1>a, <2>1 DEF InFlight
    <2>3. queue' = IF req'[r].pc = "published" THEN {r} ELSE {}
      BY <2>1, <2>2
    <2> QED BY <1>a, <2>1, <2>2, <2>3, RequestMoves
  <1>3. CASE RunCommit(r)
    BY <1>3, CommitKeepsSettled
  <1>4. ~RunAbort(r)
    BY DEF RunAbort, Fault, Regular
  <1> QED BY <1>1, <1>2, <1>3, <1>4 DEF RequestStep

\* Users, the clock, the lock's TTL and the watchdog, which finds nothing to do.
LEMMA OthersKeepSettled ==
    ASSUME Regular, TypeOK, SettleInv,
           \/ UserStep \/ LockExpires \/ Age \/ WatchdogStep
           \/ \E t \in Requests : ResultExpires(t)
           \/ UNCHANGED vars
    PROVE  SettleInv'
  <1>0. row \in Row /\ (row.stale => row.deleted) /\ watchdog.pc = "idle"
    BY DEF TypeOK, SettleInv, CalmInv
  <1>1. CASE UserStep
    <2>1. ~CancelAbort
      BY DEF CancelAbort, Fault, Regular
    <2>2. CASE CancelDecide
      <3>1. RowOnly
        BY <1>0, <2>2 DEF CancelDecide, RowOnly, dbVars, lockVars
      <3> QED BY <3>1, RowKeepsSettled
    <2>3. CASE CancelCommit
      <3>1. RowOnly
        BY <1>0, <2>3 DEF CancelCommit, RowOnly, Row, brokerVars, lockVars
      <3> QED BY <3>1, RowKeepsSettled
    <2>4. CASE Delete
      <3>1. RowOnly
        BY <1>0, <2>4 DEF Delete, RowOnly, Row, apiVars, brokerVars, lockVars
      <3> QED BY <3>1, RowKeepsSettled
    <2> QED BY <1>1, <2>1, <2>2, <2>3, <2>4 DEF UserStep
  <1>2. CASE Age
    <2>1. row.status = "answering" /\ \A w \in Workers : ~Busy(w)
      BY <1>2 DEF Age, Busy
    <2>2. row.deleted
      BY <2>1 DEF SettleInv, CalmInv
    <2>3. RowOnly
      BY <1>0, <1>2, <2>2 DEF Age, RowOnly, Row, apiVars, brokerVars, lockVars
    <2> QED BY <2>3, RowKeepsSettled
  <1>3. CASE LockExpires \/ \E t \in Requests : ResultExpires(t)
    <2>1. RowOnly
      BY <1>0, <1>3 DEF LockExpires, ResultExpires, RowOnly, dbVars, apiVars, brokerVars, lockVars
    <2> QED BY <2>1, RowKeepsSettled
  <1>4. ~WatchdogStep
    BY <1>0 DEF WatchdogStep, WatchdogSelect, WatchdogSkip, WatchdogRecover
  <1>5. CASE UNCHANGED vars
    <2>1. RowOnly
      BY <1>0, <1>5 DEF vars, RowOnly, dbVars, apiVars, brokerVars, lockVars
    <2> QED BY <2>1, RowKeepsSettled
  <1> QED BY <1>1, <1>2, <1>3, <1>4, <1>5

\* A task that may be delivered is nobody's request any more, and alone.
LEMMA DeliveredAlone ==
    ASSUME Regular, TypeOK, SettleInv, NEW t \in Requests, Delivered(t)
    PROVE  /\ queue = {t} /\ (\A w \in Workers : ~Live(w)) /\ (\A q \in Requests : ~InFlight(q))
           /\ Paid(Price) /\ row.creditCost = Price /\ row.status \in {"queued", "canceled"}
  <1>1. t \in queue /\ ~InFlight(t)
    BY DEF Delivered, Regular, InFlight
  <1>2. \A q \in Requests : ~InFlight(q)
    BY <1>1 DEF SettleInv, RequestAlone
  <1> QED BY <1>1, <1>2 DEF SettleInv, TaskAlone

\* A task is taken, or found to be revoked.
LEMMA BrokerKeepsSettled ==
    ASSUME Regular, TypeOK, SettleInv, NEW t \in Requests,
           Discard(t) \/ \E w \in Workers : Pickup(w, t)
    PROVE  SettleInv'
  <1>1. Delivered(t)
    BY DEF Discard, Pickup
  <1>2. /\ queue = {t} /\ (\A w \in Workers : ~Live(w)) /\ (\A q \in Requests : ~InFlight(q))
        /\ Paid(Price) /\ row.creditCost = Price /\ row.status \in {"queued", "canceled"}
    BY <1>1, DeliveredAlone
  <1>3. /\ UNCHANGED <<row, answers, charged, refunded, req, failOpens, watchdog>>
        /\ queue' = {}
    BY <1>2 DEF Discard, Pickup, dbVars, apiVars, lockVars
  <1>4. PICK X \in SUBSET Workers :
            /\ \A u, v \in X : u = v
            /\ \A v \in Workers \ X : worker'[v] = worker[v]
            /\ \A v \in X : /\ worker[v].pc = "idle" /\ worker'[v].pc = "lock"
                            /\ worker'[v].outcome = "SUCCESS"
    <2>1. ASSUME NEW w \in Workers, Pickup(w, t)
          PROVE  /\ \A v \in Workers : v # w => worker'[v] = worker[v]
                 /\ worker[w].pc = "idle" /\ worker'[w].pc = "lock"
                 /\ worker'[w].outcome = "SUCCESS"
      BY <2>1 DEF TypeOK, WorkersOK, Pickup, IdleWorker
    <2>2. CASE \E w \in Workers : Pickup(w, t)
      <3>1. PICK w \in Workers : Pickup(w, t)
        BY <2>2
      <3> WITNESS {w} \in SUBSET Workers
      <3> QED BY <2>1, <3>1
    <2>3. CASE Discard(t)
      <3> WITNESS {} \in SUBSET Workers
      <3> QED BY <2>3 DEF Discard
    <2> QED BY <2>2, <2>3
  <1>5. MoneySame
    BY <1>3, <1>4 DEF MoneySame
  <1>6. /\ \A b : Paid(b)' <=> Paid(b)
        /\ Paid(Earned)' <=> Paid(Earned)
        /\ Price' = Price
    BY <1>3, <1>5, PaidSame DEF Price, Total
  <1>7. /\ \A q \in Requests : ~InFlight(q)'
        /\ \A v \in Workers : Live(v)' => v \in X
    BY <1>2, <1>3, <1>4 DEF InFlight, Live
  <1>8. CalmInv'
    BY <1>2, <1>3, <1>4 DEF SettleInv, CalmInv
  <1>9. RequestAlone' /\ TaskAlone' /\ WorkerAlone'
    <2>1. RequestAlone' /\ TaskAlone'
      BY <1>3, <1>7 DEF RequestAlone, TaskAlone
    <2>2. WorkerAlone'
      BY <1>2, <1>3, <1>4, <1>6, <1>7 DEF WorkerAlone
    <2> QED BY <2>1, <2>2
  <1>10. CopyInv'
    BY <1>4, <1>6 DEF SettleInv, CopyInv
  <1>11. RestInv'
    BY <1>3, <1>6 DEF SettleInv, RestInv
  <1> QED BY <1>8, <1>9, <1>10, <1>11 DEF SettleInv

-----------------------------------------------------------------------------
(* The steps of a worker that move no money                                 *)

\* Worker w goes on with its task, or ends it, and the others do not move.
Onward(w) ==
    /\ UNCHANGED <<charged, refunded, queue, req, failOpens, watchdog>>
    /\ \A v \in Workers : v # w => worker'[v] = worker[v]
    /\ worker[w].pc # "refund" /\ worker'[w].pc # "refund" /\ worker'[w].outcome = "SUCCESS"
    /\ Live(w)' => Live(w)
    /\ Busy(w) => Busy(w)' \/ (~Live(w)' /\ (row.deleted \/ row.status = "canceled"))

\* What it writes while it is at it: progress, answers, and that it is answering.
Written(w) ==
    /\ row'.creditCost = row.creditCost /\ row'.deleted = row.deleted
    /\ row'.stale => row.stale
    /\ row'.status = row.status \/ (Live(w) /\ Busy(w)' /\ row'.status = "answering")
    /\ answers' = answers \/ Live(w)

\* What it holds, if it is to decide or refund anything.
Copied(w) ==
    /\ worker'[w].pc \in {"start", "answer", "fail"} => worker'[w].creditCost = Price
    /\ worker'[w].pc = "fail" => worker'[w].status # "failed"

\* Such steps preserve the invariant.
LEMMA OnwardKeepsSettled ==
    ASSUME SettleInv, NEW w \in Workers, Onward(w), Written(w), Copied(w)
    PROVE  SettleInv'
  <1>1. MoneySame
    BY DEF Onward, MoneySame
  <1>2. /\ \A b : Paid(b)' <=> Paid(b)
        /\ answers' = answers => (Paid(Earned)' <=> Paid(Earned))
        /\ Price' = Price
    BY <1>1, PaidSame DEF Price, Total
  <1>3. /\ \A v \in Workers : v # w => (Live(v)' <=> Live(v)) /\ (Busy(v)' <=> Busy(v))
        /\ \A v \in Workers : Live(v)' => Live(v)
        /\ \A q \in Requests : InFlight(q)' <=> InFlight(q)
        /\ \A v \in Workers : Busy(v) => Live(v)
    BY DEF Onward, Live, Busy, InFlight
  <1>4. CalmInv'
    <2>1. row'.status = "answering" => row'.deleted \/ \E v \in Workers : Busy(v)'
      BY <1>3 DEF SettleInv, CalmInv, Onward, Written
    <2> QED BY <2>1 DEF SettleInv, CalmInv, Onward, Written
  <1>5. CopyInv'
    BY <1>2 DEF SettleInv, CopyInv, Onward, Copied
  <1>6. CASE Live(w)
    <2>1. /\ queue = {} /\ (\A v \in Workers : Live(v) => v = w)
          /\ Paid(Price) /\ row.creditCost = Price
          /\ row.status \in {"queued", "canceled"} \cup IF Busy(w) THEN {"answering"} ELSE {}
      BY <1>6 DEF SettleInv, WorkerAlone
    <2>2. \A q \in Requests : ~InFlight(q)
      BY <1>6 DEF SettleInv, RequestAlone
    <2>3. RequestAlone' /\ TaskAlone'
      BY <1>3, <2>1, <2>2 DEF RequestAlone, TaskAlone, Onward
    <2>4. WorkerAlone'
      <3>1. Live(w)' => row'.status \in {"queued", "canceled"}
                                          \cup IF Busy(w)' THEN {"answering"} ELSE {}
        BY <2>1 DEF Onward, Written
      <3> QED BY <1>2, <1>3, <2>1, <3>1 DEF WorkerAlone, Onward, Written
    <2>5. RestInv'
      BY <1>2, <2>1, Prices DEF RestInv, Written
    <2> QED BY <1>4, <1>5, <2>3, <2>4, <2>5 DEF SettleInv
  <1>7. CASE ~Live(w)
    <2>1. answers' = answers /\ row'.status = row.status /\ row'.creditCost = row.creditCost
      BY <1>7 DEF Written
    <2>2. /\ \A v \in Workers : (Live(v)' <=> Live(v)) /\ (Busy(v)' <=> Busy(v))
          /\ queue' = queue /\ req' = req
      BY <1>3, <1>7 DEF Onward, Live, Busy
    <2>3. RequestAlone'
      BY <1>2, <1>3, <2>1, <2>2 DEF SettleInv, RequestAlone
    <2>4. TaskAlone'
      <3>1. \A t : InFlight(t)' <=> InFlight(t)
        BY <2>2 DEF InFlight
      <3> QED BY <1>2, <2>1, <2>2, <3>1 DEF SettleInv, TaskAlone
    <2>5. WorkerAlone'
      BY <1>2, <2>1, <2>2 DEF SettleInv, WorkerAlone
    <2>6. RestInv'
      BY <1>2, <2>1 DEF SettleInv, RestInv
    <2> QED BY <1>4, <1>5, <2>3, <2>4, <2>5, <2>6 DEF SettleInv
  <1> QED BY <1>6, <1>7

-----------------------------------------------------------------------------
(* The steps that decide, and those that refund                             *)

\* A worker that was the only live one has decided: what is paid fits the status.
LEMMA DecidedSettles ==
    ASSUME TypeOK, SettleInv, NEW w \in Workers, Live(w),
           \A v \in Workers : v # w => worker'[v] = worker[v],
           UNCHANGED <<queue, req, failOpens, watchdog>>,
           row'.creditCost = row.creditCost, ~row'.stale,
           ~Live(w)', ~Busy(w)', worker'[w].outcome = "SUCCESS",
           worker'[w].pc = "refund" => worker'[w].creditCost = Price,
           \/ row'.status = "failed" /\ Paid(0)'
           \/ row'.status = "done" /\ Paid(Earned)'
    PROVE  SettleInv'
  <1>1. /\ queue = {} /\ \A v \in Workers : Live(v) => v = w
        /\ \A q \in Requests : ~InFlight(q)
    BY DEF SettleInv, WorkerAlone, RequestAlone
  <1>2. /\ \A v \in Workers : ~Live(v)'
        /\ \A q \in Requests : ~InFlight(q)'
        /\ Price' = Price
    BY <1>1 DEF Live, InFlight, Price, Total
  <1>3. CalmInv'
    BY DEF SettleInv, CalmInv
  <1>4. RequestAlone' /\ TaskAlone' /\ WorkerAlone'
    BY <1>1, <1>2 DEF RequestAlone, TaskAlone, WorkerAlone
  <1>5. CopyInv'
    <2>1. worker'[w].pc \notin {"start", "answer", "fail"}
      BY DEF Live
    <2> QED BY <1>2, <2>1 DEF SettleInv, CopyInv
  <1>6. RestInv'
    BY EarnedType DEF RestInv
  <1> QED BY <1>3, <1>4, <1>5, <1>6 DEF SettleInv

\* A worker that may still decide finds the whole price paid: nobody else owes a refund.
LEMMA PriceIsPaid ==
    ASSUME TypeOK, LockInv, SettleInv, NEW w \in Workers, Live(w), InSection(w)
    PROVE  /\ charged - refunded = Price
           /\ \A v \in Workers : worker[v].pc # "refund"
  <1>1. Paid(Price) /\ failOpens = 0
    BY DEF SettleInv, WorkerAlone, CalmInv
  <1>2. ASSUME NEW v \in Workers, worker[v].pc = "refund"  PROVE FALSE
    <2>1. InSection(v)
      BY <1>2 DEF InSection
    <2>2. v = w
      BY <1>1, <2>1, OneInSection
    <2> QED BY <1>2, <2>2 DEF Live
  <1> QED BY <1>1, <1>2 DEF Paid

\* After the loops the answers that were not counted as failed are those that are given.
LEMMA FailedAndDone ==
    ASSUME RefineInv, NEW w \in Workers, Scanned(w), worker[w].gen = {}
    PROVE  /\ Cardinality(worker[w].failed) \in 0..Total
           /\ Cardinality(AnsweredSlots({"done"})) = Total - Cardinality(worker[w].failed)
  <1> DEFINE D == AnsweredSlots({"done"})
  <1> DEFINE F == worker[w].failed
  <1>1. /\ worker[w].pc = "answer"
        /\ Slots \subseteq worker[w].counted /\ worker[w].counted \subseteq Answered
        /\ F = {t \in worker[w].counted : answers[PersonaOf[t]] = "failed"}
    BY DEF RefineInv, AnswerInv, LoopInv, FailedInv, Scanned
  <1>2. /\ F = {t \in Slots : answers[PersonaOf[t]] = "failed"}
        /\ \A t \in Slots : answers[PersonaOf[t]] \in {"done", "failed"}
    BY <1>1 DEF Answered, AnsweredSlots
  <1>3. F \cup D = Slots /\ F \cap D = {} /\ F \subseteq Slots /\ D \subseteq Slots
    BY <1>2 DEF AnsweredSlots
  <1>4. IsFiniteSet(F) /\ IsFiniteSet(D) /\ Cardinality(F) \in 0..Total
        /\ Cardinality(D) \in 0..Total /\ Total \in Nat
    BY <1>3, SlotCount
  <1>5. Cardinality(F \cup D)
            = Cardinality(F) + Cardinality(D) - Cardinality(F \cap D)
    BY <1>4, FS_Union
  <1>6. Cardinality(F \cap D) = 0
    BY <1>3, FS_EmptySet
  <1>7. Cardinality(F \cup D) = Total
    BY <1>3 DEF Total
  <1> HIDE DEF F, D
  <1>8. Cardinality(D) = Total - Cardinality(F)
    <2> DEFINE cf == Cardinality(F)
    <2> DEFINE cd == Cardinality(D)
    <2>1. cf \in Nat /\ cd \in Nat /\ Total = cf + cd - 0
      BY <1>4, <1>5, <1>6, <1>7
    <2> HIDE DEF cf, cd
    <2>2. cd = Total - cf
      BY <2>1
    <2> QED BY <2>2 DEF cf, cd
  <1> QED BY <1>4, <1>8 DEF F, D

\* Finalize: what the user has paid is what was answered and what is still to be refunded.
LEMMA FinalizeKeepsSettled ==
    ASSUME RefineInv, LockInv, SettleInv, NEW w \in Workers, Finalize(w)
    PROVE  SettleInv'
  <1> DEFINE f == Cardinality(worker[w].failed)
  <1>0. TypeOK /\ row \in Row /\ worker[w] \in Worker /\ worker \in [Workers -> Worker]
    BY DEF RefineInv, TypeOK, WorkersOK
  <1>1. Live(w) /\ InSection(w) /\ worker[w].pc = "answer"
    BY DEF Finalize, Scanned, Live, InSection
  <1>2. /\ f \in 0..Total
        /\ Cardinality(AnsweredSlots({"done"})) = Total - f
    BY FailedAndDone DEF Finalize
  <1>3. /\ charged - refunded = Price
        /\ \A v \in Workers : worker[v].pc # "refund"
    BY <1>0, <1>1, PriceIsPaid
  <1>4. /\ worker'[w].pc = "refund" /\ worker'[w].failed = worker[w].failed
        /\ worker'[w].creditCost = worker[w].creditCost /\ worker'[w].outcome = worker[w].outcome
        /\ \A v \in Workers : v # w => worker'[v] = worker[v]
    BY <1>0 DEF Finalize, Worker
  <1>5. /\ UNCHANGED <<answers, charged, refunded, queue, req, failOpens, watchdog>>
        /\ row'.status = FinalStatus(f)
        /\ row'.creditCost = row.creditCost /\ ~row'.stale
    BY <1>0 DEF Finalize, OnlyTask, apiVars, brokerVars, lockVars, Row
  <1> HIDE DEF f
  <1>6. Earned' = Earned /\ Earned = Cost * (Total - f)
    BY <1>2, <1>5 DEF Earned, AnsweredSlots
  <1>7. Price = Cost * (Total - f) + Cost * f
    <2>1. Total - f \in Nat /\ f \in Nat /\ Total = (Total - f) + f
      BY <1>2, Prices
    <2> QED BY <2>1, Prices DEF Price
  <1>8. Paid(Earned)'
    BY <1>3, <1>4, <1>5, <1>6, <1>7 DEF Paid, f
  <1>9. f = Total => Paid(0)'
    <2>1. ASSUME f = Total  PROVE Price = 0 + Cost * f
      BY <2>1, Prices DEF Price
    <2> QED BY <1>3, <1>4, <1>5, <2>1 DEF Paid, f
  <1>10. \/ row'.status = "failed" /\ Paid(0)'
         \/ row'.status = "done" /\ Paid(Earned)'
    <2>1. f >= Total => f = Total
      BY <1>2, Prices
    <2>2. CASE f >= Total
      BY <1>5, <1>9, <2>1, <2>2 DEF FinalStatus
    <2>3. CASE ~(f >= Total)
      BY <1>5, <1>8, <2>3 DEF FinalStatus
    <2> QED BY <2>2, <2>3
  <1>11. /\ worker[w].creditCost = Price /\ worker[w].outcome = "SUCCESS"
         /\ ~Live(w)' /\ ~Busy(w)'
    BY <1>1, <1>4 DEF SettleInv, CopyInv, CalmInv, Live, Busy
  <1> QED BY <1>0, <1>1, <1>4, <1>5, <1>10, <1>11, DecidedSettles

\* FailCommit: the whole price goes back with the status.
LEMMA FailKeepsSettled ==
    ASSUME TypeOK, LockInv, SettleInv, NEW w \in Workers, FailCommit(w)
    PROVE  SettleInv'
  <1>0. row \in Row /\ worker[w] \in Worker /\ worker \in [Workers -> Worker]
    BY DEF TypeOK, WorkersOK
  <1>1. Live(w) /\ InSection(w) /\ worker[w].pc = "fail"
    BY DEF FailCommit, Live, InSection
  <1>2. /\ worker[w].creditCost = Price /\ worker[w].status # "failed"
        /\ worker[w].outcome = "SUCCESS"
    BY <1>1 DEF SettleInv, CopyInv, CalmInv
  <1>3. /\ charged - refunded = Price
        /\ \A v \in Workers : worker[v].pc # "refund"
    BY <1>1, PriceIsPaid
  <1>4. RefundAmount(w, Total) = Price
    <2>1. RefundAmount(w, Total) = Min2(Price, Price)
      BY <1>2 DEF RefundAmount, Price
    <2> QED BY <2>1 DEF Min2
  <1>5. /\ worker'[w].pc = "notify" /\ worker'[w].outcome = worker[w].outcome
        /\ \A v \in Workers : v # w => worker'[v] = worker[v]
    BY <1>0 DEF FailCommit, ToPc, Worker
  <1>6. /\ UNCHANGED <<charged, queue, req, failOpens, watchdog>>
        /\ refunded' = refunded + Price
        /\ row'.status = "failed" /\ row'.creditCost = row.creditCost /\ ~row'.stale
    BY <1>0, <1>2, <1>4 DEF FailCommit, OnlyTask, apiVars, brokerVars, lockVars, Row
  <1>7. Paid(0)'
    <2>1. charged \in Nat /\ refunded \in Nat /\ Price \in Nat
      BY Prices DEF TypeOK
    <2>2. charged' - refunded' = 0
      BY <1>3, <1>6, <2>1
    <2> QED BY <1>3, <1>5, <2>2 DEF Paid
  <1>8. ~Live(w)' /\ ~Busy(w)'
    BY <1>5 DEF Live, Busy
  <1> QED BY <1>1, <1>2, <1>5, <1>6, <1>7, <1>8, DecidedSettles

\* RefundFailed: what was still to be given back has been.
LEMMA RefundKeepsSettled ==
    ASSUME TypeOK, LockInv, SettleInv, NEW w \in Workers, RefundFailed(w)
    PROVE  SettleInv'
  <1> DEFINE f == Cardinality(worker[w].failed)
  <1>0. /\ worker[w] \in Worker /\ worker \in [Workers -> Worker]
        /\ charged \in Nat /\ refunded \in Nat
    BY DEF TypeOK, WorkersOK
  <1>1. f \in 0..Total /\ Cost * f \in Nat /\ Cost * f <= Price
    <2>1. worker[w].failed \in SUBSET Slots
      BY <1>0 DEF Worker
    <2> QED BY <2>1, SlotCount, Prices
  <1>2. /\ worker[w].pc = "refund" /\ worker[w].creditCost = Price
        /\ worker[w].outcome = "SUCCESS" /\ failOpens = 0
    BY DEF RefundFailed, SettleInv, CopyInv, CalmInv
  <1>3. RefundAmount(w, f) = Cost * f
    <2>1. RefundAmount(w, f) = Min2(Price, Cost * f)
      BY <1>2 DEF RefundAmount
    <2>2. ASSUME NEW c \in Nat, c <= Price  PROVE Min2(Price, c) = c
      BY <2>2, Prices DEF Min2
    <2> QED BY <1>1, <2>1, <2>2
  <1>4. /\ worker'[w].pc = "webhook" /\ worker'[w].outcome = "SUCCESS"
        /\ \A v \in Workers : v # w => worker'[v] = worker[v]
    BY <1>0, <1>2 DEF RefundFailed, ToPc, Worker
  <1>5. /\ UNCHANGED <<row, answers, charged, queue, req, failOpens, watchdog>>
        /\ refunded' = refunded + Cost * f
    BY <1>3 DEF RefundFailed, OnlyTask, apiVars, brokerVars, lockVars
  <1>6. \A v \in Workers : worker'[v].pc # "refund"
    <2>1. ASSUME NEW v \in Workers, v # w, worker[v].pc = "refund"  PROVE FALSE
      <3>1. InSection(v) /\ InSection(w)
        BY <1>2, <2>1 DEF InSection
      <3> QED BY <1>2, <2>1, <3>1, OneInSection
    <2> QED BY <1>4, <2>1
  <1>7. ASSUME NEW b \in Nat, Paid(b)  PROVE charged' - refunded' = b
    <2>1. charged - refunded = b + Cost * f
      BY <1>2, <1>7 DEF Paid
    <2> HIDE DEF f
    <2> QED BY <1>0, <1>1, <1>5, <2>1
  <1>8. \A b \in Nat : Paid(b) => Paid(b)'
    BY <1>6, <1>7 DEF Paid
  <1>9. Paid(Earned) => Paid(Earned)'
    <2>1. Earned' = Earned
      BY <1>5 DEF Earned, AnsweredSlots
    <2>2. Paid(Earned) => charged' - refunded' = Earned'
      BY <1>7, <2>1, EarnedType
    <2> QED BY <1>6, <2>2 DEF Paid
  <1>10. /\ \A v \in Workers : (Live(v)' <=> Live(v)) /\ (Busy(v)' <=> Busy(v))
         /\ \A t : InFlight(t)' <=> InFlight(t)
         /\ Price' = Price /\ Price \in Nat
    BY <1>2, <1>4, <1>5, Prices DEF Live, Busy, InFlight, Price, Total
  <1>11. CalmInv'
    BY <1>4, <1>5, <1>10 DEF SettleInv, CalmInv
  <1>12. RequestAlone'
    BY <1>5, <1>8, <1>10 DEF SettleInv, RequestAlone
  <1>13. TaskAlone'
    BY <1>5, <1>8, <1>10 DEF SettleInv, TaskAlone
  <1>14. WorkerAlone'
    BY <1>5, <1>8, <1>10 DEF SettleInv, WorkerAlone
  <1>15. CopyInv'
    BY <1>4, <1>10 DEF SettleInv, CopyInv
  <1>16. RestInv'
    BY <1>5, <1>8, <1>9 DEF SettleInv, RestInv
  <1> QED BY <1>11, <1>12, <1>13, <1>14, <1>15, <1>16 DEF SettleInv

-----------------------------------------------------------------------------
(* Every step of a worker                                                   *)

\* A worker that only moves to another step of its task.
LEMMA MoveKeepsSettled ==
    ASSUME TypeOK, SettleInv, NEW w \in Workers, NEW pc,
           ToPc(w, pc),
           UNCHANGED <<row, answers, charged, refunded, queue, req, failOpens, watchdog>>,
           worker[w].pc # "refund",
           pc \in {"read", "webhook", "rollback", "notify", "release", "ack"},
           pc = "read" => worker[w].pc = "lock",
           pc = "rollback" => worker[w].pc = "answer",
           Busy(w) => pc = "rollback" \/ row.deleted \/ row.status = "canceled"
    PROVE  SettleInv'
  <1>1. worker[w] \in Worker /\ worker \in [Workers -> Worker] /\ worker[w].outcome = "SUCCESS"
    BY DEF TypeOK, WorkersOK, SettleInv, CalmInv
  <1>2. /\ worker'[w].pc = pc /\ worker'[w].outcome = "SUCCESS"
        /\ \A v \in Workers : v # w => worker'[v] = worker[v]
    BY <1>1 DEF ToPc, Worker
  <1>3. /\ Live(w)' <=> pc \in {"read", "rollback"}
        /\ Busy(w)' <=> pc = "rollback"
        /\ pc \in {"read", "rollback"} => Live(w)
        /\ pc = "read" => ~Busy(w)
    BY <1>2 DEF Live, Busy
  <1>4. Onward(w)
    BY <1>2, <1>3 DEF Onward
  <1>5. Written(w) /\ Copied(w)
    BY <1>2 DEF Written, Copied
  <1> QED BY <1>4, <1>5, OnwardKeepsSettled

\* The steps that do no more.
LEMMA MovesKeepSettled ==
    ASSUME Regular, TypeOK, SettleInv, NEW w \in Workers,
           \/ AcquireLock(w) \/ SkipDuplicate(w) \/ ReleaseLock(w)
           \/ ReadNothingToDo(w) \/ Announce(w) \/ RollbackNothingToDo(w) \/ Notify(w)
           \/ Raise(w) \/ \E s \in Slots : StoreDuplicate(w, s)
    PROVE  SettleInv'
  <1> DEFINE Same == UNCHANGED <<row, answers, charged, refunded, queue, req, failOpens, watchdog>>
  <1>1. CASE AcquireLock(w)
    <2>1. ToPc(w, "read") /\ Same /\ worker[w].pc = "lock"
      BY <1>1 DEF AcquireLock, ToPc, dbVars, apiVars, brokerVars
    <2> QED BY <2>1, MoveKeepsSettled DEF Busy
  <1>2. CASE SkipDuplicate(w) \/ ReleaseLock(w)
    <2>1. ToPc(w, "ack") /\ Same /\ worker[w].pc \in {"lock", "release"}
      BY <1>2 DEF SkipDuplicate, ReleaseLock, ToPc, dbVars, apiVars, brokerVars, lockVars
    <2> QED BY <2>1, MoveKeepsSettled DEF Busy
  <1>3. CASE ReadNothingToDo(w) \/ Announce(w) \/ Notify(w)
    <2>1. ToPc(w, "release") /\ Same /\ worker[w].pc \in {"read", "webhook", "notify"}
      BY <1>3 DEF ReadNothingToDo, Announce, Notify, OnlyTask, apiVars, brokerVars, lockVars
    <2> QED BY <2>1, MoveKeepsSettled DEF Busy
  <1>4. CASE RollbackNothingToDo(w)
    <2>1. /\ ToPc(w, "release") /\ Same /\ worker[w].pc = "rollback"
          /\ row.deleted \/ row.status = "canceled"
      BY <1>4 DEF RollbackNothingToDo, OnlyTask, apiVars, brokerVars, lockVars
    <2> QED BY <2>1, MoveKeepsSettled
  <1>5. CASE Raise(w) \/ \E s \in Slots : StoreDuplicate(w, s)
    <2>1. ToPc(w, "rollback") /\ Same /\ worker[w].pc = "answer"
      BY <1>5 DEF Raise, Fault, Regular, StoreDuplicate, Scanned, OnlyTask, apiVars, brokerVars,
                  lockVars
    <2> QED BY <2>1, MoveKeepsSettled
  <1> QED BY <1>1, <1>2, <1>3, <1>4, <1>5

\* Counting a slot, with the answer it may have stored.
LEMMA CountKeepsSettled ==
    ASSUME TypeOK, SettleInv, NEW w \in Workers, NEW s \in Slots, NEW f \in BOOLEAN,
           NEW scan \in BOOLEAN, worker[w].pc = "answer", Count(w, s, f, scan), OnlyTask,
           refunded' = refunded
    PROVE  SettleInv'
  <1>0. /\ worker[w] \in Worker /\ worker \in [Workers -> Worker] /\ row \in Row
        /\ worker[w].outcome = "SUCCESS" /\ worker[w].creditCost = Price
    BY DEF TypeOK, WorkersOK, SettleInv, CalmInv, CopyInv
  <1>1. /\ worker'[w].pc = "answer" /\ worker'[w].outcome = "SUCCESS"
        /\ worker'[w].creditCost = Price
        /\ \A v \in Workers : v # w => worker'[v] = worker[v]
    BY <1>0 DEF Count, AfterCount, Worker
  <1>2. /\ row'.status = row.status /\ row'.creditCost = row.creditCost
        /\ row'.deleted = row.deleted
        /\ row'.stale => row.stale
    BY <1>0 DEF Count, Row
  <1>3. Live(w) /\ Busy(w)' /\ Live(w)'
    BY <1>1 DEF Live, Busy
  <1>4. Onward(w)
    BY <1>1, <1>3 DEF Onward, OnlyTask, apiVars, brokerVars, lockVars
  <1>5. Written(w) /\ Copied(w)
    BY <1>1, <1>2, <1>3 DEF Written, Copied
  <1> QED BY <1>4, <1>5, OnwardKeepsSettled

\* The steps that read the row, start, and work in the loops.
LEMMA LoopKeepsSettled ==
    ASSUME TypeOK, SettleInv, NEW w \in Workers,
           \/ Ack(w) \/ ReadRow(w) \/ StartCommit(w) \/ RollbackRead(w)
           \/ \E s \in Slots : \/ ScanExisting(w, s) \/ ScanMissing(w, s) \/ ScanGenerate(w, s)
                               \/ \E st \in {"done", "failed"} : StoreAnswer(w, s, st)
    PROVE  SettleInv'
  <1>0. /\ worker[w] \in Worker /\ worker \in [Workers -> Worker] /\ row \in Row
        /\ worker[w].outcome = "SUCCESS"
        /\ Live(w) => row.creditCost = Price /\ row.status \in {"queued", "canceled", "answering"}
        /\ worker[w].pc \in {"start", "answer"} => worker[w].creditCost = Price
    BY DEF TypeOK, WorkersOK, SettleInv, CalmInv, CopyInv, WorkerAlone
  <1>1. CASE Ack(w)
    <2>1. /\ worker'[w].pc = "idle" /\ worker'[w].outcome = "SUCCESS" /\ worker[w].pc = "ack"
          /\ \A v \in Workers : v # w => worker'[v] = worker[v]
      BY <1>0, <1>1 DEF Ack, IdleWorker
    <2>2. ~Live(w)' /\ ~Busy(w)
      BY <2>1 DEF Live, Busy
    <2>3. Onward(w)
      BY <1>0, <1>1, <2>1, <2>2 DEF Onward, Ack, dbVars, apiVars, lockVars
    <2>4. Written(w) /\ Copied(w)
      BY <1>1, <2>1 DEF Written, Copied, Ack, dbVars
    <2> QED BY <2>3, <2>4, OnwardKeepsSettled
  <1>2. CASE ReadRow(w) \/ RollbackRead(w)
    <2>1. /\ worker[w].pc \in {"read", "rollback"} /\ worker'[w].outcome = "SUCCESS"
          /\ worker'[w].pc = IF worker[w].pc = "read" THEN "start" ELSE "fail"
          /\ worker'[w].creditCost = row.creditCost /\ worker'[w].status = row.status
          /\ \A v \in Workers : v # w => worker'[v] = worker[v]
      <3>1. CASE ReadRow(w)
        BY <1>0, <3>1 DEF ReadRow, Worker
      <3>2. CASE RollbackRead(w)
        BY <1>0, <3>2 DEF RollbackRead, Worker
      <3> QED BY <1>2, <3>1, <3>2
    <2>2. Live(w) /\ Live(w)' /\ (Busy(w) => Busy(w)')
      BY <2>1 DEF Live, Busy
    <2>3. Onward(w)
      BY <1>2, <2>1, <2>2 DEF Onward, ReadRow, RollbackRead, OnlyTask, apiVars, brokerVars, lockVars
    <2>4. Written(w)
      BY <1>2 DEF Written, ReadRow, RollbackRead
    <2>5. Copied(w)
      BY <1>0, <2>1, <2>2 DEF Copied
    <2> QED BY <2>3, <2>4, <2>5, OnwardKeepsSettled
  <1>3. CASE StartCommit(w)
    <2>1. /\ worker[w].pc = "start" /\ worker'[w].pc = "answer"
          /\ worker'[w].outcome = "SUCCESS" /\ worker'[w].creditCost = worker[w].creditCost
          /\ \A v \in Workers : v # w => worker'[v] = worker[v]
      BY <1>0, <1>3 DEF StartCommit, Worker
    <2>2. /\ row'.status \in {row.status, "answering"} /\ row'.creditCost = row.creditCost
          /\ row'.deleted = row.deleted
          /\ row'.stale => row.stale
      BY <1>0, <1>3 DEF StartCommit, Row
    <2>3. Live(w) /\ Live(w)' /\ Busy(w)'
      BY <2>1 DEF Live, Busy
    <2>4. Onward(w)
      BY <1>3, <2>1, <2>3 DEF Onward, StartCommit, OnlyTask, apiVars, brokerVars, lockVars
    <2>5. Written(w) /\ Copied(w)
      BY <1>0, <2>1, <2>2, <2>3 DEF Written, Copied
    <2> QED BY <2>4, <2>5, OnwardKeepsSettled
  <1>4. ASSUME NEW s \in Slots, ScanGenerate(w, s)  PROVE SettleInv'
    <2>1. /\ worker[w].pc = "answer" /\ worker'[w].pc = "answer"
          /\ worker'[w].outcome = "SUCCESS" /\ worker'[w].creditCost = worker[w].creditCost
          /\ \A v \in Workers : v # w => worker'[v] = worker[v]
      BY <1>0, <1>4 DEF ScanGenerate, Worker
    <2>2. Live(w) /\ Live(w)' /\ Busy(w)'
      BY <2>1 DEF Live, Busy
    <2>3. Onward(w)
      BY <1>4, <2>1, <2>2 DEF Onward, ScanGenerate, OnlyTask, apiVars, brokerVars, lockVars
    <2>4. Written(w) /\ Copied(w)
      BY <1>0, <1>4, <2>1 DEF Written, Copied, ScanGenerate
    <2> QED BY <2>3, <2>4, OnwardKeepsSettled
  <1>5. ASSUME NEW s \in Slots,
               \/ ScanExisting(w, s) \/ ScanMissing(w, s)
               \/ \E st \in {"done", "failed"} : StoreAnswer(w, s, st)
        PROVE  SettleInv'
    <2>1. /\ worker[w].pc = "answer" /\ OnlyTask /\ refunded' = refunded
          /\ \E f \in BOOLEAN, scan \in BOOLEAN : Count(w, s, f, scan)
      BY <1>5 DEF ScanExisting, ScanMissing, StoreAnswer, Scanned
    <2> QED BY <2>1, CountKeepsSettled
  <1> QED BY <1>1, <1>2, <1>3, <1>4, <1>5

\* Everything a worker does, and what Regular lets happen to it.
LEMMA WorkersKeepSettled ==
    ASSUME Regular, AllInv, NEW w \in Workers, Execute(w) \/ Suffer(w)
    PROVE  SettleInv'
  <1>1. RefineInv /\ TypeOK /\ LockInv /\ SettleInv
    BY DEF AllInv, RefineInv
  <1>2. ~(AcquireFailOpen(w) \/ ReleaseFails(w) \/ Crash(w) \/ TimeLimit(w) \/ Escape(w))
    BY DEF Regular, Fault, AcquireFailOpen, ReleaseFails, Crash, TimeLimit, Escape
  <1>3. CASE Execute(w)
    BY <1>1, <1>3, MovesKeepSettled, LoopKeepsSettled, FinalizeKeepsSettled, FailKeepsSettled,
       RefundKeepsSettled
    DEF Execute
  <1>4. CASE Suffer(w)
    BY <1>1, <1>2, <1>4, MovesKeepSettled DEF Suffer
  <1> QED BY <1>3, <1>4

-----------------------------------------------------------------------------
(* The theorems                                                             *)

\* Nothing has been charged at first.
LEMMA SettleInit == Init => AllInv
  <1> SUFFICES ASSUME Init PROVE AllInv
    OBVIOUS
  <1>1. Paid(0)
    BY DEF Init, Paid, IdleWorker
  <1>2. /\ \A w \in Workers : worker[w].pc = "idle" /\ worker[w].outcome = "SUCCESS"
        /\ \A r \in Requests : req[r].pc = "new"
        /\ queue = {}
    BY DEF Init, IdleWorker
  <1>3. CalmInv
    BY <1>2 DEF Init, CalmInv
  <1>4. RequestAlone /\ TaskAlone /\ WorkerAlone /\ CopyInv
    BY <1>2 DEF RequestAlone, TaskAlone, WorkerAlone, CopyInv, InFlight, Live
  <1>5. RestInv
    <2>1. row.status = "pending"
      BY DEF Init
    <2> QED BY <1>1, <2>1 DEF RestInv
  <1> QED BY <1>3, <1>4, <1>5, RefineInit, LockInit DEF AllInv, SettleInv

\* Every step of a calm system keeps its books.
LEMMA SettleStep == ASSUME Regular PROVE AllInv /\ [Next]_vars => AllInv'
  <1> SUFFICES ASSUME AllInv, [Next]_vars PROVE AllInv'
    OBVIOUS
  <1>1. RefineInv /\ TypeOK /\ LockInv /\ SettleInv
    BY DEF AllInv, RefineInv
  <1>2. RefineInv' /\ LockInv'
    BY <1>1, RefineStep, LockNext
  <1>3. SettleInv'
    <2>1. CASE UNCHANGED vars
      BY <1>1, <2>1, OthersKeepSettled
    <2>2. CASE Next
      BY <1>1, <2>2, RequestsKeepSettled, OthersKeepSettled, BrokerKeepsSettled,
         WorkersKeepSettled
      DEF Next, BrokerStep
    <2> QED BY <2>1, <2>2
  <1> QED BY <1>2, <1>3 DEF AllInv

\* What the books say when nothing runs, and at any time.
LEMMA SettleUse == AllInv => Settled /\ RefundsCovered
  <1> SUFFICES ASSUME AllInv PROVE Settled /\ RefundsCovered
    OBVIOUS
  <1>1. charged \in Nat /\ refunded \in Nat /\ worker \in [Workers -> Worker] /\ RestInv
    BY DEF AllInv, RefineInv, TypeOK, WorkersOK, SettleInv
  <1>2. Settled
    <2> SUFFICES ASSUME Quiet
                 PROVE  /\ row.status = "done" => charged - refunded = Earned
                        /\ row.status = "failed" => charged = refunded
      BY DEF Settled, Earned
    <2>1. \A w \in Workers : worker[w].pc # "refund"
      BY DEF Quiet
    <2>2. row.status = "done" => charged - refunded = Earned
      BY <1>1, <2>1 DEF RestInv, Paid
    <2>3. row.status = "failed" => charged - refunded = 0
      BY <1>1, <2>1 DEF RestInv, Paid
    <2> QED BY <1>1, <2>2, <2>3
  <1>3. RefundsCovered
    <2>1. PICK b \in Nat : Paid(b)
      BY <1>1 DEF RestInv
    <2>2. \A w \in Workers : Cost * Cardinality(worker[w].failed) \in Nat
      <3>1. \A w \in Workers : worker[w].failed \in SUBSET Slots
        BY <1>1 DEF Worker
      <3> QED BY <3>1, SlotCount, Prices
    <2>3. \E n \in Nat : charged - refunded = b + n
      <3>1. CASE \A w \in Workers : worker[w].pc # "refund"
        BY <2>1, <3>1 DEF Paid
      <3>2. CASE \E w \in Workers : worker[w].pc = "refund"
        BY <2>1, <2>2, <3>2 DEF Paid
      <3> QED BY <3>1, <3>2
    <2> QED BY <1>1, <2>3 DEF RefundsCovered
  <1> QED BY <1>2, <1>3

\* Over all runs and re-runs of an evaluation, whatever was canceled or deleted on the way,
\* a finished run has cost what its answers cost and a failed one nothing.
THEOREM ChargesSettle ==
    ASSUME Regular
    PROVE  Spec => []Settled
  <1>1. AllInv /\ [Next]_vars => AllInv'
    BY SettleStep
  <1>2. AllInv => Settled
    BY SettleUse
  <1> QED BY <1>1, <1>2, SettleInit, PTL DEF Spec

\* Never is more given back than was taken.
THEOREM RefundsAlwaysCovered ==
    ASSUME Regular
    PROVE  Spec => []RefundsCovered
  <1>1. AllInv /\ [Next]_vars => AllInv'
    BY SettleStep
  <1>2. AllInv => RefundsCovered
    BY SettleUse
  <1> QED BY <1>1, <1>2, SettleInit, PTL DEF Spec
==============================================================================
