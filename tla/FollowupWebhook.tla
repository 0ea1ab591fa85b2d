--------------------------- MODULE FollowupWebhook ---------------------------
(***************************************************************************)
(* What follows the final status of an evaluation: the durable webhook      *)
(* event of its outcome, the Celery task that delivers it, and the dead     *)
(* letter queue.  Several workers may end one evaluation: a redelivered     *)
(* task, or a run again after a failure.  A worker may be lost, or the      *)
(* database fail, anywhere in between, and the watchdog writes an outcome   *)
(* of its own.                                                              *)
(***************************************************************************)
EXTENDS Integers, FiniteSets

CONSTANTS
    Workers,     \* executions of evaluation.run, from their final status on
    Deliveries,  \* executions of followup_webhook.deliver
    MaxPosts     \* bound: POST requests sent to the receiver

Outcomes == {"done", "failed"}

WebhookAssumption == MaxPosts \in Nat

VARIABLES
    evaluation,  \* its status; "answering" stands for all that are no outcome
    event,       \* webhook_events by outcome: the event_id is "<type>:<evaluation id>"
    tail,        \* the rest of each execution
    queue,       \* messages of the queue "webhooks" by outcome
    delivery,    \* the executions of the delivery
    posts,       \* POST requests the receiver was sent, by outcome
    accepted,    \* those it answered with 2xx
    repeated,    \* ghost: outcomes of which two deliveries overlapped, or one that was
                 \* accepted ended before it could write so
    dead,        \* executions whose evaluation is in the dead letter queue
    silent       \* ghost: outcomes whose announcement was given up, or never begun

vars == <<evaluation, event, tail, queue, delivery, posts, accepted, repeated, dead, silent>>

\* In seconds.
Hour == 3600

NoEvent == [status |-> "none", attempts |-> 0, delay |-> 0]

TailState == [pc : {"idle", "create", "insert", "enqueue", "dlq", "end", "escaped", "lost"},
              path : {"final", "except"}, type : Outcomes]

DeliveryState == [pc : {"idle", "posting", "answered"}, type : Outcomes, attempts : Nat,
                  answer : {"none", "2xx", "error"}]

IdleTail == [pc |-> "idle", path |-> "final", type |-> "done"]
IdleDelivery == [pc |-> "idle", type |-> "done", attempts |-> 0, answer |-> "none"]

\* The type invariant.
TypeOK ==
    /\ evaluation \in {"answering"} \cup Outcomes
    /\ event \in [Outcomes -> [status : {"none", "pending", "failed", "delivered"},
                               attempts : Nat, delay : 0..Hour]]
    /\ tail \in [Workers -> TailState]
    /\ queue \in [Outcomes -> Nat]
    /\ delivery \in [Deliveries -> DeliveryState]
    /\ posts \in [Outcomes -> 0..MaxPosts]
    /\ accepted \in [Outcomes -> 0..MaxPosts]
    /\ repeated \in SUBSET Outcomes
    /\ dead \in SUBSET Workers
    /\ silent \in SUBSET Outcomes

Init ==
    /\ evaluation = "answering"
    /\ event = [o \in Outcomes |-> NoEvent]
    /\ tail = [w \in Workers |-> IdleTail]
    /\ queue = [o \in Outcomes |-> 0]
    /\ delivery = [d \in Deliveries |-> IdleDelivery]
    /\ posts = [o \in Outcomes |-> 0]
    /\ accepted = [o \in Outcomes |-> 0]
    /\ repeated = {}
    /\ dead = {}
    /\ silent = {}

Receiver == <<posts, accepted, repeated>>

-----------------------------------------------------------------------------
(* The end of an execution                                                  *)

To(w, pc) == tail' = [tail EXCEPT ![w].pc = pc]

\* It has come to rest: what it was about does not matter any more.
Rests(w, pc) == tail' = [tail EXCEPT ![w] = [IdleTail EXCEPT !.pc = pc]]

\* The final status is committed; "except" after an exception in the task.
Finish(w, path, outcome) ==
    /\ tail[w].pc = "idle"
    /\ path = "except" => outcome = "failed"
    /\ evaluation' = outcome
    /\ tail' = [tail EXCEPT ![w] = [pc |-> "create", path |-> path, type |-> outcome]]
    /\ UNCHANGED <<event, queue, delivery, Receiver, dead, silent>>

\* A failed evaluation is run again, or a redelivered task starts one that has ended.
RunAgain ==
    /\ evaluation \in Outcomes
    /\ \E w \in Workers : tail[w].pc = "idle"
    /\ evaluation' = "answering"
    /\ UNCHANGED <<event, tail, queue, delivery, Receiver, dead, silent>>

AtRest(w) == tail[w].pc \in {"idle", "end", "escaped", "lost"}

\* The watchdog fails an evaluation whose row nobody has written for half an hour and
\* whose task has ended, and creates no event.
WatchdogFails ==
    /\ evaluation = "answering"
    /\ \A w \in Workers : AtRest(w)
    /\ evaluation' = "failed"
    /\ silent' = silent \cup {"failed"}
    /\ UNCHANGED <<event, tail, queue, delivery, Receiver, dead>>

AfterEvent(w) == IF tail[w].path = "final" THEN Rests(w, "end") ELSE To(w, "dlq")

\* create_event_for_evaluation: the status is read again, and an event that exists is
\* returned as it is, with the payload of its time.
CreateEvent(w) ==
    /\ tail[w].pc = "create"
    /\ IF evaluation \notin Outcomes THEN AfterEvent(w)
       ELSE tail' = [tail EXCEPT ![w].type = evaluation,
                                 ![w].pc = IF event[evaluation].status = "none"
                                           THEN "insert" ELSE "enqueue"]
    /\ UNCHANGED <<evaluation, event, queue, delivery, Receiver, dead, silent>>

InsertEvent(w) ==
    /\ tail[w].pc = "insert"
    /\ event[tail[w].type].status = "none"
    /\ event' = [event EXCEPT ![tail[w].type].status = "pending"]
    /\ To(w, "enqueue")
    /\ UNCHANGED <<evaluation, queue, delivery, Receiver, dead, silent>>

\* What an execution has still to announce.
Owed(w) == CASE tail[w].pc = "create" -> {evaluation} \cap Outcomes
             [] tail[w].pc = "insert" -> {tail[w].type}
             [] OTHER -> {}

\* An exception after the final commit: event_id is unique and another execution was
\* first, or the database fails.  It takes an execution that was done to the except path
\* of its task, which overwrites the status, unless it was canceled by then ...
EventFails(w) ==
    /\ tail[w].pc \in {"create", "insert"}
    /\ tail[w].path = "final"
    /\ \/ /\ evaluation' = "failed"
          /\ tail' = [tail EXCEPT ![w] = [pc |-> "create", path |-> "except",
                                          type |-> "failed"]]
       \/ /\ evaluation \notin Outcomes
          /\ To(w, "dlq")
          /\ UNCHANGED evaluation
    /\ UNCHANGED <<event, queue, delivery, Receiver, dead, silent>>

\* ... and in that path it leaves the task.
EventEscapes(w) ==
    /\ tail[w].pc \in {"create", "insert"}
    /\ silent' = silent \cup Owed(w)
    /\ Rests(w, "escaped")
    /\ UNCHANGED <<evaluation, event, queue, delivery, Receiver, dead>>

\* The process is lost or the task killed by its time limit: no handler runs.
TailLost(w) ==
    /\ ~AtRest(w)
    /\ silent' = silent \cup Owed(w)
    /\ Rests(w, "lost")
    /\ UNCHANGED <<evaluation, event, queue, delivery, Receiver, dead>>

\* apply_async; that it fails is only logged.
EnqueueDelivery(w) ==
    /\ tail[w].pc = "enqueue"
    /\ queue' = [queue EXCEPT ![tail[w].type] = @ + 1]
    /\ AfterEvent(w)
    /\ UNCHANGED <<evaluation, event, delivery, Receiver, dead, silent>>

EnqueueFails(w) ==
    /\ tail[w].pc = "enqueue"
    /\ AfterEvent(w)
    /\ UNCHANGED <<evaluation, event, queue, delivery, Receiver, dead, silent>>

\* push_to_dlq, unless Redis fails.
PushToDlq(w) ==
    /\ tail[w].pc = "dlq"
    /\ dead' \in {dead, dead \cup {w}}
    /\ Rests(w, "end")
    /\ UNCHANGED <<evaluation, event, queue, delivery, Receiver, silent>>

-----------------------------------------------------------------------------
(* The delivery                                                             *)

Repeats(o) ==
    repeated' = IF \E d \in Deliveries : delivery[d].pc # "idle" /\ delivery[d].type = o
                THEN repeated \cup {o} ELSE repeated

\* Seeded bug: a delivered event is sent again.
StartAgain(d, o) ==
    /\ delivery[d].pc = "idle"
    /\ queue[o] > 0
    /\ queue' = [queue EXCEPT ![o] = @ - 1]
    /\ delivery' = [delivery EXCEPT ![d] = [pc |-> "posting", type |-> o,
                                            attempts |-> event[o].attempts + 1,
                                            answer |-> "none"]]
    /\ Repeats(o)
    /\ UNCHANGED <<evaluation, event, tail, posts, accepted, dead, silent>>

\* The task reads the event and counts the attempt on its copy.
StartDelivery(d, o) ==
    /\ delivery[d].pc = "idle"
    /\ queue[o] > 0
    /\ queue' = [queue EXCEPT ![o] = @ - 1]
    /\ IF event[o].status = "delivered" THEN UNCHANGED delivery
       ELSE delivery' = [delivery EXCEPT ![d] = [pc |-> "posting", type |-> o,
                                                 attempts |-> event[o].attempts + 1,
                                                 answer |-> "none"]]
    /\ Repeats(o)
    /\ UNCHANGED <<evaluation, event, tail, posts, accepted, dead, silent>>

\* The POST: answered with 2xx, with another status, or not answered at all.
PostEvent(d, answer) ==
    LET o == delivery[d].type IN
    /\ delivery[d].pc = "posting"
    /\ posts[o] < MaxPosts
    /\ posts' = [posts EXCEPT ![o] = @ + 1]
    /\ accepted' = [accepted EXCEPT ![o] = IF answer = "2xx" THEN @ + 1 ELSE @]
    /\ delivery' = [delivery EXCEPT ![d].pc = "answered", ![d].answer = answer]
    /\ UNCHANGED <<repeated, evaluation, event, tail, queue, dead, silent>>

\* Seeded bug: the exponent is not capped.
DelayUncapped(n) == 2^(n + 5) * 60

MinOf(a, b) == IF a <= b THEN a ELSE b

\* _next_attempt_at, in seconds from now: from the sixth doubling on it is the hour.  No
\* code reads next_attempt_at.
Delay(n) == MinOf(Hour, 2^MinOf(6, IF n > 1 THEN n - 1 ELSE 0) * 60)

OutcomeOf(answer, n) ==
    IF answer = "2xx" THEN [status |-> "delivered", attempts |-> n, delay |-> 0]
                      ELSE [status |-> "failed", attempts |-> n, delay |-> Delay(n)]

Rested(d) == delivery' = [delivery EXCEPT ![d] = IdleDelivery]

\* The outcome is written over whatever the row says by now.
CommitDelivery(d) ==
    /\ delivery[d].pc = "answered"
    /\ event' = [event EXCEPT ![delivery[d].type] =
                                  OutcomeOf(delivery[d].answer, delivery[d].attempts)]
    /\ Rested(d)
    /\ UNCHANGED <<evaluation, tail, queue, Receiver, dead, silent>>

\* A delivery that ends before it writes: what the receiver accepted is not known.
EndsUnwritten(d) ==
    /\ delivery[d].pc \in {"posting", "answered"}
    /\ Rested(d)
    /\ repeated' = IF delivery[d].answer = "2xx" THEN repeated \cup {delivery[d].type}
                   ELSE repeated

\* A worker process is lost and its message redelivered; nothing was committed.
DeliveryLost(d) ==
    /\ EndsUnwritten(d)
    /\ queue' = [queue EXCEPT ![delivery[d].type] = @ + 1]
    /\ UNCHANGED <<evaluation, event, tail, posts, accepted, dead, silent>>

\* The commit fails, or something that is no httpx.HTTPError, a time limit among them:
\* max_retries is 0, the message is acknowledged and the row stays as it was.
DeliveryFails(d) ==
    /\ EndsUnwritten(d)
    /\ UNCHANGED <<evaluation, event, tail, queue, posts, accepted, dead, silent>>

-----------------------------------------------------------------------------

WorkerStep(w) == \/ CreateEvent(w) \/ InsertEvent(w) \/ EventFails(w) \/ EventEscapes(w)
                 \/ EnqueueDelivery(w) \/ EnqueueFails(w) \/ PushToDlq(w) \/ TailLost(w)

DeliveryStep(d) == \/ \E o \in Outcomes : StartDelivery(d, o)
                   \/ \E answer \in {"2xx", "error"} : PostEvent(d, answer)
                   \/ CommitDelivery(d)

Next == \/ \E w \in Workers : \/ \E path \in {"final", "except"}, o \in Outcomes :
                                     Finish(w, path, o)
                              \/ WorkerStep(w)
        \/ RunAgain \/ WatchdogFails
        \/ \E d \in Deliveries : DeliveryStep(d) \/ DeliveryLost(d) \/ DeliveryFails(d)

Spec == Init /\ [][Next]_vars

-----------------------------------------------------------------------------
(* Properties                                                               *)

\* An event is marked delivered only when the receiver has accepted it, and its
\* attempt count never exceeds the requests the receiver was sent, whatever deliveries
\* overlap or are repeated.
DeliveredMeansAccepted ==
    \A o \in Outcomes : /\ event[o].status = "delivered" => accepted[o] > 0
                        /\ event[o].attempts <= posts[o]

\* The receiver accepts each event once, and then nothing unmarks it, unless two of its
\* deliveries overlapped or an accepted one ended without writing so.
AcceptedOnce ==
    \A o \in Outcomes \ repeated :
        /\ accepted[o] <= 1
        /\ accepted[o] = 1 => \/ event[o].status = "delivered"
                              \/ \E d \in Deliveries : /\ delivery[d].type = o
                                                       /\ delivery[d].answer = "2xx"

\* When nothing is under way, the table of events tells the outcome the evaluation has,
\* although executions overlap, run again or fail after they were done.  An outcome is
\* without its event in three cases only, and then it is silent: the execution that had to
\* announce it was lost, its handler failed as well, or the watchdog wrote it.
OutcomeAnnounced ==
    /\ evaluation \in Outcomes
    /\ \A w \in Workers : AtRest(w)
    => event[evaluation].status # "none" \/ evaluation \in silent

=============================================================================
