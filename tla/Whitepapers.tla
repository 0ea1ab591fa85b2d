---------------------------- MODULE Whitepapers ----------------------------
(***************************************************************************)
(* The whitepaper of one evaluation: requests that ask for it or read it,   *)
(* the background tasks of the API process that generate it, and restarts   *)
(* of that process.                                                         *)
(***************************************************************************)
EXTENDS Integers, FiniteSets

CONSTANTS
    Requests,   \* requests under way at once
    MaxTasks    \* bound: background generations at once

VARIABLES
    status,    \* the whitepapers row: "none" when there is no row
    text,      \* its markdown: 0 for none, else the number of the generation
    request,   \* where each request is and the copy of the row it read
    tasks,     \* the background generations that run
    started,   \* ghost: generations started, 1 or 2 (two or more)
    overlap,   \* ghost: a row was generated again that was not failed any more
    lost       \* ghost: a generation, or a request that owed one, ended without it

vars == <<status, text, request, tasks, started, overlap, lost>>

Statuses == {"none", "generating", "ready", "failed"}
Texts == 0..2

Idle == [pc |-> "idle", ask |-> FALSE, status |-> "none", text |-> 0, early |-> FALSE]

\* The type invariant.
TypeOK ==
    /\ status \in Statuses
    /\ text \in Texts
    /\ request \in [Requests -> [pc : {"idle", "describe"}, ask : BOOLEAN,
                                 status : Statuses, text : Texts, early : BOOLEAN]]
    /\ tasks \in SUBSET (1..MaxTasks)
    /\ started \in Texts
    /\ overlap \in BOOLEAN
    /\ lost \in BOOLEAN

Init ==
    /\ status = "none"
    /\ text = 0
    /\ request = [r \in Requests |-> Idle]
    /\ tasks = {}
    /\ started = 0
    /\ overlap = FALSE
    /\ lost = FALSE

Free == (1..MaxTasks) \ tasks

\* asyncio.create_task, right after the commit.
StartGeneration ==
    \E t \in Free : /\ \A u \in Free : t <= u
                    /\ tasks' = tasks \cup {t}
                    /\ started' = IF started = 0 THEN 1 ELSE 2

NoGeneration == UNCHANGED <<tasks, started>>

\* The row is set to generating while it is not a row that waits for that.
Overlaps == overlap' = (overlap \/ status \notin {"none", "failed"})

\* The row as the request reads it: "ask" for POST generate, otherwise the public or the
\* owner's GET.  A row that is being generated is returned as it is; a GET leaves a row
\* that failed alone.
Read(r, ask) ==
    /\ request[r].pc = "idle"
    /\ status # "generating"
    /\ status = "failed" => ask
    /\ request' = [request EXCEPT ![r] =
                      [pc |-> "describe", ask |-> ask, status |-> status, text |-> text,
                       early |-> FALSE]]
    /\ UNCHANGED <<status, text, overlap, lost>>
    /\ NoGeneration

End(r) == request' = [request EXCEPT ![r] = Idle] /\ UNCHANGED lost

\* No row was found.  The row is inserted after the description was built; the second of
\* two requests violates uq_whitepapers_evaluation.
Create(r) ==
    /\ request[r].pc = "describe"
    /\ request[r].status = "none"
    /\ IF status = "none"
       THEN status' = "generating" /\ StartGeneration /\ Overlaps
       ELSE UNCHANGED <<status, overlap>> /\ NoGeneration
    /\ UNCHANGED text
    /\ End(r)

\* A request that retries sets the row to generating and then builds the description.
\* That commits the same session when the evaluation has no report yet: readers see the
\* new status, and no task exists.
CommitEarly(r) ==
    /\ request[r].pc = "describe"
    /\ request[r].status = "failed"
    /\ ~request[r].early
    /\ request' = [request EXCEPT ![r].early = TRUE]
    /\ status' = "generating"
    /\ Overlaps
    /\ UNCHANGED <<text, lost>>
    /\ NoGeneration

\* The report code rolled the session back: the attributes of the row cannot be read any
\* more and the request ends with an error.
DescriptionFails(r) ==
    /\ request[r].pc = "describe"
    /\ request[r].status \in {"failed", "ready"}
    /\ request' = [request EXCEPT ![r] = Idle]
    /\ lost' = (lost \/ request[r].early)
    /\ UNCHANGED <<status, text, overlap>>
    /\ NoGeneration

\* Seeded bug: the row is set to generating and nothing generates it.
RetryWithoutTask(r) ==
    /\ request[r].pc = "describe"
    /\ request[r].status = "failed"
    /\ Free # {}
    /\ status' = "generating"
    /\ Overlaps
    /\ NoGeneration
    /\ UNCHANGED text
    /\ End(r)

\* The row had failed when it was read: it is generated again.  The status is written
\* here unless it was committed early.
Retry(r) ==
    /\ request[r].pc = "describe"
    /\ request[r].status = "failed"
    /\ IF request[r].early
       THEN UNCHANGED <<status, overlap>>
       ELSE status' = "generating" /\ Overlaps
    /\ StartGeneration
    /\ UNCHANGED text
    /\ End(r)

\* Seeded bug: a whitepaper that is ready is generated again.
RefreshAgain(r) ==
    /\ request[r].pc = "describe"
    /\ request[r].status = "ready"
    /\ status' = "generating"
    /\ \E t \in Free : tasks' = tasks \cup {t}
    /\ UNCHANGED <<text, started, overlap>>
    /\ End(r)

\* The row was ready: its description is built again, and its markdown is written from
\* the copy when there is a chart block to put in it.
Refresh(r) ==
    /\ request[r].pc = "describe"
    /\ request[r].status = "ready"
    /\ text' \in {text, request[r].text}
    /\ UNCHANGED <<status, overlap>>
    /\ NoGeneration
    /\ End(r)

\* The provider answers: the status and the markdown are written over whatever is there.
Generated(t) ==
    /\ t \in tasks
    /\ tasks' = tasks \ {t}
    /\ status' = "ready"
    /\ text' = started
    /\ UNCHANGED <<request, started, overlap, lost>>

\* It fails or answers nothing: the markdown of an earlier generation stays.
GenerationFails(t) ==
    /\ t \in tasks
    /\ tasks' = tasks \ {t}
    /\ status' = "failed"
    /\ UNCHANGED <<text, request, started, overlap, lost>>

\* The process ends and is started again: requests and background tasks are gone.
Restart ==
    /\ request' = [r \in Requests |-> Idle]
    /\ tasks' = {}
    /\ lost' = (lost \/ tasks # {} \/ \E r \in Requests : request[r].early)
    /\ UNCHANGED <<status, text, started, overlap>>

Next == \/ \E r \in Requests : \/ \E ask \in BOOLEAN : Read(r, ask)
                               \/ CommitEarly(r) \/ DescriptionFails(r)
                               \/ Create(r) \/ Retry(r) \/ Refresh(r)
        \/ \E t \in 1..MaxTasks : Generated(t) \/ GenerationFails(t)
        \/ Restart

Spec == Init /\ [][Next]_vars

-----------------------------------------------------------------------------
(* Properties                                                               *)

\* A row that says "generating" has a task that generates it or a request that is about
\* to start one, unless such a task or request ended without it: nothing starts such a
\* row again.
GeneratingIsOwned ==
    status = "generating" /\ ~lost => tasks # {} \/ \E r \in Requests : request[r].early

\* A whitepaper that is ready has a text, and it stays ready unless two requests that
\* had read it as failed both generated it.
ReadyHasText == status = "ready" => text > 0
StaysReady == status = "ready" => status' = "ready" \/ overlap'
ReadyStays == [][StaysReady]_vars

=============================================================================
