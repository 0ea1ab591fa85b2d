---------------------------- MODULE Preparation ----------------------------
(***************************************************************************)
(* An evaluation from its creation to its answers when the API process      *)
(* answers it itself (evaluation_run_mode "sync"): the survey is generated  *)
(* and edited, the personas are chosen, the run is charged, a background    *)
(* task answers.                                                            *)
(*                                                                          *)
(* Every request reads the row, decides on its copy, and commits the        *)
(* columns it changed; between the two anything else may commit.            *)
(***************************************************************************)
EXTENDS Integers, FiniteSets

CONSTANTS
    Personas,    \* the personas the user may choose
    Requests,    \* requests under way at once
    Works,       \* bound: background tasks started, numbered in that order
    MaxEditions  \* bound: editions of the questions; 0 is "no survey"

PreparationAssumption == Works \subseteq Nat /\ MaxEditions \in Nat \ {0}

VARIABLES
    status,    \* evaluations.status
    selected,  \* its selected_persona_ids
    gone,      \* the personas that were deleted
    edition,   \* the edition of the linked survey's questions; 0 without a survey
    answers,   \* for every persona the edition its stored answer is about; 0 for none
    request,   \* where each request is, and what it read
    work,      \* where each background task is, and what it read
    paid,      \* ghost: personas that a run was charged for
    late       \* ghost: a request that had found the evaluation open wrote the selection or
               \*        the questions after a run began

vars == <<status, selected, gone, edition, answers, request, work, paid, late>>

Statuses == {"pending", "answering", "done", "failed", "canceled"}
Operations == {"generate", "edit", "select", "run", "cancel", "watch"}
Editions == 0..MaxEditions

Idle == [op |-> "none", open |-> TRUE, pick |-> {}, old |-> {}]
NotStarted == [pc |-> "none", status |-> "pending", edition |-> 0, todo |-> {}]

\* The type invariant.
TypeOK ==
    /\ status \in Statuses
    /\ selected \in SUBSET Personas
    /\ gone \in SUBSET Personas
    /\ edition \in Editions
    /\ answers \in [Personas -> Editions]
    /\ request \in [Requests -> [op : Operations \cup {"none"}, open : BOOLEAN,
                                 pick : SUBSET Personas, old : SUBSET Personas]]
    /\ work \in [Works -> [pc : {"none", "queued", "asking", "end"}, status : Statuses,
                           edition : Editions, todo : SUBSET Personas]]
    /\ paid \in SUBSET Personas
    /\ late \in BOOLEAN

\* create_evaluation.
Init ==
    /\ status = "pending"
    /\ selected = {}
    /\ gone = {}
    /\ edition = 0
    /\ answers = [p \in Personas |-> 0]
    /\ request = [r \in Requests |-> Idle]
    /\ work = [w \in Works |-> NotStarted]
    /\ paid = {}
    /\ late = FALSE

-----------------------------------------------------------------------------
(* What a request finds when it reads                                       *)

\* Seeded bug: the questions may be edited while personas answer them.
EditableUntilDone == status \notin {"generating_report", "done", "canceled"}

\* SURVEY_EDIT_LOCKED_STATUSES.
SurveyEditable == status \notin {"answering", "generating_report", "done", "canceled"}

\* EDITABLE_STATUSES, also SURVEY_GENERATION_ALLOWED_STATUSES.
Editable == status \in {"pending", "generating_survey"}

\* update_personas: 1 to 100 personas that exist.
MaySelect(pick) == Editable /\ pick # {} /\ pick \cap gone = {}

\* can_run_evaluation, with a survey and personas.
MayRun == status \in {"pending", "failed"} /\ edition # 0 /\ selected # {}

\* can_cancel_evaluation.
MayCancel == status \in {"pending", "generating_survey", "queued", "answering"}

\* "open": neither answering nor final.
Begin(r, op, pick) ==
    /\ request[r].op = "none"
    /\ request' = [request EXCEPT ![r] =
          [op |-> op, open |-> status \in {"pending", "failed"}, pick |-> pick, old |-> selected]]
    /\ UNCHANGED <<status, selected, gone, edition, answers, work, paid, late>>

\* A survey that exists already is returned.
GenerateRead(r) == edition = 0 /\ Editable /\ Begin(r, "generate", {})
EditRead(r) == edition # 0 /\ SurveyEditable /\ Begin(r, "edit", {})
SelectRead(r) == \E pick \in SUBSET Personas : MaySelect(pick) /\ Begin(r, "select", pick)
RunRead(r) == MayRun /\ Begin(r, "run", selected)
CancelRead(r) == MayCancel /\ Begin(r, "cancel", {})

\* The watchdog: an answering row that was not written for ten minutes.  A synchronous
\* run has no task_id, so it never counts as running.
WatchRead(r) == status = "answering" /\ Begin(r, "watch", {})

-----------------------------------------------------------------------------
(* What it commits                                                          *)

Ends(r, op) == /\ request[r].op = op
               /\ request' = [request EXCEPT ![r] = Idle]

\* A run has begun, or has read what it will charge for.
Ordered == \/ \E w \in Works : work[w].pc # "none"
           \/ \E r \in Requests : request[r].op = "run"

\* The questions have been generated, which takes up to a minute.  The second survey of
\* the evaluation violates uq_surveys_evaluation_id.
GenerateDone(r) ==
    /\ Ends(r, "generate")
    /\ edition' = IF edition = 0 THEN 1 ELSE edition
    /\ UNCHANGED <<status, selected, gone, answers, work, paid, late>>

\* SURVEY_AI_TIMEOUT or SURVEY_AI_FAILED.
GenerateFails(r) ==
    /\ Ends(r, "generate")
    /\ UNCHANGED <<status, selected, gone, edition, answers, work, paid, late>>

EditCommit(r) ==
    /\ Ends(r, "edit")
    /\ edition < MaxEditions
    /\ edition' = edition + 1
    /\ late' = (late \/ (request[r].open /\ Ordered))
    /\ UNCHANGED <<status, selected, gone, answers, work, paid>>

\* A list equal to the one that was read is not written.
SelectCommit(r) ==
    /\ Ends(r, "select")
    /\ LET changes == request[r].pick # request[r].old
       IN  /\ selected' = IF changes THEN request[r].pick ELSE selected
           /\ late' = (late \/ (changes /\ request[r].open /\ Ordered))
    /\ UNCHANGED <<status, gone, edition, answers, work, paid>>

\* The personas are paid for and the background task is started after the response.
RunCommit(r) ==
    /\ Ends(r, "run")
    /\ status' = "answering"
    /\ paid' = paid \cup request[r].pick
    /\ \E w \in Works : /\ work[w].pc = "none"
                        /\ \A v \in Works : v < w => work[v].pc # "none"
                        /\ work' = [work EXCEPT ![w].pc = "queued"]
    /\ UNCHANGED <<selected, gone, edition, answers, late>>

CancelCommit(r) ==
    /\ Ends(r, "cancel")
    /\ status' = "canceled"
    /\ UNCHANGED <<selected, gone, edition, answers, work, paid, late>>

WatchCommit(r) ==
    /\ Ends(r, "watch")
    /\ status' = "failed"
    /\ UNCHANGED <<selected, gone, edition, answers, work, paid, late>>

-----------------------------------------------------------------------------
(* The background task                                                      *)

Others == <<selected, gone, edition, request, paid, late>>

\* Whatever the status is by now, the personas without an answer are asked; one that was
\* deleted is passed over.
WorkRead(w) ==
    /\ work[w].pc = "queued"
    /\ work' = [work EXCEPT ![w] =
          [pc |-> "asking", status |-> status, edition |-> edition,
           todo |-> {p \in selected \ gone : answers[p] = 0}]]
    /\ UNCHANGED <<status, answers, Others>>

\* Seeded bug: no answer is made up for a persona whose provider failed.
AnsweredWithoutMock(todo, failed) == todo \ failed

\* Every persona that was asked has an answer: one whose provider failed gets the mock
\* answers.
Answered(todo, failed) == todo

\* All answers and the status in one transaction.  An answer that another task has stored
\* meanwhile violates uq_answers_evaluation_persona and the whole work is lost; the status
\* is written unless it was "done" already when it was read.
WorkStore(w) ==
    /\ work[w].pc = "asking"
    /\ \A p \in work[w].todo : answers[p] = 0
    /\ \E failed \in SUBSET work[w].todo :
          answers' = [p \in Personas |-> IF p \in Answered(work[w].todo, failed)
                                         THEN work[w].edition ELSE answers[p]]
    /\ status' = IF work[w].status = "done" THEN status ELSE "done"
    /\ work' = [work EXCEPT ![w] = [NotStarted EXCEPT !.pc = "end"]]
    /\ UNCHANGED Others

WorkConflicts(w) ==
    /\ work[w].pc = "asking"
    /\ \E p \in work[w].todo : answers[p] # 0
    /\ work' = [work EXCEPT ![w] = [NotStarted EXCEPT !.pc = "end"]]
    /\ UNCHANGED <<status, answers, Others>>

-----------------------------------------------------------------------------

\* delete_persona: the selections that name it stay as they are.
DeletePersona(p) ==
    /\ p \notin gone
    /\ gone' = gone \cup {p}
    /\ UNCHANGED <<status, selected, edition, answers, request, work, paid, late>>

\* The process ends: requests and background tasks are lost.
Restart ==
    /\ request' = [r \in Requests |-> Idle]
    /\ work' = [w \in Works |-> IF work[w].pc = "none" THEN NotStarted
                                ELSE [NotStarted EXCEPT !.pc = "end"]]
    /\ UNCHANGED <<status, selected, gone, edition, answers, paid, late>>

Next ==
    \/ \E r \in Requests :
          \/ GenerateRead(r) \/ EditRead(r) \/ SelectRead(r)
          \/ RunRead(r) \/ CancelRead(r) \/ WatchRead(r)
          \/ GenerateDone(r) \/ GenerateFails(r) \/ EditCommit(r) \/ SelectCommit(r)
          \/ RunCommit(r) \/ CancelCommit(r) \/ WatchCommit(r)
    \/ \E p \in Personas : DeletePersona(p)
    \/ \E w \in Works : WorkRead(w) \/ WorkStore(w) \/ WorkConflicts(w)
    \/ Restart

Spec == Init /\ [][Next]_vars

-----------------------------------------------------------------------------
(* Properties                                                               *)

HasAnswer == {p \in Personas : answers[p] # 0}

\* Personas answer what was ordered: only those that were paid for, and the questions
\* that the survey has, unless a request that had found the evaluation pending or failed
\* wrote the selection or the questions after a run began: the status is not locked.
AnsweredAsOrdered == ~late => /\ HasAnswer \subseteq paid
                              /\ \A p \in HasAnswer : answers[p] = edition

\* An evaluation becomes "done" only with an answer of every chosen persona that
\* still exists, whatever the provider did.
DoneCompletely == status # "done" /\ status' = "done" /\ ~late
                     => \A p \in selected \ gone : answers'[p] # 0
DoneIsComplete == [][DoneCompletely]_vars

=============================================================================
