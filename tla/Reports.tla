------------------------------ MODULE Reports ------------------------------
(***************************************************************************)
(* The report of one evaluation that is done: the requests that read it,    *)
(* attach a PDF to it or delete that PDF, the Celery task that makes it,    *)
(* and the analysis of its ten dimensions by the AI provider.               *)
(*                                                                          *)
(* The task names no queue and so goes to the default one.  The workers of   *)
(* the compose files consume "evaluations" only: there, Workers is empty.    *)
(*                                                                          *)
(* A deleted report keeps its row, its analysis and its pdf_url: making the *)
(* report again revives the row.                                            *)
(***************************************************************************)
EXTENDS Integers

CONSTANTS
    Requests,   \* HTTP requests under way at once, and the background analysis
    Workers,    \* Celery workers that consume the queue of report.generate
    MaxQueue,   \* bound: messages of report.generate
    MaxPolls    \* rounds a request waits for an analysis under way (10 in the code)

ReportsAssumption == MaxQueue \in Nat \ {0} /\ MaxPolls \in Nat

VARIABLES
    mode,     \* "celery", or "sync": the run itself starts the analysis
    scaled,   \* the scale answers alone give all the required dimensions
    row,      \* the reports row
    queue,    \* messages of report.generate
    pending,  \* the analysis of a synchronous run has not begun
    proc      \* the requests and the workers

vars == <<mode, scaled, row, queue, pending, proc>>

Procs == Requests \cup Workers

\* Where the scores of the radar come from.
Scores == {"none", "scale", "answers", "llm"}

NoRow == [state |-> "none", radar |-> "none", status |-> "unset", entries |-> "none",
          pdf |-> FALSE]
Idle == [pc |-> "idle", op |-> "read", radar |-> "none", deleted |-> FALSE, polls |-> 0]

\* The type invariant.
TypeOK ==
    /\ mode \in {"celery", "sync"}
    /\ scaled \in BOOLEAN
    /\ row \in [state : {"none", "live", "deleted"}, radar : Scores,
                status : {"unset", "generating", "ready", "failed"},
                entries : {"none", "answers", "llm"}, pdf : BOOLEAN]
    /\ queue \in 0..MaxQueue
    /\ pending \in BOOLEAN
    /\ proc \in [Procs -> [pc : {"idle", "service", "insert", "wait", "llm", "save",
                                 "recheck", "attach"},
                           op : {"read", "pdf", "task", "analysis"},
                           radar : Scores, deleted : BOOLEAN, polls : 0..MaxPolls]]

\* The task published at the end of the run may have been lost.
Init ==
    /\ mode \in {"celery", "sync"}
    /\ scaled \in BOOLEAN
    /\ row = NoRow
    /\ queue \in IF mode = "celery" THEN {0, 1} ELSE {0}
    /\ pending = (mode = "sync")
    /\ proc = [p \in Procs |-> Idle]

To(p, pc) == proc' = [proc EXCEPT ![p].pc = pc]
Begin(p, op, pc) == proc' = [proc EXCEPT ![p] = [Idle EXCEPT !.op = op, !.pc = pc]]
Done(p) == proc' = [proc EXCEPT ![p] = Idle]

\* Where get_or_create_report returns to.
Return(p) == CASE proc[p].op = "pdf" -> To(p, "recheck")
               [] proc[p].op = "analysis" -> To(p, "llm")
               [] OTHER -> Done(p)

-----------------------------------------------------------------------------
(* The requests                                                             *)

\* GET by-evaluation: 202 and a task at every poll while there is no report.  The broker
\* may refuse the task, which is only logged.
ReadReport(p) ==
    /\ proc[p].pc = "idle"
    /\ \/ /\ row.state = "live"
          /\ Begin(p, "read", "service")
          /\ UNCHANGED queue
       \/ /\ row.state # "live"
          /\ queue < MaxQueue
          /\ queue' \in {queue, queue + 1}
          /\ UNCHANGED proc
    /\ UNCHANGED <<mode, scaled, row, pending>>

\* GET business: 202 and no task while there is no report.
ReadBusinessReport(p) ==
    /\ proc[p].pc = "idle"
    /\ row.state = "live"
    /\ Begin(p, "read", "service")
    /\ UNCHANGED <<mode, scaled, row, queue, pending>>

\* save_report_pdf makes the report when there is none.
SavePdf(p) ==
    /\ proc[p].pc = "idle"
    /\ Begin(p, "pdf", IF row.state = "live" THEN "attach" ELSE "service")
    /\ UNCHANGED <<mode, scaled, row, queue, pending>>

\* The report made for the PDF is read again: it may have been deleted.
RecheckPdf(p) ==
    /\ proc[p].pc = "recheck"
    /\ IF row.state = "live" THEN To(p, "attach") ELSE Done(p)
    /\ UNCHANGED <<mode, scaled, row, queue, pending>>

\* The file is written and pdf_url committed.
AttachPdf(p) ==
    /\ proc[p].pc = "attach"
    /\ row' = [row EXCEPT !.pdf = TRUE]
    /\ Done(p)
    /\ UNCHANGED <<mode, scaled, queue, pending>>

\* delete_report_pdfs: only reports that list_report_pdfs lists.
DeletePdf ==
    /\ row.state = "live"
    /\ row.pdf
    /\ row' = [row EXCEPT !.state = "deleted"]
    /\ UNCHANGED <<mode, scaled, queue, pending, proc>>

\* report.generate; it ends at once when there is a report, when the user is gone or when
\* its last retry does not reach the database either.
StartTask(p) ==
    /\ proc[p].pc = "idle"
    /\ queue > 0
    /\ queue' = queue - 1
    /\ \/ row.state # "live" /\ Begin(p, "task", "service")
       \/ UNCHANGED proc
    /\ UNCHANGED <<mode, scaled, row, pending>>

\* An exception ends a request; in the task it is logged, swallowed and not retried.  So
\* does a process that dies.  What was committed stays, "generating" too.
Breaks(p) ==
    /\ proc[p].pc # "idle"
    /\ Done(p)
    /\ UNCHANGED <<mode, scaled, row, queue, pending>>

\* A task whose worker is lost is delivered again.
WorkerLost(w) ==
    /\ proc[w].pc # "idle"
    /\ queue < MaxQueue
    /\ queue' = queue + 1
    /\ Done(w)
    /\ UNCHANGED <<mode, scaled, row, pending>>

-----------------------------------------------------------------------------
(* get_or_create_report                                                     *)

\* The live report as it is; no row: one is made; a deleted row: its analysis counts.
Lookup(p) ==
    /\ proc[p].pc = "service"
    /\ CASE row.state = "live" -> Return(p)
         [] row.state = "none" -> To(p, "insert")
         [] OTHER ->
              proc' = [proc EXCEPT ![p].deleted = TRUE,
                         ![p].radar = CASE row.status = "ready" -> row.entries
                                        [] scaled -> "scale"
                                        [] row.status = "failed" -> "answers"
                                        [] OTHER -> "none",
                         ![p].pc = CASE row.status = "ready" \/ scaled
                                                             \/ row.status = "failed" -> "save"
                                     [] row.status = "generating" -> "wait"
                                     [] OTHER -> "llm"]
    /\ row' = IF proc'[p].pc = "llm" THEN [row EXCEPT !.status = "generating"] ELSE row
    /\ UNCHANGED <<mode, scaled, queue, pending>>

\* uq_reports_evaluation: a request that finds the row made meanwhile fails.
Insert(p) ==
    /\ proc[p].pc = "insert"
    /\ IF row.state = "none"
       THEN /\ row' = [NoRow EXCEPT !.state = "live",
                                    !.radar = IF scaled THEN "scale" ELSE "answers",
                                    !.status = IF proc[p].op = "analysis"
                                               THEN "generating" ELSE "unset"]
            /\ Return(p)
       ELSE Done(p) /\ UNCHANGED row
    /\ UNCHANGED <<mode, scaled, queue, pending>>

\* Seeded bug: the wait for an analysis under way has no end.
AwaitReady(p) ==
    /\ proc[p].pc = "wait"
    /\ row.status = "ready"
    /\ proc' = [proc EXCEPT ![p].radar = row.entries, ![p].pc = "save",
                            ![p].deleted = (row.state = "deleted")]
    /\ UNCHANGED <<mode, scaled, row, queue, pending>>

\* A round of two seconds, and the row read again.
AwaitAnalysis(p) ==
    /\ proc[p].pc = "wait"
    /\ \/ /\ row.status = "ready"
          /\ proc' = [proc EXCEPT ![p].radar = row.entries, ![p].pc = "save",
                                  ![p].deleted = (row.state = "deleted")]
          /\ UNCHANGED row
       \/ /\ row.status # "ready"
          /\ proc[p].polls < MaxPolls
          /\ proc' = [proc EXCEPT ![p].polls = @ + 1,
                                  ![p].deleted = (row.state = "deleted")]
          /\ UNCHANGED row
       \/ /\ row.status # "ready"
          /\ proc[p].polls = MaxPolls
          /\ To(p, "llm")
          /\ row' = [row EXCEPT !.status = "generating"]
    /\ UNCHANGED <<mode, scaled, queue, pending>>

\* The row is written: deleted_at is cleared when the copy read had one.
Save(p) ==
    /\ proc[p].pc = "save"
    /\ row' = [row EXCEPT !.radar = proc[p].radar,
                          !.state = IF proc[p].deleted THEN "live" ELSE @]
    /\ Return(p)
    /\ UNCHANGED <<mode, scaled, queue, pending>>

-----------------------------------------------------------------------------
(* The analysis of the dimensions                                           *)

\* generate_dimension_analysis, once, after a synchronous run.
StartAnalysis(p) ==
    /\ pending
    /\ proc[p].pc = "idle"
    /\ pending' = FALSE
    /\ Begin(p, "analysis", IF row.state = "none" THEN "service" ELSE "llm")
    /\ row' = IF row.state = "none" THEN row ELSE [row EXCEPT !.status = "generating"]
    /\ UNCHANGED <<mode, scaled, queue>>

Nested(p) == proc[p].op # "analysis"

\* The provider answers, or fails and the answers are scored without it.
Scored(p) ==
    /\ proc[p].pc = "llm"
    /\ \E source \in {"llm", "answers"} :
          /\ row' = [row EXCEPT !.status = "ready", !.entries = source]
          /\ IF Nested(p)
             THEN proc' = [proc EXCEPT ![p].radar = source, ![p].pc = "save",
                                       ![p].deleted = (row.state = "deleted")]
             ELSE Done(p)
    /\ UNCHANGED <<mode, scaled, queue, pending>>

\* Seeded bug: no scores are put in place of those that failed.
NotScoredNoFallback(p) ==
    /\ proc[p].pc = "llm"
    /\ row' = IF row.state = "live" THEN [row EXCEPT !.status = "failed"] ELSE row
    /\ IF Nested(p)
       THEN proc' = [proc EXCEPT ![p].pc = "save", ![p].deleted = TRUE]
       ELSE Done(p)
    /\ UNCHANGED <<mode, scaled, queue, pending>>

\* No client, or the commit fails: the row is marked unless it is deleted.
NotScored(p) ==
    /\ proc[p].pc = "llm"
    /\ row' = IF row.state = "live" THEN [row EXCEPT !.status = "failed"] ELSE row
    /\ IF Nested(p)
       THEN proc' = [proc EXCEPT ![p].radar = "answers", ![p].pc = "save",
                                 ![p].deleted = TRUE]
       ELSE Done(p)
    /\ UNCHANGED <<mode, scaled, queue, pending>>

-----------------------------------------------------------------------------

Steps(p) == \/ Lookup(p) \/ Insert(p) \/ AwaitAnalysis(p) \/ Save(p)
            \/ Scored(p) \/ NotScored(p) \/ RecheckPdf(p) \/ AttachPdf(p)

Next == \/ \E p \in Requests : ReadReport(p) \/ ReadBusinessReport(p) \/ SavePdf(p)
                               \/ StartAnalysis(p)
        \/ \E w \in Workers : StartTask(w) \/ WorkerLost(w)
        \/ \E p \in Procs : Steps(p) \/ Breaks(p)
        \/ DeletePdf

Spec == Init /\ [][Next]_vars

\* What a request has begun goes on.  Nothing is assumed of workers: the deployments start
\* none that consumes the queue.
FairSpec == Spec /\ \A p \in Requests : WF_vars(Steps(p))

-----------------------------------------------------------------------------
(* Properties                                                               *)

\* A report that can be read has a radar, whatever of its analysis failed, was
\* overtaken or is still under way.
RadarServed == row.state = "live" => row.radar # "none"

\* A request ends, also one that waits for an analysis whose process is gone
\* (report_service.py, get_or_create_report).
ReadersEnd == \A p \in Requests : proc[p].pc # "idle" ~> proc[p].pc = "idle"

=============================================================================
