------------------------ MODULE EvaluationLifecycle ------------------------
(***************************************************************************)
(* What the users of an evaluation may rely on, with no broker, lock,       *)
(* worker, snapshot or watchdog: EvaluationRun implements it (Implements).  *)
(*                                                                          *)
(*  - Every order is paid: an evaluation is "queued" in the step that       *)
(*    deducts the price of its whole panel, and in no other.                *)
(*  - An answer is written once and never taken back or replaced.           *)
(*  - "done" is said only of a panel that has answered in full, and of      *)
(*    which one persona at least gave a proper answer.                      *)
(*  - A deleted evaluation never comes back, and none is "pending" again.   *)
(*                                                                          *)
(* It promises no order of the statuses: a task executes what was queued    *)
(* before a cancel, and requests overlap.                                   *)
(***************************************************************************)
EXTENDS Naturals

CONSTANTS Personas,  \* persona ids
          Panel,     \* the selected personas
          Price      \* of a run of the whole panel

VARIABLES status, deleted, answers, charged

vars == <<status, deleted, answers, charged>>

Given(ss) == {p \in Panel : answers[p] \in ss}

Init == /\ status = "pending"
        /\ deleted = FALSE
        /\ answers = [p \in Personas |-> "none"]
        /\ charged = 0

\* The user orders a run and pays for it.
Order == /\ status' = "queued"
         /\ charged' = charged + Price
         /\ UNCHANGED <<deleted, answers>>

\* The run starts; it fails; the user cancels it.
Become(s) == /\ status' = s
             /\ UNCHANGED <<deleted, answers, charged>>

\* A persona answers, or its answer is found impossible.
Answer(p) == /\ answers[p] = "none"
             /\ \E a \in {"done", "failed"} : answers' = [answers EXCEPT ![p] = a]
             /\ UNCHANGED <<status, deleted, charged>>

Finish == /\ Given({"done", "failed"}) = Panel
          /\ Given({"done"}) # {}
          /\ Become("done")

Remove == /\ ~deleted
          /\ deleted' = TRUE
          /\ UNCHANGED <<status, answers, charged>>

Next == \/ Order
        \/ \E s \in {"answering", "failed", "canceled"} : Become(s)
        \/ \E p \in Panel : Answer(p)
        \/ Finish
        \/ Remove

Spec == Init /\ [][Next]_vars

=============================================================================
