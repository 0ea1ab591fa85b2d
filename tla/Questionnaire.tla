--------------------------- MODULE Questionnaire ---------------------------
(***************************************************************************)
(* A survey is written by a model in two halves, asked for at the same time; *)
(* then every persona answers it, through the model or, when that fails, by  *)
(* rules.  What the model replies is outside the program's control; what is *)
(* stored of it is not.                                                     *)
(***************************************************************************)
EXTENDS Integers, Sequences, FiniteSets, FiniteSetsExt, SequencesExt

CONSTANTS
    BatchDims,      \* SURVEY_BATCH_DIMS: the dimensions of each half
    PerDim,         \* questions of a dimension
    Replies,        \* what the model may reply to a half: questions, or NoList
    NoList,
    Critics,        \* the personas, critical
    Friendly,         \* and not critical
    AnswerReplies,  \* what the model may reply for a persona, or Unusable
    Unusable

VARIABLES
    batch,    \* the halves: asked for, failed, canceled or done, and their questions
    outcome,  \* of the request: "open" until it ends
    survey,   \* the questions stored
    answered  \* the answer stored of each persona

vars == <<batch, outcome, survey, answered>>

Batches == 1..2
PerBatch == PerDim * Len(BatchDims[1])
Types == {"single", "multi", "scale_1_5", "open"}
Choice == {"single", "multi"}
DimsOf(b) == Range(BatchDims[b])
Respondents == Critics \cup Friendly

(* What a model writes for a question: a dimension and a type that may be    *)
(* none of those asked for, a number of options, and whether it has an id    *)
(* and a text, both of a legal length.                                       *)
RawType == [dim : DimsOf(1) \cup DimsOf(2) \cup {"other"}, type : Types \cup {"other"},
            options : Nat, complete : BOOLEAN]
QuestionType == [dim : DimsOf(1) \cup DimsOf(2), type : Types, options : Nat]

(* An answer: its intent and its sentiment, the questions it answers and the *)
(* options or the value it gives to each, and whether the rules made it.     *)
AnswerType == [intent : Int, sentiment : {"positive", "neutral", "negative"},
               items : Seq([question : Nat, given : SUBSET Nat]), mock : BOOLEAN]
Unanswered == [intent |-> 0, sentiment |-> "neutral", items |-> <<>>, mock |-> FALSE]

QuestionnaireAssumption ==
    /\ PerDim \in Nat \ {0}
    /\ \A b \in Batches : BatchDims[b] \in Seq(Range(BatchDims[b]))
    /\ Len(BatchDims[2]) = Len(BatchDims[1])
    /\ Replies \subseteq Seq(RawType) \cup {NoList}
    /\ AnswerReplies \subseteq [intent : Int, items : Seq([question : Nat, given : SUBSET Nat]),
                              sentiment : {"positive", "neutral", "negative", "other"}]
    /\ Critics \cap Friendly = {}

Half(state, questions) == [state |-> state, questions |-> questions]

TypeOK == /\ batch \in [Batches -> [state : {"asked", "failed", "canceled", "done"},
                                    questions : Seq(QuestionType)]]
          /\ outcome \in {"open", "stored", "failed", "timeout"}
          /\ survey \in Seq(QuestionType)
          /\ answered \in [Respondents -> AnswerType]

Init == /\ batch = [b \in Batches |-> Half("asked", <<>>)]
        /\ outcome = "open"
        /\ survey = <<>>
        /\ answered = [p \in Respondents |-> Unanswered]

-----------------------------------------------------------------------------
(* The survey                                                               *)

\* A dimension that is not of this half is replaced by the one of the question's place.
Dim(b, raw, n) ==
    IF raw.dim \in DimsOf(b) THEN raw.dim ELSE BatchDims[b][((n - 1) \div PerDim) + 1]

\* A type that is none is open.
Type(raw) == IF raw.type \in Types THEN raw.type ELSE "open"

\* Seeded bug: the number of questions is not checked.
UsableWhole(reply) ==
    /\ reply # NoList
    /\ \A n \in DOMAIN reply : /\ reply[n].complete
                               /\ Type(reply[n]) \in Choice => reply[n].options > 0

Usable(reply) ==
    /\ reply # NoList
    /\ Len(reply) = PerBatch
    /\ \A n \in DOMAIN reply : /\ reply[n].complete
                               /\ Type(reply[n]) \in Choice => reply[n].options > 0

Questions(b, reply) ==
    [n \in DOMAIN reply |-> [dim |-> Dim(b, reply[n], n), type |-> Type(reply[n]),
                             options |-> reply[n].options]]

\* _generate_batch: a half returns or raises; the first to raise ends the request, and the
\* other goes on unheard.
EndBatch(b, reply) ==
    /\ batch[b].state = "asked"
    /\ IF Usable(reply)
       THEN /\ batch' = [batch EXCEPT ![b] = Half("done", Questions(b, reply))]
            /\ UNCHANGED outcome
       ELSE /\ batch' = [batch EXCEPT ![b] = Half("failed", <<>>)]
            /\ outcome' = IF outcome = "open" THEN "failed" ELSE outcome
    /\ UNCHANGED <<survey, answered>>

\* gather returns: the halves in their order, whichever came first.
StoreSurvey ==
    /\ outcome = "open"
    /\ \A b \in Batches : batch[b].state = "done"
    /\ survey' = batch[1].questions \o batch[2].questions
    /\ outcome' = "stored"
    /\ UNCHANGED <<batch, answered>>

\* wait_for cancels what is still asked for.
SurveyTimesOut ==
    /\ outcome = "open"
    /\ \E b \in Batches : batch[b].state = "asked"
    /\ outcome' = "timeout"
    /\ batch' = [b \in Batches |-> IF batch[b].state = "asked" THEN Half("canceled", <<>>)
                                 ELSE batch[b]]
    /\ UNCHANGED <<survey, answered>>

-----------------------------------------------------------------------------
(* The answers                                                              *)

Clamp(v) == Max({1, Min({5, v})})
MockIntent(p) == IF p \in Critics THEN 3 ELSE 4

\* The rules choose by the question's place, counted from 0.
MockGiven(p, n) ==
    LET q == survey[n]
        Option(k) == IF q.options = 0 THEN 0 ELSE (k % q.options) + 1
    IN  CASE q.type = "scale_1_5" -> {Clamp(MockIntent(p) + ((n - 1) % 2))}
          [] q.type = "single" -> {Option(n - 1)}
          [] q.type = "multi" -> {Option(n - 1), Option(n)}
          [] OTHER -> {}

MockAnswer(p) ==
    [intent |-> MockIntent(p),
     sentiment |-> IF MockIntent(p) >= 4 THEN "positive" ELSE "neutral",
     items |-> [n \in DOMAIN survey |-> [question |-> n, given |-> MockGiven(p, n)]],
     mock |-> TRUE]

\* A usable reply has a number for the intent, and any sentiment and items.
AnswerOf(reply) ==
    [intent |-> Clamp(reply.intent),
     sentiment |-> IF reply.sentiment = "other" THEN "neutral" ELSE reply.sentiment,
     items |-> reply.items, mock |-> FALSE]

\* _generate_answer: whatever goes wrong with the model, the rules answer.
AnswerSurvey(p, reply) ==
    /\ outcome = "stored" /\ answered[p] = Unanswered
    /\ answered' = [answered EXCEPT ![p] = IF reply = Unusable THEN MockAnswer(p)
                                           ELSE AnswerOf(reply)]
    /\ UNCHANGED <<batch, outcome, survey>>

Next == \/ \E b \in Batches, reply \in Replies : EndBatch(b, reply)
        \/ StoreSurvey \/ SurveyTimesOut
        \/ \E p \in Respondents, reply \in AnswerReplies \cup {Unusable} : AnswerSurvey(p, reply)

Spec == Init /\ [][Next]_vars

-----------------------------------------------------------------------------
(* Properties                                                               *)

(* A survey is stored whole or not at all: never half of it, and never after *)
(* its request ended otherwise; the halves stand in their order and every    *)
(* question belongs to a dimension of its half, so the later scoring finds   *)
(* it, and has options when it needs them; a request that timed out leaves   *)
(* no half behind (SurveyGenerationAdapter, _build_survey_questions).        *)
SurveyWhole ==
    /\ IF outcome = "stored" THEN Len(survey) = 2 * PerBatch ELSE survey = <<>>
    /\ \A n \in DOMAIN survey : /\ survey[n].dim \in DimsOf(IF n <= PerBatch THEN 1 ELSE 2)
                                /\ survey[n].type \in Choice => survey[n].options > 0
    /\ outcome = "timeout" => \A b \in Batches : batch[b].state # "asked"

(* An answer can be counted, whatever the model replied: its intent is one   *)
(* of the scale, and one made by rules answers every question once, with     *)
(* values and options that are offered, two of them to a choice of several   *)
(* when there are two; a critical persona's never counts as high intent      *)
(* (_generate_answer, _build_mock_answers).                                  *)
AnswersCountable ==
    \A p \in Respondents : answered[p] # Unanswered =>
      LET a == answered[p]
      IN  /\ a.intent \in 1..5
          /\ a.mock =>
               /\ p \in Critics => a.intent < 4
               /\ [n \in DOMAIN a.items |-> a.items[n].question] = [n \in DOMAIN survey |-> n]
               /\ \A n \in DOMAIN survey :
                    LET given == a.items[n].given
                    IN  CASE survey[n].type = "scale_1_5" ->
                                given \subseteq 1..5 /\ Cardinality(given) = 1
                          [] survey[n].type \in Choice ->
                               /\ given \subseteq 1..survey[n].options
                               /\ Cardinality(given) = IF survey[n].type = "multi"
                                      THEN Min({2, survey[n].options}) ELSE 1
                          [] OTHER -> TRUE
=============================================================================
