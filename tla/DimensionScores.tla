-------------------------- MODULE DimensionScores --------------------------
(***************************************************************************)
(* The scores of the survey's dimensions: a language model scores what was  *)
(* answered to each, and whatever it leaves out or gets wrong is scored by   *)
(* counting words.  The radar of a report is drawn from these scores, of 0  *)
(* to 100, or else from averages of the scale answers, which are asked for   *)
(* as 1 to 5 and stored as the model of the persona gave them.              *)
(***************************************************************************)
EXTENDS Rounding, FiniteSets, FiniteSetsExt, Functions

CONSTANTS
    Dims,       \* REQUIRED_DIMENSIONS, in their order
    Sorted,     \* these and "unknown", of other questions, in the order of their names
    Items,      \* what may be answered to a question
    Replies,    \* what the model may reply: entries, or NoJson
    NoJson,
    AnswerCap,  \* the answers of a dimension that are scored
    MaxItems    \* bound: answers in all

VARIABLES
    items,     \* the answers to the questions of each dimension
    analysis,  \* the report's dimension_analysis_status, "no row" without a report row
    entries,   \* its dimension_analysis
    radar      \* the radar a reader was last given

vars == <<items, analysis, entries, radar>>

Required == Range(Dims)
None == -1

(* An answer: whether it is a number for a scale question, and which one;    *)
(* whether there is any text, the words for and against in it, and whether   *)
(* the words of yes and of no are among them that some dimensions weigh more. *)
ItemType == [rated : BOOLEAN, scale : Int, said : BOOLEAN, pos : Nat, neg : Nat,
             yes : BOOLEAN, no : BOOLEAN]

\* An entry of a reply or of an analysis; an old one has a relevance and no confidence.
EntryType == [dim : Required \cup {"unknown"}, score : Int, old : BOOLEAN]

\* Entries of one dimension: what is taken of a reply, and what is read of an analysis.
Usable(d) == [dim : {d}, score : {None} \cup 0..100, old : BOOLEAN]
Current(d) == [dim : {d}, score : Int, old : {FALSE}]

\* An entry of a radar: the scale it is on, 100 or 5.
RadarType == [dim : Range(Sorted), score : Int, of : {5, 100}]

DimensionAssumption ==
    /\ Dims \in Seq(Required) /\ IsInjective(Dims) /\ Dims # <<>>
    /\ Sorted \in Seq(Range(Sorted)) /\ IsInjective(Sorted)
    /\ Range(Sorted) = Required \cup {"unknown"} /\ "unknown" \notin Required
    /\ Items \subseteq ItemType
    /\ \A reply \in Replies : reply = NoJson \/ reply \in Seq(EntryType)
    /\ AnswerCap \in Nat /\ MaxItems \in Nat

TypeOK == /\ items \in [Range(Sorted) -> Seq(Items)]
          /\ analysis \in {"no row", "none", "ready", "failed"}
          /\ entries \in Seq(EntryType)
          /\ radar \in Seq(RadarType)

-----------------------------------------------------------------------------
(* Scoring by words                                                         *)

\* What the dimension adds to a text that says yes or no to what it asks for.
Weight(d, i) ==
    CASE d = "price_sensitivity" -> (IF i.yes THEN 12 ELSE 0) - (IF i.no THEN 14 ELSE 0)
      [] d \in {"repurchase_intent", "nps_recommendation"} -> IF i.yes THEN 10 ELSE 0
      [] d = "competitor_comparison" -> IF i.no THEN -8 ELSE 0
      [] OTHER -> 0

TextScore(d, i) == Max({15, Min({95, 58 + 8 * i.pos - 10 * i.neg + Weight(d, i)})})

\* The scores one answer gives: of its scale value, taken into 0..5, and of its text.
ScoresOf(d, i) == (IF i.rated THEN <<20 * Max({0, Min({5, i.scale})})>> ELSE <<>>)
                  \o (IF i.said THEN <<TextScore(d, i)>> ELSE <<>>)

Inputs(d) == SubSeq(items[d], 1, Min({AnswerCap, Len(items[d])}))
Evidence(d) == Fold([i \in Items |-> [scores \in Seq(0..100) |-> scores \o ScoresOf(d, i)]],
                    <<>>, Inputs(d))

WordScore(d) == LET evidence == Evidence(d)
                IN  IF evidence = <<>> THEN None ELSE Round(TotalOf(evidence), Len(evidence))

\* In hundredths.
Confidence(d) == IF Evidence(d) = <<>> THEN 0 ELSE Min({95, 35 + 8 * Len(Evidence(d))})

-----------------------------------------------------------------------------
(* Scoring by the model, with the words for what it left out                *)

LastOf(given) == given[Len(given)]

\* The last usable entry of a dimension is taken.
Scored(reply) ==
    LET Of(d) == IF reply = NoJson THEN <<>> ELSE Only(reply, Usable(d))
        Score(d) == IF Of(d) # <<>> THEN LastOf(Of(d)).score ELSE WordScore(d)
    IN  [k \in DOMAIN Dims |-> [dim |-> Dims[k], score |-> Score(Dims[k]), old |-> FALSE]]

-----------------------------------------------------------------------------
(* The radar                                                                *)

\* The scale answers among those of a dimension, as they are.
Scales(answers) == LET rated == Only(answers, {i \in Items : i.rated})
                   IN  [n \in DOMAIN rated |-> rated[n].scale]

\* Their averages, of the dimensions that have any.
RuleRadar ==
    LET rated == Only(Sorted, {d \in Range(Sorted) : Scales(items[d]) # <<>>})
    IN  [k \in DOMAIN rated |-> [dim |-> rated[k], score |-> Average(Scales(items[rated[k]])),
                                 of |-> 5]]

\* _resolve_dimensions_radar: the ready scores, in order, else the averages.
Resolved(status, stored) ==
    LET Of(d) == Only(stored, Current(d))
        known == Only(Dims, {d \in Required : Of(d) # <<>>})
    IN  IF status # "ready" \/ known = <<>> THEN RuleRadar
        ELSE [k \in DOMAIN known |-> [dim |-> known[k], score |-> LastOf(Of(known[k])).score,
                                      of |-> 100]]

AllRequired(r) == Required \subseteq {r[k].dim : k \in DOMAIN r}

WordRadar == [k \in DOMAIN Dims |->
                 [dim |-> Dims[k], score |-> WordScore(Dims[k]), of |-> 100]]

-----------------------------------------------------------------------------
(* Actions                                                                  *)

\* A report row may exist that was analysed by an earlier version.
Init ==
    /\ items = [d \in Range(Sorted) |-> <<>>]
    /\ radar = <<>>
    /\ \/ analysis \in {"no row", "none", "failed"} /\ entries = <<>>
       \/ /\ analysis = "ready"
          /\ \E old \in BOOLEAN : entries = <<[dim |-> Dims[1], score |-> 60, old |-> old]>>

AnswerQuestion(d, i) ==
    /\ radar = <<>>
    /\ TotalOf([k \in DOMAIN Sorted |-> Len(items[Sorted[k]])]) < MaxItems
    /\ items' = [items EXCEPT ![d] = Append(@, i)]
    /\ UNCHANGED <<analysis, entries, radar>>

\* The report task, or a reader: score and store.
Analyse(reply) ==
    /\ radar = <<>>
    /\ analysis # "no row"
    /\ entries' = Scored(reply)
    /\ analysis' = "ready"
    /\ UNCHANGED <<items, radar>>

\* get_or_create_report: an incomplete radar is analysed first, and what is still missing
\* is scored by words.
ReadRadar(reply) ==
    LET asks == analysis \in {"none", "ready"} /\ ~AllRequired(Resolved(analysis, entries))
        r == IF asks THEN Resolved("ready", Scored(reply)) ELSE Resolved(analysis, entries)
    IN  /\ radar = <<>>
        /\ radar' = IF AllRequired(r) THEN r ELSE WordRadar
        /\ IF asks THEN analysis' = "ready" /\ entries' = Scored(reply)
                   ELSE UNCHANGED <<analysis, entries>>
        /\ UNCHANGED items

Next == \/ \E d \in Range(Sorted), i \in Items : AnswerQuestion(d, i)
        \/ \E reply \in Replies : Analyse(reply) \/ ReadRadar(reply)

Spec == Init /\ [][Next]_vars

-----------------------------------------------------------------------------
(* Properties                                                               *)

(* What an entry of the radar may show.  A score of the model or of words    *)
(* stays within 0..100.  An average is checked against no scale: it lies     *)
(* between two of the answers, and these are whatever the personas' model    *)
(* gave.                                                                     *)
Shown(e, scale) ==
    /\ e.of = scale
    /\ IF scale = 100 THEN e.score \in {None} \cup 0..100
       ELSE \E low, high \in Range(Scales(items[e.dim])) : e.score \in 10 * low..10 * high

(* Every required dimension is on the radar once, whatever the model replied *)
(* - no JSON, unknown or missing dimensions, one twice, scores out of range  *)
(* - and scores are never mixed with averages (_run_dimension_analysis,      *)
(* _resolve_dimensions_radar).                                               *)
RadarWhole ==
    radar # <<>> =>
      /\ \A d \in Required : Cardinality({k \in DOMAIN radar : radar[k].dim = d}) = 1
      /\ \E scale \in {5, 100} : \A k \in DOMAIN radar : Shown(radar[k], scale)

(* A score by words is one of the answers': none without evidence, else      *)
(* between the lowest and the highest of the scores it is made of, and never *)
(* stated as certain (_score_dimension_input).                               *)
WordsBacked ==
    \A d \in Required :
      LET scores == Range(Evidence(d))
      IN  /\ Confidence(d) \in 0..95
          /\ (WordScore(d) = None) <=> (Evidence(d) = <<>>)
          /\ scores # {} => WordScore(d) \in Min(scores)..Max(scores)

\* What the radar shows rests on the answers.
ScoresSound == RadarWhole /\ WordsBacked
=============================================================================
