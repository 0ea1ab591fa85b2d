--------------------------- MODULE ReportMetrics ---------------------------
(***************************************************************************)
(* The figures of a report, computed from the answers of an evaluation by   *)
(* rules alone: averages, shares, groups, prices, themes, the verdict and   *)
(* whom it concerns.  The state is the sheet of answers; answers come in    *)
(* runs of equal ones, so that a long sheet is reached in few steps.        *)
(***************************************************************************)
EXTENDS Integers, Sequences, FiniteSets, FiniteSetsExt, Functions, Rounding

CONSTANTS
    Answers,    \* the answers a persona may give
    RunSizes,   \* how many personas in a row give the same one
    MaxRuns     \* bound: runs of one sheet

VARIABLES
    sheet,  \* the answers, as list_by_evaluation returns them
    runs    \* how many runs they came in

vars == <<sheet, runs>>

(* An answer: overall_intent (0 for None, of a failed answer), the group of  *)
(* its persona, the answer to the scale question of a heatmap dimension (0   *)
(* for none, else within the scale it was asked on, which the code does not  *)
(* check: DimensionScores has answers beside it), the numbers its price      *)
(* answers mention, the positive and the negative themes its text mentions   *)
(* (by their places in _theme_definitions) and the channels of its persona.  *)
(* A failed answer has no text.                                              *)
AnswerType ==
    {a \in [intent : 0..5, group : {"A", "B"}, scale : 0..5, numbers : Seq(Nat),
            pros : SUBSET (1..5), cons : SUBSET (1..4), channels : Seq(1..5)] :
        a.intent = 0 => a.scale = 0 /\ a.numbers = <<>> /\ a.pros = {} /\ a.cons = {}}

MetricsAssumption == /\ Answers \subseteq AnswerType
                     /\ RunSizes \subseteq Nat /\ MaxRuns \in Nat

\* The type invariant.
TypeOK == sheet \in Seq(AnswerType) /\ runs \in 0..MaxRuns

Init == sheet = <<>> /\ runs = 0

Answer(a, n) == /\ runs < MaxRuns
                /\ sheet' = sheet \o [k \in 1..n |-> a]
                /\ runs' = runs + 1

Next == \E a \in Answers, n \in RunSizes : Answer(a, n)

Spec == Init /\ [][Next]_vars

-----------------------------------------------------------------------------
(* Intent                                                                   *)

IntentOf(as) == [n \in DOMAIN as |-> as[n].intent]
ScaleOf(as) == [n \in DOMAIN as |-> as[n].scale]

\* Of some answers, how many gave each score; how many gave any; and the mean of those, in
\* tenths, 0 for none.
Counts(score, who) == [s \in 1..5 |-> Cardinality({n \in who : score[n] = s})]
Number(c) == c[1] + c[2] + c[3] + c[4] + c[5]
Mean(c) == IF Number(c) = 0 THEN 0
           ELSE Round(10 * (c[1] + 2 * c[2] + 3 * c[3] + 4 * c[4] + 5 * c[5]), Number(c))

Distribution(as) == Counts(IntentOf(as), DOMAIN as)
Overall(as) == Mean(Distribution(as))

Verdict(avg) == CASE avg >= 40 -> "go" [] avg \in 30..39 -> "iterate" [] OTHER -> "pause"

\* The shares of the summary, of the stored distribution.
Shares(as) ==
    LET d == Distribution(as)
        Share(n) == Percent(n, Number(d))
    IN  [top |-> Share(d[5]), top2 |-> Share(d[4] + d[5]), bottom2 |-> Share(d[1] + d[2])]

-----------------------------------------------------------------------------
(* Groups                                                                   *)

Groups(as) == {as[n].group : n \in DOMAIN as}
OfGroup(as, g) == {n \in DOMAIN as : as[n].group = g}
GroupIntents(as, g) == Counts(IntentOf(as), OfGroup(as, g))
GroupScales(as, g) == Counts(ScaleOf(as), OfGroup(as, g))

\* Groups none of whose personas gave an intent have no entry.
SegmentIntent(as) ==
    [g \in {h \in Groups(as) : Number(GroupIntents(as, h)) # 0} |->
        [count |-> Number(GroupIntents(as, g)), avg |-> Mean(GroupIntents(as, g))]]

\* A cell of the heatmap: the scale answers, else the intent, else null (0).
SegmentDimension(as, g) ==
    IF Number(GroupScales(as, g)) # 0 THEN Mean(GroupScales(as, g))
    ELSE Mean(GroupIntents(as, g))

Radar(as) == Mean(Counts(ScaleOf(as), DOMAIN as))

\* Groups of the personas whose intent, None counted as 0, is the extreme one.
PersonaSegments(as) ==
    LET scores == {as[n].intent : n \in DOMAIN as}
        Of(s) == {as[n].group : n \in {m \in DOMAIN as : as[m].intent = s}}
    IN  IF as = <<>> THEN [positive |-> {}, negative |-> {}]
        ELSE [positive |-> Of(Max(scores)), negative |-> Of(Min(scores))]

\* Whom the business report names: by the groups' averages, else by the extremes.
Audience(as) ==
    LET seg == SegmentIntent(as)
        likely == {g \in DOMAIN seg : seg[g].avg >= 40}
        unlikely == {g \in DOMAIN seg : seg[g].avg < 40}
        extremes == PersonaSegments(as)
    IN  [likely |-> IF likely # {} THEN likely ELSE extremes.positive,
         unlikely |-> IF unlikely # {} THEN unlikely ELSE extremes.negative]

\* The answers channel recommendations are drawn from.
HighIntent(as) ==
    LET Above(t) == {n \in DOMAIN as : as[n].intent >= t}
    IN  IF Above(4) # {} THEN Above(4) ELSE Above(3)

-----------------------------------------------------------------------------
(* Prices                                                                   *)

\* The numbers of an answer that can be prices.
Extracted(a) == Only(a.numbers, 10..9999)

\* One price per answer that mentions any, the first one; sorted.
Priced(as) == {n \in DOMAIN as : Extracted(as[n]) # <<>>}
PriceOf(as, n) == Extracted(as[n])[1]
NamedPrices(as) ==
    LET price == [n \in Priced(as) |-> PriceOf(as, n)]
        Lower(n, m) == price[n] < price[m] \/ (price[n] = price[m] /\ n < m)
        ranked == Ranked(Priced(as), {p \in Priced(as) \X Priced(as) : Lower(p[1], p[2])})
    IN  [k \in DOMAIN ranked |-> price[ranked[k]]]

Median(prices) ==
    LET mid == Len(prices) \div 2
    IN  CASE prices = <<>> -> 0
          [] prices # <<>> /\ Len(prices) % 2 = 1 -> prices[mid + 1]
          [] OTHER -> Round(prices[mid] + prices[mid + 1], 2)

Bucket(price) == CASE price < 100 -> 1 [] price \in 100..199 -> 2
                   [] price \in 200..399 -> 3 [] OTHER -> 4
Buckets(prices) == [b \in 1..4 |-> Cardinality({k \in DOMAIN prices : Bucket(prices[k]) = b})]

-----------------------------------------------------------------------------
(* Themes                                                                   *)

Themes(positive) == IF positive THEN 1..5 ELSE 1..4
Mentions(a, positive) == IF positive THEN a.pros ELSE a.cons
Supporters(as, positive, t) == {n \in DOMAIN as : t \in Mentions(as[n], positive)}
Support(as, positive, t) == Cardinality(Supporters(as, positive, t))

FirstThree(seq) == SubSeq(seq, 1, Min({3, Len(seq)}))

\* The themes a report lists, of those answers mention: the first three by support.
TopThemes(as, positive) ==
    LET support == [t \in Themes(positive) |-> Support(as, positive, t)]
        mentioned == {t \in Themes(positive) : support[t] > 0}
        Before(t, u) == support[t] > support[u] \/ (support[t] = support[u] /\ t < u)
        ranked == Ranked(mentioned, {p \in mentioned \X mentioned : Before(p[1], p[2])})
    IN  FirstThree(ranked)

\* With no theme at all: the answers whose intent fits, else the first or the last one.
Fallback(as, positive) ==
    LET fits == {n \in DOMAIN as : /\ as[n].intent # 0
                                   /\ IF positive THEN as[n].intent >= 4
                                                  ELSE as[n].intent <= 3}
    IN  IF fits # {} \/ as = <<>> THEN fits ELSE {IF positive THEN 1 ELSE Len(as)}

\* An item: its theme (0 for one made of what the fallback answers say), how many answers
\* support it, the answers it quotes.
ItemType == [theme : 0..5, support : Nat, quotes : Seq(Nat)]
Item(as, t, answering) ==
    [theme |-> t, support |-> Cardinality(answering),
     quotes |-> FirstThree(Only([n \in DOMAIN as |-> n], answering))]
Themed(as, positive) ==
    LET top == TopThemes(as, positive)
    IN  IF top = <<>> THEN <<Item(as, 0, Fallback(as, positive))>>
        ELSE [k \in DOMAIN top |-> Item(as, top[k], Supporters(as, positive, top[k]))]

Evidence(as) ==
    Fold([i \in ItemType |-> [total \in Nat |-> total + i.support]], 0,
         Themed(as, TRUE) \o Themed(as, FALSE))

\* In hundredths.
Confidence(as) ==
    LET answered == Number(Distribution(as))
        base == Min({85, 45 + 6 * answered + 2 * Evidence(as)})
        priced == IF NamedPrices(as) = <<>> THEN base - 8 ELSE base
    IN  Max({35, Min({90, priced})})

-----------------------------------------------------------------------------
(* Properties                                                               *)

(* The shares of high and of low intent, rounded one by one, never add to    *)
(* more than the whole (_intent_summary): ties go to the even neighbour, and *)
(* of the two shares of a tie one is even.                                   *)
SharesFit == LET s == Shares(sheet)
             IN  s.top <= s.top2 /\ s.top2 + s.bottom2 <= 100

(* The verdict and the groups tell one story: the overall average lies       *)
(* between the averages of the groups, the groups count the answers the      *)
(* distribution counts, "go" names a group by its own average, and "pause"   *)
(* leaves none of the groups it names unlikely out (_business_verdict,       *)
(* _calc_segment_intent, _to_business_response).                             *)
VerdictHasGroup ==
    LET seg == SegmentIntent(sheet)
        avg == Overall(sheet)
    IN  DOMAIN seg # {} =>
          /\ \E g, h \in DOMAIN seg : seg[g].avg <= avg /\ avg <= seg[h].avg
          /\ LET Of(g) == IF g \in DOMAIN seg THEN seg[g].count ELSE 0
             IN  Of("A") + Of("B") = Number(Distribution(sheet))
          /\ Verdict(avg) = "go" => \E g \in Audience(sheet).likely :
                                       g \in DOMAIN seg /\ seg[g].avg >= 40
          /\ Verdict(avg) = "pause" => \E g \in Audience(sheet).unlikely :
                                          g \in DOMAIN seg /\ seg[g].avg < 30

(* The acceptable price is a median of the people and not of the numbers     *)
(* they mention: no more than half of those who named a price named a lower  *)
(* first one, and no more than half a higher one; the buckets count each of  *)
(* them once (_calc_price_sensitivity).                                      *)
MedianOfPeople ==
    LET named == Priced(sheet)
        m == Median(NamedPrices(sheet))
        buckets == Buckets(NamedPrices(sheet))
    IN  /\ 2 * Cardinality({n \in named : PriceOf(sheet, n) < m}) <= Cardinality(named)
        /\ 2 * Cardinality({n \in named : PriceOf(sheet, n) > m}) <= Cardinality(named)
        /\ buckets[1] + buckets[2] + buckets[3] + buckets[4] = Cardinality(named)

(* The heatmap and the radar agree: when every group answered the scale      *)
(* question of a dimension, its radar score lies between the groups' cells,  *)
(* and a cell is empty only for a group that gave neither a scale answer nor *)
(* an intent (_calc_dimensions_radar, _calc_segment_dimensions).             *)
HeatmapAgrees ==
    LET cells == {SegmentDimension(sheet, g) : g \in Groups(sheet)}
    IN  /\ (sheet # <<>> /\ \A g \in Groups(sheet) : Number(GroupScales(sheet, g)) # 0)
             => Radar(sheet) \in Min(cells)..Max(cells)
        /\ \A g \in Groups(sheet) :
             SegmentDimension(sheet, g) = 0
               <=> \A n \in DOMAIN sheet :
                     sheet[n].group = g => sheet[n].intent = 0 /\ sheet[n].scale = 0

(* A theme that is left out has no more support than one that is listed, an  *)
(* item quotes no more answers than support it, and whatever the sheet the   *)
(* stated confidence stays within 0.37 and 0.85 (_calc_theme_items,          *)
(* _confidence).                                                             *)
ThemesRanked ==
    /\ \A positive \in BOOLEAN : \A i \in Range(Themed(sheet, positive)) :
         /\ Len(i.quotes) = Min({3, i.support})
         /\ i.theme # 0 => \A t \in Themes(positive) :
              \/ Support(sheet, positive, t) <= i.support
              \/ t \in Range(TopThemes(sheet, positive))
    /\ Confidence(sheet) \in 37..85

\* What a reader of the report compares: every figure agrees with the others.
FiguresAgree ==
    SharesFit /\ VerdictHasGroup /\ MedianOfPeople /\ HeatmapAgrees /\ ThemesRanked
=============================================================================
