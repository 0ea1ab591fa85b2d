--------------------------- MODULE BusinessReport ---------------------------
(***************************************************************************)
(* What is told of a report's figures: the business report with its verdict, *)
(* audience, channels, next steps and article, the deep analysis a model     *)
(* writes about it, and the document the whitepaper is generated from.  A    *)
(* text is represented by what it states: the items, answers, groups and     *)
(* shares it names.                                                          *)
(***************************************************************************)
EXTENDS ReportMetrics

\* Whose words an item stands on: personas have the tag their group is named by.
LabelOf(as, quotes) == IF quotes = <<>> THEN "none" ELSE as[quotes[1]].group

\* The quotes of the evidence chain: the first three of the opportunities.
ChainQuotes(as) ==
    FirstThree(Fold([i \in ItemType |-> [quotes \in Seq(Nat) |-> quotes \o i.quotes]], <<>>,
                    Themed(as, TRUE)))

MarketingAngles(as) ==
    LET items == Themed(as, TRUE)
    IN  [k \in DOMAIN items |->
            [item |-> items[k].theme, segment |-> LabelOf(as, items[k].quotes)]]

-----------------------------------------------------------------------------
(* Channels                                                                 *)

Listeners(as, c) == {n \in HighIntent(as) : c \in Range(as[n].channels)}

\* Counter.most_common(3): by count, then by the first mention.
TopChannels(as) ==
    LET said == UNION {Range(as[n].channels) : n \in HighIntent(as)}
        heard == [c \in said |-> Cardinality(Listeners(as, c))]
        by == [c \in said |-> Min(Listeners(as, c))]
        Place(c) == Min({k \in DOMAIN as[by[c]].channels : as[by[c]].channels[k] = c})
        Before(c, d) == \/ heard[c] > heard[d]
                        \/ /\ heard[c] = heard[d]
                           /\ by[c] < by[d] \/ (by[c] = by[d] /\ Place(c) < Place(d))
    IN  FirstThree(Ranked(said, {p \in said \X said : Before(p[1], p[2])}))

\* Whom to reach there: the groups of those listeners, channel by channel.
ChannelSegments(as) == {as[n].group : n \in UNION {Listeners(as, c) : c \in Range(TopChannels(as))}}

-----------------------------------------------------------------------------
(* Next steps, the article, the deep analysis                               *)

\* A channel sentence, or the one that says there is no evidence; then one for the first
\* opportunity and one for the first risk, which always exist.
ChannelAdvice(as) ==
    IF TopChannels(as) = <<>> THEN <<"no evidence">>
    ELSE <<"channels">> \o <<"opportunity", "risk">>
NextTests(as) ==
    <<"opportunity", "risk", IF NamedPrices(as) = <<>> THEN "ask for prices" ELSE "retest prices">>

\* The article's three sections, by how many subsections each has: an angle or a next step
\* for each of the first four, or one that says there is none yet.
AtMostFour(n) == Max({1, Min({4, n})})
AnglesSection(as) == AtMostFour(Len(MarketingAngles(as)))
ColdSection == 3
MarketFitSection(as) == AtMostFour(Len(NextTests(as)))
Article(as) == <<AnglesSection(as), ColdSection, MarketFitSection(as)>>

\* What the model may answer: no JSON, or sections with a title and a content or not.
DeepReplies == {<<>>} \cup UNION {[1..n -> BOOLEAN] : n \in 1..2}

\* get_deep_analysis: the complete sections of the reply, else those of the article.
DeepSections(as, reply) ==
    LET complete == Cardinality({k \in DOMAIN reply : reply[k]})
    IN  IF complete = 0 THEN Len(Article(as)) ELSE complete

-----------------------------------------------------------------------------
(* The whitepaper's source document                                         *)

\* The overall intent out of a hundred, and its grade.
Composite(as) == 2 * Overall(as)
Grade(as) == CASE Composite(as) >= 90 -> "S"
               [] Composite(as) \in 75..89 -> "A"
               [] Composite(as) \in 60..74 -> "B"
               [] Composite(as) \in 45..59 -> "C"
               [] OTHER -> "D"

\* Of those who gave an intent: who mentions an item, who gave which intent; of those who
\* named a price: who named one of a bucket.
Mention(as, i) == Percent(i.support, Number(Distribution(as)))
IntentShares(as) == LET d == Distribution(as) IN [s \in 1..5 |-> Percent(d[s], Number(d))]
PriceShares(as) == LET prices == NamedPrices(as)
                   IN  [b \in 1..4 |-> Percent(Buckets(prices)[b], Len(prices))]

-----------------------------------------------------------------------------
(* Properties                                                               *)

(* The business report and the whitepaper tell one story: the grade, which   *)
(* the whitepaper computes by itself, never contradicts the verdict          *)
(* (whitepaper_service, _business_verdict).                                  *)
GradeFitsVerdict ==
    Number(Distribution(sheet)) # 0 =>
      CASE Verdict(Overall(sheet)) = "go" -> Grade(sheet) \in {"S", "A"}
        [] Verdict(Overall(sheet)) = "iterate" -> Grade(sheet) \in {"A", "B"}
        [] OTHER -> Grade(sheet) \in {"C", "D"}

(* No item is mentioned by more than everyone, although the items count      *)
(* answers and the whole counts intents; and the rounded shares of the       *)
(* intents and of the prices add up to about the whole.                      *)
DocumentAddsUp ==
    LET prices == PriceShares(sheet)
    IN  /\ \A i \in Range(Themed(sheet, TRUE)) \cup Range(Themed(sheet, FALSE)) :
             Mention(sheet, i) \in 0..100
        /\ Number(Distribution(sheet)) # 0 => Number(IntentShares(sheet)) \in 98..102
        /\ NamedPrices(sheet) # <<>> =>
             prices[1] + prices[2] + prices[3] + prices[4] \in 98..102

(* Channels are recommended for people who would buy: none is named unless   *)
(* someone of the highest intents there are listens to it, and when anybody  *)
(* is likely to buy, no group is named all of whose people are unlikely to   *)
(* (_channel_recommendations).                                               *)
ChannelsBacked ==
    /\ (TopChannels(sheet) = <<>>) <=> (ChannelSegments(sheet) = {})
    /\ \A c \in Range(TopChannels(sheet)) : \E n \in DOMAIN sheet :
         c \in Range(sheet[n].channels) /\ sheet[n].intent >= 3
    /\ (\E n \in DOMAIN sheet : sheet[n].intent >= 4) =>
         \A g \in ChannelSegments(sheet) :
            \E n \in DOMAIN sheet : sheet[n].group = g /\ sheet[n].intent >= 4

(* Every statement has a voice: quotes come from answers that gave the       *)
(* theme, a sheet with answers has a quote for the evidence chain, and the   *)
(* deep analysis has sections whatever the model replied                     *)
(* (_to_business_response, get_deep_analysis).                               *)
StatementsQuoted ==
    /\ sheet # <<>> => ChainQuotes(sheet) # <<>>
    /\ \A positive \in BOOLEAN : \A i \in Range(Themed(sheet, positive)) :
         i.theme # 0 => \A n \in Range(i.quotes) : i.theme \in Mentions(sheet[n], positive)
    /\ LET article == Article(sheet) IN \A n \in 1..3 : article[n] > 0
    /\ \A reply \in DeepReplies : DeepSections(sheet, reply) > 0

\* What is told agrees with the figures.
ToldAsCounted == GradeFitsVerdict /\ DocumentAddsUp /\ ChannelsBacked /\ StatementsQuoted
=============================================================================
