----------------------------- MODULE MCServices -----------------------------
(***************************************************************************)
(* Values for checking the services: the answers of which sheets are made.  *)
(***************************************************************************)
EXTENDS Services

Plain(intent, group) ==
    [intent |-> intent, group |-> group, scale |-> 0, numbers |-> <<>>,
     pros |-> {}, cons |-> {}, channels |-> <<>>]

\* Failed, low, high and middle intents in two groups; scale answers at both ends;
\* prices out of range, at the limits of buckets and more than one in an answer; more
\* themes and channels than a report lists.
SomeAnswers ==
    {Plain(0, "A"), [Plain(5, "A") EXCEPT !.channels = <<2, 1>>], Plain(2, "B"),
     [Plain(3, "A") EXCEPT !.scale = 5, !.channels = <<1>>],
     [Plain(1, "B") EXCEPT !.scale = 2, !.cons = {1, 3}],
     [Plain(4, "A") EXCEPT !.numbers = <<5, 150, 300>>, !.pros = {1, 2}, !.cons = {1}],
     [Plain(5, "B") EXCEPT !.numbers = <<99>>, !.pros = {2, 3, 4}, !.channels = <<3, 4>>],
     [Plain(3, "B") EXCEPT !.numbers = <<400, 120>>, !.pros = {3, 4}, !.cons = {2, 3, 4}]}

\* Three dimensions that weigh words in their own ways.
SomeDims == <<"price_sensitivity", "nps_recommendation", "competitor_comparison">>
SomeSorted == <<"competitor_comparison", "nps_recommendation", "price_sensitivity", "unknown">>

\* A skipped question, scale values out of the scale with a refusal and a complaint, praise
\* in words.
SomeItems ==
    {[rated |-> r, scale |-> s, said |-> t, pos |-> p, neg |-> n, yes |-> y, no |-> z] :
        <<r, s, t, p, n, y, z>> \in {<<FALSE, 0, FALSE, 0, 0, FALSE, FALSE>>,
                                   <<TRUE, 9, TRUE, 0, 1, FALSE, TRUE>>,
                                   <<FALSE, 0, TRUE, 4, 0, TRUE, FALSE>>,
                                   <<TRUE, -2, TRUE, 0, 5, FALSE, FALSE>>}}

Scores(d, s) == [dim |-> d, score |-> s, old |-> FALSE]

\* No JSON, no dimension, one twice, out of range, unknown, without a score.
SomeReplies ==
    {NoJson, <<>>,
     <<Scores("nps_recommendation", 101), Scores("price_sensitivity", 40)>>,
     <<Scores("nps_recommendation", 30), Scores("nps_recommendation", 70)>>,
     <<Scores("unknown", 50), Scores("competitor_comparison", -1)>>}

Given(form, value, sure) == [form |-> form, value |-> value, sure |-> sure]

\* A field that is left out, a flat one, one surer than certain, a null one.
SomeValues == {Given("absent", 0, 0), Given("flat", 1, 0), Given("nested", 5, 12),
               Given("nested", 0, 8)}

TwoHalves == <<<<"a", "b">>, <<"c", "d">>>>

Question(dim, type, options, complete) ==
    [dim |-> dim, type |-> type, options |-> options, complete |-> complete]

\* No list, too few, a foreign dimension and type, a choice without options, no id.
SomeHalves ==
    {NoList, <<>>,
     <<Question("a", "multi", 2, TRUE), Question("other", "scale_1_5", 0, TRUE)>>,
     <<Question("other", "single", 3, TRUE), Question("d", "other", 0, TRUE)>>,
     <<Question("c", "single", 0, TRUE), Question("d", "open", 0, TRUE)>>,
     <<Question("c", "open", 0, FALSE), Question("d", "open", 0, TRUE)>>}

\* Intents out of the scale, an unknown sentiment, an answer to a question that is none.
SomeAnswerReplies ==
    {[intent |-> 9, sentiment |-> "other", items |-> <<>>],
     [intent |-> -1, sentiment |-> "positive", items |-> <<[question |-> 7, given |-> {9}]>>]}
=============================================================================
