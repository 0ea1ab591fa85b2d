--------------------------- MODULE ProductIntake ---------------------------
(***************************************************************************)
(* A product is created: the request is checked, its pictures are read, or  *)
(* what was read of them before is used, a model understands the product,   *)
(* and the row is stored; later it may be analysed again.  Reading pictures *)
(* and understanding cost calls to models, and each may fail (AI_PROVIDER is *)
(* not "mock").                                                             *)
(***************************************************************************)
EXTENDS Integers, Sequences, FiniteSets

CONSTANTS
    Prices,      \* the prices a request or a model may give, NoPrice among them
    NoPrice,
    MaxAnalyses  \* bound: how often a product is analysed again

IntakeAssumption == NoPrice \in Prices /\ MaxAnalyses \in Nat

VARIABLES
    order,     \* the request
    step,      \* where it is: the next step, or how it ended
    seen,      \* what is known of the pictures: "nothing", "blank" or "something"
    prompted,  \* what the last understanding was told of them
    spent,     \* the calls made, of each model
    product,   \* the row, or NoRow
    analyses   \* how often it was analysed again

vars == <<order, step, seen, prompted, spent, product, analyses>>

NoRow == [price |-> NoPrice, range |-> 0, summary |-> "none", informed |-> FALSE]

(* A request: uploaded pictures or none; pictures in the request, some of    *)
(* which may be no pictures; the moderation rules its text matches; what was *)
(* read of the pictures when they were uploaded, if the client forwards it;  *)
(* and its price.                                                            *)
OrderType == [uploaded : BOOLEAN, inline : {"none", "pictures", "links", "broken"},
              matches : SUBSET {"block", "review"},
              forwarded : {"nothing", "blank", "something"}, price : Prices]

Ends == {"refused", "broken", "created"}

TypeOK == /\ order \in OrderType
          /\ step \in {"check", "extract", "understand", "describe", "store"} \cup Ends
          /\ seen \in {"nothing", "blank", "something"}
          /\ prompted \in {"nothing", "something"}
          /\ spent \in [vision : 0..2, text : Nat]
          /\ product \in [price : Prices, range : 0..6, informed : BOOLEAN,
                         summary : {"none", "model", "rules"}]
          /\ analyses \in 0..MaxAnalyses

Init == /\ order \in OrderType
        /\ step = "check"
        /\ seen = order.forwarded
        /\ prompted = "nothing"
        /\ spent = [vision |-> 0, text |-> 0]
        /\ product = NoRow
        /\ analyses = 0

-----------------------------------------------------------------------------
(* Checks                                                                   *)

\* The rules are tried in order, and all that block come before the one that reviews.
FirstMatch(matches) == IF "block" \in matches THEN "block"
                       ELSE IF "review" \in matches THEN "review" ELSE "allow"

\* What a match means in a user's words and in the text of a picture.
ActionFor(match, source) ==
    IF match # "allow" /\ source = "vision_text" THEN "review" ELSE match

\* Seeded bug: text is looked at only when no picture came with the request.
PassesIfPictured(o) ==
    \/ o.uploaded /\ o.inline # "broken"
    \/ o.inline \in {"pictures", "links"} /\ ActionFor(FirstMatch(o.matches), "input") # "block"

\* A picture there is, each is one or a link, and the text is not blocked.
Passes(o) == /\ o.uploaded \/ o.inline # "none"
             /\ o.inline # "broken"
             /\ ActionFor(FirstMatch(o.matches), "input") # "block"

CheckRequest ==
    /\ step = "check"
    /\ step' = IF ~Passes(order) THEN "refused"
               ELSE IF seen = "nothing" /\ order.uploaded THEN "extract" ELSE "describe"
    /\ UNCHANGED <<order, seen, prompted, spent, product, analyses>>

-----------------------------------------------------------------------------
(* The pictures                                                             *)

\* _resolve_image_extract: from the cache or by an extract, which may fail, find nothing, or
\* find more than an ImageExtractContext takes, and then the request breaks.
ResolveExtract ==
    /\ step = "extract"
    /\ \E cached \in BOOLEAN :
         spent' = IF cached THEN spent ELSE [spent EXCEPT !.vision = @ + 1]
    /\ \/ seen' \in {"nothing", "something"} /\ step' = "describe"
       \/ step' = "broken" /\ UNCHANGED seen
    /\ UNCHANGED <<order, prompted, product, analyses>>

\* generate_summary: what was extracted is told, a blank extract tells nothing; without an
\* extract the pictures of the request are described, and when that fails the rules
\* summarise.
DescribePictures ==
    /\ step = "describe"
    /\ IF seen = "nothing" /\ order.inline \in {"pictures", "links"}
       THEN /\ spent' = [spent EXCEPT !.vision = @ + 1]
            /\ \E described \in BOOLEAN :
                 /\ prompted' = IF described THEN "something" ELSE "nothing"
                 /\ step' \in IF described THEN {"understand"} ELSE {"understand", "store"}
       ELSE /\ prompted' = IF seen = "something" THEN "something" ELSE "nothing"
            /\ step' = "understand"
            /\ UNCHANGED spent
    /\ UNCHANGED <<order, seen, product, analyses>>

-----------------------------------------------------------------------------
(* The row                                                                  *)

\* _price_range: 0 for none.
Range(price) == CASE price = NoPrice -> 0
                  [] price \in 0..49 -> 1 [] price \in 50..99 -> 2
                  [] price \in 100..199 -> 3 [] price \in 200..399 -> 4
                  [] price \in 400..799 -> 5 [] OTHER -> 6

\* The range said by the model counts only without a price.
Row(price, said, summary, informed) ==
    [price |-> price, range |-> IF price = NoPrice THEN said ELSE Range(price),
     summary |-> summary, informed |-> informed]

\* The request's price goes before the model's.
StoredPrice(own, found) == IF own # NoPrice THEN own ELSE found

\* The model's summary, with the price it found, or that of the rules when it fails; stored
\* at once.
Understand ==
    /\ step = "understand"
    /\ spent' = [spent EXCEPT !.text = @ + 1]
    /\ \/ \E found \in Prices, said \in {0, 3} :
            product' = Row(StoredPrice(order.price, found), said, "model",
                           prompted = "something")
       \/ product' = Row(order.price, 0, "rules", FALSE)
    /\ step' = "created"
    /\ UNCHANGED <<order, seen, prompted, analyses>>

StoreUndescribed ==
    /\ step = "store"
    /\ product' = Row(order.price, 0, "rules", FALSE)
    /\ step' = "created"
    /\ UNCHANGED <<order, seen, prompted, spent, analyses>>

\* reanalyze_product: from the row alone; price and range stay.
Reanalyse ==
    /\ step = "created" /\ analyses < MaxAnalyses
    /\ analyses' = analyses + 1
    /\ spent' = [spent EXCEPT !.text = @ + 1]
    /\ \E by \in {"model", "rules"} :
         product' = [product EXCEPT !.summary = by, !.informed = FALSE]
    /\ prompted' = "nothing"
    /\ UNCHANGED <<order, step, seen>>

Next == \/ CheckRequest \/ ResolveExtract \/ DescribePictures
        \/ Understand \/ StoreUndescribed \/ Reanalyse

Spec == Init /\ [][Next]_vars

-----------------------------------------------------------------------------
(* Properties                                                               *)

(* A request that is refused costs nothing and leaves nothing, a blocked     *)
(* text and a request without a picture are never stored, a request that     *)
(* breaks leaves no row, and the pictures are read twice only when the first *)
(* reading gave nothing (create_product, generate_summary).                  *)
RefusalIsFree ==
    /\ step = "refused" => spent = [vision |-> 0, text |-> 0]
    /\ step # "created" => product = NoRow
    /\ product # NoRow => /\ "block" \notin order.matches
                          /\ order.uploaded \/ order.inline \in {"pictures", "links"}
    /\ spent.vision = 2 => seen = "nothing"

(* What was read of the pictures reaches the model that summarises, until    *)
(* the product is analysed again; the price a user gave is kept, and the     *)
(* price range is that of the price that is stored, whoever gave it.  (A row *)
(* without a price may have the range the model said.)                       *)
ProductTrue ==
    product # NoRow =>
      /\ (seen = "something" /\ analyses = 0 /\ product.summary = "model") => product.informed
      /\ order.price # NoPrice => product.price = order.price
      /\ product.price # NoPrice => product.range = Range(product.price)

IntakeSound == RefusalIsFree /\ ProductTrue
=============================================================================
