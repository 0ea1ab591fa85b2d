---------------------------- MODULE FiguresProofs ----------------------------
(***************************************************************************)
(* Proofs about what the services read, list and compute, for every value   *)
(* of the constants: the fields of a picture, the products made of them,    *)
(* the pages of a list, the personas it is completed with and the scores of *)
(* the dimensions.  The last theorem has the types of all parts.            *)
(***************************************************************************)
EXTENDS ResultsProofs, ReportMetricsProofs

-----------------------------------------------------------------------------
(* What is read off a picture                                              *)

\* The settings of a reading, and fields that are honest.
VisionInv == scan \in {"whole", "text"} /\ Vision!FieldsHonest

\* At first nothing is shown.
LEMMA VisionInit == Vision!Init => VisionInv
  BY DEF Vision!Init, Vision!Nothing, VisionInv, Vision!FieldsHonest

\* One field of a reply, in either mode.
LEMMA FieldHonest ==
    ASSUME NEW f, NEW given \in Vision!GivenType,
           NEW field, field = IF scan = "whole" THEN Vision!Whole(f, given)
                                                ELSE Vision!Text(f, given)
    PROVE  /\ (scan = "whole" /\ field.value = 0) => field.sure = 0
           /\ field.source = "rule" => given.form # "nested" /\ field.sure <= 6
           /\ (scan # "whole" /\ f \notin Core) => field.value = 0
           /\ (field.value # 0 /\ field.source = "model") => given.value >= field.value
  <1>1. given.value \in Nat
    BY DEF Vision!GivenType
  <1>2. /\ Vision!NotFound.value = 0 /\ Vision!NotFound.sure = 0
        /\ Vision!NotFound.source = "not found"
    BY DEF Vision!NotFound, Vision!Field
  <1>3. CASE field = Vision!NotFound
    BY <1>2, <1>3
  <1>4. CASE scan = "whole" /\ field # Vision!NotFound
    <2>1. PICK c : given.value # 0 /\ field = Vision!Field(given.value, c, "model")
      BY <1>4 DEF Vision!Whole
    <2>2. field.value = given.value /\ field.source = "model"
      BY <2>1 DEF Vision!Field
    <2> QED BY <1>1, <1>4, <2>1, <2>2
  <1>5. CASE scan # "whole" /\ f \in Core /\ given.form = "nested"
    <2> DEFINE kept == IF f = "selling_points" THEN Vision!Min({3, given.value})
                       ELSE given.value
    <2>1. kept \in Nat /\ kept <= given.value
      <3>1. \E m \in {3, given.value} : \A n \in {3, given.value} : m <= n
        BY <1>1
      <3>2. Vision!Min({3, given.value}) \in {3, given.value}
             /\ Vision!Min({3, given.value}) <= given.value
        BY <3>1 DEF Vision!Min
      <3> QED BY <1>1, <3>2
    <2>2. field = Vision!Field(kept, Vision!Clamped(given.sure), "model")
      BY <1>5 DEF Vision!Text
    <2> HIDE DEF kept
    <2>3. field.value = kept /\ field.source = "model"
      BY <2>2 DEF Vision!Field
    <2> QED BY <1>1, <1>5, <2>1, <2>3
  <1>6. CASE scan # "whole" /\ field # Vision!NotFound /\ ~(f \in Core /\ given.form = "nested")
    <2>1. f \in Core /\ given.form # "nested" /\ field = Vision!Field(1, 6, "rule")
      BY <1>6 DEF Vision!Text
    <2>2. field.source = "rule" /\ field.sure = 6
      BY <2>1 DEF Vision!Field
    <2> QED BY <1>6, <2>1, <2>2
  <1> QED BY <1>3, <1>4, <1>5, <1>6

\* Every step keeps VisionInv.
LEMMA VisionKeeps ==
    ASSUME VisionInv, Vision!Next \/ UNCHANGED visionVars
    PROVE  VisionInv'
  <1>1. CASE UNCHANGED visionVars
    BY <1>1 DEF visionVars, VisionInv, Vision!FieldsHonest
  <1>2. ASSUME NEW target \in Targets, NEW given \in [Vision!Known -> Values],
               Vision!Extract(target, given)
        PROVE  VisionInv'
    <2> DEFINE asked == IF target = {} THEN Vision!Known ELSE target
               found == [f \in asked |-> IF scan = "whole" THEN Vision!Whole(f, given[f])
                                                         ELSE Vision!Text(f, given[f])]
               named == "name" \in asked /\ found["name"].value # 0
    <2>1. /\ fieldsShown' = [fields |-> found, review |-> ~named \/ flagged, reply |-> given]
          /\ scan' = scan /\ flagged' = flagged /\ scan \in {"whole", "text"}
      BY <1>2 DEF Vision!Extract, VisionInv
    <2>2. asked \subseteq Vision!Known /\ \A f \in asked : given[f] \in Vision!GivenType
      BY ServicesAssumption DEF Vision!VisionAssumption
    <2>3. /\ fieldsShown'.fields = found /\ DOMAIN found = asked
          /\ fieldsShown'.reply = given /\ fieldsShown'.review = (~named \/ flagged)
      BY <2>1
    <2>4. ASSUME NEW f \in asked
          PROVE  /\ (scan = "whole" /\ found[f].value = 0) => found[f].sure = 0
                 /\ found[f].source = "rule" => given[f].form # "nested" /\ found[f].sure <= 6
                 /\ (scan # "whole" /\ f \notin Core) => found[f].value = 0
                 /\ (found[f].value # 0 /\ found[f].source = "model")
                        => given[f].value >= found[f].value
      <3>1. found[f] = IF scan = "whole" THEN Vision!Whole(f, given[f])
                                         ELSE Vision!Text(f, given[f])
        OBVIOUS
      <3> HIDE DEF found
      <3> QED BY <2>2, <3>1, FieldHonest
    <2>5. ASSUME NEW f \in asked, (f = "name" /\ found[f].value = 0) \/ flagged
          PROVE  ~named \/ flagged
      BY <2>5
    <2> HIDE DEF asked, found, named
    <2>6. Vision!FieldsHonest'
      BY <2>1, <2>3, <2>4, <2>5 DEF Vision!FieldsHonest
    <2> QED BY <2>1, <2>6 DEF VisionInv
  <1> QED BY <1>1, <1>2 DEF Vision!Next

\* What a user is shown of a picture is no surer than what was read: no certainty about
\* nothing, no guess in place of a reading, nothing found that was not asked for, and a
\* review without a name (ai/vision_client.py, _parse_response, _structure_fields).
THEOREM FieldsAlwaysHonest == Spec => [](part = "vision" => Vision!FieldsHonest)
  <1> DEFINE Inv == part = "vision" => VisionInv
  <1>1. Init => Inv
    BY VisionInit DEF Init
  <1>2. Inv /\ [Next]_vars => Inv'
    BY VisionKeeps, PartSteps
  <1>3. Inv => (part = "vision" => Vision!FieldsHonest)
    BY DEF VisionInv
  <1> QED BY <1>1, <1>2, <1>3, PTL DEF Spec

\* What the user is shown, of known fields only.
VisionRest ==
    /\ hints \subseteq Hinted /\ flagged \in BOOLEAN
    /\ DOMAIN fieldsShown.fields \subseteq Vision!Known
    /\ \A f \in DOMAIN fieldsShown.fields : fieldsShown.fields[f] \in Vision!FieldType
    /\ fieldsShown.review \in BOOLEAN

\* How sure one is of a field is within its range, whatever the model says.
LEMMA FieldTyped ==
    ASSUME NEW f, NEW given \in Vision!GivenType
    PROVE  Vision!Whole(f, given) \in Vision!FieldType /\ Vision!Text(f, given) \in Vision!FieldType
  <1> DEFINE Sure == 0..10
             From == {"model", "rule", "not found"}
  <1>1. ASSUME NEW v \in Nat, NEW s \in Sure, NEW from \in From
        PROVE  Vision!Field(v, s, from) \in Vision!FieldType
    BY DEF Vision!Field, Vision!FieldType
  <1>2. ASSUME NEW a \in Int, NEW b \in Int
        PROVE  /\ Vision!Min({a, b}) \in Int /\ Vision!Min({a, b}) \in {a, b}
               /\ Vision!Min({a, b}) <= a /\ Vision!Min({a, b}) <= b
    <2>1. \E m \in {a, b} : \A n \in {a, b} : m <= n
      OBVIOUS
    <2> QED BY <2>1 DEF Vision!Min
  <1>3. ASSUME NEW a \in Int, NEW b \in Int
        PROVE  Vision!Max({a, b}) \in {a, b} /\ Vision!Max({a, b}) >= a /\ Vision!Max({a, b}) >= b
    <2>1. \E m \in {a, b} : \A n \in {a, b} : m >= n
      OBVIOUS
    <2> QED BY <2>1 DEF Vision!Max
  <1>4. given.value \in Nat /\ given.sure \in Int
    BY DEF Vision!GivenType
  <1>5. Vision!Clamped(given.sure) \in Sure
    <2> DEFINE low == Vision!Min({10, given.sure})
    <2>1. low \in Int /\ low <= 10
      BY <1>2, <1>4
    <2> HIDE DEF low
    <2>2. Vision!Max({0, low}) \in {0, low} /\ Vision!Max({0, low}) >= 0
      BY <1>3, <2>1
    <2> QED BY <2>1, <2>2 DEF Vision!Clamped, low
  <1>6. Vision!Min({3, given.value}) \in Nat
    <2>1. 3 \in Int /\ given.value \in Int
      BY <1>4
    <2>2. Vision!Min({3, given.value}) \in {3, given.value}
      BY <1>2, <2>1
    <2> QED BY <1>4, <2>2
  <1>7. 0 \in Sure /\ 6 \in Sure /\ 10 \in Sure
    OBVIOUS
  <1> HIDE DEF Sure
  <1>8. Vision!NotFound \in Vision!FieldType
    BY <1>1, <1>7 DEF Vision!NotFound
  <1>9. Vision!Whole(f, given) \in Vision!FieldType
    BY <1>1, <1>4, <1>5, <1>7, <1>8 DEF Vision!Whole
  <1>10. Vision!Text(f, given) \in Vision!FieldType
    BY <1>1, <1>4, <1>5, <1>6, <1>7, <1>8 DEF Vision!Text
  <1> QED BY <1>9, <1>10

\* A reply, whatever it holds, leaves only known fields of the right type.
LEMMA VisionRestKept ==
    ASSUME VisionRest, Vision!Next \/ UNCHANGED visionVars
    PROVE  VisionRest'
  <1>1. CASE UNCHANGED visionVars
    BY <1>1 DEF visionVars, VisionRest
  <1>2. ASSUME NEW target \in Targets, NEW given \in [Vision!Known -> Values],
               Vision!Extract(target, given)
        PROVE  VisionRest'
    <2> DEFINE asked == IF target = {} THEN Vision!Known ELSE target
               found == [f \in asked |-> IF scan = "whole" THEN Vision!Whole(f, given[f])
                                                         ELSE Vision!Text(f, given[f])]
               named == "name" \in asked /\ found["name"].value # 0
    <2>1. /\ fieldsShown' = [fields |-> found, review |-> ~named \/ flagged, reply |-> given]
          /\ UNCHANGED <<hints, flagged>>
      BY <1>2 DEF Vision!Extract
    <2>2. asked \subseteq Vision!Known /\ \A f \in asked : given[f] \in Vision!GivenType
      BY ServicesAssumption DEF Vision!VisionAssumption
    <2>3. fieldsShown'.fields = found /\ fieldsShown'.review = (~named \/ flagged)
      BY <2>1
    <2>4. \A f \in asked : found[f] \in Vision!FieldType
      BY <2>2, FieldTyped
    <2>5. DOMAIN found = asked
      OBVIOUS
    <2>6. fieldsShown'.review \in BOOLEAN
      BY <2>3 DEF VisionRest
    <2> HIDE DEF asked, found, named
    <2> QED BY <2>1, <2>2, <2>3, <2>4, <2>5, <2>6 DEF VisionRest
  <1> QED BY <1>1, <1>2 DEF Vision!Next

\* The types of the variables of a reading.
LEMMA VisionTyped == Spec => [](part = "vision" => Vision!TypeOK)
  <1> DEFINE Inv == part = "vision" => VisionInv /\ VisionRest
  <1>1. Init => Inv
    <2> SUFFICES ASSUME Vision!Init PROVE VisionRest
      BY VisionInit DEF Init
    <2>1. DOMAIN fieldsShown.fields = {} /\ fieldsShown.review = FALSE
      BY DEF Vision!Init, Vision!Nothing
    <2>2. hints \subseteq Hinted /\ flagged \in BOOLEAN
      BY DEF Vision!Init
    <2> QED BY <2>1, <2>2 DEF VisionRest
  <1>2. Inv /\ [Next]_vars => Inv'
    BY VisionKeeps, VisionRestKept, PartSteps
  <1>3. Inv => (part = "vision" => Vision!TypeOK)
    BY DEF VisionInv, VisionRest, Vision!TypeOK
  <1> QED BY <1>1, <1>2, <1>3, PTL DEF Spec

-----------------------------------------------------------------------------
(* The intake of a product                                                 *)

\* The types of the variables, the counters without their bound.
IntakeTypes ==
    /\ order \in Intake!OrderType
    /\ step \in {"check", "extract", "understand", "describe", "store"} \cup Intake!Ends
    /\ seen \in {"nothing", "blank", "something"}
    /\ prompted \in {"nothing", "something"}
    /\ spent \in [vision : Nat, text : Nat]
    /\ product \in [price : Prices, range : 0..6, informed : BOOLEAN,
                    summary : {"none", "model", "rules"}]
    /\ analyses \in Nat

\* Calls are paid for one step after the other, the second reading after an empty first one.
SpentInv ==
    /\ step \in {"check", "refused", "extract"} => spent = [vision |-> 0, text |-> 0]
    /\ step \in {"describe", "broken"} => spent.vision <= 1
    /\ spent.vision = 2 => seen = "nothing"

\* Only an order that passed goes on, and what was seen goes with it to the row.
RowTrue ==
    /\ (seen = "something" /\ analyses = 0 /\ product.summary = "model") => product.informed
    /\ order.price # NoPrice => product.price = order.price
    /\ product.price # NoPrice => product.range = Intake!Range(product.price)
\* The row is written by the last step, from an order that passed.
ProductInv ==
    /\ step # "created" => product = Intake!NoRow
    /\ step \notin {"check", "refused"} => Intake!Passes(order)
    /\ step = "extract" => seen = "nothing"
    /\ step = "understand" /\ seen = "something" => prompted = "something"
    /\ step = "store" => seen # "something"
    /\ step = "created" => RowTrue

\* What is paid for and what is stored are two independent invariants.
IntakeInv == IntakeTypes /\ SpentInv /\ ProductInv

\* A price is in one of six ranges, or in none.
LEMMA RangeKnown == \A price : Intake!Range(price) \in 0..6
  BY DEF Intake!Range

\* An order comes in that has cost nothing.
LEMMA IntakeInit == Intake!Init => IntakeInv
  <1> SUFFICES ASSUME Intake!Init PROVE IntakeInv
    OBVIOUS
  <1>1. IntakeTypes
    BY ServicesAssumption
       DEF Intake!IntakeAssumption, Intake!Init, Intake!NoRow, IntakeTypes, Intake!OrderType
  <1>2. SpentInv /\ ProductInv
    BY DEF Intake!Init, SpentInv, ProductInv
  <1> QED BY <1>1, <1>2 DEF IntakeInv

\* The checks, the pictures and what is told of them.
LEMMA PicturesKeepIntake ==
    ASSUME IntakeInv,
           Intake!CheckRequest \/ Intake!ResolveExtract \/ Intake!DescribePictures
    PROVE  IntakeInv'
  <1> USE DEF IntakeInv
  <1>1. CASE Intake!CheckRequest
    <2>1. IntakeTypes'
      BY <1>1 DEF Intake!CheckRequest, IntakeTypes, Intake!Ends
    <2>2. SpentInv'
      BY <1>1 DEF Intake!CheckRequest, SpentInv
    <2>3. ProductInv'
      BY <1>1 DEF Intake!CheckRequest, ProductInv
    <2> QED BY <2>1, <2>2, <2>3
  <1>2. CASE Intake!ResolveExtract
    <2>1. /\ spent = [vision |-> 0, text |-> 0] /\ step = "extract" /\ seen = "nothing"
          /\ product = Intake!NoRow /\ Intake!Passes(order)
      BY <1>2 DEF Intake!ResolveExtract, SpentInv, ProductInv
    <2>2. /\ spent' \in [vision : Nat, text : Nat] /\ spent'.vision <= 1
          /\ spent'.vision # 2
      BY <1>2, <2>1 DEF Intake!ResolveExtract
    <2>3. IntakeTypes'
      BY <1>2, <2>2 DEF Intake!ResolveExtract, IntakeTypes, Intake!Ends
    <2>4. SpentInv'
      BY <1>2, <2>2 DEF Intake!ResolveExtract, SpentInv
    <2>5. ProductInv'
      BY <1>2, <2>1 DEF Intake!ResolveExtract, ProductInv
    <2> QED BY <2>3, <2>4, <2>5
  <1>3. CASE Intake!DescribePictures
    <2>1. /\ spent \in [vision : Nat, text : Nat] /\ spent.vision <= 1 /\ step = "describe"
          /\ product = Intake!NoRow /\ Intake!Passes(order)
      BY <1>3 DEF Intake!DescribePictures, SpentInv, ProductInv, IntakeTypes
    <2>2. /\ step' \in {"understand", "store"} /\ prompted' \in {"nothing", "something"}
          /\ step' = "store" => seen = "nothing"
          /\ step' = "understand" /\ seen = "something" => prompted' = "something"
          /\ UNCHANGED <<order, seen, product, analyses>>
      BY <1>3 DEF Intake!DescribePictures
    <2>3. spent' \in [vision : Nat, text : Nat] /\ (spent'.vision = 2 => seen = "nothing")
      BY <1>3, <2>1 DEF Intake!DescribePictures
    <2>4. IntakeTypes'
      BY <2>2, <2>3 DEF IntakeTypes
    <2>5. SpentInv'
      BY <2>2, <2>3 DEF SpentInv
    <2>6. ProductInv'
      BY <2>1, <2>2 DEF ProductInv
    <2> QED BY <2>4, <2>5, <2>6
  <1> QED BY <1>1, <1>2, <1>3

\* The row, stored and analysed again.
LEMMA RowKeepsIntake ==
    ASSUME IntakeInv,
           Intake!Understand \/ Intake!StoreUndescribed \/ Intake!Reanalyse
    PROVE  IntakeInv'
  <1> USE DEF IntakeInv
  <1>1. /\ step \in {"understand", "store", "created"} /\ step' = "created"
        /\ order' = order /\ seen' = seen /\ Intake!Passes(order)
        /\ order.price \in Prices
    BY DEF Intake!Understand, Intake!StoreUndescribed, Intake!Reanalyse, ProductInv,
           IntakeTypes, Intake!OrderType
  <1>2. spent' \in [vision : Nat, text : Nat] /\ spent'.vision = spent.vision
    <2>1. spent \in [vision : Nat, text : Nat]
      BY DEF IntakeTypes
    <2>2. spent' \in {spent, [spent EXCEPT !.text = @ + 1]}
      BY DEF Intake!Understand, Intake!StoreUndescribed, Intake!Reanalyse
    <2> QED BY <2>1, <2>2
  <1>3. SpentInv'
    BY <1>1, <1>2 DEF SpentInv
  <1>4. ASSUME NEW price \in Prices, NEW said \in {0, 3}, NEW summary \in {"model", "rules"},
               NEW informed \in BOOLEAN,
               product' = Intake!Row(price, said, summary, informed),
               order.price # NoPrice => price = order.price,
               seen = "something" /\ summary = "model" => informed
        PROVE  /\ product' \in [price : Prices, range : 0..6, informed : BOOLEAN,
                                summary : {"none", "model", "rules"}]
               /\ RowTrue'
    <2>1. /\ product'.price = price /\ product'.summary = summary
          /\ product'.informed = informed
          /\ product'.range = IF price = NoPrice THEN said ELSE Intake!Range(price)
      BY <1>4 DEF Intake!Row
    <2>2. product'.range \in 0..6
      BY <2>1, RangeKnown
    <2>3. product' \in [price : Prices, range : 0..6, informed : BOOLEAN,
                        summary : {"none", "model", "rules"}]
      BY <1>4, <2>2 DEF Intake!Row
    <2> QED BY <1>1, <1>4, <2>1, <2>3 DEF RowTrue
  <1>5. CASE Intake!Understand
    <2>1. step = "understand" /\ prompted' = prompted /\ analyses' = analyses
      BY <1>5 DEF Intake!Understand
    <2>2. /\ product' \in [price : Prices, range : 0..6, informed : BOOLEAN,
                           summary : {"none", "model", "rules"}]
          /\ RowTrue'
      <3>1. CASE product' = Intake!Row(order.price, 0, "rules", FALSE)
        BY <1>1, <1>4, <3>1
      <3>2. ASSUME NEW found \in Prices, NEW said \in {0, 3},
                   product' = Intake!Row(Intake!StoredPrice(order.price, found), said,
                                         "model", prompted = "something")
            PROVE  /\ product' \in [price : Prices, range : 0..6, informed : BOOLEAN,
                                    summary : {"none", "model", "rules"}]
                   /\ RowTrue'
        <4> DEFINE price == Intake!StoredPrice(order.price, found)
                   informed == prompted = "something"
        <4>1. price \in Prices /\ (order.price # NoPrice => price = order.price)
          BY <1>1 DEF Intake!StoredPrice
        <4>2. informed \in BOOLEAN /\ (seen = "something" => informed)
          BY <2>1 DEF ProductInv
        <4>3. product' = Intake!Row(price, said, "model", informed)
          BY <3>2
        <4> HIDE DEF price, informed
        <4> QED BY <1>4, <4>1, <4>2, <4>3
      <3> QED BY <1>5, <3>1, <3>2 DEF Intake!Understand
    <2>3. IntakeTypes' /\ ProductInv'
      BY <1>1, <1>2, <2>1, <2>2 DEF IntakeTypes, ProductInv, Intake!Ends
    <2> QED BY <1>3, <2>3
  <1>6. CASE Intake!StoreUndescribed
    <2>1. /\ product' = Intake!Row(order.price, 0, "rules", FALSE) /\ prompted' = prompted
          /\ analyses' = analyses
      BY <1>6 DEF Intake!StoreUndescribed
    <2>2. /\ product' \in [price : Prices, range : 0..6, informed : BOOLEAN,
                           summary : {"none", "model", "rules"}]
          /\ RowTrue'
      BY <1>1, <1>4, <2>1
    <2>3. IntakeTypes' /\ ProductInv'
      BY <1>1, <1>2, <2>1, <2>2 DEF IntakeTypes, ProductInv, Intake!Ends
    <2> QED BY <1>3, <2>3
  <1>7. CASE Intake!Reanalyse
    <2>1. PICK by \in {"model", "rules"} :
              product' = [product EXCEPT !.summary = by, !.informed = FALSE]
      BY <1>7 DEF Intake!Reanalyse
    <2>2. /\ step = "created" /\ prompted' = "nothing" /\ analyses' = analyses + 1
          /\ product \in [price : Prices, range : 0..6, informed : BOOLEAN,
                          summary : {"none", "model", "rules"}]
      BY <1>7 DEF Intake!Reanalyse, IntakeTypes
    <2>3. /\ product' \in [price : Prices, range : 0..6, informed : BOOLEAN,
                           summary : {"none", "model", "rules"}]
          /\ product'.price = product.price /\ product'.range = product.range
      BY <2>1, <2>2
    <2>4. analyses' \in Nat /\ analyses' # 0
      BY <2>2 DEF IntakeTypes
    <2>5. RowTrue'
      BY <1>1, <2>2, <2>3, <2>4 DEF RowTrue, ProductInv
    <2>6. IntakeTypes' /\ ProductInv'
      BY <1>1, <1>2, <2>2, <2>3, <2>4, <2>5 DEF IntakeTypes, ProductInv, Intake!Ends
    <2> QED BY <1>3, <2>6
  <1> QED BY <1>5, <1>6, <1>7

\* Every step keeps IntakeInv.
LEMMA IntakeKeeps ==
    ASSUME IntakeInv, Intake!Next \/ UNCHANGED intakeVars
    PROVE  IntakeInv'
  <1>1. CASE UNCHANGED intakeVars
    BY <1>1 DEF intakeVars, IntakeInv, IntakeTypes, SpentInv, ProductInv, RowTrue
  <1> QED BY <1>1, PicturesKeepIntake, RowKeepsIntake DEF Intake!Next

\* A request that is refused, or that breaks, costs and leaves what it may, and the row of
\* a product is true to the pictures that were read and the price that was given
\* (product_service.py, create_product and generate_summary); what is shown of a picture is
\* as FieldsAlwaysHonest says.
THEOREM IntakeAlwaysHolds == Spec => []IntakeHolds
  <1> DEFINE Inv == part = "intake" => IntakeInv
  <1>1. Init => Inv
    BY IntakeInit DEF Init
  <1>2. Inv /\ [Next]_vars => Inv'
    BY IntakeKeeps, PartSteps
  <1>3. Inv => (part = "intake" => Intake!IntakeSound)
    <2> SUFFICES ASSUME IntakeInv PROVE Intake!IntakeSound
      OBVIOUS
    <2>1. Intake!RefusalIsFree
      BY DEF IntakeInv, SpentInv, ProductInv, Intake!RefusalIsFree, Intake!Passes,
             Intake!ActionFor, Intake!FirstMatch, IntakeTypes, Intake!OrderType
    <2>2. Intake!ProductTrue
      BY DEF IntakeInv, ProductInv, RowTrue, Intake!ProductTrue
    <2> QED BY <2>1, <2>2 DEF Intake!IntakeSound
  <1>4. Spec => [](part = "intake" => Intake!IntakeSound)
    BY <1>1, <1>2, <1>3, PTL DEF Spec
  <1>5. /\ part = "intake" => Intake!IntakeSound
        /\ part = "vision" => Vision!FieldsHonest
        => IntakeHolds
    BY DEF IntakeHolds
  <1> QED BY <1>4, <1>5, FieldsAlwaysHonest, PTL

\* The pictures are read twice at most, and the product is analysed within the bound.
IntakeRest == spent.vision <= 2 /\ analyses <= MaxAnalyses

\* Only two steps read pictures, each once.
LEMMA IntakeRestKept ==
    ASSUME IntakeInv, IntakeRest, Intake!Next \/ UNCHANGED intakeVars
    PROVE  IntakeRest'
  <1>1. /\ MaxAnalyses \in Nat /\ analyses \in Nat
        /\ spent \in [vision : Nat, text : Nat]
    BY ServicesAssumption DEF IntakeInv, IntakeTypes, Intake!IntakeAssumption
  <1>2. CASE UNCHANGED <<spent, analyses>>
    BY <1>2 DEF IntakeRest
  <1>3. CASE Intake!ResolveExtract
    <2>1. spent.vision = 0
      BY <1>3 DEF Intake!ResolveExtract, IntakeInv, SpentInv
    <2>2. spent' = spent \/ spent' = [spent EXCEPT !.vision = @ + 1]
      BY <1>3 DEF Intake!ResolveExtract
    <2> QED BY <1>1, <1>3, <2>1, <2>2 DEF Intake!ResolveExtract, IntakeRest
  <1>4. CASE Intake!DescribePictures
    <2>1. spent.vision <= 1
      BY <1>4 DEF Intake!DescribePictures, IntakeInv, SpentInv
    <2>2. spent' = spent \/ spent' = [spent EXCEPT !.vision = @ + 1]
      BY <1>4 DEF Intake!DescribePictures
    <2> QED BY <1>1, <1>4, <2>1, <2>2 DEF Intake!DescribePictures, IntakeRest
  <1>5. ASSUME spent' = [spent EXCEPT !.text = @ + 1],
               \/ analyses' = analyses
               \/ analyses' = analyses + 1 /\ analyses < MaxAnalyses
        PROVE  IntakeRest'
    BY <1>1, <1>5 DEF IntakeRest
  <1>6. CASE Intake!Understand
    <2>1. spent' = [spent EXCEPT !.text = @ + 1]
      BY <1>6 DEF Intake!Understand
    <2>2. analyses' = analyses
      BY <1>6 DEF Intake!Understand
    <2> QED BY <1>5, <2>1, <2>2
  <1>7. CASE Intake!Reanalyse
    BY <1>5, <1>7 DEF Intake!Reanalyse
  <1>8. CASE Intake!CheckRequest \/ Intake!StoreUndescribed \/ UNCHANGED intakeVars
    BY <1>2, <1>8 DEF Intake!CheckRequest, Intake!StoreUndescribed, intakeVars
  <1> QED BY <1>3, <1>4, <1>6, <1>7, <1>8 DEF Intake!Next

\* The types of the variables of an intake.
LEMMA IntakeTyped == Spec => [](part = "intake" => Intake!TypeOK)
  <1> DEFINE Inv == part = "intake" => IntakeInv /\ IntakeRest
  <1>1. Init => Inv
    <2> SUFFICES ASSUME Intake!Init PROVE IntakeRest
      BY IntakeInit DEF Init
    <2>1. MaxAnalyses \in Nat
      BY ServicesAssumption DEF Intake!IntakeAssumption
    <2> QED BY <2>1 DEF Intake!Init, IntakeRest
  <1>2. Inv /\ [Next]_vars => Inv'
    BY IntakeKeeps, IntakeRestKept, PartSteps
  <1>3. Inv => (part = "intake" => Intake!TypeOK)
    <2> SUFFICES ASSUME IntakeInv, IntakeRest PROVE Intake!TypeOK
      OBVIOUS
    <2>1. spent \in [vision : 0..2, text : Nat] /\ analyses \in 0..MaxAnalyses
      BY ServicesAssumption DEF IntakeInv, IntakeTypes, IntakeRest, Intake!IntakeAssumption
    <2> QED BY <2>1 DEF IntakeInv, IntakeTypes, Intake!TypeOK
  <1> QED BY <1>1, <1>2, <1>3, PTL DEF Spec

-----------------------------------------------------------------------------
(* The pages of a list                                                     *)

\* The types of the variables, rows and offsets without a bound.
PageType == [offset : Nat, items : Seq(Nat), more : BOOLEAN]
WalkType == [pc : {"idle", "ask", "store", "ended"}, offset : Nat, read : PageType,
             seen : SUBSET Nat, owed : SUBSET Nat, mixed : BOOLEAN]
ListTypes ==
    /\ rows \in Seq(Nat) /\ made \in Nat
    /\ writing \in BOOLEAN /\ pagesStale \in BOOLEAN
    /\ pages \in SUBSET PageType
    /\ walk \in [Walks -> WalkType]

\* Unless the cache may be stale, a page that was read is still the page of the list, and
\* so are the cached ones, but for the moment between a commit and its deletion of pages.
PagesInv ==
    ~pagesStale =>
      /\ ~writing => \A p \in pages : p = List!PageAt(p.offset)
      /\ \A w \in Walks : walk[w].pc = "store" => walk[w].read = List!PageAt(walk[w].offset)

\* What walk x has seen of the list: the rows before its offset, or all it is owed.
SeenSoFar(x) ==
    /\ x.pc \in {"ask", "store"} =>
         /\ x.owed = List!Live
         /\ \A i \in 1..Len(rows) : i <= x.offset => rows[i] \in x.seen
    /\ x.pc = "ended" => x.owed \subseteq x.seen

\* A write or a stale page mixes every walk under way, and a walk that is not mixed has
\* the rows of the list before its offset.
WalkInv ==
    \A w \in Walks :
        /\ writing \/ pagesStale => walk[w].pc = "idle" \/ walk[w].mixed
        /\ ~walk[w].mixed => SeenSoFar(walk[w])

ListInv == ListTypes /\ PagesInv /\ WalkInv

\* At first the list is empty and nobody walks.
LEMMA ListInit == List!Init => ListInv
  <1> SUFFICES ASSUME List!Init PROVE ListInv
    OBVIOUS
  <1>1. List!NoPage \in PageType
    BY DEF List!NoPage, PageType
  <1>2. List!Idle \in WalkType /\ List!Idle.pc = "idle"
    BY <1>1 DEF List!Idle, WalkType
  <1>3. ListTypes
    <2>1. rows = <<>> /\ made = 0 /\ pages = {} /\ writing = FALSE /\ pagesStale = FALSE
      BY DEF List!Init
    <2>2. walk \in [Walks -> WalkType]
      BY <1>2 DEF List!Init
    <2>3. rows \in Seq(Nat)
      <3>1. <<>> \in Seq(Nat)
        OBVIOUS
      <3> QED BY <2>1, <3>1
    <2>4. made \in Nat /\ writing \in BOOLEAN /\ pagesStale \in BOOLEAN /\ pages \in SUBSET PageType
      BY <2>1
    <2> QED BY <2>2, <2>3, <2>4 DEF ListTypes
  <1>4. PagesInv /\ WalkInv
    BY <1>2 DEF List!Init, PagesInv, WalkInv, SeenSoFar
  <1> QED BY <1>3, <1>4 DEF ListInv

\* A page of the list has the rows between its offset and the next.
LEMMA PageRows ==
    ASSUME rows \in Seq(Nat), NEW offset \in Nat
    PROVE  /\ List!PageAt(offset) \in PageType
           /\ List!PageAt(offset).offset = offset
           /\ List!PageAt(offset).more <=> Len(rows) > offset + PageSize
           /\ \A i \in 1..Len(rows) : offset < i /\ i <= offset + PageSize
                    => rows[i] \in List!Range(List!PageAt(offset).items)
  <1> DEFINE last == List!Min({offset + PageSize, Len(rows)})
  <1>1. PageSize \in Nat /\ Len(rows) \in Nat
    BY ServicesAssumption DEF List!CatalogueAssumption
  <1>2. last \in {offset + PageSize, Len(rows)} /\ last <= offset + PageSize /\ last <= Len(rows)
    <2>1. \E m \in {offset + PageSize, Len(rows)} :
             \A n \in {offset + PageSize, Len(rows)} : m <= n
      BY <1>1
    <2> QED BY <2>1 DEF List!Min
  <1>3. last \in Nat
    BY <1>1, <1>2
  <1> DEFINE page == SubSeq(rows, offset + 1, last)
  <1>4. List!PageAt(offset) = [offset |-> offset, items |-> page,
                               more |-> Len(rows) > offset + PageSize]
    BY DEF List!PageAt
  <1> HIDE DEF last
  <1>5. page = [j \in 1..(last - offset) |-> rows[j + offset]]
    <2>1. 1 + last - (offset + 1) = last - offset
      BY <1>3
    <2>2. \A j \in Nat : j + (offset + 1) - 1 = j + offset
      OBVIOUS
    <2> QED BY <1>3, <2>1, <2>2
  <1>6. page \in Seq(Nat)
    BY <1>1, <1>2, <1>3
  <1> HIDE DEF page
  <1>7. ASSUME NEW i \in 1..Len(rows), offset < i, i <= offset + PageSize
        PROVE  rows[i] \in List!Range(page)
    <2>1. i - offset \in 1..(last - offset) /\ (i - offset) + offset = i
      BY <1>1, <1>2, <1>3, <1>7
    <2>2. DOMAIN page = 1..(last - offset) /\ page[i - offset] = rows[i]
      BY <1>5, <2>1
    <2> QED BY <2>1, <2>2 DEF List!Range
  <1>8. (Len(rows) > offset + PageSize) \in BOOLEAN
    OBVIOUS
  <1> DEFINE r == List!PageAt(offset)
  <1>9. r.offset = offset /\ r.items = page /\ r.more = (Len(rows) > offset + PageSize)
    BY <1>4
  <1>10. r \in PageType
    BY <1>4, <1>6, <1>8 DEF PageType
  <1> HIDE DEF r
  <1>11. r.more <=> Len(rows) > offset + PageSize
    BY <1>9
  <1>12. \A i \in 1..Len(rows) : offset < i /\ i <= offset + PageSize
                                   => rows[i] \in List!Range(r.items)
    BY <1>7, <1>9
  <1> QED BY <1>9, <1>10, <1>11, <1>12 DEF r

\* The rows of the list, and those without one of them.
LEMMA RowsAreNumbers ==
    ASSUME rows \in Seq(Nat)
    PROVE  /\ List!Live \in SUBSET Nat
           /\ \A i \in DOMAIN rows : List!RemoveAt(rows, i) \in Seq(Nat)
  <1>1. List!Live \in SUBSET Nat
    BY DEF List!Live, List!Range
  <1>2. ASSUME NEW i \in DOMAIN rows PROVE List!RemoveAt(rows, i) \in Seq(Nat)
    <2>1. i \in Nat /\ i >= 1 /\ i <= Len(rows) /\ Len(rows) \in Nat
      BY <1>2
    <2> DEFINE before == SubSeq(rows, 1, i - 1)
               after == SubSeq(rows, i + 1, Len(rows))
    <2>2. before \in Seq(Nat)
      BY <2>1
    <2>3. after \in Seq(Nat)
      BY <2>1
    <2>4. List!RemoveAt(rows, i) = before \o after
      BY DEF List!RemoveAt
    <2> HIDE DEF before, after
    <2> QED BY <2>2, <2>3, <2>4
  <1> QED BY <1>1, <1>2

\* Commits: every walk under way is mixed, and a page that was read is counted as stale.
LEMMA WritesKeepList ==
    ASSUME ListInv, List!Create \/ List!Delete
    PROVE  ListInv'
  <1>1. PICK out : List!Committed(out)
    BY DEF List!Create, List!Delete
  <1>2. rows' \in Seq(Nat) /\ made' \in Nat /\ pages' = pages
    <2>1. CASE List!Create
      <3>1. <<made + 1>> \in Seq(Nat) /\ rows \in Seq(Nat)
        BY DEF ListInv, ListTypes
      <3> QED BY <2>1, <3>1 DEF List!Create, ListInv, ListTypes
    <2>2. CASE List!Delete
      BY <2>2, RowsAreNumbers DEF List!Delete, ListInv, ListTypes
    <2> QED BY <2>1, <2>2
  <1>3. ASSUME NEW w \in Walks
        PROVE  /\ walk'[w] \in WalkType
               /\ walk'[w].pc = walk[w].pc
               /\ walk'[w].pc = "idle" \/ walk'[w].mixed
    <2>1. walk[w] \in WalkType
      BY DEF ListInv, ListTypes
    <2>2. walk'[w] = [walk[w] EXCEPT !.mixed = @ \/ walk[w].pc # "idle", !.owed = @ \ out]
      BY <1>1 DEF List!Committed
    <2> QED BY <2>1, <2>2 DEF WalkType
  <1>4. ListTypes'
    <2>1. walk' \in [Walks -> WalkType]
      BY <1>1, <1>3 DEF List!Committed
    <2> QED BY <1>1, <1>2, <2>1 DEF ListInv, ListTypes, List!Committed
  <1>5. PagesInv'
    <2> SUFFICES ASSUME ~pagesStale', NEW w \in Walks, walk'[w].pc = "store" PROVE FALSE
      BY <1>1 DEF PagesInv, List!Committed
    <2>1. walk[w].pc = "store"
      BY <1>3
    <2> QED BY <1>1, <2>1 DEF List!Committed, List!Reading
  <1>6. WalkInv'
    BY <1>3 DEF WalkInv, SeenSoFar
  <1> QED BY <1>4, <1>5, <1>6 DEF ListInv

\* The deletion of the pages, its failure, and pages that expire.
LEMMA CacheKeepsList ==
    ASSUME ListInv, List!DropPages \/ List!DropFails \/ List!Expire
    PROVE  ListInv'
  <1>1. rows' = rows /\ made' = made /\ walk' = walk
    BY DEF List!DropPages, List!DropFails, List!Expire
  <1>2. ListTypes'
    BY <1>1 DEF ListInv, ListTypes, List!DropPages, List!DropFails, List!Expire
  <1>3. PagesInv'
    <2>1. \A o : List!PageAt(o)' = List!PageAt(o)
      BY <1>1 DEF List!PageAt
    <2>2. CASE List!DropPages
      BY <1>1, <2>1, <2>2 DEF List!DropPages, List!Outdated, ListInv, PagesInv
    <2>3. CASE List!DropFails
      BY <1>1, <2>1, <2>3 DEF List!DropFails, ListInv, ListTypes, PagesInv
    <2>4. CASE List!Expire
      BY <1>1, <2>1, <2>4 DEF List!Expire, List!Reading, ListInv, ListTypes, PagesInv
    <2> QED BY <2>2, <2>3, <2>4
  <1>4. \A w \in Walks : SeenSoFar(walk[w])' <=> SeenSoFar(walk[w])
    BY <1>1 DEF SeenSoFar, List!Live, List!Range
  <1>5. writing' \/ pagesStale' => writing \/ pagesStale
    BY DEF List!DropPages, List!DropFails, List!Expire, ListInv, ListTypes
  <1>6. WalkInv'
    BY <1>1, <1>4, <1>5 DEF ListInv, WalkInv
  <1> QED BY <1>2, <1>3, <1>6 DEF ListInv

\* One walk moves.
LEMMA WalkMoves ==
    ASSUME ListInv, NEW w \in Walks, NEW x \in WalkType, walk' = [walk EXCEPT ![w] = x],
           UNCHANGED <<rows, made, writing, pagesStale>>,
           pages' \in SUBSET PageType, PagesInv',
           writing \/ pagesStale => x.mixed,
           ~x.mixed => SeenSoFar(x)
    PROVE  ListInv'
  <1>1. ListTypes'
    BY DEF ListInv, ListTypes
  <1>2. \A v \in Walks : walk'[v] = IF v = w THEN x ELSE walk[v]
    BY DEF ListInv, ListTypes
  <1>3. \A y : SeenSoFar(y)' <=> SeenSoFar(y)
    BY DEF SeenSoFar, List!Live, List!Range
  <1>4. WalkInv'
    BY <1>2, <1>3 DEF ListInv, WalkInv
  <1> QED BY <1>1, <1>4 DEF ListInv

\* A page of the list as it is answers the rows up to the next offset, the last one all.
LEMMA ServedKeepsList ==
    ASSUME ListInv, NEW w \in Walks, NEW page \in PageType, walk[w].pc \in {"ask", "store"},
           List!Served(w, page), UNCHANGED <<rows, made, writing, pagesStale>>,
           ~pagesStale /\ ~writing => page = List!PageAt(walk[w].offset),
           pages' \in SUBSET PageType,
           ~pagesStale => \A p \in pages' : p \in pages \/ p = List!PageAt(walk[w].offset)
    PROVE  ListInv'
  <1> DEFINE x == [walk[w] EXCEPT !.seen = @ \cup List!Range(page.items),
                                  !.offset = IF page.more THEN @ + PageSize ELSE 0,
                                  !.read = List!NoPage,
                                  !.pc = IF page.more THEN "ask" ELSE "ended",
                                  !.mixed = @ \/ pagesStale]
             o == walk[w].offset
  <1>1. walk' = [walk EXCEPT ![w] = x]
    BY DEF List!Served
  <1>2. /\ PageSize \in Nat /\ PageSize > 0 /\ rows \in Seq(Nat) /\ Len(rows) \in Nat
        /\ walk[w] \in WalkType /\ o \in Nat
    BY ServicesAssumption DEF List!CatalogueAssumption, ListInv, ListTypes, WalkType
  <1>3. /\ x \in WalkType
        /\ x.seen = walk[w].seen \cup List!Range(page.items) /\ x.owed = walk[w].owed
        /\ x.offset = IF page.more THEN o + PageSize ELSE 0
        /\ x.pc = IF page.more THEN "ask" ELSE "ended"
        /\ x.mixed <=> walk[w].mixed \/ pagesStale
    <2>1. List!NoPage \in PageType
      BY DEF List!NoPage, PageType
    <2>2. List!Range(page.items) \in SUBSET Nat
      BY DEF PageType, List!Range
    <2>3. (IF page.more THEN o + PageSize ELSE 0) \in Nat
      BY <1>2
    <2> QED BY <1>2, <2>1, <2>2, <2>3 DEF WalkType
  <1> HIDE DEF x
  <1>4. PagesInv'
    <2>1. \A v \in Walks : walk'[v].pc = "store" => walk'[v] = walk[v]
      BY <1>1, <1>3 DEF ListInv, ListTypes
    <2>2. \A p : List!PageAt(p)' = List!PageAt(p)
      BY DEF List!PageAt
    <2>3. List!PageAt(o).offset = o
      BY <1>2, PageRows
    <2> QED BY <2>1, <2>2, <2>3 DEF ListInv, PagesInv
  <1>5. ASSUME ~x.mixed PROVE SeenSoFar(x)
    <2>1. /\ ~walk[w].mixed /\ ~pagesStale /\ ~writing
          /\ SeenSoFar(walk[w])
      BY <1>3, <1>5 DEF ListInv, WalkInv
    <2>2. page = List!PageAt(o) /\ x.owed = List!Live
      BY <1>3, <2>1 DEF SeenSoFar
    <2>3. page.more <=> Len(rows) > o + PageSize
      BY <1>2, <2>2, PageRows
    <2>4. ASSUME NEW i \in 1..Len(rows), i <= o + PageSize
          PROVE  rows[i] \in x.seen
      <3>1. CASE i <= o
        BY <1>3, <2>1, <3>1 DEF SeenSoFar
      <3>2. CASE o < i
        BY <1>2, <1>3, <2>2, <2>4, <3>2, PageRows
      <3> QED BY <1>2, <3>1, <3>2
    <2> HIDE DEF o
    <2>5. CASE page.more
      BY <1>3, <2>2, <2>4, <2>5 DEF SeenSoFar
    <2>6. CASE ~page.more
      <3>1. \A i \in 1..Len(rows) : rows[i] \in x.seen
        BY <1>2, <2>3, <2>4, <2>6
      <3>2. List!Live \subseteq x.seen
        BY <1>2, <3>1 DEF List!Live, List!Range
      <3> QED BY <1>3, <2>2, <2>6, <3>2 DEF SeenSoFar
    <2> QED BY <2>5, <2>6
  <1>6. writing \/ pagesStale => x.mixed
    BY <1>3 DEF ListInv, WalkInv
  <1> QED BY <1>1, <1>3, <1>4, <1>5, <1>6, WalkMoves

\* A walk begins, reads a page from the cache or the table, and has it answered.
LEMMA WalksKeepList ==
    ASSUME ListInv, NEW w \in Walks, List!WalkStep(w)
    PROVE  ListInv'
  <1>1. /\ \A o : List!PageAt(o)' = List!PageAt(o)
        /\ UNCHANGED <<rows, made, writing, pagesStale>>
    BY DEF List!WalkStep, List!Begin, List!CacheHit, List!CacheMiss, List!Store,
           List!StoreFails, List!PageAt
  <1>2. /\ walk[w] \in WalkType /\ rows \in Seq(Nat) /\ pages \in SUBSET PageType
        /\ writing \in BOOLEAN /\ pagesStale \in BOOLEAN
    BY DEF ListInv, ListTypes
  <1>3. CASE List!Begin(w)
    <2> DEFINE x == [List!Idle EXCEPT !.pc = "ask", !.owed = List!Live,
                                      !.mixed = writing \/ pagesStale]
    <2>1. walk' = [walk EXCEPT ![w] = x] /\ pages' = pages
      BY <1>3 DEF List!Begin
    <2>2. /\ x \in WalkType /\ x.pc = "ask" /\ x.owed = List!Live /\ x.offset = 0
          /\ x.mixed <=> writing \/ pagesStale
      <3>1. List!NoPage \in PageType
        BY DEF List!NoPage, PageType
      <3>2. List!Live \in SUBSET Nat
        BY <1>2, RowsAreNumbers
      <3> QED BY <1>2, <3>1, <3>2 DEF List!Idle, WalkType
    <2> HIDE DEF x
    <2>3. PagesInv'
      <3>1. \A v \in Walks : walk'[v].pc = "store" => walk'[v] = walk[v]
        BY <2>1, <2>2 DEF ListInv, ListTypes
      <3> QED BY <1>1, <2>1, <3>1 DEF ListInv, PagesInv
    <2>4. SeenSoFar(x)
      BY <2>2 DEF SeenSoFar
    <2> QED BY <1>1, <1>2, <2>1, <2>2, <2>3, <2>4, WalkMoves
  <1>4. CASE List!CacheHit(w)
    <2>1. PICK p \in pages : p.offset = walk[w].offset /\ List!Served(w, p)
      BY <1>4 DEF List!CacheHit
    <2>2. ~pagesStale /\ ~writing => p = List!PageAt(walk[w].offset)
      BY <2>1 DEF ListInv, PagesInv
    <2> QED BY <1>1, <1>2, <1>4, <2>1, <2>2, ServedKeepsList DEF List!CacheHit
  <1>5. CASE List!CacheMiss(w)
    <2> DEFINE read == List!PageAt(walk[w].offset)
               x == [walk[w] EXCEPT !.pc = "store", !.read = read]
    <2>1. walk' = [walk EXCEPT ![w] = x] /\ pages' = pages /\ walk[w].pc = "ask"
      BY <1>5 DEF List!CacheMiss
    <2>2. walk[w].offset \in Nat
      BY <1>2 DEF WalkType
    <2>3. read \in PageType
      BY <1>2, <2>2, PageRows
    <2> HIDE DEF read
    <2>4. /\ x \in WalkType /\ x.pc = "store" /\ x.owed = walk[w].owed
          /\ x.offset = walk[w].offset /\ x.seen = walk[w].seen /\ x.mixed = walk[w].mixed
          /\ x.read = read
      BY <1>2, <2>3 DEF WalkType
    <2> HIDE DEF x
    <2>5. PagesInv'
      <3>1. \A v \in Walks : walk'[v] = walk[v] \/ walk'[v] = x
        BY <2>1 DEF ListInv, ListTypes
      <3> QED BY <1>1, <2>1, <2>4, <3>1 DEF ListInv, PagesInv, read
    <2>6. ~x.mixed => SeenSoFar(x)
      BY <2>1, <2>4 DEF ListInv, WalkInv, SeenSoFar
    <2>7. writing \/ pagesStale => x.mixed
      BY <2>1, <2>4 DEF ListInv, WalkInv
    <2> QED BY <1>1, <1>2, <2>1, <2>4, <2>5, <2>6, <2>7, WalkMoves
  <1>6. CASE List!Store(w) \/ List!StoreFails(w)
    <2>1. /\ walk[w].pc = "store" /\ List!Served(w, walk[w].read)
          /\ \A p \in pages' : p \in pages \/ p = walk[w].read
      BY <1>6 DEF List!Store, List!StoreFails
    <2>2. ~pagesStale => walk[w].read = List!PageAt(walk[w].offset)
      BY <2>1 DEF ListInv, PagesInv
    <2>3. walk[w].read \in PageType
      BY <1>2 DEF WalkType
    <2> QED BY <1>1, <1>2, <2>1, <2>2, <2>3, ServedKeepsList
  <1> QED BY <1>3, <1>4, <1>5, <1>6 DEF List!WalkStep

\* Every step keeps ListInv.
LEMMA ListKeeps ==
    ASSUME ListInv, List!Next \/ UNCHANGED listVars
    PROVE  ListInv'
  <1>1. CASE UNCHANGED listVars
    <2>1. \A o : List!PageAt(o)' = List!PageAt(o)
      BY <1>1 DEF listVars, List!PageAt
    <2>2. \A y : SeenSoFar(y)' <=> SeenSoFar(y)
      BY <1>1 DEF listVars, SeenSoFar, List!Live, List!Range
    <2> QED BY <1>1, <2>1, <2>2 DEF listVars, ListInv, ListTypes, PagesInv, WalkInv
  <1> QED BY <1>1, WritesKeepList, CacheKeepsList, WalksKeepList DEF List!Next

\* A walk over the pages that no write, no stale page and no failure crossed has seen every
\* row that was listed when it began (routers/product.py, list_products; routers/persona.py).
THEOREM WalkAlwaysSeesAll == Spec => [](part = "list" => List!WalkSeesAll)
  <1> DEFINE Inv == part = "list" => ListInv
  <1>1. Init => Inv
    BY ListInit DEF Init
  <1>2. Inv /\ [Next]_vars => Inv'
    BY ListKeeps, PartSteps
  <1>3. Inv => (part = "list" => List!WalkSeesAll)
    BY DEF ListInv, WalkInv, SeenSoFar, List!WalkSeesAll
  <1> QED BY <1>1, <1>2, <1>3, PTL DEF Spec

\* The bounds of what is listed, read and seen: rows are numbered from 1, and the next
\* page is asked for only where there is more.
Rows == 1..MaxRows
PageBounded(p) ==
    /\ p.items \in Seq(Rows) /\ p.offset <= MaxRows
    /\ p.more => p.offset + PageSize <= MaxRows
WalkBounded(x) ==
    /\ PageBounded(x.read) /\ x.offset <= MaxRows
    /\ x.pc = "store" => x.read.offset = x.offset
    /\ x.seen \subseteq Rows /\ x.owed \subseteq Rows
ListRest ==
    /\ rows \in Seq(Rows) /\ Len(rows) <= made /\ made <= MaxRows
    /\ \A p \in pages : PageBounded(p)
    /\ \A w \in Walks : WalkBounded(walk[w])

\* The numbers of the bounds.
LEMMA ListNumbers == PageSize \in Nat /\ MaxRows \in Nat
  BY ServicesAssumption DEF List!CatalogueAssumption

\* What a page of the list holds are rows.
LEMMA PagesBounded ==
    ASSUME rows \in Seq(Rows), Len(rows) <= MaxRows, NEW offset \in Nat, offset <= MaxRows
    PROVE  PageBounded(List!PageAt(offset))
  <1> DEFINE last == List!Min({offset + PageSize, Len(rows)})
             page == SubSeq(rows, offset + 1, last)
             more == Len(rows) > offset + PageSize
  <1>1. Len(rows) \in Nat
    OBVIOUS
  <1>2. last \in Nat /\ last <= Len(rows)
    <2>1. \E m \in {offset + PageSize, Len(rows)} :
             \A n \in {offset + PageSize, Len(rows)} : m <= n
      BY <1>1, ListNumbers
    <2> QED BY <1>1, <2>1, ListNumbers DEF List!Min
  <1>3. List!PageAt(offset) = [offset |-> offset, items |-> page, more |-> more]
    BY DEF List!PageAt
  <1> HIDE DEF last
  <1>4. page \in Seq(Rows)
    <2> HIDE DEF Rows
    <2> QED BY <1>1, <1>2
  <1>5. more => offset + PageSize <= MaxRows
    BY <1>1, ListNumbers
  <1> HIDE DEF page, more
  <1> QED BY <1>3, <1>4, <1>5 DEF PageBounded

\* The rows that a page holds, and those of a list without one.
LEMMA RowsOfPage ==
    ASSUME NEW S, NEW seq \in Seq(S)
    PROVE  /\ List!Range(seq) \subseteq S
           /\ \A i \in DOMAIN seq : /\ List!RemoveAt(seq, i) \in Seq(S)
                                    /\ Len(List!RemoveAt(seq, i)) <= Len(seq)
  <1>1. List!Range(seq) \subseteq S
    BY DEF List!Range
  <1>2. ASSUME NEW i \in DOMAIN seq
        PROVE  /\ List!RemoveAt(seq, i) \in Seq(S)
               /\ Len(List!RemoveAt(seq, i)) <= Len(seq)
    <2>1. i \in Nat /\ i >= 1 /\ i <= Len(seq) /\ Len(seq) \in Nat
      BY <1>2
    <2> DEFINE before == SubSeq(seq, 1, i - 1)
               after == SubSeq(seq, i + 1, Len(seq))
    <2>2. before \in Seq(S) /\ Len(before) = i - 1
      BY <2>1
    <2>3. after \in Seq(S) /\ Len(after) = Len(seq) - i
      BY <2>1
    <2>4. List!RemoveAt(seq, i) = before \o after
      BY DEF List!RemoveAt
    <2> HIDE DEF before, after
    <2>5. before \o after \in Seq(S) /\ Len(before \o after) = Len(before) + Len(after)
      BY <2>2, <2>3
    <2> QED BY <2>1, <2>2, <2>3, <2>4, <2>5
  <1> QED BY <1>1, <1>2

\* A page that is served leads to the next within the bounds.
LEMMA ServedBounded ==
    ASSUME ListTypes, ListRest, NEW w \in Walks, NEW page \in PageType,
           PageBounded(page), page.offset = walk[w].offset, List!Served(w, page)
    PROVE  \A v \in Walks : WalkBounded(walk'[v])
  <1> DEFINE known == walk[w].seen \cup List!Range(page.items)
             offset == IF page.more THEN walk[w].offset + PageSize ELSE 0
             x == [walk[w] EXCEPT !.seen = @ \cup List!Range(page.items),
                                  !.offset = IF page.more THEN @ + PageSize ELSE 0,
                                  !.read = List!NoPage,
                                  !.pc = IF page.more THEN "ask" ELSE "ended",
                                  !.mixed = @ \/ pagesStale]
  <1>1. \A v \in Walks : walk'[v] = IF v = w THEN x ELSE walk[v]
    BY DEF ListTypes, List!Served
  <1>2. /\ x.seen = known /\ x.owed = walk[w].owed /\ x.offset = offset
        /\ x.read = List!NoPage /\ x.pc # "store"
    BY DEF ListTypes, WalkType
  <1>3. offset <= MaxRows
    BY ListNumbers DEF PageBounded
  <1>4. known \subseteq Rows
    <2>1. List!Range(page.items) \subseteq Rows
      BY RowsOfPage DEF PageBounded
    <2> QED BY <2>1 DEF ListRest, WalkBounded
  <1>5. PageBounded(List!NoPage)
    <2>1. <<>> \in Seq(Rows)
      OBVIOUS
    <2> QED BY <2>1, ListNumbers DEF PageBounded, List!NoPage
  <1> HIDE DEF x, known, offset
  <1>6. WalkBounded(x)
    BY <1>2, <1>3, <1>4, <1>5 DEF ListRest, WalkBounded
  <1> QED BY <1>1, <1>6 DEF ListRest

\* Commits create rows within the bound and take rows away.
LEMMA WritesBounded ==
    ASSUME ListTypes, ListRest, List!Create \/ List!Delete
    PROVE  ListRest'
  <1>1. PICK out : List!Committed(out)
    BY DEF List!Create, List!Delete
  <1>2. \A w \in Walks : WalkBounded(walk'[w])
    <2> SUFFICES ASSUME NEW w \in Walks PROVE WalkBounded(walk'[w])
      OBVIOUS
    <2>1. walk'[w] = [walk[w] EXCEPT !.mixed = @ \/ walk[w].pc # "idle", !.owed = @ \ out]
      BY <1>1 DEF List!Committed
    <2>2. /\ walk'[w].read = walk[w].read /\ walk'[w].offset = walk[w].offset
          /\ walk'[w].pc = walk[w].pc /\ walk'[w].seen = walk[w].seen
          /\ walk'[w].owed = walk[w].owed \ out
      BY <2>1 DEF ListTypes, WalkType
    <2> QED BY <2>2 DEF ListRest, WalkBounded
  <1>3. pages' = pages
    BY DEF List!Create, List!Delete
  <1>4. rows' \in Seq(Rows) /\ Len(rows') <= made' /\ made' <= MaxRows
    <2>1. CASE List!Create
      <3>1. made' = made + 1 /\ rows' = <<made + 1>> \o rows /\ made < MaxRows /\ made \in Nat
        BY <2>1 DEF List!Create, ListTypes
      <3>2. made + 1 \in Rows
        BY <3>1, ListNumbers DEF Rows
      <3> HIDE DEF Rows
      <3>3. rows \in Seq(Rows) /\ Len(rows) <= made
        BY DEF ListRest
      <3>4. rows' \in Seq(Rows) /\ Len(rows') = 1 + Len(rows)
        BY <3>1, <3>2, <3>3
      <3> QED BY <3>1, <3>3, <3>4, ListNumbers
    <2>2. CASE List!Delete
      <3>1. PICK i \in DOMAIN rows : rows' = List!RemoveAt(rows, i) /\ made' = made
        BY <2>2 DEF List!Delete
      <3>2. rows' \in Seq(Rows) /\ Len(rows') <= Len(rows)
        BY <3>1, RowsOfPage DEF ListRest
      <3>3. Len(rows) \in Nat /\ Len(rows') \in Nat /\ made \in Nat
        BY <3>2 DEF ListRest, ListTypes
      <3> QED BY <3>1, <3>2, <3>3 DEF ListRest
    <2> QED BY <2>1, <2>2
  <1> QED BY <1>2, <1>3, <1>4 DEF ListRest

\* A walk stays within the bounds.
LEMMA WalksBounded ==
    ASSUME ListTypes, ListRest, NEW w \in Walks, List!WalkStep(w)
    PROVE  ListRest'
  <1>1. UNCHANGED <<rows, made>>
    BY DEF List!WalkStep, List!Begin, List!CacheHit, List!CacheMiss, List!Store,
           List!StoreFails
  <1>2. /\ walk[w] \in WalkType /\ WalkBounded(walk[w]) /\ Len(rows) \in Nat /\ made \in Nat
        /\ rows \in Seq(Rows) /\ Len(rows) <= MaxRows /\ pages \subseteq PageType
    BY ListNumbers DEF ListTypes, ListRest
  <1>3. ASSUME \A v \in Walks : WalkBounded(walk'[v]), \A p \in pages' : PageBounded(p)
        PROVE  ListRest'
    BY <1>1, <1>3 DEF ListRest
  <1>4. ASSUME NEW x, walk' = [walk EXCEPT ![w] = x], WalkBounded(x), pages' = pages
        PROVE  ListRest'
    <2>1. \A v \in Walks : walk'[v] = IF v = w THEN x ELSE walk[v]
      BY <1>4 DEF ListTypes
    <2> QED BY <1>3, <1>4, <2>1 DEF ListRest
  <1>5. CASE List!Begin(w)
    <2> DEFINE x == [List!Idle EXCEPT !.pc = "ask", !.owed = List!Live,
                                      !.mixed = writing \/ pagesStale]
    <2>1. walk' = [walk EXCEPT ![w] = x] /\ pages' = pages
      BY <1>5 DEF List!Begin
    <2>2. /\ x.read = List!NoPage /\ x.offset = 0 /\ x.pc = "ask" /\ x.seen = {}
          /\ x.owed = List!Live
      BY DEF List!Idle
    <2>3. List!Live \subseteq Rows
      BY <1>2, RowsOfPage DEF List!Live
    <2>4. PageBounded(List!NoPage)
      <3>1. <<>> \in Seq(Rows)
        OBVIOUS
      <3> QED BY <3>1, ListNumbers DEF PageBounded, List!NoPage
    <2> HIDE DEF x
    <2>5. WalkBounded(x)
      BY <2>2, <2>3, <2>4, ListNumbers DEF WalkBounded
    <2> QED BY <1>4, <2>1, <2>5
  <1>6. CASE List!CacheHit(w)
    <2>1. PICK p \in pages : p.offset = walk[w].offset /\ List!Served(w, p)
      BY <1>6 DEF List!CacheHit
    <2>2. p \in PageType /\ PageBounded(p) /\ pages' = pages
      BY <1>2, <1>6 DEF ListRest, List!CacheHit
    <2>3. \A v \in Walks : WalkBounded(walk'[v])
      BY <2>1, <2>2, ServedBounded
    <2> QED BY <1>3, <2>2, <2>3 DEF ListRest
  <1>7. CASE List!CacheMiss(w)
    <2> DEFINE read == List!PageAt(walk[w].offset)
               x == [walk[w] EXCEPT !.pc = "store", !.read = read]
    <2>1. walk' = [walk EXCEPT ![w] = x] /\ pages' = pages
      BY <1>7 DEF List!CacheMiss
    <2>2. walk[w].offset \in Nat /\ walk[w].offset <= MaxRows
      BY <1>2 DEF WalkType, WalkBounded
    <2>3. PageBounded(read)
      BY <1>2, <2>2, PagesBounded
    <2>4. read.offset = walk[w].offset
      BY DEF List!PageAt
    <2> HIDE DEF read
    <2>5. /\ x.read = read /\ x.offset = walk[w].offset /\ x.seen = walk[w].seen
          /\ x.owed = walk[w].owed
      BY <1>2 DEF WalkType
    <2> HIDE DEF x
    <2>6. WalkBounded(x)
      BY <1>2, <2>3, <2>4, <2>5 DEF WalkBounded
    <2> QED BY <1>4, <2>1, <2>6
  <1>8. CASE List!Store(w) \/ List!StoreFails(w)
    <2> DEFINE page == walk[w].read
    <2>1. /\ walk[w].pc = "store" /\ List!Served(w, page)
          /\ \A p \in pages' : p \in pages \/ p = page
      BY <1>8 DEF List!Store, List!StoreFails
    <2>2. page \in PageType /\ PageBounded(page) /\ page.offset = walk[w].offset
      BY <1>2, <2>1 DEF WalkType, WalkBounded
    <2> HIDE DEF page
    <2>3. \A v \in Walks : WalkBounded(walk'[v])
      BY <2>1, <2>2, ServedBounded
    <2>4. \A p \in pages' : PageBounded(p)
      BY <2>1, <2>2 DEF ListRest
    <2> QED BY <1>3, <2>3, <2>4
  <1> QED BY <1>5, <1>6, <1>7, <1>8 DEF List!WalkStep

\* Every step keeps the bounds.
LEMMA ListRestKept ==
    ASSUME ListTypes, ListRest, List!Next \/ UNCHANGED listVars
    PROVE  ListRest'
  <1>1. CASE UNCHANGED listVars
    BY <1>1 DEF listVars, ListRest
  <1>2. CASE List!DropPages \/ List!DropFails \/ List!Expire
    <2>1. UNCHANGED <<rows, made, walk>> /\ pages' \subseteq pages
      BY <1>2 DEF List!DropPages, List!DropFails, List!Expire
    <2> QED BY <2>1 DEF ListRest
  <1> QED BY <1>1, <1>2, WritesBounded, WalksBounded DEF List!Next

\* The types of the variables of a list.
LEMMA ListTyped == Spec => [](part = "list" => List!TypeOK)
  <1> DEFINE Inv == part = "list" => ListInv /\ ListRest
  <1>1. Init => Inv
    <2> SUFFICES ASSUME List!Init PROVE ListRest
      BY ListInit DEF Init
    <2>1. rows = <<>> /\ made = 0 /\ pages = {} /\ \A w \in Walks : walk[w] = List!Idle
      BY DEF List!Init
    <2>2. <<>> \in Seq(Rows)
      OBVIOUS
    <2>3. PageBounded(List!NoPage)
      BY <2>2, ListNumbers DEF PageBounded, List!NoPage
    <2>4. WalkBounded(List!Idle)
      BY <2>3, ListNumbers DEF WalkBounded, List!Idle
    <2>5. rows \in Seq(Rows) /\ Len(rows) <= made /\ made <= MaxRows
      BY <2>1, <2>2, ListNumbers
    <2> QED BY <2>1, <2>4, <2>5 DEF ListRest
  <1>2. Inv /\ [Next]_vars => Inv'
    BY ListKeeps, ListRestKept, PartSteps DEF ListInv
  <1>3. Inv => (part = "list" => List!TypeOK)
    <2> SUFFICES ASSUME ListTypes, ListRest PROVE List!TypeOK
      BY DEF ListInv
    <2>1. ASSUME NEW p \in PageType, PageBounded(p) PROVE p \in List!Page
      <3>1. p.offset \in 0..MaxRows
        BY <2>1, ListNumbers DEF PageType, PageBounded
      <3> QED BY <2>1, <3>1 DEF PageType, PageBounded, List!Page, Rows
    <2>2. \A p \in pages : p \in List!Page
      BY <2>1 DEF ListTypes, ListRest
    <2>3. ASSUME NEW w \in Walks
          PROVE  /\ walk[w].pc \in {"idle", "ask", "store", "ended"}
                 /\ walk[w].read \in List!Page
                 /\ walk[w].seen \cup walk[w].owed \subseteq 1..MaxRows
                 /\ walk[w].mixed \in BOOLEAN
      <3>1. walk[w] \in WalkType /\ WalkBounded(walk[w])
        BY DEF ListTypes, ListRest
      <3> QED BY <2>1, <3>1 DEF WalkType, WalkBounded, Rows
    <2>4. made \in 0..MaxRows
      BY ListNumbers DEF ListTypes, ListRest
    <2> QED BY <2>2, <2>3, <2>4 DEF ListTypes, ListRest, List!TypeOK, Rows
  <1> QED BY <1>1, <1>2, <1>3, PTL DEF Spec

-----------------------------------------------------------------------------
(* A few personas of a list                                                *)

\* What the two modules define the same.
LEMMA AdviceSame == /\ \A s, S : Advice!Only(s, S) = Only(s, S)
                    /\ \A body, base, s : Advice!Fold(body, base, s) = Fold(body, base, s)
  <1>1. \A body, base, s : Advice!Fold(body, base, s) = Fold(body, base, s)
    BY DEF Advice!Fold, Fold
  <1>2. \A s, S : Advice!Only(s, S) = Only(s, S)
    BY <1>1 DEF Advice!Only, Only
  <1> QED BY <1>1, <1>2

\* The lesser and the greater of two numbers.
LEMMA AdviceBounds ==
    ASSUME NEW a \in Int, NEW b \in Int
    PROVE  /\ Advice!Min({a, b}) = IF a <= b THEN a ELSE b
           /\ Advice!Max({a, b}) \in Int /\ a <= Advice!Max({a, b})
  <1>1. Advice!Min({a, b}) = IF a <= b THEN a ELSE b
    <2> DEFINE z == Advice!Min({a, b})
    <2>1. \E x \in {a, b} : \A y \in {a, b} : x <= y
      OBVIOUS
    <2>2. z \in {a, b} /\ \A y \in {a, b} : z <= y
      BY <2>1 DEF Advice!Min
    <2> HIDE DEF z
    <2>3. z = IF a <= b THEN a ELSE b
      BY <2>2
    <2> QED BY <2>3 DEF z
  <1>2. Advice!Max({a, b}) \in Int /\ a <= Advice!Max({a, b})
    <2> DEFINE z == Advice!Max({a, b})
    <2>1. \E x \in {a, b} : \A y \in {a, b} : x >= y
      OBVIOUS
    <2>2. z \in {a, b} /\ \A y \in {a, b} : z >= y
      BY <2>1 DEF Advice!Max
    <2> HIDE DEF z
    <2>3. z \in Int /\ a <= z
      BY <2>2
    <2> QED BY <2>3 DEF z
  <1> QED BY <1>1, <1>2

\* A cut keeps the beginning.
LEMMA AdviceCut ==
    ASSUME NEW C, NEW s \in Seq(C), NEW n \in Nat
    PROVE  /\ Advice!First(n, s) \in Seq(C)
           /\ Len(Advice!First(n, s)) = IF n <= Len(s) THEN n ELSE Len(s)
           /\ \A k \in DOMAIN Advice!First(n, s) : k \in DOMAIN s /\ Advice!First(n, s)[k] = s[k]
           /\ Once(s) => Once(Advice!First(n, s))
  <1> DEFINE m == IF n <= Len(s) THEN n ELSE Len(s)
             head == SubSeq(s, 1, m)
  <1>1. Len(s) \in Nat /\ m \in Nat /\ m <= Len(s) /\ DOMAIN s = 1..Len(s)
    OBVIOUS
  <1>2. Advice!First(n, s) = head
    <2>1. Advice!Min({n, Len(s)}) = m
      <3>1. \A a, b \in Int : Advice!Min({a, b}) = IF a <= b THEN a ELSE b
        BY AdviceBounds
      <3>2. n \in Int /\ Len(s) \in Int
        BY <1>1
      <3> QED BY <3>1, <3>2, Zenon
    <2> QED BY <2>1 DEF Advice!First
  <1>3. m = IF n <= Len(s) THEN n ELSE Len(s)
    OBVIOUS
  <1> HIDE DEF m
  <1>4. head \in Seq(C) /\ Len(head) = m /\ DOMAIN head = 1..m /\ \A k \in 1..m : head[k] = s[k]
    BY <1>1
  <1> HIDE DEF head
  <1>5. \A k \in DOMAIN head : k \in DOMAIN s /\ head[k] = s[k]
    BY <1>1, <1>4
  <1>6. Once(s) => Once(head)
    BY <1>5 DEF Once
  <1> QED BY <1>2, <1>3, <1>4, <1>5, <1>6

\* The order: every persona once.
LEMMA AdviceOrder ==
    ASSUME personas \in Seq(Advice!Persona)
    PROVE  /\ Advice!Ordered \in Seq(DOMAIN personas) /\ Once(Advice!Ordered)
           /\ Len(Advice!Ordered) = Len(personas)
           /\ Members(Advice!Ordered) = DOMAIN personas
  <1> DEFINE D == DOMAIN personas
             all == Advice!Places
             M == Advice!Matching
             s == Only(all, M)
             t == Only(all, D \ M)
  <1>1. /\ D = 1..Len(personas) /\ Len(personas) \in Nat
        /\ all \in Seq(D) /\ Once(all) /\ Members(all) = D
    <2>1. D = 1..Len(personas) /\ Len(personas) \in Nat
      OBVIOUS
    <2>2. all = [n \in 1..Len(personas) |-> n]
      BY <2>1 DEF Advice!Places
    <2>3. Once([n \in 1..Len(personas) |-> n])
      BY DEF Once
    <2>4. [n \in 1..Len(personas) |-> n] \in Seq(1..Len(personas))
      BY <2>1
    <2>5. Members(all) = D
      BY <2>1, <2>2 DEF Members
    <2> QED BY <2>1, <2>2, <2>3, <2>4, <2>5
  <1>2. M \subseteq D
    BY DEF Advice!Matching
  <1>3. Advice!Ordered = s \o t
    BY AdviceSame DEF Advice!Ordered
  <1> HIDE DEF D, all, M
  <1>4. /\ s \in Seq(D) /\ Once(s) /\ Members(s) = M
        /\ t \in Seq(D) /\ Once(t) /\ Members(t) = D \ M
    <2>1. /\ s \in Seq(D) /\ Once(s)
          /\ Members(s) = Members(all) \cap M
      BY <1>1, OnlyOnce
    <2>2. /\ t \in Seq(D) /\ Once(t)
          /\ Members(t) = Members(all) \cap (D \ M)
      BY <1>1, OnlyOnce
    <2> HIDE DEF s, t
    <2> QED BY <1>1, <1>2, <2>1, <2>2
  <1> DEFINE o == s \o t
  <1>5. o \in Seq(D) /\ Once(o) /\ Members(o) = D
    <2> HIDE DEF s, t
    <2>1. \A j \in DOMAIN s, k \in DOMAIN t : s[j] # t[k]
      BY <1>4 DEF Members
    <2>2. /\ o \in Seq(D) /\ Once(o)
          /\ Members(o) = Members(s) \cup Members(t)
      BY <1>4, <2>1, JoinOnce
    <2> QED BY <1>2, <1>4, <2>2
  <1> HIDE DEF o
  <1>6. Len(o) = Len(personas)
    <2>1. Cardinality(D) = Len(o)
      BY <1>5, OnceSize
    <2>2. Cardinality(D) = Len(personas)
      <3>1. \A b \in Int : Cardinality(1..b) = IF 1 > b THEN 0 ELSE b - 1 + 1
        BY FS_Interval
      <3>2. Len(personas) \in Int
        BY <1>1
      <3>3. Cardinality(D) = IF 1 > Len(personas) THEN 0 ELSE Len(personas) - 1 + 1
        BY <1>1, <3>1, <3>2, Zenon
      <3> QED BY <1>1, <3>3
    <2> QED BY <2>1, <2>2
  <1> QED BY <1>3, <1>5, <1>6 DEF D, o

\* Mending takes selections to selections.
LEMMA AdviceBody ==
    ASSUME NEW D, NEW K \in SUBSET D, NEW asked \in Nat \ {0}, NEW base \in Seq(D), NEW body,
           body = [c \in K |-> [sel \in Seq(D) |-> Advice!Place(sel, c, asked)]]
    PROVE  IsBody(body, base, Seq(D), K)
  <1> DEFINE T == Seq(D)
  <1>1. ASSUME NEW c \in K, NEW sel \in T PROVE Advice!Place(sel, c, asked) \in T
    <2>1. c \in D /\ Len(sel) \in Nat
      OBVIOUS
    <2>2. CASE Len(sel) >= asked
      <3>1. Len(sel) \in 1..Len(sel)
        BY <2>1, <2>2
      <3>2. [sel EXCEPT ![Len(sel)] = c] \in Seq(D)
        BY <2>1, <3>1
      <3> QED BY <2>2, <3>2 DEF Advice!Place
    <2>3. CASE ~(Len(sel) >= asked)
      <3>1. Append(sel, c) \in Seq(D)
        BY <2>1
      <3> QED BY <2>3, <3>1 DEF Advice!Place
    <2> QED BY <2>2, <2>3
  <1>2. IsBody(body, base, T, K)
    <2>1. \A c \in K : [sel \in T |-> Advice!Place(sel, c, asked)] \in [T -> T]
      BY <1>1
    <2> HIDE DEF T
    <2>2. body \in [K -> [T -> T]] /\ base \in T
      BY <2>1 DEF T
    <2> QED BY <2>2 DEF IsBody
  <1> QED BY <1>2

AdviceMends(body, base, asked, K) ==
    \A q \in Seq(K) : Fold(body, base, q) =
        IF q = <<>> THEN base ELSE [base EXCEPT ![asked] = q[Len(q)]]

\* Mending a full selection changes its last place only: to the last candidate.
LEMMA AdviceMended ==
    ASSUME NEW D, NEW K \in SUBSET D, NEW asked \in Nat \ {0},
           NEW base \in Seq(D), Len(base) = asked, NEW body,
           body = [c \in K |-> [sel \in Seq(D) |-> Advice!Place(sel, c, asked)]]
    PROVE  AdviceMends(body, base, asked, K)
  <1> DEFINE T == Seq(D)
             P == {q \in Seq(K) : Fold(body, base, q) =
                       IF q = <<>> THEN base ELSE [base EXCEPT ![asked] = q[Len(q)]]}
  <1>2. IsBody(body, base, T, K)
    BY AdviceBody
  <1>3. /\ Fold(body, base, <<>>) = base
        /\ \A q \in Seq(K), c \in K :
              Fold(body, base, Append(q, c)) = body[c][Fold(body, base, q)]
    <2> HIDE DEF P, T
    <2> QED BY <1>2, FoldSteps
  <1>4. <<>> \in P
    <2>1. <<>> \in Seq(K)
      OBVIOUS
    <2> QED BY <1>3, <2>1
  <1>5. ASSUME NEW q \in P, NEW c \in K PROVE Append(q, c) \in P
    <2> DEFINE f == Fold(body, base, q)
               more == Append(q, c)
    <2>1. q \in Seq(K) /\ f = IF q = <<>> THEN base ELSE [base EXCEPT ![asked] = q[Len(q)]]
      OBVIOUS
    <2>2. more \in Seq(K) /\ more # <<>> /\ more[Len(more)] = c
      BY <2>1
    <2>3. Fold(body, base, more) = body[c][f]
      BY <1>3, <2>1
    <2> HIDE DEF f
    <2>4. f \in Seq(D) /\ Len(f) = asked /\ [f EXCEPT ![asked] = c] = [base EXCEPT ![asked] = c]
      <3>1. CASE q = <<>>
        BY <2>1, <3>1
      <3>2. CASE q # <<>>
        <4>1. q[Len(q)] \in D
          BY <2>1, <3>2
        <4> DEFINE x == q[Len(q)]
        <4>2. f = [base EXCEPT ![asked] = x] /\ x \in D
          BY <2>1, <3>2, <4>1
        <4> HIDE DEF x
        <4>3. DOMAIN base = 1..asked /\ asked \in 1..asked
          OBVIOUS
        <4>4. f \in Seq(D) /\ Len(f) = asked
          BY <4>2
        <4>5. [f EXCEPT ![asked] = c] = [base EXCEPT ![asked] = c]
          BY <4>2, <4>3
        <4> QED BY <4>4, <4>5
      <3> QED BY <3>1, <3>2
    <2>5. body[c][f] = Advice!Place(f, c, asked)
      BY <2>4
    <2>6. body[c][f] = [base EXCEPT ![asked] = c]
      BY <2>4, <2>5 DEF Advice!Place
    <2> HIDE DEF more
    <2>7. more \in P
      BY <2>2, <2>3, <2>6
    <2> QED BY <2>7 DEF more
  <1>6. P = Seq(K)
    <2>1. P \in SUBSET Seq(K)
      OBVIOUS
    <2> HIDE DEF P
    <2> QED BY <1>4, <1>5, <2>1, AllSequences
  <1> QED BY <1>6 DEF AdviceMends

\* The critical ones of a sequence.
LEMMA AdviceCounts ==
    ASSUME NEW C, NEW s \in Seq(C)
    PROVE  /\ Advice!Criticals(s) \in Nat
           /\ Advice!Criticals(s) > 0 <=> \E k \in DOMAIN s : s[k] \in Advice!Critical
           /\ \A t \in Seq(C) :
                 (\A k \in DOMAIN s : s[k] \in Advice!Critical
                                        => k \in DOMAIN t /\ t[k] \in Advice!Critical)
                    => Advice!Criticals(s) <= Advice!Criticals(t)
  <1> DEFINE At(t) == {k \in DOMAIN t : t[k] \in Advice!Critical}
  <1>1. ASSUME NEW t \in Seq(C)
        PROVE  IsFiniteSet(At(t)) /\ Advice!Criticals(t) = Cardinality(At(t))
    <2>1. DOMAIN t = 1..Len(t) /\ Len(t) \in Int
      OBVIOUS
    <2>2. IsFiniteSet(DOMAIN t)
      BY <2>1, FS_Interval
    <2>3. At(t) \in SUBSET DOMAIN t
      OBVIOUS
    <2>4. IsFiniteSet(At(t))
      <3> HIDE DEF At
      <3> QED BY <2>2, <2>3, FS_Subset
    <2> QED BY <2>4 DEF Advice!Criticals, Advice!Cardinality, Cardinality,
             Advice!IsFiniteSet, IsFiniteSet
  <1>2. (At(s) # {}) <=> \E k \in DOMAIN s : s[k] \in Advice!Critical
    OBVIOUS
  <1>3. ASSUME NEW t \in Seq(C), \A k \in DOMAIN s : s[k] \in Advice!Critical
                                        => k \in DOMAIN t /\ t[k] \in Advice!Critical
        PROVE  At(s) \in SUBSET At(t)
    BY <1>3
  <1> HIDE DEF At
  <1>4. Cardinality(At(s)) \in Nat /\ (Cardinality(At(s)) = 0 <=> At(s) = {})
    BY <1>1, FS_CardinalityType, FS_EmptySet
  <1>5. ASSUME NEW t \in Seq(C), \A k \in DOMAIN s : s[k] \in Advice!Critical
                                        => k \in DOMAIN t /\ t[k] \in Advice!Critical
        PROVE  Advice!Criticals(s) <= Advice!Criticals(t)
    <2>1. At(s) \in SUBSET At(t)
      BY <1>3, <1>5
    <2>2. Cardinality(At(s)) <= Cardinality(At(t))
      BY <1>1, <2>1, FS_Subset
    <2> QED BY <1>1, <2>2
  <1>6. Advice!Criticals(s) \in Nat /\ (Advice!Criticals(s) > 0 <=> At(s) # {})
    BY <1>1, <1>4
  <1> QED BY <1>2, <1>5, <1>6

\* A place of a sequence without repetitions, given to what is not in it.
Placed(s, n, x) == [s EXCEPT ![n] = x]

LEMMA AdvicePlaced ==
    ASSUME NEW C, NEW s \in Seq(C), Once(s), NEW n \in DOMAIN s, NEW x \in C, x \notin Members(s),
           NEW z, z = Placed(s, n, x)
    PROVE  /\ z \in Seq(C) /\ Once(z) /\ Len(z) = Len(s) /\ z[n] = x /\ DOMAIN z = DOMAIN s
           /\ \A k \in DOMAIN s : k # n => z[k] = s[k]
  <1>1. /\ z \in Seq(C) /\ Len(z) = Len(s) /\ z[n] = x /\ DOMAIN z = DOMAIN s
        /\ \A k \in DOMAIN s : k # n => z[k] = s[k]
    BY DEF Placed
  <1>2. \A k \in DOMAIN s : s[k] # x
    BY DEF Members
  <1>3. Once(z)
    BY <1>1, <1>2 DEF Once
  <1> QED BY <1>1, <1>3

\* What is recommended of as many as there are.
LEMMA AdviceRight ==
    ASSUME personas \in Seq(Advice!Persona), NEW asked \in Nat \ {0}
    PROVE  LET r == Advice!Recommend(asked)
           IN  /\ r \in Seq(DOMAIN personas) /\ Once(r)
               /\ Len(r) = IF asked <= Len(personas) THEN asked ELSE Len(personas)
               /\ Advice!Criticals(Advice!Ordered) > 0 => Advice!Criticals(r) > 0
               /\ Advice!Criticals(r) >= Advice!Criticals(Advice!First(asked, Advice!Ordered))
  <1> DEFINE D == DOMAIN personas
             K == Advice!Critical
             ranked == Advice!Ordered
             chosen == Advice!First(asked, ranked)
             lacking == Advice!Required(asked) - Advice!Criticals(chosen)
             candidates == Only(ranked, K \ Members(chosen))
             few == Advice!First(lacking, candidates)
             body == [c \in K |-> [sel \in Seq(D) |-> Advice!Place(sel, c, asked)]]
             r == Advice!Recommend(asked)
  <1>1. /\ ranked \in Seq(D) /\ Once(ranked) /\ Len(ranked) = Len(personas) /\ Members(ranked) = D
        /\ Len(personas) \in Nat /\ K \subseteq D
    BY AdviceOrder DEF Advice!Critical
  <1>2. /\ chosen \in Seq(D) /\ Once(chosen)
        /\ Len(chosen) = IF asked <= Len(personas) THEN asked ELSE Len(personas)
        /\ \A k \in DOMAIN chosen : k \in DOMAIN ranked /\ chosen[k] = ranked[k]
    <2> HIDE DEF ranked
    <2> QED BY <1>1, AdviceCut
  <1>3. Advice!Required(asked) \in Int /\ 1 <= Advice!Required(asked)
    <2>1. (asked + 4) \div 5 \in Int
      OBVIOUS
    <2>2. \A b \in Int : Advice!Max({1, b}) \in Int /\ 1 <= Advice!Max({1, b})
      BY AdviceBounds
    <2> QED BY <2>1, <2>2 DEF Advice!Required
  <1>4. r = IF lacking <= 0 THEN chosen ELSE Fold(body, chosen, few)
    <2>1. Advice!Range(chosen) = Members(chosen)
      BY DEF Advice!Range, Members
    <2>2. candidates = Advice!Only(ranked, K \ Advice!Range(chosen))
      BY <2>1, AdviceSame
    <2> QED BY <2>2, AdviceSame DEF Advice!Recommend
  <1>5. Advice!Criticals(chosen) \in Nat /\ Advice!Criticals(chosen) >= 0
    BY <1>2, AdviceCounts
  <1>6. \A s \in Seq(D) : Advice!Criticals(s) > 0 <=> \E k \in DOMAIN s : s[k] \in K
    BY AdviceCounts
  <1>7. /\ candidates \in Seq(D) /\ Members(candidates) = D \cap (K \ Members(chosen))
    <2> HIDE DEF ranked, chosen, K, D
    <2> QED BY <1>1, OnlyOnce
  <1>8. Len(candidates) \in Nat /\ lacking \in Int
    BY <1>3, <1>5, <1>7
  <1> HIDE DEF ranked, chosen, K, D, candidates, r, lacking, few, body
  <1>9. CASE lacking <= 0
    <2>1. r = chosen
      BY <1>4, <1>9
    <2>2. Advice!Criticals(chosen) > 0
      BY <1>3, <1>5, <1>9 DEF lacking
    <2> QED BY <1>2, <1>5, <2>1, <2>2 DEF D, r, chosen, ranked
  <1>10. CASE ~(lacking <= 0) /\ candidates = <<>>
    <2>1. few = <<>>
      <3>1. <<>> \in Seq(D) /\ lacking \in Nat /\ Len(<<>>) = 0
        BY <1>8, <1>10
      <3>2. few \in Seq(D) /\ Len(few) = IF lacking <= Len(<<>>) THEN lacking ELSE Len(<<>>)
        BY <1>10, <3>1, AdviceCut DEF few
      <3>3. Len(few) = 0
        BY <1>10, <3>1, <3>2
      <3> QED BY <3>2, <3>3
    <2>2. r = chosen
      <3>1. Fold(body, chosen, <<>>) = chosen
        <4>1. body = [c \in K |-> [sel \in Seq(D) |-> Advice!Place(sel, c, asked)]]
          BY DEF body
        <4>2. IsBody(body, chosen, Seq(D), K)
          BY <1>1, <1>2, <4>1, AdviceBody
        <4> QED BY <4>2, FoldSteps
      <3> QED BY <1>4, <1>10, <2>1, <3>1
    <2>3. \A x \in K : x \in Members(chosen)
      <3>1. Members(candidates) = {}
        BY <1>10 DEF Members
      <3> QED BY <1>1, <1>7, <3>1
    <2>4. (\E k \in DOMAIN ranked : ranked[k] \in K) => \E k \in DOMAIN chosen : chosen[k] \in K
      BY <2>3 DEF Members
    <2>5. Advice!Criticals(ranked) > 0 => Advice!Criticals(chosen) > 0
      BY <1>1, <1>2, <1>6, <2>4
    <2> QED BY <1>2, <1>5, <2>2, <2>5 DEF D, r, chosen, ranked
  <1>11. CASE ~(lacking <= 0) /\ candidates # <<>>
    <2>1. few \in Seq(K) /\ few # <<>> /\ few[Len(few)] \in K \ Members(chosen)
      <3>1. candidates \in Seq(K \ Members(chosen))
        <4>1. \A k \in DOMAIN candidates : candidates[k] \in K \ Members(chosen)
          BY <1>7 DEF Members
        <4> QED BY <1>7, <4>1
      <3>2. lacking \in Nat /\ 1 <= lacking /\ Len(candidates) \in Nat /\ 1 <= Len(candidates)
        BY <1>7, <1>8, <1>11
      <3>3. /\ few \in Seq(K \ Members(chosen))
            /\ Len(few) = IF lacking <= Len(candidates) THEN lacking ELSE Len(candidates)
        BY <3>1, <3>2, AdviceCut DEF few
      <3>4. 1 <= Len(few) /\ Len(few) \in Nat
        BY <3>2, <3>3
      <3>5. Seq(K \ Members(chosen)) \subseteq Seq(K)
        OBVIOUS
      <3> QED BY <3>3, <3>4, <3>5
    <2> DEFINE x == few[Len(few)]
    <2>2. Len(chosen) = asked
      <3>1. SUFFICES ASSUME Len(chosen) # asked PROVE FALSE
        OBVIOUS
      <3>2. Len(chosen) = Len(ranked)
        BY <1>1, <1>2, <3>1
      <3>3. Members(ranked) \subseteq Members(chosen)
        <4>1. DOMAIN ranked = DOMAIN chosen
          BY <1>1, <1>2, <3>2
        <4> QED BY <1>2, <4>1 DEF Members
      <3> QED BY <1>1, <2>1, <3>3
    <2>3. r = Placed(chosen, asked, x)
      <3>1. Fold(body, chosen, few) =
              IF few = <<>> THEN chosen ELSE [chosen EXCEPT ![asked] = few[Len(few)]]
        <4>1. body = [c \in K |-> [sel \in Seq(D) |-> Advice!Place(sel, c, asked)]]
          BY DEF body
        <4>2. AdviceMends(body, chosen, asked, K)
          BY <1>1, <1>2, <2>2, <4>1, AdviceMended
        <4> QED BY <2>1, <4>2 DEF AdviceMends
      <3> QED BY <1>4, <1>11, <2>1, <3>1 DEF Placed
    <2>4. x \in D /\ x \in K /\ x \notin Members(chosen) /\ asked \in DOMAIN chosen
      BY <1>1, <1>2, <2>1, <2>2
    <2> HIDE DEF x
    <2>5. /\ r \in Seq(D) /\ Once(r) /\ Len(r) = Len(chosen) /\ r[asked] = x
          /\ DOMAIN r = DOMAIN chosen /\ \A k \in DOMAIN chosen : k # asked => r[k] = chosen[k]
      BY <1>2, <2>3, <2>4, AdvicePlaced
    <2>6. Advice!Criticals(r) > 0
      BY <1>6, <2>4, <2>5
    <2>7. Advice!Criticals(chosen) <= Advice!Criticals(r)
      <3>1. \A k \in DOMAIN chosen : chosen[k] \in Advice!Critical
                                       => k \in DOMAIN r /\ r[k] \in Advice!Critical
        BY <2>4, <2>5 DEF K
      <3> QED BY <1>2, <2>5, <3>1, AdviceCounts
    <2>8. Advice!Criticals(r) >= Advice!Criticals(chosen)
      <3>1. Advice!Criticals(r) \in Nat
        BY <2>5, AdviceCounts
      <3> QED BY <1>5, <2>7, <3>1
    <2> QED BY <1>2, <2>5, <2>6, <2>8 DEF D, r, chosen, ranked
  <1> QED BY <1>9, <1>10, <1>11

\* The property for every number asked for.
LEMMA AdviceHolds == personas \in Seq(Advice!Persona) /\ MaxPersonas \in Nat => Advice!CriticalShown
  <1> SUFFICES ASSUME personas \in Seq(Advice!Persona), MaxPersonas \in Nat,
                      NEW asked \in 1..MaxPersonas
               PROVE  LET r == Advice!Recommend(asked)
                      IN  /\ Len(r) = Advice!Min({asked, Len(personas)})
                          /\ Advice!Cardinality(Advice!Range(r)) = Len(r)
                          /\ Advice!Criticals(Advice!Ordered) > 0 => Advice!Criticals(r) > 0
                          /\ Advice!Criticals(r)
                               >= Advice!Criticals(Advice!First(asked, Advice!Ordered))
    BY Zenon DEF Advice!CriticalShown
  <1> DEFINE r == Advice!Recommend(asked)
  <1>1. asked \in Nat \ {0} /\ asked \in Int /\ Len(personas) \in Int
    OBVIOUS
  <1>2. /\ r \in Seq(DOMAIN personas) /\ Once(r)
        /\ Len(r) = IF asked <= Len(personas) THEN asked ELSE Len(personas)
        /\ Advice!Criticals(Advice!Ordered) > 0 => Advice!Criticals(r) > 0
        /\ Advice!Criticals(r) >= Advice!Criticals(Advice!First(asked, Advice!Ordered))
    BY <1>1, AdviceRight, Zenon
  <1> HIDE DEF r
  <1>3. \A a, b \in Int : Advice!Min({a, b}) = IF a <= b THEN a ELSE b
    BY AdviceBounds
  <1>4. Advice!Min({asked, Len(personas)}) = IF asked <= Len(personas) THEN asked ELSE Len(personas)
    BY <1>1, <1>3, Zenon
  <1>5. Advice!Range(r) = Members(r)
    BY DEF Advice!Range, Members
  <1>6. Cardinality(Members(r)) = Len(r)
    BY <1>2, OnceSize
  <1>7. Advice!Cardinality(Members(r)) = Cardinality(Members(r))
    BY DEF Advice!Cardinality, Cardinality, Advice!IsFiniteSet, IsFiniteSet
  <1> QED BY <1>2, <1>4, <1>5, <1>6, <1>7 DEF r

\* The list grows by personas.
LEMMA AdviceInit == Advice!Init => Advice!TypeOK
  <1>1. <<>> \in Seq(Advice!Persona) /\ Len(<<>>) = 0
    OBVIOUS
  <1>2. MaxPersonas \in Nat
    BY ServicesAssumption DEF Advice!RecommendAssumption
  <1> QED BY <1>1, <1>2 DEF Advice!Init, Advice!TypeOK

LEMMA AdviceKeeps ==
    ASSUME Advice!TypeOK, Advice!Next \/ UNCHANGED recommendVars
    PROVE  Advice!TypeOK'
  <1>1. CASE UNCHANGED recommendVars
    BY <1>1 DEF recommendVars, Advice!TypeOK
  <1>2. CASE Advice!Next
    <2>1. PICK p \in Advice!Persona : Advice!Create(p)
      BY <1>2 DEF Advice!Next
    <2>2. ASSUME NEW P, NEW x \in P, NEW s \in Seq(P)
          PROVE  <<x>> \o s \in Seq(P) /\ Len(<<x>> \o s) = Len(s) + 1
      <3>1. <<x>> \in Seq(P) /\ Len(<<x>>) = 1
        OBVIOUS
      <3> DEFINE t == <<x>>
      <3>2. t \in Seq(P) /\ Len(t) = 1
        BY <3>1
      <3> HIDE DEF t
      <3>3. t \o s \in Seq(P) /\ Len(t \o s) = 1 + Len(s) /\ Len(s) \in Nat
        BY <3>2, ConcatProperties
      <3> QED BY <3>3 DEF t
    <2>3. /\ personas' = <<p>> \o personas /\ Len(personas) < MaxPersonas
          /\ personas \in Seq(Advice!Persona) /\ Len(personas) \in Nat
      BY <2>1 DEF Advice!Create, Advice!TypeOK
    <2>4. personas' \in Seq(Advice!Persona) /\ Len(personas') = Len(personas) + 1
      BY <2>2, <2>3
    <2>5. MaxPersonas \in Nat
      BY ServicesAssumption DEF Advice!RecommendAssumption
    <2> QED BY <2>3, <2>4, <2>5 DEF Advice!TypeOK, Advice!Persona
  <1> QED BY <1>1, <1>2

\* Of any list of personas, however many are asked for: as many are recommended as were
\* asked for or are there, none twice, and a critical one if the list has one
\* (persona_service.py, recommend_personas and _ensure_critical_balance).
THEOREM CriticalAlwaysShown == Spec => [](part = "recommend" => Advice!CriticalShown)
  <1> DEFINE Inv == part = "recommend" => Advice!TypeOK
  <1>1. MaxPersonas \in Nat
    BY ServicesAssumption DEF Advice!RecommendAssumption
  <1>2. Init => Inv
    BY AdviceInit DEF Init
  <1>3. Inv /\ [Next]_vars => Inv'
    BY AdviceKeeps, PartSteps
  <1>4. Inv => (part = "recommend" => Advice!CriticalShown)
    BY <1>1, AdviceHolds DEF Advice!TypeOK
  <1> QED BY <1>2, <1>3, <1>4, PTL DEF Spec

\* Both lists hold.
THEOREM ListsAlwaysHold == Spec => []ListsHold
  BY WalkAlwaysSeesAll, CriticalAlwaysShown, PTL DEF ListsHold

-----------------------------------------------------------------------------
(* The scores of the dimensions                                            *)

\* The loops and sums of the instance are those of the lemmas.
LEMMA DimensionSame ==
    /\ \A s, S : Dimension!Only(s, S) = Only(s, S)
    /\ \A body, base, s : Dimension!Fold(body, base, s) = Fold(body, base, s)
    /\ \A S : Dimension!Cardinality(S) = Cardinality(S)
  <1>1. \A body, base, s : Dimension!Fold(body, base, s) = Fold(body, base, s)
    BY DEF Dimension!Fold, Fold
  <1>2. \A s, S : Dimension!Only(s, S) = Only(s, S)
    BY DEF Dimension!Only, Only
  <1>3. \A S : Dimension!Cardinality(S) = Cardinality(S)
    BY DEF Dimension!Cardinality, Cardinality, Dimension!IsFiniteSet, IsFiniteSet
  <1> QED BY <1>1, <1>2, <1>3

\* The least and the greatest of a set of scores.
LEMMA Ends ==
    ASSUME NEW S \in SUBSET (0..100), S # {}
    PROVE  /\ Dimension!Min(S) \in S /\ Dimension!Max(S) \in S
           /\ \A x \in S : Dimension!Min(S) <= x /\ x <= Dimension!Max(S)
  <1>1. \E m \in S : \A n \in S : m <= n
    <2>1. S \in SUBSET Nat
      OBVIOUS
    <2> QED BY <2>1, LeastNumber
  <1>2. \E m \in S : \A n \in S : m >= n
    <2> DEFINE T == {100 - x : x \in S}
    <2>1. T \in SUBSET Nat
      OBVIOUS
    <2>2. T # {}
      OBVIOUS
    <2>3. PICK m \in T : \A n \in T : m <= n
      <3> HIDE DEF T
      <3> QED BY <2>1, <2>2, LeastNumber
    <2>4. PICK x \in S : m = 100 - x
      BY <2>3
    <2>5. \A y \in S : 100 - y \in T
      OBVIOUS
    <2> HIDE DEF T
    <2>6. \A y \in S : 100 - x <= 100 - y
      BY <2>3, <2>4, <2>5
    <2> QED BY <2>6
  <1>3. Dimension!Min(S) \in S /\ \A x \in S : Dimension!Min(S) <= x
    BY <1>1, Zenon DEF Dimension!Min
  <1>4. Dimension!Max(S) \in S /\ \A x \in S : Dimension!Max(S) >= x
    BY <1>2, Zenon DEF Dimension!Max
  <1> QED BY <1>3, <1>4

\* Of two numbers.
LEMMA EndsOfTwo ==
    /\ \A a, b \in Int : Dimension!Min({a, b}) = IF a <= b THEN a ELSE b
    /\ \A a, b \in Int : Dimension!Max({a, b}) = IF a <= b THEN b ELSE a
  <1>1. ASSUME NEW a \in Int, NEW b \in Int
        PROVE  Dimension!Min({a, b}) = IF a <= b THEN a ELSE b
    BY <1>1 DEF Dimension!Min
  <1>2. ASSUME NEW a \in Int, NEW b \in Int
        PROVE  Dimension!Max({a, b}) = IF a <= b THEN b ELSE a
    BY <1>2 DEF Dimension!Max
  <1> QED BY <1>1, <1>2

\* A sum lies between as many times the least and the greatest.
LEMMA TotalBounds ==
    ASSUME NEW lo \in Nat, NEW hi \in Nat, NEW s \in Seq(lo..hi)
    PROVE  /\ Dimension!TotalOf(s) \in Nat /\ Len(s) \in Nat
           /\ lo * Len(s) <= Dimension!TotalOf(s) /\ Dimension!TotalOf(s) <= hi * Len(s)
  <1> DEFINE C == lo..hi
             body == [x \in Int |-> [total \in Int |-> total + x]]
             Within(t) == /\ Fold(body, 0, t) \in Nat
                          /\ lo * Len(t) <= Fold(body, 0, t)
                          /\ Fold(body, 0, t) <= hi * Len(t)
             P == {t \in Seq(C) : Within(t)}
  <1>1. IsBody(body, 0, Int, Int)
    BY DEF IsBody
  <1>2. \A t \in Seq(C) : t \in Seq(Int)
    OBVIOUS
  <1>3. \A x, t \in Int : body[x][t] = t + x
    OBVIOUS
  <1>4. \A t : Dimension!TotalOf(t) = Fold(body, 0, t)
    BY DimensionSame DEF Dimension!TotalOf
  <1> HIDE DEF body
  <1>5. /\ Fold(body, 0, <<>>) = 0
        /\ \A t \in Seq(Int), x \in Int : Fold(body, 0, Append(t, x)) = body[x][Fold(body, 0, t)]
    BY <1>1, FoldSteps
  <1>6. <<>> \in P
    BY <1>5
  <1>7. ASSUME NEW t \in P, NEW x \in C PROVE Append(t, x) \in P
    <2>1. t \in Seq(C) /\ Within(t) /\ t \in Seq(Int) /\ x \in Int /\ Len(t) \in Nat
      BY <1>2
    <2>2. Append(t, x) \in Seq(C) /\ Len(Append(t, x)) = Len(t) + 1
      BY <2>1
    <2>3. Fold(body, 0, Append(t, x)) = Fold(body, 0, t) + x
      <3>1. Fold(body, 0, t) \in Int
        BY <2>1
      <3>2. Fold(body, 0, Append(t, x)) = body[x][Fold(body, 0, t)]
        BY <1>5, <2>1, Zenon
      <3>3. body[x][Fold(body, 0, t)] = Fold(body, 0, t) + x
        <4> HIDE DEF P, Within, C
        <4> QED BY <1>3, <2>1, <3>1
      <3> QED BY <3>2, <3>3
    <2>4. lo * (Len(t) + 1) = lo * Len(t) + lo /\ hi * (Len(t) + 1) = hi * Len(t) + hi
      BY <2>1
    <2>5. lo * Len(t) \in Int /\ hi * Len(t) \in Int /\ lo <= x /\ x <= hi
      BY <2>1
    <2>6. Within(Append(t, x))
      BY <2>1, <2>2, <2>3, <2>4, <2>5
    <2> QED BY <2>2, <2>6
  <1>8. P = Seq(C)
    <2>1. P \in SUBSET Seq(C)
      OBVIOUS
    <2> HIDE DEF P
    <2> QED BY <1>6, <1>7, <2>1, AllSequences
  <1>9. Within(s)
    BY <1>8
  <1> QED BY <1>4, <1>9

\* A rounded mean lies between the bounds of the mean.
LEMMA RoundBounds ==
    ASSUME NEW a \in Nat, NEW b \in Nat \ {0}, NEW lo \in Nat, NEW hi \in Nat,
           lo * b <= a, a <= hi * b
    PROVE  Dimension!Round(a, b) \in lo..hi
  <1> DEFINE q == a \div b
             m == a % b
  <1>1. q \in Nat /\ m \in Nat /\ m < b /\ a = b * q + m /\ q * b = b * q /\ b * q \in Nat
    OBVIOUS
  <1> HIDE DEF q, m
  <1>2. lo <= q
    <2> SUFFICES ASSUME q + 1 <= lo PROVE FALSE
      BY <1>1
    <2>1. (q + 1) * b <= lo * b /\ (q + 1) * b = q * b + b /\ lo * b \in Nat
      BY <1>1, Products
    <2> QED BY <1>1, <2>1
  <1>3. q <= hi
    <2> SUFFICES ASSUME hi + 1 <= q PROVE FALSE
      BY <1>1
    <2>1. (hi + 1) * b <= q * b /\ (hi + 1) * b = hi * b + b /\ hi * b \in Nat
      BY <1>1, Products
    <2> QED BY <1>1, <2>1
  <1>4. q = hi => m = 0
    <2>1. hi * b \in Nat
      OBVIOUS
    <2> QED BY <1>1, <2>1
  <1>5. Dimension!Round(a, b) \in {q, q + 1} /\ (m = 0 => Dimension!Round(a, b) = q)
    BY <1>1 DEF Dimension!Round, q, m
  <1> QED BY <1>1, <1>2, <1>3, <1>4, <1>5

\* The same of any numbers: a rounded mean lies between the bounds of the mean, and the mean
\* between two of the numbers.
LEMMA IntProducts ==
    ASSUME NEW a \in Int, NEW b \in Int, NEW c \in Nat, a <= b
    PROVE  a * c <= b * c
  <1>1. PICK d \in Nat : b = a + d
    <2>1. b - a \in Nat /\ b = a + (b - a)
      OBVIOUS
    <2> QED BY <2>1
  <1>2. b * c = a * c + d * c /\ d * c \in Nat
    BY <1>1
  <1> QED BY <1>2

LEMMA IntRoundBounds ==
    ASSUME NEW a \in Int, NEW b \in Nat \ {0}, NEW lo \in Int, NEW hi \in Int,
           lo * b <= a, a <= hi * b
    PROVE  Dimension!Round(a, b) \in lo..hi
  <1> DEFINE q == a \div b
             m == a % b
  <1>1. q \in Int /\ m \in Nat /\ m < b /\ a = b * q + m /\ q * b = b * q /\ b * q \in Int
    OBVIOUS
  <1> HIDE DEF q, m
  <1>2. lo <= q
    <2> SUFFICES ASSUME q + 1 <= lo PROVE FALSE
      BY <1>1
    <2>1. (q + 1) * b <= lo * b
      BY <1>1, IntProducts
    <2>2. (q + 1) * b = q * b + b /\ lo * b \in Int
      BY <1>1
    <2> QED BY <1>1, <2>1, <2>2
  <1>3. q <= hi
    <2> SUFFICES ASSUME hi + 1 <= q PROVE FALSE
      BY <1>1
    <2>1. (hi + 1) * b <= q * b
      BY <1>1, IntProducts
    <2>2. (hi + 1) * b = hi * b + b /\ hi * b \in Int
      BY <1>1
    <2> QED BY <1>1, <2>1, <2>2
  <1>4. q = hi => m = 0
    <2>1. hi * b \in Int
      OBVIOUS
    <2> QED BY <1>1, <2>1
  <1>5. Dimension!Round(a, b) \in {q, q + 1} /\ (m = 0 => Dimension!Round(a, b) = q)
    BY <1>1 DEF Dimension!Round, q, m
  <1> QED BY <1>1, <1>2, <1>3, <1>4, <1>5

\* Between them the sum divides.
Spans(s, t) == \E j, k \in 1..Len(s) : s[j] * Len(s) <= t /\ t <= s[k] * Len(s)

LEMMA TotalSpans ==
    ASSUME NEW s \in Seq(Int)
    PROVE  Dimension!TotalOf(s) \in Int /\ (s # <<>> => Spans(s, Dimension!TotalOf(s)))
  <1> DEFINE body == [x \in Int |-> [total \in Int |-> total + x]]
             Total(t) == Fold(body, 0, t)
             P == {t \in Seq(Int) : t # <<>> => Spans(t, Total(t))}
  <1>1. IsBody(body, 0, Int, Int)
    BY DEF IsBody
  <1>2. \A x, t \in Int : body[x][t] = t + x
    OBVIOUS
  <1>3. \A t : Dimension!TotalOf(t) = Total(t)
    BY DimensionSame DEF Dimension!TotalOf
  <1> HIDE DEF body
  <1>4. /\ Total(<<>>) = 0
        /\ \A t \in Seq(Int) : Total(t) \in Int
        /\ \A t \in Seq(Int), x \in Int : Total(Append(t, x)) = body[x][Total(t)]
    BY <1>1, FoldSteps
  <1>5. \A t \in Seq(Int), x \in Int : Total(Append(t, x)) = Total(t) + x
    BY <1>2, <1>4
  <1> HIDE DEF Total
  <1>6. <<>> \in P
    OBVIOUS
  <1>7. ASSUME NEW t \in P, NEW x \in Int PROVE Append(t, x) \in P
    <2> DEFINE u == Append(t, x)
               n == Len(t)
    <2>1. /\ t \in Seq(Int) /\ n \in Nat /\ u \in Seq(Int) /\ Len(u) = n + 1
          /\ u[n + 1] = x /\ \A k \in 1..n : u[k] = t[k] /\ t[k] \in Int
      OBVIOUS
    <2>2. Total(u) = Total(t) + x /\ Total(t) \in Int
      BY <1>4, <1>5, <2>1
    <2>3. t # <<>> => Spans(t, Total(t))
      OBVIOUS
    <2> HIDE DEF P, u, n
    <2>4. ASSUME t = <<>> PROVE Spans(u, Total(u))
      <3>1. n = 0 /\ Total(t) = 0
        BY <1>4, <2>4 DEF n
      <3>2. Total(u) = x /\ Len(u) = 1 /\ u[1] = x /\ x * 1 = x
        BY <2>1, <2>2, <3>1
      <3>3. 1 \in 1..Len(u) /\ u[1] * Len(u) <= Total(u) /\ Total(u) <= u[1] * Len(u)
        BY <3>2
      <3> QED BY <3>3 DEF Spans
    <2>5. ASSUME t # <<>> PROVE Spans(u, Total(u))
      <3>1. PICK j, k \in 1..n : t[j] * n <= Total(t) /\ Total(t) <= t[k] * n
        BY <2>3, <2>5 DEF Spans, n
      <3>2. /\ j \in 1..Len(u) /\ k \in 1..Len(u) /\ n + 1 \in 1..Len(u)
            /\ u[j] = t[j] /\ u[k] = t[k] /\ t[j] \in Int /\ t[k] \in Int
        BY <2>1, <3>1
      <3>3. \A y \in Int : y * (n + 1) = y * n + y /\ y * n \in Int
        BY <2>1
      <3>4. \E l \in 1..Len(u) : u[l] * (n + 1) <= Total(t) + x
        <4>1. CASE t[j] <= x
          <5>1. t[j] * (n + 1) = t[j] * n + t[j] /\ t[j] * n \in Int
            BY <3>2, <3>3
          <5>2. u[j] * (n + 1) <= Total(t) + x
            BY <2>2, <3>1, <3>2, <4>1, <5>1
          <5> QED BY <3>2, <5>2
        <4>2. CASE x < t[j]
          <5>1. x * n <= t[j] * n
            <6>1. x <= t[j] /\ x \in Int /\ t[j] \in Int /\ n \in Nat
              BY <2>1, <3>2, <4>2
            <6> QED BY <6>1, IntProducts
          <5>2. x * (n + 1) = x * n + x /\ x * n \in Int /\ t[j] * n \in Int
            BY <3>2, <3>3
          <5>3. x * (n + 1) <= Total(t) + x
            BY <2>2, <3>1, <5>1, <5>2
          <5>4. u[n + 1] * (n + 1) <= Total(t) + x
            BY <2>1, <5>3
          <5> QED BY <3>2, <5>4
        <4> QED BY <3>2, <4>1, <4>2
      <3>5. \E l \in 1..Len(u) : Total(t) + x <= u[l] * (n + 1)
        <4>1. CASE x <= t[k]
          <5>1. t[k] * (n + 1) = t[k] * n + t[k] /\ t[k] * n \in Int
            BY <3>2, <3>3
          <5>2. Total(t) + x <= u[k] * (n + 1)
            BY <2>2, <3>1, <3>2, <4>1, <5>1
          <5> QED BY <3>2, <5>2
        <4>2. CASE t[k] < x
          <5>1. t[k] * n <= x * n
            <6>1. t[k] <= x /\ x \in Int /\ t[k] \in Int /\ n \in Nat
              BY <2>1, <3>2, <4>2
            <6> QED BY <6>1, IntProducts
          <5>2. x * (n + 1) = x * n + x /\ x * n \in Int /\ t[k] * n \in Int
            BY <3>2, <3>3
          <5>3. Total(t) + x <= x * (n + 1)
            BY <2>2, <3>1, <5>1, <5>2
          <5>4. Total(t) + x <= u[n + 1] * (n + 1)
            BY <2>1, <5>3
          <5> QED BY <3>2, <5>4
        <4> QED BY <3>2, <4>1, <4>2
      <3>6. PICK l \in 1..Len(u) : u[l] * (n + 1) <= Total(t) + x
        BY <3>4
      <3>7. PICK h \in 1..Len(u) : Total(t) + x <= u[h] * (n + 1)
        BY <3>5
      <3>8. Spans(u, Total(u))
        BY <2>1, <2>2, <3>6, <3>7 DEF Spans
      <3> QED BY <3>8
    <2>6. Spans(u, Total(u))
      BY <2>4, <2>5
    <2> QED BY <2>1, <2>6 DEF P, u
  <1>8. P = Seq(Int)
    <2>1. P \in SUBSET Seq(Int)
      OBVIOUS
    <2> HIDE DEF P
    <2> QED BY <1>6, <1>7, <2>1, AllSequences
  <1>9. s # <<>> => Spans(s, Total(s))
    BY <1>8
  <1> QED BY <1>3, <1>4, <1>9

\* An average lies between two of what it is made of.
LEMMA AverageSpans ==
    ASSUME NEW s \in Seq(Int), s # <<>>
    PROVE  \E low, high \in Dimension!Range(s) : Dimension!Average(s) \in 10 * low..10 * high
  <1>1. Len(s) \in Nat \ {0} /\ DOMAIN s = 1..Len(s) /\ \A k \in 1..Len(s) : s[k] \in Int
    <2>1. Len(s) \in Nat \ {0} /\ DOMAIN s = 1..Len(s)
      BY EmptySeq, LenProperties
    <2>2. \A k \in 1..Len(s) : s[k] \in Int
      BY ElementOfSeq
    <2> QED BY <2>1, <2>2
  <1>2. Dimension!TotalOf(s) \in Int /\ Spans(s, Dimension!TotalOf(s))
    BY TotalSpans
  <1>3. PICK j, k \in 1..Len(s) : /\ s[j] * Len(s) <= Dimension!TotalOf(s)
                                  /\ Dimension!TotalOf(s) <= s[k] * Len(s)
    BY <1>2 DEF Spans
  <1> DEFINE low == s[j]
             high == s[k]
             n == Len(s)
             t == Dimension!TotalOf(s)
  <1>4. low \in Int /\ high \in Int /\ n \in Nat \ {0} /\ t \in Int
        /\ low * n <= t /\ t <= high * n
    BY <1>1, <1>2, <1>3
  <1>5. low \in Dimension!Range(s) /\ high \in Dimension!Range(s)
    BY <1>1 DEF Dimension!Range
  <1>6. Dimension!Average(s) = Dimension!Round(10 * t, n)
    BY DEF Dimension!Average
  <1> HIDE DEF low, high, n, t
  <1>7. (10 * low) * n <= 10 * t /\ 10 * t <= (10 * high) * n
    <2>1. (10 * low) * n = 10 * (low * n) /\ low * n \in Int
      BY <1>4
    <2>2. (10 * high) * n = 10 * (high * n) /\ high * n \in Int
      BY <1>4
    <2> QED BY <1>4, <2>1, <2>2
  <1>8. 10 * low \in Int /\ 10 * high \in Int /\ 10 * t \in Int
    BY <1>4
  <1>9. Dimension!Round(10 * t, n) \in 10 * low..10 * high
    BY <1>4, <1>7, <1>8, IntRoundBounds
  <1> QED BY <1>5, <1>6, <1>9

\* The scores an answer gives.
LEMMA ScoresInRange ==
    ASSUME NEW d, NEW i \in Dimension!ItemType
    PROVE  Dimension!ScoresOf(d, i) \in Seq(0..100)
  <1>1. i.scale \in Int /\ i.pos \in Nat /\ i.neg \in Nat
    BY DEF Dimension!ItemType
  <1>2. Dimension!Weight(d, i) \in Int
    BY DEF Dimension!Weight
  <1>3. Dimension!TextScore(d, i) \in 0..100
    <2> DEFINE n == 58 + 8 * i.pos - 10 * i.neg + Dimension!Weight(d, i)
    <2>1. n \in Int
      BY <1>1, <1>2
    <2>2. Dimension!TextScore(d, i) = Dimension!Max({15, Dimension!Min({95, n})})
      BY DEF Dimension!TextScore
    <2> HIDE DEF n
    <2>3. Dimension!Min({95, n}) \in Int /\ Dimension!Min({95, n}) <= 95
      <3>1. Dimension!Min({95, n}) = IF 95 <= n THEN 95 ELSE n
        BY <2>1, EndsOfTwo
      <3> QED BY <2>1, <3>1
    <2> DEFINE m == Dimension!Min({95, n})
    <2>4. m \in Int /\ m <= 95
      BY <2>3
    <2>5. Dimension!TextScore(d, i) = Dimension!Max({15, m})
      BY <2>2
    <2> HIDE DEF m
    <2>6. Dimension!Max({15, m}) = IF 15 <= m THEN m ELSE 15
      BY <2>4, EndsOfTwo
    <2> QED BY <2>4, <2>5, <2>6
  <1> DEFINE clamped == Dimension!Max({0, Dimension!Min({5, i.scale})})
             rating == IF i.rated THEN <<20 * clamped>> ELSE <<>>
             worded == IF i.said THEN <<Dimension!TextScore(d, i)>> ELSE <<>>
  <1>4. /\ <<>> \in Seq(0..100)
        /\ \A n \in 0..100 : <<n>> \in Seq(0..100)
    OBVIOUS
  <1>5. rating \in Seq(0..100)
    <2> DEFINE m == Dimension!Min({5, i.scale})
    <2>1. m = IF 5 <= i.scale THEN 5 ELSE i.scale
      BY <1>1, EndsOfTwo
    <2>2. clamped = Dimension!Max({0, m})
      OBVIOUS
    <2> HIDE DEF m, clamped
    <2>3. m \in Int /\ m <= 5
      BY <1>1, <2>1
    <2>4. clamped = IF 0 <= m THEN m ELSE 0
      BY <2>2, <2>3, EndsOfTwo
    <2>5. 20 * clamped \in 0..100
      BY <2>3, <2>4
    <2> QED BY <1>4, <2>5
  <1>6. worded \in Seq(0..100)
    BY <1>3, <1>4
  <1>7. Dimension!ScoresOf(d, i) = rating \o worded
    BY DEF Dimension!ScoresOf
  <1> HIDE DEF rating, worded
  <1> QED BY <1>5, <1>6, <1>7, ConcatProperties

\* What is scored of a dimension: at most the cap, of the answers there are.
LEMMA EvidenceScores ==
    ASSUME Dimension!TypeOK, NEW d \in Dimension!Range(Sorted)
    PROVE  Dimension!Evidence(d) \in Seq(0..100)
  <1>1. items[d] \in Seq(Items) /\ Len(items[d]) \in Nat /\ Items \subseteq Dimension!ItemType
        /\ AnswerCap \in Nat
    <2>1. Items \subseteq Dimension!ItemType /\ AnswerCap \in Nat
      BY ServicesAssumption DEF Dimension!DimensionAssumption
    <2>2. items[d] \in Seq(Items)
      BY DEF Dimension!TypeOK
    <2> QED BY <2>1, <2>2
  <1> DEFINE body == [i \in Items |->
                        [scores \in Seq(0..100) |-> scores \o Dimension!ScoresOf(d, i)]]
             few == Dimension!Inputs(d)
  <1>2. few \in Seq(Items)
    <2> DEFINE m == Dimension!Min({AnswerCap, Len(items[d])})
    <2>1. m = IF AnswerCap <= Len(items[d]) THEN AnswerCap ELSE Len(items[d])
      BY <1>1, EndsOfTwo
    <2>2. few = SubSeq(items[d], 1, m)
      BY DEF Dimension!Inputs
    <2> HIDE DEF m, few
    <2>3. m \in 0..Len(items[d])
      BY <1>1, <2>1
    <2> QED BY <1>1, <2>2, <2>3
  <1>3. IsBody(body, <<>>, Seq(0..100), Items)
    <2>1. ASSUME NEW i \in Items, NEW t \in Seq(0..100)
          PROVE  t \o Dimension!ScoresOf(d, i) \in Seq(0..100)
      BY <1>1, ScoresInRange, ConcatProperties
    <2>2. <<>> \in Seq(0..100)
      OBVIOUS
    <2> QED BY <2>1, <2>2 DEF IsBody
  <1>4. Dimension!Evidence(d) = Fold(body, <<>>, few)
    BY DimensionSame DEF Dimension!Evidence
  <1> HIDE DEF body, few
  <1> QED BY <1>2, <1>3, <1>4, FoldSteps

\* A sequence of what its elements are.
LEMMA SequenceOf ==
    ASSUME NEW S, NEW T, NEW s \in Seq(S), \A k \in 1..Len(s) : s[k] \in T
    PROVE  s \in Seq(T)
  OBVIOUS

\* The rounded mean of some scores is between the lowest and the highest of them.
LEMMA MeanBetween ==
    ASSUME NEW e \in Seq(0..100), e # <<>>
    PROVE  LET scores == Dimension!Range(e)
               mean == Dimension!Round(Dimension!TotalOf(e), Len(e))
           IN  mean \in Dimension!Min(scores)..Dimension!Max(scores) /\ mean \in 0..100
  <1> DEFINE scores == Dimension!Range(e)
             lo == Dimension!Min(scores)
             hi == Dimension!Max(scores)
  <1>1. /\ Len(e) \in Nat \ {0} /\ DOMAIN e = 1..Len(e) /\ 1 \in 1..Len(e)
        /\ \A k \in 1..Len(e) : e[k] \in 0..100
    <2>1. Len(e) \in Nat \ {0} /\ DOMAIN e = 1..Len(e)
      BY EmptySeq, LenProperties
    <2>2. \A k \in 1..Len(e) : e[k] \in 0..100
      BY ElementOfSeq
    <2> QED BY <2>1, <2>2
  <1>2. scores \in SUBSET (0..100) /\ scores # {} /\ \A k \in 1..Len(e) : e[k] \in scores
    <2>1. scores = {e[k] : k \in 1..Len(e)}
      BY <1>1, Zenon DEF Dimension!Range
    <2> HIDE DEF scores
    <2>2. \A x \in scores : x \in 0..100
      BY <1>1, <2>1, Zenon
    <2>3. \A k \in 1..Len(e) : e[k] \in scores
      BY <2>1, Zenon
    <2> QED BY <1>1, <2>2, <2>3
  <1> HIDE DEF scores
  <1>3. lo \in 0..100 /\ hi \in 0..100 /\ \A x \in scores : lo <= x /\ x <= hi
    BY <1>2, Ends
  <1> HIDE DEF lo, hi
  <1>4. e \in Seq(lo..hi)
    <2>1. ASSUME NEW k \in 1..Len(e) PROVE e[k] \in lo..hi
      <3>1. e[k] \in 0..100 /\ e[k] \in scores
        BY <1>1, <1>2, Zenon
      <3>2. lo <= e[k] /\ e[k] <= hi
        BY <1>3, <3>1, Zenon
      <3>3. \A a, b, x \in 0..100 : a <= x /\ x <= b => x \in a..b
        OBVIOUS
      <3> QED BY <1>3, <3>1, <3>2, <3>3, Zenon
    <2> QED BY <2>1, SequenceOf
  <1>5. lo \in Nat /\ hi \in Nat
    BY <1>3
  <1>6. /\ Dimension!TotalOf(e) \in Nat
        /\ lo * Len(e) <= Dimension!TotalOf(e) /\ Dimension!TotalOf(e) <= hi * Len(e)
    BY <1>4, <1>5, TotalBounds
  <1>7. Dimension!Round(Dimension!TotalOf(e), Len(e)) \in lo..hi
    BY <1>1, <1>5, <1>6, RoundBounds
  <1>8. \A x \in lo..hi : x \in 0..100
    BY <1>3
  <1>9. Dimension!Round(Dimension!TotalOf(e), Len(e)) \in 0..100
    BY <1>7, <1>8
  <1> QED BY <1>7, <1>9 DEF lo, hi, scores

\* A score by words: none without evidence, else between the ends of the evidence.
LEMMA WordsBound ==
    ASSUME Dimension!TypeOK, NEW d \in Dimension!Range(Sorted)
    PROVE  LET scores == Dimension!Range(Dimension!Evidence(d))
           IN  /\ Dimension!Confidence(d) \in 0..95
               /\ (Dimension!WordScore(d) = Dimension!None) <=> (Dimension!Evidence(d) = <<>>)
               /\ scores # {} =>
                    Dimension!WordScore(d) \in Dimension!Min(scores)..Dimension!Max(scores)
               /\ Dimension!WordScore(d) \in {Dimension!None} \cup 0..100
  <1>1. Dimension!Evidence(d) \in Seq(0..100)
    BY EvidenceScores
  <1>2. PICK e \in Seq(0..100) : e = Dimension!Evidence(d)
    BY <1>1
  <1>3. Dimension!Confidence(d) \in 0..95
    <2> DEFINE n == 35 + 8 * Len(e)
    <2>1. n \in Nat
      OBVIOUS
    <2>2. Dimension!Confidence(d) = IF e = <<>> THEN 0 ELSE Dimension!Min({95, n})
      BY <1>2 DEF Dimension!Confidence
    <2> HIDE DEF n
    <2>3. Dimension!Min({95, n}) = IF 95 <= n THEN 95 ELSE n
      BY <2>1, EndsOfTwo
    <2> DEFINE m == Dimension!Min({95, n})
    <2>4. m \in 0..95
      <3>1. m = IF 95 <= n THEN 95 ELSE n
        BY <2>3
      <3> HIDE DEF m
      <3> QED BY <2>1, <3>1
    <2> QED BY <2>2, <2>4
  <1>4. CASE e = <<>>
    <2>1. Dimension!WordScore(d) = Dimension!None
      BY <1>2, <1>4 DEF Dimension!WordScore
    <2>2. Dimension!Range(e) = {}
      BY <1>4 DEF Dimension!Range
    <2> QED BY <1>2, <1>3, <1>4, <2>1, <2>2
  <1>5. CASE e # <<>>
    <2> DEFINE mean == Dimension!Round(Dimension!TotalOf(e), Len(e))
    <2>1. Dimension!WordScore(d) = mean
      BY <1>2, <1>5 DEF Dimension!WordScore
    <2>2. /\ mean \in Dimension!Min(Dimension!Range(e))..Dimension!Max(Dimension!Range(e))
          /\ mean \in 0..100
      BY <1>5, MeanBetween
    <2> HIDE DEF mean
    <2>3. mean # Dimension!None
      BY <2>2 DEF Dimension!None
    <2> QED BY <1>2, <1>3, <1>5, <2>1, <2>2, <2>3
  <1> QED BY <1>4, <1>5

\* What is kept of a sequence is in the set, and of one without repetition has none.
NoTwice(s) == \A j, k \in 1..Len(s) : s[j] = s[k] => j = k

LEMMA ChosenOf ==
    ASSUME NEW C, NEW S, NEW s \in Seq(C)
    PROVE  LET kept == Only(s, S)
           IN  /\ kept \in Seq(C) /\ Len(kept) \in Nat /\ DOMAIN kept = 1..Len(kept)
               /\ \A k \in 1..Len(kept) : kept[k] \in S /\ kept[k] \in C
               /\ kept # <<>> => Dimension!LastOf(kept) \in S
               /\ NoTwice(s) => NoTwice(kept)
  <1> DEFINE kept == Only(s, S)
  <1>1. kept \in Seq(C) /\ \E place : KeptAt(place, s, S)
    BY OnlyKeeps
  <1>2. PICK place : KeptAt(place, s, S)
    BY <1>1
  <1>3. /\ place \in [1..Len(kept) -> 1..Len(s)]
        /\ \A k \in 1..Len(kept) : kept[k] = s[place[k]] /\ kept[k] \in S
        /\ \A j, k \in 1..Len(kept) : j < k => place[j] < place[k]
    BY <1>2 DEF KeptAt
  <1> HIDE DEF kept
  <1>4. Len(kept) \in Nat /\ DOMAIN kept = 1..Len(kept) /\ Len(s) \in Nat
    BY <1>1, LenProperties
  <1>5. \A k \in 1..Len(kept) : kept[k] \in S /\ kept[k] \in C
    BY <1>1, <1>3, ElementOfSeq
  <1>6. kept # <<>> => Dimension!LastOf(kept) \in S
    <2>1. kept # <<>> => Len(kept) \in 1..Len(kept)
      <3>1. kept # <<>> => Len(kept) \in Nat \ {0}
        BY <1>1, EmptySeq
      <3> QED BY <3>1
    <2> QED BY <1>3, <2>1 DEF Dimension!LastOf
  <1>7. ASSUME NoTwice(s), NEW j \in 1..Len(kept), NEW k \in 1..Len(kept), kept[j] = kept[k]
        PROVE  j = k
    <2>1. place[j] \in 1..Len(s) /\ place[k] \in 1..Len(s) /\ s[place[j]] = s[place[k]]
      BY <1>3, <1>7
    <2>2. place[j] = place[k]
      BY <1>7, <2>1 DEF NoTwice
    <2>3. ~(j < k) /\ ~(k < j)
      BY <1>3, <2>1, <2>2
    <2> QED BY <1>4, <2>3
  <1> QED BY <1>1, <1>4, <1>5, <1>6, <1>7 DEF kept, NoTwice

\* A sequence that is given as a function of its places.
LEMMA Listed ==
    ASSUME NEW S, NEW n \in Nat, NEW f, f = [k \in 1..n |-> f[k]],
           \A k \in 1..n : f[k] \in S
    PROVE  f \in Seq(S) /\ Len(f) = n
  <1>1. f \in [1..n -> S]
    OBVIOUS
  <1> QED BY <1>1

\* The dimensions, as the assumption has them.
LEMMA TheDimensions ==
    /\ Dims \in Seq(Dimension!Required) /\ Len(Dims) \in Nat /\ DOMAIN Dims = 1..Len(Dims)
    /\ NoTwice(Dims) /\ Dims # <<>>
    /\ \A d \in Dimension!Required : \E k \in 1..Len(Dims) : Dims[k] = d
    /\ Sorted \in Seq(Dimension!Range(Sorted)) /\ NoTwice(Sorted)
    /\ Dimension!Required \subseteq Dimension!Range(Sorted)
  <1>1. /\ Dims \in Seq(Dimension!Required) /\ Dimension!IsInjective(Dims) /\ Dims # <<>>
        /\ Sorted \in Seq(Dimension!Range(Sorted)) /\ Dimension!IsInjective(Sorted)
        /\ Dimension!Range(Sorted) = Dimension!Required \cup {"unknown"}
    BY ServicesAssumption DEF Dimension!DimensionAssumption
  <1>2. /\ Len(Dims) \in Nat /\ DOMAIN Dims = 1..Len(Dims)
        /\ Len(Sorted) \in Nat /\ DOMAIN Sorted = 1..Len(Sorted)
    BY <1>1, LenProperties
  <1>3. NoTwice(Dims) /\ NoTwice(Sorted)
    BY <1>1, <1>2 DEF Dimension!IsInjective, NoTwice
  <1>4. \A d \in Dimension!Required : \E k \in 1..Len(Dims) : Dims[k] = d
    BY <1>2 DEF Dimension!Required, Dimension!Range
  <1> QED BY <1>1, <1>2, <1>3, <1>4

\* What the analysis of a report holds once it was made, and what it may hold before.
Stored == [dim : Dimension!Required, score : {Dimension!None} \cup 0..100, old : BOOLEAN]

\* Whatever was replied, the scores that are stored are in range.
LEMMA ScoredFair ==
    ASSUME Dimension!TypeOK, NEW body \in Replies
    PROVE  Dimension!Scored(body) \in Seq(Stored)
  <1> DEFINE Of(d) == IF body = NoJson THEN <<>> ELSE Only(body, Dimension!Usable(d))
             Score(d) == IF Of(d) # <<>> THEN Dimension!LastOf(Of(d)).score
                         ELSE Dimension!WordScore(d)
             f == [k \in DOMAIN Dims |->
                     [dim |-> Dims[k], score |-> Score(Dims[k]), old |-> FALSE]]
  <1>1. Dimension!Scored(body) = f
    BY DimensionSame DEF Dimension!Scored
  <1>2. ASSUME NEW d \in Dimension!Required
        PROVE  Score(d) \in {Dimension!None} \cup 0..100
    <2>1. CASE Of(d) = <<>>
      <3>1. Score(d) = Dimension!WordScore(d)
        BY <2>1
      <3> QED BY <3>1, WordsBound, TheDimensions
    <2>2. CASE Of(d) # <<>>
      <3>1. body # NoJson /\ Of(d) = Only(body, Dimension!Usable(d))
        BY <2>2
      <3>2. body \in Seq(Dimension!EntryType)
        BY <3>1, ServicesAssumption DEF Dimension!DimensionAssumption
      <3>3. Dimension!LastOf(Of(d)) \in Dimension!Usable(d)
        BY <2>2, <3>1, <3>2, ChosenOf
      <3>4. \A x \in Dimension!Usable(d) : x.score \in {Dimension!None} \cup 0..100
        BY DEF Dimension!Usable
      <3>5. Score(d) = Dimension!LastOf(Of(d)).score
        BY <2>2
      <3> HIDE DEF Of, Score
      <3> QED BY <3>3, <3>4, <3>5
    <2> QED BY <2>1, <2>2
  <1> HIDE DEF Score
  <1>3. ASSUME NEW k \in 1..Len(Dims) PROVE f[k] \in Stored
    <2>1. Dims[k] \in Dimension!Required /\ k \in DOMAIN Dims
      BY TheDimensions, ElementOfSeq
    <2>2. Score(Dims[k]) \in {Dimension!None} \cup 0..100
      BY <1>2, <2>1
    <2>3. f[k] = [dim |-> Dims[k], score |-> Score(Dims[k]), old |-> FALSE]
      BY <2>1
    <2> QED BY <2>1, <2>2, <2>3 DEF Stored
  <1>4. f = [k \in 1..Len(Dims) |-> f[k]]
    BY TheDimensions
  <1> HIDE DEF f
  <1> QED BY <1>1, <1>3, <1>4, TheDimensions, Listed

\* Scores on one scale, a dimension at most once.
Entry == [dim : Dimension!Range(Sorted), score : Int, of : {5, 100}]
On(scale, d) == IF scale = 100 THEN {Dimension!None} \cup 0..100
                ELSE {x \in Int : \E low, high \in Dimension!Range(Dimension!Scales(items[d])) :
                                     x \in 10 * low..10 * high}
RadarFair(r) ==
    /\ r \in Seq(Entry)
    /\ \A j, k \in 1..Len(r) : r[j].dim = r[k].dim => j = k
    /\ \E scale \in {5, 100} : \A k \in 1..Len(r) :
          r[k].of = scale /\ r[k].score \in On(scale, r[k].dim)

LEMMA OnNumbers == \A scale, d : \A x \in On(scale, d) : x \in Int
  <1>1. \A x \in {-1} \cup 0..100 : x \in Int
    OBVIOUS
  <1> QED BY <1>1 DEF On, Dimension!None

\* A radar of some dimensions, each once, and a score for each.
LEMMA RadarOf ==
    ASSUME NEW ds \in Seq(Dimension!Range(Sorted)), NoTwice(ds), NEW scale \in {5, 100},
           NEW r, r = [k \in 1..Len(ds) |-> r[k]],
           \A k \in 1..Len(ds) : /\ r[k] = [dim |-> ds[k], score |-> r[k].score, of |-> scale]
                                 /\ r[k].score \in On(scale, ds[k])
    PROVE  RadarFair(r) /\ Len(r) = Len(ds)
  <1>1. Len(ds) \in Nat /\ \A k \in 1..Len(ds) : ds[k] \in Dimension!Range(Sorted)
    BY ElementOfSeq
  <1>2. \A d : \A x \in On(scale, d) : x \in Int
    BY OnNumbers
  <1>3. \A d \in Dimension!Range(Sorted), x \in Int :
           [dim |-> d, score |-> x, of |-> scale] \in Entry
    BY DEF Entry
  <1>4. ASSUME NEW k \in 1..Len(ds) PROVE r[k] \in Entry
    <2>1. PICK x : x = r[k].score
      OBVIOUS
    <2>2. r[k] = [dim |-> ds[k], score |-> x, of |-> scale] /\ x \in On(scale, ds[k])
      BY <2>1
    <2>3. ds[k] \in Dimension!Range(Sorted) /\ x \in Int
      BY <1>1, <1>2, <2>2
    <2> QED BY <1>3, <2>2, <2>3
  <1>5. r \in Seq(Entry) /\ Len(r) = Len(ds)
    BY <1>1, <1>4, Listed
  <1>6. \A d, x : [dim |-> d, score |-> x, of |-> scale].dim = d
    OBVIOUS
  <1>7. \A d, x : [dim |-> d, score |-> x, of |-> scale].of = scale
    OBVIOUS
  <1>8. ASSUME NEW k \in 1..Len(ds) PROVE r[k].dim = ds[k] /\ r[k].of = scale
    BY <1>6, <1>7
  <1> QED BY <1>5, <1>8 DEF RadarFair, NoTwice

\* The averages of the scale answers.
LEMMA RuleFair ==
    ASSUME Dimension!TypeOK
    PROVE  RadarFair(Dimension!RuleRadar)
  <1> DEFINE some == {d \in Dimension!Range(Sorted) : Dimension!Scales(items[d]) # <<>>}
             rated == Only(Sorted, some)
             r == [k \in DOMAIN rated |->
                     [dim |-> rated[k],
                      score |-> Dimension!Average(Dimension!Scales(items[rated[k]])), of |-> 5]]
  <1>1. Dimension!RuleRadar = r
    BY DimensionSame DEF Dimension!RuleRadar
  <1>2. ASSUME NEW d \in Dimension!Range(Sorted), Dimension!Scales(items[d]) # <<>>
        PROVE  Dimension!Average(Dimension!Scales(items[d])) \in On(5, d)
    <2> DEFINE kept == Only(items[d], {i \in Items : i.rated})
               s == [n \in DOMAIN kept |-> kept[n].scale]
    <2>1. items[d] \in Seq(Items) /\ \A i \in Items : i.scale \in Int
      <3>1. Items \subseteq Dimension!ItemType
        BY ServicesAssumption DEF Dimension!DimensionAssumption
      <3>2. items[d] \in Seq(Items)
        BY DEF Dimension!TypeOK
      <3> QED BY <3>1, <3>2 DEF Dimension!ItemType
    <2>2. kept \in Seq(Items) /\ Len(kept) \in Nat /\ DOMAIN kept = 1..Len(kept)
      BY <2>1, ChosenOf
    <2>3. Dimension!Scales(items[d]) = s
      BY DimensionSame DEF Dimension!Scales
    <2> HIDE DEF kept
    <2>4. s \in Seq(Int)
      <3>1. \A n \in 1..Len(kept) : kept[n] \in Items
        BY <2>2, ElementOfSeq
      <3>2. s = [n \in 1..Len(kept) |-> s[n]]
        BY <2>2
      <3>3. \A n \in 1..Len(kept) : s[n] \in Int
        BY <2>1, <2>2, <3>1
      <3> HIDE DEF s
      <3> QED BY <2>2, <3>2, <3>3, Listed
    <2> HIDE DEF s
    <2>5. PICK low, high \in Dimension!Range(s) :
             Dimension!Average(s) \in 10 * low..10 * high
      BY <1>2, <2>3, <2>4, AverageSpans
    <2>6. low \in Int /\ high \in Int
      <3>1. \A k \in DOMAIN s : s[k] \in Int
        BY <2>4, LenProperties, ElementOfSeq
      <3> QED BY <3>1 DEF Dimension!Range
    <2>7. Dimension!Average(s) \in Int
      BY <2>5, <2>6
    <2> QED BY <2>3, <2>5, <2>7 DEF On
  <1>3. rated \in Seq(Dimension!Range(Sorted)) /\ NoTwice(rated) /\ Len(rated) \in Nat
        /\ DOMAIN rated = 1..Len(rated) /\ \A k \in 1..Len(rated) : rated[k] \in some
    <2> HIDE DEF some
    <2> QED BY TheDimensions, ChosenOf
  <1> HIDE DEF rated
  <1>4. ASSUME NEW k \in 1..Len(rated)
        PROVE  /\ r[k] = [dim |-> rated[k], score |-> r[k].score, of |-> 5]
               /\ r[k].score \in On(5, rated[k])
    <2>1. rated[k] \in Dimension!Range(Sorted) /\ Dimension!Scales(items[rated[k]]) # <<>>
      BY <1>3
    <2>2. r[k] = [dim |-> rated[k],
                  score |-> Dimension!Average(Dimension!Scales(items[rated[k]])), of |-> 5]
      BY <1>3
    <2>3. r[k].score = Dimension!Average(Dimension!Scales(items[rated[k]]))
      BY <2>2
    <2> QED BY <1>2, <2>1, <2>2, <2>3
  <1>5. r = [k \in 1..Len(rated) |-> r[k]]
    BY <1>3
  <1> HIDE DEF r
  <1> QED BY <1>1, <1>3, <1>4, <1>5, RadarOf

\* The radar of a report: its stored scores, or else the averages.
LEMMA ResolvedFair ==
    ASSUME Dimension!TypeOK, NEW mark, NEW held \in Seq(Stored)
    PROVE  RadarFair(Dimension!Resolved(mark, held))
  <1> DEFINE Of(d) == Only(held, Dimension!Current(d))
             some == {d \in Dimension!Required : Of(d) # <<>>}
             known == Only(Dims, some)
             r == [k \in DOMAIN known |->
                     [dim |-> known[k], score |-> Dimension!LastOf(Of(known[k])).score,
                      of |-> 100]]
  <1>1. Dimension!Resolved(mark, held)
          = IF mark # "ready" \/ known = <<>> THEN Dimension!RuleRadar ELSE r
    BY DimensionSame DEF Dimension!Resolved
  <1>2. ASSUME NEW d \in Dimension!Required, Of(d) # <<>>
        PROVE  Dimension!LastOf(Of(d)).score \in On(100, d)
    <2>1. Dimension!LastOf(Of(d)) \in Stored
      <3> DEFINE kept == Of(d)
      <3>1. kept \in Seq(Stored) /\ kept # <<>>
        BY <1>2, ChosenOf
      <3> HIDE DEF kept
      <3>2. Len(kept) \in 1..Len(kept)
        <4>1. Len(kept) \in Nat \ {0}
          BY <3>1, EmptySeq
        <4> QED BY <4>1
      <3>3. kept[Len(kept)] \in Stored
        BY <3>1, <3>2, ElementOfSeq
      <3> QED BY <3>3 DEF kept, Dimension!LastOf
    <2>2. \A x \in Stored : x.score \in On(100, d)
      BY DEF Stored, On
    <2> QED BY <2>1, <2>2
  <1> HIDE DEF Of
  <1>3. known \in Seq(Dimension!Required) /\ NoTwice(known) /\ Len(known) \in Nat
        /\ DOMAIN known = 1..Len(known) /\ \A k \in 1..Len(known) : known[k] \in some
    <2> HIDE DEF some
    <2> QED BY TheDimensions, ChosenOf
  <1> HIDE DEF known
  <1>4. known \in Seq(Dimension!Range(Sorted))
    BY <1>3, TheDimensions, SeqMonotonic
  <1>5. ASSUME NEW k \in 1..Len(known)
        PROVE  /\ r[k] = [dim |-> known[k], score |-> r[k].score, of |-> 100]
               /\ r[k].score \in On(100, known[k])
    <2>1. known[k] \in Dimension!Required /\ Of(known[k]) # <<>>
      BY <1>3
    <2>2. r[k] = [dim |-> known[k], score |-> Dimension!LastOf(Of(known[k])).score, of |-> 100]
      BY <1>3
    <2>3. r[k].score = Dimension!LastOf(Of(known[k])).score
      BY <2>2
    <2> QED BY <1>2, <2>1, <2>2, <2>3
  <1>6. r = [k \in 1..Len(known) |-> r[k]]
    BY <1>3
  <1> HIDE DEF r
  <1>7. RadarFair(r)
    BY <1>3, <1>4, <1>5, <1>6, RadarOf
  <1> QED BY <1>1, <1>7, RuleFair

\* The radar of words has every required dimension.
LEMMA WordsFair ==
    ASSUME Dimension!TypeOK
    PROVE  RadarFair(Dimension!WordRadar) /\ Dimension!AllRequired(Dimension!WordRadar)
  <1> DEFINE r == [k \in DOMAIN Dims |->
                     [dim |-> Dims[k], score |-> Dimension!WordScore(Dims[k]), of |-> 100]]
  <1>1. Dimension!WordRadar = r
    BY DEF Dimension!WordRadar
  <1>2. ASSUME NEW k \in 1..Len(Dims)
        PROVE  /\ r[k] = [dim |-> Dims[k], score |-> r[k].score, of |-> 100]
               /\ r[k].score \in On(100, Dims[k])
               /\ r[k].dim = Dims[k]
    <2>1. Dims[k] \in Dimension!Range(Sorted) /\ k \in DOMAIN Dims
      BY TheDimensions, ElementOfSeq
    <2>2. r[k] = [dim |-> Dims[k], score |-> Dimension!WordScore(Dims[k]), of |-> 100]
      BY <2>1
    <2>3. r[k].score = Dimension!WordScore(Dims[k]) /\ r[k].dim = Dims[k]
      BY <2>2
    <2>4. Dimension!WordScore(Dims[k]) \in {Dimension!None} \cup 0..100
      BY <2>1, WordsBound
    <2> QED BY <2>2, <2>3, <2>4 DEF On
  <1>3. r = [k \in 1..Len(Dims) |-> r[k]]
    BY TheDimensions
  <1>4. DOMAIN r = 1..Len(Dims)
    BY TheDimensions
  <1> HIDE DEF r
  <1>5. Dims \in Seq(Dimension!Range(Sorted))
    BY TheDimensions, SeqMonotonic
  <1>6. RadarFair(r)
    <2>1. \A k \in 1..Len(Dims) :
             /\ r[k] = [dim |-> Dims[k], score |-> r[k].score, of |-> 100]
             /\ r[k].score \in On(100, Dims[k])
      BY <1>2
    <2>2. NoTwice(Dims) /\ 100 \in {5, 100}
      BY TheDimensions
    <2> QED BY <1>3, <1>5, <2>1, <2>2, RadarOf
  <1>7. Dimension!AllRequired(r)
    BY <1>2, <1>4, TheDimensions DEF Dimension!AllRequired
  <1> QED BY <1>1, <1>6, <1>7

\* What RadarWhole says of a radar.
Whole(given) ==
    /\ \A d \in Dimension!Required :
         Dimension!Cardinality({k \in DOMAIN given : given[k].dim = d}) = 1
    /\ \E scale \in {5, 100} : \A k \in DOMAIN given : Dimension!Shown(given[k], scale)

LEMMA WholeRadar ==
    /\ Dimension!RadarWhole <=> (radar # <<>> => Whole(radar))
    /\ radar' = <<>> => Dimension!RadarWhole'
    /\ items' = items => (Dimension!RadarWhole' <=> (radar' # <<>> => Whole(radar')))
  <1>1. Dimension!RadarWhole <=> (radar # <<>> => Whole(radar))
    BY Zenon DEF Dimension!RadarWhole, Whole
  <1>2. radar' = <<>> => Dimension!RadarWhole'
    BY Zenon DEF Dimension!RadarWhole
  <1>3. items' = items => (Dimension!RadarWhole' <=> (radar' # <<>> => Whole(radar')))
    BY Zenon DEF Dimension!RadarWhole, Whole, Dimension!Shown
  <1> QED BY <1>1, <1>2, <1>3

\* A radar that has every required dimension has each of them once.
LEMMA FairIsWhole ==
    ASSUME NEW given, RadarFair(given), Dimension!AllRequired(given)
    PROVE  Whole(given)
  <1>1. /\ DOMAIN given = 1..Len(given)
        /\ \A j, k \in 1..Len(given) : given[j].dim = given[k].dim => j = k
    BY LenProperties DEF RadarFair
  <1>2. ASSUME NEW d \in Dimension!Required
        PROVE  Cardinality({k \in DOMAIN given : given[k].dim = d}) = 1
    <2>1. PICK k \in DOMAIN given : given[k].dim = d
      BY DEF Dimension!AllRequired
    <2>2. {j \in DOMAIN given : given[j].dim = d} = {k}
      BY <1>1, <2>1
    <2> QED BY <2>2, FS_Singleton
  <1>3. PICK scale \in {5, 100} : \A k \in 1..Len(given) :
           given[k].of = scale /\ given[k].score \in On(scale, given[k].dim)
    BY DEF RadarFair
  <1>4. \A d \in Dimension!Required :
           Dimension!Cardinality({k \in DOMAIN given : given[k].dim = d}) = 1
    BY <1>2, DimensionSame
  <1>5. \A k \in DOMAIN given : Dimension!Shown(given[k], scale)
    BY <1>1, <1>3 DEF On, Dimension!Shown
  <1> QED BY <1>4, <1>5, Zenon DEF Whole

\* The scores that are stored are in range, and what a reader got was whole.
DimensionInv == Dimension!TypeOK /\ entries \in Seq(Stored) /\ Dimension!RadarWhole

LEMMA StoredTypes ==
    /\ \A s \in Seq(Stored) : s \in Seq(Dimension!EntryType)
    /\ \A s : RadarFair(s) => s \in Seq(Dimension!RadarType)
  <1>1. \A x \in Stored : x \in Dimension!EntryType
    BY DEF Stored, Dimension!EntryType, Dimension!None
  <1>2. Entry = Dimension!RadarType
    BY DEF Entry, Dimension!RadarType
  <1>3. ASSUME NEW s \in Seq(Stored) PROVE s \in Seq(Dimension!EntryType)
    BY <1>1, SeqMonotonic
  <1> QED BY <1>2, <1>3 DEF RadarFair

LEMMA DimensionInit == Dimension!Init => DimensionInv
  <1> SUFFICES ASSUME Dimension!Init PROVE DimensionInv
    OBVIOUS
  <1>1. items \in [Dimension!Range(Sorted) -> Seq(Items)]
    <2>1. <<>> \in Seq(Items)
      OBVIOUS
    <2> QED BY <2>1 DEF Dimension!Init
  <1>2. analysis \in {"no row", "none", "ready", "failed"} /\ radar = <<>>
    BY DEF Dimension!Init
  <1>3. entries \in Seq(Stored)
    <2>1. CASE entries = <<>>
      BY <2>1
    <2>2. CASE \E old \in BOOLEAN : entries = <<[dim |-> Dims[1], score |-> 60, old |-> old]>>
      <3>1. PICK old \in BOOLEAN : entries = <<[dim |-> Dims[1], score |-> 60, old |-> old]>>
        BY <2>2
      <3>2. Dims[1] \in Dimension!Required
        <4>1. Len(Dims) \in Nat \ {0}
          BY TheDimensions, EmptySeq
        <4> QED BY <4>1, TheDimensions, ElementOfSeq
      <3>3. [dim |-> Dims[1], score |-> 60, old |-> old] \in Stored
        BY <3>2 DEF Stored
      <3>4. \A x \in Stored : <<x>> \in Seq(Stored)
        OBVIOUS
      <3> QED BY <3>1, <3>3, <3>4
    <2> QED BY <2>1, <2>2 DEF Dimension!Init
  <1>4. radar \in Seq(Dimension!RadarType)
    BY <1>2, EmptySeq
  <1> QED BY <1>1, <1>2, <1>3, <1>4, StoredTypes, WholeRadar DEF DimensionInv, Dimension!TypeOK

\* The scores by words depend on the answers only, which grow until the radar is read.
LEMMA AnswersKeepDimension ==
    ASSUME DimensionInv, NEW d \in Dimension!Range(Sorted), NEW i \in Items,
           Dimension!AnswerQuestion(d, i)
    PROVE  DimensionInv'
  <1>1. /\ items' = [items EXCEPT ![d] = Append(items[d], i)]
        /\ analysis' = analysis /\ entries' = entries /\ radar' = radar /\ radar = <<>>
    BY DEF Dimension!AnswerQuestion
  <1>2. items \in [Dimension!Range(Sorted) -> Seq(Items)] /\ items[d] \in Seq(Items)
    BY DEF DimensionInv, Dimension!TypeOK
  <1>3. Append(items[d], i) \in Seq(Items)
    BY <1>2
  <1>4. items' \in [Dimension!Range(Sorted) -> Seq(Items)]
    BY <1>1, <1>2, <1>3
  <1> QED BY <1>1, <1>4, WholeRadar DEF DimensionInv, Dimension!TypeOK

\* Scoring stores scores in range.
LEMMA AnalysesKeepDimension ==
    ASSUME DimensionInv, NEW body \in Replies, Dimension!Analyse(body)
    PROVE  DimensionInv'
  <1>1. /\ items' = items /\ radar' = radar
        /\ entries' = Dimension!Scored(body) /\ analysis' = "ready"
    BY DEF Dimension!Analyse
  <1>2. entries' \in Seq(Stored)
    BY <1>1, ScoredFair DEF DimensionInv
  <1> QED BY <1>1, <1>2, StoredTypes, WholeRadar DEF DimensionInv, Dimension!TypeOK

\* What a reader gets is whole, from wherever its scores are.
LEMMA ReadsKeepDimension ==
    ASSUME DimensionInv, NEW body \in Replies, Dimension!ReadRadar(body)
    PROVE  DimensionInv'
  <1>1. Dimension!TypeOK /\ entries \in Seq(Stored) /\ Dimension!Scored(body) \in Seq(Stored)
    BY ScoredFair DEF DimensionInv
  <1>2. PICK r : /\ RadarFair(r)
                 /\ radar' = IF Dimension!AllRequired(r) THEN r ELSE Dimension!WordRadar
    <2>1. RadarFair(Dimension!Resolved("ready", Dimension!Scored(body)))
      BY <1>1, ResolvedFair
    <2>2. RadarFair(Dimension!Resolved(analysis, entries))
      BY <1>1, ResolvedFair
    <2> QED BY <2>1, <2>2, Zenon DEF Dimension!ReadRadar
  <1>3. RadarFair(radar') /\ Dimension!AllRequired(radar')
    BY <1>1, <1>2, WordsFair
  <1>4. \/ entries' = entries /\ analysis' = analysis
        \/ entries' = Dimension!Scored(body) /\ analysis' = "ready"
    BY Zenon DEF Dimension!ReadRadar
  <1>5. items' = items
    BY Zenon DEF Dimension!ReadRadar
  <1>6. entries' \in Seq(Stored)
    BY <1>1, <1>4
  <1>7. Dimension!TypeOK'
    <2>1. radar' \in Seq(Dimension!RadarType)
      BY <1>3, StoredTypes
    <2> QED BY <1>1, <1>4, <1>5, <1>6, <2>1, StoredTypes DEF Dimension!TypeOK
  <1>8. Dimension!RadarWhole'
    <2>1. Whole(radar')
      BY <1>3, FairIsWhole
    <2> QED BY <1>5, <2>1, WholeRadar
  <1> QED BY <1>6, <1>7, <1>8 DEF DimensionInv

LEMMA DimensionKeeps ==
    ASSUME DimensionInv, Dimension!Next \/ UNCHANGED dimensionVars
    PROVE  DimensionInv'
  <1>1. CASE UNCHANGED dimensionVars
    BY <1>1, WholeRadar DEF dimensionVars, DimensionInv, Dimension!TypeOK
  <1>2. CASE Dimension!Next
    BY <1>2, AnswersKeepDimension, AnalysesKeepDimension, ReadsKeepDimension
       DEF Dimension!Next
  <1> QED BY <1>1, <1>2

\* Whatever was answered, replied and stored: a reader's radar has every dimension once, on
\* one scale: scores within 0..100, or averages of what was answered, and a score by words
\* lies between the ends of its evidence (report_service.py, _run_dimension_analysis,
\* _resolve_dimensions_radar).
THEOREM ScoresAlwaysSound == Spec => [](part = "dimension" => Dimension!ScoresSound)
  <1> DEFINE Inv == part = "dimension" => DimensionInv
  <1>1. Init => Inv
    BY DimensionInit DEF Init
  <1>2. Inv /\ [Next]_vars => Inv'
    BY DimensionKeeps, PartSteps
  <1>3. DimensionInv => Dimension!WordsBacked
    <2> SUFFICES ASSUME DimensionInv, NEW d \in Dimension!Required
                 PROVE  LET scores == Dimension!Range(Dimension!Evidence(d))
                        IN  /\ Dimension!Confidence(d) \in 0..95
                            /\ (Dimension!WordScore(d) = Dimension!None)
                                  <=> (Dimension!Evidence(d) = <<>>)
                            /\ scores # {} => Dimension!WordScore(d)
                                                \in Dimension!Min(scores)..Dimension!Max(scores)
      BY Zenon DEF Dimension!WordsBacked
    <2>1. d \in Dimension!Range(Sorted) /\ Dimension!TypeOK
      BY TheDimensions DEF DimensionInv
    <2> QED BY <2>1, WordsBound
  <1>4. Inv => (part = "dimension" => Dimension!ScoresSound)
    BY <1>3 DEF DimensionInv, Dimension!ScoresSound
  <1> QED BY <1>1, <1>2, <1>4, PTL DEF Spec

\* A report that can be read has a radar, and a radar rests on the answers.
THEOREM RadarAlwaysServed == Spec => []RadarServed
  BY ReportAlwaysHasRadar, ScoresAlwaysSound, PTL DEF RadarServed

-----------------------------------------------------------------------------
(* The types of all parts                                                  *)

\* Where the invariant of a part has its types.
OtherTypes ==
    /\ part = "conversation" => Chat!TypeOK
    /\ part = "whitepaper" => Paper!TypeOK
    /\ part = "session" => Session!TypeOK
    /\ part = "recommend" => Advice!TypeOK
    /\ part = "dimension" => Dimension!TypeOK
    /\ part = "survey" => Survey!TypeOK
    /\ part = "provider" => Provider!TypeOK

LEMMA OthersTyped == Spec => []OtherTypes
  <1> DEFINE Inv == /\ part = "conversation" => ChatInv
                    /\ part = "whitepaper" => PaperInv
                    /\ part = "session" => SessionInv
                    /\ part = "recommend" => Advice!TypeOK
                    /\ part = "dimension" => DimensionInv
                    /\ part = "survey" => SurveyInv
                    /\ part = "provider" => ProviderInv
  <1>0. Chat!ConversationAssumption /\ Session!SessionAssumption
    BY ServicesAssumption
  <1>1. Init => Inv
    BY <1>0, SameChat, ChatProofs!ThreadInit, ChatProofs!ToldInit, PaperInit, SessionInit,
       AdviceInit, DimensionInit, SurveyInit, ProviderInit DEF Init, ChatInv
  <1>2. Inv /\ [Next]_vars => Inv'
    BY <1>0, ChatKeeps, PaperStep, SessionKeeps, AdviceKeeps, DimensionKeeps, SurveyKeeps,
       ProviderKeeps, PartSteps
  <1>3. ChatInv => Chat!TypeOK
    BY SameChat DEF ChatInv, ChatProofs!ThreadInv
  <1>4. SurveyInv => Survey!TypeOK
    BY DEF SurveyInv, SurveyTypes, Survey!TypeOK
  <1>5. Inv => OtherTypes
    BY <1>3, <1>4 DEF OtherTypes, PaperInv, SessionInv, DimensionInv, ProviderInv
  <1> HIDE DEF Inv
  <1> QED BY <1>1, <1>2, <1>5, PTL DEF Spec

\* The variables of every part have their types, whatever the constants: no counter passes
\* its bound, and nothing is ever in a state the code does not name.
THEOREM TypesAlwaysOK == Spec => []TypesOK
  <1> DEFINE Read == /\ part = "image" => Image!TypeOK
                     /\ part = "vision" => Vision!TypeOK
                     /\ part = "json" => Json!TypeOK
                     /\ part = "client" => Client!TypeOK
             Asked == /\ part = "webhook" => Hook!TypeOK
                      /\ part = "report" => Report!TypeOK
                      /\ part = "preparation" => Prep!TypeOK
                      /\ part = "metrics" => Metrics!TypeOK
             Entered == /\ part = "list" => List!TypeOK
                        /\ part = "intake" => Intake!TypeOK
                        /\ part = "login" => SignIn!TypeOK
  <1>1. Init => part \in Parts
    BY DEF Init
  <1>2. part \in Parts /\ [Next]_vars => (part \in Parts)'
    BY PartStays
  <1>3. Spec => [](part \in Parts)
    BY <1>1, <1>2, PTL DEF Spec
  <1>4. Spec => []Read
    BY ImageTyped, VisionTyped, JsonTyped, ClientTyped, PTL
  <1>5. Spec => []Asked
    BY HookTyped, ReportTyped, PrepTyped, MetricsTyped, PTL
  <1>6. Spec => []Entered
    BY ListTyped, IntakeTyped, LoginTyped, PTL
  <1>7. part \in Parts /\ Read /\ Asked /\ Entered /\ OtherTypes => TypesOK
    BY DEF TypesOK, OtherTypes
  <1> HIDE DEF Read, Asked, Entered
  <1> QED BY <1>3, <1>4, <1>5, <1>6, <1>7, OthersTyped, PTL
==============================================================================
