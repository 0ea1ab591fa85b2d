---------------------------- MODULE VisionFields ----------------------------
(***************************************************************************)
(* What becomes of a model's reply about a picture: the fields a user is    *)
(* shown to review before a product is made of them.  In the whole mode one *)
(* model reads the picture and fills the fields; in the text mode it only   *)
(* copies the text, which a second model sorts into fields, with guesses of *)
(* regular expressions for what the second one leaves out.                  *)
(***************************************************************************)
EXTENDS Integers, FiniteSets, FiniteSetsExt

CONSTANTS
    Core,    \* the fields the second model is asked for
    Extra,   \* the others
    Values,  \* what a field may be given: a value and how sure the model is, in tenths
    Hinted,  \* the fields the regular expressions may find: price and specification
    Targets  \* the sets of fields the client may ask for, {} for all

VARIABLES
    scan,     \* the mode, "whole" or "text"
    hints,    \* the fields the regular expressions found
    flagged,  \* whether the text matches a rule of the moderation
    shown     \* the fields the user is shown and whether they need a review, or Nothing

vars == <<scan, hints, flagged, shown>>

Known == Core \cup Extra
Nothing == [fields |-> <<>>, review |-> FALSE, reply |-> <<>>]

(* A value is 0 when null or blank; of the selling points it says how many   *)
(* they are.  The reply gives a field at the top level ("flat"), in an       *)
(* object of its own with a confidence ("nested"), or not at all.            *)
GivenType == [form : {"flat", "nested", "absent"}, value : Nat, sure : Int]
Field(v, s, from) == [value |-> v, sure |-> s, source |-> from]
NotFound == Field(0, 0, "not found")
FieldType == [value : Nat, sure : 0..10, source : {"model", "rule", "not found"}]

VisionAssumption == Values \subseteq GivenType /\ Targets \subseteq SUBSET Known

TypeOK == /\ scan \in {"whole", "text"}
          /\ hints \subseteq Hinted
          /\ flagged \in BOOLEAN
          /\ DOMAIN shown.fields \subseteq Known
          /\ \A f \in DOMAIN shown.fields : shown.fields[f] \in FieldType
          /\ shown.review \in BOOLEAN

Init == /\ scan \in {"whole", "text"}
        /\ hints \in SUBSET Hinted
        /\ flagged \in BOOLEAN
        /\ shown = Nothing

Clamped(sure) == Max({0, Min({10, sure})})

\* _parse_response: a flat value is certain, and what has no value was not found.
Whole(f, given) ==
    IF given.form = "absent" \/ given.value = 0 THEN NotFound
    ELSE Field(given.value, IF given.form = "flat" THEN 10 ELSE Clamped(given.sure), "model")

\* Seeded bug: a guess of the rules comes before what the model read.
TextGuessedFirst(f, given) ==
    IF f \notin Core THEN NotFound
    ELSE IF f \in hints THEN Field(1, 6, "rule")
    ELSE IF given.form = "nested" THEN Field(given.value, Clamped(given.sure), "model")
    ELSE NotFound

\* _structure_fields: only a nested field counts, even a null one; no more than three
\* selling points; a guess for a field that is not given, and only for those asked for.
Text(f, given) ==
    LET kept == IF f = "selling_points" THEN Min({3, given.value}) ELSE given.value
    IN  IF f \notin Core THEN NotFound
        ELSE IF given.form = "nested" THEN Field(kept, Clamped(given.sure), "model")
        ELSE IF f \in hints THEN Field(1, 6, "rule")
        ELSE NotFound

\* extract: normalised, and to be reviewed without a name or with flagged text.
Extract(target, reply) ==
    LET asked == IF target = {} THEN Known ELSE target
        fields == [f \in asked |-> IF scan = "whole" THEN Whole(f, reply[f])
                                                     ELSE Text(f, reply[f])]
        named == "name" \in asked /\ fields["name"].value # 0
    IN  /\ shown = Nothing
        /\ shown' = [fields |-> fields, review |-> ~named \/ flagged, reply |-> reply]
        /\ UNCHANGED <<scan, hints, flagged>>

Next == \E target \in Targets, reply \in [Known -> Values] : Extract(target, reply)

Spec == Init /\ [][Next]_vars

-----------------------------------------------------------------------------
(* Properties                                                               *)

(* A field shown without a value is never shown as certain when the whole    *)
(* picture was read; a guess of the rules is told apart, stands in only for  *)
(* what the model did not give and is never surer than 0.6; nothing that was *)
(* not asked of the second model is shown as found; and without a name the   *)
(* user is asked to review (_parse_response, _structure_fields, extract).    *)
FieldsHonest ==
    \A f \in DOMAIN shown.fields :
      LET field == shown.fields[f]
          given == shown.reply[f]
      IN  /\ (scan = "whole" /\ field.value = 0) => field.sure = 0
          /\ field.source = "rule" => given.form # "nested" /\ field.sure <= 6
          /\ (scan = "text" /\ f \notin Core) => field.value = 0
          /\ (field.value # 0 /\ field.source = "model") => given.value >= field.value
          /\ ((f = "name" /\ field.value = 0) \/ flagged) => shown.review
=============================================================================
