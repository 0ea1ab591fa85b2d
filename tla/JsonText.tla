------------------------------ MODULE JsonText ------------------------------
(***************************************************************************)
(* Finding the JSON object in what a model replies: prose, then an object   *)
(* or an array that may stop anywhere, then prose.  A reply is written      *)
(* character by character; what is not a bracket, a quote or a backslash is *)
(* "x".  The fences of a code block hold none of these and are left out:    *)
(* the text inside them and the whole text give the same block.             *)
(***************************************************************************)
EXTENDS Integers, Sequences, FiniteSets, FiniteSetsExt, SequencesExt, Folding

CONSTANT MaxText  \* bound: characters of a reply

TextAssumption == MaxText \in Nat

VARIABLES
    reply,    \* what has been written
    nest,     \* where the brackets that are open were opened, outermost first
    quoted,   \* whether a string is open
    objects   \* where the objects that are whole begin and end

vars == <<reply, nest, quoted, objects>>

Chars == {"lbrace", "rbrace", "lbracket", "rbracket", "quote", "backslash", "x"}
None == <<>>

TypeOK == /\ reply \in Seq(Chars) /\ Len(reply) <= MaxText
          /\ nest \in Seq(1..MaxText)
          /\ quoted \in BOOLEAN
          /\ objects \in SUBSET ((1..MaxText) \X (1..MaxText))

Init == reply = <<>> /\ nest = <<>> /\ quoted = FALSE /\ objects = {}

-----------------------------------------------------------------------------
(* The reply                                                                *)

Room(n) == Len(reply) + n <= MaxText
Begun == \E n \in DOMAIN reply : reply[n] \in {"lbrace", "lbracket"}
Ended == Begun /\ nest = <<>>

\* Prose, before and after: it may quote, and has no brackets before.
Prose(c) ==
    /\ Room(1) /\ nest = <<>>
    /\ c \in {"x", "quote"} \/ (Ended /\ c # "backslash")
    /\ reply' = Append(reply, c)
    /\ UNCHANGED <<nest, quoted, objects>>

OpenBracket(c) ==
    /\ Room(1) /\ ~quoted /\ ~Ended
    /\ reply' = Append(reply, c)
    /\ nest' = Append(nest, Len(reply'))
    /\ UNCHANGED <<quoted, objects>>

CloseBracket ==
    /\ Room(1) /\ ~quoted /\ nest # <<>>
    /\ LET begin == Last(nest)
           object == reply[begin] = "lbrace"
       IN  /\ reply' = Append(reply, IF object THEN "rbrace" ELSE "rbracket")
           /\ objects' = IF object THEN objects \cup {<<begin, Len(reply')>>} ELSE objects
    /\ nest' = Front(nest)
    /\ UNCHANGED quoted

Quote == /\ Room(1) /\ nest # <<>>
         /\ reply' = Append(reply, "quote")
         /\ quoted' = ~quoted
         /\ UNCHANGED <<nest, objects>>

\* Inside a string anything goes, a quote and a backslash only after a backslash.
InString(c, escaped) ==
    /\ quoted
    /\ c \in {"quote", "backslash"} => escaped
    /\ Room(IF escaped THEN 2 ELSE 1)
    /\ reply' = reply \o IF escaped THEN <<"backslash", c>> ELSE <<c>>
    /\ UNCHANGED <<nest, quoted, objects>>

Next == \/ \E c \in Chars : Prose(c) \/ \E e \in BOOLEAN : InString(c, e)
        \/ \E c \in {"lbrace", "lbracket"} : OpenBracket(c)
        \/ CloseBracket \/ Quote

Spec == Init /\ [][Next]_vars

-----------------------------------------------------------------------------
(* The scan                                                                 *)

\* Seeded bug: a scan that does not know strings.
ReadPlainly(at, c, open, close) ==
    [at EXCEPT !.next = @ + 1,
               !.depth = @ + (IF c = open THEN 1 ELSE 0) - (IF c = close THEN 1 ELSE 0),
               !.end = IF @ = 0 /\ c = close /\ at.depth = 1 THEN at.next ELSE @]

\* One character: past the end nothing counts, in a string only its end does.
Read(at, c, open, close) ==
    LET plain == ~at.escape /\ ~at.string
        depth == at.depth + (IF plain /\ c = open THEN 1 ELSE 0)
                          - (IF plain /\ c = close THEN 1 ELSE 0)
    IN  [next   |-> at.next + 1,
         escape |-> ~at.escape /\ at.string /\ c = "backslash",
         string |-> IF c = "quote" /\ ~at.escape THEN ~at.string ELSE at.string,
         depth  |-> depth,
         end    |-> IF at.end = 0 /\ plain /\ c = close /\ depth = 0 THEN at.next ELSE at.end]

Scan == [next : Nat, escape : BOOLEAN, string : BOOLEAN, depth : Int, end : Nat]

\* The loop over the characters from start on.
Scanned(text, start, open, close) ==
    Fold([c \in Chars |-> [at \in Scan |-> Read(at, c, open, close)]],
         [next |-> start, escape |-> FALSE, string |-> FALSE, depth |-> 0, end |-> 0],
         SubSeq(text, start, Len(text)))

\* _find_first_json_block: where the first balanced block begins and ends.
FindBlock(text, open, close) ==
    LET begins == {n \in DOMAIN text : text[n] = open}
        start == Min(begins)
        end == Scanned(text, start, open, close).end
    IN  IF begins = {} THEN None ELSE IF end = 0 THEN None ELSE <<start, end>>

\* extract_json_object: an object before an array.
Extracted(text) ==
    IF FindBlock(text, "lbrace", "rbrace") # None THEN FindBlock(text, "lbrace", "rbrace")
    ELSE FindBlock(text, "lbracket", "rbracket")

\* parse_json_response: the block when it is an object, else AIResponseInvalid.
Parsed(text) == LET block == Extracted(text)
                IN  IF block # None /\ text[block[1]] = "lbrace" THEN block ELSE None

-----------------------------------------------------------------------------
(* Properties                                                               *)

(* What is parsed is the outermost object, braces and quotes in its strings  *)
(* notwithstanding: a reply that is one object is recovered exactly,         *)
(* whatever follows it; one that is cut off is refused, and never taken for  *)
(* one of the objects inside it; an array without objects is refused too     *)
(* (parse_json_response, ai/json_utils.py).                                  *)
ObjectRecovered ==
    LET opened == {n \in DOMAIN reply : reply[n] \in {"lbrace", "lbracket"}}
        whole == {o \in objects : o[1] = Min(opened)}
    IN  /\ (opened # {} /\ reply[Min(opened)] = "lbrace") =>
             IF whole = {} THEN Parsed(reply) = None ELSE Parsed(reply) \in whole
        /\ (\A n \in opened : reply[n] = "lbracket") => Parsed(reply) = None
=============================================================================
