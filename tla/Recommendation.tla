--------------------------- MODULE Recommendation --------------------------
(***************************************************************************)
(* The personas recommended for a product: those visible to the user, the   *)
(* ones of the product's category first, cut to the number asked for and    *)
(* then mended until the quota of critical ones is met.                     *)
(***************************************************************************)
EXTENDS Integers, Sequences, FiniteSets, FiniteSetsExt, Functions, Folding

CONSTANT MaxPersonas  \* bound: personas the user sees

RecommendAssumption == MaxPersonas \in Nat

VARIABLE personas  \* as list_visible_to_user orders them

vars == personas

Persona == [critical : BOOLEAN, matches : BOOLEAN]

\* The type invariant.
TypeOK == personas \in Seq(Persona) /\ Len(personas) <= MaxPersonas

Init == personas = <<>>

\* create_persona, and the seeds: the newest comes first.
Create(p) == /\ Len(personas) < MaxPersonas
             /\ personas' = <<p>> \o personas

Next == \E p \in Persona : Create(p)

Spec == Init /\ [][Next]_vars

-----------------------------------------------------------------------------

\* A persona is its place in the list.
Places == [n \in DOMAIN personas |-> n]
Matching == {n \in DOMAIN personas : personas[n].matches}
Critical == {n \in DOMAIN personas : personas[n].critical}

Ordered == Only(Places, Matching) \o Only(Places, DOMAIN personas \ Matching)
Criticals(seq) == Cardinality({k \in DOMAIN seq : seq[k] \in Critical})

\* max(1, ceil(count * 0.2))
Required(count) == Max({1, (count + 4) \div 5})

First(n, seq) == SubSeq(seq, 1, Min({n, Len(seq)}))

\* Seeded bug: a candidate always joins the selection.
PlaceBeside(selected, candidate, count) == Append(selected, candidate)

\* A candidate takes the last place of a full selection, whoever holds it.
Place(selected, candidate, count) ==
    IF Len(selected) >= count THEN [selected EXCEPT ![Len(selected)] = candidate]
    ELSE Append(selected, candidate)

Recommend(count) ==
    LET selected == First(count, Ordered)
        lacking == Required(count) - Criticals(selected)
        candidates == Only(Ordered, Critical \ Range(selected))
        body == [c \in Critical |-> [sel \in Seq(DOMAIN personas) |-> Place(sel, c, count)]]
    IN  IF lacking <= 0 THEN selected ELSE Fold(body, selected, First(lacking, candidates))

(* Of the recommended personas there are as many as asked for or as the user *)
(* sees, none twice, and a critical one is among them whenever the user sees *)
(* one; mending the quota leaves no fewer critical ones than the cut had     *)
(* (_ensure_critical_balance).                                               *)
CriticalShown ==
    \A count \in 1..MaxPersonas :
       LET r == Recommend(count)
       IN  /\ Len(r) = Min({count, Len(personas)})
           /\ Cardinality(Range(r)) = Len(r)
           /\ Criticals(Ordered) > 0 => Criticals(r) > 0
           /\ Criticals(r) >= Criticals(First(count, Ordered))
=============================================================================
