------------------------------ MODULE Folding ------------------------------
(***************************************************************************)
(* Going over a sequence, as a loop of the code does.  The body of the loop *)
(* is a function and not an operator, and what is kept is given by a set: a *)
(* lemma can then be stated about every body and every set.  The order by   *)
(* which a sort goes is given by its pairs.                                 *)
(***************************************************************************)
EXTENDS Integers, Sequences, FiniteSets

\* From the first element to the last: what each makes of the value so far.
Fold(body, base, seq) ==
    LET at[n \in 0..Len(seq)] == IF n = 0 THEN base ELSE body[seq[n]][at[n - 1]]
    IN  at[Len(seq)]

\* The elements that are in a set, in their order.
Only(seq, S) ==
    LET kept[n \in 0..Len(seq)] ==
            IF n = 0 THEN <<>>
            ELSE IF seq[n] \in S THEN Append(kept[n - 1], seq[n]) ELSE kept[n - 1]
    IN  kept[Len(seq)]

\* The elements of a set by an order of them: at each place the one with as many before it.
Ranked(S, before) ==
    LET earlier == [x \in S |-> Cardinality({y \in S : <<y, x>> \in before})]
    IN  [k \in 1..Cardinality(S) |-> CHOOSE x \in S : earlier[x] = k - 1]
=============================================================================
