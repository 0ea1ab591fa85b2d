------------------------------ MODULE Rounding ------------------------------
(***************************************************************************)
(* How the figures of a report are rounded.  Averages are kept in tenths,   *)
(* as the code rounds them to one decimal.  Python rounds a tie to the even *)
(* neighbour; a tie of tenths is exact in binary on sheets of fewer than 20 *)
(* answers, and the runs stay below that.                                   *)
(***************************************************************************)
EXTENDS Integers, Sequences, Folding

\* Seeded bug: a rounding that takes every tie up.
RoundUp(a, b) == (2 * a + b) \div (2 * b)

\* round(a / b): to the nearest, a tie to the even neighbour.
Round(a, b) ==
    LET q == a \div b
        r == 2 * (a % b)
    IN  IF r > b \/ (r = b /\ q % 2 = 1) THEN q + 1 ELSE q

TotalOf(scores) == Fold([s \in Int |-> [total \in Int |-> total + s]], 0, scores)
Average(scores) == Round(10 * TotalOf(scores), Len(scores))
Percent(n, total) == IF total = 0 THEN 0 ELSE Round(100 * n, total)
=============================================================================
