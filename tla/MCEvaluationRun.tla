--------------------------- MODULE MCEvaluationRun ---------------------------
(* Constants of EvaluationRun for TLC: the personas are the slots themselves,   *)
(* or the persona p1 fills every slot but one.                                  *)
EXTENDS EvaluationRun, TLC

CONSTANTS p1, p2

DistinctPersonas == [s \in Slots |-> s]
RepeatedPersona  == LET other == CHOOSE s \in Slots : TRUE
                    IN  [s \in Slots |-> IF s = other THEN p2 ELSE p1]

ProcessSymmetry == Permutations(Workers) \cup Permutations(Requests)
Symmetry        == Permutations(Slots) \cup ProcessSymmetry

=============================================================================
