--------------------------- MODULE MCCreditLedger ---------------------------
(* Constants of CreditLedger for TLC: u1 owns both evaluations and the order,   *)
(* u2 logs in for the first time.                                               *)
EXTENDS CreditLedger

CONSTANTS u1, u2

Owner == [e \in Evaluations |-> u1]
Buyer == [o \in Orders |-> u1]

=============================================================================
