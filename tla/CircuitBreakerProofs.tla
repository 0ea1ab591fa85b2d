------------------------- MODULE CircuitBreakerProofs -------------------------
(***************************************************************************)
(* CircuitBreaker, for any set of calls and any thresholds: its counters    *)
(* agree with its state whatever late results arrive, and its half-open     *)
(* flag is backed by a probe in flight unless probes can be abandoned.      *)
(***************************************************************************)
EXTENDS CircuitBreaker, TLAPS

\* The type invariant of the breaker holds in every reachable state.
THEOREM TypeCorrect == Spec => []TypeOK
<1> USE ThresholdsAssumption DEF TypeOK
<1>1. Init => TypeOK
  <2> SUFFICES ASSUME Init PROVE TypeOK
    OBVIOUS
  <2>1. probing \in BOOLEAN
    BY Zenon DEF Init
  <2> QED BY <2>1 DEF Init
<1>2. TypeOK /\ [Next]_vars => TypeOK'
  <2> SUFFICES ASSUME TypeOK, [Next]_vars PROVE TypeOK'
    OBVIOUS
  <2>1. ASSUME NEW c \in Calls, Begin(c) PROVE TypeOK'
    <3>1. CASE BeginNormal(c)
      BY <3>1 DEF BeginNormal, counts
    <3>2. CASE BeginFirstProbe(c)
      <4>1. probing' \in BOOLEAN
        BY <3>2, Zenon DEF BeginFirstProbe
      <4> QED BY <3>2, <4>1 DEF BeginFirstProbe
    <3>3. CASE BeginNextProbe(c)
      <4>1. probing' \in BOOLEAN
        BY <3>3, Zenon DEF BeginNextProbe
      <4> QED BY <3>3, <4>1 DEF BeginNextProbe, counts
    <3> QED BY <2>1, <3>1, <3>2, <3>3 DEF Begin
  <2>2. ASSUME NEW c \in Calls, End(c) PROVE TypeOK'
    <3>1. CASE SucceedHalfOpen(c)
      <4>1. probing' \in BOOLEAN
        BY <3>1, Zenon DEF SucceedHalfOpen
      <4> QED BY <3>1, <4>1 DEF SucceedHalfOpen, Finish
    <3>2. CASE Succeed(c)
      BY <3>2 DEF Succeed, Finish
    <3>3. CASE FailHalfOpen(c)
      BY <3>3 DEF FailHalfOpen, Finish, Open
    <3>4. CASE Fail(c)
      BY <3>4 DEF Fail, Finish, Open
    <3> QED BY <2>2, <3>1, <3>2, <3>3, <3>4 DEF End
  <2>3. ASSUME NEW c \in Calls, Abandon(c) PROVE TypeOK'
    BY <2>3 DEF Abandon, Finish, counts
  <2>4. CASE Elapse \/ GoesDown \/ ComesBack
    BY <2>4 DEF Elapse, GoesDown, ComesBack, counts
  <2>5. CASE UNCHANGED vars
    BY <2>5 DEF vars, counts
  <2> QED BY <2>1, <2>2, <2>3, <2>4, <2>5 DEF Next
<1> QED BY <1>1, <1>2, PTL DEF Spec

(***************************************************************************)
(* The counters.  CountersAgree is inductive: a late result in OPEN may     *)
(* push failureCount past the threshold, or reset it, but only the success  *)
(* that closes the breaker leaves HALF_OPEN for CLOSED, and it resets both. *)
(***************************************************************************)

\* Every call that reports its result leaves the counters in agreement with the state.
LEMMA EndCounters ==
    ASSUME TypeOK, CountersAgree, NEW c \in Calls, End(c)
    PROVE  CountersAgree'
<1> USE ThresholdsAssumption DEF TypeOK, CountersAgree
<1>1. CASE SucceedHalfOpen(c)
  BY <1>1 DEF SucceedHalfOpen
<1>2. CASE Succeed(c)
  BY <1>2 DEF Succeed
<1>3. CASE FailHalfOpen(c)
  BY <1>3 DEF FailHalfOpen, Open
<1>4. CASE Fail(c)
  BY <1>4 DEF Fail, Open
<1> QED BY <1>1, <1>2, <1>3, <1>4 DEF End

\* No interleaving of admitted calls, late results and time-outs leaves the breaker
\* closed past its failure threshold, half-open past its success threshold, or open
\* without the time from which it may probe.
THEOREM CountersAlwaysAgree == Spec => []CountersAgree
<1> USE ThresholdsAssumption DEF CountersAgree
<1>1. Init => CountersAgree
  BY DEF Init
<1>2. TypeOK /\ CountersAgree /\ [Next]_vars => CountersAgree'
  <2> SUFFICES ASSUME TypeOK, CountersAgree, [Next]_vars PROVE CountersAgree'
    OBVIOUS
  <2>1. ASSUME NEW c \in Calls, Begin(c) PROVE CountersAgree'
    BY <2>1 DEF Begin, BeginNormal, BeginFirstProbe, BeginNextProbe, counts
  <2>2. ASSUME NEW c \in Calls, End(c) PROVE CountersAgree'
    BY <2>2, EndCounters
  <2>3. ASSUME NEW c \in Calls, Abandon(c) PROVE CountersAgree'
    BY <2>3 DEF Abandon, counts
  <2>4. CASE Elapse \/ GoesDown \/ ComesBack
    BY <2>4 DEF Elapse, GoesDown, ComesBack, counts
  <2>5. CASE UNCHANGED vars
    BY <2>5 DEF vars, counts
  <2> QED BY <2>1, <2>2, <2>3, <2>4, <2>5 DEF Next
<1> QED BY <1>1, <1>2, TypeCorrect, PTL DEF Spec

(***************************************************************************)
(* The probe.  ProbeBacked is inductive when probes are never abandoned:    *)
(* whoever ends a probe in HALF_OPEN, or ends a call on the way out of it,  *)
(* also clears the flag.  The hypothesis is what the code lacks.            *)
(***************************************************************************)

\* A call that reports its result leaves no flag without its probe.
LEMMA EndProbe ==
    ASSUME TypeOK, ProbeBacked, NEW c \in Calls, End(c)
    PROVE  ProbeBacked'
<1> USE DEF TypeOK, ProbeBacked
<1>1. CASE SucceedHalfOpen(c)
  BY <1>1 DEF SucceedHalfOpen
<1>2. CASE Succeed(c)
  BY <1>2 DEF Succeed
<1>3. CASE FailHalfOpen(c)
  BY <1>3 DEF FailHalfOpen
<1>4. CASE Fail(c)
  BY <1>4 DEF Fail
<1> QED BY <1>1, <1>2, <1>3, <1>4 DEF End

\* If no probe can be cancelled or closed without reporting, the half-open flag always
\* belongs to a probe in flight, so that some result is still to come that clears it.
THEOREM ProbeIsBacked ==
    ASSUME "probe" \notin Abandoned
    PROVE  Spec => []ProbeBacked
<1>1. Init => ProbeBacked
  BY DEF Init, ProbeBacked
<1>2. TypeOK /\ ProbeBacked /\ [Next]_vars => ProbeBacked'
  <2> SUFFICES ASSUME TypeOK, ProbeBacked, [Next]_vars PROVE ProbeBacked'
    OBVIOUS
  <2>1. ASSUME NEW c \in Calls, Begin(c) PROVE ProbeBacked'
    <3>1. CASE BeginNormal(c)
      BY <2>1, <3>1 DEF BeginNormal, ProbeBacked, InFlight, TypeOK
    <3>2. CASE BeginFirstProbe(c)
      BY <2>1, <3>2 DEF BeginFirstProbe, ProbeBacked, InFlight, TypeOK
    <3>3. CASE BeginNextProbe(c)
      BY <2>1, <3>3 DEF BeginNextProbe, ProbeBacked, InFlight, TypeOK
    <3> QED BY <2>1, <3>1, <3>2, <3>3 DEF Begin
  <2>2. ASSUME NEW c \in Calls, End(c) PROVE ProbeBacked'
    BY <2>2, EndProbe
  <2>3. ASSUME NEW c \in Calls, Abandon(c) PROVE ProbeBacked'
    <3>1. call[c] # "probe"
      BY <2>3 DEF Abandon
    <3>2. InFlight("probe") \subseteq InFlight("probe")'
      BY <2>3, <3>1 DEF Abandon, Finish, InFlight, TypeOK
    <3> QED BY <2>3, <3>2 DEF Abandon, ProbeBacked
  <2>4. CASE Elapse \/ GoesDown \/ ComesBack
    BY <2>4 DEF Elapse, GoesDown, ComesBack, ProbeBacked, InFlight
  <2>5. CASE UNCHANGED vars
    BY <2>5 DEF vars, ProbeBacked, InFlight
  <2> QED BY <2>1, <2>2, <2>3, <2>4, <2>5 DEF Next
<1> QED BY <1>1, <1>2, TypeCorrect, PTL DEF Spec

=============================================================================
