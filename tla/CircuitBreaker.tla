---------------------------- MODULE CircuitBreaker ----------------------------
(***************************************************************************)
(* ai/circuit_breaker.py: one CircuitBreaker and the coroutines that share  *)
(* it.  Each method holds an asyncio.Lock and awaits nothing inside, so it  *)
(* is one step; calls that were admitted run concurrently and report their  *)
(* result to whatever state the breaker is in by then.  A call that ends    *)
(* with CancelledError or GeneratorExit reports nothing at all: protect()   *)
(* catches Exception, and those are not.                                    *)
(***************************************************************************)
EXTENDS Integers

CONSTANTS
    Calls,            \* coroutines that use the breaker, each one call at a time
    FailureThreshold, \* failure_threshold
    SuccessThreshold, \* success_threshold
    Abandoned         \* the kinds of calls that may be cancelled or closed

ASSUME ThresholdsAssumption ==
    /\ FailureThreshold \in Nat \ {0}
    /\ SuccessThreshold \in Nat \ {0}
    /\ Abandoned \subseteq {"normal", "probe"}

VARIABLES
    state,        \* _state
    failureCount, \* _failure_count
    successCount, \* _success_count
    openedAt,     \* _opened_at: None, within recovery_timeout, or longer ago than that
    probing,      \* _half_open_probe_in_flight
    call,         \* the call each coroutine has in flight, and whether it is a probe
    provider      \* the AI provider answers, or does not

counts == <<failureCount, successCount>>
vars   == <<state, counts, openedAt, probing, call, provider>>

\* The type invariant.
TypeOK ==
    /\ state \in {"CLOSED", "OPEN", "HALF_OPEN"}
    /\ failureCount \in Nat
    /\ successCount \in Nat
    /\ openedAt \in {"none", "recent", "elapsed"}
    /\ probing \in BOOLEAN
    /\ call \in [Calls -> {"none", "normal", "probe"}]
    /\ provider \in {"up", "down"}

Init ==
    /\ state = "CLOSED"
    /\ failureCount = 0
    /\ successCount = 0
    /\ openedAt = "none"
    /\ probing = FALSE
    /\ call = [c \in Calls |-> "none"]
    /\ provider = "up"

-----------------------------------------------------------------------------
(* _before_call; a call it rejects changes nothing                          *)

BeginNormal(c) ==
    /\ call[c] = "none"
    /\ state = "CLOSED"
    /\ call' = [call EXCEPT ![c] = "normal"]
    /\ UNCHANGED <<state, counts, openedAt, probing, provider>>

CanProbe == openedAt = "elapsed"

\* OPEN for long enough: half-open, and this call is the probe.
BeginFirstProbe(c) ==
    /\ call[c] = "none"
    /\ state = "OPEN"
    /\ CanProbe
    /\ state' = "HALF_OPEN"
    /\ successCount' = 0
    /\ probing' = TRUE
    /\ call' = IF probing THEN call ELSE [call EXCEPT ![c] = "probe"]
    /\ UNCHANGED <<failureCount, openedAt, provider>>

\* HALF_OPEN already: the next probe, unless one is in flight.
BeginNextProbe(c) ==
    /\ call[c] = "none"
    /\ state = "HALF_OPEN"
    /\ ~probing
    /\ probing' = TRUE
    /\ call' = [call EXCEPT ![c] = "probe"]
    /\ UNCHANGED <<state, counts, openedAt, provider>>

-----------------------------------------------------------------------------
(* _record_success, _record_failure: of any call, in any state              *)

Finish(c) == /\ call[c] # "none"
             /\ call' = [call EXCEPT ![c] = "none"]

\* _open
Open == /\ state' = "OPEN"
        /\ successCount' = 0
        /\ openedAt' = "recent"

\* Seeded bugs: the flag of a probe that has ended is left set ...
SucceedHalfOpenKeepsFlag(c) ==
    /\ Finish(c)
    /\ provider = "up"
    /\ state = "HALF_OPEN"
    /\ IF successCount + 1 >= SuccessThreshold
         THEN /\ state' = "CLOSED"
              /\ failureCount' = 0
              /\ successCount' = 0
              /\ openedAt' = "none"
         ELSE /\ successCount' = successCount + 1
              /\ UNCHANGED <<state, failureCount, openedAt>>
    /\ UNCHANGED <<probing, provider>>

FailHalfOpenKeepsFlag(c) ==
    /\ Finish(c)
    /\ provider = "down"
    /\ state = "HALF_OPEN"
    /\ Open
    /\ UNCHANGED <<failureCount, probing, provider>>

\* ... a success takes back one failure ...
SucceedTakesOne(c) ==
    /\ Finish(c)
    /\ provider = "up"
    /\ state # "HALF_OPEN"
    /\ failureCount' = failureCount - 1
    /\ UNCHANGED <<state, successCount, openedAt, probing, provider>>

\* ... and the breaker opens one failure late.
FailLate(c) ==
    /\ Finish(c)
    /\ provider = "down"
    /\ state # "HALF_OPEN"
    /\ failureCount' = failureCount + 1
    /\ IF failureCount + 1 > FailureThreshold
         THEN Open
         ELSE UNCHANGED <<state, successCount, openedAt>>
    /\ UNCHANGED <<probing, provider>>

\* A success in HALF_OPEN ends the probing, and closes the breaker if it is the last.
SucceedHalfOpen(c) ==
    /\ Finish(c)
    /\ provider = "up"
    /\ state = "HALF_OPEN"
    /\ probing' = FALSE
    /\ IF successCount + 1 >= SuccessThreshold
         THEN /\ state' = "CLOSED"
              /\ failureCount' = 0
              /\ successCount' = 0
              /\ openedAt' = "none"
         ELSE /\ successCount' = successCount + 1
              /\ UNCHANGED <<state, failureCount, openedAt>>
    /\ UNCHANGED provider

\* Elsewhere it forgets the failures: failures count only while they are consecutive.
Succeed(c) ==
    /\ Finish(c)
    /\ provider = "up"
    /\ state # "HALF_OPEN"
    /\ failureCount' = 0
    /\ UNCHANGED <<state, successCount, openedAt, probing, provider>>

FailHalfOpen(c) ==
    /\ Finish(c)
    /\ provider = "down"
    /\ state = "HALF_OPEN"
    /\ probing' = FALSE
    /\ Open
    /\ UNCHANGED <<failureCount, provider>>

\* In OPEN too: the failure of a call admitted earlier starts the timeout again.
Fail(c) ==
    /\ Finish(c)
    /\ provider = "down"
    /\ state # "HALF_OPEN"
    /\ failureCount' = failureCount + 1
    /\ IF failureCount + 1 >= FailureThreshold
         THEN Open
         ELSE UNCHANGED <<state, successCount, openedAt>>
    /\ UNCHANGED <<probing, provider>>

\* CancelledError, or the GeneratorExit of a stream nobody reads to its end.
Abandon(c) ==
    /\ call[c] \in Abandoned
    /\ Finish(c)
    /\ UNCHANGED <<state, counts, openedAt, probing, provider>>

-----------------------------------------------------------------------------
(* The environment                                                          *)

\* recovery_timeout passes.
Elapse ==
    /\ openedAt = "recent"
    /\ openedAt' = "elapsed"
    /\ UNCHANGED <<state, counts, probing, call, provider>>

GoesDown == /\ provider = "up" /\ provider' = "down"
            /\ UNCHANGED <<state, counts, openedAt, probing, call>>

ComesBack == /\ provider = "down" /\ provider' = "up"
             /\ UNCHANGED <<state, counts, openedAt, probing, call>>

Begin(c) == BeginNormal(c) \/ BeginFirstProbe(c) \/ BeginNextProbe(c)
End(c)   == SucceedHalfOpen(c) \/ Succeed(c) \/ FailHalfOpen(c) \/ Fail(c)

Next == \/ \E c \in Calls : Begin(c) \/ End(c) \/ Abandon(c)
        \/ Elapse
        \/ GoesDown
        \/ ComesBack

Spec == Init /\ [][Next]_vars

\* Time passes, calls get their answer, and requests keep coming.
FairSpec == /\ Spec
            /\ WF_vars(Elapse)
            /\ \A c \in Calls : WF_vars(End(c))
            /\ WF_vars(\E c \in Calls : Begin(c))

-----------------------------------------------------------------------------
(* Properties                                                               *)

InFlight(kind) == {c \in Calls : call[c] = kind}

\* The half-open flag is set for a probe that is in flight.  A flag without its probe
\* rejects every call for ever, as nothing else resets it.
ProbeBacked == probing => state = "HALF_OPEN" /\ InFlight("probe") # {}

\* The counters agree with the state whatever late results arrive: no breaker is closed
\* with the failures that should have opened it, half-open with the successes that should
\* have closed it, or open without the time that lets it probe.
CountersAgree ==
    /\ state = "CLOSED"    => failureCount < FailureThreshold
    /\ state = "HALF_OPEN" => successCount < SuccessThreshold
    /\ state = "OPEN"      => openedAt # "none"

\* The breaker closes again when the provider is back for good and requests keep coming.
Recovers == <>[](provider = "up") => <>[](state = "CLOSED")

=============================================================================
