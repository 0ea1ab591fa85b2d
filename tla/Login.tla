------------------------------- MODULE Login -------------------------------
(***************************************************************************)
(* Logins of one WeChat user from one address: the limiter counts them in a *)
(* window of time, WeChat turns a code into the user and another code into  *)
(* a phone number, and the row of the user is created or filled in.         *)
(***************************************************************************)
EXTENDS Integers, FiniteSets

CONSTANTS
    Logins,      \* login requests
    Numbers,     \* the phone numbers of the user, MockNumber among them
    NoNumber,    \* for a login, or a row, without one
    MockNumber,  \* what stands for a number where WeChat is not configured
    LoginLimit,  \* logins of an address in a window
    MaxWindows   \* bound: windows of time

LoginAssumption == /\ IsFiniteSet(Logins)
                   /\ LoginLimit \in Nat \ {0} /\ MaxWindows \in Nat
                   /\ MockNumber \in Numbers /\ NoNumber \notin Numbers

VARIABLES
    real,      \* whether WeChat is configured
    counting,  \* whether Redis answers
    clock,     \* the window of time it is
    counter,   \* the counters in Redis, one for each window
    account,   \* the row of the user, as committed
    verified,  \* the numbers WeChat has returned
    login,     \* each login: its step, its window, what it learned and what it read
    admitted,  \* how many logins the limiter has admitted, in each window
    failedOpen \* the windows in which a login went past the limiter uncounted

vars == <<real, counting, clock, counter, account, verified, login, admitted, failedOpen>>

Windows == 0..MaxWindows
NoAccount == [exists |-> FALSE, union |-> FALSE, number |-> NoNumber]
AccountType == [exists : BOOLEAN, union : BOOLEAN, number : Numbers \cup {NoNumber}]
Ends == {"in", "limited", "failed"}
LoginType == [pc : {"new", "count", "session", "phone", "read", "write"} \cup Ends,
              window : Windows, union : BOOLEAN, number : Numbers \cup {NoNumber},
              found : AccountType]

TypeOK == /\ real \in BOOLEAN /\ counting \in BOOLEAN
          /\ clock \in Windows
          /\ counter \in [Windows -> 0..Cardinality(Logins)]
          /\ account \in AccountType
          /\ verified \subseteq Numbers
          /\ login \in [Logins -> LoginType]
          /\ admitted \in [Windows -> 0..Cardinality(Logins)]
          /\ failedOpen \subseteq Windows

Init == /\ real \in BOOLEAN /\ counting = TRUE
        /\ clock = 0
        /\ counter = [w \in Windows |-> 0]
        /\ account = NoAccount
        /\ verified = {}
        /\ login = [l \in Logins |-> [pc |-> "new", window |-> 0, union |-> FALSE,
                                      number |-> NoNumber, found |-> NoAccount]]
        /\ admitted = [w \in Windows |-> 0]
        /\ failedOpen = {}

At(l, pc) == login[l].pc = pc
GoTo(l, pc) == login' = [login EXCEPT ![l].pc = pc]

-----------------------------------------------------------------------------
(* The limiter                                                              *)

\* The window is computed before Redis is asked.
Arrive(l) ==
    /\ At(l, "new")
    /\ login' = [login EXCEPT ![l].pc = "count", ![l].window = clock]
    /\ UNCHANGED <<real, counting, clock, counter, account, verified, admitted, failedOpen>>

WithinLimit(count) == count <= LoginLimit

\* INCR tells the new count; without Redis the login goes on.
Count(l) ==
    LET w == login[l].window
        count == counter[w] + 1
    IN  /\ At(l, "count")
        /\ IF counting
           THEN /\ counter' = [counter EXCEPT ![w] = count]
                /\ IF WithinLimit(count)
                   THEN /\ GoTo(l, "session")
                        /\ admitted' = [admitted EXCEPT ![w] = @ + 1]
                   ELSE GoTo(l, "limited") /\ UNCHANGED admitted
                /\ UNCHANGED failedOpen
           ELSE /\ GoTo(l, "session")
                /\ admitted' = [admitted EXCEPT ![w] = @ + 1]
                /\ failedOpen' = failedOpen \cup {w}
                /\ UNCHANGED counter
        /\ UNCHANGED <<real, counting, clock, account, verified>>

-----------------------------------------------------------------------------
(* WeChat                                                                   *)

Fail(l) == /\ GoTo(l, "failed")
           /\ UNCHANGED <<real, counting, clock, counter, account, verified, admitted, failedOpen>>

\* jscode2session: the user and perhaps the union id; a mock knows no union id.  A timeout,
\* an error code and a reply without an openid fail the login, and so does a blank code.
ExchangeCode(l) ==
    /\ At(l, "session")
    /\ \/ /\ \E union \in IF real THEN BOOLEAN ELSE {FALSE} :
               login' = [login EXCEPT ![l].pc = "phone", ![l].union = union]
          /\ UNCHANGED <<real, counting, clock, counter, account, verified, admitted, failedOpen>>
       \/ Fail(l)

\* The second code, when there is one, is exchanged for a number, with a token of the
\* application; before anything is read or written.
ResolvePhone(l) ==
    /\ At(l, "phone")
    /\ \/ /\ \E n \in (IF real THEN Numbers ELSE {MockNumber}) \cup {NoNumber} :
               /\ login' = [login EXCEPT ![l].pc = "read", ![l].number = n]
               /\ verified' = verified \cup ({n} \ {NoNumber})
          /\ UNCHANGED <<real, counting, clock, counter, account, admitted, failedOpen>>
       \/ real /\ Fail(l)

-----------------------------------------------------------------------------
(* The row                                                                  *)

ReadAccount(l) ==
    /\ At(l, "read")
    /\ login' = [login EXCEPT ![l].pc = "write", ![l].found = account]
    /\ UNCHANGED <<real, counting, clock, counter, account, verified, admitted, failedOpen>>

\* Seeded bug: the number of the request is stored, whether or not it came with one.
FilledAlways(found, union, number) ==
    [union |-> union /\ ~found.union, number |-> number # found.number]

\* Which columns of the row that was read are written: a union id it lacks, and a number
\* that was verified and differs.
Filled(found, union, number) ==
    [union  |-> union /\ ~found.union,
     number |-> number # NoNumber /\ number # found.number]

\* A row that was not there is inserted, unless another login was faster (openid is unique);
\* of one that was, the changed columns are written.  Then the token is issued.
WriteAccount(l) ==
    LET me == login[l]
        fill == Filled(me.found, me.union, me.number)
    IN  /\ At(l, "write")
        /\ IF ~me.found.exists
           THEN IF account.exists
                THEN GoTo(l, "failed") /\ UNCHANGED account
                ELSE /\ account' = [exists |-> TRUE, union |-> me.union, number |-> me.number]
                     /\ GoTo(l, "in")
           ELSE /\ account' = [account EXCEPT !.union = @ \/ fill.union,
                                              !.number = IF fill.number THEN me.number ELSE @]
                /\ GoTo(l, "in")
        /\ UNCHANGED <<real, counting, clock, counter, verified, admitted, failedOpen>>

-----------------------------------------------------------------------------
(* Surroundings                                                             *)

Tick == /\ clock < MaxWindows
        /\ clock' = clock + 1
        /\ UNCHANGED <<real, counting, counter, account, verified, login, admitted, failedOpen>>

RedisFailsOrReturns ==
    /\ counting' = ~counting
    /\ UNCHANGED <<real, clock, counter, account, verified, login, admitted, failedOpen>>

Next == \/ \E l \in Logins : \/ Arrive(l) \/ Count(l) \/ ExchangeCode(l)
                             \/ ResolvePhone(l) \/ ReadAccount(l) \/ WriteAccount(l)
        \/ Tick \/ RedisFailsOrReturns

Spec == Init /\ [][Next]_vars

-----------------------------------------------------------------------------
(* Properties                                                               *)

(* No window admits more logins than the limit unless Redis failed in it,    *)
(* however late a login counts itself (IPRateLimiter.__call__).              *)
LimitKept == \A w \in Windows \ failedOpen : admitted[w] <= LoginLimit

(* Whoever is in has a row; the number in the row is one that WeChat         *)
(* returned; a login that brought one leaves the user with a number, and     *)
(* neither a later login without one nor one that fails takes it away; the   *)
(* same holds of the union id (login_with_wechat_code).                      *)
AccountTrue ==
    /\ account.number \in verified \cup {NoNumber}
    /\ \A l \in Logins : At(l, "in") =>
         /\ account.exists
         /\ login[l].number # NoNumber => account.number # NoNumber
         /\ login[l].union => account.union
=============================================================================
