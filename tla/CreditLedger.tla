---------------------------- MODULE CreditLedger ----------------------------
(***************************************************************************)
(* The users rows and their credits: every transaction of the backend that  *)
(* changes users.credit_balance, run side by side.  The charge of a run     *)
(* request under the per-user limit, a refund by a worker, the daily login  *)
(* reward, the notification of a paid Plus order, and a first login with    *)
(* its welcome credits and referral rewards.                                *)
(*                                                                          *)
(* A session reads a users row once and keeps it (expire_on_commit and      *)
(* autoflush are off, nothing is read FOR UPDATE).  CreditService changes   *)
(* the copy and its flush writes the copy's absolute balance with the       *)
(* ledger entry, whatever the row holds by then.  The UPDATE locks the row  *)
(* until the transaction ends; the copy was read before that.               *)
(***************************************************************************)
EXTENDS Integers, FiniteSets

CONSTANTS
    Users,        \* openids
    Requests,     \* sessions: HTTP requests, notifications and worker refunds, numbered
                  \* in the order they begin
    Nobody,       \* no request, or no user
    Evaluations,
    OwnerOf,      \* the user of each evaluation
    Orders,       \* Plus orders
    BuyerOf,      \* the user of each order
    Existing,     \* users whose row is there initially
    Cost,         \* what a run of an evaluation costs
    MaxRunning,   \* settings.max_running_evaluations_per_user
    MaxDay        \* bound: the UTC days that pass

NEW_USER_WELCOME_CREDITS    == 50
REFERRED_USER_BONUS_CREDITS == 20
REFERRER_BONUS_CREDITS      == 20
DailyReward                 == 10
PlusAward                   == 500

ASSUME LedgerAssumption ==
    /\ IsFiniteSet(Evaluations) /\ IsFiniteSet(Orders)
    /\ Requests \subseteq Nat
    /\ Nobody \notin Users \cup Requests
    /\ OwnerOf \in [Evaluations -> Users]
    /\ BuyerOf \in [Orders -> Users]
    /\ Existing \subseteq Users
    /\ Cost \in Nat \ {0}
    /\ MaxRunning \in Nat
    /\ MaxDay \in Nat

VARIABLES
    user,        \* the users rows
    ledger,      \* each user's credit_transactions, as far as they are asked about
    evaluation,  \* status of each evaluation
    order,       \* status of each plus_orders row
    session,     \* the sessions and the copies they hold
    lock,        \* session whose open transaction has written the users row
    day,         \* the UTC date
    overwritten, \* ghost: users whose balance was written from an outdated copy
    raced        \* ghost: runs of a user started on an outdated count

vars == <<user, ledger, evaluation, order, session, lock, day, overwritten, raced>>

NoRow == [exists |-> FALSE, balance |-> 0, plus |-> 0]
Copies == [Users -> [exists : BOOLEAN, balance : Int, plus : Nat]]

Idle == [pc |-> "idle", op |-> "none", user |-> Nobody, other |-> Nobody, target |-> Nobody,
         copy |-> [u \in Users |-> NoRow], posted |-> [u \in Users |-> 0],
         outdated |-> {}, today |-> 0, late |-> FALSE]

Sessions == [pc : {"idle", "open", "ready", "insert", "referral", "posted", "end"},
             op : {"none", "charge", "refund", "daily", "plus", "login"},
             user : Users \cup {Nobody}, other : Users \cup {Nobody},
             target : Evaluations \cup Orders \cup {Nobody},
             copy : Copies,               \* the rows as the session holds them
             posted : [Users -> Int],     \* amounts of the entries it has flushed
             outdated : SUBSET Users,     \* ghost: rows committed since it read them
             today : 0..MaxDay,
             late : BOOLEAN]              \* ghost: another run started since it counted

\* The type invariant.
TypeOK ==
    /\ user \in Copies
    /\ ledger \in [Users -> [sum : Int, welcomes : Nat, rewards : Nat, rewardDay : 0..MaxDay,
                             plus : Nat]]
    /\ evaluation \in [Evaluations -> {"pending", "running", "done", "failed"}]
    /\ order \in [Orders -> {"none", "pending", "paid"}]
    /\ session \in [Requests -> Sessions]
    /\ lock \in [Users -> Requests \cup {Nobody}]
    /\ day \in 0..MaxDay
    /\ overwritten \in SUBSET Users
    /\ raced \in [Users -> Nat]

Init ==
    /\ user = [u \in Users |-> IF u \in Existing
                               THEN [NoRow EXCEPT !.exists  = TRUE,
                                                  !.balance = NEW_USER_WELCOME_CREDITS]
                               ELSE NoRow]
    /\ ledger = [u \in Users |-> [sum       |-> user[u].balance,
                                  welcomes  |-> IF u \in Existing THEN 1 ELSE 0,
                                  rewards   |-> 0, rewardDay |-> 0, plus |-> 0]]
    /\ evaluation = [e \in Evaluations |-> "pending"]
    /\ order = [o \in Orders |-> "none"]
    /\ session = [r \in Requests |-> Idle]
    /\ lock = [u \in Users |-> Nobody]
    /\ day = 0
    /\ overwritten = {}
    /\ raced = [u \in Users |-> 0]

Rows   == <<user, ledger, evaluation, order>>
Ghosts == <<overwritten, raced>>

\* A session that has read rows only: what it holds and where it stands.
Moves(r, s) == /\ session' = [session EXCEPT ![r] = s]
               /\ UNCHANGED <<Rows, lock, day, Ghosts>>

-----------------------------------------------------------------------------
(* The sessions, up to the point where they write                           *)

\* deduct, refund, award: the copy in memory and the entry that goes with it.
Post(s, u, amount) == [s EXCEPT !.copy[u].balance = @ + amount, !.posted[u] = @ + amount]

\* get_current_user of a POST: the row is read, never the cache.
Authenticate(r, u, op, e) ==
    /\ session[r].pc = "idle"
    /\ user[u].exists
    /\ \/ op = "charge" /\ e \in Evaluations /\ OwnerOf[e] = u
       \/ op = "daily" /\ e = Nobody
    /\ Moves(r, [Idle EXCEPT !.pc = "open", !.op = op, !.user = u, !.target = e,
                             !.today = day, !.copy[u] = user[u]])

Running(u) == {e \in Evaluations : OwnerOf[e] = u /\ evaluation[e] = "running"}

\* Seeded bugs: the limit is off by one; the balance is not looked at.
AdmitsOneMore(s) == /\ evaluation[s.target] \in {"pending", "failed"}
                    /\ Cardinality(Running(s.user)) <= MaxRunning
                    /\ s.copy[s.user].balance >= Cost
AdmitsUnpaid(s)  == /\ evaluation[s.target] \in {"pending", "failed"}
                    /\ Cardinality(Running(s.user)) < MaxRunning

\* What run_evaluation refuses: by status, by the other runs, by the balance held.
Admits(s) == /\ evaluation[s.target] \in {"pending", "failed"}
             /\ Cardinality(Running(s.user)) < MaxRunning
             /\ s.copy[s.user].balance >= Cost

\* run_evaluation up to the deduction's flush.
ChargeCheck(r) ==
    LET s == session[r] IN
    /\ s.pc = "open" /\ s.op = "charge"
    /\ Moves(r, IF Admits(s) THEN [Post(s, s.user, -Cost) EXCEPT !.pc = "ready"]
                             ELSE [Idle EXCEPT !.pc = "end"])

\* Seeded bug: the date of the latest reward is not looked at.
RewardAlwaysDue(s) == s.op = "daily"

\* No daily_login entry, or the latest is not of the date the request began on.
RewardDue(s) == \/ ledger[s.user].rewards = 0
                \/ ledger[s.user].rewardDay # s.today

\* claim_daily_login_reward up to the award's flush.
DailyCheck(r) ==
    LET s == session[r] IN
    /\ s.pc = "open" /\ s.op = "daily"
    /\ Moves(r, IF RewardDue(s) THEN [Post(s, s.user, DailyReward) EXCEPT !.pc = "ready"]
                                ELSE [Idle EXCEPT !.pc = "end"])

\* _refund_failed_credits reads the user of an evaluation that failed.
BeginRefund(r, e) ==
    LET u == OwnerOf[e] IN
    /\ session[r].pc = "idle"
    /\ evaluation[e] = "failed"
    /\ user[u].exists
    /\ Moves(r, Post([Idle EXCEPT !.pc = "ready", !.op = "refund", !.user = u, !.target = e,
                                  !.copy[u] = user[u]], u, Cost))

\* Seeded bug: the year is subtracted.
ExtendBack(row)  == [row EXCEPT !.plus = @ - 1]

\* One more year, from now or from the end of the year paid before.
Extend(row) == [row EXCEPT !.plus = @ + 1]

\* wechat_pay_notify of a payment: nothing looks at the order's own status.
BeginPlus(r, o) ==
    LET u == BuyerOf[o] IN
    /\ session[r].pc = "idle"
    /\ order[o] # "none"
    /\ Moves(r, Post([Idle EXCEPT !.pc = "ready", !.op = "plus", !.user = u, !.target = o,
                                  !.copy[u] = Extend(user[u])], u, PlusAward))

\* login_with_wechat_code finds no user, whom a link of ref may have brought here.
BeginLogin(r, u, ref) ==
    /\ session[r].pc = "idle"
    /\ ~user[u].exists
    /\ Moves(r, [Idle EXCEPT !.pc = "insert", !.op = "login", !.user = u, !.other = ref])

\* Seeded bug: initialize is left to its default amount.
WelcomeDefault(s, u) == [s EXCEPT !.copy[u] = [NoRow EXCEPT !.exists  = TRUE,
                                                            !.balance = NEW_USER_WELCOME_CREDITS],
                                  !.posted[u] = 1000]

\* users.create with the welcome credits, and initialize, which only writes the entry.
Welcome(s, u) == [s EXCEPT !.copy[u] = [NoRow EXCEPT !.exists  = TRUE,
                                                     !.balance = NEW_USER_WELCOME_CREDITS],
                           !.posted[u] = NEW_USER_WELCOME_CREDITS]

\* The INSERT waits for another one of the same openid, and fails if that committed.
Insert(r) ==
    LET s == session[r] IN
    /\ s.pc = "insert"
    /\ lock[s.user] = Nobody
    /\ IF user[s.user].exists
       THEN Moves(r, [Idle EXCEPT !.pc = "end"])
       ELSE /\ lock' = [lock EXCEPT ![s.user] = r]
            /\ session' = [session EXCEPT ![r] = [Welcome(s, s.user) EXCEPT !.pc = "referral"]]
            /\ UNCHANGED <<Rows, day, Ghosts>>

\* _apply_referral_rewards, up to the flush of the referrer's award.
Referral(r) ==
    LET s   == session[r]
        ref == s.other
    IN  /\ s.pc = "referral"
        /\ Moves(r, IF ref \in Users \ {s.user} /\ user[ref].exists
                    THEN Post(Post([s EXCEPT !.pc = "ready", !.copy[ref] = user[ref]],
                                   s.user, REFERRED_USER_BONUS_CREDITS),
                              ref, REFERRER_BONUS_CREDITS)
                    ELSE [s EXCEPT !.pc = "posted"])

-----------------------------------------------------------------------------
(* Flush, commit, rollback                                                  *)

Target(s) == IF s.op = "login" THEN s.other ELSE s.user

\* The UPDATE takes the row lock, the ledger entry gets the date of now.
Flush(r) ==
    LET s == session[r] IN
    /\ s.pc = "ready"
    /\ lock[Target(s)] = Nobody
    /\ lock' = [lock EXCEPT ![Target(s)] = r]
    /\ session' = [session EXCEPT ![r].pc = "posted", ![r].today = day]
    /\ UNCHANGED <<Rows, day, Ghosts>>

Written(s) == {u \in Users : s.posted[u] # 0}

Unlocked(r) == [u \in Users |-> IF lock[u] = r THEN Nobody ELSE lock[u]]

\* Only the columns a session changed are written: the membership by a payment alone.
RowAfter(s, u) == [s.copy[u] EXCEPT !.plus = IF s.op = "plus" THEN @ ELSE user[u].plus]

LedgerAfter(s, u) ==
    LET l == ledger[u] IN
    [sum       |-> l.sum + s.posted[u],
     welcomes  |-> l.welcomes + IF s.op = "login" /\ u = s.user THEN 1 ELSE 0,
     rewards   |-> IF s.op # "daily" THEN l.rewards
                   ELSE IF l.rewardDay = s.today THEN l.rewards + 1 ELSE 1,
     rewardDay |-> IF s.op = "daily" THEN s.today ELSE l.rewardDay,
     plus      |-> l.plus + IF s.op = "plus" THEN 1 ELSE 0]

\* What the sessions t still hold of the rows that s commits.
SeenBy(t, s) == [t EXCEPT !.outdated = @ \cup {u \in Written(s) : t.copy[u].exists},
                          !.late = @ \/ (s.op = "charge" /\ t.op = "charge"
                                         /\ t.user = s.user /\ t.pc \in {"ready", "posted"})]

Commit(r) ==
    LET s == session[r] IN
    /\ s.pc = "posted"
    /\ user' = [u \in Users |-> IF u \in Written(s) THEN RowAfter(s, u) ELSE user[u]]
    /\ ledger' = [u \in Users |-> IF u \in Written(s) THEN LedgerAfter(s, u) ELSE ledger[u]]
    /\ evaluation' = [e \in Evaluations |-> IF s.op = "charge" /\ e = s.target
                                            THEN "running" ELSE evaluation[e]]
    /\ order' = [o \in Orders |-> IF s.op = "plus" /\ o = s.target THEN "paid" ELSE order[o]]
    /\ session' = [t \in Requests |-> IF t = r THEN [Idle EXCEPT !.pc = "end"]
                                               ELSE SeenBy(session[t], s)]
    /\ lock' = Unlocked(r)
    /\ overwritten' = overwritten \cup (Written(s) \cap s.outdated)
    /\ raced' = [u \in Users |-> raced[u] + IF s.op = "charge" /\ s.late /\ u = s.user
                                            THEN 1 ELSE 0]
    /\ UNCHANGED day

\* Seeded bug: a transaction that fails is left open.
AbortKeepsLock(r) ==
    /\ session[r].pc \in {"referral", "ready", "posted"}
    /\ Moves(r, [Idle EXCEPT !.pc = "end"])

\* An exception after the first write: get_db_session rolls back.  Before it there is
\* nothing to undo.
Abort(r) ==
    /\ session[r].pc \in {"referral", "ready", "posted"}
    /\ lock' = Unlocked(r)
    /\ session' = [session EXCEPT ![r] = [Idle EXCEPT !.pc = "end"]]
    /\ UNCHANGED <<Rows, day, Ghosts>>

-----------------------------------------------------------------------------
(* What goes on around the sessions                                         *)

\* create_plus_order: the prepay order at WeChat, then the pending row.
CreateOrder(o) ==
    /\ order[o] = "none"
    /\ user[BuyerOf[o]].exists
    /\ order' = [order EXCEPT ![o] = "pending"]
    /\ UNCHANGED <<user, ledger, evaluation, session, lock, day, Ghosts>>

\* A run ends; one that failed may be refunded, and run again.
Ends(e, status) ==
    /\ evaluation[e] = "running"
    /\ evaluation' = [evaluation EXCEPT ![e] = status]
    /\ UNCHANGED <<user, ledger, order, session, lock, day, Ghosts>>

Midnight ==
    /\ day < MaxDay
    /\ day' = day + 1
    /\ UNCHANGED <<Rows, session, lock, Ghosts>>

Begin(r) ==
    /\ \A q \in Requests : q < r => session[q].pc # "idle"
    /\ \/ \E u \in Users : \/ \E e \in Evaluations : Authenticate(r, u, "charge", e)
                           \/ Authenticate(r, u, "daily", Nobody)
                           \/ \E ref \in Users \cup {Nobody} : BeginLogin(r, u, ref)
       \/ \E e \in Evaluations : BeginRefund(r, e)
       \/ \E o \in Orders : BeginPlus(r, o)

Continue(r) == \/ ChargeCheck(r) \/ DailyCheck(r) \/ Insert(r) \/ Referral(r)
               \/ Flush(r) \/ Commit(r)

Next == \/ \E r \in Requests : Begin(r) \/ Continue(r) \/ Abort(r)
        \/ \E o \in Orders : CreateOrder(o)
        \/ \E e \in Evaluations : \E status \in {"done", "failed"} : Ends(e, status)
        \/ Midnight

Spec == Init /\ [][Next]_vars

\* A session that has begun goes on; nobody has to begin one.
FairSpec == Spec /\ \A r \in Requests : WF_vars(Continue(r))

-----------------------------------------------------------------------------
(* Properties                                                               *)

\* CreditService keeps a denormalised balance beside the ledger: as long as no session
\* wrote a user's balance from a copy another one had outdated, it is the sum of the
\* user's entries, over charges, refunds, rewards, payments and the first login.
BalanceIsSum == \A u \in Users \ overwritten : user[u].balance = ledger[u].sum

\* No balance becomes negative, not even when requests overwrite each other: the
\* request that deducts has checked the very copy it writes.
NeverNegative == \A u \in Users : user[u].balance >= 0

\* POST /credits/daily-login: "once per user per day", unless two claims overlapped,
\* and over midnight too.
OneRewardPerDay == \A u \in Users \ overwritten : ledger[u].rewards <= 1

\* max_running_evaluations_per_user holds up to the runs that counted too early.
RunningBound == \A u \in Users : Cardinality(Running(u)) <= MaxRunning + raced[u]

\* Every payment that is notified gives a year and its credits together, and an order
\* marked paid has given them at least once.
PlusMatchesPayments ==
    \A u \in Users :
        /\ u \notin overwritten => user[u].plus = ledger[u].plus
        /\ ledger[u].plus >= Cardinality({o \in Orders : BuyerOf[o] = u /\ order[o] = "paid"})

\* The welcome credits are given once to each user, however many first logins of one
\* openid overlap.
WelcomeOnce == \A u \in Users : ledger[u].welcomes = IF user[u].exists THEN 1 ELSE 0

\* What is awarded is backed: the reward by a day, the years and the credits by payments,
\* the welcome by a new row.
AwardsBacked == OneRewardPerDay /\ PlusMatchesPayments /\ WelcomeOnce

\* No two sessions wait for each other's row: every one that has begun ends, though a
\* login holds its own new row while it waits for the referrer's.
SessionsEnd == \A r \in Requests : session[r].pc # "idle" ~> session[r].pc = "end"

=============================================================================
