------------------------- MODULE CreditLedgerProofs -------------------------
(***************************************************************************)
(* Proofs about CreditLedger, for any number of users, sessions,            *)
(* evaluations and orders, any cost and any number of days.                 *)
(***************************************************************************)
EXTENDS CreditLedger, FiniteSetTheorems, TLAPS

-----------------------------------------------------------------------------
(* What the operators on sessions return                                    *)

\* A session that holds nothing.
LEMMA IdleType ==
    /\ Idle \in Sessions
    /\ Idle.today = 0
    /\ \A u \in Users : /\ Idle.posted[u] = 0
                        /\ Idle.copy[u] = NoRow
    /\ NoRow \in [exists : BOOLEAN, balance : Int, plus : Nat]
  BY LedgerAssumption DEF Idle, Sessions, Copies, NoRow

\* Posting adds the amount to the copy of one user, and to the session's entries.
LEMMA PostHolds ==
    ASSUME NEW s \in Sessions, NEW u \in Users, NEW amount \in Int
    PROVE  LET p == Post(s, u, amount) IN
           /\ p \in Sessions
           /\ p.pc = s.pc /\ p.op = s.op /\ p.user = s.user /\ p.outdated = s.outdated
           /\ p.target = s.target /\ p.other = s.other /\ p.today = s.today /\ p.late = s.late
           /\ \A v \in Users :
                 /\ p.posted[v] = IF v = u THEN s.posted[v] + amount ELSE s.posted[v]
                 /\ p.copy[v].exists = s.copy[v].exists
                 /\ p.copy[v].balance = IF v = u THEN s.copy[v].balance + amount
                                                 ELSE s.copy[v].balance
  <1> DEFINE row == [s.copy[u] EXCEPT !.balance = @ + amount]
  <1> DEFINE copy == [s.copy EXCEPT ![u] = row]
  <1> DEFINE posted == [s.posted EXCEPT ![u] = @ + amount]
  <1>1. /\ s.copy \in Copies
        /\ s.posted \in [Users -> Int]
    BY DEF Sessions
  <1>2. /\ row \in [exists : BOOLEAN, balance : Int, plus : Nat]
        /\ row.exists = s.copy[u].exists
        /\ row.balance = s.copy[u].balance + amount
    BY <1>1 DEF Copies
  <1>3. /\ copy \in Copies
        /\ \A v \in Users : copy[v] = IF v = u THEN row ELSE s.copy[v]
    <2> HIDE DEF row
    <2> QED BY <1>1, <1>2 DEF Copies
  <1>4. /\ posted \in [Users -> Int]
        /\ \A v \in Users : posted[v] = IF v = u THEN s.posted[v] + amount ELSE s.posted[v]
    BY <1>1
  <1>5. Post(s, u, amount) = [s EXCEPT !.copy = copy, !.posted = posted]
    BY DEF Post, Sessions
  <1>6. /\ [s EXCEPT !.copy = copy, !.posted = posted] \in Sessions
        /\ [s EXCEPT !.copy = copy, !.posted = posted].copy = copy
        /\ [s EXCEPT !.copy = copy, !.posted = posted].posted = posted
    <2> HIDE DEF copy, posted
    <2> QED BY <1>3, <1>4 DEF Sessions
  <1>7. LET p == Post(s, u, amount) IN
           /\ p.pc = s.pc /\ p.op = s.op /\ p.user = s.user /\ p.outdated = s.outdated
           /\ p.target = s.target /\ p.other = s.other /\ p.today = s.today /\ p.late = s.late
    <2> HIDE DEF copy, posted
    <2> QED BY <1>5 DEF Sessions
  <1> HIDE DEF copy, posted, row
  <1> QED BY <1>2, <1>3, <1>4, <1>5, <1>6, <1>7

\* A session that has read the row of u.
Reading(pc, op, u, target, today, row) ==
    [Idle EXCEPT !.pc = pc, !.op = op, !.user = u, !.target = target, !.today = today,
                 !.copy[u] = row]

\* It holds that row, and has posted nothing.
LEMMA ReadHolds ==
    ASSUME NEW pc \in {"open", "ready"}, NEW op \in {"charge", "refund", "daily", "plus"},
           NEW u \in Users, NEW target \in Evaluations \cup Orders \cup {Nobody},
           NEW today \in 0..MaxDay,
           NEW row \in [exists : BOOLEAN, balance : Int, plus : Nat]
    PROVE  LET s == Reading(pc, op, u, target, today, row) IN
           /\ s \in Sessions
           /\ s.pc = pc /\ s.op = op /\ s.user = u /\ s.target = target /\ s.outdated = {}
           /\ s.today = today
           /\ \A v \in Users : /\ s.posted[v] = 0
                               /\ s.copy[v] = IF v = u THEN row ELSE NoRow
  <1> DEFINE s == Reading(pc, op, u, target, today, row)
  <1> DEFINE copy == [Idle.copy EXCEPT ![u] = row]
  <1>1. Idle.copy = [v \in Users |-> NoRow] /\ Idle.outdated = {} /\ Idle.other = Nobody
    BY DEF Idle
  <1>2. copy \in Copies /\ \A v \in Users : copy[v] = IF v = u THEN row ELSE NoRow
    BY <1>1, IdleType DEF Copies
  <1>3. s = [Idle EXCEPT !.pc = pc, !.op = op, !.user = u, !.target = target,
                         !.today = today, !.copy = copy]
    BY IdleType DEF Sessions, Reading
  <1> HIDE DEF copy
  <1>4. /\ s \in Sessions
        /\ s.pc = pc /\ s.op = op /\ s.user = u /\ s.target = target /\ s.outdated = {}
        /\ s.today = today
        /\ s.copy = copy /\ s.posted = Idle.posted
    <2> HIDE DEF s
    <2>1. s \in Sessions
      BY <1>2, <1>3, IdleType DEF Sessions
    <2>2. /\ s.pc = pc /\ s.op = op /\ s.user = u /\ s.target = target
          /\ s.today = today /\ s.outdated = Idle.outdated
          /\ s.copy = copy /\ s.posted = Idle.posted
      BY <1>3, IdleType DEF Sessions
    <2> QED BY <1>1, <2>1, <2>2
  <1> QED BY <1>2, <1>4, IdleType

\* The session that has inserted the row of u.
Inserted(s, u) == [Welcome(s, u) EXCEPT !.pc = "referral"]

\* The row a first login inserts, which is also the row a user has initially.
NewRow == [NoRow EXCEPT !.exists = TRUE, !.balance = NEW_USER_WELCOME_CREDITS]

LEMMA NewRowType ==
    /\ NewRow \in [exists : BOOLEAN, balance : Int, plus : Nat]
    /\ NewRow.exists
    /\ NewRow.balance = NEW_USER_WELCOME_CREDITS
  <1> DEFINE m == [NoRow EXCEPT !.exists = TRUE]
  <1>1. NoRow \in [exists : BOOLEAN, balance : Int, plus : Nat]
    BY IdleType
  <1>2. NewRow \in [exists : BOOLEAN, balance : Int, plus : Nat]
    <2>1. m \in [exists : BOOLEAN, balance : Int, plus : Nat]
      BY <1>1
    <2>2. NewRow = [m EXCEPT !.balance = NEW_USER_WELCOME_CREDITS]
      BY <1>1 DEF NewRow
    <2> HIDE DEF m
    <2> QED BY <2>1, <2>2 DEF NEW_USER_WELCOME_CREDITS
  <1>3. NewRow.exists
    BY <1>1 DEF NewRow
  <1>4. NewRow.balance = NEW_USER_WELCOME_CREDITS
    BY <1>1 DEF NewRow
  <1> QED BY <1>2, <1>3, <1>4

\* The welcome credits are in its copy of the row and in its entry.
LEMMA WelcomeHolds ==
    ASSUME NEW s \in Sessions, NEW u \in Users
    PROVE  LET n == Inserted(s, u) IN
           /\ n \in Sessions
           /\ n.pc = "referral" /\ n.op = s.op /\ n.user = s.user /\ n.outdated = s.outdated
           /\ \A v \in Users :
                 /\ n.posted[v] = IF v = u THEN NEW_USER_WELCOME_CREDITS ELSE s.posted[v]
                 /\ n.copy[v].exists <=> (v = u \/ s.copy[v].exists)
                 /\ n.copy[v].balance = IF v = u THEN NEW_USER_WELCOME_CREDITS
                                                 ELSE s.copy[v].balance
  <1> DEFINE n == Inserted(s, u)
  <1> DEFINE copy == [s.copy EXCEPT ![u] = NewRow]
  <1> DEFINE posted == [s.posted EXCEPT ![u] = NEW_USER_WELCOME_CREDITS]
  <1>1. /\ NewRow \in [exists : BOOLEAN, balance : Int, plus : Nat]
        /\ NewRow.exists /\ NewRow.balance = NEW_USER_WELCOME_CREDITS
    BY NewRowType
  <1>2. n = [s EXCEPT !.copy = copy, !.posted = posted, !.pc = "referral"]
    <2> QED BY DEF Inserted, Welcome, Sessions, NewRow
  <1>3. /\ copy \in Copies
        /\ \A v \in Users : copy[v] = IF v = u THEN NewRow ELSE s.copy[v]
    BY <1>1 DEF Copies, Sessions
  <1>4. /\ posted \in [Users -> Int]
        /\ \A v \in Users : posted[v] = IF v = u THEN NEW_USER_WELCOME_CREDITS ELSE s.posted[v]
    BY DEF Sessions, NEW_USER_WELCOME_CREDITS
  <1> HIDE DEF copy, posted
  <1>5. /\ n \in Sessions
        /\ n.pc = "referral" /\ n.op = s.op /\ n.user = s.user /\ n.outdated = s.outdated
        /\ n.copy = copy /\ n.posted = posted
    <2> HIDE DEF n
    <2> QED BY <1>2, <1>3, <1>4 DEF Sessions
  <1> QED BY <1>1, <1>3, <1>4, <1>5

\* Another session's commit takes nothing from what a session holds.
LEMMA SeenByHolds ==
    ASSUME NEW t \in Sessions, NEW s \in Sessions
    PROVE  LET n == SeenBy(t, s) IN
           /\ n \in Sessions
           /\ n.pc = t.pc /\ n.op = t.op /\ n.user = t.user /\ n.target = t.target
           /\ n.posted = t.posted /\ n.copy = t.copy /\ n.today = t.today
           /\ n.outdated = t.outdated \cup {u \in Written(s) : t.copy[u].exists}
  <1>1. Written(s) \subseteq Users
    BY DEF Written
  <1> HIDE DEF Written
  <1> QED BY <1>1 DEF SeenBy, Sessions

\* What posting leaves alone.
LEMMA PostFrame ==
    \A s \in Sessions, u \in Users, amount \in Int :
        /\ Post(s, u, amount) \in Sessions
        /\ Post(s, u, amount).pc = s.pc
        /\ Post(s, u, amount).op = s.op
        /\ Post(s, u, amount).target = s.target
        /\ Post(s, u, amount).outdated = s.outdated
  BY PostHolds

\* The session after the deduction or the reward, or after it was refused.
LEMMA CheckedHolds ==
    ASSUME NEW s \in Sessions, NEW u \in Users, NEW amount \in Int, NEW n,
           n \in {[Post(s, u, amount) EXCEPT !.pc = "ready"], [Idle EXCEPT !.pc = "end"]}
    PROVE  /\ n \in Sessions
           /\ \/ /\ n = [Idle EXCEPT !.pc = "end"]
                 /\ n.pc = "end" /\ n.posted = Idle.posted /\ n.copy = Idle.copy
              \/ /\ n.pc = "ready" /\ n.op = s.op
                 /\ n.posted = Post(s, u, amount).posted
                 /\ n.copy = Post(s, u, amount).copy
                 /\ n.outdated = s.outdated
  <1>1. CASE n = [Idle EXCEPT !.pc = "end"]
    BY <1>1, IdleType DEF Sessions
  <1>2. CASE n = [Post(s, u, amount) EXCEPT !.pc = "ready"]
    <2>1. PICK p : p = Post(s, u, amount)
      OBVIOUS
    <2>2. p \in Sessions /\ p.outdated = s.outdated /\ p.op = s.op
      BY <2>1, PostFrame
    <2>3. /\ [p EXCEPT !.pc = "ready"] \in Sessions
          /\ [p EXCEPT !.pc = "ready"].pc = "ready"
          /\ [p EXCEPT !.pc = "ready"].op = p.op
          /\ [p EXCEPT !.pc = "ready"].posted = p.posted
          /\ [p EXCEPT !.pc = "ready"].copy = p.copy
          /\ [p EXCEPT !.pc = "ready"].outdated = p.outdated
      BY <2>2 DEF Sessions
    <2> QED BY <1>2, <2>1, <2>2, <2>3
  <1> QED BY <1>1, <1>2

\* Posting a reward of 20 for two users.
LEMMA PostTwice ==
    ASSUME NEW m \in Sessions, NEW u \in Users, NEW w \in Users, u # w
    PROVE  LET n == Post(Post(m, u, 20), w, 20) IN
           /\ n \in Sessions
           /\ n.pc = m.pc /\ n.op = m.op /\ n.user = m.user /\ n.outdated = m.outdated
           /\ \A v \in Users :
                 /\ n.posted[v] = m.posted[v] + IF v \in {u, w} THEN 20 ELSE 0
                 /\ n.copy[v].exists = m.copy[v].exists
                 /\ n.copy[v].balance = m.copy[v].balance + IF v \in {u, w} THEN 20 ELSE 0
  <1> DEFINE p == Post(m, u, 20)
  <1>1. /\ p \in Sessions
        /\ p.pc = m.pc /\ p.op = m.op /\ p.user = m.user /\ p.outdated = m.outdated
        /\ \A v \in Users :
              /\ p.posted[v] = IF v = u THEN m.posted[v] + 20 ELSE m.posted[v]
              /\ p.copy[v].exists = m.copy[v].exists
              /\ p.copy[v].balance = IF v = u THEN m.copy[v].balance + 20
                                              ELSE m.copy[v].balance
    BY PostHolds
  <1>2. \A v \in Users : m.posted[v] \in Int /\ m.copy[v].balance \in Int
    BY DEF Sessions, Copies
  <1> HIDE DEF p
  <1> DEFINE n == Post(p, w, 20)
  <1>3. /\ n \in Sessions
        /\ n.pc = p.pc /\ n.op = p.op /\ n.user = p.user /\ n.outdated = p.outdated
        /\ \A v \in Users :
              /\ n.posted[v] = IF v = w THEN p.posted[v] + 20 ELSE p.posted[v]
              /\ n.copy[v].exists = p.copy[v].exists
              /\ n.copy[v].balance = IF v = w THEN p.copy[v].balance + 20
                                              ELSE p.copy[v].balance
    BY <1>1, PostHolds
  <1> HIDE DEF n
  <1>4. /\ n \in Sessions
        /\ n.pc = m.pc /\ n.op = m.op /\ n.user = m.user /\ n.outdated = m.outdated
        /\ \A v \in Users :
              /\ n.posted[v] = m.posted[v] + IF v \in {u, w} THEN 20 ELSE 0
              /\ n.copy[v].exists = m.copy[v].exists
              /\ n.copy[v].balance = m.copy[v].balance + IF v \in {u, w} THEN 20 ELSE 0
    BY <1>1, <1>2, <1>3
  <1> QED BY <1>4 DEF n, p

\* The session of a first login that has posted the rewards of its referral.
Referred(s, u, ref, row) ==
    Post(Post([s EXCEPT !.pc = "ready", !.copy[ref] = row], u, REFERRED_USER_BONUS_CREDITS),
         ref, REFERRER_BONUS_CREDITS)

\* A session n that has gone on from s with the referrer's row and both rewards.
Rewarded(n, s, u, ref, row) ==
    /\ n \in Sessions
    /\ n.pc = "ready" /\ n.op = s.op /\ n.user = s.user /\ n.outdated = s.outdated
    /\ \A v \in Users :
          /\ n.posted[v] = s.posted[v] + IF v \in {u, ref} THEN 20 ELSE 0
          /\ n.copy[v].exists <=> (IF v = ref THEN row.exists ELSE s.copy[v].exists)
          /\ n.copy[v].balance = IF v = ref THEN row.balance + 20
                                 ELSE s.copy[v].balance + IF v = u THEN 20 ELSE 0

\* That is what the two posts make of it.
LEMMA ReferredHolds ==
    ASSUME NEW s \in Sessions, NEW u \in Users, NEW ref \in Users, u # ref,
           NEW row \in [exists : BOOLEAN, balance : Int, plus : Nat]
    PROVE  Rewarded(Referred(s, u, ref, row), s, u, ref, row)
  <1> DEFINE n == Referred(s, u, ref, row)
  <1> DEFINE copy == [s.copy EXCEPT ![ref] = row]
  <1> DEFINE m == [s EXCEPT !.pc = "ready", !.copy[ref] = row]
  <1>1. copy \in Copies /\ \A v \in Users : copy[v] = IF v = ref THEN row ELSE s.copy[v]
    BY DEF Copies, Sessions
  <1>2. m = [s EXCEPT !.pc = "ready", !.copy = copy]
    BY DEF Sessions
  <1> HIDE DEF copy, m
  <1>3. /\ m \in Sessions
        /\ m.pc = "ready" /\ m.op = s.op /\ m.user = s.user /\ m.outdated = s.outdated
        /\ m.posted = s.posted /\ m.copy = copy
    BY <1>1, <1>2 DEF Sessions
  <1>4. n = Post(Post(m, u, 20), ref, 20)
    BY DEF m, Referred, REFERRED_USER_BONUS_CREDITS, REFERRER_BONUS_CREDITS
  <1> HIDE DEF n
  <1>5. PICK k \in Sessions : /\ k.pc = "ready" /\ k.op = s.op /\ k.user = s.user
                              /\ k.outdated = s.outdated
                              /\ k.posted = s.posted /\ k.copy = copy
                              /\ n = Post(Post(k, u, 20), ref, 20)
    BY <1>3, <1>4
  <1>6. /\ n \in Sessions
        /\ n.pc = k.pc /\ n.op = k.op /\ n.user = k.user /\ n.outdated = k.outdated
        /\ \A v \in Users :
              /\ n.posted[v] = k.posted[v] + IF v \in {u, ref} THEN 20 ELSE 0
              /\ n.copy[v].exists = k.copy[v].exists
              /\ n.copy[v].balance = k.copy[v].balance + IF v \in {u, ref} THEN 20 ELSE 0
    <2> DEFINE q == Post(Post(k, u, 20), ref, 20)
    <2>1. /\ q \in Sessions
          /\ q.pc = k.pc /\ q.op = k.op /\ q.user = k.user /\ q.outdated = k.outdated
          /\ \A v \in Users :
                /\ q.posted[v] = k.posted[v] + IF v \in {u, ref} THEN 20 ELSE 0
                /\ q.copy[v].exists = k.copy[v].exists
                /\ q.copy[v].balance = k.copy[v].balance + IF v \in {u, ref} THEN 20 ELSE 0
      <3>1. ref \in Users /\ u # ref /\ 20 \in Int
        OBVIOUS
      <3> QED BY <3>1, PostTwice
    <2> QED BY <1>5, <2>1
  <1>8. \A v \in Users : s.posted[v] \in Int /\ s.copy[v].balance \in Int
    BY DEF Sessions, Copies
  <1>9. \A v \in Users : n.posted[v] = s.posted[v] + IF v \in {u, ref} THEN 20 ELSE 0
    BY <1>5, <1>6
  <1>10. \A v \in Users : n.copy[v].exists <=> (IF v = ref THEN row.exists ELSE s.copy[v].exists)
    BY <1>1, <1>5, <1>6
  <1>11. \A v \in Users : n.copy[v].balance = IF v = ref THEN row.balance + 20
                                        ELSE s.copy[v].balance + IF v = u THEN 20 ELSE 0
    BY <1>1, <1>5, <1>6, <1>8
  <1> QED BY <1>5, <1>6, <1>9, <1>10, <1>11 DEF n, Rewarded

-----------------------------------------------------------------------------
(* The invariant                                                            *)

\* What a session knows of the rows: no balance it holds is negative, what it posted is in
\* the copy it will write, and a copy nobody has outdated is the row plus what it posted.
Holds(rows, s) ==
    /\ \A u \in Users :
          /\ s.copy[u].balance >= 0
          /\ s.posted[u] # 0 => s.copy[u].exists
          /\ s.copy[u].exists /\ u \notin s.outdated
                => s.copy[u].balance = rows[u].balance + s.posted[u]
    /\ s.pc \in {"open", "referral"} => s.user \in Users /\ s.copy[s.user].exists
    /\ s.pc = "insert" => /\ s.user \in Users
                          /\ \A u \in Users : s.posted[u] = 0 /\ ~s.copy[u].exists
    /\ s.pc = "referral" => \A u \in Users \ {s.user} : s.posted[u] = 0

\* A row that does not exist owns nothing, and an order has a buyer.
RowsOK ==
    /\ \A u \in Users : ~user[u].exists => user[u].balance = 0
    /\ \A o \in Orders : order[o] # "none" => user[BuyerOf[o]].exists

\* Only a first login inserts a row, and a payment has posted its award for the buyer.
OpsOK(s) ==
    /\ s.pc \in {"insert", "referral"} => s.op = "login"
    /\ \A o \in Orders : s.op = "plus" /\ s.target = o => s.posted[BuyerOf[o]] # 0

SessionsOK == \A r \in Requests : Holds(user, session[r]) /\ OpsOK(session[r])

LedgerInv == TypeOK /\ NeverNegative /\ BalanceIsSum /\ RowsOK /\ SessionsOK

\* The session that has ended, or has not begun, holds nothing.
LEMMA EndHolds ==
    /\ \A rows : Holds(rows, Idle)
    /\ [Idle EXCEPT !.pc = "end"] \in Sessions
    /\ \A rows : Holds(rows, [Idle EXCEPT !.pc = "end"])
    /\ OpsOK(Idle) /\ OpsOK([Idle EXCEPT !.pc = "end"])
  <1>1. \A u \in Users : Idle.posted[u] = 0 /\ Idle.copy[u] = NoRow
    BY IdleType
  <1>2. ~NoRow.exists /\ NoRow.balance = 0
    BY DEF NoRow
  <1>3. Idle.pc = "idle" /\ Idle.op = "none"
    BY DEF Idle
  <1>4. ASSUME NEW e, e = [Idle EXCEPT !.pc = "end"]
        PROVE  /\ e \in Sessions /\ e.pc = "end" /\ e.op = Idle.op
               /\ e.posted = Idle.posted /\ e.copy = Idle.copy
    BY <1>4, IdleType DEF Sessions
  <1>5. \A e : e = [Idle EXCEPT !.pc = "end"] => \A rows : Holds(rows, e)
    BY <1>1, <1>2, <1>4 DEF Holds
  <1>6. \A rows : Holds(rows, Idle)
    BY <1>1, <1>2, <1>3 DEF Holds
  <1>7. OpsOK(Idle) /\ \A e : e = [Idle EXCEPT !.pc = "end"] => OpsOK(e)
    BY <1>3, <1>4 DEF OpsOK
  <1> QED BY <1>4, <1>5, <1>6, <1>7

\* A step that only reads rows, of a session that knows what it should.
LEMMA MoveKeeps ==
    ASSUME LedgerInv, NEW r \in Requests, NEW s \in Sessions, Holds(user, s), OpsOK(s),
           Moves(r, s)
    PROVE  LedgerInv'
  <1>1. session' = [session EXCEPT ![r] = s] /\ session \in [Requests -> Sessions]
    BY DEF Moves, LedgerInv, TypeOK
  <1>2. UNCHANGED <<user, ledger, evaluation, order, lock, day, overwritten, raced>>
    BY DEF Moves, Rows, Ghosts
  <1>3. TypeOK'
    BY <1>1, <1>2 DEF LedgerInv, TypeOK
  <1>4. SessionsOK'
    BY <1>1, <1>2 DEF LedgerInv, SessionsOK
  <1>5. NeverNegative' /\ BalanceIsSum' /\ RowsOK'
    BY <1>2 DEF LedgerInv, NeverNegative, BalanceIsSum, RowsOK
  <1> QED BY <1>3, <1>4, <1>5 DEF LedgerInv

\* The same for one that takes the lock of a row.
LEMMA LockKeeps ==
    ASSUME LedgerInv, NEW r \in Requests, NEW s \in Sessions, Holds(user, s), OpsOK(s),
           session' = [session EXCEPT ![r] = s],
           lock' \in [Users -> Requests \cup {Nobody}],
           UNCHANGED <<Rows, day, Ghosts>>
    PROVE  LedgerInv'
  <1>1. session \in [Requests -> Sessions]
    BY DEF LedgerInv, TypeOK
  <1>2. UNCHANGED <<user, ledger, evaluation, order, day, overwritten, raced>>
    BY DEF Rows, Ghosts
  <1>3. TypeOK'
    BY <1>1, <1>2 DEF LedgerInv, TypeOK
  <1>4. SessionsOK'
    BY <1>1, <1>2 DEF LedgerInv, SessionsOK
  <1>5. NeverNegative' /\ BalanceIsSum' /\ RowsOK'
    BY <1>2 DEF LedgerInv, NeverNegative, BalanceIsSum, RowsOK
  <1> QED BY <1>3, <1>4, <1>5 DEF LedgerInv

-----------------------------------------------------------------------------
(* The steps                                                                *)

\* A session that posts for a user whose row it holds.
LEMMA PostKeepsHolding ==
    ASSUME NEW s \in Sessions, NEW u \in Users, NEW amount \in Int, NEW n \in Sessions,
           NEW rows \in Copies,
           Holds(rows, s), s.copy[u].exists, s.copy[u].balance + amount >= 0,
           n.pc \notin {"open", "referral", "insert"}, n.outdated = s.outdated,
           n.posted = Post(s, u, amount).posted, n.copy = Post(s, u, amount).copy
    PROVE  Holds(rows, n)
  <1>1. \A v \in Users :
            /\ n.posted[v] = IF v = u THEN s.posted[v] + amount ELSE s.posted[v]
            /\ n.copy[v].exists = s.copy[v].exists
            /\ n.copy[v].balance = IF v = u THEN s.copy[v].balance + amount ELSE s.copy[v].balance
    BY PostHolds
  <1>2. \A v \in Users : /\ s.posted[v] \in Int /\ s.copy[v].balance \in Int
                         /\ rows[v].balance \in Int
    BY DEF Sessions, Copies
  <1>3. Holds(rows, s)
    OBVIOUS
  <1>4. \A v \in Users : n.copy[v].balance >= 0
    BY <1>1, <1>2, <1>3 DEF Holds
  <1>5. \A v \in Users : n.posted[v] # 0 => n.copy[v].exists
    BY <1>1, <1>2, <1>3 DEF Holds
  <1>6. \A v \in Users : n.copy[v].exists /\ v \notin n.outdated
                            => n.copy[v].balance = rows[v].balance + n.posted[v]
    BY <1>1, <1>2, <1>3 DEF Holds
  <1> QED BY <1>4, <1>5, <1>6 DEF Holds

\* A session that has just read a row knows it.
LEMMA ReadKnows ==
    ASSUME NEW pc \in {"open", "ready"}, NEW op \in {"charge", "refund", "daily", "plus"},
           NEW u \in Users, NEW target \in Evaluations \cup Orders \cup {Nobody},
           NEW today \in 0..MaxDay, NEW rows \in Copies,
           NEW row \in [exists : BOOLEAN, balance : Int, plus : Nat],
           row.exists, row.balance = rows[u].balance, row.balance >= 0
    PROVE  /\ Holds(rows, Reading(pc, op, u, target, today, row))
           /\ Reading(pc, op, u, target, today, row) \in Sessions
           /\ Reading(pc, op, u, target, today, row).copy[u] = row
           /\ Reading(pc, op, u, target, today, row).pc = pc
           /\ Reading(pc, op, u, target, today, row).op = op
           /\ Reading(pc, op, u, target, today, row).target = target
           /\ \A v \in Users : Reading(pc, op, u, target, today, row).posted[v] = 0
  <1> DEFINE s == Reading(pc, op, u, target, today, row)
  <1>1. /\ s \in Sessions
        /\ s.pc = pc /\ s.op = op /\ s.user = u /\ s.target = target /\ s.outdated = {}
        /\ \A v \in Users : /\ s.posted[v] = 0
                            /\ s.copy[v] = IF v = u THEN row ELSE NoRow
    BY ReadHolds
  <1>2. ~NoRow.exists /\ NoRow.balance = 0
    BY DEF NoRow
  <1>3. rows[u].balance \in Int
    BY DEF Copies
  <1> HIDE DEF s
  <1>4. Holds(rows, s)
    BY <1>1, <1>2, <1>3 DEF Holds
  <1> QED BY <1>1, <1>4 DEF s

\* What the invariant says of a row and of the day.
LEMMA RowFacts ==
    ASSUME LedgerInv
    PROVE  /\ user \in Copies /\ day \in 0..MaxDay /\ 0 \in 0..MaxDay
           /\ \A u \in Users : /\ user[u] \in [exists : BOOLEAN, balance : Int, plus : Nat]
                               /\ user[u].balance >= 0
           /\ session \in [Requests -> Sessions]
           /\ \A r \in Requests : Holds(user, session[r]) /\ OpsOK(session[r])
  BY LedgerAssumption DEF LedgerInv, TypeOK, Copies, NeverNegative, SessionsOK

\* A request that has authenticated.
LEMMA AuthenticateKeeps ==
    ASSUME LedgerInv, NEW r \in Requests, NEW u \in Users, NEW op \in {"charge", "daily"},
           NEW e \in Evaluations \cup {Nobody}, Authenticate(r, u, op, e)
    PROVE  LedgerInv'
  <1>1. Moves(r, Reading("open", op, u, e, day, user[u])) /\ user[u].exists
    BY DEF Authenticate, Reading
  <1>2. /\ Holds(user, Reading("open", op, u, e, day, user[u]))
        /\ Reading("open", op, u, e, day, user[u]) \in Sessions
        /\ Reading("open", op, u, e, day, user[u]).pc = "open"
        /\ Reading("open", op, u, e, day, user[u]).op = op
    BY <1>1, RowFacts, ReadKnows
  <1>3. OpsOK(Reading("open", op, u, e, day, user[u]))
    BY <1>2 DEF OpsOK
  <1> QED BY <1>1, <1>2, <1>3, MoveKeeps

\* A first login.
LEMMA LoginKeeps ==
    ASSUME LedgerInv, NEW r \in Requests, NEW u \in Users, NEW ref \in Users \cup {Nobody},
           BeginLogin(r, u, ref)
    PROVE  LedgerInv'
  <1>1. PICK s : /\ s = [Idle EXCEPT !.pc = "insert", !.op = "login", !.user = u, !.other = ref]
                 /\ Moves(r, s)
    BY DEF BeginLogin
  <1>2. /\ s \in Sessions /\ s.pc = "insert" /\ s.op = "login" /\ s.user = u
        /\ s.posted = Idle.posted /\ s.copy = Idle.copy
    BY <1>1, IdleType DEF Sessions
  <1>3. ~NoRow.exists /\ NoRow.balance = 0
    BY DEF NoRow
  <1>4. Holds(user, s)
    BY <1>2, <1>3, IdleType DEF Holds
  <1>5. OpsOK(s)
    BY <1>2 DEF OpsOK
  <1> QED BY <1>1, <1>2, <1>4, <1>5, MoveKeeps

\* A refund, and the notification of a payment: read and posted in one step.
LEMMA ReadAndPost ==
    ASSUME LedgerInv, NEW r \in Requests, NEW op \in {"refund", "plus"}, NEW u \in Users,
           NEW target \in Evaluations \cup Orders, NEW amount \in Nat,
           NEW row \in [exists : BOOLEAN, balance : Int, plus : Nat],
           row.exists, row.balance = user[u].balance,
           op = "plus" => u = BuyerOf[target] /\ amount # 0,
           Moves(r, Post(Reading("ready", op, u, target, 0, row), u, amount))
    PROVE  LedgerInv'
  <1> DEFINE s == Reading("ready", op, u, target, 0, row)
  <1>1. /\ Holds(user, s) /\ s \in Sessions /\ s.copy[u] = row
        /\ s.pc = "ready" /\ s.op = op /\ s.target = target
        /\ \A v \in Users : s.posted[v] = 0
    BY RowFacts, ReadKnows
  <1> HIDE DEF s
  <1>2. PICK n : n = Post(s, u, amount)
    OBVIOUS
  <1>3. amount \in Int /\ s.copy[u].exists /\ s.copy[u].balance + amount >= 0
    BY <1>1, RowFacts
  <1>4. /\ n \in Sessions
        /\ n.pc = "ready" /\ n.op = op /\ n.target = target /\ n.outdated = s.outdated
    <2>1. /\ Post(s, u, amount) \in Sessions
          /\ Post(s, u, amount).pc = s.pc
          /\ Post(s, u, amount).op = s.op
          /\ Post(s, u, amount).target = s.target
          /\ Post(s, u, amount).outdated = s.outdated
      BY <1>1, <1>3, PostFrame
    <2> QED BY <1>1, <1>2, <2>1
  <1>5. Holds(user, n)
    BY <1>1, <1>2, <1>3, <1>4, RowFacts, PostKeepsHolding
  <1>6. OpsOK(n)
    <2>1. Post(s, u, amount).posted[u] = s.posted[u] + amount
      BY <1>1, <1>3, PostHolds
    <2>2. n.posted[u] = amount
      BY <1>1, <1>2, <2>1
    <2> QED BY <1>4, <2>2 DEF OpsOK
  <1> QED BY <1>2, <1>4, <1>5, <1>6, MoveKeeps DEF s

\* Beginning.
LEMMA BeginKeeps ==
    ASSUME LedgerInv, NEW r \in Requests, Begin(r)
    PROVE  LedgerInv'
  <1>1. ASSUME NEW e \in Evaluations, BeginRefund(r, e)
        PROVE  LedgerInv'
    <2> DEFINE u == OwnerOf[e]
    <2>1. u \in Users /\ Cost \in Nat
      BY LedgerAssumption
    <2>2. Reading("ready", "refund", u, e, 0, user[u])
              = [Idle EXCEPT !.pc = "ready", !.op = "refund", !.user = u, !.target = e,
                             !.copy[u] = user[u]]
      BY IdleType DEF Reading, Sessions
    <2>3. /\ Moves(r, Post(Reading("ready", "refund", u, e, 0, user[u]), u, Cost))
          /\ user[u].exists
      BY <1>1, <2>2 DEF BeginRefund
    <2> HIDE DEF u
    <2> QED BY <2>1, <2>3, RowFacts, ReadAndPost
  <1>2. ASSUME NEW o \in Orders, BeginPlus(r, o)
        PROVE  LedgerInv'
    <2> DEFINE u == BuyerOf[o]
    <2>1. u \in Users /\ PlusAward \in Nat /\ PlusAward # 0
      BY LedgerAssumption DEF PlusAward
    <2>2. Reading("ready", "plus", u, o, 0, Extend(user[u]))
              = [Idle EXCEPT !.pc = "ready", !.op = "plus", !.user = u, !.target = o,
                             !.copy[u] = Extend(user[u])]
      BY IdleType DEF Reading, Sessions
    <2>3. Moves(r, Post(Reading("ready", "plus", u, o, 0, Extend(user[u])), u, PlusAward))
      BY <1>2, <2>2 DEF BeginPlus
    <2>4. user[u].exists
      BY <1>2 DEF BeginPlus, LedgerInv, RowsOK
    <2>5. /\ Extend(user[u]) \in [exists : BOOLEAN, balance : Int, plus : Nat]
          /\ Extend(user[u]).exists /\ Extend(user[u]).balance = user[u].balance
      BY <2>1, <2>4, RowFacts DEF Extend
    <2>6. u = BuyerOf[o]
      OBVIOUS
    <2> HIDE DEF u
    <2> QED BY <2>1, <2>3, <2>5, <2>6, ReadAndPost
  <1> QED BY <1>1, <1>2, AuthenticateKeeps, LoginKeeps DEF Begin

\* The deduction, only if the copy has the credits, and the reward.
LEMMA CheckKeeps ==
    ASSUME LedgerInv, NEW r \in Requests, ChargeCheck(r) \/ DailyCheck(r)
    PROVE  LedgerInv'
  <1> DEFINE s == session[r]
  <1>1. s \in Sessions /\ Holds(user, s) /\ user \in Copies
    BY RowFacts
  <1>2. /\ s.pc = "open" /\ s.user \in Users /\ s.copy[s.user].exists
        /\ s.op # "plus"
    BY <1>1 DEF ChargeCheck, DailyCheck, Holds
  <1>3. s.copy[s.user].balance \in Int /\ s.copy[s.user].balance >= 0
    BY <1>1, <1>2 DEF Holds, Sessions, Copies
  <1>4. PICK amount \in Int :
            /\ s.copy[s.user].balance + amount >= 0
            /\ \E n \in {[Post(s, s.user, amount) EXCEPT !.pc = "ready"],
                         [Idle EXCEPT !.pc = "end"]} : Moves(r, n)
    <2>1. -Cost \in Int /\ DailyReward \in Int /\ Cost \in Int
      BY LedgerAssumption DEF DailyReward
    <2>2. CASE ChargeCheck(r) /\ Admits(s)
      <3>1. s.copy[s.user].balance + (-Cost) >= 0
        BY <1>3, <2>1, <2>2 DEF Admits
      <3> QED BY <2>1, <2>2, <3>1 DEF ChargeCheck
    <2>3. CASE DailyCheck(r) /\ RewardDue(s)
      <3>1. s.copy[s.user].balance + DailyReward >= 0
        BY <1>3 DEF DailyReward
      <3> QED BY <2>1, <2>3, <3>1 DEF DailyCheck
    <2>4. CASE \/ ChargeCheck(r) /\ ~Admits(s)
               \/ DailyCheck(r) /\ ~RewardDue(s)
      <3>1. Moves(r, [Idle EXCEPT !.pc = "end"])
        BY <2>4 DEF ChargeCheck, DailyCheck
      <3>2. s.copy[s.user].balance + 0 >= 0
        BY <1>3
      <3> QED BY <3>1, <3>2
    <2> QED BY <2>2, <2>3, <2>4
  <1> HIDE DEF s
  <1>5. PICK n \in {[Post(s, s.user, amount) EXCEPT !.pc = "ready"],
                    [Idle EXCEPT !.pc = "end"]} : Moves(r, n)
    BY <1>4
  <1>6. CASE n = [Idle EXCEPT !.pc = "end"]
    BY <1>5, <1>6, EndHolds, MoveKeeps
  <1>7. CASE n # [Idle EXCEPT !.pc = "end"]
    <2>1. /\ n \in Sessions
          /\ n.pc = "ready" /\ n.op = s.op /\ n.outdated = s.outdated
          /\ n.posted = Post(s, s.user, amount).posted
          /\ n.copy = Post(s, s.user, amount).copy
      BY <1>1, <1>2, <1>5, <1>7, CheckedHolds
    <2>2. Holds(user, n)
      BY <1>1, <1>2, <1>4, <2>1, PostKeepsHolding
    <2>3. OpsOK(n)
      BY <1>2, <2>1 DEF OpsOK
    <2> QED BY <1>5, <2>1, <2>2, <2>3, MoveKeeps
  <1> QED BY <1>6, <1>7

\* The row of a first login, which nobody has created in the meantime.
LEMMA InsertKeeps ==
    ASSUME LedgerInv, NEW r \in Requests, Insert(r)
    PROVE  LedgerInv'
  <1> DEFINE s == session[r]
  <1>1. s \in Sessions /\ Holds(user, s) /\ user \in Copies
    BY RowFacts
  <1>2. /\ s.user \in Users
        /\ \A v \in Users : s.posted[v] = 0 /\ ~s.copy[v].exists
    BY <1>1 DEF Insert, Holds
  <1>o. s.op = "login"
    BY RowFacts DEF Insert, OpsOK
  <1>3. CASE user[s.user].exists
    <2>1. Moves(r, [Idle EXCEPT !.pc = "end"])
      BY <1>3 DEF Insert
    <2> QED BY <2>1, EndHolds, MoveKeeps
  <1>4. CASE ~user[s.user].exists
    <2>1. PICK n : /\ n = Inserted(s, s.user)
                   /\ session' = [session EXCEPT ![r] = n]
      BY <1>4 DEF Insert, Inserted
    <2>2. /\ lock' \in [Users -> Requests \cup {Nobody}]
          /\ UNCHANGED <<Rows, day, Ghosts>>
      BY <1>4 DEF Insert, LedgerInv, TypeOK
    <2>3. user[s.user].balance = 0
      BY <1>2, <1>4 DEF LedgerInv, RowsOK
    <2> HIDE DEF s
    <2>4. /\ n \in Sessions
          /\ n.pc = "referral" /\ n.op = s.op /\ n.user = s.user
          /\ \A v \in Users :
                /\ n.posted[v] = IF v = s.user THEN NEW_USER_WELCOME_CREDITS ELSE s.posted[v]
                /\ n.copy[v].exists <=> (v = s.user \/ s.copy[v].exists)
                /\ n.copy[v].balance = IF v = s.user THEN NEW_USER_WELCOME_CREDITS
                                                     ELSE s.copy[v].balance
      BY <1>1, <1>2, <2>1, WelcomeHolds
    <2>5. Holds(user, n)
      BY <1>1, <1>2, <2>3, <2>4 DEF Holds, NEW_USER_WELCOME_CREDITS
    <2>6. OpsOK(n)
      BY <1>o, <2>4 DEF OpsOK
    <2> QED BY <2>1, <2>2, <2>4, <2>5, <2>6, LockKeeps
  <1> QED BY <1>3, <1>4

\* The rewards of a referral, if the referrer's row is there.
LEMMA ReferralKeeps ==
    ASSUME LedgerInv, NEW r \in Requests, Referral(r)
    PROVE  LedgerInv'
  <1> DEFINE s == session[r]
  <1>1. s \in Sessions /\ Holds(user, s) /\ user \in Copies
    BY RowFacts
  <1>2. /\ s.user \in Users /\ s.copy[s.user].exists
        /\ \A v \in Users \ {s.user} : s.posted[v] = 0
    BY <1>1 DEF Referral, Holds
  <1>o. s.op = "login"
    BY RowFacts DEF Referral, OpsOK
  <1>3. \A v \in Users : s.posted[v] \in Int /\ s.copy[v].balance \in Int
    BY <1>1 DEF Sessions, Copies
  <1>4. CASE s.other \in Users \ {s.user} /\ user[s.other].exists
    <2>1. PICK n : /\ n = Referred(s, s.user, s.other, user[s.other])
                   /\ Moves(r, n)
      BY <1>4 DEF Referral, Referred
    <2> HIDE DEF s
    <2>2. /\ user[s.other] \in [exists : BOOLEAN, balance : Int, plus : Nat]
          /\ user[s.other].balance >= 0 /\ user[s.other].balance \in Int
      BY <1>4, RowFacts
    <2>3. /\ n \in Sessions
          /\ n.pc = "ready" /\ n.op = s.op /\ n.outdated = s.outdated
          /\ \A v \in Users :
                /\ n.posted[v] = s.posted[v] + IF v \in {s.user, s.other} THEN 20 ELSE 0
                /\ n.copy[v].exists <=> (IF v = s.other THEN user[s.other].exists
                                                        ELSE s.copy[v].exists)
                /\ n.copy[v].balance = IF v = s.other THEN user[s.other].balance + 20
                                       ELSE s.copy[v].balance + IF v = s.user THEN 20 ELSE 0
      <3>1. s.other \in Users /\ s.user # s.other
        BY <1>4
      <3>2. Rewarded(n, s, s.user, s.other, user[s.other])
        BY <1>1, <1>2, <2>1, <2>2, <3>1, ReferredHolds
      <3> QED BY <3>2 DEF Rewarded
    <2>4. \A v \in Users : n.copy[v].balance >= 0
      BY <1>1, <1>3, <2>2, <2>3 DEF Holds
    <2>5. \A v \in Users : n.posted[v] # 0 => n.copy[v].exists
      BY <1>1, <1>2, <1>3, <1>4, <2>3 DEF Holds
    <2>6. \A v \in Users : user[v].balance \in Int
      BY RowFacts
    <2>7. \A v \in Users : n.copy[v].exists /\ v \notin n.outdated
                              => n.copy[v].balance = user[v].balance + n.posted[v]
      BY <1>1, <1>2, <1>3, <1>4, <2>3, <2>6 DEF Holds
    <2>8. Holds(user, n)
      BY <2>3, <2>4, <2>5, <2>7 DEF Holds
    <2>9. OpsOK(n)
      BY <1>o, <2>3 DEF OpsOK
    <2> QED BY <2>1, <2>3, <2>8, <2>9, MoveKeeps
  <1>5. CASE ~(s.other \in Users \ {s.user} /\ user[s.other].exists)
    <2>1. PICK n : n = [s EXCEPT !.pc = "posted"] /\ Moves(r, n)
      BY <1>5 DEF Referral
    <2> HIDE DEF s
    <2>2. /\ n \in Sessions
          /\ n.pc = "posted" /\ n.op = s.op /\ n.copy = s.copy /\ n.posted = s.posted
          /\ n.outdated = s.outdated
      BY <1>1, <2>1 DEF Sessions
    <2>3. Holds(user, n)
      BY <1>1, <2>2 DEF Holds
    <2>4. OpsOK(n)
      BY <1>o, <2>2 DEF OpsOK
    <2> QED BY <2>1, <2>2, <2>3, <2>4, MoveKeeps
  <1> QED BY <1>4, <1>5

\* Taking the lock of the row.
LEMMA FlushKeeps ==
    ASSUME LedgerInv, NEW r \in Requests, Flush(r)
    PROVE  LedgerInv'
  <1> DEFINE s == session[r]
  <1>1. s \in Sessions /\ Holds(user, s) /\ OpsOK(s) /\ session \in [Requests -> Sessions]
        /\ day \in 0..MaxDay
    BY RowFacts
  <1>2. PICK n : n = [s EXCEPT !.pc = "posted", !.today = day]
    OBVIOUS
  <1>3. session' = [session EXCEPT ![r] = n]
    BY <1>1, <1>2 DEF Flush
  <1>4. /\ lock' \in [Users -> Requests \cup {Nobody}]
        /\ UNCHANGED <<Rows, day, Ghosts>>
    BY DEF Flush, LedgerInv, TypeOK
  <1> HIDE DEF s
  <1>5. /\ n \in Sessions
        /\ n.pc = "posted" /\ n.op = s.op /\ n.target = s.target /\ n.copy = s.copy /\ n.posted = s.posted
        /\ n.outdated = s.outdated
    BY <1>1, <1>2 DEF Sessions
  <1>6. Holds(user, n)
    BY <1>1, <1>5 DEF Holds
  <1>7. OpsOK(n)
    BY <1>1, <1>5 DEF OpsOK
  <1> QED BY <1>3, <1>4, <1>5, <1>6, <1>7, LockKeeps

\* A transaction that fails.
LEMMA AbortKeeps ==
    ASSUME LedgerInv, NEW r \in Requests, Abort(r)
    PROVE  LedgerInv'
  <1>1. lock' \in [Users -> Requests \cup {Nobody}]
    BY DEF Abort, Unlocked, LedgerInv, TypeOK
  <1>2. /\ session' = [session EXCEPT ![r] = [Idle EXCEPT !.pc = "end"]]
        /\ UNCHANGED <<Rows, day, Ghosts>>
    BY DEF Abort
  <1> QED BY <1>1, <1>2, EndHolds, LockKeeps

\* What goes on around the sessions.
LEMMA AroundKeeps ==
    ASSUME LedgerInv,
           \/ \E o \in Orders : CreateOrder(o)
           \/ \E e \in Evaluations : \E status \in {"done", "failed"} : Ends(e, status)
           \/ Midnight
    PROVE  LedgerInv'
  <1>1. UNCHANGED <<user, ledger, session, lock, overwritten, raced>>
    BY DEF CreateOrder, Ends, Midnight, Rows, Ghosts
  <1>2. TypeOK'
    <2>1. order' \in [Orders -> {"none", "pending", "paid"}]
      BY DEF LedgerInv, TypeOK, CreateOrder, Ends, Midnight, Rows
    <2>2. evaluation' \in [Evaluations -> {"pending", "running", "done", "failed"}]
      BY DEF LedgerInv, TypeOK, CreateOrder, Ends, Midnight, Rows
    <2>3. day' \in 0..MaxDay
      BY LedgerAssumption DEF LedgerInv, TypeOK, CreateOrder, Ends, Midnight
    <2> QED BY <1>1, <2>1, <2>2, <2>3 DEF LedgerInv, TypeOK
  <1>3. RowsOK'
    <2>1. \A o \in Orders : order'[o] # "none" => order[o] # "none" \/ user[BuyerOf[o]].exists
      BY DEF LedgerInv, TypeOK, CreateOrder, Ends, Midnight, Rows
    <2> QED BY <1>1, <2>1 DEF LedgerInv, RowsOK
  <1>4. NeverNegative' /\ BalanceIsSum' /\ SessionsOK'
    BY <1>1 DEF LedgerInv, NeverNegative, BalanceIsSum, SessionsOK
  <1> QED BY <1>2, <1>3, <1>4 DEF LedgerInv

-----------------------------------------------------------------------------
(* The commit                                                               *)

\* The rows and the ledger after the commit of s.
LEMMA CommittedRows ==
    ASSUME LedgerInv, NEW r \in Requests, Commit(r)
    PROVE  /\ user' \in Copies
           /\ \A u \in Users :
                 /\ u \in Written(session[r]) =>
                       /\ user'[u].exists = session[r].copy[u].exists
                       /\ user'[u].balance = session[r].copy[u].balance
                       /\ ledger'[u].sum = ledger[u].sum + session[r].posted[u]
                 /\ u \notin Written(session[r]) =>
                       /\ user'[u] = user[u]
                       /\ ledger'[u] = ledger[u]
           /\ ledger' \in [Users -> [sum : Int, welcomes : Nat, rewards : Nat,
                                     rewardDay : 0..MaxDay, plus : Nat]]
  <1> DEFINE s == session[r]
  <1> DEFINE L == [sum : Int, welcomes : Nat, rewards : Nat, rewardDay : 0..MaxDay, plus : Nat]
  <1>1. s \in Sessions /\ user \in Copies /\ ledger \in [Users -> L]
    BY DEF LedgerInv, TypeOK
  <1>2. /\ user' = [u \in Users |-> IF u \in Written(s) THEN RowAfter(s, u) ELSE user[u]]
        /\ ledger' = [u \in Users |-> IF u \in Written(s) THEN LedgerAfter(s, u) ELSE ledger[u]]
    BY DEF Commit
  <1> HIDE DEF s
  <1>3. ASSUME NEW u \in Users
        PROVE  /\ RowAfter(s, u) \in [exists : BOOLEAN, balance : Int, plus : Nat]
               /\ RowAfter(s, u).exists = s.copy[u].exists
               /\ RowAfter(s, u).balance = s.copy[u].balance
    <2>1. /\ s.copy[u] \in [exists : BOOLEAN, balance : Int, plus : Nat]
          /\ user[u].plus \in Nat
      BY <1>1 DEF Sessions, Copies
    <2> QED BY <2>1 DEF RowAfter
  <1>4. ASSUME NEW u \in Users
        PROVE  /\ LedgerAfter(s, u) \in L
               /\ LedgerAfter(s, u).sum = ledger[u].sum + s.posted[u]
    <2>1. ledger[u] \in L /\ s.posted[u] \in Int /\ s.today \in 0..MaxDay
      BY <1>1 DEF Sessions
    <2> DEFINE l == ledger[u]
    <2>2. LedgerAfter(s, u) \in L
      BY <2>1 DEF LedgerAfter
    <2>3. LedgerAfter(s, u).sum = ledger[u].sum + s.posted[u]
      BY <2>1 DEF LedgerAfter
    <2> QED BY <2>2, <2>3
  <1>5. user' \in Copies
    BY <1>1, <1>2, <1>3 DEF Copies
  <1>6. ledger' \in [Users -> L]
    BY <1>1, <1>2, <1>4
  <1> QED BY <1>2, <1>3, <1>4, <1>5, <1>6 DEF s

\* What every other session knows of them.
LEMMA CommittedSessions ==
    ASSUME LedgerInv, NEW r \in Requests, Commit(r), NEW t \in Requests
    PROVE  session'[t] \in Sessions /\ Holds(user', session'[t]) /\ OpsOK(session'[t])
  <1> DEFINE s == session[r]
  <1>1. /\ s \in Sessions /\ session[t] \in Sessions
        /\ Holds(user, session[t]) /\ OpsOK(session[t])
    BY RowFacts
  <1>2. session'[t] = IF t = r THEN [Idle EXCEPT !.pc = "end"] ELSE SeenBy(session[t], s)
    BY DEF Commit
  <1> HIDE DEF s
  <1>3. CASE t = r
    BY <1>2, <1>3, EndHolds
  <1>4. CASE t # r
    <2> DEFINE n == SeenBy(session[t], s)
    <2>1. /\ n \in Sessions
          /\ n.pc = session[t].pc /\ n.op = session[t].op
          /\ n.user = session[t].user /\ n.target = session[t].target
          /\ n.posted = session[t].posted /\ n.copy = session[t].copy
          /\ n.outdated = session[t].outdated
                             \cup {u \in Written(s) : session[t].copy[u].exists}
      BY <1>1, SeenByHolds
    <2> HIDE DEF n
    <2>2. \A u \in Users : u \notin Written(s) => user'[u] = user[u]
      BY CommittedRows DEF s
    <2>3. \A u \in Users : n.copy[u].exists /\ u \notin n.outdated
                              => n.copy[u].balance = user'[u].balance + n.posted[u]
      BY <1>1, <2>1, <2>2 DEF Holds
    <2>4. Holds(user', n)
      BY <1>1, <2>1, <2>3 DEF Holds
    <2>5. OpsOK(n)
      BY <1>1, <2>1 DEF OpsOK
    <2> QED BY <1>2, <1>4, <2>1, <2>4, <2>5 DEF n
  <1> QED BY <1>3, <1>4

\* The commit: the balance a session writes is the row's plus what it posted, or the row
\* was outdated and is known to be overwritten.
LEMMA CommitKeeps ==
    ASSUME LedgerInv, NEW r \in Requests, Commit(r)
    PROVE  LedgerInv'
  <1> DEFINE s == session[r]
  <1>1. s \in Sessions /\ Holds(user, s) /\ OpsOK(s) /\ Written(s) \subseteq Users
    BY RowFacts DEF Written
  <1>2. \A u \in Users : u \in Written(s) <=> s.posted[u] # 0
    BY DEF Written
  <1>3. overwritten' = overwritten \cup (Written(s) \cap s.outdated)
    BY DEF Commit
  <1>4. TypeOK'
    <2>1. evaluation' \in [Evaluations -> {"pending", "running", "done", "failed"}]
      BY DEF Commit, LedgerInv, TypeOK
    <2>2. order' \in [Orders -> {"none", "pending", "paid"}]
      BY DEF Commit, LedgerInv, TypeOK
    <2>3. session' \in [Requests -> Sessions]
      <3>1. session' = [t \in Requests |-> session'[t]]
        BY DEF Commit
      <3> QED BY <3>1, CommittedSessions
    <2>4. lock' \in [Users -> Requests \cup {Nobody}]
      BY DEF Commit, Unlocked, LedgerInv, TypeOK
    <2>5. day' \in 0..MaxDay
      BY DEF Commit, LedgerInv, TypeOK
    <2>6. overwritten' \in SUBSET Users
      BY <1>1, <1>3 DEF LedgerInv, TypeOK
    <2>7. raced' \in [Users -> Nat]
      BY DEF Commit, LedgerInv, TypeOK
    <2> QED BY <2>1, <2>2, <2>3, <2>4, <2>5, <2>6, <2>7, CommittedRows DEF TypeOK
  <1>5. NeverNegative'
    <2> HIDE DEF s
    <2>1. \A u \in Users : u \in Written(s) => user'[u].balance = s.copy[u].balance
      BY CommittedRows DEF s
    <2>2. \A u \in Users : u \notin Written(s) => user'[u] = user[u]
      BY CommittedRows DEF s
    <2> QED BY <1>1, <2>1, <2>2 DEF NeverNegative, LedgerInv, Holds
  <1>6. BalanceIsSum'
    <2> SUFFICES ASSUME NEW u \in Users, u \notin overwritten'
                 PROVE  user'[u].balance = ledger'[u].sum
      BY DEF BalanceIsSum
    <2>1. user[u].balance = ledger[u].sum
      BY <1>3 DEF LedgerInv, BalanceIsSum
    <2>2. CASE u \in Written(s)
      <3>1. u \notin s.outdated
        BY <1>3, <2>2
      <3>2. s.copy[u].balance = user[u].balance + s.posted[u]
        BY <1>1, <1>2, <2>2, <3>1 DEF Holds
      <3> QED BY <2>1, <2>2, <3>2, CommittedRows
    <2>3. CASE u \notin Written(s)
      BY <2>1, <2>3, CommittedRows
    <2> QED BY <2>2, <2>3
  <1>7. RowsOK'
    <2>1. \A u \in Users : user[u].exists => user'[u].exists
      <3>1. \A u \in Users : u \in Written(s) => s.copy[u].exists
        BY <1>1, <1>2 DEF Holds
      <3> QED BY <3>1, CommittedRows
    <2>2. \A u \in Users : ~user'[u].exists => user'[u] = user[u]
      <3>1. \A u \in Users : u \in Written(s) => s.copy[u].exists
        BY <1>1, <1>2 DEF Holds
      <3> QED BY <3>1, CommittedRows
    <2>3. \A o \in Orders : s.op = "plus" /\ s.target = o => user'[BuyerOf[o]].exists
      <3> SUFFICES ASSUME NEW o \in Orders, s.op = "plus", s.target = o
                   PROVE  user'[BuyerOf[o]].exists
        OBVIOUS
      <3>1. BuyerOf[o] \in Users
        BY LedgerAssumption
      <3>2. BuyerOf[o] \in Written(s) /\ s.copy[BuyerOf[o]].exists
        BY <1>1, <1>2, <3>1 DEF OpsOK, Holds
      <3> QED BY <3>1, <3>2, CommittedRows
    <2>4. \A o \in Orders : order'[o] # "none"
                               => order[o] # "none" \/ (s.op = "plus" /\ s.target = o)
      BY DEF Commit
    <2> QED BY <2>1, <2>2, <2>3, <2>4, LedgerAssumption DEF RowsOK, LedgerInv
  <1>8. SessionsOK'
    BY CommittedSessions DEF SessionsOK
  <1> QED BY <1>4, <1>5, <1>6, <1>7, <1>8 DEF LedgerInv

-----------------------------------------------------------------------------
(* The theorems                                                             *)

\* The invariant holds at first ...
LEMMA LedgerInit == Init => LedgerInv
  <1> SUFFICES ASSUME Init PROVE LedgerInv
    OBVIOUS
  <1> USE LedgerAssumption
  <1>2. /\ NewRow \in [exists : BOOLEAN, balance : Int, plus : Nat]
        /\ NewRow.exists /\ NewRow.balance = 50
    BY NewRowType DEF NEW_USER_WELCOME_CREDITS
  <1>3. user = [u \in Users |-> IF u \in Existing THEN NewRow ELSE NoRow]
    BY DEF Init, NewRow
  <1>4. /\ NoRow \in [exists : BOOLEAN, balance : Int, plus : Nat]
        /\ ~NoRow.exists /\ NoRow.balance = 0
    BY DEF NoRow
  <1>5. /\ user \in Copies
        /\ \A u \in Users : /\ user[u].balance >= 0
                            /\ user[u].exists <=> u \in Existing
                            /\ ~user[u].exists => user[u] = NoRow
    BY <1>2, <1>3, <1>4 DEF Copies
  <1>6. ledger = [u \in Users |-> [sum       |-> user[u].balance,
                                   welcomes  |-> IF u \in Existing THEN 1 ELSE 0,
                                   rewards   |-> 0, rewardDay |-> 0, plus |-> 0]]
    BY DEF Init
  <1>7. \A u \in Users : user[u].balance \in Int
    BY <1>5 DEF Copies
  <1>8. /\ ledger \in [Users -> [sum : Int, welcomes : Nat, rewards : Nat,
                                 rewardDay : 0..MaxDay, plus : Nat]]
        /\ \A u \in Users : ledger[u].sum = user[u].balance
    BY <1>6, <1>7
  <1>9. session = [r \in Requests |-> Idle] /\ Idle \in Sessions
    BY IdleType DEF Init
  <1>10. TypeOK
    BY <1>5, <1>8, <1>9 DEF TypeOK, Init
  <1>11. NeverNegative /\ BalanceIsSum
    BY <1>5, <1>8 DEF NeverNegative, BalanceIsSum
  <1>12. RowsOK
    BY <1>4, <1>5 DEF RowsOK, Init
  <1>13. SessionsOK
    BY <1>9, EndHolds DEF SessionsOK
  <1> QED BY <1>10, <1>11, <1>12, <1>13 DEF LedgerInv

\* ... and every step keeps it.
LEMMA LedgerStep == LedgerInv /\ [Next]_vars => LedgerInv'
  <1> SUFFICES ASSUME LedgerInv, [Next]_vars PROVE LedgerInv'
    OBVIOUS
  <1>1. ASSUME NEW r \in Requests, Begin(r) PROVE LedgerInv'
    BY <1>1, BeginKeeps
  <1>2. ASSUME NEW r \in Requests, Continue(r) PROVE LedgerInv'
    <2>1. CASE ChargeCheck(r) \/ DailyCheck(r)
      BY <2>1, CheckKeeps
    <2>2. CASE Insert(r)
      BY <2>2, InsertKeeps
    <2>3. CASE Referral(r)
      BY <2>3, ReferralKeeps
    <2>4. CASE Flush(r)
      BY <2>4, FlushKeeps
    <2>5. CASE Commit(r)
      BY <2>5, CommitKeeps
    <2> QED BY <1>2, <2>1, <2>2, <2>3, <2>4, <2>5 DEF Continue
  <1>3. ASSUME NEW r \in Requests, Abort(r) PROVE LedgerInv'
    BY <1>3, AbortKeeps
  <1>4. CASE \/ \E o \in Orders : CreateOrder(o)
             \/ \E e \in Evaluations : \E status \in {"done", "failed"} : Ends(e, status)
             \/ Midnight
    BY <1>4, AroundKeeps
  <1>5. CASE UNCHANGED vars
    BY <1>5 DEF vars, LedgerInv, TypeOK, NeverNegative, BalanceIsSum, RowsOK, SessionsOK
  <1> QED BY <1>1, <1>2, <1>3, <1>4, <1>5 DEF Next

LEMMA LedgerSafe == Spec => []LedgerInv
  BY LedgerInit, LedgerStep, PTL DEF Spec

\* Every transaction keeps the rows, the ledger and the sessions well formed.
THEOREM TypeCorrect == Spec => []TypeOK
  <1>1. LedgerInv => TypeOK
    BY DEF LedgerInv
  <1> QED BY <1>1, LedgerSafe, PTL

\* CreditService keeps the denormalised balance equal to the sum of the ledger, for every
\* number of users, sessions and evaluations, wherever no session wrote an outdated copy.
THEOREM BalanceFollowsLedger == Spec => []BalanceIsSum
  <1>1. LedgerInv => BalanceIsSum
    BY DEF LedgerInv
  <1> QED BY <1>1, LedgerSafe, PTL

\* run_evaluation deducts from the copy whose balance it checked: no interleaving of
\* charges, refunds, rewards, payments and first logins leaves a negative balance.
THEOREM NeverInDebt == Spec => []NeverNegative
  <1>1. LedgerInv => NeverNegative
    BY DEF LedgerInv
  <1> QED BY <1>1, LedgerSafe, PTL

-----------------------------------------------------------------------------
(* The limit of running evaluations                                         *)

\* A charge is of an evaluation of its own user, and what it counted still holds unless
\* another run of that user has started since.
CountOK(t) ==
    t.op = "charge" /\ t.pc \in {"open", "ready", "posted"} =>
        /\ t.target \in Evaluations /\ t.user \in Users /\ OwnerOf[t.target] = t.user
        /\ t.pc # "open" /\ ~t.late => Cardinality(Running(t.user)) < MaxRunning

CountInv == (\A r \in Requests : CountOK(session[r])) /\ RunningBound

\* The running evaluations of a user are finitely many.
LEMMA RunningFinite ==
    ASSUME NEW u \in Users
    PROVE  IsFiniteSet(Running(u)) /\ Cardinality(Running(u)) \in Nat
  <1>1. IsFiniteSet(Evaluations) /\ Running(u) \in SUBSET Evaluations
    BY LedgerAssumption DEF Running
  <1> QED BY <1>1, FS_Subset, FS_CardinalityType

\* A session that reads, or waits, without a charge that has counted.
LEMMA CountedMove ==
    ASSUME LedgerInv, CountInv, NEW r \in Requests, NEW n, CountOK(n),
           session' = [session EXCEPT ![r] = n], UNCHANGED <<evaluation, raced>>
    PROVE  CountInv'
  <1>1. \A u \in Users : Running(u)' = Running(u)
    BY DEF Running
  <1>2. ASSUME NEW t \in Requests
        PROVE  CountOK(session[t])'
    <2>1. session'[t] = IF t = r THEN n ELSE session[t]
      BY DEF LedgerInv, TypeOK
    <2>2. CountOK(session'[t])
      BY <2>1 DEF CountInv
    <2> QED BY <1>1, <2>2 DEF CountOK
  <1>3. RunningBound'
    BY <1>1 DEF CountInv, RunningBound
  <1> QED BY <1>2, <1>3 DEF CountInv

\* A request that has authenticated is for an evaluation of its own.
LEMMA CountAuthenticate ==
    ASSUME LedgerInv, CountInv, NEW r \in Requests, NEW u \in Users,
           NEW op \in {"charge", "daily"}, NEW e \in Evaluations \cup {Nobody},
           Authenticate(r, u, op, e)
    PROVE  CountInv'
  <1>1. PICK n : n = Reading("open", op, u, e, day, user[u]) /\ Moves(r, n)
    BY DEF Authenticate, Reading
  <1>2. n.pc = "open" /\ n.op = op /\ n.user = u /\ n.target = e
    BY <1>1, RowFacts, ReadHolds
  <1>3. op = "charge" => e \in Evaluations /\ OwnerOf[e] = u
    BY DEF Authenticate
  <1>4. CountOK(n)
    BY <1>2, <1>3 DEF CountOK
  <1>5. session' = [session EXCEPT ![r] = n] /\ UNCHANGED <<evaluation, raced>>
    BY <1>1 DEF Moves, Rows, Ghosts
  <1> QED BY <1>4, <1>5, CountedMove

\* No other session begins as a charge.
LEMMA CountBegin ==
    ASSUME LedgerInv, CountInv, NEW r \in Requests, Begin(r)
    PROVE  CountInv'
  <1>1. ASSUME NEW op \in {"refund", "plus"}, NEW u \in Users,
               NEW target \in Evaluations \cup Orders, NEW amount \in Int,
               NEW row \in [exists : BOOLEAN, balance : Int, plus : Nat],
               Moves(r, Post(Reading("ready", op, u, target, 0, row), u, amount))
        PROVE  CountInv'
    <2> DEFINE s == Reading("ready", op, u, target, 0, row)
    <2>1. s \in Sessions /\ s.op = op
      BY RowFacts, ReadHolds
    <2> HIDE DEF s
    <2>2. PICK n : n = Post(s, u, amount)
      OBVIOUS
    <2>3. n.op = op
      BY <2>1, <2>2, PostFrame
    <2>4. CountOK(n)
      BY <2>3 DEF CountOK
    <2>5. session' = [session EXCEPT ![r] = n] /\ UNCHANGED <<evaluation, raced>>
      BY <1>1, <2>2 DEF Moves, Rows, Ghosts, s
    <2> QED BY <2>4, <2>5, CountedMove
  <1>2. ASSUME NEW e \in Evaluations, BeginRefund(r, e)
        PROVE  CountInv'
    <2> DEFINE u == OwnerOf[e]
    <2>1. u \in Users /\ Cost \in Int
      BY LedgerAssumption
    <2>2. Reading("ready", "refund", u, e, 0, user[u])
              = [Idle EXCEPT !.pc = "ready", !.op = "refund", !.user = u, !.target = e,
                             !.copy[u] = user[u]]
      BY IdleType DEF Reading, Sessions
    <2>3. Moves(r, Post(Reading("ready", "refund", u, e, 0, user[u]), u, Cost))
      BY <1>2, <2>2 DEF BeginRefund
    <2> HIDE DEF u
    <2> QED BY <1>1, <2>1, <2>3, RowFacts
  <1>3. ASSUME NEW o \in Orders, BeginPlus(r, o)
        PROVE  CountInv'
    <2> DEFINE u == BuyerOf[o]
    <2>1. u \in Users /\ PlusAward \in Int
      BY LedgerAssumption DEF PlusAward
    <2>2. Reading("ready", "plus", u, o, 0, Extend(user[u]))
              = [Idle EXCEPT !.pc = "ready", !.op = "plus", !.user = u, !.target = o,
                             !.copy[u] = Extend(user[u])]
      BY IdleType DEF Reading, Sessions
    <2>3. Moves(r, Post(Reading("ready", "plus", u, o, 0, Extend(user[u])), u, PlusAward))
      BY <1>3, <2>2 DEF BeginPlus
    <2>4. Extend(user[u]) \in [exists : BOOLEAN, balance : Int, plus : Nat]
      BY <2>1, RowFacts DEF Extend
    <2> HIDE DEF u
    <2> QED BY <1>1, <2>1, <2>3, <2>4
  <1>4. ASSUME NEW u \in Users, NEW ref \in Users \cup {Nobody}, BeginLogin(r, u, ref)
        PROVE  CountInv'
    <2>1. PICK n : /\ n = [Idle EXCEPT !.pc = "insert", !.op = "login", !.user = u,
                                       !.other = ref]
                   /\ Moves(r, n)
      BY <1>4 DEF BeginLogin
    <2>2. n.op = "login"
      BY <2>1, IdleType DEF Sessions
    <2>3. CountOK(n)
      BY <2>2 DEF CountOK
    <2>4. session' = [session EXCEPT ![r] = n] /\ UNCHANGED <<evaluation, raced>>
      BY <2>1 DEF Moves, Rows, Ghosts
    <2> QED BY <2>3, <2>4, CountedMove
  <1> QED BY <1>2, <1>3, <1>4, CountAuthenticate DEF Begin

\* The charge that is admitted has counted fewer than the limit.
LEMMA CountCheck ==
    ASSUME LedgerInv, CountInv, NEW r \in Requests, ChargeCheck(r) \/ DailyCheck(r)
    PROVE  CountInv'
  <1> DEFINE s == session[r]
  <1>1. s \in Sessions /\ CountOK(s) /\ s.pc = "open" /\ s.user \in Users
    BY RowFacts DEF CountInv, ChargeCheck, DailyCheck, Holds
  <1>0. PICK amount \in Int :
            \E n \in {[Post(s, s.user, amount) EXCEPT !.pc = "ready"],
                      [Idle EXCEPT !.pc = "end"]} :
                /\ Moves(r, n)
                /\ n # [Idle EXCEPT !.pc = "end"] /\ s.op = "charge" => Admits(s)
    <2>1. -Cost \in Int /\ DailyReward \in Int
      BY LedgerAssumption DEF DailyReward
    <2>2. CASE ChargeCheck(r)
      BY <2>1, <2>2 DEF ChargeCheck
    <2>3. CASE DailyCheck(r)
      BY <2>1, <2>3 DEF DailyCheck
    <2> QED BY <2>2, <2>3
  <1>2. PICK n \in {[Post(s, s.user, amount) EXCEPT !.pc = "ready"],
                    [Idle EXCEPT !.pc = "end"]} :
            /\ Moves(r, n)
            /\ n # [Idle EXCEPT !.pc = "end"] /\ s.op = "charge" => Admits(s)
    BY <1>0
  <1>3. session' = [session EXCEPT ![r] = n] /\ UNCHANGED <<evaluation, raced>>
    BY <1>2 DEF Moves, Rows, Ghosts
  <1>4. Admits(s) => Cardinality(Running(s.user)) < MaxRunning
    BY DEF Admits
  <1> HIDE DEF s
  <1>5. CASE n = [Idle EXCEPT !.pc = "end"]
    <2>1. n.pc = "end"
      BY <1>1, <1>2, <1>5, IdleType DEF Sessions
    <2> QED BY <1>3, <2>1, CountedMove DEF CountOK
  <1>6. CASE n # [Idle EXCEPT !.pc = "end"]
    <2>1. PICK p : p = Post(s, s.user, amount)
      OBVIOUS
    <2>2. p \in Sessions /\ p.op = s.op /\ p.user = s.user /\ p.target = s.target
      BY <1>1, <2>1, PostHolds
    <2>3. n = [p EXCEPT !.pc = "ready"]
      BY <1>2, <1>6, <2>1
    <2>4. n.op = s.op /\ n.user = s.user /\ n.target = s.target
      BY <2>2, <2>3 DEF Sessions
    <2>5. CountOK(n)
      BY <1>1, <1>2, <1>4, <1>6, <2>4 DEF CountOK
    <2> QED BY <1>3, <2>5, CountedMove
  <1> QED BY <1>5, <1>6

\* A first login, and a failed transaction, is no charge; a flush keeps what was counted.
LEMMA CountGoesOn ==
    ASSUME LedgerInv, CountInv, NEW r \in Requests,
           Insert(r) \/ Referral(r) \/ Flush(r) \/ Abort(r)
    PROVE  CountInv'
  <1> DEFINE s == session[r]
  <1>1. s \in Sessions /\ CountOK(s) /\ Holds(user, s) /\ OpsOK(s) /\ day \in 0..MaxDay
    BY RowFacts DEF CountInv
  <1>2. UNCHANGED <<evaluation, raced>>
    BY DEF Insert, Referral, Flush, Abort, Moves, Rows, Ghosts
  <1>3. PICK e : e = [Idle EXCEPT !.pc = "end"]
    OBVIOUS
  <1>4. CountOK(e)
    <2>1. e.pc = "end"
      BY <1>3, IdleType DEF Sessions
    <2> QED BY <2>1 DEF CountOK
  <1>5. CASE session' = [session EXCEPT ![r] = e]
    BY <1>2, <1>4, <1>5, CountedMove
  <1>6. ASSUME session' # [session EXCEPT ![r] = e]
        PROVE  CountInv'
    <2>1. PICK n : /\ session' = [session EXCEPT ![r] = n]
                   /\ \/ /\ s.pc = "insert" /\ n = Inserted(s, s.user)
                      \/ /\ s.pc = "referral"
                         /\ \/ /\ s.other \in Users \ {s.user}
                               /\ n = Referred(s, s.user, s.other, user[s.other])
                            \/ n = [s EXCEPT !.pc = "posted"]
                      \/ s.pc = "ready" /\ n = [s EXCEPT !.pc = "posted", !.today = day]
      <3>1. CASE Insert(r)
        BY <1>3, <1>6, <3>1 DEF Insert, Inserted, Moves
      <3>2. CASE Referral(r)
        BY <3>2 DEF Referral, Referred, Moves
      <3>3. CASE Flush(r)
        BY <3>3 DEF Flush
      <3>4. CASE Abort(r)
        BY <1>3, <1>6, <3>4 DEF Abort
      <3> QED BY <3>1, <3>2, <3>3, <3>4
    <2>2. user \in Copies
      BY RowFacts
    <2> HIDE DEF s
    <2>3. CASE s.pc = "insert" /\ n = Inserted(s, s.user)
      <3>1. s.user \in Users /\ s.op = "login"
        BY <1>1, <2>3 DEF Holds, OpsOK
      <3>2. n.op = "login"
        BY <1>1, <2>3, <3>1, WelcomeHolds
      <3> QED BY <1>2, <2>1, <3>2, CountedMove DEF CountOK
    <2>4. CASE /\ s.pc = "referral" /\ s.other \in Users \ {s.user}
               /\ n = Referred(s, s.user, s.other, user[s.other])
      <3>1. /\ s.user \in Users /\ s.op = "login" /\ s.other \in Users /\ s.user # s.other
            /\ user[s.other] \in [exists : BOOLEAN, balance : Int, plus : Nat]
        BY <1>1, <2>2, <2>4 DEF Holds, OpsOK, Copies
      <3>2. Rewarded(n, s, s.user, s.other, user[s.other])
        BY <1>1, <2>4, <3>1, ReferredHolds
      <3>3. n.op = "login"
        BY <3>1, <3>2 DEF Rewarded
      <3> QED BY <1>2, <2>1, <3>3, CountedMove DEF CountOK
    <2>5. CASE \/ s.pc = "referral" /\ n = [s EXCEPT !.pc = "posted"]
               \/ s.pc = "ready" /\ n = [s EXCEPT !.pc = "posted", !.today = day]
      <3>1. /\ n.op = s.op /\ n.user = s.user /\ n.target = s.target /\ n.late = s.late
            /\ n.pc = "posted"
        BY <1>1, <2>5 DEF Sessions
      <3>2. s.pc = "ready" \/ s.op = "login"
        BY <1>1, <2>5 DEF OpsOK
      <3>3. CountOK(n)
        BY <1>1, <3>1, <3>2 DEF CountOK
      <3> QED BY <1>2, <2>1, <3>3, CountedMove
    <2> QED BY <2>1, <2>3, <2>4, <2>5
  <1> QED BY <1>5, <1>6

\* A run that starts: the bound grows with a run that counted too early.
LEMMA CountCommit ==
    ASSUME LedgerInv, CountInv, NEW r \in Requests, Commit(r)
    PROVE  CountInv'
  <1> DEFINE s == session[r]
  <1>1. s \in Sessions /\ CountOK(s) /\ s.pc = "posted" /\ session \in [Requests -> Sessions]
    BY RowFacts DEF CountInv, Commit
  <1>2. evaluation' = [e \in Evaluations |-> IF s.op = "charge" /\ e = s.target
                                             THEN "running" ELSE evaluation[e]]
    BY DEF Commit
  <1>3. raced' = [u \in Users |-> raced[u] + IF s.op = "charge" /\ s.late /\ u = s.user
                                             THEN 1 ELSE 0]
    BY DEF Commit
  <1>4. session' = [t \in Requests |-> IF t = r THEN [Idle EXCEPT !.pc = "end"]
                                                ELSE SeenBy(session[t], s)]
    BY DEF Commit
  <1>5. raced \in [Users -> Nat] /\ MaxRunning \in Nat
    BY LedgerAssumption DEF LedgerInv, TypeOK
  <1> HIDE DEF s
  <1>6. \A u \in Users : ~(s.op = "charge" /\ u = s.user) => Running(u)' = Running(u)
    BY <1>1, <1>2 DEF Running, CountOK
  <1>7. \A u \in Users : s.op = "charge" /\ u = s.user
                            => Running(u)' = Running(u) \cup {s.target}
    BY <1>1, <1>2 DEF Running, CountOK
  <1>8. ASSUME NEW t \in Requests
        PROVE  CountOK(session[t])'
    <2>1. CASE t = r
      <3>1. PICK e : e = [Idle EXCEPT !.pc = "end"] /\ session'[t] = e
        BY <1>4, <2>1
      <3>2. e.pc = "end"
        BY <3>1, IdleType DEF Sessions
      <3> QED BY <3>1, <3>2 DEF CountOK
    <2>2. CASE t # r
      <3>1. PICK old \in Sessions : old = session[t] /\ CountOK(old)
        BY <1>1 DEF CountInv
      <3>2. PICK n : n = SeenBy(old, s) /\ session'[t] = n
        BY <1>4, <2>2, <3>1
      <3>3. n.pc = old.pc /\ n.op = old.op /\ n.user = old.user /\ n.target = old.target
        BY <1>1, <3>1, <3>2, SeenByHolds
      <3>4. n.late = (old.late \/ (s.op = "charge" /\ old.op = "charge"
                                   /\ old.user = s.user /\ old.pc \in {"ready", "posted"}))
        BY <1>1, <3>1, <3>2 DEF SeenBy, Sessions
      <3>5. CountOK(n)'
        BY <1>6, <3>1, <3>3, <3>4 DEF CountOK
      <3> QED BY <3>2, <3>5
    <2> QED BY <2>1, <2>2
  <1>9. RunningBound'
    <2> SUFFICES ASSUME NEW u \in Users
                 PROVE  Cardinality(Running(u)') <= MaxRunning + raced'[u]
      BY DEF RunningBound
    <2>1. Cardinality(Running(u)) <= MaxRunning + raced[u] /\ Cardinality(Running(u)) \in Nat
      BY RunningFinite DEF CountInv, RunningBound
    <2>2. raced[u] \in Nat
          /\ raced'[u] = raced[u] + IF s.op = "charge" /\ s.late /\ u = s.user THEN 1 ELSE 0
      BY <1>3, <1>5
    <2>3. CASE ~(s.op = "charge" /\ u = s.user)
      <3>1. Running(u)' = Running(u)
        BY <1>6, <2>3
      <3>2. Cardinality(Running(u)') = Cardinality(Running(u))
        BY <3>1
      <3> QED BY <1>5, <2>1, <2>2, <2>3, <3>2
    <2>4. CASE s.op = "charge" /\ u = s.user
      <3>1. Running(u)' = Running(u) \cup {s.target}
        BY <1>7, <2>4
      <3>2. IsFiniteSet(Running(u))
        BY RunningFinite
      <3>3. Cardinality(Running(u)') \in {Cardinality(Running(u)), Cardinality(Running(u)) + 1}
        BY <3>1, <3>2, FS_AddElement
      <3>4. s.late \in BOOLEAN
        BY <1>1 DEF Sessions
      <3>5. ~s.late => Cardinality(Running(u)) < MaxRunning
        BY <1>1, <2>4 DEF CountOK
      <3> QED BY <1>5, <2>1, <2>2, <2>4, <3>3, <3>4, <3>5
    <2> QED BY <2>3, <2>4
  <1> QED BY <1>8, <1>9 DEF CountInv

\* A run that ends takes one away; orders and days change nothing.
LEMMA CountAround ==
    ASSUME LedgerInv, CountInv,
           \/ \E o \in Orders : CreateOrder(o)
           \/ \E e \in Evaluations : \E status \in {"done", "failed"} : Ends(e, status)
           \/ Midnight
    PROVE  CountInv'
  <1>1. UNCHANGED <<session, raced>>
    BY DEF CreateOrder, Ends, Midnight, Rows, Ghosts
  <1>2. ASSUME NEW u \in Users
        PROVE  /\ Cardinality(Running(u)) \in Nat /\ Cardinality(Running(u)') \in Nat
               /\ Cardinality(Running(u)') <= Cardinality(Running(u))
    <2>1. Running(u)' \in SUBSET Running(u)
      BY DEF LedgerInv, TypeOK, CreateOrder, Ends, Midnight, Rows, Running
    <2>2. IsFiniteSet(Running(u)) /\ Cardinality(Running(u)) \in Nat
      BY RunningFinite
    <2> QED BY <2>1, <2>2, FS_Subset, FS_CardinalityType
  <1>3. MaxRunning \in Nat /\ raced \in [Users -> Nat]
    BY LedgerAssumption DEF LedgerInv, TypeOK
  <1>4. ASSUME NEW t \in Requests
        PROVE  CountOK(session[t])'
    <2>1. PICK n : n = session[t] /\ CountOK(n)
      BY DEF CountInv
    <2>2. CountOK(n)'
      BY <1>2, <1>3, <2>1 DEF CountOK
    <2> QED BY <1>1, <2>1, <2>2
  <1>5. RunningBound'
    BY <1>1, <1>2, <1>3 DEF CountInv, RunningBound
  <1> QED BY <1>4, <1>5 DEF CountInv

\* The bound holds at first and every step keeps it.
LEMMA CountInit == Init => CountInv
  <1> SUFFICES ASSUME Init PROVE CountInv
    OBVIOUS
  <1>1. \A r \in Requests : CountOK(session[r])
    BY DEF Init, Idle, CountOK
  <1>2. ASSUME NEW u \in Users
        PROVE  Cardinality(Running(u)) <= MaxRunning + raced[u]
    <2>1. Running(u) = {}
      BY DEF Init, Running
    <2>2. Cardinality(Running(u)) = 0 /\ raced[u] = 0 /\ MaxRunning \in Nat
      BY <2>1, FS_EmptySet, LedgerAssumption DEF Init
    <2> QED BY <2>2
  <1> QED BY <1>1, <1>2 DEF CountInv, RunningBound

LEMMA CountStep == LedgerInv /\ CountInv /\ [Next]_vars => CountInv'
  <1> SUFFICES ASSUME LedgerInv, CountInv, [Next]_vars PROVE CountInv'
    OBVIOUS
  <1>1. ASSUME NEW r \in Requests, Begin(r) PROVE CountInv'
    BY <1>1, CountBegin
  <1>2. ASSUME NEW r \in Requests, Continue(r) \/ Abort(r) PROVE CountInv'
    <2>1. CASE ChargeCheck(r) \/ DailyCheck(r)
      BY <2>1, CountCheck
    <2>2. CASE Insert(r) \/ Referral(r) \/ Flush(r) \/ Abort(r)
      BY <2>2, CountGoesOn
    <2>3. CASE Commit(r)
      BY <2>3, CountCommit
    <2> QED BY <1>2, <2>1, <2>2, <2>3 DEF Continue
  <1>3. CASE \/ \E o \in Orders : CreateOrder(o)
             \/ \E e \in Evaluations : \E status \in {"done", "failed"} : Ends(e, status)
             \/ Midnight
    BY <1>3, CountAround
  <1>4. CASE UNCHANGED vars
    BY <1>4 DEF vars, CountInv, CountOK, RunningBound, Running
  <1> QED BY <1>1, <1>2, <1>3, <1>4 DEF Next

\* max_running_evaluations_per_user: for any limit and any number of concurrent run
\* requests, as many evaluations of a user run beyond it as were started on a count that
\* another start had made outdated, and no more.
THEOREM LimitHoldsUpToRaces == Spec => []RunningBound
  <1>1. CountInv => RunningBound
    BY DEF CountInv
  <1>2. Spec => []CountInv
    BY CountInit, CountStep, LedgerSafe, PTL DEF Spec
  <1> QED BY <1>1, <1>2, PTL

-----------------------------------------------------------------------------
(* What is awarded is backed                                                *)

\* What session t, which is request r, holds of the rows, the ledger and the locks: a row
\* it has a copy of exists, unless it is the one it inserts, which it keeps locked; a reward
\* and a payment are for one user; the year it writes is the next one, and the reward it
\* gives is the first of its day, unless its copy is outdated.
Known(t) == \A u \in Users :
    t.copy[u].exists => \/ user[u].exists
                        \/ t.op = "login" /\ u = t.user /\ t.pc \in {"referral", "ready", "posted"}

Inserting(locks, r, t) ==
    t.op = "login" /\ t.pc \in {"referral", "ready", "posted"} =>
        t.user \in Users /\ locks[t.user] = r /\ ~user[t.user].exists

OneUser(t) ==
    t.op \in {"daily", "plus"} /\ t.pc \in {"open", "ready", "posted"} =>
        /\ t.user \in Users /\ t.copy[t.user].exists
        /\ \A u \in Users : t.posted[u] # 0 => u = t.user

NextYear(t) ==
    /\ t.op = "plus" => t.pc # "open"
    /\ t.op = "plus" /\ t.pc \in {"ready", "posted"} /\ t.user \notin t.outdated =>
           t.copy[t.user].plus = user[t.user].plus + 1

FirstOfDay(t) ==
    t.op = "daily" =>
        /\ t.today <= day
        /\ t.pc = "open" /\ t.user \notin t.outdated => ledger[t.user].rewardDay <= t.today
        /\ t.pc \in {"ready", "posted"} /\ t.user \notin t.outdated =>
               ledger[t.user].rewards = 0 \/ ledger[t.user].rewardDay < t.today

AwardOK(locks, r, t) ==
    Known(t) /\ Inserting(locks, r, t) /\ OneUser(t) /\ NextYear(t) /\ FirstOfDay(t)

AwardInv == /\ AwardsBacked
            /\ \A u \in Users : ledger[u].rewardDay <= day
            /\ \A r \in Requests : AwardOK(lock, r, session[r])

\* Posting leaves the membership alone.
LEMMA PostPlus ==
    ASSUME NEW s \in Sessions, NEW u \in Users, NEW amount \in Int, NEW v \in Users
    PROVE  Post(s, u, amount).copy[v].plus = s.copy[v].plus
  <1> DEFINE row == [s.copy[u] EXCEPT !.balance = @ + amount]
  <1> DEFINE copy == [s.copy EXCEPT ![u] = row]
  <1>1. s.copy \in Copies /\ s.posted \in [Users -> Int]
    BY DEF Sessions
  <1>2. row.plus = s.copy[u].plus
    BY <1>1 DEF Copies
  <1>3. copy[v] = IF v = u THEN row ELSE s.copy[v]
    <2> HIDE DEF row
    <2> QED BY <1>1 DEF Copies
  <1>4. Post(s, u, amount).copy = copy
    BY DEF Post, Sessions
  <1> HIDE DEF copy, row
  <1> QED BY <1>2, <1>3, <1>4

\* A session that reads, waits, or gives its locks back.
LEMMA AwardMove ==
    ASSUME LedgerInv, AwardInv, NEW r \in Requests, NEW n, AwardOK(lock', r, n),
           session' = [session EXCEPT ![r] = n],
           UNCHANGED <<user, ledger, order, day, overwritten>>,
           \A u \in Users, t \in Requests : t # r /\ lock[u] = t => lock'[u] = t
    PROVE  AwardInv'
  <1>1. AwardsBacked'
    BY DEF AwardInv, AwardsBacked, OneRewardPerDay, PlusMatchesPayments, WelcomeOnce
  <1>2. ASSUME NEW t \in Requests
        PROVE  AwardOK(lock, t, session[t])'
    <2>1. PICK m : m = session'[t]
      OBVIOUS
    <2>2. AwardOK(lock', t, m)
      <3>1. CASE t = r
        BY <2>1, <3>1 DEF LedgerInv, TypeOK
      <3>2. CASE t # r
        <4>1. m = session[t] /\ AwardOK(lock, t, m)
          BY <2>1, <3>2 DEF AwardInv
        <4>2. Inserting(lock', t, m)
          BY <3>2, <4>1 DEF AwardOK, Inserting
        <4> QED BY <4>1, <4>2 DEF AwardOK
      <3> QED BY <3>1, <3>2
    <2> QED BY <2>1, <2>2 DEF AwardOK, Known, Inserting, OneUser, NextYear, FirstOfDay
  <1>3. \A u \in Users : (ledger[u].rewardDay <= day)'
    BY DEF AwardInv
  <1> QED BY <1>1, <1>2, <1>3 DEF AwardInv

\* A step of one session that only reads is one of these.
LEMMA AwardReads ==
    ASSUME LedgerInv, AwardInv, NEW r \in Requests, NEW n, AwardOK(lock, r, n), Moves(r, n)
    PROVE  AwardInv'
  <1>1. session' = [session EXCEPT ![r] = n] /\ lock' = lock
        /\ UNCHANGED <<user, ledger, order, day, overwritten>>
    BY DEF Moves, Rows, Ghosts
  <1>2. AwardOK(lock', r, n)
    BY <1>1
  <1> QED BY <1>1, <1>2, AwardMove

\* A session that has ended knows nothing that could be wrong.
LEMMA AwardEnd ==
    ASSUME NEW locks, NEW r, NEW e, e = [Idle EXCEPT !.pc = "end"] \/ e = Idle
    PROVE  AwardOK(locks, r, e)
  <1>1. e.pc \in {"end", "idle"} /\ e.op = "none" /\ e.copy = Idle.copy
    BY IdleType DEF Idle, Sessions
  <1>2. \A u \in Users : ~e.copy[u].exists
    BY <1>1, IdleType DEF NoRow
  <1> QED BY <1>1, <1>2 DEF AwardOK, Known, Inserting, OneUser, NextYear, FirstOfDay

\* A request that has authenticated has read its user's row today.
LEMMA AwardAuthenticate ==
    ASSUME LedgerInv, AwardInv, NEW r \in Requests, NEW u \in Users,
           NEW op \in {"charge", "daily"}, NEW e \in Evaluations \cup {Nobody},
           Authenticate(r, u, op, e)
    PROVE  AwardInv'
  <1>1. PICK n : n = Reading("open", op, u, e, day, user[u]) /\ Moves(r, n)
    BY DEF Authenticate, Reading
  <1>2. /\ n.pc = "open" /\ n.op = op /\ n.user = u /\ n.today = day
        /\ \A v \in Users : /\ n.posted[v] = 0
                            /\ n.copy[v] = IF v = u THEN user[u] ELSE NoRow
    BY <1>1, RowFacts, ReadHolds
  <1>3. user[u].exists /\ ~NoRow.exists /\ day \in 0..MaxDay
    BY RowFacts DEF Authenticate, NoRow
  <1>4. Known(n) /\ Inserting(lock, r, n) /\ OneUser(n) /\ NextYear(n)
    BY <1>2, <1>3 DEF Known, Inserting, OneUser, NextYear
  <1>5. FirstOfDay(n)
    BY <1>2, <1>3 DEF FirstOfDay, AwardInv
  <1> QED BY <1>1, <1>4, <1>5, AwardReads DEF AwardOK

\* The refund of a worker, and the next year of a payment.
LEMMA AwardReadAndPost ==
    ASSUME LedgerInv, AwardInv, NEW r \in Requests, NEW op \in {"refund", "plus"},
           NEW u \in Users, NEW target \in Evaluations \cup Orders, NEW amount \in Int,
           NEW row \in [exists : BOOLEAN, balance : Int, plus : Nat], row.exists,
           user[u].exists, op = "plus" => row.plus = user[u].plus + 1,
           Moves(r, Post(Reading("ready", op, u, target, 0, row), u, amount))
    PROVE  AwardInv'
  <1> DEFINE s == Reading("ready", op, u, target, 0, row)
  <1>1. /\ s \in Sessions
        /\ s.pc = "ready" /\ s.op = op /\ s.user = u
        /\ \A v \in Users : /\ s.posted[v] = 0
                            /\ s.copy[v] = IF v = u THEN row ELSE NoRow
    BY RowFacts, ReadHolds
  <1> HIDE DEF s
  <1>2. PICK n : n = Post(s, u, amount)
    OBVIOUS
  <1>3. /\ n.pc = "ready" /\ n.op = op /\ n.user = u
        /\ \A v \in Users :
              /\ n.posted[v] = IF v = u THEN s.posted[v] + amount ELSE s.posted[v]
              /\ n.copy[v].exists = s.copy[v].exists
    <2>1. LET p == Post(s, u, amount) IN
          /\ p.pc = s.pc /\ p.op = s.op /\ p.user = s.user
          /\ \A v \in Users :
                /\ p.posted[v] = IF v = u THEN s.posted[v] + amount ELSE s.posted[v]
                /\ p.copy[v].exists = s.copy[v].exists
      BY <1>1, PostHolds
    <2> QED BY <1>1, <1>2, <2>1
  <1>4. n.copy[u].plus = row.plus
    BY <1>1, <1>2, PostPlus
  <1>5. ~NoRow.exists
    BY DEF NoRow
  <1>6. AwardOK(lock, r, n)
    BY <1>1, <1>3, <1>4, <1>5 DEF AwardOK, Known, Inserting, OneUser, NextYear, FirstOfDay
  <1> QED BY <1>2, <1>6, AwardReads DEF s

\* Beginning.
LEMMA AwardBegin ==
    ASSUME LedgerInv, AwardInv, NEW r \in Requests, Begin(r)
    PROVE  AwardInv'
  <1>1. ASSUME NEW e \in Evaluations, BeginRefund(r, e)
        PROVE  AwardInv'
    <2> DEFINE u == OwnerOf[e]
    <2>1. u \in Users /\ Cost \in Int
      BY LedgerAssumption
    <2>2. Reading("ready", "refund", u, e, 0, user[u])
              = [Idle EXCEPT !.pc = "ready", !.op = "refund", !.user = u, !.target = e,
                             !.copy[u] = user[u]]
      BY IdleType DEF Reading, Sessions
    <2>3. /\ Moves(r, Post(Reading("ready", "refund", u, e, 0, user[u]), u, Cost))
          /\ user[u].exists
      BY <1>1, <2>2 DEF BeginRefund
    <2> HIDE DEF u
    <2> QED BY <2>1, <2>3, RowFacts, AwardReadAndPost
  <1>2. ASSUME NEW o \in Orders, BeginPlus(r, o)
        PROVE  AwardInv'
    <2> DEFINE u == BuyerOf[o]
    <2>1. u \in Users /\ PlusAward \in Int
      BY LedgerAssumption DEF PlusAward
    <2>2. Reading("ready", "plus", u, o, 0, Extend(user[u]))
              = [Idle EXCEPT !.pc = "ready", !.op = "plus", !.user = u, !.target = o,
                             !.copy[u] = Extend(user[u])]
      BY IdleType DEF Reading, Sessions
    <2>3. Moves(r, Post(Reading("ready", "plus", u, o, 0, Extend(user[u])), u, PlusAward))
      BY <1>2, <2>2 DEF BeginPlus
    <2>4. user[u].exists
      BY <1>2 DEF BeginPlus, LedgerInv, RowsOK
    <2>5. /\ Extend(user[u]) \in [exists : BOOLEAN, balance : Int, plus : Nat]
          /\ Extend(user[u]).exists /\ Extend(user[u]).plus = user[u].plus + 1
      BY <2>1, <2>4, RowFacts DEF Extend
    <2> HIDE DEF u
    <2> QED BY <2>1, <2>3, <2>4, <2>5, AwardReadAndPost
  <1>3. ASSUME NEW u \in Users, NEW ref \in Users \cup {Nobody}, BeginLogin(r, u, ref)
        PROVE  AwardInv'
    <2>1. PICK n : /\ n = [Idle EXCEPT !.pc = "insert", !.op = "login", !.user = u,
                                       !.other = ref]
                   /\ Moves(r, n)
      BY <1>3 DEF BeginLogin
    <2>2. n.pc = "insert" /\ n.op = "login" /\ n.copy = Idle.copy
      BY <2>1, IdleType DEF Sessions
    <2>3. \A v \in Users : ~n.copy[v].exists
      BY <2>2, IdleType DEF NoRow
    <2>4. AwardOK(lock, r, n)
      BY <2>2, <2>3 DEF AwardOK, Known, Inserting, OneUser, NextYear, FirstOfDay
    <2> QED BY <2>1, <2>4, AwardReads
  <1> QED BY <1>1, <1>2, <1>3, AwardAuthenticate DEF Begin

\* A reward that is due is the first of its day, as far as the copy is not outdated.
LEMMA AwardCheck ==
    ASSUME LedgerInv, AwardInv, NEW r \in Requests, ChargeCheck(r) \/ DailyCheck(r)
    PROVE  AwardInv'
  <1> DEFINE s == session[r]
  <1>1. /\ s \in Sessions /\ AwardOK(lock, r, s) /\ s.pc = "open"
        /\ s.user \in Users /\ s.op \in {"charge", "daily"} /\ Holds(user, s)
    BY RowFacts DEF AwardInv, ChargeCheck, DailyCheck, Holds
  <1>2. PICK amount \in Int :
            \E n \in {[Post(s, s.user, amount) EXCEPT !.pc = "ready"],
                      [Idle EXCEPT !.pc = "end"]} :
                /\ Moves(r, n)
                /\ n # [Idle EXCEPT !.pc = "end"] /\ s.op = "daily" => RewardDue(s)
    <2>1. -Cost \in Int /\ DailyReward \in Int
      BY LedgerAssumption DEF DailyReward
    <2>2. CASE ChargeCheck(r)
      BY <2>1, <2>2 DEF ChargeCheck
    <2>3. CASE DailyCheck(r)
      BY <2>1, <2>3 DEF DailyCheck
    <2> QED BY <2>2, <2>3
  <1>3. PICK n \in {[Post(s, s.user, amount) EXCEPT !.pc = "ready"],
                    [Idle EXCEPT !.pc = "end"]} :
            /\ Moves(r, n)
            /\ n # [Idle EXCEPT !.pc = "end"] /\ s.op = "daily" => RewardDue(s)
    BY <1>2
  <1>4. /\ day \in 0..MaxDay
        /\ \A u \in Users : ledger[u].rewardDay \in 0..MaxDay /\ ledger[u].rewards \in Nat
    BY DEF LedgerInv, TypeOK
  <1> HIDE DEF s
  <1>5. CASE n = [Idle EXCEPT !.pc = "end"]
    BY <1>3, <1>5, AwardEnd, AwardReads
  <1>6. CASE n # [Idle EXCEPT !.pc = "end"]
    <2>1. PICK p : p = Post(s, s.user, amount)
      OBVIOUS
    <2>2. /\ p \in Sessions
          /\ p.op = s.op /\ p.user = s.user /\ p.today = s.today /\ p.outdated = s.outdated
          /\ \A v \in Users :
                /\ p.posted[v] = IF v = s.user THEN s.posted[v] + amount ELSE s.posted[v]
                /\ p.copy[v].exists = s.copy[v].exists
      BY <1>1, <2>1, PostHolds
    <2>3. n = [p EXCEPT !.pc = "ready"]
      BY <1>3, <1>6, <2>1
    <2>4. /\ n.pc = "ready" /\ n.op = p.op /\ n.user = p.user /\ n.today = p.today
          /\ n.outdated = p.outdated /\ n.posted = p.posted /\ n.copy = p.copy
      BY <2>2, <2>3 DEF Sessions
    <2>5. Known(n) /\ Inserting(lock, r, n) /\ OneUser(n) /\ NextYear(n)
      BY <1>1, <2>2, <2>4 DEF AwardOK, Known, Inserting, OneUser, NextYear
    <2>6. FirstOfDay(n)
      <3>1. s.today \in 0..MaxDay
        BY <1>1 DEF Sessions
      <3>2. s.op = "daily" =>
                /\ s.today <= day
                /\ s.user \notin s.outdated => ledger[s.user].rewardDay <= s.today
        BY <1>1 DEF AwardOK, FirstOfDay
      <3>3. s.op = "daily" => \/ ledger[s.user].rewards = 0
                              \/ ledger[s.user].rewardDay # s.today
        BY <1>3, <1>6 DEF RewardDue
      <3> QED BY <1>1, <1>4, <2>2, <2>4, <3>1, <3>2, <3>3 DEF FirstOfDay
    <2> QED BY <1>3, <2>5, <2>6, AwardReads DEF AwardOK
  <1> QED BY <1>5, <1>6

\* The new row is locked by the request that inserts it.
LEMMA AwardInsert ==
    ASSUME LedgerInv, AwardInv, NEW r \in Requests, Insert(r)
    PROVE  AwardInv'
  <1> DEFINE s == session[r]
  <1>1. /\ s \in Sessions /\ s.user \in Users /\ s.op = "login" /\ lock[s.user] = Nobody
        /\ \A v \in Users : ~s.copy[v].exists
    BY RowFacts DEF Insert, Holds, OpsOK
  <1>2. CASE user[s.user].exists
    <2>1. Moves(r, [Idle EXCEPT !.pc = "end"])
      BY <1>2 DEF Insert
    <2> QED BY <2>1, AwardEnd, AwardReads
  <1>3. CASE ~user[s.user].exists
    <2>1. PICK n : n = Inserted(s, s.user) /\ session' = [session EXCEPT ![r] = n]
      BY <1>3 DEF Insert, Inserted
    <2>2. /\ lock' = [lock EXCEPT ![s.user] = r] /\ lock \in [Users -> Requests \cup {Nobody}]
          /\ UNCHANGED <<user, ledger, order, day, overwritten>>
      BY <1>3 DEF Insert, Rows, Ghosts, LedgerInv, TypeOK
    <2> HIDE DEF s
    <2>3. /\ n.pc = "referral" /\ n.op = s.op /\ n.user = s.user
          /\ \A v \in Users : n.copy[v].exists <=> (v = s.user \/ s.copy[v].exists)
      BY <1>1, <2>1, WelcomeHolds
    <2>4. AwardOK(lock', r, n)
      BY <1>1, <1>3, <2>2, <2>3
         DEF AwardOK, Known, Inserting, OneUser, NextYear, FirstOfDay
    <2>5. \A u \in Users, t \in Requests : t # r /\ lock[u] = t => lock'[u] = t
      BY <1>1, <2>2, LedgerAssumption
    <2> QED BY <2>1, <2>2, <2>4, <2>5, AwardMove
  <1> QED BY <1>2, <1>3

\* It keeps the lock while it reads the referrer's row.
LEMMA AwardReferral ==
    ASSUME LedgerInv, AwardInv, NEW r \in Requests, Referral(r)
    PROVE  AwardInv'
  <1> DEFINE s == session[r]
  <1>1. /\ s \in Sessions /\ AwardOK(lock, r, s) /\ s.pc = "referral" /\ s.op = "login"
        /\ s.user \in Users /\ user \in Copies
    BY RowFacts DEF AwardInv, Referral, Holds, OpsOK
  <1>2. PICK n : /\ Moves(r, n)
                 /\ \/ /\ s.other \in Users \ {s.user} /\ user[s.other].exists
                       /\ n = Referred(s, s.user, s.other, user[s.other])
                    \/ n = [s EXCEPT !.pc = "posted"]
    BY DEF Referral, Referred
  <1> HIDE DEF s
  <1>3. CASE n = [s EXCEPT !.pc = "posted"]
    <2>1. n.pc = "posted" /\ n.op = s.op /\ n.user = s.user /\ n.copy = s.copy
      BY <1>1, <1>3 DEF Sessions
    <2>2. AwardOK(lock, r, n)
      BY <1>1, <2>1 DEF AwardOK, Known, Inserting, OneUser, NextYear, FirstOfDay
    <2> QED BY <1>2, <2>2, AwardReads
  <1>4. CASE /\ s.other \in Users \ {s.user} /\ user[s.other].exists
             /\ n = Referred(s, s.user, s.other, user[s.other])
    <2>1. user[s.other] \in [exists : BOOLEAN, balance : Int, plus : Nat] /\ s.user # s.other
      BY <1>1, <1>4 DEF Copies
    <2>2. Rewarded(n, s, s.user, s.other, user[s.other])
      BY <1>1, <1>4, <2>1, ReferredHolds
    <2>3. /\ n.pc = "ready" /\ n.op = s.op /\ n.user = s.user
          /\ \A v \in Users : n.copy[v].exists <=> (IF v = s.other THEN user[s.other].exists
                                                                   ELSE s.copy[v].exists)
      BY <2>2 DEF Rewarded
    <2>4. AwardOK(lock, r, n)
      BY <1>1, <1>4, <2>3 DEF AwardOK, Known, Inserting, OneUser, NextYear, FirstOfDay
    <2> QED BY <1>2, <2>4, AwardReads
  <1> QED BY <1>2, <1>3, <1>4

\* The entry gets the date of its flush, which is not before the one it was checked for.
LEMMA AwardFlush ==
    ASSUME LedgerInv, AwardInv, NEW r \in Requests, Flush(r)
    PROVE  AwardInv'
  <1> DEFINE s == session[r]
  <1>1. s \in Sessions /\ AwardOK(lock, r, s) /\ s.pc = "ready" /\ lock[Target(s)] = Nobody
    BY RowFacts DEF AwardInv, Flush
  <1>2. PICK n : /\ n = [s EXCEPT !.pc = "posted", !.today = day]
                 /\ session' = [session EXCEPT ![r] = n]
    BY RowFacts DEF Flush
  <1>3. /\ lock' = [lock EXCEPT ![Target(s)] = r] /\ lock \in [Users -> Requests \cup {Nobody}]
        /\ UNCHANGED <<user, ledger, order, day, overwritten>>
        /\ day \in 0..MaxDay
        /\ \A u \in Users : ledger[u].rewardDay \in 0..MaxDay
    BY DEF Flush, Rows, Ghosts, LedgerInv, TypeOK
  <1> HIDE DEF s
  <1>4. /\ n.pc = "posted" /\ n.op = s.op /\ n.user = s.user /\ n.today = day
        /\ n.outdated = s.outdated /\ n.copy = s.copy /\ n.posted = s.posted
    BY <1>1, <1>2 DEF Sessions
  <1>5. \A u \in Users, t \in Requests : t # r /\ lock[u] = t => lock'[u] = t
    BY <1>1, <1>3, LedgerAssumption
  <1>6. Inserting(lock', r, n)
    BY <1>1, <1>3, <1>4 DEF AwardOK, Inserting
  <1>7. Known(n) /\ OneUser(n) /\ NextYear(n)
    BY <1>1, <1>4 DEF AwardOK, Known, OneUser, NextYear
  <1>8. FirstOfDay(n)
    <2>1. s.today \in 0..MaxDay
      BY <1>1 DEF Sessions
    <2>2. s.op = "daily" => s.user \in Users
      BY <1>1 DEF AwardOK, OneUser
    <2> QED BY <1>1, <1>3, <1>4, <2>1, <2>2 DEF AwardOK, FirstOfDay
  <1> QED BY <1>2, <1>3, <1>5, <1>6, <1>7, <1>8, AwardMove DEF AwardOK

\* A failed transaction gives back its own locks only.
LEMMA AwardAbort ==
    ASSUME LedgerInv, AwardInv, NEW r \in Requests, Abort(r)
    PROVE  AwardInv'
  <1>1. PICK e : e = [Idle EXCEPT !.pc = "end"] /\ session' = [session EXCEPT ![r] = e]
    BY DEF Abort
  <1>2. UNCHANGED <<user, ledger, order, day, overwritten>>
    BY DEF Abort, Rows, Ghosts
  <1>3. \A u \in Users, t \in Requests : t # r /\ lock[u] = t => lock'[u] = t
    BY DEF Abort, Unlocked
  <1> QED BY <1>1, <1>2, <1>3, AwardEnd, AwardMove

\* The ledger of a user after a commit: the year, the reward and the welcome of the session.
LEMMA CommittedLedger ==
    ASSUME LedgerInv, NEW r \in Requests, Commit(r), NEW u \in Users,
           u \in Written(session[r])
    PROVE  LET s == session[r] IN
           /\ user'[u].plus = IF s.op = "plus" THEN s.copy[u].plus ELSE user[u].plus
           /\ ledger'[u].plus = ledger[u].plus + IF s.op = "plus" THEN 1 ELSE 0
           /\ ledger'[u].welcomes
                = ledger[u].welcomes + IF s.op = "login" /\ u = s.user THEN 1 ELSE 0
           /\ ledger'[u].rewards = IF s.op # "daily" THEN ledger[u].rewards
                                   ELSE IF ledger[u].rewardDay = s.today
                                        THEN ledger[u].rewards + 1 ELSE 1
           /\ ledger'[u].rewardDay = IF s.op = "daily" THEN s.today ELSE ledger[u].rewardDay
  <1> DEFINE s == session[r]
  <1>1. s \in Sessions /\ user \in Copies
    BY DEF LedgerInv, TypeOK
  <1>2. user'[u] = RowAfter(s, u) /\ ledger'[u] = LedgerAfter(s, u)
    BY DEF Commit
  <1> HIDE DEF s
  <1>3. s.copy[u] \in [exists : BOOLEAN, balance : Int, plus : Nat]
    BY <1>1 DEF Sessions, Copies
  <1>4. RowAfter(s, u).plus = IF s.op = "plus" THEN s.copy[u].plus ELSE user[u].plus
    BY <1>3 DEF RowAfter
  <1> QED BY <1>2, <1>4 DEF LedgerAfter, s

\* What a session that commits knew of the rows it writes.
LEMMA AwardWritten ==
    ASSUME LedgerInv, AwardInv, NEW r \in Requests, Commit(r), NEW u \in Users,
           u \in Written(session[r])
    PROVE  LET s == session[r] IN
           /\ s.copy[u].exists /\ user'[u].exists
           /\ u \notin overwritten' => u \notin overwritten /\ u \notin s.outdated
           /\ s.op \in {"daily", "plus"} => u = s.user
           /\ s.op = "login" /\ u = s.user => ~user[u].exists
           /\ ~(s.op = "login" /\ u = s.user) => user[u].exists
  <1> DEFINE s == session[r]
  <1>1. AwardOK(lock, r, s) /\ Holds(user, s) /\ s.pc = "posted"
    BY RowFacts DEF AwardInv, Commit
  <1>2. overwritten' = overwritten \cup (Written(s) \cap s.outdated)
    BY DEF Commit
  <1>3. s.posted[u] # 0
    BY DEF Written
  <1>4. user'[u].exists = s.copy[u].exists
    BY CommittedRows
  <1> HIDE DEF s
  <1>5. s.copy[u].exists
    BY <1>1, <1>3 DEF Holds
  <1>6. s.op \in {"daily", "plus"} => u = s.user
    BY <1>1, <1>3 DEF AwardOK, OneUser
  <1>7. s.op = "login" => ~user[s.user].exists
    BY <1>1 DEF AwardOK, Inserting
  <1>8. ~(s.op = "login" /\ u = s.user) => user[u].exists
    BY <1>1, <1>5 DEF AwardOK, Known
  <1> QED BY <1>2, <1>4, <1>5, <1>6, <1>7, <1>8 DEF s

\* The awards after a commit are backed again.
LEMMA AwardCommitRows ==
    ASSUME LedgerInv, AwardInv, NEW r \in Requests, Commit(r)
    PROVE  AwardsBacked' /\ \A u \in Users : (ledger[u].rewardDay <= day)'
  <1> DEFINE s == session[r]
  <1>1. s \in Sessions /\ AwardOK(lock, r, s) /\ s.pc = "posted"
    BY RowFacts DEF AwardInv, Commit
  <1>2. \A u \in Users : u \notin Written(s) => user'[u] = user[u] /\ ledger'[u] = ledger[u]
    BY CommittedRows
  <1>3. overwritten' = overwritten \cup (Written(s) \cap s.outdated) /\ day' = day
    BY DEF Commit
  <1>4. \A u \in Users : /\ ledger[u].welcomes \in Nat /\ ledger[u].rewards \in Nat
                         /\ ledger[u].plus \in Nat /\ ledger[u].rewardDay \in 0..MaxDay
                         /\ user[u].plus \in Nat
    BY DEF LedgerInv, TypeOK, Copies
  <1>5. /\ \A u \in Users : u \in Written(s) =>
             /\ user'[u].plus = IF s.op = "plus" THEN s.copy[u].plus ELSE user[u].plus
             /\ ledger'[u].plus = ledger[u].plus + IF s.op = "plus" THEN 1 ELSE 0
             /\ ledger'[u].welcomes
                  = ledger[u].welcomes + IF s.op = "login" /\ u = s.user THEN 1 ELSE 0
             /\ ledger'[u].rewards = IF s.op # "daily" THEN ledger[u].rewards
                                     ELSE IF ledger[u].rewardDay = s.today
                                          THEN ledger[u].rewards + 1 ELSE 1
             /\ ledger'[u].rewardDay = IF s.op = "daily" THEN s.today ELSE ledger[u].rewardDay
    BY CommittedLedger
  <1>6. \A u \in Users : u \in Written(s) =>
             /\ s.copy[u].exists /\ user'[u].exists
             /\ u \notin overwritten' => u \notin overwritten /\ u \notin s.outdated
             /\ s.op \in {"daily", "plus"} => u = s.user
             /\ s.op = "login" /\ u = s.user => ~user[u].exists
             /\ ~(s.op = "login" /\ u = s.user) => user[u].exists
    BY AwardWritten
  <1>7. order' = [o \in Orders |-> IF s.op = "plus" /\ o = s.target THEN "paid" ELSE order[o]]
    BY DEF Commit
  <1>8. \A o \in Orders : s.op = "plus" /\ s.target = o => BuyerOf[o] \in Written(s)
    BY RowFacts, LedgerAssumption DEF OpsOK, Written
  <1> HIDE DEF s
  <1>9. WelcomeOnce'
    <2> SUFFICES ASSUME NEW u \in Users
                 PROVE  ledger'[u].welcomes = IF user'[u].exists THEN 1 ELSE 0
      BY DEF WelcomeOnce
    <2>1. ledger[u].welcomes = IF user[u].exists THEN 1 ELSE 0
      BY DEF AwardInv, AwardsBacked, WelcomeOnce
    <2> QED BY <1>2, <1>4, <1>5, <1>6, <2>1
  <1>10. OneRewardPerDay'
    <2> SUFFICES ASSUME NEW u \in Users, u \notin overwritten'
                 PROVE  ledger'[u].rewards <= 1
      BY DEF OneRewardPerDay
    <2>1. ledger[u].rewards <= 1
      BY <1>3 DEF AwardInv, AwardsBacked, OneRewardPerDay
    <2>2. CASE u \notin Written(s) \/ s.op # "daily"
      BY <1>2, <1>5, <2>1, <2>2
    <2>3. CASE u \in Written(s) /\ s.op = "daily"
      <3>1. u = s.user /\ u \notin s.outdated
        BY <1>6, <2>3
      <3>2. ledger[u].rewards = 0 \/ ledger[u].rewardDay < s.today
        BY <1>1, <2>3, <3>1 DEF AwardOK, FirstOfDay
      <3>3. s.today \in 0..MaxDay
        BY <1>1 DEF Sessions
      <3> QED BY <1>4, <1>5, <2>3, <3>2, <3>3
    <2> QED BY <2>2, <2>3
  <1>11. PlusMatchesPayments'
    <2> SUFFICES ASSUME NEW u \in Users
                 PROVE  /\ u \notin overwritten' => user'[u].plus = ledger'[u].plus
                        /\ ledger'[u].plus
                             >= Cardinality({o \in Orders : BuyerOf[o] = u /\ order'[o] = "paid"})
      BY DEF PlusMatchesPayments
    <2>1. u \notin overwritten' => user'[u].plus = ledger'[u].plus
      <3> SUFFICES ASSUME u \notin overwritten' PROVE user'[u].plus = ledger'[u].plus
        OBVIOUS
      <3>1. user[u].plus = ledger[u].plus
        BY <1>3 DEF AwardInv, AwardsBacked, PlusMatchesPayments
      <3>2. CASE u \notin Written(s) \/ s.op # "plus"
        BY <1>2, <1>4, <1>5, <3>1, <3>2
      <3>3. CASE u \in Written(s) /\ s.op = "plus"
        <4>1. u = s.user /\ u \notin s.outdated
          BY <1>6, <3>3
        <4>2. s.copy[u].plus = user[u].plus + 1
          BY <1>1, <3>3, <4>1 DEF AwardOK, NextYear
        <4> QED BY <1>5, <3>1, <3>3, <4>2
      <3> QED BY <3>2, <3>3
    <2> DEFINE Paid == {o \in Orders : BuyerOf[o] = u /\ order[o] = "paid"}
    <2> DEFINE PaidNext == {o \in Orders : BuyerOf[o] = u /\ order'[o] = "paid"}
    <2>2. IsFiniteSet(Paid) /\ Cardinality(Paid) \in Nat
      <3>1. IsFiniteSet(Orders) /\ Paid \in SUBSET Orders
        BY LedgerAssumption
      <3> HIDE DEF Paid
      <3> QED BY <3>1, FS_Subset, FS_CardinalityType
    <2>3. ledger[u].plus >= Cardinality(Paid)
      BY DEF AwardInv, AwardsBacked, PlusMatchesPayments
    <2>4. ledger'[u].plus \in {ledger[u].plus, ledger[u].plus + 1}
      BY <1>2, <1>4, <1>5
    <2>5. CASE PaidNext = Paid
      <3> HIDE DEF Paid, PaidNext
      <3>1. ledger'[u].plus >= Cardinality(PaidNext)
        BY <1>4, <2>2, <2>3, <2>4, <2>5
      <3> QED BY <2>1, <3>1 DEF PaidNext
    <2>6. CASE PaidNext # Paid
      <3>1. s.op = "plus" /\ s.target \in Orders /\ BuyerOf[s.target] = u
            /\ PaidNext = Paid \cup {s.target}
        BY <1>7, <2>6
      <3>2. ledger'[u].plus = ledger[u].plus + 1
        BY <1>5, <1>8, <3>1
      <3> HIDE DEF Paid, PaidNext
      <3>3. Cardinality(PaidNext) \in {Cardinality(Paid), Cardinality(Paid) + 1}
        BY <2>2, <3>1, FS_AddElement
      <3>4. ledger'[u].plus >= Cardinality(PaidNext)
        BY <1>4, <2>2, <2>3, <3>2, <3>3
      <3> QED BY <2>1, <3>4 DEF PaidNext
    <2> QED BY <2>5, <2>6
  <1>12. ASSUME NEW u \in Users
         PROVE  ledger'[u].rewardDay <= day'
    <2>1. ledger[u].rewardDay <= day /\ day' = day
      BY <1>3 DEF AwardInv
    <2>2. s.op = "daily" => s.today <= day
      BY <1>1 DEF AwardOK, FirstOfDay
    <2> QED BY <1>2, <1>5, <2>1, <2>2
  <1> QED BY <1>9, <1>10, <1>11, <1>12 DEF AwardsBacked

\* What every other session knows is still so, or it knows that its copy is outdated.
LEMMA AwardCommitSessions ==
    ASSUME LedgerInv, AwardInv, NEW r \in Requests, Commit(r), NEW t \in Requests
    PROVE  AwardOK(lock, t, session[t])'
  <1> DEFINE s == session[r]
  <1>1. /\ s \in Sessions /\ s.pc = "posted" /\ AwardOK(lock, r, s)
        /\ session[t] \in Sessions /\ AwardOK(lock, t, session[t]) /\ Holds(user, session[t])
    BY RowFacts DEF AwardInv, Commit
  <1>2. session'[t] = IF t = r THEN [Idle EXCEPT !.pc = "end"] ELSE SeenBy(session[t], s)
    BY DEF Commit
  <1>3. \A u \in Users : u \notin Written(s) => user'[u] = user[u] /\ ledger'[u] = ledger[u]
    BY CommittedRows
  <1>4. \A u \in Users : u \in Written(s) =>
             /\ user'[u].exists
             /\ (s.op = "login" /\ u = s.user) \/ user[u].exists
    BY AwardWritten
  <1>5. /\ lock' = [u \in Users |-> IF lock[u] = r THEN Nobody ELSE lock[u]]
        /\ day' = day
    BY DEF Commit, Unlocked
  <1> HIDE DEF s
  <1>6. CASE t = r
    <2>1. PICK e : e = [Idle EXCEPT !.pc = "end"] /\ session'[t] = e
      BY <1>2, <1>6
    <2>2. e.pc = "end" /\ e.op = "none" /\ e.copy = Idle.copy
      BY <2>1, IdleType DEF Idle, Sessions
    <2>3. \A u \in Users : ~e.copy[u].exists
      BY <2>2, IdleType DEF NoRow
    <2> QED BY <2>1, <2>2, <2>3 DEF AwardOK, Known, Inserting, OneUser, NextYear, FirstOfDay
  <1>7. CASE t # r
    <2>1. PICK old \in Sessions :
              old = session[t] /\ AwardOK(lock, t, old) /\ Holds(user, old)
      BY <1>1
    <2>2. PICK n : n = SeenBy(old, s) /\ session'[t] = n
      BY <1>2, <1>7, <2>1
    <2>3. /\ n.pc = old.pc /\ n.op = old.op /\ n.user = old.user /\ n.today = old.today
          /\ n.posted = old.posted /\ n.copy = old.copy
          /\ n.outdated = old.outdated \cup {u \in Written(s) : old.copy[u].exists}
      BY <1>1, <2>1, <2>2, SeenByHolds
    <2>4. Known(n)'
      <3> SUFFICES ASSUME NEW u \in Users, n.copy[u].exists
                   PROVE  \/ user'[u].exists
                          \/ n.op = "login" /\ u = n.user
                             /\ n.pc \in {"referral", "ready", "posted"}
        BY DEF Known
      <3>1. \/ user[u].exists
            \/ old.op = "login" /\ u = old.user /\ old.pc \in {"referral", "ready", "posted"}
        BY <2>1, <2>3 DEF AwardOK, Known
      <3> QED BY <1>3, <1>4, <2>3, <3>1
    <2>5. Inserting(lock, t, n)'
      <3> SUFFICES ASSUME n.op = "login", n.pc \in {"referral", "ready", "posted"}
                   PROVE  n.user \in Users /\ lock'[n.user] = t /\ ~user'[n.user].exists
        BY DEF Inserting
      <3>1. n.user \in Users /\ lock[n.user] = t /\ ~user[n.user].exists
        BY <2>1, <2>3 DEF AwardOK, Inserting
      <3>2. s.op = "login" => lock[s.user] = r
        BY <1>1 DEF AwardOK, Inserting
      <3>3. n.user \notin Written(s)
        BY <1>4, <1>7, <3>1, <3>2
      <3> QED BY <1>3, <1>5, <1>7, <3>1, <3>3
    <2>6. OneUser(n)'
      BY <2>1, <2>3 DEF AwardOK, OneUser
    <2>7. n.op \in {"daily", "plus"} /\ n.pc \in {"open", "ready", "posted"}
              /\ n.user \notin n.outdated =>
                  /\ n.user \in Users /\ n.user \notin old.outdated
                  /\ user'[n.user] = user[n.user] /\ ledger'[n.user] = ledger[n.user]
      BY <1>3, <2>1, <2>3 DEF AwardOK, OneUser
    <2>8. NextYear(n)'
      BY <2>1, <2>3, <2>7 DEF AwardOK, NextYear
    <2>9. FirstOfDay(n)'
      BY <1>5, <2>1, <2>3, <2>7 DEF AwardOK, FirstOfDay
    <2> QED BY <2>2, <2>4, <2>5, <2>6, <2>8, <2>9 DEF AwardOK
  <1> QED BY <1>6, <1>7

\* Nothing around the sessions makes an award unbacked.
LEMMA AwardAround ==
    ASSUME LedgerInv, AwardInv,
           \/ \E o \in Orders : CreateOrder(o)
           \/ \E e \in Evaluations : \E status \in {"done", "failed"} : Ends(e, status)
           \/ Midnight
    PROVE  AwardInv'
  <1>1. UNCHANGED <<user, ledger, session, lock, overwritten>> /\ day <= day' /\ day \in 0..MaxDay
        /\ day' \in Int
    BY DEF CreateOrder, Ends, Midnight, Rows, Ghosts, LedgerInv, TypeOK
  <1>2. \A o \in Orders : order'[o] = "paid" <=> order[o] = "paid"
    BY DEF LedgerInv, TypeOK, CreateOrder, Ends, Midnight, Rows
  <1>3. \A u \in Users : {o \in Orders : BuyerOf[o] = u /\ order'[o] = "paid"}
                            = {o \in Orders : BuyerOf[o] = u /\ order[o] = "paid"}
    BY <1>2
  <1>4. PlusMatchesPayments'
    BY <1>1, <1>3 DEF AwardInv, AwardsBacked, PlusMatchesPayments
  <1>5. OneRewardPerDay' /\ WelcomeOnce'
    BY <1>1 DEF AwardInv, AwardsBacked, OneRewardPerDay, WelcomeOnce
  <1>6. ASSUME NEW u \in Users PROVE ledger'[u].rewardDay <= day'
    BY <1>1 DEF AwardInv, LedgerInv, TypeOK
  <1>7. ASSUME NEW t \in Requests PROVE AwardOK(lock, t, session[t])'
    <2>1. PICK n \in Sessions : n = session[t] /\ AwardOK(lock, t, n)
      BY RowFacts DEF AwardInv
    <2>2. n.today \in 0..MaxDay
      BY DEF Sessions
    <2>3. FirstOfDay(n)'
      BY <1>1, <2>1, <2>2 DEF AwardOK, FirstOfDay
    <2>4. Known(n)' /\ Inserting(lock, t, n)' /\ OneUser(n)' /\ NextYear(n)'
      BY <1>1, <2>1 DEF AwardOK, Known, Inserting, OneUser, NextYear
    <2> QED BY <1>1, <2>1, <2>3, <2>4 DEF AwardOK
  <1> QED BY <1>4, <1>5, <1>6, <1>7 DEF AwardInv, AwardsBacked

\* At first nothing is awarded but the welcomes of those who are there.
LEMMA AwardInit == Init => AwardInv
  <1> SUFFICES ASSUME Init PROVE AwardInv
    OBVIOUS
  <1>1. \A r \in Requests : AwardOK(lock, r, session[r])
    <2>1. \A r \in Requests : session[r] = Idle
      BY DEF Init
    <2> QED BY <2>1, AwardEnd
  <1>2. \A u \in Users : user[u] = IF u \in Existing THEN NewRow ELSE NoRow
    BY DEF Init, NewRow
  <1>3. NewRow.exists /\ NewRow.plus = 0 /\ ~NoRow.exists /\ NoRow.plus = 0
    BY NewRowType, IdleType DEF NewRow, NoRow
  <1>4. \A u \in Users : /\ ledger[u].welcomes = IF u \in Existing THEN 1 ELSE 0
                         /\ ledger[u].rewards = 0 /\ ledger[u].rewardDay = 0
                         /\ ledger[u].plus = 0
    BY DEF Init
  <1>5. WelcomeOnce /\ OneRewardPerDay
    BY <1>2, <1>3, <1>4 DEF WelcomeOnce, OneRewardPerDay
  <1>6. PlusMatchesPayments
    <2> SUFFICES ASSUME NEW u \in Users
                 PROVE  /\ u \notin overwritten => user[u].plus = ledger[u].plus
                        /\ ledger[u].plus
                             >= Cardinality({o \in Orders : BuyerOf[o] = u /\ order[o] = "paid"})
      BY DEF PlusMatchesPayments
    <2>1. {o \in Orders : BuyerOf[o] = u /\ order[o] = "paid"} = {}
      BY DEF Init
    <2>2. Cardinality({o \in Orders : BuyerOf[o] = u /\ order[o] = "paid"}) = 0
      BY <2>1, FS_EmptySet
    <2>3. user[u].plus = 0 /\ ledger[u].plus = 0
      BY <1>2, <1>3, <1>4
    <2> QED BY <2>2, <2>3
  <1>7. \A u \in Users : ledger[u].rewardDay <= day
    BY <1>4 DEF Init
  <1> QED BY <1>1, <1>5, <1>6, <1>7 DEF AwardInv, AwardsBacked

LEMMA AwardStep == LedgerInv /\ AwardInv /\ [Next]_vars => AwardInv'
  <1> SUFFICES ASSUME LedgerInv, AwardInv, [Next]_vars PROVE AwardInv'
    OBVIOUS
  <1>1. ASSUME NEW r \in Requests, Begin(r) PROVE AwardInv'
    BY <1>1, AwardBegin
  <1>2. ASSUME NEW r \in Requests, Continue(r) \/ Abort(r) PROVE AwardInv'
    <2>1. CASE ChargeCheck(r) \/ DailyCheck(r)
      BY <2>1, AwardCheck
    <2>2. CASE Insert(r)
      BY <2>2, AwardInsert
    <2>3. CASE Referral(r)
      BY <2>3, AwardReferral
    <2>4. CASE Flush(r)
      BY <2>4, AwardFlush
    <2>5. CASE Commit(r)
      BY <2>5, AwardCommitRows, AwardCommitSessions DEF AwardInv
    <2>6. CASE Abort(r)
      BY <2>6, AwardAbort
    <2> QED BY <1>2, <2>1, <2>2, <2>3, <2>4, <2>5, <2>6 DEF Continue
  <1>3. CASE \/ \E o \in Orders : CreateOrder(o)
             \/ \E e \in Evaluations : \E status \in {"done", "failed"} : Ends(e, status)
             \/ Midnight
    BY <1>3, AwardAround
  <1>4. CASE UNCHANGED vars
    BY <1>4 DEF vars, AwardInv, AwardsBacked, OneRewardPerDay, PlusMatchesPayments, WelcomeOnce,
                AwardOK, Known, Inserting, OneUser, NextYear, FirstOfDay
  <1> QED BY <1>1, <1>2, <1>3, <1>4 DEF Next

\* Login rewards, memberships and welcome credits: for any number of users, overlapping
\* sessions and days, each is given as often as it is due, the rewards and the years
\* wherever no session wrote an outdated copy.
THEOREM AwardsAlwaysBacked == Spec => []AwardsBacked
  <1>1. AwardInv => AwardsBacked
    BY DEF AwardInv
  <1>2. Spec => []AwardInv
    BY AwardInit, AwardStep, LedgerSafe, PTL DEF Spec
  <1> QED BY <1>1, <1>2, PTL

=============================================================================
