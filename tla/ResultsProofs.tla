---------------------------- MODULE ResultsProofs ----------------------------
(***************************************************************************)
(* Proofs about what an evaluation needs and leads to, for every value of   *)
(* the constants: its survey, its preparation, the report, the whitepaper,  *)
(* conversations and the webhook.  What conversations need is proved of the *)
(* module alone, in ConversationProofs, and cited from there.               *)
(***************************************************************************)
EXTENDS ServicesProofs

-----------------------------------------------------------------------------
(* The survey and its answers                                              *)

\* Where a question of a half stands is within the dimensions of the half.
LEMMA PlaceOfQuestion ==
    ASSUME NEW size \in Nat, size > 0, NEW dims \in Nat, NEW n \in 1..(size * dims)
    PROVE  ((n - 1) \div size) + 1 \in 1..dims
  <1> DEFINE q == (n - 1) \div size
  <1>1. size * dims \in Nat /\ n - 1 \in Nat /\ n - 1 < size * dims
    OBVIOUS
  <1>2. q \in Int /\ size * q <= n - 1 /\ n - 1 < size * q + size
    BY <1>1
  <1> HIDE DEF q
  <1>3. q >= 0
    <2> SUFFICES ASSUME q <= -1 PROVE FALSE
      BY <1>2
    <2>1. (0 - 1 - q) \in Nat /\ (0 - 1 - q) * size \in Nat
      BY <1>2
    <2>2. size * q = 0 - size - ((0 - 1 - q) * size)
      BY <1>2
    <2> QED BY <1>1, <1>2, <2>1, <2>2
  <1>4. q < dims
    <2> SUFFICES ASSUME q >= dims PROVE FALSE
      BY <1>2
    <2>1. dims * size <= q * size
      BY <1>2, <1>3, Products
    <2>2. dims * size = size * dims /\ q * size = size * q
      BY <1>2
    <2> QED BY <1>1, <1>2, <2>1, <2>2
  <1> QED BY <1>2, <1>3, <1>4 DEF q

\* The rules choose an offered option, and two different ones of several.
LEMMA OptionsDiffer ==
    ASSUME NEW n \in Nat, NEW k \in Nat, k > 0
    PROVE  /\ (n % k) + 1 \in 1..k
           /\ k > 1 => (n % k) # ((n + 1) % k)
  <1> DEFINE a == n \div k
             b == (n + 1) \div k
             r == n % k
             s == (n + 1) % k
  <1>1. /\ a \in Int /\ b \in Int /\ r \in 0..(k - 1) /\ s \in 0..(k - 1)
        /\ n = k * a + r /\ n + 1 = k * b + s
    OBVIOUS
  <1> HIDE DEF a, b, r, s
  <1>2. ASSUME k > 1, r = s PROVE FALSE
    <2>1. k * (b - a) = 1
      <3>1. k * (b - a) = k * b - k * a
        BY <1>1
      <3>2. k * b \in Int /\ k * a \in Int
        BY <1>1
      <3> QED BY <1>1, <1>2, <3>1, <3>2
    <2>2. b - a \in Int /\ b - a > 0
      <3> SUFFICES ASSUME b - a <= 0 PROVE FALSE
        BY <1>1
      <3>1. a - b \in Nat /\ k * (a - b) \in Nat /\ k * (a - b) = 0 - (k * (b - a))
        BY <1>1
      <3> QED BY <2>1, <3>1
    <2>3. k * (b - a) >= k
      <3>1. 1 * k <= (b - a) * k
        BY <2>2, Products
      <3> QED BY <1>1, <2>2, <3>1
    <2> QED BY <1>2, <2>1, <2>3
  <1> QED BY <1>1, <1>2 DEF r, s

\* The questions of a half: as many as asked for, each of a dimension of the half, and a
\* choice with options.
HalfWhole(b, questions) ==
    /\ Len(questions) = Survey!PerBatch
    /\ \A n \in DOMAIN questions :
          /\ questions[n].dim \in Survey!DimsOf(b)
          /\ questions[n].type \in Survey!Choice => questions[n].options > 0

\* The type invariant of a survey's variables.
SurveyTypes ==
    /\ batch \in [Survey!Batches -> [state : {"asked", "failed", "canceled", "done"},
                                     questions : Seq(Survey!QuestionType)]]
    /\ outcome \in {"open", "stored", "failed", "timeout"}
    /\ survey \in Seq(Survey!QuestionType)
    /\ answered \in [Survey!Respondents -> Survey!AnswerType]

\* A half that is done is whole, and nobody answers before the survey is stored.
SurveyInv ==
    /\ SurveyTypes
    /\ \A b \in Survey!Batches : batch[b].state = "done" => HalfWhole(b, batch[b].questions)
    /\ Survey!SurveyWhole
    /\ outcome # "stored" => \A p \in Survey!Respondents : answered[p] = Survey!Unanswered
    /\ Survey!AnswersCountable

\* The dimensions of the halves, and how many questions each has.
LEMMA SurveyNumbers ==
    /\ PerDim \in Nat /\ PerDim > 0
    /\ \A b \in Survey!Batches : /\ BatchDims[b] \in Seq(Survey!DimsOf(b))
                                 /\ Survey!PerBatch = PerDim * Len(BatchDims[b])
                                 /\ Survey!DimsOf(b) \subseteq Survey!DimsOf(1) \cup Survey!DimsOf(2)
    /\ Survey!PerBatch \in Nat
    /\ Halves \subseteq Seq(Survey!RawType) \cup {NoList}
    /\ Critics \cap Friendly = {}
  <1>1. Survey!QuestionnaireAssumption
    BY ServicesAssumption
  <1>2. PerDim \in Nat /\ PerDim > 0 /\ Halves \subseteq Seq(Survey!RawType) \cup {NoList}
        /\ Critics \cap Friendly = {}
    BY <1>1 DEF Survey!QuestionnaireAssumption
  <1>3. ASSUME NEW b \in Survey!Batches
        PROVE  /\ BatchDims[b] \in Seq(Survey!DimsOf(b))
               /\ Len(BatchDims[b]) \in Nat
               /\ Survey!PerBatch = PerDim * Len(BatchDims[b])
               /\ Survey!DimsOf(b) \subseteq Survey!DimsOf(1) \cup Survey!DimsOf(2)
    <2>1. BatchDims[b] \in Seq(Survey!DimsOf(b))
      BY <1>1 DEF Survey!QuestionnaireAssumption, Survey!DimsOf
    <2>2. Len(BatchDims[b]) = Len(BatchDims[1])
      BY <1>1 DEF Survey!QuestionnaireAssumption, Survey!Batches
    <2>3. b = 1 \/ b = 2
      BY DEF Survey!Batches
    <2> QED BY <2>1, <2>2, <2>3 DEF Survey!PerBatch
  <1>4. Survey!PerBatch \in Nat
    <2>1. 1 \in Survey!Batches
      BY DEF Survey!Batches
    <2> QED BY <1>2, <1>3, <2>1
  <1> QED BY <1>2, <1>3, <1>4

\* At first both halves are asked for and nobody has answered.
LEMMA SurveyInit == Survey!Init => SurveyInv
  <1> SUFFICES ASSUME Survey!Init PROVE SurveyInv
    OBVIOUS
  <1>1. <<>> \in Seq(Survey!QuestionType) /\ survey = <<>> /\ outcome = "open"
    BY DEF Survey!Init
  <1>2. Survey!Unanswered \in Survey!AnswerType
    <2>1. <<>> \in Seq([question : Nat, given : SUBSET Nat])
      OBVIOUS
    <2> QED BY <2>1 DEF Survey!Unanswered, Survey!AnswerType
  <1>3. batch = [b \in Survey!Batches |-> [state |-> "asked", questions |-> <<>>]]
        /\ answered = [p \in Survey!Respondents |-> Survey!Unanswered]
    BY DEF Survey!Init, Survey!Half
  <1>4. SurveyTypes
    BY <1>1, <1>2, <1>3 DEF SurveyTypes
  <1>5. \A b \in Survey!Batches : batch[b].state = "asked"
    BY <1>3
  <1>6. Survey!SurveyWhole
    BY <1>1 DEF Survey!SurveyWhole
  <1>7. Survey!AnswersCountable
    BY <1>3 DEF Survey!AnswersCountable
  <1> QED BY <1>1, <1>3, <1>4, <1>5, <1>6, <1>7 DEF SurveyInv

\* What is made of a usable reply.
LEMMA QuestionsWhole ==
    ASSUME NEW b \in Survey!Batches, NEW half \in Halves, Survey!Usable(half)
    PROVE  /\ Survey!Questions(b, half) \in Seq(Survey!QuestionType)
           /\ HalfWhole(b, Survey!Questions(b, half))
  <1> DEFINE qs == Survey!Questions(b, half)
  <1>1. /\ half \in Seq(Survey!RawType) /\ Len(half) = Survey!PerBatch
        /\ \A n \in DOMAIN half : Survey!Type(half[n]) \in Survey!Choice => half[n].options > 0
    BY SurveyNumbers DEF Survey!Usable
  <1>2. DOMAIN half = 1..Len(half) /\ Len(half) \in Nat
    BY <1>1
  <1>3. ASSUME NEW n \in DOMAIN half
        PROVE  /\ Survey!Dim(b, half[n], n) \in Survey!DimsOf(b)
               /\ Survey!Type(half[n]) \in Survey!Types
               /\ half[n].options \in Nat
    <2>1. half[n] \in Survey!RawType
      BY <1>1, <1>2
    <2>2. /\ BatchDims[b] \in Seq(Survey!DimsOf(b)) /\ PerDim \in Nat /\ PerDim > 0
          /\ Survey!PerBatch = PerDim * Len(BatchDims[b]) /\ Len(BatchDims[b]) \in Nat
      BY SurveyNumbers
    <2>3. n \in 1..(PerDim * Len(BatchDims[b]))
      BY <1>1, <1>2, <2>2
    <2>4. ((n - 1) \div PerDim) + 1 \in 1..Len(BatchDims[b])
      BY <2>2, <2>3, PlaceOfQuestion
    <2>5. BatchDims[b][((n - 1) \div PerDim) + 1] \in Survey!DimsOf(b)
      <3> DEFINE k == ((n - 1) \div PerDim) + 1
      <3>1. k \in 1..Len(BatchDims[b])
        BY <2>4
      <3> HIDE DEF k
      <3>2. BatchDims[b][k] \in Survey!DimsOf(b)
        BY <2>2, <3>1
      <3> QED BY <3>2 DEF k
    <2>6. Survey!Dim(b, half[n], n) \in Survey!DimsOf(b)
      BY <2>5 DEF Survey!Dim
    <2>7. Survey!Type(half[n]) \in Survey!Types
      BY DEF Survey!Type, Survey!Types
    <2> QED BY <2>1, <2>6, <2>7 DEF Survey!RawType
  <1>4. qs = [n \in 1..Len(half) |-> [dim |-> Survey!Dim(b, half[n], n),
                                      type |-> Survey!Type(half[n]),
                                      options |-> half[n].options]]
    BY <1>2 DEF Survey!Questions
  <1>5. ASSUME NEW n \in 1..Len(half)
        PROVE  /\ qs[n] \in Survey!QuestionType
               /\ qs[n].dim \in Survey!DimsOf(b)
               /\ qs[n].type \in Survey!Choice => qs[n].options > 0
    <2>1. qs[n] = [dim |-> Survey!Dim(b, half[n], n), type |-> Survey!Type(half[n]),
                   options |-> half[n].options]
      BY <1>4
    <2>2. Survey!Dim(b, half[n], n) \in Survey!DimsOf(1) \cup Survey!DimsOf(2)
      BY <1>2, <1>3, SurveyNumbers
    <2> HIDE DEF qs
    <2>3. qs[n].dim = Survey!Dim(b, half[n], n) /\ qs[n].type = Survey!Type(half[n])
          /\ qs[n].options = half[n].options
      BY <2>1
    <2>4. qs[n] \in Survey!QuestionType
      BY <1>2, <1>3, <2>1, <2>2 DEF Survey!QuestionType
    <2> QED BY <1>1, <1>2, <1>3, <2>3, <2>4
  <1>6. DOMAIN qs = 1..Len(half)
    BY <1>4
  <1> HIDE DEF qs
  <1>7. qs \in Seq(Survey!QuestionType) /\ Len(qs) = Len(half)
    <2>1. qs = [n \in 1..Len(half) |-> qs[n]]
      BY <1>4
    <2>2. qs \in [1..Len(half) -> Survey!QuestionType]
      BY <1>5, <2>1
    <2> QED BY <1>2, <2>2
  <1> QED BY <1>1, <1>5, <1>6, <1>7 DEF qs, HalfWhole

\* A half ends: done and whole, or failed.
LEMMA EndBatchKeeps ==
    ASSUME SurveyInv, NEW b \in Survey!Batches, NEW half \in Halves, Survey!EndBatch(b, half)
    PROVE  SurveyInv'
  <1>1. survey' = survey /\ answered' = answered /\ SurveyTypes
    BY DEF Survey!EndBatch, SurveyInv
  <1>2. PICK h : /\ batch' = [batch EXCEPT ![b] = h]
                 /\ h \in [state : {"failed", "done"}, questions : Seq(Survey!QuestionType)]
                 /\ h.state = "done" => HalfWhole(b, h.questions)
    <2>1. CASE Survey!Usable(half)
      <3>1. batch' = [batch EXCEPT ![b] = [state |-> "done",
                                           questions |-> Survey!Questions(b, half)]]
        BY <2>1 DEF Survey!EndBatch, Survey!Half
      <3>2. Survey!Questions(b, half) \in Seq(Survey!QuestionType)
            /\ HalfWhole(b, Survey!Questions(b, half))
        BY <2>1, QuestionsWhole
      <3> DEFINE qs == Survey!Questions(b, half)
                 h == [state |-> "done", questions |-> qs]
      <3>3. h \in [state : {"failed", "done"}, questions : Seq(Survey!QuestionType)]
            /\ h.questions = qs
        BY <3>2
      <3>4. batch' = [batch EXCEPT ![b] = h] /\ HalfWhole(b, h.questions)
        BY <3>1, <3>2, <3>3
      <3> HIDE DEF h
      <3> QED BY <3>3, <3>4
    <2>2. CASE ~Survey!Usable(half)
      <3>1. batch' = [batch EXCEPT ![b] = [state |-> "failed", questions |-> <<>>]]
        BY <2>2 DEF Survey!EndBatch, Survey!Half
      <3> DEFINE h == [state |-> "failed", questions |-> <<>>]
      <3>2. h \in [state : {"failed", "done"}, questions : Seq(Survey!QuestionType)]
            /\ h.state # "done"
        OBVIOUS
      <3> HIDE DEF h
      <3> QED BY <3>1, <3>2 DEF h
    <2> QED BY <2>1, <2>2
  <1>3. outcome' = outcome \/ (outcome = "open" /\ outcome' = "failed")
    BY DEF Survey!EndBatch
  <1>4. SurveyTypes'
    BY <1>1, <1>2, <1>3 DEF SurveyTypes
  <1>5. \A c \in Survey!Batches : batch'[c] = IF c = b THEN h ELSE batch[c]
    BY <1>1, <1>2 DEF SurveyTypes
  <1>6. \A c \in Survey!Batches : batch'[c].state = "done" => HalfWhole(c, batch'[c].questions)
    BY <1>2, <1>5 DEF SurveyInv
  <1>7. Survey!SurveyWhole'
    <2>1. outcome' = "stored" <=> outcome = "stored"
      BY <1>3
    <2>2. outcome' = "timeout" => \A c \in Survey!Batches : batch'[c].state # "asked"
      <3>1. outcome' = "timeout" => \A c \in Survey!Batches : batch[c].state # "asked"
        BY <1>3 DEF SurveyInv, Survey!SurveyWhole
      <3>2. h.state # "asked"
        BY <1>2
      <3> QED BY <1>5, <3>1, <3>2
    <2> QED BY <1>1, <2>1, <2>2 DEF SurveyInv, Survey!SurveyWhole
  <1>8. Survey!AnswersCountable'
    BY <1>1 DEF SurveyInv, Survey!AnswersCountable
  <1>9. outcome' # "stored" => \A p \in Survey!Respondents : answered'[p] = Survey!Unanswered
    BY <1>1, <1>3 DEF SurveyInv
  <1> QED BY <1>4, <1>6, <1>7, <1>8, <1>9 DEF SurveyInv

\* The halves are stored, the first one first.
LEMMA StoreSurveyKeeps ==
    ASSUME SurveyInv, Survey!StoreSurvey
    PROVE  SurveyInv'
  <1> DEFINE q1 == batch[1].questions
             q2 == batch[2].questions
  <1>1. /\ survey' = q1 \o q2 /\ outcome' = "stored" /\ outcome = "open"
        /\ batch' = batch /\ answered' = answered
    BY DEF Survey!StoreSurvey
  <1>2. 1 \in Survey!Batches /\ 2 \in Survey!Batches
    BY DEF Survey!Batches
  <1>3. HalfWhole(1, q1) /\ HalfWhole(2, q2)
    BY <1>2 DEF Survey!StoreSurvey, SurveyInv
  <1>4. q1 \in Seq(Survey!QuestionType) /\ q2 \in Seq(Survey!QuestionType)
    BY <1>2 DEF SurveyInv, SurveyTypes
  <1> HIDE DEF q1, q2
  <1>5. Len(q1) = Survey!PerBatch /\ Len(q2) = Survey!PerBatch /\ Survey!PerBatch \in Nat
    BY <1>3, SurveyNumbers DEF HalfWhole
  <1>6. survey' \in Seq(Survey!QuestionType) /\ Len(survey') = 2 * Survey!PerBatch
    <2>1. /\ q1 \o q2 \in Seq(Survey!QuestionType)
          /\ Len(q1 \o q2) = Len(q1) + Len(q2)
      BY <1>4
    <2> QED BY <1>1, <1>5, <2>1
  <1>7. SurveyTypes'
    BY <1>1, <1>6 DEF SurveyInv, SurveyTypes
  <1>8. ASSUME NEW n \in DOMAIN survey'
        PROVE  /\ survey'[n].dim \in Survey!DimsOf(IF n <= Survey!PerBatch THEN 1 ELSE 2)
               /\ survey'[n].type \in Survey!Choice => survey'[n].options > 0
    <2>1. n \in 1..(Len(q1) + Len(q2))
      BY <1>1, <1>4
    <2>2. CASE n <= Survey!PerBatch
      <3>1. n \in DOMAIN q1 /\ survey'[n] = q1[n]
        BY <1>1, <1>4, <1>5, <2>1, <2>2
      <3> QED BY <1>3, <2>2, <3>1 DEF HalfWhole
    <2>3. CASE ~(n <= Survey!PerBatch)
      <3>1. n - Survey!PerBatch \in DOMAIN q2 /\ survey'[n] = q2[n - Survey!PerBatch]
        BY <1>1, <1>4, <1>5, <2>1, <2>3
      <3> QED BY <1>3, <2>3, <3>1 DEF HalfWhole
    <2> QED BY <2>2, <2>3
  <1>9. Survey!SurveyWhole'
    BY <1>1, <1>6, <1>8 DEF Survey!SurveyWhole
  <1>10. Survey!AnswersCountable'
    BY <1>1 DEF SurveyInv, Survey!AnswersCountable
  <1> QED BY <1>1, <1>7, <1>9, <1>10 DEF SurveyInv

\* The request ends; what is still asked for is canceled.
LEMMA SurveyTimesOutKeeps ==
    ASSUME SurveyInv, Survey!SurveyTimesOut
    PROVE  SurveyInv'
  <1>1. /\ survey' = survey /\ answered' = answered /\ outcome = "open"
        /\ outcome' = "timeout"
    BY DEF Survey!SurveyTimesOut
  <1>2. batch' = [b \in Survey!Batches |-> IF batch[b].state = "asked"
                                           THEN [state |-> "canceled", questions |-> <<>>]
                                           ELSE batch[b]]
    BY DEF Survey!SurveyTimesOut, Survey!Half
  <1>3. SurveyTypes'
    <2>1. <<>> \in Seq(Survey!QuestionType)
      OBVIOUS
    <2> QED BY <1>1, <1>2, <2>1 DEF SurveyInv, SurveyTypes
  <1>4. \A b \in Survey!Batches : /\ batch'[b].state # "asked"
                                  /\ batch'[b].state = "done" => batch'[b] = batch[b]
    BY <1>2
  <1>5. Survey!SurveyWhole'
    BY <1>1, <1>4 DEF SurveyInv, Survey!SurveyWhole
  <1>6. Survey!AnswersCountable'
    BY <1>1 DEF SurveyInv, Survey!AnswersCountable
  <1> QED BY <1>1, <1>3, <1>4, <1>5, <1>6 DEF SurveyInv

\* A number brought into the scale is on it.
LEMMA ClampedOnScale ==
    ASSUME NEW v \in Int
    PROVE  Survey!Clamp(v) \in 1..5
  <1> DEFINE low == Survey!Min({5, v})
  <1>1. low \in {5, v} /\ low <= 5
    <2>1. \E m \in {5, v} : \A n \in {5, v} : m <= n
      OBVIOUS
    <2> QED BY <2>1 DEF Survey!Min
  <1> HIDE DEF low
  <1>2. Survey!Max({1, low}) \in {1, low} /\ Survey!Max({1, low}) >= 1
    <2>1. \E m \in {1, low} : \A n \in {1, low} : m >= n
      BY <1>1
    <2> QED BY <2>1 DEF Survey!Max
  <1> QED BY <1>1, <1>2 DEF Survey!Clamp, low

\* How many members one or two things have.
LEMMA OneOrTwo ==
    ASSUME NEW x, NEW y
    PROVE  /\ Survey!Cardinality({x}) = 1
           /\ Survey!Cardinality({x, y}) = IF x = y THEN 1 ELSE 2
  <1>1. \A S : Survey!Cardinality(S) = Cardinality(S)
    BY DEF Survey!Cardinality, Cardinality, Survey!IsFiniteSet, IsFiniteSet
  <1>2. IsFiniteSet({x}) /\ Cardinality({x}) = 1
    BY FS_Singleton
  <1>3. Cardinality({x} \cup {y}) = IF y \in {x} THEN Cardinality({x})
                                    ELSE Cardinality({x}) + 1
    BY <1>2, FS_AddElement
  <1>4. {x, y} = {x} \cup {y}
    OBVIOUS
  <1> QED BY <1>1, <1>2, <1>3, <1>4

\* What is given to a question by the rules is offered, and as many as the question takes.
GivenRight(q, given) ==
    CASE q.type = "scale_1_5" -> given \subseteq 1..5 /\ Survey!Cardinality(given) = 1
      [] q.type \in Survey!Choice ->
           /\ given \subseteq 1..q.options
           /\ Survey!Cardinality(given) = IF q.type = "multi"
                  THEN Survey!Min({2, q.options}) ELSE 1
      [] OTHER -> TRUE

\* The rules answer any question rightly.
LEMMA RulesAnswer ==
    ASSUME SurveyTypes, Survey!SurveyWhole, NEW p \in Survey!Respondents,
           NEW n \in DOMAIN survey
    PROVE  /\ Survey!MockGiven(p, n) \in SUBSET Nat
           /\ GivenRight(survey[n], Survey!MockGiven(p, n))
  <1> DEFINE q == survey[n]
             k == q.options
             given == Survey!MockGiven(p, n)
             value == Survey!Clamp(Survey!MockIntent(p) + ((n - 1) % 2))
             o1 == IF k = 0 THEN 0 ELSE ((n - 1) % k) + 1
             o2 == IF k = 0 THEN 0 ELSE (n % k) + 1
  <1>1. /\ n \in Nat /\ n > 0 /\ q.options \in Nat /\ q.type \in Survey!Types
        /\ q.type \in Survey!Choice => q.options > 0
    <2>1. survey \in Seq(Survey!QuestionType)
      BY DEF SurveyTypes
    <2>2. n \in 1..Len(survey) /\ survey[n] \in Survey!QuestionType
      BY <2>1
    <2> QED BY <2>1, <2>2 DEF Survey!QuestionType, Survey!SurveyWhole
  <1>2. /\ q.type = "scale_1_5" => given = {value}
        /\ q.type = "single" => given = {o1}
        /\ q.type = "multi" => given = {o1, o2}
        /\ q.type = "open" => given = {}
    BY <1>1 DEF Survey!MockGiven
  <1>3. value \in 1..5
    <2>1. Survey!MockIntent(p) + ((n - 1) % 2) \in Int
      BY <1>1 DEF Survey!MockIntent
    <2> QED BY <2>1, ClampedOnScale
  <1>4. k > 0 => /\ o1 \in 1..k /\ o2 \in 1..k
                 /\ k > 1 => o1 # o2
    <2> SUFFICES ASSUME k > 0 PROVE /\ o1 \in 1..k /\ o2 \in 1..k
                                    /\ k > 1 => o1 # o2
      OBVIOUS
    <2>1. n - 1 \in Nat /\ (n - 1) + 1 = n
      BY <1>1
    <2>2. /\ ((n - 1) % k) + 1 \in 1..k
          /\ k > 1 => ((n - 1) % k) # (n % k)
      BY <1>1, <2>1, OptionsDiffer
    <2>3. (n % k) + 1 \in 1..k
      BY <1>1, OptionsDiffer
    <2>4. (n - 1) % k \in Int /\ n % k \in Int
      BY <1>1
    <2> QED BY <2>2, <2>3, <2>4
  <1>5. q.type \in {"scale_1_5", "single", "multi", "open"}
    BY <1>1 DEF Survey!Types
  <1> HIDE DEF q, k, given, value, o1, o2
  <1>6. CASE q.type = "scale_1_5"
    <2>1. given = {value} /\ Survey!Cardinality(given) = 1
      BY <1>2, <1>6, OneOrTwo
    <2>2. given \subseteq 1..5 /\ given \in SUBSET Nat
      BY <1>3, <2>1
    <2>3. GivenRight(q, given)
      BY <1>6, <2>1, <2>2 DEF GivenRight, Survey!Choice
    <2> QED BY <2>2, <2>3 DEF q, given
  <1>7. CASE q.type = "single"
    <2>1. given = {o1} /\ Survey!Cardinality(given) = 1 /\ o1 \in 1..k /\ k \in Nat
      BY <1>1, <1>2, <1>4, <1>7, OneOrTwo DEF k, Survey!Choice
    <2>2. given \in SUBSET Nat /\ given \subseteq 1..q.options
      BY <2>1 DEF k
    <2>3. GivenRight(q, given)
      BY <1>7, <2>1, <2>2 DEF GivenRight, Survey!Choice
    <2> QED BY <2>2, <2>3 DEF q, given
  <1>8. CASE q.type = "multi"
    <2>1. /\ given = {o1, o2} /\ Survey!Cardinality(given) = IF o1 = o2 THEN 1 ELSE 2
          /\ o1 \in 1..k /\ o2 \in 1..k /\ k \in Nat /\ k > 0
          /\ k > 1 => o1 # o2
      <3>1. k > 0 /\ k \in Nat
        BY <1>1, <1>8 DEF k, Survey!Choice
      <3>2. given = {o1, o2}
        BY <1>2, <1>8
      <3> QED BY <1>4, <3>1, <3>2, OneOrTwo
    <2>2. given \in SUBSET Nat /\ given \subseteq 1..q.options
      BY <2>1 DEF k
    <2>3. Survey!Min({2, k}) = IF k = 1 THEN 1 ELSE 2
      <3>1. \E m \in {2, k} : \A j \in {2, k} : m <= j
        BY <2>1
      <3>2. /\ Survey!Min({2, k}) \in {2, k}
            /\ \A j \in {2, k} : Survey!Min({2, k}) <= j
        BY <3>1 DEF Survey!Min
      <3> QED BY <2>1, <3>2
    <2>4. Survey!Cardinality(given) = Survey!Min({2, q.options})
      <3>1. k = 1 => o1 = o2
        BY <2>1
      <3> QED BY <2>1, <2>3, <3>1 DEF k
    <2>5. GivenRight(q, given)
      BY <1>8, <2>2, <2>4 DEF GivenRight, Survey!Choice
    <2> QED BY <2>2, <2>5 DEF q, given
  <1>9. CASE q.type = "open"
    BY <1>2, <1>9 DEF GivenRight, Survey!Choice, q, given
  <1> QED BY <1>5, <1>6, <1>7, <1>8, <1>9

\* Whoever answers, by the model or by rules, leaves an answer that can be counted.
LEMMA AnswerKeeps ==
    ASSUME SurveyInv, NEW p \in Survey!Respondents,
           NEW said \in AnswerReplies \cup {Unusable}, Survey!AnswerSurvey(p, said)
    PROVE  SurveyInv'
  <1> DEFINE a == IF said = Unusable THEN Survey!MockAnswer(p) ELSE Survey!AnswerOf(said)
  <1>1. /\ answered' = [answered EXCEPT ![p] = a] /\ outcome = "stored"
        /\ batch' = batch /\ outcome' = outcome /\ survey' = survey
    BY DEF Survey!AnswerSurvey
  <1>2. SurveyTypes /\ Survey!SurveyWhole
    BY DEF SurveyInv
  <1>3. /\ a \in Survey!AnswerType
        /\ a.intent \in 1..5
        /\ a.mock => /\ p \in Critics => a.intent < 4
                     /\ [n \in DOMAIN a.items |-> a.items[n].question]
                            = [n \in DOMAIN survey |-> n]
                     /\ \A n \in DOMAIN survey : GivenRight(survey[n], a.items[n].given)
    <2>1. CASE said = Unusable
      <3> DEFINE list == [n \in DOMAIN survey |-> [question |-> n,
                                                    given |-> Survey!MockGiven(p, n)]]
                 felt == IF Survey!MockIntent(p) >= 4 THEN "positive" ELSE "neutral"
      <3>1. a = [intent |-> Survey!MockIntent(p), sentiment |-> felt, items |-> list,
                 mock |-> TRUE]
        BY <2>1 DEF Survey!MockAnswer
      <3>2. Survey!MockIntent(p) \in {3, 4} /\ (p \in Critics => Survey!MockIntent(p) = 3)
        BY DEF Survey!MockIntent
      <3>3. /\ \A n \in DOMAIN survey : /\ list[n].question = n
                                        /\ list[n].given = Survey!MockGiven(p, n)
                                        /\ list[n] \in [question : Nat, given : SUBSET Nat]
            /\ DOMAIN list = DOMAIN survey
        <4>1. survey \in Seq(Survey!QuestionType)
          BY <1>2 DEF SurveyTypes
        <4>2. \A n \in DOMAIN survey : n \in Nat
          BY <4>1
        <4> QED BY <1>2, <4>2, RulesAnswer
      <3>4. \A n \in DOMAIN survey : GivenRight(survey[n], list[n].given)
        BY <1>2, <3>3, RulesAnswer
      <3>5. felt \in {"positive", "neutral", "negative"}
        OBVIOUS
      <3>6. list \in Seq([question : Nat, given : SUBSET Nat])
        <4>1. survey \in Seq(Survey!QuestionType)
          BY <1>2 DEF SurveyTypes
        <4>2. DOMAIN survey = 1..Len(survey) /\ Len(survey) \in Nat
          BY <4>1
        <4>3. list = [n \in 1..Len(survey) |-> list[n]]
          BY <4>2
        <4> HIDE DEF list
        <4> QED BY <3>3, <4>2, <4>3
      <3> HIDE DEF list, felt
      <3>7. [n \in DOMAIN list |-> list[n].question] = [n \in DOMAIN survey |-> n]
        BY <3>3
      <3> HIDE DEF a
      <3>8. a.intent = Survey!MockIntent(p) /\ a.items = list
        BY <3>1
      <3>9. a \in Survey!AnswerType
        BY <3>1, <3>2, <3>5, <3>6 DEF Survey!AnswerType
      <3> QED BY <3>2, <3>4, <3>7, <3>8, <3>9
    <2>2. CASE said # Unusable
      <3>1. said \in [intent : Int, items : Seq([question : Nat, given : SUBSET Nat]),
                       sentiment : {"positive", "neutral", "negative", "other"}]
        BY <2>2, ServicesAssumption DEF Survey!QuestionnaireAssumption
      <3>2. Survey!Clamp(said.intent) \in 1..5
        BY <3>1, ClampedOnScale
      <3> DEFINE felt == IF said.sentiment = "other" THEN "neutral" ELSE said.sentiment
      <3>3. a = [intent |-> Survey!Clamp(said.intent), sentiment |-> felt,
                 items |-> said.items, mock |-> FALSE]
        BY <2>2 DEF Survey!AnswerOf
      <3>4. felt \in {"positive", "neutral", "negative"}
        BY <3>1
      <3> HIDE DEF felt, a
      <3>5. a.intent = Survey!Clamp(said.intent) /\ ~a.mock
        BY <3>3
      <3>6. a \in Survey!AnswerType
        BY <3>1, <3>2, <3>3, <3>4 DEF Survey!AnswerType
      <3> QED BY <3>2, <3>5, <3>6
    <2> QED BY <2>1, <2>2
  <1> HIDE DEF a
  <1>4. SurveyTypes'
    BY <1>1, <1>2, <1>3 DEF SurveyTypes
  <1>5. \A x \in Survey!Respondents : answered'[x] = IF x = p THEN a ELSE answered[x]
    BY <1>1, <1>2 DEF SurveyTypes
  <1>6. Survey!AnswersCountable'
    <2>1. ASSUME NEW x \in Survey!Respondents, answered'[x] # Survey!Unanswered
          PROVE  /\ answered'[x].intent \in 1..5
                 /\ answered'[x].mock =>
                      /\ x \in Critics => answered'[x].intent < 4
                      /\ [n \in DOMAIN answered'[x].items |-> answered'[x].items[n].question]
                             = [n \in DOMAIN survey |-> n]
                      /\ \A n \in DOMAIN survey :
                            GivenRight(survey[n], answered'[x].items[n].given)
      <3>1. CASE x = p
        BY <1>3, <1>5, <3>1
      <3>2. CASE x # p
        BY <1>5, <2>1, <3>2 DEF SurveyInv, Survey!AnswersCountable, GivenRight
      <3> QED BY <3>1, <3>2
    <2>2. ASSUME NEW x \in Survey!Respondents, answered'[x] # Survey!Unanswered
          PROVE  /\ answered'[x].intent \in 1..5
                 /\ answered'[x].mock =>
                      /\ x \in Critics => answered'[x].intent < 4
                      /\ [n \in DOMAIN answered'[x].items |-> answered'[x].items[n].question]
                             = [n \in DOMAIN survey' |-> n]
                      /\ \A n \in DOMAIN survey' :
                            GivenRight(survey'[n], answered'[x].items[n].given)
      <3>1. survey' = survey
        BY <1>1
      <3> QED BY <2>1, <2>2, <3>1
    <2> QED BY <2>2 DEF Survey!AnswersCountable, GivenRight
  <1>7. Survey!SurveyWhole'
    BY <1>1, <1>2 DEF Survey!SurveyWhole
  <1> QED BY <1>1, <1>4, <1>6, <1>7 DEF SurveyInv

\* Every step keeps SurveyInv.
LEMMA SurveyKeeps ==
    ASSUME SurveyInv, Survey!Next \/ UNCHANGED surveyVars
    PROVE  SurveyInv'
  <1>1. CASE UNCHANGED surveyVars
    BY <1>1 DEF surveyVars, SurveyInv, SurveyTypes, Survey!SurveyWhole,
       Survey!AnswersCountable
  <1> QED BY <1>1, EndBatchKeeps, StoreSurveyKeeps, SurveyTimesOutKeeps, AnswerKeeps
          DEF Survey!Next

\* A survey is stored whole or not at all, every question where the scoring looks for it, and
\* every persona's answer can be counted, whether the model gave it or the rules
\* (ai/adapters/structured_generation.py, generate_questions and _generate_batch;
\* services/evaluation_service.py, _generate_answer and _build_mock_answers).
THEOREM SurveysAlwaysCount == Spec => []SurveysCount
  <1> DEFINE Inv == part = "survey" => SurveyInv
  <1>1. Init => Inv
    BY SurveyInit DEF Init
  <1>2. Inv /\ [Next]_vars => Inv'
    BY SurveyKeeps, PartSteps
  <1>3. Inv => SurveysCount
    BY DEF SurveyInv, SurveysCount
  <1> QED BY <1>1, <1>2, <1>3, PTL DEF Spec

-----------------------------------------------------------------------------
(* From survey to answers                                                  *)

\* The types of the variables, the editions without their bound.
PrepRequest == [op : Prep!Operations \cup {"none"}, open : BOOLEAN,
                pick : SUBSET Personas, old : SUBSET Personas]
PrepWork == [pc : {"none", "queued", "asking", "end"}, status : Prep!Statuses,
             edition : Nat, todo : SUBSET Personas]
PrepTypes ==
    /\ status \in Prep!Statuses
    /\ selected \in SUBSET Personas /\ gone \in SUBSET Personas /\ paid \in SUBSET Personas
    /\ edition \in Nat /\ answers \in [Personas -> Nat]
    /\ request \in [Requests -> PrepRequest]
    /\ work \in [Works -> PrepWork]
    /\ late \in BOOLEAN

\* A request finds the questions or the selection open to it only where "late" would tell.
Proper(x) == /\ x.op \in {"edit", "select"} => x.open
             /\ x.op = "run" /\ ~late => x.pick = selected /\ edition # 0

\* A run has been accepted.
Begun == \E w \in Works : work[w].pc # "none"

\* From the first run on the selection is paid for; an answer is one of the edition there
\* is; and a task asks whoever is selected and has no answer.
OrderInv ==
    ~late =>
      /\ Begun => selected \subseteq paid /\ edition # 0
      /\ \A p \in Personas : answers[p] # 0 => Begun /\ p \in paid /\ answers[p] = edition
      /\ \A w \in Works : work[w].pc = "asking" =>
            /\ work[w].edition = edition
            /\ work[w].todo \subseteq paid
            /\ \A p \in selected \ gone : p \in work[w].todo \/ answers[p] # 0

\* All of the order is conditional on "late": a write that came after its check.
PrepInv == PrepTypes /\ OrderInv /\ \A r \in Requests : Proper(request[r])

\* What a request and a task are before and after their work.
LEMMA PrepIdle == /\ Prep!Idle \in PrepRequest /\ Prep!Idle.op = "none"
                  /\ Prep!NotStarted \in PrepWork /\ Prep!NotStarted.pc = "none"
                  /\ [Prep!NotStarted EXCEPT !.pc = "end"] \in PrepWork
                  /\ [Prep!NotStarted EXCEPT !.pc = "end"].pc = "end"
  BY DEF Prep!Idle, PrepRequest, Prep!NotStarted, PrepWork, Prep!Statuses

\* At first there is no survey and nobody is asked.
LEMMA PrepInit == Prep!Init => PrepInv
  <1> SUFFICES ASSUME Prep!Init PROVE PrepInv
    OBVIOUS
  <1>1. PrepTypes
    BY PrepIdle DEF Prep!Init, PrepTypes, Prep!Statuses
  <1>2. OrderInv
    BY PrepIdle DEF Prep!Init, OrderInv, Begun
  <1>3. \A r \in Requests : Proper(request[r])
    BY PrepIdle DEF Prep!Init, Proper
  <1> QED BY <1>1, <1>2, <1>3 DEF PrepInv

\* A request begins, or ends with no more than the status.
LEMMA RequestOnly ==
    ASSUME PrepInv, NEW r \in Requests, NEW x \in PrepRequest,
           request' = [request EXCEPT ![r] = x], Proper(x), status' \in Prep!Statuses,
           UNCHANGED <<selected, gone, edition, answers, work, paid, late>>
    PROVE  PrepInv'
  <1>1. /\ request' \in [Requests -> PrepRequest]
        /\ \A q \in Requests : request'[q] = IF q = r THEN x ELSE request[q]
    BY DEF PrepInv, PrepTypes
  <1>2. PrepTypes'
    BY <1>1 DEF PrepInv, PrepTypes
  <1>3. OrderInv'
    BY DEF PrepInv, OrderInv, Begun
  <1>4. \A q \in Requests : Proper(request[q])'
    BY <1>1 DEF PrepInv, Proper
  <1> QED BY <1>2, <1>3, <1>4 DEF PrepInv

\* The reads of the requests, which find what is open to them.
LEMMA ReadsKeepPrep ==
    ASSUME PrepInv, NEW r \in Requests,
           \/ Prep!GenerateRead(r) \/ Prep!EditRead(r) \/ Prep!SelectRead(r)
           \/ Prep!RunRead(r) \/ Prep!CancelRead(r) \/ Prep!WatchRead(r)
    PROVE  PrepInv'
  <1>1. ASSUME NEW op \in Prep!Operations, NEW pick \in SUBSET Personas,
               Prep!Begin(r, op, pick),
               op \in {"edit", "select"} => status \in {"pending", "failed"},
               op = "run" => pick = selected /\ edition # 0
        PROVE  PrepInv'
    <2> DEFINE open == status \in {"pending", "failed"}
               x == [op |-> op, open |-> open, pick |-> pick, old |-> selected]
    <2>1. open \in BOOLEAN /\ (op \in {"edit", "select"} => open) /\ selected \in SUBSET Personas
      BY <1>1 DEF PrepInv, PrepTypes
    <2>2. /\ request' = [request EXCEPT ![r] = x]
          /\ UNCHANGED <<status, selected, gone, edition, answers, work, paid, late>>
      BY <1>1 DEF Prep!Begin
    <2> HIDE DEF open
    <2>3. x \in PrepRequest /\ x.op = op /\ x.open = open /\ x.pick = pick
      BY <2>1 DEF PrepRequest
    <2> HIDE DEF x
    <2>4. Proper(x)
      BY <1>1, <2>1, <2>3 DEF Proper
    <2>5. status' \in Prep!Statuses
      BY <2>2 DEF PrepInv, PrepTypes
    <2> QED BY <2>2, <2>3, <2>4, <2>5, RequestOnly
  <1>2. status \in Prep!Statuses /\ selected \in SUBSET Personas
    BY DEF PrepInv, PrepTypes
  <1>3. CASE Prep!GenerateRead(r)
    BY <1>1, <1>3 DEF Prep!GenerateRead, Prep!Operations
  <1>4. CASE Prep!EditRead(r)
    BY <1>1, <1>2, <1>4 DEF Prep!EditRead, Prep!SurveyEditable, Prep!Operations, Prep!Statuses
  <1>5. CASE Prep!SelectRead(r)
    <2>1. PICK pick \in SUBSET Personas : Prep!MaySelect(pick) /\ Prep!Begin(r, "select", pick)
      BY <1>5 DEF Prep!SelectRead
    <2>2. status \in {"pending", "failed"}
      BY <1>2, <2>1 DEF Prep!MaySelect, Prep!Editable, Prep!Statuses
    <2> QED BY <1>1, <2>1, <2>2 DEF Prep!Operations
  <1>6. CASE Prep!RunRead(r)
    BY <1>1, <1>2, <1>6 DEF Prep!RunRead, Prep!MayRun, Prep!Operations
  <1>7. CASE Prep!CancelRead(r)
    BY <1>1, <1>7 DEF Prep!CancelRead, Prep!Operations
  <1>8. CASE Prep!WatchRead(r)
    BY <1>1, <1>8 DEF Prep!WatchRead, Prep!Operations
  <1> QED BY <1>3, <1>4, <1>5, <1>6, <1>7, <1>8

\* What a request leaves when it ends, and what the others are at.
LEMMA EndsOne ==
    ASSUME PrepInv, NEW r \in Requests, NEW op, Prep!Ends(r, op)
    PROVE  /\ request[r].op = op /\ request[r] \in PrepRequest /\ Proper(request[r])
           /\ request' \in [Requests -> PrepRequest]
           /\ \A q \in Requests : request'[q] = IF q = r THEN Prep!Idle ELSE request[q]
  BY PrepIdle DEF PrepInv, PrepTypes, Prep!Ends

\* Requests that write the status alone.
LEMMA StatusKeepsPrep ==
    ASSUME PrepInv, NEW r \in Requests,
           Prep!GenerateFails(r) \/ Prep!CancelCommit(r) \/ Prep!WatchCommit(r)
    PROVE  PrepInv'
  <1>1. Proper(Prep!Idle)
    BY PrepIdle DEF Proper
  <1>2. /\ request' = [request EXCEPT ![r] = Prep!Idle]
        /\ status' \in Prep!Statuses
        /\ UNCHANGED <<selected, gone, edition, answers, work, paid, late>>
    BY DEF Prep!GenerateFails, Prep!CancelCommit, Prep!WatchCommit, Prep!Ends, Prep!Statuses,
           PrepInv, PrepTypes
  <1> QED BY <1>1, <1>2, PrepIdle, RequestOnly

\* The questions and the selection: once a run has begun, "late" tells of a change.
LEMMA EditsKeepPrep ==
    ASSUME PrepInv, NEW r \in Requests,
           Prep!GenerateDone(r) \/ Prep!EditCommit(r) \/ Prep!SelectCommit(r)
    PROVE  PrepInv'
  <1>1. /\ request' \in [Requests -> PrepRequest]
        /\ \A q \in Requests : request'[q] = IF q = r THEN Prep!Idle ELSE request[q]
        /\ request[r] \in PrepRequest /\ Proper(request[r])
    BY EndsOne DEF Prep!GenerateDone, Prep!EditCommit, Prep!SelectCommit
  <1>2. UNCHANGED <<status, gone, answers, work, paid>> /\ edition \in Nat
    BY DEF Prep!GenerateDone, Prep!EditCommit, Prep!SelectCommit, PrepInv, PrepTypes
  <1>3. CASE Prep!GenerateDone(r)
    <2>1. edition' = (IF edition = 0 THEN 1 ELSE edition) /\ UNCHANGED <<selected, late>>
      BY <1>3 DEF Prep!GenerateDone
    <2>2. edition' \in Nat /\ (edition # 0 => edition' = edition)
      BY <1>2, <2>1
    <2>3. PrepTypes'
      BY <1>1, <1>2, <2>1, <2>2 DEF PrepInv, PrepTypes
    <2>4. OrderInv'
      BY <1>2, <2>1, <2>2 DEF PrepInv, OrderInv, Begun
    <2>5. \A q \in Requests : Proper(request[q])'
      BY <1>1, <2>1, <2>2, PrepIdle DEF PrepInv, Proper
    <2> QED BY <2>3, <2>4, <2>5 DEF PrepInv
  <1>4. CASE Prep!EditCommit(r)
    <2>1. /\ edition' = edition + 1 /\ selected' = selected
          /\ request[r].op = "edit" /\ late' = (late \/ (request[r].open /\ Prep!Ordered))
      BY <1>4 DEF Prep!EditCommit, Prep!Ends
    <2>2. edition' \in Nat /\ edition' # 0
      BY <1>2, <2>1
    <2>3. request[r].open
      BY <1>1, <2>1 DEF Proper
    <2>4. late' = (late \/ Prep!Ordered)
      BY <2>1, <2>3
    <2>5. PrepTypes'
      BY <1>1, <1>2, <2>1, <2>2, <2>4 DEF PrepInv, PrepTypes, Prep!Ordered
    <2>6. ~late' => ~late /\ ~Begun /\ \A q \in Requests : request[q].op # "run"
      BY <2>4 DEF Prep!Ordered, Begun
    <2>7. OrderInv'
      BY <1>2, <2>1, <2>6 DEF PrepInv, OrderInv, Begun
    <2>8. \A q \in Requests : Proper(request[q])'
      BY <1>1, <2>6, PrepIdle DEF PrepInv, Proper
    <2> QED BY <2>5, <2>7, <2>8 DEF PrepInv
  <1>5. CASE Prep!SelectCommit(r)
    <2> DEFINE changes == request[r].pick # request[r].old
    <2>1. /\ selected' = (IF changes THEN request[r].pick ELSE selected) /\ edition' = edition
          /\ request[r].op = "select"
          /\ late' = (late \/ (changes /\ request[r].open /\ Prep!Ordered))
      BY <1>5 DEF Prep!SelectCommit, Prep!Ends
    <2> HIDE DEF changes
    <2>2. selected' \in SUBSET Personas
      BY <1>1, <2>1 DEF PrepRequest, PrepInv, PrepTypes
    <2>3. request[r].open
      BY <1>1, <2>1 DEF Proper
    <2>4. PrepTypes'
      BY <1>1, <1>2, <2>1, <2>2, <2>3 DEF PrepInv, PrepTypes, Prep!Ordered
    <2>5. ~late' => /\ ~late
                    /\ \/ selected' = selected
                       \/ ~Begun /\ \A q \in Requests : request[q].op # "run"
      BY <2>1, <2>3 DEF Prep!Ordered, Begun
    <2>6. OrderInv'
      BY <1>2, <2>1, <2>5 DEF PrepInv, OrderInv, Begun
    <2>7. \A q \in Requests : Proper(request[q])'
      BY <1>1, <2>1, <2>5, PrepIdle DEF PrepInv, Proper
    <2> QED BY <2>4, <2>6, <2>7 DEF PrepInv
  <1> QED BY <1>3, <1>4, <1>5

\* A task moves: what the tasks are at afterwards.
LEMMA WorkMoves ==
    ASSUME PrepInv, NEW w \in Works, NEW x \in PrepWork, x.pc # "none",
           work' = [work EXCEPT ![w] = x]
    PROVE  /\ work' \in [Works -> PrepWork]
           /\ \A v \in Works : work'[v] = IF v = w THEN x ELSE work[v]
           /\ Begun'
  <1>1. /\ work' \in [Works -> PrepWork]
        /\ \A v \in Works : work'[v] = IF v = w THEN x ELSE work[v]
    BY DEF PrepInv, PrepTypes
  <1>2. Begun'
    BY <1>1 DEF Begun
  <1> QED BY <1>1, <1>2

\* A run pays for the selection and starts a task.
LEMMA RunKeepsPrep ==
    ASSUME PrepInv, NEW r \in Requests, Prep!RunCommit(r)
    PROVE  PrepInv'
  <1>1. /\ request' \in [Requests -> PrepRequest] /\ request[r].op = "run"
        /\ \A q \in Requests : request'[q] = IF q = r THEN Prep!Idle ELSE request[q]
        /\ request[r] \in PrepRequest /\ Proper(request[r])
    BY EndsOne DEF Prep!RunCommit
  <1>2. PICK w \in Works : work' = [work EXCEPT ![w].pc = "queued"]
    BY DEF Prep!RunCommit
  <1> DEFINE x == [work[w] EXCEPT !.pc = "queued"]
  <1>3. work[w] \in PrepWork
    BY DEF PrepInv, PrepTypes
  <1>4. x \in PrepWork /\ x.pc = "queued" /\ work' = [work EXCEPT ![w] = x]
    BY <1>2, <1>3 DEF PrepWork
  <1> HIDE DEF x
  <1>5. /\ work' \in [Works -> PrepWork]
        /\ \A v \in Works : work'[v] = IF v = w THEN x ELSE work[v]
        /\ Begun'
    BY <1>4, WorkMoves
  <1>6. /\ UNCHANGED <<selected, gone, edition, answers, late>> /\ status' = "answering"
        /\ paid' = paid \cup request[r].pick
    BY DEF Prep!RunCommit
  <1>7. ~late => request[r].pick = selected /\ edition # 0
    BY <1>1 DEF Proper
  <1>8. PrepTypes'
    BY <1>1, <1>5, <1>6 DEF PrepInv, PrepTypes, PrepRequest, Prep!Statuses
  <1>9. OrderInv'
    BY <1>4, <1>5, <1>6, <1>7 DEF PrepInv, OrderInv
  <1>10. \A q \in Requests : Proper(request[q])'
    BY <1>1, <1>6, PrepIdle DEF PrepInv, Proper
  <1> QED BY <1>8, <1>9, <1>10 DEF PrepInv

\* The background task: what it reads, what it stores.
LEMMA WorkKeepsPrep ==
    ASSUME PrepInv, NEW w \in Works,
           Prep!WorkRead(w) \/ Prep!WorkStore(w) \/ Prep!WorkConflicts(w)
    PROVE  PrepInv'
  <1>1. UNCHANGED <<selected, gone, edition, request, paid, late>>
    BY DEF Prep!WorkRead, Prep!WorkStore, Prep!WorkConflicts, Prep!Others
  <1>2. /\ work[w] \in PrepWork /\ work[w].pc \in {"queued", "asking"} /\ Begun
        /\ answers \in [Personas -> Nat]
    BY DEF PrepInv, PrepTypes, Begun, Prep!WorkRead, Prep!WorkStore, Prep!WorkConflicts
  <1>3. \A q \in Requests : Proper(request[q])'
    BY <1>1 DEF PrepInv, Proper
  <1>4. CASE Prep!WorkRead(w)
    <2> DEFINE asked == {p \in selected \ gone : answers[p] = 0}
               x == [pc |-> "asking", status |-> status, edition |-> edition, todo |-> asked]
    <2>1. x \in PrepWork /\ x.pc = "asking" /\ x.edition = edition /\ x.todo = asked
      BY DEF PrepWork, PrepInv, PrepTypes
    <2>2. work' = [work EXCEPT ![w] = x] /\ UNCHANGED <<status, answers>>
      BY <1>4 DEF Prep!WorkRead
    <2> HIDE DEF x
    <2>3. /\ work' \in [Works -> PrepWork] /\ Begun'
          /\ \A v \in Works : work'[v] = IF v = w THEN x ELSE work[v]
      BY <2>1, <2>2, WorkMoves
    <2>4. PrepTypes'
      BY <1>1, <2>2, <2>3 DEF PrepInv, PrepTypes
    <2>5. OrderInv'
      <3>1. ~late => /\ asked \subseteq paid
                     /\ \A p \in selected \ gone : p \in asked \/ answers[p] # 0
        BY <1>2 DEF PrepInv, OrderInv
      <3> HIDE DEF asked
      <3> QED BY <1>1, <1>2, <2>1, <2>2, <2>3, <3>1 DEF PrepInv, OrderInv
    <2> QED BY <1>3, <2>4, <2>5 DEF PrepInv
  <1> DEFINE x == [Prep!NotStarted EXCEPT !.pc = "end"]
  <1>5. CASE Prep!WorkConflicts(w)
    <2>1. work' = [work EXCEPT ![w] = x] /\ UNCHANGED <<status, answers>>
      BY <1>5 DEF Prep!WorkConflicts
    <2>2. x \in PrepWork /\ x.pc = "end"
      BY PrepIdle
    <2> HIDE DEF x
    <2>3. /\ work' \in [Works -> PrepWork] /\ Begun'
          /\ \A v \in Works : work'[v] = IF v = w THEN x ELSE work[v]
      BY <2>1, <2>2, WorkMoves
    <2>4. PrepTypes'
      BY <1>1, <2>1, <2>3 DEF PrepInv, PrepTypes
    <2>5. OrderInv'
      BY <1>1, <1>2, <2>1, <2>2, <2>3 DEF PrepInv, OrderInv
    <2> QED BY <1>3, <2>4, <2>5 DEF PrepInv
  <1>6. CASE Prep!WorkStore(w)
    <2> DEFINE todo == work[w].todo
               mine == work[w].edition
    <2>1. /\ work' = [work EXCEPT ![w] = x] /\ work[w].pc = "asking"
          /\ answers' = [p \in Personas |-> IF p \in todo THEN mine ELSE answers[p]]
          /\ status' \in {status, "done"}
      BY <1>6 DEF Prep!WorkStore, Prep!Answered
    <2>2. x \in PrepWork /\ x.pc = "end"
      BY PrepIdle
    <2> HIDE DEF x
    <2>3. /\ work' \in [Works -> PrepWork] /\ Begun'
          /\ \A v \in Works : work'[v] = IF v = w THEN x ELSE work[v]
      BY <2>1, <2>2, WorkMoves
    <2>4. mine \in Nat
      BY <1>2 DEF PrepWork
    <2>5. PrepTypes'
      <3> HIDE DEF todo, mine
      <3>1. answers' \in [Personas -> Nat] /\ status' \in Prep!Statuses
        BY <1>2, <2>1, <2>4 DEF PrepInv, PrepTypes, Prep!Statuses
      <3> QED BY <1>1, <2>3, <3>1 DEF PrepInv, PrepTypes
    <2>6. ~late => todo \subseteq paid /\ mine = edition /\ edition # 0
      BY <1>2, <2>1 DEF PrepInv, OrderInv
    <2>7. OrderInv'
      <3> HIDE DEF todo, mine
      <3>1. ~late => \A p \in Personas :
                        /\ answers[p] # 0 => answers'[p] # 0
                        /\ answers'[p] # 0 => p \in paid /\ answers'[p] = edition
        BY <1>2, <2>1, <2>6 DEF PrepInv, OrderInv
      <3>2. selected \subseteq Personas
        BY DEF PrepInv, PrepTypes
      <3> QED BY <1>1, <1>2, <2>2, <2>3, <3>1, <3>2 DEF PrepInv, OrderInv
    <2> QED BY <1>3, <2>5, <2>7 DEF PrepInv
  <1> QED BY <1>4, <1>5, <1>6

\* A persona is deleted, or the process restarts and forgets its tasks.
LEMMA DeletionKeepsPrep ==
    ASSUME PrepInv, (\E p \in Personas : Prep!DeletePersona(p)) \/ Prep!Restart
    PROVE  PrepInv'
  <1>1. CASE \E p \in Personas : Prep!DeletePersona(p)
    <2>1. /\ gone \subseteq gone' /\ gone' \in SUBSET Personas
          /\ UNCHANGED <<status, selected, edition, answers, request, work, paid, late>>
      BY <1>1 DEF Prep!DeletePersona, PrepInv, PrepTypes
    <2>2. PrepTypes'
      BY <2>1 DEF PrepInv, PrepTypes
    <2>3. OrderInv'
      BY <2>1 DEF PrepInv, OrderInv, Begun
    <2>4. \A q \in Requests : Proper(request[q])'
      BY <2>1 DEF PrepInv, Proper
    <2> QED BY <2>2, <2>3, <2>4 DEF PrepInv
  <1>2. CASE Prep!Restart
    <2>1. /\ request' = [r \in Requests |-> Prep!Idle]
          /\ UNCHANGED <<status, selected, gone, edition, answers, paid, late>>
          /\ work' = [w \in Works |-> IF work[w].pc = "none" THEN Prep!NotStarted
                                      ELSE [Prep!NotStarted EXCEPT !.pc = "end"]]
      BY <1>2 DEF Prep!Restart
    <2>2. /\ work' \in [Works -> PrepWork]
          /\ \A w \in Works : /\ work'[w].pc # "asking"
                              /\ work'[w].pc = "none" <=> work[w].pc = "none"
      BY <2>1, PrepIdle
    <2>3. PrepTypes'
      BY <2>1, <2>2, PrepIdle DEF PrepInv, PrepTypes
    <2>4. OrderInv'
      <3>1. Begun' <=> Begun
        BY <2>2 DEF Begun
      <3> QED BY <2>1, <2>2, <3>1 DEF PrepInv, OrderInv
    <2>5. \A q \in Requests : Proper(request[q])'
      BY <2>1, PrepIdle DEF Proper
    <2> QED BY <2>3, <2>4, <2>5 DEF PrepInv
  <1> QED BY <1>1, <1>2

\* Every step keeps PrepInv.
LEMMA PrepKeeps ==
    ASSUME PrepInv, Prep!Next \/ UNCHANGED preparationVars
    PROVE  PrepInv'
  <1>1. CASE UNCHANGED preparationVars
    BY <1>1 DEF preparationVars, PrepInv, PrepTypes, OrderInv, Begun, Proper
  <1> QED BY <1>1, ReadsKeepPrep, StatusKeepsPrep, EditsKeepPrep, RunKeepsPrep, WorkKeepsPrep,
             DeletionKeepsPrep DEF Prep!Next

\* Personas answer what was ordered, only those that were paid for, unless a request that
\* had found the evaluation open wrote after a run began (evaluation_service.py,
\* run_evaluation; survey_service.py, update of the questions).
THEOREM AlwaysAnsweredAsOrdered == Spec => []AnsweredAsOrdered
  <1> DEFINE Inv == part = "preparation" => PrepInv
  <1>1. Init => Inv
    BY PrepInit DEF Init
  <1>2. Inv /\ [Next]_vars => Inv'
    BY PrepKeeps, PartSteps
  <1>3. Inv => AnsweredAsOrdered
    BY DEF PrepInv, OrderInv, AnsweredAsOrdered, Prep!AnsweredAsOrdered, Prep!HasAnswer
  <1> QED BY <1>1, <1>2, <1>3, PTL DEF Spec

\* The status becomes "done" only where a task stores its answers.
LEMMA OnlyStoringIsDone ==
    ASSUME PrepInv, Prep!Next \/ UNCHANGED preparationVars
    PROVE  Prep!DoneCompletely
  <1> SUFFICES ASSUME status # "done", status' = "done", ~late, NEW p \in selected \ gone
               PROVE  answers'[p] # 0
    BY DEF Prep!DoneCompletely
  <1>1. PICK w \in Works : Prep!WorkStore(w)
    BY DEF Prep!Next, preparationVars, Prep!GenerateRead, Prep!EditRead, Prep!SelectRead,
           Prep!RunRead, Prep!CancelRead, Prep!WatchRead, Prep!Begin, Prep!GenerateDone,
           Prep!GenerateFails, Prep!EditCommit, Prep!SelectCommit, Prep!RunCommit,
           Prep!CancelCommit, Prep!WatchCommit, Prep!DeletePersona, Prep!WorkRead,
           Prep!WorkConflicts, Prep!Restart
  <1> DEFINE todo == work[w].todo
             mine == work[w].edition
  <1>2. /\ work[w].pc = "asking"
        /\ answers' = [q \in Personas |-> IF q \in todo THEN mine ELSE answers[q]]
    BY <1>1 DEF Prep!WorkStore, Prep!Answered
  <1>3. /\ mine = edition /\ edition # 0 /\ (p \in todo \/ answers[p] # 0)
    BY <1>2 DEF PrepInv, OrderInv, Begun
  <1>4. p \in Personas
    BY DEF PrepInv, PrepTypes
  <1> HIDE DEF todo, mine
  <1> QED BY <1>2, <1>3, <1>4

\* An evaluation becomes "done" only with an answer of every chosen persona that still
\* exists, whatever the provider did (evaluation_runner.py, the background task).
THEOREM DoneIsAlwaysComplete == Spec => DoneIsComplete
  <1> DEFINE Inv == part = "preparation" => PrepInv
  <1>1. Init => Inv
    BY PrepInit DEF Init
  <1>2. Inv /\ [Next]_vars => Inv'
    BY PrepKeeps, PartSteps
  <1>3. Inv /\ [Next]_vars => [part = "preparation" => Prep!DoneCompletely]_vars
    BY OnlyStoringIsDone, PartSteps
  <1> QED BY <1>1, <1>2, <1>3, PTL DEF Spec, DoneIsComplete

\* No edition is beyond the last one.
PrepRest ==
    /\ edition <= MaxEditions
    /\ \A p \in Personas : answers[p] <= MaxEditions
    /\ \A w \in Works : work[w].edition <= MaxEditions

\* A task holds the edition there is, and an answer is about the edition of its task.
LEMMA PrepRestKept ==
    ASSUME PrepInv, PrepRest, Prep!Next \/ UNCHANGED preparationVars
    PROVE  PrepRest'
  <1> USE DEF PrepRest
  <1>1. /\ edition \in Nat /\ answers \in [Personas -> Nat] /\ work \in [Works -> PrepWork]
        /\ MaxEditions \in Nat \ {0}
        /\ Prep!NotStarted.edition = 0
    BY ServicesAssumption DEF PrepInv, PrepTypes, Prep!PreparationAssumption, Prep!NotStarted
  <1>2. CASE UNCHANGED <<edition, answers, work>>
    BY <1>2
  <1>3. ASSUME NEW r \in Requests, Prep!GenerateDone(r) \/ Prep!EditCommit(r) PROVE PrepRest'
    BY <1>1, <1>3 DEF Prep!GenerateDone, Prep!EditCommit
  <1>4. ASSUME NEW r \in Requests, Prep!RunCommit(r) PROVE PrepRest'
    <2>1. PICK w \in Works : work' = [work EXCEPT ![w].pc = "queued"]
      BY <1>4 DEF Prep!RunCommit
    <2>2. UNCHANGED <<edition, answers>>
      BY <1>4 DEF Prep!RunCommit
    <2>3. \A v \in Works : work'[v].edition = work[v].edition
      BY <1>1, <2>1 DEF PrepWork
    <2> QED BY <2>2, <2>3
  <1>5. ASSUME NEW w \in Works, Prep!WorkRead(w) PROVE PrepRest'
    <2>1. UNCHANGED <<edition, answers>>
      BY <1>5 DEF Prep!WorkRead, Prep!Others
    <2>2. \A v \in Works : work'[v].edition = IF v = w THEN edition ELSE work[v].edition
      BY <1>1, <1>5 DEF Prep!WorkRead
    <2> QED BY <2>1, <2>2
  <1>6. ASSUME NEW w \in Works, Prep!WorkStore(w) \/ Prep!WorkConflicts(w) PROVE PrepRest'
    <2>1. edition' = edition
      BY <1>6 DEF Prep!WorkStore, Prep!WorkConflicts, Prep!Others
    <2>2. \A p \in Personas : answers'[p] \in {answers[p], work[w].edition}
      BY <1>1, <1>6 DEF Prep!WorkStore, Prep!WorkConflicts
    <2>3. work' = [work EXCEPT ![w] = [Prep!NotStarted EXCEPT !.pc = "end"]]
      BY <1>6 DEF Prep!WorkStore, Prep!WorkConflicts
    <2>4. [Prep!NotStarted EXCEPT !.pc = "end"].edition = 0
      BY DEF Prep!NotStarted
    <2>5. \A v \in Works : work'[v].edition = IF v = w THEN 0 ELSE work[v].edition
      BY <1>1, <2>3, <2>4
    <2> QED BY <1>1, <2>1, <2>2, <2>5
  <1>7. CASE Prep!Restart
    <2>1. UNCHANGED <<edition, answers>>
      BY <1>7 DEF Prep!Restart
    <2>2. \A w \in Works : work'[w].edition = 0
      BY <1>7 DEF Prep!Restart, Prep!NotStarted
    <2> QED BY <1>1, <2>1, <2>2
  <1>8. ASSUME NEW r \in Requests,
               \/ Prep!GenerateRead(r) \/ Prep!EditRead(r) \/ Prep!SelectRead(r)
               \/ Prep!RunRead(r) \/ Prep!CancelRead(r) \/ Prep!WatchRead(r)
               \/ Prep!GenerateFails(r) \/ Prep!SelectCommit(r) \/ Prep!CancelCommit(r)
               \/ Prep!WatchCommit(r)
        PROVE  PrepRest'
    <2>1. UNCHANGED <<edition, answers, work>>
      BY <1>8 DEF Prep!GenerateRead, Prep!EditRead, Prep!SelectRead, Prep!RunRead,
                  Prep!CancelRead, Prep!WatchRead, Prep!Begin, Prep!GenerateFails,
                  Prep!SelectCommit, Prep!CancelCommit, Prep!WatchCommit
    <2> QED BY <1>2, <2>1
  <1>9. ASSUME NEW p, Prep!DeletePersona(p) PROVE PrepRest'
    BY <1>2, <1>9 DEF Prep!DeletePersona
  <1>10. CASE UNCHANGED preparationVars
    BY <1>2, <1>10 DEF preparationVars
  <1> QED BY <1>3, <1>4, <1>5, <1>6, <1>7, <1>8, <1>9, <1>10 DEF Prep!Next

\* The types of the variables of a preparation.
LEMMA PrepTyped == Spec => [](part = "preparation" => Prep!TypeOK)
  <1> DEFINE Inv == part = "preparation" => PrepInv /\ PrepRest
  <1>1. Init => Inv
    <2> SUFFICES ASSUME Prep!Init PROVE PrepRest
      BY PrepInit DEF Init
    <2>1. MaxEditions \in Nat /\ Prep!NotStarted.edition = 0
      BY ServicesAssumption DEF Prep!PreparationAssumption, Prep!NotStarted
    <2> QED BY <2>1 DEF Prep!Init, PrepRest
  <1>2. Inv /\ [Next]_vars => Inv'
    BY PrepKeeps, PrepRestKept, PartSteps
  <1>3. Inv => (part = "preparation" => Prep!TypeOK)
    <2> SUFFICES ASSUME PrepInv, PrepRest PROVE Prep!TypeOK
      OBVIOUS
    <2>1. MaxEditions \in Nat
      BY ServicesAssumption DEF Prep!PreparationAssumption
    <2>2. edition \in Prep!Editions /\ answers \in [Personas -> Prep!Editions]
      BY <2>1 DEF PrepInv, PrepTypes, PrepRest, Prep!Editions
    <2>3. work \in [Works -> [pc : {"none", "queued", "asking", "end"}, status : Prep!Statuses,
                              edition : Prep!Editions, todo : SUBSET Personas]]
      <3>1. work \in [Works -> PrepWork] /\ \A w \in Works : work[w].edition \in Prep!Editions
        BY <2>1 DEF PrepInv, PrepTypes, PrepRest, PrepWork, Prep!Editions
      <3> QED BY <3>1 DEF PrepWork
    <2> QED BY <2>2, <2>3 DEF PrepInv, PrepTypes, PrepRequest, Prep!TypeOK
  <1> QED BY <1>1, <1>2, <1>3, PTL DEF Spec

-----------------------------------------------------------------------------
(* The report                                                              *)

\* The types of the row and of the processes, their polls without a bound.
RowType == [state : {"none", "live", "deleted"}, radar : Report!Scores,
            status : {"unset", "generating", "ready", "failed"},
            entries : {"none", "answers", "llm"}, pdf : BOOLEAN]
ProcType == [pc : {"idle", "service", "insert", "wait", "llm", "save", "recheck", "attach"},
             op : {"read", "pdf", "task", "analysis"},
             radar : Report!Scores, deleted : BOOLEAN, polls : Nat]

\* A row that can be read has a radar, an analysis that is ready has entries, and whoever
\* is about to save has a radar to save.
RowOK(x) == /\ x \in RowType
            /\ x.state = "live" => x.radar # "none"
            /\ x.status = "ready" => x.entries # "none"
ProcOK(x) == x \in ProcType /\ (x.pc = "save" => x.radar # "none")
ReportInv == /\ scaled \in BOOLEAN
             /\ RowOK(report)
             /\ proc \in [Report!Procs -> ProcType]
             /\ \A p \in Report!Procs : ProcOK(proc[p])

\* A process at rest and a row that is not there.
LEMMA ReportIdle == ProcOK(Report!Idle) /\ RowOK(Report!NoRow)
  BY DEF ProcOK, ProcType, Report!Idle, RowOK, RowType, Report!NoRow, Report!Scores

\* At first there is no report.
LEMMA ReportInit == Report!Init => ReportInv
  BY ReportIdle DEF Report!Init, ReportInv, ProcOK

\* One process moves, or none does.
LEMMA ReportMoves ==
    ASSUME ReportInv, NEW p \in Report!Procs, NEW x, ProcOK(x),
           proc' = [proc EXCEPT ![p] = x] \/ proc' = proc,
           RowOK(report'), scaled' = scaled
    PROVE  ReportInv'
  <1>1. x \in ProcType
    BY DEF ProcOK
  <1>2. /\ proc' \in [Report!Procs -> ProcType]
        /\ \A q \in Report!Procs : proc'[q] \in {x, proc[q]}
    BY <1>1 DEF ReportInv
  <1>3. \A q \in Report!Procs : ProcOK(proc[q])'
    BY <1>2 DEF ReportInv, ProcOK
  <1>4. RowOK(report)'
    BY DEF RowOK
  <1> QED BY <1>2, <1>3, <1>4 DEF ReportInv

\* Steps that move one process and give it no radar.
LEMMA ReportSteps ==
    ASSUME ReportInv, NEW p \in Report!Procs,
           RowOK(report'), scaled' = scaled,
           \/ proc' = proc
           \/ Report!Done(p)
           \/ Report!Return(p)
           \/ \E to \in {"idle", "service", "insert", "wait", "llm", "recheck", "attach"} :
                 Report!To(p, to)
           \/ \E op \in {"read", "pdf", "task", "analysis"},
                 to \in {"idle", "service", "insert", "wait", "llm", "recheck", "attach"} :
                 Report!Begin(p, op, to)
    PROVE  ReportInv'
  <1>1. proc[p] \in ProcType
    BY DEF ReportInv
  <1>2. CASE proc' = proc
    BY <1>2, ReportIdle, ReportMoves
  <1>3. CASE Report!Done(p)
    BY <1>3, ReportIdle, ReportMoves DEF Report!Done
  <1>4. ASSUME NEW to \in {"idle", "service", "insert", "wait", "llm", "recheck", "attach"},
               Report!To(p, to)
        PROVE  ReportInv'
    <2> DEFINE x == [proc[p] EXCEPT !.pc = to]
    <2>1. ProcOK(x)
      BY <1>1 DEF ProcOK, ProcType
    <2>2. proc' = [proc EXCEPT ![p] = x]
      BY <1>4 DEF Report!To
    <2> HIDE DEF x
    <2> QED BY <2>1, <2>2, ReportMoves
  <1>5. ASSUME NEW op \in {"read", "pdf", "task", "analysis"},
               NEW to \in {"idle", "service", "insert", "wait", "llm", "recheck", "attach"},
               Report!Begin(p, op, to)
        PROVE  ReportInv'
    <2> DEFINE x == [Report!Idle EXCEPT !.op = op, !.pc = to]
    <2>1. ProcOK(x)
      BY ReportIdle DEF ProcOK, ProcType
    <2>2. proc' = [proc EXCEPT ![p] = x]
      BY <1>5 DEF Report!Begin
    <2> HIDE DEF x
    <2> QED BY <2>1, <2>2, ReportMoves
  <1>6. CASE Report!Return(p)
    BY <1>3, <1>4, <1>6 DEF Report!Return
  <1> QED BY <1>2, <1>3, <1>4, <1>5, <1>6

\* Steps that leave the radar and the analysis of the row alone.
LEMMA RequestsKeepReport ==
    ASSUME ReportInv, NEW p \in Report!Procs,
           \/ Report!ReadReport(p) \/ Report!ReadBusinessReport(p) \/ Report!SavePdf(p)
           \/ Report!StartAnalysis(p) \/ Report!StartTask(p)
           \/ Report!RecheckPdf(p) \/ Report!AttachPdf(p) \/ Report!DeletePdf
           \/ Report!Breaks(p) \/ Report!WorkerLost(p)
    PROVE  ReportInv'
  <1>1. scaled' = scaled /\ RowOK(report)
    BY DEF ReportInv, Report!ReadReport, Report!ReadBusinessReport, Report!SavePdf,
           Report!StartAnalysis, Report!StartTask, Report!RecheckPdf, Report!AttachPdf,
           Report!DeletePdf, Report!Breaks, Report!WorkerLost
  <1>2. \/ report' = report
        \/ report' = [report EXCEPT !.status = "generating"]
        \/ report' = [report EXCEPT !.pdf = TRUE]
        \/ report' = [report EXCEPT !.state = "deleted"]
    BY DEF Report!ReadReport, Report!ReadBusinessReport, Report!SavePdf,
           Report!StartAnalysis, Report!StartTask, Report!RecheckPdf, Report!AttachPdf,
           Report!DeletePdf, Report!Breaks, Report!WorkerLost
  <1>3. RowOK(report')
    BY <1>1, <1>2 DEF RowOK, RowType
  <1>4. CASE Report!ReadReport(p)
    BY <1>1, <1>3, <1>4, ReportSteps DEF Report!ReadReport
  <1>5. CASE Report!ReadBusinessReport(p)
    BY <1>1, <1>3, <1>5, ReportSteps DEF Report!ReadBusinessReport
  <1>6. CASE Report!SavePdf(p)
    BY <1>1, <1>3, <1>6, ReportSteps DEF Report!SavePdf
  <1>7. CASE Report!StartAnalysis(p)
    BY <1>1, <1>3, <1>7, ReportSteps DEF Report!StartAnalysis
  <1>8. CASE Report!StartTask(p)
    BY <1>1, <1>3, <1>8, ReportSteps DEF Report!StartTask
  <1>9. CASE Report!RecheckPdf(p)
    BY <1>1, <1>3, <1>9, ReportSteps DEF Report!RecheckPdf
  <1>10. CASE Report!AttachPdf(p)
    BY <1>1, <1>3, <1>10, ReportSteps DEF Report!AttachPdf
  <1>11. CASE Report!DeletePdf
    BY <1>1, <1>3, <1>11, ReportSteps DEF Report!DeletePdf
  <1>12. CASE Report!Breaks(p) \/ Report!WorkerLost(p)
    BY <1>1, <1>3, <1>12, ReportSteps DEF Report!Breaks, Report!WorkerLost
  <1> QED BY <1>4, <1>5, <1>6, <1>7, <1>8, <1>9, <1>10, <1>11, <1>12

\* get_or_create_report.
LEMMA ServiceKeepsReport ==
    ASSUME ReportInv, NEW p \in Report!Procs,
           Report!Lookup(p) \/ Report!Insert(p) \/ Report!AwaitAnalysis(p) \/ Report!Save(p)
    PROVE  ReportInv'
  <1>1. scaled' = scaled /\ scaled \in BOOLEAN /\ RowOK(report) /\ report \in RowType
    BY DEF ReportInv, RowOK, Report!Lookup, Report!Insert, Report!AwaitAnalysis, Report!Save
  <1>2. proc[p] \in ProcType /\ ProcOK(proc[p])
    BY DEF ReportInv
  <1>3. ASSUME NEW x, ProcOK(x), proc' = [proc EXCEPT ![p] = x], RowOK(report')
        PROVE  ReportInv'
    BY <1>1, <1>3, ReportMoves
  <1>4. RowOK([report EXCEPT !.status = "generating"])
    BY <1>1 DEF RowOK, RowType
  <1>5. CASE Report!Lookup(p)
    <2>1. RowOK(report')
      BY <1>1, <1>4, <1>5 DEF Report!Lookup
    <2>2. CASE report.state = "live"
      BY <1>1, <1>5, <2>1, <2>2, ReportSteps DEF Report!Lookup
    <2>3. CASE report.state = "none"
      BY <1>1, <1>5, <2>1, <2>3, ReportSteps DEF Report!Lookup
    <2>4. CASE report.state = "deleted"
      <3> DEFINE found == CASE report.status = "ready" -> report.entries
                             [] scaled -> "scale"
                             [] report.status = "failed" -> "answers"
                             [] OTHER -> "none"
                 to == CASE report.status = "ready" \/ scaled
                                \/ report.status = "failed" -> "save"
                         [] report.status = "generating" -> "wait"
                         [] OTHER -> "llm"
      <3>1. proc' = [proc EXCEPT ![p].deleted = TRUE, ![p].radar = found, ![p].pc = to]
        BY <1>5, <2>4 DEF Report!Lookup
      <3>2. found \in Report!Scores /\ to \in {"wait", "llm", "save"}
        <4>1. report.entries \in Report!Scores /\ scaled \in BOOLEAN
          BY <1>1 DEF RowType, Report!Scores
        <4>2. to \in {"wait", "llm", "save"}
          OBVIOUS
        <4>3. found \in Report!Scores
          BY <4>1 DEF Report!Scores
        <4> QED BY <4>2, <4>3
      <3>3. to = "save" => found # "none"
        BY <1>1 DEF RowOK
      <3> HIDE DEF found, to
      <3> DEFINE x == [proc[p] EXCEPT !.deleted = TRUE, !.radar = found, !.pc = to]
      <3>4. ProcOK(x)
        BY <1>2, <3>2, <3>3 DEF ProcOK, ProcType
      <3>5. proc' = [proc EXCEPT ![p] = x]
        BY <3>1
      <3> HIDE DEF x
      <3> QED BY <1>3, <2>1, <3>4, <3>5
    <2> QED BY <1>1, <2>2, <2>3, <2>4 DEF RowType
  <1>6. CASE Report!Insert(p)
    <2>1. RowOK(report')
      <3>1. CASE report.state = "none"
        <4> DEFINE begun == IF proc[p].op = "analysis" THEN "generating" ELSE "unset"
                   found == IF scaled THEN "scale" ELSE "answers"
        <4>1. report' = [Report!NoRow EXCEPT !.state = "live", !.radar = found,
                                             !.status = begun]
          BY <1>6, <3>1 DEF Report!Insert
        <4>2. found \in {"scale", "answers"} /\ begun \in {"generating", "unset"}
          OBVIOUS
        <4> HIDE DEF begun, found
        <4> QED BY <4>1, <4>2 DEF RowOK, RowType, Report!NoRow, Report!Scores
      <3>2. CASE report.state # "none"
        BY <1>1, <1>6, <3>2 DEF Report!Insert
      <3> QED BY <3>1, <3>2
    <2> QED BY <1>1, <1>6, <2>1, ReportSteps DEF Report!Insert
  <1>7. CASE Report!AwaitAnalysis(p)
    <2> DEFINE was == report.state = "deleted"
    <2>0. was \in BOOLEAN
      OBVIOUS
    <2>1. CASE /\ report.status = "ready" /\ report' = report
               /\ proc' = [proc EXCEPT ![p].radar = report.entries, ![p].pc = "save",
                                       ![p].deleted = was]
      <3> DEFINE found == report.entries
      <3>1. found \in Report!Scores /\ found # "none"
        BY <1>1, <2>1 DEF RowOK, RowType, Report!Scores
      <3> DEFINE x == [proc[p] EXCEPT !.radar = found, !.pc = "save", !.deleted = was]
      <3>2. proc' = [proc EXCEPT ![p] = x]
        BY <2>1
      <3> HIDE DEF was, found
      <3>3. ProcOK(x)
        BY <1>2, <2>0, <3>1 DEF ProcOK, ProcType
      <3>4. RowOK(report')
        BY <1>1, <2>1
      <3> HIDE DEF x
      <3> QED BY <1>3, <3>2, <3>3, <3>4
    <2>2. CASE /\ report' = report
               /\ proc' = [proc EXCEPT ![p].polls = @ + 1, ![p].deleted = was]
               /\ proc[p].pc = "wait"
      <3> DEFINE n == proc[p].polls + 1
                 x == [proc[p] EXCEPT !.polls = n, !.deleted = was]
      <3>1. n \in Nat
        BY <1>2 DEF ProcType
      <3>2. proc' = [proc EXCEPT ![p] = x]
        BY <2>2
      <3> HIDE DEF was, n
      <3>3. ProcOK(x)
        BY <1>2, <2>0, <2>2, <3>1 DEF ProcOK, ProcType
      <3>4. RowOK(report')
        BY <1>1, <2>2
      <3> HIDE DEF x
      <3> QED BY <1>3, <3>2, <3>3, <3>4
    <2>3. CASE Report!To(p, "llm") /\ report' = [report EXCEPT !.status = "generating"]
      BY <1>1, <1>4, <2>3, ReportSteps
    <2> QED BY <1>7, <2>1, <2>2, <2>3 DEF Report!AwaitAnalysis
  <1>8. CASE Report!Save(p)
    <2>1. RowOK(report')
      <3>1. proc[p].radar # "none" /\ proc[p].radar \in Report!Scores
        BY <1>2, <1>8 DEF Report!Save, ProcOK, ProcType
      <3> DEFINE found == proc[p].radar
                 becomes == IF proc[p].deleted THEN "live" ELSE report.state
      <3>2. report' = [report EXCEPT !.radar = found, !.state = becomes]
        BY <1>8 DEF Report!Save
      <3>3. becomes \in {"none", "live", "deleted"}
        BY <1>1 DEF RowType
      <3> HIDE DEF found, becomes
      <3> QED BY <1>1, <3>1, <3>2, <3>3 DEF RowOK, RowType, found
    <2> QED BY <1>1, <1>8, <2>1, ReportSteps DEF Report!Save
  <1> QED BY <1>5, <1>6, <1>7, <1>8

\* The analysis of the dimensions, with the provider or without it.
LEMMA AnalysisKeepsReport ==
    ASSUME ReportInv, NEW p \in Report!Procs, Report!Scored(p) \/ Report!NotScored(p)
    PROVE  ReportInv'
  <1>1. scaled' = scaled /\ RowOK(report) /\ report \in RowType
    BY DEF ReportInv, RowOK, Report!Scored, Report!NotScored
  <1>2. proc[p] \in ProcType
    BY DEF ReportInv
  <1>3. ASSUME NEW found \in {"llm", "answers"}, NEW deleted \in BOOLEAN,
               proc' = [proc EXCEPT ![p].radar = found, ![p].pc = "save", ![p].deleted = deleted],
               RowOK(report')
        PROVE  ReportInv'
    <2> DEFINE x == [proc[p] EXCEPT !.radar = found, !.pc = "save", !.deleted = deleted]
    <2>1. ProcOK(x)
      BY <1>2 DEF ProcOK, ProcType, Report!Scores
    <2>2. proc' = [proc EXCEPT ![p] = x]
      BY <1>3
    <2> HIDE DEF x
    <2> QED BY <1>1, <1>3, <2>1, <2>2, ReportMoves
  <1>4. CASE Report!Scored(p)
    <2>1. PICK source \in {"llm", "answers"} :
              /\ report' = [report EXCEPT !.status = "ready", !.entries = source]
              /\ IF Report!Nested(p)
                 THEN proc' = [proc EXCEPT ![p].radar = source, ![p].pc = "save",
                                           ![p].deleted = (report.state = "deleted")]
                 ELSE Report!Done(p)
      BY <1>4 DEF Report!Scored
    <2>2. RowOK(report')
      BY <1>1, <2>1 DEF RowOK, RowType
    <2>3. CASE Report!Nested(p)
      BY <1>3, <2>1, <2>2, <2>3
    <2>4. CASE ~Report!Nested(p)
      BY <1>1, <2>1, <2>2, <2>4, ReportSteps
    <2> QED BY <2>3, <2>4
  <1>5. CASE Report!NotScored(p)
    <2>1. RowOK(report')
      <3>1. report' \in {report, [report EXCEPT !.status = "failed"]}
        BY <1>5 DEF Report!NotScored
      <3> QED BY <1>1, <3>1 DEF RowOK, RowType
    <2>2. CASE Report!Nested(p)
      BY <1>3, <1>5, <2>1, <2>2 DEF Report!NotScored
    <2>3. CASE ~Report!Nested(p)
      BY <1>1, <1>5, <2>1, <2>3, ReportSteps DEF Report!NotScored
    <2> QED BY <2>2, <2>3
  <1> QED BY <1>4, <1>5

\* Every step keeps ReportInv.
LEMMA ReportKeeps ==
    ASSUME ReportInv, Report!Next \/ UNCHANGED reportVars
    PROVE  ReportInv'
  <1>1. CASE UNCHANGED reportVars
    BY <1>1 DEF reportVars, ReportInv, RowOK, ProcOK
  <1>2. CASE Report!DeletePdf
    <2>1. report' = [report EXCEPT !.state = "deleted"] /\ UNCHANGED <<scaled, proc>>
      BY <1>2 DEF Report!DeletePdf
    <2>2. RowOK(report)'
      BY <2>1 DEF ReportInv, RowOK, RowType
    <2> QED BY <2>1, <2>2 DEF ReportInv, ProcOK
  <1>3. CASE \E p \in Readers : \/ Report!ReadReport(p) \/ Report!ReadBusinessReport(p)
                                \/ Report!SavePdf(p) \/ Report!StartAnalysis(p)
    BY <1>3, RequestsKeepReport DEF Report!Procs
  <1>4. CASE \E w \in ReportWorkers : Report!StartTask(w) \/ Report!WorkerLost(w)
    BY <1>4, RequestsKeepReport DEF Report!Procs
  <1>5. CASE \E p \in Report!Procs : Report!Steps(p) \/ Report!Breaks(p)
    BY <1>5, RequestsKeepReport, ServiceKeepsReport, AnalysisKeepsReport DEF Report!Steps
  <1> QED BY <1>1, <1>2, <1>3, <1>4, <1>5 DEF Report!Next

\* A report that can be read has a radar, whatever of its analysis failed, was overtaken
\* or is still under way (report_service.py, get_or_create_report).
THEOREM ReportAlwaysHasRadar == Spec => [](part = "report" => Report!RadarServed)
  <1> DEFINE Inv == part = "report" => ReportInv
  <1>1. Init => Inv
    BY ReportInit DEF Init
  <1>2. Inv /\ [Next]_vars => Inv'
    BY ReportKeeps, PartSteps
  <1>3. Inv => (part = "report" => Report!RadarServed)
    BY DEF ReportInv, RowOK, Report!RadarServed
  <1> QED BY <1>1, <1>2, <1>3, PTL DEF Spec

\* The settings, the queue and the polls within their bounds.
ReportRest ==
    /\ mode \in {"celery", "sync"} /\ pending \in BOOLEAN
    /\ reportQueue \in 0..MaxReports
    /\ \A p \in Report!Procs : proc[p].polls <= MaxPolls

\* What moves a process leaves its polls, starts them anew or counts one that was left.
LEMMA ReportRestKept ==
    ASSUME ReportInv, ReportRest, Report!Next \/ UNCHANGED reportVars
    PROVE  ReportRest'
  <1> USE DEF ReportRest
  <1>1. /\ proc \in [Report!Procs -> ProcType] /\ MaxPolls \in Nat /\ MaxReports \in Nat \ {0}
        /\ \A p \in Report!Procs : proc[p].polls \in Nat
        /\ Readers \subseteq Report!Procs /\ ReportWorkers \subseteq Report!Procs
    BY ServicesAssumption DEF ReportInv, ProcType, Report!ReportsAssumption, Report!Procs
  <1>2. ASSUME NEW p \in Report!Procs,
               \/ UNCHANGED proc \/ (\E to : Report!To(p, to)) \/ Report!Done(p)
               \/ (\E of, to : Report!Begin(p, of, to)) \/ Report!Return(p)
        PROVE  \A q \in Report!Procs : proc'[q].polls <= MaxPolls
    <2>1. ASSUME NEW to, Report!To(p, to)
          PROVE  \A q \in Report!Procs : proc'[q].polls <= MaxPolls
      BY <1>1, <2>1 DEF Report!To, ProcType
    <2>2. CASE Report!Done(p)
      <3>1. Report!Idle.polls = 0
        BY DEF Report!Idle
      <3>2. \A q \in Report!Procs : proc'[q] = Report!Idle \/ proc'[q] = proc[q]
        BY <1>1, <2>2 DEF Report!Done
      <3> QED BY <1>1, <3>1, <3>2
    <2>3. ASSUME NEW of, NEW to, Report!Begin(p, of, to)
          PROVE  \A q \in Report!Procs : proc'[q].polls <= MaxPolls
      <3> DEFINE begun == [Report!Idle EXCEPT !.op = of, !.pc = to]
      <3>1. begun.polls = 0
        BY DEF Report!Idle
      <3>2. proc' = [proc EXCEPT ![p] = begun]
        BY <2>3 DEF Report!Begin
      <3> HIDE DEF begun
      <3>3. \A q \in Report!Procs : proc'[q] = begun \/ proc'[q] = proc[q]
        BY <1>1, <3>2
      <3> QED BY <1>1, <3>1, <3>3
    <2>4. CASE Report!Return(p)
      BY <2>1, <2>2, <2>4 DEF Report!Return
    <2> QED BY <1>2, <2>1, <2>2, <2>3, <2>4
  <1>3. ASSUME NEW p \in Report!Procs, Report!Steps(p) PROVE ReportRest'
    <2>1. CASE Report!Lookup(p)
      <3>1. CASE report.state = "live" \/ report.state = "none"
        BY <1>2, <2>1, <3>1 DEF Report!Lookup
      <3>2. CASE report.state \notin {"live", "none"}
        BY <1>1, <2>1, <3>2 DEF Report!Lookup, ProcType
      <3> QED BY <3>1, <3>2
    <2>2. CASE Report!Insert(p)
      BY <1>2, <2>2 DEF Report!Insert
    <2>3. CASE Report!AwaitAnalysis(p)
      BY <1>1, <1>2, <2>3 DEF Report!AwaitAnalysis, ProcType
    <2>4. CASE Report!Save(p)
      BY <1>2, <2>4 DEF Report!Save
    <2>5. CASE Report!Scored(p)
      BY <1>1, <1>2, <2>5 DEF Report!Scored, ProcType
    <2>6. CASE Report!NotScored(p)
      BY <1>1, <1>2, <2>6 DEF Report!NotScored, ProcType
    <2>7. CASE Report!RecheckPdf(p) \/ Report!AttachPdf(p)
      BY <1>2, <2>7 DEF Report!RecheckPdf, Report!AttachPdf
    <2> QED BY <1>3, <2>1, <2>2, <2>3, <2>4, <2>5, <2>6, <2>7 DEF Report!Steps
  <1>4. ASSUME NEW p \in Readers, Report!ReadReport(p) PROVE ReportRest'
    <2>1. /\ p \in Report!Procs /\ mode' = mode /\ pending' = pending
          /\ Report!Begin(p, "read", "service") \/ UNCHANGED proc
      BY <1>1, <1>4 DEF Report!ReadReport
    <2>2. \A q \in Report!Procs : proc'[q].polls <= MaxPolls
      BY <1>2, <2>1
    <2>4. \/ reportQueue' = reportQueue
          \/ reportQueue' = reportQueue + 1 /\ reportQueue < MaxReports
      BY <1>4 DEF Report!ReadReport
    <2>5. reportQueue' \in 0..MaxReports
      BY <1>1, <2>4
    <2> QED BY <2>1, <2>2, <2>5
  <1>5. ASSUME NEW p \in Readers,
               Report!ReadBusinessReport(p) \/ Report!SavePdf(p) \/ Report!StartAnalysis(p)
        PROVE  ReportRest'
    BY <1>1, <1>2, <1>5 DEF Report!ReadBusinessReport, Report!SavePdf, Report!StartAnalysis
  <1>6. ASSUME NEW p \in ReportWorkers, Report!StartTask(p) \/ Report!WorkerLost(p)
        PROVE  ReportRest'
    <2>1. CASE Report!StartTask(p)
      BY <1>1, <1>2, <2>1 DEF Report!StartTask
    <2>2. CASE Report!WorkerLost(p)
      BY <1>1, <1>2, <2>2 DEF Report!WorkerLost
    <2> QED BY <1>6, <2>1, <2>2
  <1>9. ASSUME NEW p \in Report!Procs, Report!Breaks(p) PROVE ReportRest'
    BY <1>2, <1>9 DEF Report!Breaks
  <1>7. CASE Report!DeletePdf
    BY <1>7 DEF Report!DeletePdf
  <1>8. CASE UNCHANGED reportVars
    BY <1>8 DEF reportVars
  <1> QED BY <1>3, <1>4, <1>5, <1>6, <1>7, <1>8, <1>9 DEF Report!Next

\* The types of a report's variables.
LEMMA ReportTyped == Spec => [](part = "report" => Report!TypeOK)
  <1> DEFINE Inv == part = "report" => ReportInv /\ ReportRest
  <1>1. Init => Inv
    <2> SUFFICES ASSUME Report!Init PROVE ReportRest
      BY ReportInit DEF Init
    <2>1. MaxReports \in Nat \ {0} /\ MaxPolls \in Nat
      BY ServicesAssumption DEF Report!ReportsAssumption
    <2>2. Report!Idle.polls = 0
      BY DEF Report!Idle
    <2>3. pending \in BOOLEAN
      BY DEF Report!Init
    <2>4. reportQueue \in 0..MaxReports
      BY <2>1 DEF Report!Init
    <2>5. \A p \in Report!Procs : proc[p].polls <= MaxPolls
      BY <2>1, <2>2 DEF Report!Init
    <2> QED BY <2>3, <2>4, <2>5 DEF Report!Init, ReportRest
  <1>2. Inv /\ [Next]_vars => Inv'
    BY ReportKeeps, ReportRestKept, PartSteps
  <1>3. Inv => (part = "report" => Report!TypeOK)
    <2> SUFFICES ASSUME ReportInv, ReportRest PROVE Report!TypeOK
      OBVIOUS
    <2>1. report \in RowType /\ scaled \in BOOLEAN
      BY DEF ReportInv, RowOK
    <2>2. proc \in [Report!Procs -> [pc : {"idle", "service", "insert", "wait", "llm", "save",
                                           "recheck", "attach"},
                                     op : {"read", "pdf", "task", "analysis"},
                                     radar : Report!Scores, deleted : BOOLEAN,
                                     polls : 0..MaxPolls]]
      <3>1. \A p \in Report!Procs : proc[p] \in ProcType /\ proc[p].polls <= MaxPolls
        BY DEF ReportInv, ReportRest
      <3>2. MaxPolls \in Nat
        BY ServicesAssumption DEF Report!ReportsAssumption
      <3>3. proc \in [Report!Procs -> ProcType]
        BY DEF ReportInv
      <3> QED BY <3>1, <3>2, <3>3 DEF ProcType
    <2> QED BY <2>1, <2>2 DEF ReportRest, RowType, Report!TypeOK
  <1> QED BY <1>1, <1>2, <1>3, PTL DEF Spec

-----------------------------------------------------------------------------
(* Conversations                                                           *)

\* The theorems about Conversation alone, about the variables it has here.
ChatProofs == INSTANCE ConversationProofs

\* What ConversationProofs proves inductive.
ChatInv == ChatProofs!ThreadInv /\ ChatProofs!ToldInv

\* The two instances of Conversation mean the same.
LEMMA SameChat ==
    /\ Chat!ConversationAssumption <=> ChatProofs!ConversationAssumption
    /\ Chat!Init <=> ChatProofs!Init
    /\ Chat!Next <=> ChatProofs!Next
    /\ Chat!TypeOK <=> ChatProofs!TypeOK
    /\ Chat!CountIsExact <=> ChatProofs!CountIsExact
    /\ Chat!LimitHolds <=> ChatProofs!LimitHolds
    /\ Chat!StoredAsTold <=> ChatProofs!StoredAsTold
  <1>1. Chat!ConversationAssumption <=> ChatProofs!ConversationAssumption
    BY DEF Chat!ConversationAssumption, ChatProofs!ConversationAssumption,
           Chat!IsFiniteSet, ChatProofs!IsFiniteSet
  <1>2. Chat!Init <=> ChatProofs!Init
    BY DEF Chat!Init, ChatProofs!Init, Chat!NewSend, ChatProofs!NewSend
  <1>3. Chat!Next <=> ChatProofs!Next
    BY DEF Chat!Next, Chat!SendGoesOn, Chat!CreateLookup, Chat!CreateInsert,
           Chat!DeleteConversation, Chat!OpenSend, Chat!FlushMessage, Chat!Reply,
           Chat!ReplyFails, Chat!CommitAfterError, Chat!Disconnect, Chat!Remember,
           Chat!Keeps, Chat!RoomLeft, Chat!CommitSend, Chat!Outdate, Chat!Thread,
           ChatProofs!Next, ChatProofs!SendGoesOn, ChatProofs!CreateLookup,
           ChatProofs!CreateInsert, ChatProofs!DeleteConversation, ChatProofs!OpenSend,
           ChatProofs!FlushMessage, ChatProofs!Reply, ChatProofs!ReplyFails,
           ChatProofs!CommitAfterError, ChatProofs!Disconnect, ChatProofs!Remember,
           ChatProofs!Keeps, ChatProofs!RoomLeft, ChatProofs!CommitSend,
           ChatProofs!Outdate, ChatProofs!Thread
  <1>4. Chat!TypeOK <=> ChatProofs!TypeOK
    BY DEF Chat!TypeOK, Chat!SendState, Chat!SendPc,
           ChatProofs!TypeOK, ChatProofs!SendState, ChatProofs!SendPc
  <1>5. /\ Chat!CountIsExact <=> ChatProofs!CountIsExact
        /\ Chat!LimitHolds <=> ChatProofs!LimitHolds
    BY DEF Chat!CountIsExact, Chat!LimitHolds, Chat!Total,
           ChatProofs!CountIsExact, ChatProofs!LimitHolds, ChatProofs!Total
  <1>6. Chat!StoredAsTold <=> ChatProofs!StoredAsTold
    BY DEF Chat!StoredAsTold, Chat!Outcomes, ChatProofs!StoredAsTold, ChatProofs!Outcomes,
           Chat!Cardinality, ChatProofs!Cardinality
  <1> QED BY <1>1, <1>2, <1>3, <1>4, <1>5, <1>6

\* Every step keeps ChatInv: ConversationProofs says so.
LEMMA ChatKeeps ==
    ASSUME Chat!ConversationAssumption, ChatInv, Chat!Next \/ UNCHANGED conversationVars
    PROVE  ChatInv'
  <1>1. [ChatProofs!Next]_(ChatProofs!vars)
    BY SameChat DEF conversationVars, ChatProofs!vars
  <1>2. ChatProofs!ThreadInv'
    BY <1>1, SameChat, ChatProofs!ThreadStep DEF ChatInv
  <1>3. ChatProofs!ToldInv'
    BY <1>1, SameChat, ChatProofs!SendTold, ChatProofs!RowTold DEF ChatInv, ChatProofs!Next
  <1> QED BY <1>2, <1>3 DEF ChatInv

\* message_count is the number of messages unless overlapping sends wrote it from outdated
\* copies, MESSAGE_LIMIT holds up to them, and what is stored is what the clients were told
\* (conversation_service.py, send_message).
THEOREM CountAlwaysExact == Spec => []CountIsExact
  <1> DEFINE Inv == part = "conversation" => ChatInv
  <1>0. Chat!ConversationAssumption
    BY ServicesAssumption
  <1>1. Init => Inv
    BY <1>0, SameChat, ChatProofs!ThreadInit, ChatProofs!ToldInit DEF Init, ChatInv
  <1>2. Inv /\ [Next]_vars => Inv'
    BY <1>0, ChatKeeps, PartSteps
  <1>3. Inv => CountIsExact
    BY SameChat DEF CountIsExact, ChatInv, ChatProofs!ThreadInv, ChatProofs!ToldInv
  <1> QED BY <1>1, <1>2, <1>3, PTL DEF Spec

-----------------------------------------------------------------------------
(* Whitepapers                                                             *)

\* A request that committed early is one that retries.
EarlyInv == \A r \in Askers :
                reader[r].early => reader[r].pc = "describe" /\ reader[r].status = "failed"

\* A row that is ready has a text, and so has the copy of a request; a task is counted.
TextInv ==
    /\ whitepaper = "ready" => text > 0
    /\ \A r \in Askers : reader[r].status = "ready" => reader[r].text > 0
    /\ tasks # {} => started > 0

\* Until two retries overlap, one task or one request at most is to make the row ready,
\* and the row says so.
SingleInv ==
    ~overlap =>
        /\ tasks # {} => whitepaper = "generating"
        /\ \A t, u \in tasks : t = u
        /\ \A r \in Askers : reader[r].early => whitepaper = "generating" /\ tasks = {}
        /\ \A r, q \in Askers : reader[r].early /\ reader[q].early => r = q

PaperInv == Paper!TypeOK /\ EarlyInv /\ TextInv /\ SingleInv /\ Paper!GeneratingIsOwned

ReaderState == [pc : {"idle", "describe"}, ask : BOOLEAN, status : Paper!Statuses,
                 text : Paper!Texts, early : BOOLEAN]

\* A request that is not under way holds nothing.
LEMMA IdleHolds ==
    /\ Paper!Idle \in ReaderState
    /\ Paper!Idle.pc = "idle" /\ Paper!Idle.status = "none" /\ Paper!Idle.early = FALSE
  BY DEF Paper!Idle, ReaderState, Paper!Statuses, Paper!Texts

\* A request that ends leaves the others as they are.
LEMMA EndHolds ==
    ASSUME Paper!TypeOK, NEW r \in Askers, reader' = [reader EXCEPT ![r] = Paper!Idle]
    PROVE  /\ reader' \in [Askers -> ReaderState]
           /\ \A q \in Askers : reader'[q] = IF q = r THEN Paper!Idle ELSE reader[q]
  <1>1. reader \in [Askers -> ReaderState]
    BY DEF Paper!TypeOK, ReaderState
  <1> QED BY <1>1, IdleHolds

LEMMA PaperInit == Paper!Init => PaperInv
  <1> SUFFICES ASSUME Paper!Init PROVE PaperInv
    OBVIOUS
  <1>1. reader \in [Askers -> ReaderState]
    BY IdleHolds DEF Paper!Init
  <1>2. /\ whitepaper \in Paper!Statuses /\ text \in Paper!Texts /\ tasks \in SUBSET (1..MaxTasks)
        /\ started \in Paper!Texts
    BY DEF Paper!Init, Paper!Statuses, Paper!Texts
  <1> overlap \in BOOLEAN /\ lost \in BOOLEAN
    BY DEF Paper!Init
  <1>3. Paper!TypeOK
    BY <1>1, <1>2 DEF Paper!TypeOK, ReaderState
  <1>4. EarlyInv /\ TextInv /\ SingleInv /\ Paper!GeneratingIsOwned
    BY IdleHolds DEF Paper!Init, EarlyInv, TextInv, SingleInv, Paper!GeneratingIsOwned
  <1> QED BY <1>3, <1>4 DEF PaperInv

\* The requests of the model, step by step.
LEMMA RequestKeepsPaper ==
    ASSUME PaperInv, NEW r \in Askers,
           \/ \E ask \in BOOLEAN : Paper!Read(r, ask)
           \/ Paper!CommitEarly(r) \/ Paper!DescriptionFails(r) \/ Paper!Create(r)
           \/ Paper!Retry(r) \/ Paper!Refresh(r)
    PROVE  PaperInv'
  <1> USE DEF PaperInv, Paper!TypeOK, Paper!Statuses, Paper!Texts, Paper!Idle, EarlyInv, TextInv,
              SingleInv, Paper!GeneratingIsOwned
  <1>1. ASSUME NEW ask \in BOOLEAN, Paper!Read(r, ask)  PROVE PaperInv'
    BY <1>1 DEF Paper!Read, Paper!NoGeneration
  <1>2. CASE Paper!CommitEarly(r)
    BY <1>2 DEF Paper!CommitEarly, Paper!Overlaps, Paper!NoGeneration
  <1>3. CASE Paper!DescriptionFails(r)
    BY <1>3 DEF Paper!DescriptionFails, Paper!NoGeneration
  <1>4. CASE Paper!Create(r)
    <2>1. /\ reader' \in [Askers -> ReaderState]
          /\ \A q \in Askers : reader'[q] = IF q = r THEN Paper!Idle ELSE reader[q]
      BY <1>4, EndHolds DEF Paper!Create, Paper!End
    <2>2. reader[r].status = "none" /\ text' = text /\ lost' = lost
      BY <1>4 DEF Paper!Create, Paper!End
    <2>3. CASE whitepaper # "none"
      BY <1>4, <2>1, <2>2, <2>3, IdleHolds DEF Paper!Create, Paper!NoGeneration, ReaderState
    <2>4. CASE whitepaper = "none"
      <3>1. whitepaper' = "generating" /\ overlap' = overlap
        BY <1>4, <2>4 DEF Paper!Create, Paper!Overlaps
      <3>2. PICK t \in Paper!Free : tasks' = tasks \cup {t} /\ started' \in {1, 2}
        BY <1>4, <2>4 DEF Paper!Create, Paper!StartGeneration
      <3> QED BY <2>1, <2>2, <2>4, <3>1, <3>2, IdleHolds DEF Paper!Free, ReaderState
    <2> QED BY <2>3, <2>4
  <1>5. CASE Paper!Retry(r)
    <2>1. /\ reader' \in [Askers -> ReaderState]
          /\ \A q \in Askers : reader'[q] = IF q = r THEN Paper!Idle ELSE reader[q]
      BY <1>5, EndHolds DEF Paper!Retry, Paper!End
    <2>2. reader[r].status = "failed" /\ text' = text /\ lost' = lost
      BY <1>5 DEF Paper!Retry, Paper!End
    <2>3. PICK t \in Paper!Free : tasks' = tasks \cup {t} /\ started' \in {1, 2}
      BY <1>5 DEF Paper!Retry, Paper!StartGeneration
    <2>4. CASE reader[r].early
      <3>1. whitepaper' = whitepaper /\ overlap' = overlap
        BY <1>5, <2>4 DEF Paper!Retry
      <3> QED BY <2>1, <2>2, <2>3, <2>4, <3>1, IdleHolds DEF Paper!Free, ReaderState
    <2>5. CASE ~reader[r].early
      <3>1. /\ whitepaper' = "generating"
            /\ overlap' = (overlap \/ whitepaper \notin {"none", "failed"})
        BY <1>5, <2>5 DEF Paper!Retry, Paper!Overlaps
      <3>2. SingleInv'
        BY <2>1, <2>3, <2>5, <3>1, IdleHolds DEF Paper!Free
      <3>3. Paper!TypeOK'
        BY <2>1, <2>2, <2>3, <3>1 DEF Paper!Free, ReaderState
      <3> QED BY <2>1, <2>2, <2>3, <3>1, <3>2, <3>3, IdleHolds
    <2> QED BY <2>4, <2>5
  <1>6. CASE Paper!Refresh(r)
    BY <1>6 DEF Paper!Refresh, Paper!NoGeneration, Paper!End
  <1> QED BY <1>1, <1>2, <1>3, <1>4, <1>5, <1>6

\* The tasks, and the end of the process.
LEMMA TaskKeepsPaper ==
    ASSUME PaperInv,
           \/ \E t \in 1..MaxTasks : Paper!Generated(t) \/ Paper!GenerationFails(t)
           \/ Paper!Restart
    PROVE  PaperInv'
  <1> USE DEF PaperInv, Paper!TypeOK, Paper!Statuses, Paper!Texts, Paper!Idle, EarlyInv, TextInv,
              SingleInv, Paper!GeneratingIsOwned
  <1>1. ASSUME NEW t \in 1..MaxTasks, Paper!Generated(t)  PROVE PaperInv'
    BY <1>1 DEF Paper!Generated
  <1>2. ASSUME NEW t \in 1..MaxTasks, Paper!GenerationFails(t)  PROVE PaperInv'
    BY <1>2 DEF Paper!GenerationFails
  <1>3. CASE Paper!Restart
    <2>1. \A r \in Askers : reader'[r] = Paper!Idle
      BY <1>3 DEF Paper!Restart
    <2>2. Paper!TypeOK'
      BY <1>3, IdleHolds DEF Paper!Restart
    <2> QED BY <1>3, <2>1, <2>2, IdleHolds DEF Paper!Restart
  <1> QED BY <1>1, <1>2, <1>3

LEMMA PaperStep == PaperInv /\ [Paper!Next]_whitepaperVars => PaperInv'
  <1> SUFFICES ASSUME PaperInv, [Paper!Next]_whitepaperVars
               PROVE  PaperInv'
    OBVIOUS
  <1>1. CASE UNCHANGED whitepaperVars
    BY <1>1 DEF whitepaperVars, PaperInv, Paper!TypeOK, EarlyInv, TextInv, SingleInv,
                Paper!GeneratingIsOwned
  <1>2. CASE Paper!Next
    BY <1>2, RequestKeepsPaper, TaskKeepsPaper DEF Paper!Next
  <1> QED BY <1>1, <1>2

\* What is ready stays ready in every step, unless retries have overlapped.
LEMMA ReadyStep ==
    ASSUME PaperInv, Paper!Next
    PROVE  Paper!StaysReady
  <1> SUFFICES ASSUME whitepaper = "ready"
               PROVE  whitepaper' = "ready" \/ overlap'
    BY DEF Paper!StaysReady
  <1> USE DEF PaperInv, Paper!TypeOK
  <1>1. ASSUME NEW r \in Askers,
               \/ \E ask \in BOOLEAN : Paper!Read(r, ask)
               \/ Paper!DescriptionFails(r) \/ Paper!Refresh(r)
        PROVE  whitepaper' = "ready"
    BY <1>1 DEF Paper!Read, Paper!DescriptionFails, Paper!Refresh
  <1>2. ASSUME NEW r \in Askers, Paper!CommitEarly(r) \/ Paper!Create(r) \/ Paper!Retry(r)
        PROVE  whitepaper' = "ready" \/ overlap'
    BY <1>2 DEF Paper!CommitEarly, Paper!Create, Paper!Retry, Paper!Overlaps
  <1>3. ASSUME NEW t \in 1..MaxTasks, Paper!GenerationFails(t)
        PROVE  overlap'
    BY <1>3 DEF Paper!GenerationFails, SingleInv
  <1>4. ASSUME NEW t \in 1..MaxTasks, Paper!Generated(t)
        PROVE  whitepaper' = "ready"
    BY <1>4 DEF Paper!Generated
  <1>5. CASE Paper!Restart
    BY <1>5 DEF Paper!Restart
  <1> QED BY <1>1, <1>2, <1>3, <1>4, <1>5 DEF Paper!Next

\* PaperInv, where whitepapers are the part under way.
PaperHere == part = "whitepaper" => PaperInv

LEMMA PaperInvariant == Spec => []PaperHere
  <1>1. Init => PaperHere
    BY PaperInit DEF Init, PaperHere
  <1>2. PaperHere /\ [Next]_vars => PaperHere'
    <2> SUFFICES ASSUME PaperHere, [Next]_vars, part' = "whitepaper"
                 PROVE  PaperInv'
      BY DEF PaperHere
    <2>1. PaperInv /\ [Paper!Next]_whitepaperVars
      BY PartSteps DEF PaperHere
    <2> QED BY <2>1, PaperStep
  <1> QED BY <1>1, <1>2, PTL DEF Spec

\* A whitepaper that says generating has a task or a request that is about to start one,
\* unless one was lost, and a ready one has its text (whitepaper_service.py).
THEOREM GeneratingAlwaysOwned == Spec => []GeneratingIsOwned
  <1>1. PaperHere => GeneratingIsOwned
    BY DEF PaperHere, GeneratingIsOwned, PaperInv, TextInv, Paper!ReadyHasText
  <1> QED BY <1>1, PaperInvariant, PTL

\* A whitepaper that is ready stays ready unless two retries of a failed one overlapped
\* (whitepaper_service.py, get_or_create_whitepaper).
THEOREM ReadyAlwaysStays == Spec => ReadyStays
  <1>1. PaperHere /\ [Next]_vars => [part = "whitepaper" => Paper!StaysReady]_vars
    <2> SUFFICES ASSUME PaperHere, [Next]_vars, part = "whitepaper"
                 PROVE  Paper!StaysReady
      OBVIOUS
    <2>1. CASE Paper!Next
      BY <2>1, ReadyStep DEF PaperHere
    <2>2. CASE UNCHANGED whitepaperVars
      BY <2>2 DEF whitepaperVars, Paper!StaysReady
    <2> QED BY <2>1, <2>2, PartSteps
  <1> QED BY <1>1, PaperInvariant, PTL DEF Spec, ReadyStays

-----------------------------------------------------------------------------
(* The webhook of an outcome                                               *)

\* The types of the variables, the counters without their bounds.
EventType == [status : {"none", "pending", "failed", "delivered"}, attempts : Nat,
              delay : 0..Hook!Hour]
HookTypes ==
    /\ evaluation \in {"answering"} \cup Hook!Outcomes
    /\ event \in [Hook!Outcomes -> EventType]
    /\ tail \in [Workers -> Hook!TailState]
    /\ delivery \in [Deliveries -> Hook!DeliveryState]
    /\ posts \in [Hook!Outcomes -> Nat] /\ accepted \in [Hook!Outcomes -> Nat]

\* However often an event was tried, the next attempt is within the hour.
LEMMA DelayWithinHour == \A n \in Nat : Hook!Delay(n) \in 0..Hook!Hour
  <1> SUFFICES ASSUME NEW n \in Nat PROVE Hook!Delay(n) \in 0..Hook!Hour
    OBVIOUS
  <1> DEFINE k == Hook!MinOf(6, IF n > 1 THEN n - 1 ELSE 0)
  <1>1. k \in 0..6
    BY DEF Hook!MinOf
  <1>2. Hook!Delay(n) = Hook!MinOf(Hook!Hour, 2^k * 60)
    BY DEF Hook!Delay
  <1> HIDE DEF k
  <1>3. k \in {0, 1, 2, 3, 4, 5, 6}
    BY <1>1
  <1>4. 2^k \in 1..64
    <2>1. /\ 2^0 = 1 /\ 2^1 = 2 /\ 2^2 = 4 /\ 2^3 = 8
          /\ 2^4 = 16 /\ 2^5 = 32 /\ 2^6 = 64
      OBVIOUS
    <2>2. 2^k \in {1, 2, 4, 8, 16, 32, 64}
      BY <1>3, <2>1, Zenon
    <2> QED BY <2>2
  <1>5. Hook!Hour = 3600
    BY DEF Hook!Hour
  <1> QED BY <1>2, <1>4, <1>5 DEF Hook!MinOf

\* What a delivery has counted and been answered is behind what the receiver was sent.
Counted(x) ==
    /\ x.pc = "posting" => x.attempts <= posts[x.type] + 1
    /\ x.pc = "answered" => x.attempts <= posts[x.type]
    /\ x.pc # "answered" => x.answer = "none"
    /\ x.answer = "2xx" => accepted[x.type] > 0

\* An outcome whose deliveries never overlapped has one of them at most, and what that one
\* was not answered nobody was.
Under(d, o) == delivery[d].pc # "idle" /\ delivery[d].type = o
OnceInv ==
    \A o \in Hook!Outcomes \ repeated :
        /\ \A d, e \in Deliveries : Under(d, o) /\ Under(e, o) => d = e
        /\ \A d \in Deliveries : Under(d, o) /\ delivery[d].answer # "2xx" => accepted[o] = 0
        /\ accepted[o] <= 1
        /\ accepted[o] = 1 => \/ event[o].status = "delivered"
                              \/ \E d \in Deliveries : /\ delivery[d].type = o
                                                       /\ delivery[d].answer = "2xx"

\* Whoever wrote the outcome still has to see to its event, or has seen to it, or has given
\* it up.
AnnounceInv ==
    evaluation \in Hook!Outcomes =>
        \/ event[evaluation].status # "none"
        \/ evaluation \in silent
        \/ \E w \in Workers : \/ tail[w].pc = "create"
                              \/ tail[w].pc = "insert" /\ tail[w].type = evaluation

\* DeliveredMeansAccepted needs what each delivery has been answered.
HookInv == /\ HookTypes
           /\ \A d \in Deliveries : Counted(delivery[d])
           /\ Hook!DeliveredMeansAccepted
           /\ OnceInv
           /\ AnnounceInv

\* At first nothing is announced.
LEMMA HookInit == Hook!Init => HookInv
  <1> SUFFICES ASSUME Hook!Init PROVE HookInv
    OBVIOUS
  <1>1. HookTypes
    <2>1. event \in [Hook!Outcomes -> EventType]
      <3>1. 0 \in 0..Hook!Hour
        BY DEF Hook!Hour
      <3> QED BY <3>1 DEF Hook!Init, Hook!NoEvent, EventType
    <2>2. delivery \in [Deliveries -> Hook!DeliveryState]
      BY DEF Hook!Init, Hook!IdleDelivery, Hook!DeliveryState, Hook!Outcomes
    <2>3. tail \in [Workers -> Hook!TailState]
      BY DEF Hook!Init, Hook!IdleTail, Hook!TailState, Hook!Outcomes
    <2> QED BY <2>1, <2>2, <2>3 DEF Hook!Init, HookTypes
  <1>2. \A d \in Deliveries : Counted(delivery[d])
    BY DEF Hook!Init, Hook!IdleDelivery, Counted
  <1>3. Hook!DeliveredMeansAccepted
    BY DEF Hook!Init, Hook!DeliveredMeansAccepted, Hook!NoEvent
  <1>4. OnceInv
    BY DEF Hook!Init, Hook!IdleDelivery, OnceInv, Under
  <1>5. AnnounceInv
    BY DEF Hook!Init, AnnounceInv, Hook!Outcomes
  <1> QED BY <1>1, <1>2, <1>3, <1>4, <1>5 DEF HookInv

\* The end of an execution: what it leaves to the deliveries is one more message.
LEMMA TailKeepsHook ==
    ASSUME HookInv, NEW w \in Workers,
           \/ \E path \in {"final", "except"}, o \in Hook!Outcomes : Hook!Finish(w, path, o)
           \/ Hook!CreateEvent(w) \/ Hook!EventFails(w) \/ Hook!EventEscapes(w)
           \/ Hook!EnqueueDelivery(w) \/ Hook!EnqueueFails(w) \/ Hook!PushToDlq(w)
           \/ Hook!TailLost(w)
    PROVE  HookInv'
  <1>1. UNCHANGED <<event, delivery, posts, accepted, repeated>> /\ silent \subseteq silent'
    BY DEF Hook!Finish, Hook!CreateEvent, Hook!EventFails, Hook!EventEscapes,
           Hook!EnqueueDelivery, Hook!EnqueueFails, Hook!PushToDlq, Hook!TailLost,
           Hook!Receiver
  <1>2. /\ tail[w] \in Hook!TailState /\ tail \in [Workers -> Hook!TailState]
        /\ evaluation \in {"answering"} \cup Hook!Outcomes
        /\ AnnounceInv
    BY DEF HookInv, HookTypes
  <1> DEFINE Goal == /\ tail' \in [Workers -> Hook!TailState]
                     /\ evaluation' \in {"answering"} \cup Hook!Outcomes
                     /\ AnnounceInv'
  <1>3. SUFFICES Goal
    <2>1. HookTypes'
      BY <1>1, <1>3 DEF HookInv, HookTypes
    <2>2. (\A d \in Deliveries : Counted(delivery[d]))' /\ Hook!DeliveredMeansAccepted'
      BY <1>1 DEF HookInv, Counted, Hook!DeliveredMeansAccepted
    <2>3. OnceInv'
      BY <1>1 DEF HookInv, OnceInv, Under
    <2> QED BY <1>3, <2>1, <2>2, <2>3 DEF HookInv
  <1>4. ASSUME NEW x \in Hook!TailState, tail' = [tail EXCEPT ![w] = x],
               evaluation' \in {"answering"} \cup Hook!Outcomes,
               \/ x.pc = "create"
               \/ evaluation' \notin Hook!Outcomes
               \/ event[evaluation'].status # "none"
               \/ x.pc = "insert" /\ x.type = evaluation'
               \/ evaluation' = evaluation /\ tail[w].pc \notin {"create", "insert"}
               \/ evaluation' = evaluation /\ Hook!Owed(w) \subseteq silent'
        PROVE  Goal
    <2>1. /\ tail' \in [Workers -> Hook!TailState]
          /\ \A v \in Workers : tail'[v] = IF v = w THEN x ELSE tail[v]
      BY <1>2, <1>4
    <2>2. AnnounceInv'
      <3> DEFINE Sees == \E v \in Workers :
                            \/ tail'[v].pc = "create"
                            \/ tail'[v].pc = "insert" /\ tail'[v].type = evaluation'
                 Bound == \/ x.pc = "create"
                          \/ x.pc = "insert" /\ x.type = evaluation'
                 Leaves == \/ tail[w].pc \notin {"create", "insert"}
                           \/ Hook!Owed(w) \subseteq silent'
      <3> SUFFICES ASSUME evaluation' \in Hook!Outcomes, event'[evaluation'].status = "none",
                          evaluation' \notin silent'
                   PROVE  Sees
        BY DEF AnnounceInv
      <3>1. event[evaluation'].status = "none"
        BY <1>1
      <3>2. Bound \/ (evaluation' = evaluation /\ Leaves)
        BY <1>4, <3>1
      <3>3. ASSUME Bound PROVE Sees
        BY <2>1, <3>3
      <3>4. ASSUME evaluation' = evaluation /\ Leaves PROVE Sees
        <4>1. PICK v \in Workers : \/ tail[v].pc = "create"
                                   \/ tail[v].pc = "insert" /\ tail[v].type = evaluation
          BY <1>1, <1>2, <3>4 DEF AnnounceInv
        <4>2. CASE v # w
          BY <2>1, <3>4, <4>1, <4>2
        <4>3. CASE v = w
          <5>1. evaluation \in Hook!Owed(w)
            BY <3>4, <4>1, <4>3 DEF Hook!Owed
          <5>2. FALSE
            BY <3>4, <4>1, <4>3, <5>1
          <5> QED BY <5>2
        <4> QED BY <4>2, <4>3
      <3> HIDE DEF Sees, Bound, Leaves
      <3> QED BY <3>2, <3>3, <3>4
    <2> QED BY <1>4, <2>1, <2>2
  <1>5. ASSUME NEW path \in {"final", "except"}, NEW o \in Hook!Outcomes,
               tail' = [tail EXCEPT ![w] = [pc |-> "create", path |-> path, type |-> o]],
               evaluation' = o
        PROVE  Goal
    <2> DEFINE x == [pc |-> "create", path |-> path, type |-> o]
    <2>1. x \in Hook!TailState /\ x.pc = "create"
      BY DEF Hook!TailState
    <2> HIDE DEF x, Goal
    <2> QED BY <1>4, <1>5, <2>1 DEF x
  <1> DEFINE Free == \/ evaluation \notin Hook!Outcomes
                     \/ tail[w].pc \notin {"create", "insert"}
                     \/ Hook!Owed(w) \subseteq silent'
  <1>6. ASSUME Hook!To(w, "dlq"), evaluation' = evaluation, Free
        PROVE  Goal
    <2> DEFINE x == [tail[w] EXCEPT !.pc = "dlq"]
    <2>1. x \in Hook!TailState /\ tail' = [tail EXCEPT ![w] = x]
      BY <1>2, <1>6 DEF Hook!TailState, Hook!To
    <2> HIDE DEF x, Goal
    <2> QED BY <1>2, <1>4, <1>6, <2>1
  <1>7. ASSUME NEW at_ \in {"end", "escaped", "lost"}, Hook!Rests(w, at_),
               evaluation' = evaluation, Free
        PROVE  Goal
    <2> DEFINE x == [Hook!IdleTail EXCEPT !.pc = at_]
    <2>1. x \in Hook!TailState /\ tail' = [tail EXCEPT ![w] = x]
      BY <1>7 DEF Hook!TailState, Hook!Rests, Hook!IdleTail, Hook!Outcomes
    <2> HIDE DEF x, Goal
    <2> QED BY <1>2, <1>4, <1>7, <2>1
  <1> HIDE DEF Goal
  <1>8. ASSUME Hook!AfterEvent(w), evaluation' = evaluation, Free PROVE Goal
    BY <1>6, <1>7, <1>8 DEF Hook!AfterEvent
  <1>9. CASE \E path \in {"final", "except"}, o \in Hook!Outcomes : Hook!Finish(w, path, o)
    BY <1>5, <1>9 DEF Hook!Finish
  <1>10. CASE Hook!CreateEvent(w)
    <2>1. CASE evaluation \notin Hook!Outcomes
      BY <1>8, <1>10, <2>1 DEF Hook!CreateEvent
    <2>2. CASE evaluation \in Hook!Outcomes
      <3> DEFINE next_ == IF event[evaluation].status = "none" THEN "insert" ELSE "enqueue"
                 x == [tail[w] EXCEPT !.type = evaluation, !.pc = next_]
      <3>1. tail' = [tail EXCEPT ![w] = x] /\ evaluation' = evaluation
        BY <1>10, <2>2 DEF Hook!CreateEvent
      <3>2. /\ next_ \in {"insert", "enqueue"}
            /\ next_ = "insert" \/ event[evaluation].status # "none"
        OBVIOUS
      <3> HIDE DEF next_
      <3>3. x \in Hook!TailState /\ x.pc = next_ /\ x.type = evaluation
        BY <1>2, <2>2, <3>2 DEF Hook!TailState
      <3> HIDE DEF x
      <3> QED BY <1>2, <1>4, <3>1, <3>2, <3>3
    <2> QED BY <2>1, <2>2
  <1>11. CASE Hook!EventFails(w)
    <2>1. CASE /\ evaluation' = "failed"
               /\ tail' = [tail EXCEPT ![w] = [pc |-> "create", path |-> "except",
                                               type |-> "failed"]]
      BY <1>5, <2>1 DEF Hook!Outcomes
    <2>2. CASE evaluation \notin Hook!Outcomes /\ Hook!To(w, "dlq") /\ UNCHANGED evaluation
      BY <1>6, <2>2
    <2> QED BY <1>11, <2>1, <2>2 DEF Hook!EventFails
  <1>12. CASE Hook!EventEscapes(w)
    BY <1>7, <1>12 DEF Hook!EventEscapes
  <1>13. CASE Hook!TailLost(w)
    BY <1>7, <1>13 DEF Hook!TailLost
  <1>14. CASE Hook!EnqueueDelivery(w) \/ Hook!EnqueueFails(w)
    BY <1>8, <1>14 DEF Hook!EnqueueDelivery, Hook!EnqueueFails
  <1>15. CASE Hook!PushToDlq(w)
    BY <1>7, <1>15 DEF Hook!PushToDlq
  <1> QED BY <1>9, <1>10, <1>11, <1>12, <1>13, <1>14, <1>15

\* An event is inserted, one for each outcome.
LEMMA InsertKeepsHook ==
    ASSUME HookInv, NEW w \in Workers, Hook!InsertEvent(w)
    PROVE  HookInv'
  <1> DEFINE t == tail[w].type
             x == [event[t] EXCEPT !.status = "pending"]
             y == [tail[w] EXCEPT !.pc = "enqueue"]
  <1>1. /\ tail[w] \in Hook!TailState /\ tail \in [Workers -> Hook!TailState]
        /\ event \in [Hook!Outcomes -> EventType] /\ t \in Hook!Outcomes
    BY DEF HookInv, HookTypes, Hook!TailState
  <1>2. /\ event' = [event EXCEPT ![t] = x] /\ tail' = [tail EXCEPT ![w] = y]
        /\ event[t].status = "none"
        /\ UNCHANGED <<evaluation, delivery, posts, accepted, repeated, silent>>
    BY DEF Hook!InsertEvent, Hook!To, Hook!Receiver
  <1>3. x \in EventType /\ x.status = "pending" /\ x.attempts = event[t].attempts
    <2>1. ASSUME NEW e \in EventType
          PROVE  LET f == [e EXCEPT !.status = "pending"]
                 IN  f \in EventType /\ f.status = "pending" /\ f.attempts = e.attempts
      BY DEF EventType
    <2>2. event[t] \in EventType
      BY <1>1
    <2> QED BY <2>1, <2>2, Zenon
  <1>4. y \in Hook!TailState
    BY <1>1 DEF Hook!TailState
  <1> HIDE DEF t, x, y
  <1>5. /\ event' \in [Hook!Outcomes -> EventType] /\ tail' \in [Workers -> Hook!TailState]
        /\ \A o \in Hook!Outcomes : event'[o] = IF o = t THEN x ELSE event[o]
        /\ \A v \in Workers \ {w} : tail'[v] = tail[v]
    BY <1>1, <1>2, <1>3, <1>4
  <1>6. HookTypes'
    BY <1>2, <1>5 DEF HookInv, HookTypes
  <1>7. (\A d \in Deliveries : Counted(delivery[d]))' /\ Hook!DeliveredMeansAccepted'
    BY <1>2, <1>3, <1>5 DEF HookInv, Counted, Hook!DeliveredMeansAccepted
  <1>8. OnceInv'
    BY <1>2, <1>3, <1>5 DEF HookInv, OnceInv, Under
  <1>9. AnnounceInv'
    <2> SUFFICES ASSUME evaluation \in Hook!Outcomes, event[evaluation].status = "none",
                        evaluation # t, evaluation \notin silent
                 PROVE  \E v \in Workers : \/ tail'[v].pc = "create"
                                           \/ tail'[v].pc = "insert" /\ tail'[v].type = evaluation
      BY <1>2, <1>3, <1>5 DEF AnnounceInv
    <2>1. PICK v \in Workers : \/ tail[v].pc = "create"
                               \/ tail[v].pc = "insert" /\ tail[v].type = evaluation
      BY DEF HookInv, AnnounceInv
    <2>2. v # w
      BY <2>1 DEF Hook!InsertEvent, t
    <2> QED BY <1>5, <2>1, <2>2
  <1> QED BY <1>6, <1>7, <1>8, <1>9 DEF HookInv

\* The evaluation is run again and may end otherwise, or the watchdog ends it silently.
LEMMA RunAgainKeepsHook ==
    ASSUME HookInv, Hook!RunAgain \/ Hook!WatchdogFails \/ UNCHANGED webhookVars
    PROVE  HookInv'
  <1>1. /\ UNCHANGED <<event, tail, delivery, posts, accepted, repeated>>
        /\ silent \subseteq silent' /\ evaluation' \in {evaluation, "answering", "failed"}
        /\ evaluation' \in {evaluation, "answering"} \cup silent'
    BY DEF Hook!RunAgain, Hook!WatchdogFails, webhookVars, Hook!Receiver
  <1>2. HookTypes'
    BY <1>1 DEF HookInv, HookTypes, Hook!Outcomes
  <1>3. (\A d \in Deliveries : Counted(delivery[d]))' /\ Hook!DeliveredMeansAccepted'
    BY <1>1 DEF HookInv, Counted, Hook!DeliveredMeansAccepted
  <1>4. OnceInv'
    BY <1>1 DEF HookInv, OnceInv, Under
  <1>5. AnnounceInv'
    BY <1>1 DEF HookInv, AnnounceInv, Hook!Outcomes
  <1> QED BY <1>2, <1>3, <1>4, <1>5 DEF HookInv

\* A delivery moves: what it is at, and what the others are.
LEMMA DeliveryMoves ==
    ASSUME HookInv, NEW d \in Deliveries, NEW x \in Hook!DeliveryState,
           delivery' = [delivery EXCEPT ![d] = x]
    PROVE  /\ delivery' \in [Deliveries -> Hook!DeliveryState]
           /\ \A e \in Deliveries : delivery'[e] = IF e = d THEN x ELSE delivery[e]
  BY DEF HookInv, HookTypes

\* A delivery reads its event.
LEMMA StartKeepsHook ==
    ASSUME HookInv, NEW d \in Deliveries, NEW o \in Hook!Outcomes, Hook!StartDelivery(d, o)
    PROVE  HookInv'
  <1> DEFINE x == [pc |-> "posting", type |-> o, attempts |-> event[o].attempts + 1,
                   answer |-> "none"]
  <1>1. /\ event[o] \in EventType /\ event[o].attempts \in Nat
        /\ event \in [Hook!Outcomes -> EventType] /\ delivery \in [Deliveries -> Hook!DeliveryState]
        /\ posts[o] \in Nat /\ accepted[o] \in Nat
        /\ accepted \in [Hook!Outcomes -> Nat]
    BY DEF HookInv, HookTypes, EventType
  <1>2. /\ UNCHANGED <<evaluation, event, tail, posts, accepted, silent>> /\ delivery[d].pc = "idle"
        /\ IF event[o].status = "delivered" THEN delivery' = delivery
           ELSE delivery' = [delivery EXCEPT ![d] = x]
        /\ repeated' = IF \E e \in Deliveries : Under(e, o)
                       THEN repeated \cup {o} ELSE repeated
    BY DEF Hook!StartDelivery, Hook!Repeats, Under
  <1>3. AnnounceInv'
    BY <1>2 DEF HookInv, AnnounceInv
  <1>4. Hook!DeliveredMeansAccepted'
    BY <1>2 DEF HookInv, Hook!DeliveredMeansAccepted
  <1>5. CASE event[o].status = "delivered"
    <2>1. HookTypes' /\ (\A e \in Deliveries : Counted(delivery[e]))'
      BY <1>2, <1>5 DEF HookInv, HookTypes, Counted
    <2>2. OnceInv'
      BY <1>2, <1>5 DEF HookInv, OnceInv, Under
    <2> QED BY <1>3, <1>4, <2>1, <2>2 DEF HookInv
  <1>6. CASE event[o].status # "delivered"
    <2>1. event[o].attempts + 1 \in Nat /\ event[o].attempts + 1 <= posts[o] + 1
      BY <1>1 DEF HookInv, Hook!DeliveredMeansAccepted
    <2>2. x \in Hook!DeliveryState
      BY <2>1 DEF Hook!DeliveryState
    <2>3. /\ x.pc = "posting" /\ x.type = o /\ x.answer = "none"
          /\ x.attempts <= posts[x.type] + 1
      BY <2>1
    <2>4. delivery' = [delivery EXCEPT ![d] = x]
      BY <1>2, <1>6
    <2> HIDE DEF x
    <2>5. /\ delivery' \in [Deliveries -> Hook!DeliveryState]
          /\ \A e \in Deliveries : delivery'[e] = IF e = d THEN x ELSE delivery[e]
      BY <2>2, <2>4, DeliveryMoves
    <2>6. HookTypes'
      BY <1>2, <2>5 DEF HookInv, HookTypes
    <2>7. (\A e \in Deliveries : Counted(delivery[e]))'
      BY <1>2, <2>3, <2>5 DEF HookInv, Counted
    <2>8. OnceInv'
      <3> SUFFICES ASSUME NEW p \in Hook!Outcomes, p \notin repeated'
                   PROVE  /\ \A e, f \in Deliveries : Under(e, p)' /\ Under(f, p)' => e = f
                          /\ \A e \in Deliveries : Under(e, p)' /\ delivery'[e].answer # "2xx"
                                => accepted'[p] = 0
                          /\ accepted'[p] <= 1
                          /\ accepted'[p] = 1 =>
                                \/ event'[p].status = "delivered"
                                \/ \E e \in Deliveries : /\ delivery'[e].type = p
                                                         /\ delivery'[e].answer = "2xx"
        BY DEF OnceInv
      <3>1. p \notin repeated /\ accepted'[p] = accepted[p] /\ event'[p] = event[p]
        BY <1>2
      <3>2. /\ \A e, f \in Deliveries : Under(e, p) /\ Under(f, p) => e = f
            /\ \A e \in Deliveries : Under(e, p) /\ delivery[e].answer # "2xx" => accepted[p] = 0
            /\ accepted[p] <= 1 /\ accepted[p] \in Nat
            /\ accepted[p] = 1 => \/ event[p].status = "delivered"
                                  \/ \E e \in Deliveries : /\ delivery[e].type = p
                                                           /\ delivery[e].answer = "2xx"
        BY <1>1, <3>1 DEF HookInv, OnceInv
      <3>3. \A e \in Deliveries : delivery[e].answer = "2xx" => delivery[e].pc # "idle"
        BY DEF HookInv, Counted
      <3>4. CASE p # o
        <4>1. \A e \in Deliveries : Under(e, p)' <=> Under(e, p)
          BY <1>2, <2>3, <2>5, <3>4 DEF Under
        <4>2. \A e \in Deliveries : Under(e, p) => delivery'[e] = delivery[e]
          BY <1>2, <2>5 DEF Under
        <4>3. \A e \in Deliveries : delivery[e].type = p /\ delivery[e].answer = "2xx"
                  => delivery'[e] = delivery[e]
          BY <1>2, <2>5, <3>3
        <4> QED BY <3>1, <3>2, <4>1, <4>2, <4>3
      <3>5. CASE p = o
        <4>1. \A e \in Deliveries : ~Under(e, o)
          BY <1>2, <3>5
        <4>2. accepted[o] = 0
          BY <1>6, <3>2, <3>3, <3>5, <4>1 DEF Under
        <4>3. \A e \in Deliveries : Under(e, o)' => e = d
          BY <2>5, <4>1 DEF Under
        <4> QED BY <3>1, <3>5, <4>2, <4>3
      <3> QED BY <3>4, <3>5
    <2> QED BY <1>3, <1>4, <2>6, <2>7, <2>8 DEF HookInv
  <1> QED BY <1>5, <1>6

\* The receiver is asked.
LEMMA PostKeepsHook ==
    ASSUME HookInv, NEW d \in Deliveries, NEW answer \in {"2xx", "error"},
           Hook!PostEvent(d, answer)
    PROVE  HookInv'
  <1> DEFINE o == delivery[d].type
             x == [delivery[d] EXCEPT !.pc = "answered", !.answer = answer]
  <1>1. /\ delivery[d] \in Hook!DeliveryState /\ o \in Hook!Outcomes
        /\ delivery[d].attempts \in Nat
        /\ posts \in [Hook!Outcomes -> Nat] /\ accepted \in [Hook!Outcomes -> Nat]
        /\ event \in [Hook!Outcomes -> EventType]
        /\ \A p \in Hook!Outcomes : event[p].attempts \in Nat
    BY DEF HookInv, HookTypes, Hook!DeliveryState, EventType
  <1>2. /\ posts' = [posts EXCEPT ![o] = @ + 1] /\ delivery[d].pc = "posting"
        /\ accepted' = [accepted EXCEPT ![o] = IF answer = "2xx" THEN @ + 1 ELSE @]
        /\ delivery' = [delivery EXCEPT ![d] = x]
        /\ UNCHANGED <<repeated, evaluation, event, tail, silent>>
    BY DEF Hook!PostEvent
  <1>3. /\ x \in Hook!DeliveryState /\ x.pc = "answered" /\ x.answer = answer /\ x.type = o
        /\ x.attempts = delivery[d].attempts
    BY <1>1 DEF Hook!DeliveryState
  <1> HIDE DEF x
  <1>4. /\ delivery' \in [Deliveries -> Hook!DeliveryState]
        /\ \A e \in Deliveries : delivery'[e] = IF e = d THEN x ELSE delivery[e]
    BY <1>2, <1>3, DeliveryMoves
  <1> DEFINE more == IF answer = "2xx" THEN 1 ELSE 0
  <1>5. delivery[d].attempts <= posts[o] + 1 /\ delivery[d].answer = "none"
    BY <1>2 DEF HookInv, Counted
  <1> HIDE DEF o
  <1>6. /\ posts' \in [Hook!Outcomes -> Nat] /\ accepted' \in [Hook!Outcomes -> Nat]
        /\ \A p \in Hook!Outcomes :
              /\ posts'[p] = IF p = o THEN posts[p] + 1 ELSE posts[p]
              /\ accepted'[p] = IF p = o THEN accepted[p] + more ELSE accepted[p]
    BY <1>1, <1>2
  <1>7. more \in 0..1 /\ (answer = "2xx" <=> more = 1)
    OBVIOUS
  <1> HIDE DEF more
  <1>8. HookTypes'
    BY <1>2, <1>4, <1>6 DEF HookInv, HookTypes
  <1>9. (\A e \in Deliveries : Counted(delivery[e]))'
    <2> SUFFICES ASSUME NEW e \in Deliveries PROVE Counted(delivery[e])'
      OBVIOUS
    <2>1. CASE e = d
      BY <1>1, <1>3, <1>4, <1>5, <1>6, <1>7, <2>1 DEF Counted
    <2>2. CASE e # d
      <3>1. /\ delivery'[e] = delivery[e] /\ Counted(delivery[e])
            /\ delivery[e].type \in Hook!Outcomes /\ delivery[e].attempts \in Nat
        BY <1>4, <2>2 DEF HookInv, HookTypes, Hook!DeliveryState
      <3> QED BY <1>1, <1>6, <1>7, <3>1 DEF Counted
    <2> QED BY <2>1, <2>2
  <1>10. Hook!DeliveredMeansAccepted'
    BY <1>1, <1>2, <1>6, <1>7 DEF HookInv, Hook!DeliveredMeansAccepted
  <1>11. OnceInv'
    <2> SUFFICES ASSUME NEW p \in Hook!Outcomes, p \notin repeated
                 PROVE  /\ \A e, f \in Deliveries : Under(e, p)' /\ Under(f, p)' => e = f
                        /\ \A e \in Deliveries : Under(e, p)' /\ delivery'[e].answer # "2xx"
                              => accepted'[p] = 0
                        /\ accepted'[p] <= 1
                        /\ accepted'[p] = 1 =>
                              \/ event'[p].status = "delivered"
                              \/ \E e \in Deliveries : /\ delivery'[e].type = p
                                                       /\ delivery'[e].answer = "2xx"
      BY <1>2 DEF OnceInv
    <2>1. /\ \A e, f \in Deliveries : Under(e, p) /\ Under(f, p) => e = f
          /\ \A e \in Deliveries : Under(e, p) /\ delivery[e].answer # "2xx" => accepted[p] = 0
          /\ accepted[p] <= 1 /\ accepted[p] \in Nat
          /\ accepted[p] = 1 => \/ event[p].status = "delivered"
                                \/ \E e \in Deliveries : /\ delivery[e].type = p
                                                         /\ delivery[e].answer = "2xx"
      BY <1>1 DEF HookInv, OnceInv
    <2>2. \A e \in Deliveries : Under(e, p)' <=> Under(e, p)
      BY <1>2, <1>3, <1>4 DEF Under, o
    <2>3. CASE p # o
      <3>1. accepted'[p] = accepted[p] /\ event'[p] = event[p]
        BY <1>2, <1>6, <2>3
      <3>2. \A e \in Deliveries : delivery[e].type = p => delivery'[e] = delivery[e]
        BY <1>4, <2>3 DEF o
      <3>3. \A e \in Deliveries : Under(e, p) => delivery'[e] = delivery[e]
        BY <3>2 DEF Under
      <3> QED BY <2>1, <2>2, <3>1, <3>2, <3>3
    <2>4. CASE p = o
      <3>1. Under(d, o) /\ accepted[o] = 0
        BY <1>2, <1>5, <2>1, <2>4 DEF Under, o
      <3>2. accepted'[o] = more
        BY <1>7, <2>4, <1>6, <3>1
      <3>3. \A e \in Deliveries : Under(e, o) => e = d
        BY <2>1, <2>4, <3>1
      <3>4. delivery'[d] = x
        BY <1>4
      <3> QED BY <1>3, <1>7, <2>1, <2>2, <2>4, <3>2, <3>3, <3>4
    <2> QED BY <2>3, <2>4
  <1>12. AnnounceInv'
    BY <1>2 DEF HookInv, AnnounceInv
  <1> QED BY <1>8, <1>9, <1>10, <1>11, <1>12 DEF HookInv

\* The outcome of a delivery is written over the row.
LEMMA CommitKeepsHook ==
    ASSUME HookInv, NEW d \in Deliveries, Hook!CommitDelivery(d)
    PROVE  HookInv'
  <1> DEFINE o == delivery[d].type
             x == Hook!IdleDelivery
             y == Hook!OutcomeOf(delivery[d].answer, delivery[d].attempts)
  <1>1. /\ delivery[d] \in Hook!DeliveryState /\ o \in Hook!Outcomes
        /\ delivery[d].attempts \in Nat
        /\ posts \in [Hook!Outcomes -> Nat] /\ accepted \in [Hook!Outcomes -> Nat]
        /\ event \in [Hook!Outcomes -> EventType]
    BY DEF HookInv, HookTypes, Hook!DeliveryState
  <1>2. /\ event' = [event EXCEPT ![o] = y] /\ delivery[d].pc = "answered"
        /\ delivery' = [delivery EXCEPT ![d] = x]
        /\ UNCHANGED <<repeated, evaluation, tail, posts, accepted, silent>>
    BY DEF Hook!CommitDelivery, Hook!Rested, Hook!Receiver
  <1>3. /\ x \in Hook!DeliveryState /\ x.pc = "idle" /\ x.answer = "none"
    BY DEF Hook!DeliveryState, Hook!IdleDelivery, Hook!Outcomes
  <1>4. /\ y \in EventType /\ y.attempts = delivery[d].attempts
        /\ y.status = IF delivery[d].answer = "2xx" THEN "delivered" ELSE "failed"
    <2> DEFINE tries == delivery[d].attempts
               pause == Hook!Delay(tries)
    <2>1. tries \in Nat /\ pause \in 0..Hook!Hour
      BY <1>1, DelayWithinHour
    <2>2. y = IF delivery[d].answer = "2xx"
              THEN [status |-> "delivered", attempts |-> tries, delay |-> 0]
              ELSE [status |-> "failed", attempts |-> tries, delay |-> pause]
      BY DEF Hook!OutcomeOf
    <2>4. 0 \in 0..Hook!Hour
      BY DEF Hook!Hour
    <2> HIDE DEF tries, pause, y
    <2>3. y \in EventType
      BY <2>1, <2>2, <2>4 DEF EventType
    <2> QED BY <2>2, <2>3 DEF tries
  <1>5. delivery[d].attempts <= posts[o] /\ (delivery[d].answer = "2xx" => accepted[o] > 0)
    BY <1>2 DEF HookInv, Counted
  <1> HIDE DEF x, y
  <1>6. /\ delivery' \in [Deliveries -> Hook!DeliveryState]
        /\ \A e \in Deliveries : delivery'[e] = IF e = d THEN x ELSE delivery[e]
    BY <1>2, <1>3, DeliveryMoves
  <1>7. /\ event' \in [Hook!Outcomes -> EventType]
        /\ \A p \in Hook!Outcomes : event'[p] = IF p = o THEN y ELSE event[p]
    BY <1>1, <1>2, <1>4
  <1>8. HookTypes'
    BY <1>2, <1>6, <1>7 DEF HookInv, HookTypes
  <1>9. (\A e \in Deliveries : Counted(delivery[e]))'
    BY <1>2, <1>3, <1>6 DEF HookInv, Counted
  <1>10. Hook!DeliveredMeansAccepted'
    BY <1>2, <1>4, <1>5, <1>7 DEF HookInv, Hook!DeliveredMeansAccepted
  <1>11. OnceInv'
    <2> SUFFICES ASSUME NEW p \in Hook!Outcomes, p \notin repeated
                 PROVE  /\ \A e, f \in Deliveries : Under(e, p)' /\ Under(f, p)' => e = f
                        /\ \A e \in Deliveries : Under(e, p)' /\ delivery'[e].answer # "2xx"
                              => accepted[p] = 0
                        /\ accepted[p] <= 1
                        /\ accepted[p] = 1 =>
                              \/ event'[p].status = "delivered"
                              \/ \E e \in Deliveries : /\ delivery'[e].type = p
                                                       /\ delivery'[e].answer = "2xx"
      BY <1>2 DEF OnceInv
    <2>1. /\ \A e, f \in Deliveries : Under(e, p) /\ Under(f, p) => e = f
          /\ \A e \in Deliveries : Under(e, p) /\ delivery[e].answer # "2xx" => accepted[p] = 0
          /\ accepted[p] <= 1 /\ accepted[p] \in Nat
          /\ accepted[p] = 1 => \/ event[p].status = "delivered"
                                \/ \E e \in Deliveries : /\ delivery[e].type = p
                                                         /\ delivery[e].answer = "2xx"
      BY <1>1 DEF HookInv, OnceInv
    <2>2. \A e \in Deliveries : Under(e, p)' => Under(e, p) /\ delivery'[e] = delivery[e]
      BY <1>3, <1>6 DEF Under
    <2>3. CASE p # o
      <3>1. event'[p] = event[p]
        BY <1>7, <2>3
      <3>2. \A e \in Deliveries : delivery[e].type = p => delivery'[e] = delivery[e]
        BY <1>6, <2>3
      <3> QED BY <2>1, <2>2, <3>1, <3>2
    <2>4. CASE p = o
      <3>1. Under(d, p)
        BY <1>2, <2>4 DEF Under
      <3>2. accepted[p] = 1 => event'[p].status = "delivered"
        BY <1>4, <1>7, <2>1, <2>4, <3>1
      <3> QED BY <2>1, <2>2, <3>2
    <2> QED BY <2>3, <2>4
  <1>12. AnnounceInv'
    BY <1>2, <1>4, <1>7 DEF HookInv, AnnounceInv
  <1> QED BY <1>8, <1>9, <1>10, <1>11, <1>12 DEF HookInv

\* A delivery ends before it writes what it was answered.
LEMMA LossKeepsHook ==
    ASSUME HookInv, NEW d \in Deliveries, Hook!DeliveryLost(d) \/ Hook!DeliveryFails(d)
    PROVE  HookInv'
  <1> DEFINE o == delivery[d].type
             x == Hook!IdleDelivery
  <1>1. delivery[d] \in Hook!DeliveryState /\ accepted \in [Hook!Outcomes -> Nat]
    BY DEF HookInv, HookTypes
  <1>2. /\ delivery' = [delivery EXCEPT ![d] = x] /\ delivery[d].pc # "idle"
        /\ repeated' = IF delivery[d].answer = "2xx" THEN repeated \cup {o} ELSE repeated
        /\ UNCHANGED <<evaluation, event, tail, posts, accepted, silent>>
    BY DEF Hook!DeliveryLost, Hook!DeliveryFails, Hook!EndsUnwritten, Hook!Rested
  <1>3. x \in Hook!DeliveryState /\ x.pc = "idle" /\ x.answer = "none"
    BY DEF Hook!DeliveryState, Hook!IdleDelivery, Hook!Outcomes
  <1> HIDE DEF x
  <1>4. /\ delivery' \in [Deliveries -> Hook!DeliveryState]
        /\ \A e \in Deliveries : delivery'[e] = IF e = d THEN x ELSE delivery[e]
    BY <1>2, <1>3, DeliveryMoves
  <1>5. HookTypes'
    BY <1>2, <1>4 DEF HookInv, HookTypes
  <1>6. (\A e \in Deliveries : Counted(delivery[e]))' /\ Hook!DeliveredMeansAccepted'
    BY <1>2, <1>3, <1>4 DEF HookInv, Counted, Hook!DeliveredMeansAccepted
  <1>7. OnceInv'
    <2> SUFFICES ASSUME NEW p \in Hook!Outcomes, p \notin repeated'
                 PROVE  /\ \A e, f \in Deliveries : Under(e, p)' /\ Under(f, p)' => e = f
                        /\ \A e \in Deliveries : Under(e, p)' /\ delivery'[e].answer # "2xx"
                              => accepted[p] = 0
                        /\ accepted[p] <= 1
                        /\ accepted[p] = 1 =>
                              \/ event[p].status = "delivered"
                              \/ \E e \in Deliveries : /\ delivery'[e].type = p
                                                       /\ delivery'[e].answer = "2xx"
      BY <1>2 DEF OnceInv
    <2>1. /\ \A e, f \in Deliveries : Under(e, p) /\ Under(f, p) => e = f
          /\ \A e \in Deliveries : Under(e, p) /\ delivery[e].answer # "2xx" => accepted[p] = 0
          /\ accepted[p] <= 1
          /\ accepted[p] = 1 => \/ event[p].status = "delivered"
                                \/ \E e \in Deliveries : /\ delivery[e].type = p
                                                         /\ delivery[e].answer = "2xx"
      BY <1>2 DEF HookInv, OnceInv
    <2>2. \A e \in Deliveries : Under(e, p)' => Under(e, p) /\ delivery'[e] = delivery[e]
      BY <1>3, <1>4 DEF Under
    <2>3. CASE p # o
      <3>1. \A e \in Deliveries : delivery[e].type = p => delivery'[e] = delivery[e]
        BY <1>4, <2>3
      <3> QED BY <2>1, <2>2, <3>1
    <2>4. CASE p = o
      <3>1. Under(d, p) /\ delivery[d].answer # "2xx"
        BY <1>2, <2>4 DEF Under
      <3>2. accepted[p] = 0
        BY <2>1, <3>1
      <3> QED BY <2>1, <2>2, <3>2
    <2> QED BY <2>3, <2>4
  <1>8. AnnounceInv'
    BY <1>2 DEF HookInv, AnnounceInv
  <1> QED BY <1>5, <1>6, <1>7, <1>8 DEF HookInv

\* Every step keeps HookInv.
LEMMA HookKeeps ==
    ASSUME HookInv, Hook!Next \/ UNCHANGED webhookVars
    PROVE  HookInv'
  BY TailKeepsHook, InsertKeepsHook, RunAgainKeepsHook, StartKeepsHook, PostKeepsHook,
     CommitKeepsHook, LossKeepsHook DEF Hook!Next, Hook!WorkerStep, Hook!DeliveryStep

\* An event is delivered only when the receiver accepted it; when all is at rest the outcome
\* has its event, unless its execution was lost or its handler failed as well or the watchdog
\* wrote it; and the receiver accepts each once unless deliveries overlapped or an accepted one
\* ended unwritten (tasks/followup_webhook_tasks.py; services/followup_webhook_service.py).
THEOREM DeliveredAlwaysAccepted == Spec => []DeliveredMeansAccepted
  <1> DEFINE Inv == part = "webhook" => HookInv
  <1>1. Init => Inv
    BY HookInit DEF Init
  <1>2. Inv /\ [Next]_vars => Inv'
    BY HookKeeps, PartSteps
  <1>3. Inv => DeliveredMeansAccepted
    <2> SUFFICES ASSUME HookInv
                 PROVE  /\ Hook!DeliveredMeansAccepted /\ Hook!OutcomeAnnounced
                        /\ Hook!AcceptedOnce
      BY DEF DeliveredMeansAccepted
    <2>1. Hook!OutcomeAnnounced
      BY DEF HookInv, AnnounceInv, Hook!OutcomeAnnounced, Hook!AtRest
    <2>2. Hook!AcceptedOnce
      BY DEF HookInv, OnceInv, Hook!AcceptedOnce
    <2> QED BY <2>1, <2>2 DEF HookInv
  <1> QED BY <1>1, <1>2, <1>3, PTL DEF Spec

\* The counters within the requests the receiver may be sent, and the two sets.
HookRest ==
    /\ queue \in [Hook!Outcomes -> Nat]
    /\ \A o \in Hook!Outcomes : posts[o] <= MaxPosts /\ accepted[o] <= posts[o]
    /\ repeated \in SUBSET Hook!Outcomes /\ dead \in SUBSET Workers
    /\ silent \in SUBSET Hook!Outcomes

\* Every step keeps them: only a request that is sent counts, and it may be accepted.
LEMMA HookRestKept ==
    ASSUME HookInv, HookRest, Hook!Next \/ UNCHANGED webhookVars
    PROVE  HookRest'
  <1> USE DEF HookRest
  <1>1. /\ tail \in [Workers -> Hook!TailState] /\ delivery \in [Deliveries -> Hook!DeliveryState]
        /\ posts \in [Hook!Outcomes -> Nat] /\ accepted \in [Hook!Outcomes -> Nat]
        /\ \A w \in Workers : tail[w].type \in Hook!Outcomes
        /\ \A d \in Deliveries : delivery[d].type \in Hook!Outcomes
        /\ MaxPosts \in Nat
    BY ServicesAssumption
       DEF HookInv, HookTypes, Hook!TailState, Hook!DeliveryState, Hook!WebhookAssumption
  <1>2. CASE UNCHANGED <<queue, posts, accepted, repeated, dead, silent>>
    BY <1>2
  <1>3. ASSUME NEW w \in Workers, Hook!EnqueueDelivery(w) \/ Hook!PushToDlq(w)
        PROVE  HookRest'
    BY <1>1, <1>3 DEF Hook!EnqueueDelivery, Hook!PushToDlq, Hook!Receiver
  <1>4. ASSUME NEW d \in Deliveries, NEW o \in Hook!Outcomes, Hook!StartDelivery(d, o)
        PROVE  HookRest'
    BY <1>1, <1>4 DEF Hook!StartDelivery, Hook!Repeats
  <1>5. ASSUME NEW d \in Deliveries, NEW answer, Hook!PostEvent(d, answer) PROVE HookRest'
    BY <1>1, <1>5 DEF Hook!PostEvent
  <1>6. ASSUME NEW d \in Deliveries, Hook!DeliveryLost(d) \/ Hook!DeliveryFails(d)
        PROVE  HookRest'
    BY <1>1, <1>6 DEF Hook!DeliveryLost, Hook!DeliveryFails, Hook!EndsUnwritten
  <1>7. ASSUME NEW w \in Workers,
               \/ \E path \in {"final", "except"}, o \in Hook!Outcomes : Hook!Finish(w, path, o)
               \/ Hook!CreateEvent(w) \/ Hook!InsertEvent(w) \/ Hook!EventFails(w)
               \/ Hook!EnqueueFails(w)
        PROVE  HookRest'
    <2>1. UNCHANGED <<queue, posts, accepted, repeated, dead, silent>>
      BY <1>7 DEF Hook!Finish, Hook!CreateEvent, Hook!InsertEvent, Hook!EventFails,
                  Hook!EnqueueFails, Hook!Receiver
    <2> QED BY <1>2, <2>1
  <1>8. ASSUME NEW d \in Deliveries, Hook!CommitDelivery(d) PROVE HookRest'
    <2>1. UNCHANGED <<queue, posts, accepted, repeated, dead, silent>>
      BY <1>8 DEF Hook!CommitDelivery, Hook!Receiver
    <2> QED BY <1>2, <2>1
  <1>9. CASE Hook!RunAgain
    <2>1. UNCHANGED <<queue, posts, accepted, repeated, dead, silent>>
      BY <1>9 DEF Hook!RunAgain, Hook!Receiver
    <2> QED BY <1>2, <2>1
  <1>10. ASSUME NEW w \in Workers, Hook!EventEscapes(w) \/ Hook!TailLost(w)
         PROVE  HookRest'
    <2>1. Hook!Owed(w) \subseteq Hook!Outcomes
      BY <1>1 DEF Hook!Owed
    <2>2. /\ UNCHANGED <<queue, posts, accepted, repeated, dead>>
          /\ silent' = silent \cup Hook!Owed(w)
      BY <1>10 DEF Hook!EventEscapes, Hook!TailLost, Hook!Receiver
    <2> QED BY <2>1, <2>2
  <1>11. CASE Hook!WatchdogFails
    BY <1>11 DEF Hook!WatchdogFails, Hook!Receiver, Hook!Outcomes
  <1>12. CASE UNCHANGED webhookVars
    BY <1>2, <1>12 DEF webhookVars
  <1> QED BY <1>3, <1>4, <1>5, <1>6, <1>7, <1>8, <1>9, <1>10, <1>11, <1>12
          DEF Hook!Next, Hook!WorkerStep, Hook!DeliveryStep

\* The types of the webhook's variables.
LEMMA HookTyped == Spec => [](part = "webhook" => Hook!TypeOK)
  <1> DEFINE Inv == part = "webhook" => HookInv /\ HookRest
  <1>1. Init => Inv
    <2> SUFFICES ASSUME Hook!Init PROVE HookRest
      BY HookInit DEF Init
    <2> QED BY ServicesAssumption DEF Hook!Init, HookRest, Hook!WebhookAssumption
  <1>2. Inv /\ [Next]_vars => Inv'
    BY HookKeeps, HookRestKept, PartSteps
  <1>3. Inv => (part = "webhook" => Hook!TypeOK)
    BY ServicesAssumption
       DEF HookInv, HookTypes, HookRest, EventType, Hook!TypeOK, Hook!WebhookAssumption
  <1> QED BY <1>1, <1>2, <1>3, PTL DEF Spec
==============================================================================
