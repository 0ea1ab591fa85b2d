--------------------------- MODULE ServicesProofs ----------------------------
(***************************************************************************)
(* Proofs about the services, for every value of their constants.  A        *)
(* behaviour of Services is one of a single part and the others stand       *)
(* still, so every theorem has the same end: an inductive invariant of the  *)
(* part, where "part" says that it is the one under way.                    *)
(*                                                                          *)
(* Here are the ways in: replies, sessions, logins, the choice of a         *)
(* provider, calls and images.  ResultsProofs has what an evaluation needs  *)
(* and leads to, ReportMetricsProofs the figures of its report, FiguresProofs   *)
(* what is read, listed and computed besides.                               *)
(***************************************************************************)
EXTENDS Services, Folding, FiniteSetTheorems, SequenceTheorems, WellFoundedInduction, TLAPS

\* A set of numbers has a least one: what CHOOSE finds.
LEMMA LeastNumber ==
    ASSUME NEW S \in SUBSET Nat, S # {}
    PROVE  \E m \in S : \A n \in S : m <= n
  <1> DEFINE R == OpToRel(<, Nat)
  <1>1. IsWellFoundedOn(R, Nat)
    BY NatLessThanWellFounded
  <1>2. PICK m \in S : \A n \in S : <<n, m>> \notin R
    <2> HIDE DEF R
    <2> QED BY <1>1, WFMin
  <1>3. ASSUME NEW n \in S PROVE m <= n
    <2>1. <<n,m>> \notin R BY <1>2
    <2>2. ~(n < m) BY <2>1 DEF OpToRel
    <2> QED BY <2>2
  <1> QED BY <1>2, <1>3

\* Products of natural numbers: the prover knows no nonlinear arithmetic.
LEMMA Products ==
    ASSUME NEW a \in Nat, NEW b \in Nat, NEW c \in Nat
    PROVE  /\ a * c \in Nat /\ (a + 1) * c = a * c + c
           /\ a <= b => a * c <= b * c
  <1>1. a * c \in Nat /\ b * c \in Nat
    OBVIOUS
  <1>2. (a + 1) * c = a * c + c
    OBVIOUS
  <1>3. ASSUME a <= b PROVE a * c <= b * c
    <2>1. PICK d \in Nat : b = a + d
      <3>1. b - a \in Nat /\ b = a + (b - a)
        BY <1>3
      <3> QED BY <3>1
    <2>2. b * c = a * c + d * c /\ d * c \in Nat
      BY <2>1
    <2> QED BY <1>1, <2>2
  <1> QED BY <1>1, <1>2, <1>3

\* A behaviour is about one part from its first state to its last.
LEMMA PartStays == [Next]_vars => part' = part
  BY DEF Next, vars, ConversationStep, WebhookStep, ReportStep, WhitepaperStep,
     PreparationStep, SessionStep, ImageStep, ClientStep, ListStep, RecommendStep,
     MetricsStep, DimensionStep, JsonStep, VisionStep, SurveyStep, IntakeStep, LoginStep,
     ProviderStep, Others

\* The part under way takes its own steps; of the others nothing is needed.
LEMMA PartSteps ==
    ASSUME [Next]_vars
    PROVE  /\ part' = part
           /\ part = "conversation" => Chat!Next \/ UNCHANGED conversationVars
           /\ part = "webhook" => Hook!Next \/ UNCHANGED webhookVars
           /\ part = "report" => Report!Next \/ UNCHANGED reportVars
           /\ part = "whitepaper" => Paper!Next \/ UNCHANGED whitepaperVars
           /\ part = "preparation" => Prep!Next \/ UNCHANGED preparationVars
           /\ part = "session" => Session!Next \/ UNCHANGED sessionVars
           /\ part = "image" => Image!Next \/ UNCHANGED imageVars
           /\ part = "client" => Client!Next \/ UNCHANGED clientVars
           /\ part = "list" => List!Next \/ UNCHANGED listVars
           /\ part = "recommend" => Advice!Next \/ UNCHANGED recommendVars
           /\ part = "metrics" => Metrics!Next \/ UNCHANGED metricsVars
           /\ part = "dimension" => Dimension!Next \/ UNCHANGED dimensionVars
           /\ part = "json" => Json!Next \/ UNCHANGED jsonVars
           /\ part = "vision" => Vision!Next \/ UNCHANGED visionVars
           /\ part = "survey" => Survey!Next \/ UNCHANGED surveyVars
           /\ part = "intake" => Intake!Next \/ UNCHANGED intakeVars
           /\ part = "login" => SignIn!Next \/ UNCHANGED loginVars
           /\ part = "provider" => Provider!Next \/ UNCHANGED providerVars
  BY PartStays DEF Next, vars, ConversationStep, WebhookStep, ReportStep, WhitepaperStep,
     PreparationStep, SessionStep, ImageStep, ClientStep, ListStep, RecommendStep,
     MetricsStep, DimensionStep, JsonStep, VisionStep, SurveyStep, IntakeStep, LoginStep,
     ProviderStep

-----------------------------------------------------------------------------
(* Going over a sequence                                                   *)

\* The values a loop runs through.
IsRun(f, body, base, seq) ==
    /\ f[0] = base
    /\ \A n \in 1..Len(seq) : f[n] = body[seq[n]][f[n - 1]]

\* A loop whose body takes an element of C and a value of T to a value of T.
IsBody(body, base, T, C) == body \in [C -> [T -> T]] /\ base \in T

\* A loop that has gone over n elements can go over one more.
LEMMA RunExists ==
    ASSUME NEW T, NEW C, NEW body, NEW base, IsBody(body, base, T, C), NEW seq \in Seq(C)
    PROVE  \E f \in [0..Len(seq) -> T] : IsRun(f, body, base, seq)
  <1> DEFINE Goes(k) == \E f \in [0..k -> T] :
                 f[0] = base /\ \A n \in 1..k : f[n] = body[seq[n]][f[n - 1]]
             stuck == {k \in 0..Len(seq) : ~Goes(k)}
  <1> USE DEF IsBody
  <1>1. Len(seq) \in Nat /\ stuck \in SUBSET Nat
    OBVIOUS
  <1>2. ASSUME stuck # {} PROVE FALSE
    <2>1. PICK m \in stuck : \A n \in stuck : m <= n
      <3> HIDE DEF stuck
      <3> QED BY <1>1, <1>2, LeastNumber
    <2>2. m \in 0..Len(seq) /\ ~Goes(m)
      BY <2>1
    <2>3. m # 0
      <3>1. SUFFICES ASSUME m = 0 PROVE Goes(m)
        BY <2>2
      <3>2. [k \in 0..m |-> base] \in [0..m -> T] /\ 0 \in 0..m /\ 1..m = {}
        BY <3>1
      <3> QED BY <3>2
    <2>4. m - 1 \in 0..Len(seq) /\ m - 1 \notin stuck
      <3>1. m - 1 \in 0..Len(seq) /\ ~(m <= m - 1)
        BY <1>1, <2>2, <2>3
      <3> HIDE DEF stuck
      <3> QED BY <2>1, <3>1
    <2>5. PICK f \in [0..(m - 1) -> T] :
             f[0] = base /\ \A n \in 1..(m - 1) : f[n] = body[seq[n]][f[n - 1]]
      BY <2>4
    <2> DEFINE g == [k \in 0..m |-> IF k = m THEN body[seq[m]][f[m - 1]] ELSE f[k]]
    <2>6. seq[m] \in C /\ f[m - 1] \in T
      BY <1>1, <2>2, <2>3, <2>5
    <2>7. g \in [0..m -> T] /\ g[0] = base
      BY <1>1, <2>2, <2>3, <2>5, <2>6
    <2>8. ASSUME NEW n \in 1..m PROVE g[n] = body[seq[n]][g[n - 1]]
      BY <1>1, <2>2, <2>3, <2>5
    <2> HIDE DEF g
    <2> QED BY <2>2, <2>7, <2>8
  <1>3. Goes(Len(seq))
    <2>1. stuck = {}
      BY <1>2
    <2>2. Len(seq) \in 0..Len(seq)
      BY <1>1
    <2> HIDE DEF Goes
    <2> QED BY <2>1, <2>2
  <1> QED BY <1>3 DEF IsRun

\* Two runs over one sequence end with the same.
LEMMA RunIsOne ==
    ASSUME NEW body, NEW base, NEW C, NEW seq \in Seq(C), NEW f, NEW g,
           IsRun(f, body, base, seq), IsRun(g, body, base, seq)
    PROVE  f[Len(seq)] = g[Len(seq)]
  <1> DEFINE apart == {n \in 0..Len(seq) : f[n] # g[n]}
  <1>1. ASSUME apart # {} PROVE FALSE
    <2>1. apart \in SUBSET Nat
      OBVIOUS
    <2>2. PICK m \in apart : \A n \in apart : m <= n
      <3> HIDE DEF apart
      <3> QED BY <1>1, <2>1, LeastNumber
    <2>3. m # 0
      BY <2>2 DEF IsRun
    <2>4. m \in 1..Len(seq) /\ m - 1 \in 0..Len(seq) /\ m - 1 \notin apart
      <3>1. m \in 1..Len(seq) /\ m - 1 \in 0..Len(seq) /\ ~(m <= m - 1)
        BY <2>2, <2>3
      <3> HIDE DEF apart
      <3> QED BY <2>2, <3>1
    <2>5. f[m - 1] = g[m - 1]
      BY <2>4
    <2>6. f[m] = g[m]
      BY <2>4, <2>5 DEF IsRun
    <2> QED BY <2>2, <2>6
  <1>2. Len(seq) \in 0..Len(seq)
    OBVIOUS
  <1> QED BY <1>1, <1>2

\* A fold is the last value of the run.
LEMMA FoldIsRun ==
    ASSUME NEW T, NEW C, NEW body, NEW base, IsBody(body, base, T, C), NEW seq \in Seq(C),
           NEW f, IsRun(f, body, base, seq)
    PROVE  Fold(body, base, seq) = f[Len(seq)]
  <1> DEFINE Body(g) == [n \in 0..Len(seq) |->
                           IF n = 0 THEN base ELSE body[seq[n]][g[n - 1]]]
  <1>1. PICK r \in [0..Len(seq) -> T] : IsRun(r, body, base, seq)
    BY RunExists
  <1>2. r = Body(r)
    BY <1>1 DEF IsRun, IsBody
  <1>3. ASSUME NEW g, g = Body(g) PROVE g[Len(seq)] = f[Len(seq)]
    <2>1. Len(seq) \in Nat
      OBVIOUS
    <2>2. IsRun(g, body, base, seq)
      <3> DEFINE h == Body(g)
      <3>1. h[0] = base /\ \A n \in 1..Len(seq) : h[n] = body[seq[n]][g[n - 1]]
        BY <2>1
      <3>2. g = h
        BY <1>3
      <3> HIDE DEF h
      <3> QED BY <3>1, <3>2 DEF IsRun
    <2> QED BY <2>2, RunIsOne
  <1>4. r[Len(seq)] = f[Len(seq)]
    BY <1>2, <1>3
  <1> QED BY <1>2, <1>3 DEF Fold

\* Over nothing, over one element more, and what kind of value results.
LEMMA FoldSteps ==
    ASSUME NEW T, NEW C, NEW body, NEW base, IsBody(body, base, T, C)
    PROVE  /\ Fold(body, base, <<>>) = base
           /\ \A seq \in Seq(C) : Fold(body, base, seq) \in T
           /\ \A seq \in Seq(C), c \in C :
                 Fold(body, base, Append(seq, c)) = body[c][Fold(body, base, seq)]
  <1>1. Fold(body, base, <<>>) = base
    <2>1. ASSUME NEW none \in Seq(C), Len(none) = 0 PROVE Fold(body, base, none) = base
      <3>1. PICK f \in [0..Len(none) -> T] : IsRun(f, body, base, none)
        BY RunExists
      <3>2. Fold(body, base, none) = f[Len(none)]
        BY <3>1, FoldIsRun
      <3> QED BY <2>1, <3>1, <3>2 DEF IsRun
    <2>2. <<>> \in Seq(C) /\ Len(<<>>) = 0
      OBVIOUS
    <2> QED BY <2>1, <2>2
  <1>2. ASSUME NEW seq \in Seq(C) PROVE Fold(body, base, seq) \in T
    <2>1. PICK f \in [0..Len(seq) -> T] : IsRun(f, body, base, seq)
      BY RunExists
    <2>2. Fold(body, base, seq) = f[Len(seq)] /\ Len(seq) \in 0..Len(seq)
      BY <2>1, FoldIsRun
    <2> QED BY <2>1, <2>2
  <1>3. ASSUME NEW seq \in Seq(C), NEW c \in C
        PROVE  Fold(body, base, Append(seq, c)) = body[c][Fold(body, base, seq)]
    <2> DEFINE more == Append(seq, c)
    <2>1. /\ more \in Seq(C) /\ Len(more) = Len(seq) + 1 /\ Len(seq) \in Nat
          /\ more[Len(seq) + 1] = c /\ \A n \in 1..Len(seq) : more[n] = seq[n]
      OBVIOUS
    <2> HIDE DEF more
    <2>2. PICK f \in [0..Len(more) -> T] : IsRun(f, body, base, more)
      BY <2>1, RunExists
    <2>3. Fold(body, base, more) = f[Len(seq) + 1]
      BY <2>1, <2>2, FoldIsRun
    <2>4. IsRun(f, body, base, seq)
      <3>1. ASSUME NEW n \in 1..Len(seq) PROVE f[n] = body[seq[n]][f[n - 1]]
        <4>1. n \in 1..Len(more)
          BY <2>1
        <4>2. f[n] = body[more[n]][f[n - 1]]
          BY <2>2, <4>1 DEF IsRun
        <4> QED BY <2>1, <4>2
      <3>2. f[0] = base
        BY <2>2 DEF IsRun
      <3> QED BY <3>1, <3>2 DEF IsRun
    <2>5. Fold(body, base, seq) = f[Len(seq)]
      BY <2>4, FoldIsRun
    <2>6. f[Len(seq) + 1] = body[c][f[Len(seq)]]
      <3>1. Len(seq) + 1 \in 1..Len(more) /\ Len(seq) + 1 - 1 = Len(seq)
        BY <2>1
      <3> QED BY <2>1, <2>2, <3>1 DEF IsRun
    <2> QED BY <2>3, <2>5, <2>6 DEF more
  <1> QED BY <1>1, <1>2, <1>3

\* What holds of the empty sequence, and of one more element than it holds of, holds of
\* all: a set of sequences in place of a predicate.
LEMMA AllSequences ==
    ASSUME NEW C, NEW P \in SUBSET Seq(C), <<>> \in P,
           \A s \in P, c \in C : Append(s, c) \in P
    PROVE  P = Seq(C)
  <1> DEFINE left == {Len(s) : s \in Seq(C) \ P}
  <1>1. SUFFICES ASSUME Seq(C) \ P # {} PROVE FALSE
    OBVIOUS
  <1>2. PICK m \in left : \A n \in left : m <= n
    <2>1. left \in SUBSET Nat
      OBVIOUS
    <2>2. left # {}
      BY <1>1
    <2> HIDE DEF left
    <2> QED BY <2>1, <2>2, LeastNumber
  <1>3. PICK s \in Seq(C) : s \notin P /\ Len(s) = m
    BY <1>2
  <1>4. PICK t \in Seq(C), c \in C : s = Append(t, c)
    BY <1>3, SequenceEmptyOrAppend
  <1>5. t \notin P /\ Len(t) \in Nat /\ Len(s) = Len(t) + 1
    <2>1. t \notin P
      BY <1>3, <1>4
    <2> QED BY <1>4, <2>1
  <1>6. Len(t) \in left
    BY <1>5
  <1>7. m <= Len(t)
    <2> HIDE DEF left
    <2> QED BY <1>2, <1>6
  <1> QED BY <1>3, <1>5, <1>7

\* What is kept, element by element.
LEMMA OnlySteps ==
    ASSUME NEW C, NEW S
    PROVE  /\ Only(<<>>, S) = <<>>
           /\ \A seq \in Seq(C) : Only(seq, S) \in Seq(C)
           /\ \A seq \in Seq(C), c \in C :
                 Only(Append(seq, c), S) = IF c \in S THEN Append(Only(seq, S), c)
                                                      ELSE Only(seq, S)
  <1> DEFINE Keep(E) == [e \in E |-> [kept \in Seq(E) |->
                                       IF e \in S THEN Append(kept, e) ELSE kept]]
  <1>1. ASSUME NEW E PROVE IsBody(Keep(E), <<>>, Seq(E), E)
    BY DEF IsBody
  <1>2. ASSUME NEW seq \in Seq(C) PROVE Only(seq, S) = Fold(Keep(C), <<>>, seq)
    <2> DEFINE Kept(g) == [n \in 0..Len(seq) |->
                              IF n = 0 THEN <<>>
                              ELSE IF seq[n] \in S THEN Append(g[n - 1], seq[n])
                                                   ELSE g[n - 1]]
    <2>1. IsBody(Keep(C), <<>>, Seq(C), C)
      BY <1>1
    <2>2. PICK f \in [0..Len(seq) -> Seq(C)] : IsRun(f, Keep(C), <<>>, seq)
      <3> HIDE DEF Keep
      <3> QED BY <2>1, RunExists
    <2>3. /\ f[0] = <<>>
          /\ \A n \in 1..Len(seq) :
               f[n] = IF seq[n] \in S THEN Append(f[n - 1], seq[n]) ELSE f[n - 1]
      <3>1. ASSUME NEW n \in 1..Len(seq)
            PROVE  f[n] = IF seq[n] \in S THEN Append(f[n - 1], seq[n]) ELSE f[n - 1]
        <4>1. seq[n] \in C /\ n - 1 \in 0..Len(seq)
          OBVIOUS
        <4>2. f[n - 1] \in Seq(C)
          BY <4>1
        <4>3. \A c \in C, t \in Seq(C) :
                 Keep(C)[c][t] = IF c \in S THEN Append(t, c) ELSE t
          OBVIOUS
        <4> HIDE DEF Keep
        <4> QED BY <2>2, <4>1, <4>2, <4>3 DEF IsRun
      <3>2. f[0] = <<>>
        BY <2>2 DEF IsRun
      <3> QED BY <3>1, <3>2
    <2>4. Fold(Keep(C), <<>>, seq) = f[Len(seq)]
      <3> HIDE DEF Keep
      <3> QED BY <2>1, <2>2, FoldIsRun
    <2>5. f = Kept(f)
      <3>1. ASSUME NEW n \in 0..Len(seq) PROVE f[n] = Kept(f)[n]
        <4>1. n = 0 \/ n \in 1..Len(seq)
          OBVIOUS
        <4> QED BY <2>3, <4>1
      <3> QED BY <3>1
    <2>6. ASSUME NEW g, g = Kept(g) PROVE g[Len(seq)] = f[Len(seq)]
      <3> DEFINE h == Kept(g)
                 apart == {n \in 0..Len(seq) : f[n] # g[n]}
      <3>1. /\ h[0] = <<>>
            /\ \A n \in 1..Len(seq) :
                 h[n] = IF seq[n] \in S THEN Append(g[n - 1], seq[n]) ELSE g[n - 1]
        OBVIOUS
      <3>2. /\ g[0] = <<>>
            /\ \A n \in 1..Len(seq) :
                 g[n] = IF seq[n] \in S THEN Append(g[n - 1], seq[n]) ELSE g[n - 1]
        <4>1. g = h
          BY <2>6
        <4> HIDE DEF h
        <4> QED BY <3>1, <4>1
      <3>3. ASSUME apart # {} PROVE FALSE
        <4>1. apart \in SUBSET Nat
          OBVIOUS
        <4>2. PICK m \in apart : \A n \in apart : m <= n
          <5> HIDE DEF apart
          <5> QED BY <3>3, <4>1, LeastNumber
        <4>3. m # 0
          BY <2>3, <3>2, <4>2
        <4>4. m \in 1..Len(seq) /\ m - 1 \in 0..Len(seq) /\ m - 1 \notin apart
          <5>1. m \in 1..Len(seq) /\ m - 1 \in 0..Len(seq) /\ ~(m <= m - 1)
            BY <4>2, <4>3
          <5> HIDE DEF apart
          <5> QED BY <4>2, <5>1
        <4>5. f[m - 1] = g[m - 1]
          BY <4>4
        <4>6. f[m] = g[m]
          BY <2>3, <3>2, <4>4, <4>5
        <4> QED BY <4>2, <4>6
      <3>4. Len(seq) \in 0..Len(seq)
        OBVIOUS
      <3> QED BY <3>3, <3>4
    <2>7. Only(seq, S) = f[Len(seq)]
      <3> HIDE DEF Keep
      <3> QED BY <2>5, <2>6 DEF Only
    <2> QED BY <2>4, <2>7
  <1>3. \A seq \in Seq(C), c \in C : Append(seq, c) \in Seq(C)
    OBVIOUS
  <1>4. ASSUME NEW seq \in Seq(C), NEW c \in C
        PROVE  Keep(C)[c][seq] = IF c \in S THEN Append(seq, c) ELSE seq
    OBVIOUS
  <1>5. <<>> \in Seq(C)
    OBVIOUS
  <1> HIDE DEF Keep
  <1>6. /\ Fold(Keep(C), <<>>, <<>>) = <<>>
        /\ \A seq \in Seq(C) : Fold(Keep(C), <<>>, seq) \in Seq(C)
        /\ \A seq \in Seq(C), c \in C :
              Fold(Keep(C), <<>>, Append(seq, c)) = Keep(C)[c][Fold(Keep(C), <<>>, seq)]
    BY <1>1, FoldSteps
  <1>7. ASSUME NEW seq \in Seq(C), NEW c \in C
        PROVE  Only(Append(seq, c), S) = IF c \in S THEN Append(Only(seq, S), c)
                                                      ELSE Only(seq, S)
    <2>1. Only(Append(seq, c), S) = Fold(Keep(C), <<>>, Append(seq, c))
      BY <1>2, <1>3
    <2>2. Only(seq, S) = Fold(Keep(C), <<>>, seq) /\ Only(seq, S) \in Seq(C)
      BY <1>2, <1>6
    <2> QED BY <1>4, <1>6, <2>1, <2>2
  <1> QED BY <1>2, <1>5, <1>6, <1>7

\* Where what is kept stood: in order, and nothing that was to be kept is left out.
KeptAt(place, seq, S) ==
    LET kept == Only(seq, S)
    IN  /\ place \in [1..Len(kept) -> 1..Len(seq)]
        /\ \A k \in 1..Len(kept) : kept[k] = seq[place[k]] /\ kept[k] \in S
        /\ \A j, k \in 1..Len(kept) : j < k => place[j] < place[k]
        /\ \A n \in 1..Len(seq) : seq[n] \in S => \E k \in 1..Len(kept) : place[k] = n

LEMMA OnlyKeeps ==
    ASSUME NEW C, NEW S, NEW seq \in Seq(C)
    PROVE  Only(seq, S) \in Seq(C) /\ \E place : KeptAt(place, seq, S)
  <1> DEFINE P == {s \in Seq(C) : \E place : KeptAt(place, s, S)}
  <1>1. <<>> \in P
    <2>1. Only(<<>>, S) = <<>> /\ <<>> \in Seq(C) /\ Len(<<>>) = 0 /\ 1..0 = {}
      BY OnlySteps
    <2>2. KeptAt(<<>>, <<>>, S)
      BY <2>1 DEF KeptAt
    <2> QED BY <2>1, <2>2
  <1>2. ASSUME NEW s \in P, NEW c \in C PROVE Append(s, c) \in P
    <2>1. PICK place : KeptAt(place, s, S)
      OBVIOUS
    <2> DEFINE kept == Only(s, S)
               more == Append(s, c)
               now == Only(more, S)
    <2>2. /\ s \in Seq(C) /\ kept \in Seq(C) /\ more \in Seq(C) /\ now \in Seq(C)
          /\ now = IF c \in S THEN Append(kept, c) ELSE kept
      <3>1. s \in Seq(C) /\ more \in Seq(C)
        OBVIOUS
      <3> HIDE DEF more
      <3>2. kept \in Seq(C) /\ now \in Seq(C)
        BY <3>1, OnlySteps
      <3>3. now = IF c \in S THEN Append(kept, c) ELSE kept
        <4>1. s \in Seq(C)
          OBVIOUS
        <4>2. \A q \in Seq(C), d \in C :
                 Only(Append(q, d), S) = IF d \in S THEN Append(Only(q, S), d)
                                                    ELSE Only(q, S)
          BY OnlySteps
        <4> HIDE DEF P
        <4> QED BY <4>1, <4>2 DEF more, now, kept
      <3> QED BY <3>1, <3>2, <3>3
    <2>3. /\ Len(s) \in Nat /\ Len(kept) \in Nat /\ Len(more) = Len(s) + 1
          /\ more[Len(s) + 1] = c /\ \A n \in 1..Len(s) : more[n] = s[n]
      BY <2>2
    <2>4. /\ place \in [1..Len(kept) -> 1..Len(s)]
          /\ \A k \in 1..Len(kept) : kept[k] = s[place[k]] /\ kept[k] \in S
          /\ \A j, k \in 1..Len(kept) : j < k => place[j] < place[k]
          /\ \A n \in 1..Len(s) : s[n] \in S => \E k \in 1..Len(kept) : place[k] = n
      BY <2>1 DEF KeptAt
    <2>5. CASE c \notin S
      <3>1. now = kept
        BY <2>2, <2>5
      <3> HIDE DEF kept, more, now
      <3>2. \A n \in 1..Len(more) : n \in 1..Len(s) \/ n = Len(s) + 1
        BY <2>3
      <3>3. \A k \in 1..Len(kept) : place[k] \in 1..Len(s) /\ place[k] \in 1..Len(more)
        BY <2>3, <2>4
      <3>4. place \in [1..Len(now) -> 1..Len(more)]
        BY <2>4, <3>1, <3>3
      <3>5. \A k \in 1..Len(now) : now[k] = more[place[k]] /\ now[k] \in S
        BY <2>3, <2>4, <3>1, <3>3
      <3>6. \A n \in 1..Len(more) : more[n] \in S => \E k \in 1..Len(now) : place[k] = n
        BY <2>3, <2>4, <2>5, <3>1, <3>2
      <3>7. KeptAt(place, more, S)
        BY <2>4, <3>1, <3>4, <3>5, <3>6 DEF KeptAt, now
      <3> QED BY <2>2, <3>7 DEF more
    <2>6. CASE c \in S
      <3>1. now = Append(kept, c)
        BY <2>2, <2>6
      <3>2. /\ Len(now) = Len(kept) + 1 /\ now[Len(kept) + 1] = c
            /\ \A k \in 1..Len(kept) : now[k] = kept[k]
        BY <2>2, <3>1
      <3> DEFINE at == [k \in 1..(Len(kept) + 1) |->
                          IF k = Len(kept) + 1 THEN Len(s) + 1 ELSE place[k]]
      <3> HIDE DEF kept, more, now
      <3>3. \A n \in 1..Len(more) : n \in 1..Len(s) \/ n = Len(s) + 1
        BY <2>3
      <3>4. \A k \in 1..Len(now) : k \in 1..Len(kept) \/ k = Len(kept) + 1
        BY <2>3, <3>2
      <3>5. /\ at[Len(kept) + 1] = Len(s) + 1 /\ Len(kept) + 1 \in 1..Len(now)
            /\ \A k \in 1..Len(kept) : at[k] = place[k] /\ k \in 1..Len(now)
        BY <2>3, <2>4, <3>2
      <3>10. at \in [1..Len(now) -> 1..Len(more)]
        <4>1. \A k \in 1..Len(kept) : place[k] \in 1..Len(more)
          BY <2>3, <2>4
        <4> QED BY <2>3, <3>2, <4>1
      <3> HIDE DEF at
      <3>6. \A k \in 1..Len(now) : now[k] = more[at[k]] /\ now[k] \in S
        BY <2>3, <2>4, <2>6, <3>2, <3>4, <3>5
      <3>7. ASSUME NEW j \in 1..Len(now), NEW k \in 1..Len(now), j < k
            PROVE  at[j] < at[k]
        <4>1. j \in 1..Len(kept)
          BY <2>3, <3>2, <3>7
        <4>2. CASE k \in 1..Len(kept)
          BY <2>4, <3>5, <3>7, <4>1, <4>2
        <4>3. CASE k = Len(kept) + 1
          BY <2>3, <2>4, <3>5, <4>1, <4>3
        <4> QED BY <3>4, <4>2, <4>3
      <3>8. ASSUME NEW n \in 1..Len(more), more[n] \in S
            PROVE  \E k \in 1..Len(now) : at[k] = n
        BY <2>3, <2>4, <3>3, <3>5, <3>8
      <3>9. KeptAt(at, more, S)
        BY <3>10, <3>6, <3>7, <3>8 DEF KeptAt, now
      <3> QED BY <2>2, <3>9 DEF more
    <2> QED BY <2>5, <2>6
  <1>3. P = Seq(C)
    <2> HIDE DEF P
    <2>1. P \in SUBSET Seq(C)
      BY DEF P
    <2> QED BY <1>1, <1>2, <2>1, AllSequences
  <1> QED BY <1>3, OnlySteps

\* What is kept is no longer than what there was.
LEMMA OnlyShrinks ==
    ASSUME NEW C, NEW S, NEW seq \in Seq(C)
    PROVE  Len(Only(seq, S)) <= Len(seq)
  <1> DEFINE P == {s \in Seq(C) : Len(Only(s, S)) <= Len(s)}
  <1>1. <<>> \in P
    <2>1. Only(<<>>, S) = <<>> /\ <<>> \in Seq(C)
      BY OnlySteps
    <2> QED BY <2>1
  <1>2. ASSUME NEW s \in P, NEW c \in C PROVE Append(s, c) \in P
    <2> DEFINE more == Append(s, c)
               k == Only(s, S)
               m == Only(more, S)
    <2>1. s \in Seq(C) /\ Len(k) <= Len(s)
      BY DEF P
    <2>2. k \in Seq(C) /\ m = IF c \in S THEN Append(k, c) ELSE k
      <3>1. \A q \in Seq(C) : Only(q, S) \in Seq(C)
        BY OnlySteps
      <3>2. \A q \in Seq(C), d \in C :
               Only(Append(q, d), S) = IF d \in S THEN Append(Only(q, S), d) ELSE Only(q, S)
        BY OnlySteps
      <3> HIDE DEF P
      <3> QED BY <1>2, <2>1, <3>1, <3>2, Zenon
    <2> HIDE DEF k, m
    <2>3. Len(k) \in Nat /\ Len(m) \in {Len(k), Len(k) + 1}
      BY <2>2
    <2>4. more \in Seq(C) /\ Len(more) = Len(s) + 1 /\ Len(s) \in Nat
      BY <2>1
    <2> HIDE DEF more, P
    <2>5. Len(m) <= Len(more)
      BY <2>1, <2>3, <2>4
    <2> QED BY <2>4, <2>5 DEF P, m, more
  <1>3. P \in SUBSET Seq(C)
    OBVIOUS
  <1>4. P = Seq(C)
    <2> HIDE DEF P
    <2> QED BY <1>1, <1>2, <1>3, AllSequences
  <1> QED BY <1>4

-----------------------------------------------------------------------------
(* Sequences without repetitions                                           *)

\* What a sequence holds, and that it has no repetitions.
Members(s) == {s[k] : k \in DOMAIN s}
Once(s) == \A j, k \in DOMAIN s : s[j] = s[k] => j = k

\* It has as many elements as places.
LEMMA OnceSize ==
    ASSUME NEW C, NEW s \in Seq(C), Once(s)
    PROVE  Cardinality(Members(s)) = Len(s) /\ IsFiniteSet(Members(s))
  <1> DEFINE S == {s[k] : k \in DOMAIN s}
  <1>1. DOMAIN s = 1..Len(s) /\ Len(s) \in Nat /\ s \in [1..Len(s) -> S]
    OBVIOUS
  <1>2. IsFiniteSet(1..Len(s)) /\ Cardinality(1..Len(s)) = Len(s)
    <2>1. IsFiniteSet(1..Len(s)) /\ Cardinality(1..Len(s)) = IF 1 > Len(s) THEN 0 ELSE Len(s) - 1 + 1
      <3>1. \A b \in Int : /\ IsFiniteSet(1..b)
                            /\ Cardinality(1..b) = IF 1 > b THEN 0 ELSE b - 1 + 1
        BY FS_Interval
      <3>2. Len(s) \in Int
        BY <1>1
      <3> QED BY <3>1, <3>2, Zenon
    <2> QED BY <1>1, <2>1
  <1>3. s \in Bijection(1..Len(s), S)
    <2>1. s \in Injection(1..Len(s), S)
      BY <1>1 DEF Injection, IsInjective, Once
    <2>2. s \in Surjection(1..Len(s), S)
      BY <1>1 DEF Surjection
    <2> QED BY <2>1, <2>2 DEF Bijection
  <1>4. ExistsBijection(1..Len(s), S)
    BY <1>3 DEF ExistsBijection
  <1> HIDE DEF S
  <1>5. IsFiniteSet(S) /\ Cardinality(S) = Cardinality(1..Len(s))
    BY <1>2, <1>4, FS_Bijection
  <1> QED BY <1>2, <1>5 DEF S, Members

\* What is kept of a sequence without repetitions has none, and is what was to be kept.
LEMMA OnlyOnce ==
    ASSUME NEW C, NEW S, NEW seq \in Seq(C), Once(seq)
    PROVE  /\ Only(seq, S) \in Seq(C) /\ Once(Only(seq, S))
           /\ Members(Only(seq, S)) = Members(seq) \cap S
  <1> DEFINE kept == Only(seq, S)
  <1>1. PICK place : KeptAt(place, seq, S)
    BY OnlyKeeps
  <1>2. kept \in Seq(C)
    BY OnlyKeeps
  <1>3. /\ place \in [1..Len(kept) -> 1..Len(seq)]
        /\ \A k \in 1..Len(kept) : kept[k] = seq[place[k]] /\ kept[k] \in S
        /\ \A j, k \in 1..Len(kept) : j < k => place[j] < place[k]
        /\ \A n \in 1..Len(seq) : seq[n] \in S => \E k \in 1..Len(kept) : place[k] = n
    BY <1>1 DEF KeptAt
  <1>4. DOMAIN kept = 1..Len(kept) /\ DOMAIN seq = 1..Len(seq)
    BY <1>2
  <1> HIDE DEF kept
  <1>5. Once(kept)
    <2>1. SUFFICES ASSUME NEW j \in 1..Len(kept), NEW k \in 1..Len(kept), kept[j] = kept[k]
                   PROVE  j = k
      BY <1>4 DEF Once
    <2>2. place[j] = place[k] /\ place[j] \in Int
      BY <1>3, <1>4, <2>1 DEF Once
    <2>3. ~(j < k) /\ ~(k < j)
      <3>1. place[j] \in Int /\ place[k] \in Int
        BY <1>3
      <3>2. ~(place[j] < place[k]) /\ ~(place[k] < place[j])
        BY <2>2, <3>1
      <3> QED BY <1>3, <3>2
    <2> QED BY <2>1, <2>3
  <1>6. Members(kept) = Members(seq) \cap S
    BY <1>3, <1>4 DEF Members
  <1> QED BY <1>2, <1>5, <1>6 DEF kept

\* Two sequences without repetitions, and nothing in both, joined.
LEMMA JoinOnce ==
    ASSUME NEW C, NEW s \in Seq(C), NEW t \in Seq(C), Once(s), Once(t),
           \A j \in DOMAIN s, k \in DOMAIN t : s[j] # t[k]
    PROVE  /\ s \o t \in Seq(C) /\ Once(s \o t)
           /\ Members(s \o t) = Members(s) \cup Members(t)
  <1> DEFINE all == s \o t
  <1>1. /\ all \in Seq(C) /\ Len(all) = Len(s) + Len(t) /\ Len(s) \in Nat /\ Len(t) \in Nat
        /\ DOMAIN all = 1..Len(all) /\ DOMAIN s = 1..Len(s) /\ DOMAIN t = 1..Len(t)
        /\ \A k \in 1..Len(s) : all[k] = s[k]
        /\ \A k \in 1..Len(t) : all[Len(s) + k] = t[k]
    OBVIOUS
  <1> HIDE DEF all
  <1>2. \A k \in DOMAIN all : k \in 1..Len(s) \/ (k - Len(s) \in 1..Len(t) /\ k = Len(s) + (k - Len(s)))
    BY <1>1
  <1>3. Once(all)
    <2>1. SUFFICES ASSUME NEW j \in DOMAIN all, NEW k \in DOMAIN all, all[j] = all[k]
                   PROVE  j = k
      BY DEF Once
    <2>2. CASE j \in 1..Len(s) /\ k \in 1..Len(s)
      BY <1>1, <2>1, <2>2 DEF Once
    <2>3. CASE j \notin 1..Len(s) /\ k \notin 1..Len(s)
      <3>1. j - Len(s) \in DOMAIN t /\ k - Len(s) \in DOMAIN t
        BY <1>1, <1>2, <2>3
      <3>2. t[j - Len(s)] = t[k - Len(s)]
        BY <1>1, <1>2, <2>1, <2>3
      <3>3. j - Len(s) = k - Len(s)
        BY <3>1, <3>2 DEF Once
      <3> QED BY <1>1, <3>3
    <2>4. CASE j \in 1..Len(s) /\ k \notin 1..Len(s)
      BY <1>1, <1>2, <2>1, <2>4
    <2>5. CASE j \notin 1..Len(s) /\ k \in 1..Len(s)
      BY <1>1, <1>2, <2>1, <2>5
    <2> QED BY <2>2, <2>3, <2>4, <2>5
  <1>4. Members(all) = Members(s) \cup Members(t)
    <2>1. \A k \in 1..Len(s) : k \in DOMAIN all
      BY <1>1
    <2>2. \A k \in 1..Len(t) : Len(s) + k \in DOMAIN all
      BY <1>1
    <2>3. ASSUME NEW k \in DOMAIN all
          PROVE  all[k] \in {s[j] : j \in DOMAIN s} \cup {t[j] : j \in DOMAIN t}
      <3>1. CASE k \in 1..Len(s)
        BY <1>1, <3>1
      <3>2. CASE k - Len(s) \in 1..Len(t) /\ k = Len(s) + (k - Len(s))
        <4>1. all[k] = t[k - Len(s)] /\ k - Len(s) \in DOMAIN t
          BY <1>1, <3>2
        <4> QED BY <4>1
      <3> QED BY <1>2, <3>1, <3>2
    <2>4. ASSUME NEW k \in DOMAIN s PROVE s[k] \in {all[j] : j \in DOMAIN all}
      BY <1>1, <2>1
    <2>5. ASSUME NEW k \in DOMAIN t PROVE t[k] \in {all[j] : j \in DOMAIN all}
      BY <1>1, <2>2
    <2> QED BY <2>3, <2>4, <2>5 DEF Members
  <1> QED BY <1>1, <1>3, <1>4 DEF all

-----------------------------------------------------------------------------
(* JSON in the text of a model                                             *)

JsonRead(at, c) == Json!Read(at, c, "lbrace", "rbrace")
JsonAt(r, s) == Json!Scanned(r, s, "lbrace", "rbrace")
JsonStart(s) == [next |-> s, escape |-> FALSE, string |-> FALSE, depth |-> 0, end |-> 0]

\* A fold of the scan is a fold.
LEMMA JsonFold == \A body, base, seq : Json!Fold(body, base, seq) = Fold(body, base, seq)
  BY DEF Json!Fold, Fold

\* One character more is one step more of the scan.
LEMMA JsonScan ==
    ASSUME NEW r \in Seq(Json!Chars), NEW s \in 1..(Len(r) + 1), NEW c \in Json!Chars
    PROVE  /\ JsonAt(r, s) \in Json!Scan
           /\ s = Len(r) + 1 => JsonAt(r, s) = JsonStart(s)
           /\ JsonAt(Append(r, c), s) = JsonRead(JsonAt(r, s), c)
  <1> DEFINE C == Json!Chars
             T == Json!Scan
             body == [d \in C |-> [at \in T |-> Json!Read(at, d, "lbrace", "rbrace")]]
             rest == SubSeq(r, s, Len(r))
  <1>1. \A q : JsonAt(q, s) = Fold(body, JsonStart(s), SubSeq(q, s, Len(q)))
    BY JsonFold DEF JsonAt, JsonStart, Json!Scanned
  <1>2. JsonStart(s) \in T
    BY DEF JsonStart, Json!Scan
  <1>3. ASSUME NEW d \in C, NEW at \in T PROVE Json!Read(at, d, "lbrace", "rbrace") \in T
    <2>1. /\ at.next \in Nat /\ at.escape \in BOOLEAN /\ at.string \in BOOLEAN
          /\ at.depth \in Int /\ at.end \in Nat
      BY <1>3 DEF Json!Scan
    <2> DEFINE plain == ~at.escape /\ ~at.string
               up == IF plain /\ d = "lbrace" THEN 1 ELSE 0
               down == IF plain /\ d = "rbrace" THEN 1 ELSE 0
               depth == at.depth + up - down
    <2>2. depth \in Int /\ at.next + 1 \in Nat
      <3>1. up \in Int /\ down \in Int
        OBVIOUS
      <3> HIDE DEF up, down
      <3> QED BY <2>1, <3>1
    <2>3. /\ (~at.escape /\ at.string /\ d = "backslash") \in BOOLEAN
          /\ (IF d = "quote" /\ ~at.escape THEN ~at.string ELSE at.string) \in BOOLEAN
          /\ (IF at.end = 0 /\ plain /\ d = "rbrace" /\ depth = 0 THEN at.next ELSE at.end) \in Nat
      BY <2>1
    <2> HIDE DEF depth
    <2> QED BY <2>2, <2>3 DEF Json!Read, Json!Scan, depth
  <1>4. IsBody(body, JsonStart(s), T, C)
    BY <1>2, <1>3 DEF IsBody
  <1>5. rest \in Seq(C) /\ SubSeq(Append(r, c), s, Len(Append(r, c))) = Append(rest, c)
    <2>1. Len(Append(r, c)) = Len(r) + 1 /\ Append(r, c) \in Seq(C)
      OBVIOUS
    <2>2. rest \in Seq(C) /\ Len(rest) = Len(r) + 1 - s
          /\ \A n \in 1..Len(rest) : rest[n] = r[s + n - 1]
      OBVIOUS
    <2> DEFINE more == SubSeq(Append(r, c), s, Len(r) + 1)
    <2>3. more \in Seq(C) /\ Len(more) = Len(r) + 2 - s
          /\ \A n \in 1..Len(more) : more[n] = Append(r, c)[s + n - 1]
      BY <2>1
    <2>4. \A n \in 1..Len(more) : more[n] = Append(rest, c)[n]
      <3> TAKE n \in 1..Len(more)
      <3>1. CASE n = Len(more)
        BY <2>2, <2>3, <3>1
      <3>2. CASE n # Len(more)
        <4>1. n \in 1..Len(rest) /\ s + n - 1 \in 1..Len(r)
          BY <2>2, <2>3, <3>2
        <4> QED BY <2>2, <2>3, <4>1
      <3> QED BY <3>1, <3>2
    <2>5. Append(rest, c) \in Seq(C) /\ Len(Append(rest, c)) = Len(more)
      BY <2>2, <2>3
    <2> HIDE DEF more, rest
    <2>6. more = Append(rest, c)
      BY <2>3, <2>4, <2>5, SeqEqual
    <2> QED BY <2>1, <2>2, <2>6 DEF more
  <1>6. s = Len(r) + 1 => rest = <<>>
    OBVIOUS
  <1> HIDE DEF body, rest, T
  <1>7. /\ Fold(body, JsonStart(s), <<>>) = JsonStart(s)
        /\ \A q \in Seq(C) : Fold(body, JsonStart(s), q) \in T
        /\ \A q \in Seq(C), d \in C :
              Fold(body, JsonStart(s), Append(q, d)) = body[d][Fold(body, JsonStart(s), q)]
    BY <1>4, FoldSteps
  <1>8. JsonAt(r, s) = Fold(body, JsonStart(s), rest)
    BY <1>1 DEF rest
  <1>9. JsonAt(Append(r, c), s) = body[c][Fold(body, JsonStart(s), rest)]
    BY <1>1, <1>5, <1>7
  <1>10. \A at \in T : body[c][at] = JsonRead(at, c)
    BY DEF body, JsonRead
  <1> QED BY <1>5, <1>6, <1>7, <1>8, <1>9, <1>10 DEF T

\* What a step of the scan does.
LEMMA JsonReads ==
    ASSUME NEW at \in Json!Scan, NEW c
    PROVE  /\ JsonRead(at, c).next = at.next + 1
           /\ JsonRead(at, c).escape = (~at.escape /\ at.string /\ c = "backslash")
           /\ JsonRead(at, c).string = (IF c = "quote" /\ ~at.escape THEN ~at.string
                                                                    ELSE at.string)
           /\ at.escape \/ at.string => JsonRead(at, c).depth = at.depth
           /\ ~at.escape /\ ~at.string =>
                JsonRead(at, c).depth = IF c = "lbrace" THEN at.depth + 1
                                        ELSE IF c = "rbrace" THEN at.depth - 1 ELSE at.depth
           /\ JsonRead(at, c).end =
                IF /\ at.end = 0 /\ ~at.escape /\ ~at.string /\ c = "rbrace"
                   /\ at.depth = 1
                THEN at.next ELSE at.end
  <1>1. /\ at.next \in Nat /\ at.escape \in BOOLEAN /\ at.string \in BOOLEAN
        /\ at.depth \in Int /\ at.end \in Nat
    BY DEF Json!Scan
  <1> DEFINE plain == ~at.escape /\ ~at.string
             up == IF plain /\ c = "lbrace" THEN 1 ELSE 0
             down == IF plain /\ c = "rbrace" THEN 1 ELSE 0
             depth == at.depth + up - down
  <1>2. /\ ~plain => depth = at.depth
        /\ plain => depth = IF c = "lbrace" THEN at.depth + 1
                            ELSE IF c = "rbrace" THEN at.depth - 1 ELSE at.depth
    <2>1. /\ ~plain => up = 0 /\ down = 0
          /\ plain /\ c = "lbrace" => up = 1 /\ down = 0
          /\ plain /\ c = "rbrace" => up = 0 /\ down = 1
          /\ plain /\ c # "lbrace" /\ c # "rbrace" => up = 0 /\ down = 0
      OBVIOUS
    <2> HIDE DEF plain, up, down
    <2>2. CASE ~plain
      <3>1. up = 0 /\ down = 0
        BY <2>1, <2>2
      <3>2. at.depth + 0 - 0 = at.depth
        BY <1>1
      <3> QED BY <2>2, <3>1, <3>2
    <2>3. CASE plain /\ c = "lbrace"
      <3>1. up = 1 /\ down = 0
        BY <2>1, <2>3
      <3>2. at.depth + 1 - 0 = at.depth + 1
        BY <1>1
      <3> QED BY <2>3, <3>1, <3>2
    <2>4. CASE plain /\ c = "rbrace"
      <3>1. up = 0 /\ down = 1
        BY <2>1, <2>4
      <3>2. at.depth + 0 - 1 = at.depth - 1
        BY <1>1
      <3> QED BY <2>4, <3>1, <3>2
    <2>5. CASE plain /\ c # "lbrace" /\ c # "rbrace"
      <3>1. up = 0 /\ down = 0
        BY <2>1, <2>5
      <3>2. at.depth + 0 - 0 = at.depth
        BY <1>1
      <3> QED BY <2>5, <3>1, <3>2
    <2> QED BY <2>2, <2>3, <2>4, <2>5
  <1>3. JsonRead(at, c) =
          [next |-> at.next + 1,
           escape |-> ~at.escape /\ at.string /\ c = "backslash",
           string |-> IF c = "quote" /\ ~at.escape THEN ~at.string ELSE at.string,
           depth |-> depth,
           end |-> IF at.end = 0 /\ plain /\ c = "rbrace" /\ depth = 0 THEN at.next ELSE at.end]
    BY DEF JsonRead, Json!Read
  <1>4. plain /\ c = "rbrace" => (depth = 0 <=> at.depth = 1)
    <2>1. SUFFICES ASSUME plain, c = "rbrace" PROVE depth = 0 <=> at.depth = 1
      OBVIOUS
    <2>2. depth = at.depth - 1
      BY <1>2, <2>1
    <2> HIDE DEF depth
    <2> QED BY <1>1, <2>2
  <1> HIDE DEF depth
  <1>5. /\ JsonRead(at, c).next = at.next + 1
        /\ JsonRead(at, c).escape = (~at.escape /\ at.string /\ c = "backslash")
        /\ JsonRead(at, c).string = (IF c = "quote" /\ ~at.escape THEN ~at.string
                                                                 ELSE at.string)
        /\ JsonRead(at, c).depth = depth
        /\ JsonRead(at, c).end =
             IF at.end = 0 /\ plain /\ c = "rbrace" /\ depth = 0 THEN at.next ELSE at.end
    <2> DEFINE e == ~at.escape /\ at.string /\ c = "backslash"
               t == IF c = "quote" /\ ~at.escape THEN ~at.string ELSE at.string
               z == IF at.end = 0 /\ plain /\ c = "rbrace" /\ depth = 0 THEN at.next ELSE at.end
               n == at.next + 1
    <2>1. JsonRead(at, c) = [next |-> n, escape |-> e, string |-> t, depth |-> depth, end |-> z]
      BY <1>3
    <2> HIDE DEF e, t, z, n
    <2>2. /\ JsonRead(at, c).next = n /\ JsonRead(at, c).escape = e
          /\ JsonRead(at, c).string = t /\ JsonRead(at, c).depth = depth
          /\ JsonRead(at, c).end = z
      BY <2>1
    <2> QED BY <2>2 DEF e, t, z, n
  <1>6. (at.end = 0 /\ plain /\ c = "rbrace" /\ depth = 0) <=>
          /\ at.end = 0 /\ ~at.escape /\ ~at.string /\ c = "rbrace"
          /\ at.depth = 1
    BY <1>4
  <1>7. plain <=> ~at.escape /\ ~at.string
    OBVIOUS
  <1> HIDE DEF plain
  <1>8. JsonRead(at, c).end =
                IF /\ at.end = 0 /\ ~at.escape /\ ~at.string /\ c = "rbrace"
                   /\ at.depth = 1
                THEN at.next ELSE at.end
    BY <1>5, <1>6
  <1> QED BY <1>2, <1>5, <1>7, <1>8

\* Where brackets were opened, the first of them, and how many braces are open.
JsonOpened(r) == {n \in DOMAIN r : r[n] \in {"lbrace", "lbracket"}}
JsonFirst(r, s) == s \in JsonOpened(r) /\ \A n \in JsonOpened(r) : s <= n
JsonDepth(r, q) == Cardinality({k \in DOMAIN q : r[q[k]] = "lbrace"})

\* The scan inside the outermost object: it is where the reply is, and sees as much.
JsonInside(r, q, s, string) ==
    LET at == JsonAt(r, s)
    IN  at.next = Len(r) + 1 /\ ~at.escape /\ at.string = string /\ at.end = 0
        /\ at.depth = JsonDepth(r, q)

\* The outermost bracket is the first one, and everything open is inside it: of a reply r
\* with the brackets q open, in a string or not, and the objects O whole.
JsonShape(r, q, O) ==
    /\ r \in Seq(Json!Chars) /\ q \in Seq(DOMAIN r)
    /\ JsonOpened(r) = {} => q = <<>> /\ O = {}
    /\ q # <<>> => JsonFirst(r, q[1])
    /\ \A k \in DOMAIN q : q[k] \in JsonOpened(r) /\ (k # 1 => q[1] < q[k])

\* The scan from the first brace: inside until the object is whole, and then it has its end.
JsonOuter(r, q, string, O, s) ==
    IF q # <<>> THEN JsonInside(r, q, s, string) /\ \A o \in O : o[1] # s
    ELSE JsonAt(r, s).end # 0 /\ <<s, JsonAt(r, s).end>> \in O

JsonGood(r, q, string, O) ==
    /\ JsonShape(r, q, O) /\ string \in BOOLEAN /\ (string => q # <<>>)
    /\ \A s : JsonFirst(r, s) /\ r[s] = "lbrace" => JsonOuter(r, q, string, O, s)

JsonInv == JsonGood(reply, nest, quoted, objects)

\* A character more leaves the first bracket where it is.
LEMMA JsonAdds ==
    ASSUME NEW r \in Seq(Json!Chars), NEW c \in Json!Chars
    PROVE  /\ Append(r, c) \in Seq(Json!Chars) /\ Len(Append(r, c)) = Len(r) + 1
           /\ Append(r, c)[Len(r) + 1] = c /\ DOMAIN r \subseteq DOMAIN Append(r, c)
           /\ Len(r) + 1 \in DOMAIN Append(r, c)
           /\ \A n \in DOMAIN r : Append(r, c)[n] = r[n] /\ n \in 1..Len(r)
           /\ JsonOpened(Append(r, c)) =
                IF c \in {"lbrace", "lbracket"} THEN JsonOpened(r) \cup {Len(r) + 1} ELSE JsonOpened(r)
           /\ JsonOpened(r) # {} => \A s : JsonFirst(Append(r, c), s) <=> JsonFirst(r, s)
           /\ \A q \in Seq(DOMAIN r) : /\ q \in Seq(DOMAIN Append(r, c))
                                       /\ JsonDepth(Append(r, c), q) = JsonDepth(r, q)
  <1> DEFINE more == Append(r, c)
  <1>1. /\ more \in Seq(Json!Chars) /\ Len(more) = Len(r) + 1 /\ Len(r) \in Nat
        /\ more[Len(r) + 1] = c /\ DOMAIN r = 1..Len(r) /\ DOMAIN more = 1..(Len(r) + 1)
        /\ \A n \in DOMAIN r : more[n] = r[n]
    OBVIOUS
  <1> HIDE DEF more
  <1>2. DOMAIN r \subseteq DOMAIN more
    BY <1>1
  <1> DEFINE m == Len(r) + 1
  <1>3. JsonOpened(more) = IF c \in {"lbrace", "lbracket"} THEN JsonOpened(r) \cup {m} ELSE JsonOpened(r)
    <2>1. DOMAIN more = DOMAIN r \cup {m} /\ m \notin DOMAIN r /\ more[m] = c
      BY <1>1
    <2>2. \A n \in DOMAIN r : more[n] \in {"lbrace", "lbracket"} <=> r[n] \in {"lbrace", "lbracket"}
      BY <1>1
    <2> HIDE DEF m
    <2>3. \A n : n \in JsonOpened(more) <=>
                 n \in JsonOpened(r) \/ (n = m /\ c \in {"lbrace", "lbracket"})
      BY <2>1, <2>2, Zenon DEF JsonOpened
    <2>4. CASE c \in {"lbrace", "lbracket"}
      BY <2>3, <2>4, Zenon
    <2>5. CASE c \notin {"lbrace", "lbracket"}
      BY <2>3, <2>5, Zenon
    <2> QED BY <2>4, <2>5
  <1>4. ASSUME JsonOpened(r) # {}, NEW s PROVE JsonFirst(more, s) <=> JsonFirst(r, s)
    <2>1. JsonOpened(r) \subseteq DOMAIN r
      BY DEF JsonOpened
    <2>2. \A n \in JsonOpened(r) : n \in Nat /\ n < m
      <3> \A n \in DOMAIN r : n \in Nat /\ n < m
        BY <1>1
      <3> QED BY <2>1
    <2>3. PICK k \in JsonOpened(r) : TRUE
      BY <1>4
    <2>4. JsonOpened(r) \subseteq JsonOpened(more) /\ JsonOpened(more) \subseteq JsonOpened(r) \cup {m}
      BY <1>3
    <2>5. m \in Nat
      BY <1>1
    <2> HIDE DEF m
    <2>6. ASSUME JsonFirst(r, s) PROVE JsonFirst(more, s)
      <3>1. s \in JsonOpened(more) /\ s \in Nat /\ s <= m
        BY <2>2, <2>4, <2>5, <2>6 DEF JsonFirst
      <3>2. \A n \in JsonOpened(r) : s <= n
        BY <2>6 DEF JsonFirst
      <3> QED BY <2>4, <3>1, <3>2 DEF JsonFirst
    <2>7. ASSUME JsonFirst(more, s) PROVE JsonFirst(r, s)
      <3>1. s \in JsonOpened(more) /\ \A n \in JsonOpened(more) : s <= n
        BY <2>7 DEF JsonFirst
      <3>2. s <= k /\ s # m
        BY <2>2, <2>3, <2>4, <2>5, <3>1
      <3> QED BY <2>4, <3>1, <3>2 DEF JsonFirst
    <2> QED BY <2>6, <2>7
  <1>5. ASSUME NEW q \in Seq(DOMAIN r)
        PROVE  q \in Seq(DOMAIN more) /\ JsonDepth(more, q) = JsonDepth(r, q)
    <2>1. \A k \in DOMAIN q : more[q[k]] = r[q[k]]
      BY <1>1
    <2>2. {k \in DOMAIN q : more[q[k]] = "lbrace"} = {k \in DOMAIN q : r[q[k]] = "lbrace"}
      BY <2>1
    <2>3. q \in Seq(DOMAIN more)
      BY <1>2
    <2> QED BY <2>2, <2>3 DEF JsonDepth
  <1>6. Len(r) + 1 \in DOMAIN more /\ \A n \in DOMAIN r : n \in 1..Len(r)
    BY <1>1
  <1> HIDE DEF m
  <1>7. JsonOpened(r) # {} => \A s : JsonFirst(more, s) <=> JsonFirst(r, s)
    BY <1>4
  <1>8. \A q \in Seq(DOMAIN r) : /\ q \in Seq(DOMAIN more)
                                /\ JsonDepth(more, q) = JsonDepth(r, q)
    BY <1>5
  <1> QED BY <1>1, <1>2, <1>3, <1>6, <1>7, <1>8, Zenon DEF more, m

\* How many braces are open when one bracket more is, and when the last is closed.
LEMMA JsonDepths ==
    ASSUME NEW r \in Seq(Json!Chars), NEW q \in Seq(DOMAIN r)
    PROVE  /\ JsonDepth(r, q) \in Nat /\ JsonDepth(r, <<>>) = 0
           /\ \A b \in DOMAIN r : JsonDepth(r, Append(q, b)) =
                  IF r[b] = "lbrace" THEN JsonDepth(r, q) + 1 ELSE JsonDepth(r, q)
  <1>1. ASSUME NEW p \in Seq(DOMAIN r)
        PROVE  IsFiniteSet({k \in DOMAIN p : r[p[k]] = "lbrace"}) /\ JsonDepth(r, p) \in Nat
    <2>1. DOMAIN p = 1..Len(p) /\ Len(p) \in Nat
      OBVIOUS
    <2>2. IsFiniteSet(DOMAIN p)
      BY <2>1, FS_Interval
    <2>3. IsFiniteSet({k \in DOMAIN p : r[p[k]] = "lbrace"})
      BY <2>2, FS_Subset
    <2> QED BY <2>3, FS_CardinalityType DEF JsonDepth
  <1>2. JsonDepth(r, <<>>) = 0
    <2>1. {k \in DOMAIN <<>> : r[<<>>[k]] = "lbrace"} = {}
      OBVIOUS
    <2> QED BY <2>1, FS_EmptySet DEF JsonDepth
  <1>3. ASSUME NEW b \in DOMAIN r
        PROVE  JsonDepth(r, Append(q, b)) =
                  IF r[b] = "lbrace" THEN JsonDepth(r, q) + 1 ELSE JsonDepth(r, q)
    <2> DEFINE more == Append(q, b)
               S == {k \in DOMAIN q : r[q[k]] = "lbrace"}
    <2>1. /\ DOMAIN q = 1..Len(q) /\ DOMAIN more = 1..(Len(q) + 1) /\ Len(q) \in Nat
          /\ more[Len(q) + 1] = b /\ \A k \in DOMAIN q : more[k] = q[k]
      OBVIOUS
    <2> HIDE DEF more
    <2> DEFINE m == Len(q) + 1
    <2>5. /\ DOMAIN more = DOMAIN q \cup {m} /\ m \notin DOMAIN q /\ more[m] = b
          /\ \A k \in DOMAIN q : r[more[k]] = r[q[k]]
      BY <2>1
    <2>2. {k \in DOMAIN more : r[more[k]] = "lbrace"} = IF r[b] = "lbrace" THEN S \cup {m} ELSE S
      <3> HIDE DEF m
      <3>1. \A k : k \in {j \in DOMAIN more : r[more[j]] = "lbrace"} <=>
                   k \in S \/ (k = m /\ r[b] = "lbrace")
        BY <2>5, Zenon
      <3>2. CASE r[b] = "lbrace"
        BY <3>1, <3>2, Zenon
      <3>3. CASE r[b] # "lbrace"
        BY <3>1, <3>3, Zenon
      <3> QED BY <3>2, <3>3
    <2>3. Len(q) + 1 \notin S /\ IsFiniteSet(S)
      <3>1. IsFiniteSet(S)
        BY <1>1
      <3> QED BY <2>5, <3>1
    <2>4. Cardinality(S \cup {Len(q) + 1}) = Cardinality(S) + 1
      <3> HIDE DEF S
      <3> QED BY <2>3, FS_AddElement
    <2> QED BY <2>2, <2>4 DEF JsonDepth, more
  <1> QED BY <1>1, <1>2, <1>3

\* A quote: a string begins or ends.
JsonTurned(r, m, q, s) ==
    \A t, u \in BOOLEAN : JsonInside(r, q, s, t) /\ u # t => JsonInside(m, q, s, u)

\* A brace is closed: the outermost one ends the scan.
JsonShut(r, m, q, s) ==
    /\ JsonDepth(r, q) = 0 => JsonAt(m, s).end = Len(m)
    /\ JsonDepth(r, q) # 0 => JsonInside(m, q, s, FALSE)

\* What a character does to the scan inside the outermost object, and after it.
LEMMA JsonMore ==
    ASSUME NEW r \in Seq(Json!Chars), NEW c \in Json!Chars, NEW s \in DOMAIN r,
           NEW m, m = Append(r, c)
    PROVE  /\ JsonAt(r, s).end # 0 => JsonAt(m, s).end = JsonAt(r, s).end
           /\ \A q \in Seq(DOMAIN r) :
                /\ JsonInside(r, q, s, TRUE) /\ c \notin {"quote", "backslash"}
                      => JsonInside(m, q, s, TRUE)
                /\ c = "quote" => JsonTurned(r, m, q, s)
                /\ JsonInside(r, q, s, FALSE) /\ c \in {"lbrace", "lbracket"}
                      => JsonInside(m, Append(q, Len(m)), s, FALSE)
                /\ \A b \in DOMAIN r : 
                     JsonInside(r, Append(q, b), s, FALSE) /\ r[b] = "lbracket" /\ c = "rbracket"
                       => JsonInside(m, q, s, FALSE)
                /\ \A b \in DOMAIN r : 
                     JsonInside(r, Append(q, b), s, FALSE) /\ r[b] = "lbrace" /\ c = "rbrace"
                       => JsonShut(r, m, q, s)
  <1> DEFINE at == JsonAt(r, s)
             now == JsonAt(m, s)
  <1>1. /\ m \in Seq(Json!Chars) /\ Len(m) = Len(r) + 1 /\ Len(r) \in Nat
        /\ DOMAIN r \subseteq DOMAIN m /\ Len(m) \in DOMAIN m /\ m[Len(m)] = c
        /\ \A q \in Seq(DOMAIN r) : q \in Seq(DOMAIN m) /\ JsonDepth(m, q) = JsonDepth(r, q)
    <2>1. /\ m \in Seq(Json!Chars) /\ Len(m) = Len(r) + 1 /\ m[Len(r) + 1] = c
          /\ DOMAIN r \subseteq DOMAIN m /\ Len(r) + 1 \in DOMAIN m
      BY JsonAdds, Zenon
    <2>2. \A q \in Seq(DOMAIN r) : q \in Seq(DOMAIN m) /\ JsonDepth(m, q) = JsonDepth(r, q)
      <3>1. \A q \in Seq(DOMAIN r) : /\ q \in Seq(DOMAIN Append(r, c))
                                    /\ JsonDepth(Append(r, c), q) = JsonDepth(r, q)
        BY JsonAdds
      <3> QED BY <3>1
    <2>3. Len(r) \in Nat
      OBVIOUS
    <2> QED BY <2>1, <2>2, <2>3
  <1>2. at \in Json!Scan /\ now = JsonRead(at, c)
    <2>1. s \in 1..(Len(r) + 1)
      OBVIOUS
    <2> QED BY <2>1, JsonScan
  <1>3. /\ at.next \in Nat /\ at.escape \in BOOLEAN /\ at.string \in BOOLEAN
        /\ at.depth \in Int /\ at.end \in Nat
    BY <1>2 DEF Json!Scan
  <1>4. /\ now.next = at.next + 1
        /\ now.escape = (~at.escape /\ at.string /\ c = "backslash")
        /\ now.string = (IF c = "quote" /\ ~at.escape THEN ~at.string ELSE at.string)
        /\ at.escape \/ at.string => now.depth = at.depth
        /\ ~at.escape /\ ~at.string =>
             now.depth = IF c = "lbrace" THEN at.depth + 1
                         ELSE IF c = "rbrace" THEN at.depth - 1 ELSE at.depth
        /\ now.end = IF /\ at.end = 0 /\ ~at.escape /\ ~at.string /\ c = "rbrace"
                        /\ at.depth = 1
                     THEN at.next ELSE at.end
    <2>1. /\ JsonRead(at, c).next = at.next + 1
          /\ JsonRead(at, c).escape = (~at.escape /\ at.string /\ c = "backslash")
          /\ JsonRead(at, c).string = (IF c = "quote" /\ ~at.escape THEN ~at.string
                                                                   ELSE at.string)
          /\ at.escape \/ at.string => JsonRead(at, c).depth = at.depth
          /\ ~at.escape /\ ~at.string =>
               JsonRead(at, c).depth = IF c = "lbrace" THEN at.depth + 1
                                       ELSE IF c = "rbrace" THEN at.depth - 1 ELSE at.depth
          /\ JsonRead(at, c).end =
               IF /\ at.end = 0 /\ ~at.escape /\ ~at.string /\ c = "rbrace"
                  /\ at.depth = 1
               THEN at.next ELSE at.end
      <3> HIDE DEF at
      <3> QED BY <1>2, JsonReads
    <2> QED BY <1>2, <2>1, Zenon
  <1> HIDE DEF at, now
  <1>5. at.end # 0 => now.end = at.end
    BY <1>4
  <1>6. \A q, t : JsonInside(r, q, s, t) <=>
          /\ at.next = Len(r) + 1 /\ ~at.escape /\ at.string = t /\ at.end = 0
          /\ at.depth = JsonDepth(r, q)
    BY DEF JsonInside, at
  <1>7. \A q, t : JsonInside(m, q, s, t) <=>
          /\ now.next = Len(m) + 1 /\ ~now.escape /\ now.string = t /\ now.end = 0
          /\ now.depth = JsonDepth(m, q)
    BY DEF JsonInside, now
  <1>8. ASSUME NEW q \in Seq(DOMAIN r), JsonInside(r, q, s, TRUE), c \notin {"quote", "backslash"}
        PROVE  JsonInside(m, q, s, TRUE)
    BY <1>1, <1>4, <1>6, <1>7, <1>8
  <1>9. ASSUME NEW q \in Seq(DOMAIN r), NEW t \in BOOLEAN, NEW u \in BOOLEAN, u # t,
               JsonInside(r, q, s, t), c = "quote"
        PROVE  JsonInside(m, q, s, u)
    <2>1. /\ at.next = Len(r) + 1 /\ ~at.escape /\ at.string = t /\ at.end = 0
          /\ at.depth = JsonDepth(r, q)
      BY <1>6, <1>9
    <2>2. now.next = Len(m) + 1 /\ ~now.escape /\ now.string = ~at.string
      BY <1>1, <1>4, <1>9, <2>1
    <2>3. now.string = u
      BY <1>3, <1>9, <2>1, <2>2
    <2>4. now.depth = JsonDepth(m, q) /\ now.end = 0
      BY <1>1, <1>4, <1>9, <2>1
    <2> QED BY <1>7, <2>2, <2>3, <2>4
  <1>10. ASSUME NEW q \in Seq(DOMAIN r), JsonInside(r, q, s, FALSE), c \in {"lbrace", "lbracket"}
        PROVE  JsonInside(m, Append(q, Len(m)), s, FALSE)
    <2>1. JsonDepth(m, Append(q, Len(m))) = IF c = "lbrace" THEN JsonDepth(r, q) + 1
                                                      ELSE JsonDepth(r, q)
      <3>1. q \in Seq(DOMAIN m) /\ m \in Seq(Json!Chars) /\ Len(m) \in DOMAIN m
        BY <1>1
      <3>2. JsonDepth(m, Append(q, Len(m))) = IF m[Len(m)] = "lbrace" THEN JsonDepth(m, q) + 1
                                                               ELSE JsonDepth(m, q)
        BY <3>1, JsonDepths
      <3> QED BY <1>1, <3>2
    <2> QED BY <1>1, <1>4, <1>6, <1>7, <1>10, <2>1
  <1>11. ASSUME NEW q \in Seq(DOMAIN r), NEW b \in DOMAIN r,
                JsonInside(r, Append(q, b), s, FALSE), r[b] = "lbracket", c = "rbracket"
        PROVE  JsonInside(m, q, s, FALSE)
    <2>1. JsonDepth(r, Append(q, b)) = JsonDepth(r, q)
      BY <1>11, JsonDepths
    <2> QED BY <1>1, <1>4, <1>6, <1>7, <1>11, <2>1
  <1>12. ASSUME NEW q \in Seq(DOMAIN r), NEW b \in DOMAIN r,
                JsonInside(r, Append(q, b), s, FALSE), r[b] = "lbrace", c = "rbrace"
        PROVE  JsonShut(r, m, q, s)
    <2>1. JsonDepth(r, Append(q, b)) = JsonDepth(r, q) + 1 /\ JsonDepth(r, q) \in Nat
      BY <1>12, JsonDepths
    <2>4. /\ at.next = Len(m) /\ ~at.escape /\ ~at.string /\ at.end = 0
          /\ at.depth = JsonDepth(r, q) + 1
      BY <1>1, <1>6, <1>12, <2>1
    <2>5. /\ now.next = Len(m) + 1 /\ ~now.escape /\ now.string = FALSE
          /\ now.depth = at.depth - 1
      <3>1. now.next = at.next + 1 /\ ~now.escape /\ now.string = at.string
        BY <1>4, <1>12, <2>4, Zenon
      <3>2. now.depth = at.depth - 1
        BY <1>4, <1>12, <2>4, Zenon
      <3>3. at.string = FALSE
        BY <1>3, <2>4, Zenon
      <3> QED BY <2>4, <3>1, <3>2, <3>3
    <2>6. now.end = IF at.depth = 1 THEN Len(m) ELSE 0
      <3>1. now.end = IF at.depth = 1 THEN at.next ELSE at.end
        BY <1>4, <1>12, <2>4, Zenon
      <3> QED BY <2>4, <3>1
    <2>7. at.depth - 1 = JsonDepth(r, q) /\ (at.depth = 1 <=> JsonDepth(r, q) = 0)
      <3> DEFINE d == JsonDepth(r, q)
      <3>1. at.depth = d + 1 /\ d \in Nat
        BY <2>1, <2>4
      <3> HIDE DEF d
      <3>2. at.depth - 1 = d /\ (at.depth = 1 <=> d = 0)
        BY <3>1
      <3> QED BY <3>2 DEF d
    <2>2. CASE JsonDepth(r, q) = 0
      BY <2>2, <2>6, <2>7 DEF JsonShut, now
    <2>3. CASE JsonDepth(r, q) # 0
      <3>1. JsonDepth(m, q) = JsonDepth(r, q)
        BY <1>1
      <3> QED BY <1>7, <2>3, <2>5, <2>6, <2>7, <3>1 DEF JsonShut
    <2> QED BY <2>2, <2>3
  <1>13. ASSUME NEW q \in Seq(DOMAIN r), c = "quote" PROVE JsonTurned(r, m, q, s)
    BY <1>9, <1>13 DEF JsonTurned
  <1> QED BY <1>5, <1>8, <1>10, <1>11, <1>12, <1>13 DEF at, now

JsonOutermost(q, s) == q # <<>> => s = q[1]

\* Any character but an opening bracket, and any at all after the first, keeps the shape.
LEMMA JsonShaped ==
    ASSUME NEW r, NEW q, NEW O, JsonShape(r, q, O),
           NEW c \in Json!Chars, c \in {"lbrace", "lbracket"} => JsonOpened(r) # {}, NEW m, m = Append(r, c)
    PROVE  /\ JsonShape(m, q, O)
           /\ \A s : JsonFirst(m, s) /\ m[s] = "lbrace" =>
                       /\ JsonFirst(r, s) /\ r[s] = "lbrace" /\ s \in DOMAIN r
                       /\ JsonOutermost(q, s)
  <1>1. /\ r \in Seq(Json!Chars) /\ q \in Seq(DOMAIN r)
        /\ JsonOpened(r) = {} => q = <<>> /\ O = {}
        /\ q # <<>> => JsonFirst(r, q[1])
        /\ \A k \in DOMAIN q : q[k] \in JsonOpened(r) /\ (k # 1 => q[1] < q[k])
    BY DEF JsonShape
  <1>2. /\ m \in Seq(Json!Chars) /\ q \in Seq(DOMAIN m) /\ \A n \in DOMAIN r : m[n] = r[n]
    <2>1. m \in Seq(Json!Chars) /\ \A n \in DOMAIN r : m[n] = r[n]
      <3>1. /\ Append(r, c) \in Seq(Json!Chars)
            /\ \A n \in DOMAIN r : Append(r, c)[n] = r[n]
        BY <1>1, JsonAdds
      <3> QED BY <3>1
    <2>2. q \in Seq(DOMAIN Append(r, c))
      BY <1>1, JsonAdds
    <2> QED BY <2>1, <2>2
  <1>3. JsonOpened(m) = IF c \in {"lbrace", "lbracket"} THEN JsonOpened(r) \cup {Len(r) + 1}
                                            ELSE JsonOpened(r)
    BY <1>1, JsonAdds
  <1>4. JsonOpened(r) \subseteq JsonOpened(m) /\ (JsonOpened(m) = {} => JsonOpened(r) = {})
    BY <1>3
  <1>5. \A s : JsonFirst(m, s) <=> JsonFirst(r, s)
    <2>1. CASE JsonOpened(r) # {}
      <3>1. \A s : JsonFirst(Append(r, c), s) <=> JsonFirst(r, s)
        BY <1>1, <2>1, JsonAdds
      <3> QED BY <3>1
    <2>2. CASE JsonOpened(r) = {}
      <3>1. JsonOpened(m) = {}
        BY <1>3, <2>2
      <3> QED BY <2>2, <3>1 DEF JsonFirst
    <2> QED BY <2>1, <2>2
  <1>6. JsonShape(m, q, O)
    BY <1>1, <1>2, <1>4, <1>5 DEF JsonShape
  <1>7. ASSUME NEW s, JsonFirst(m, s), m[s] = "lbrace"
        PROVE  /\ JsonFirst(r, s) /\ r[s] = "lbrace" /\ s \in DOMAIN r
               /\ JsonOutermost(q, s)
    <2>1. JsonFirst(r, s)
      BY <1>5, <1>7
    <2>2. s \in DOMAIN r
      BY <2>1 DEF JsonFirst, JsonOpened
    <2>3. ASSUME q # <<>> PROVE s = q[1]
      <3>1. JsonFirst(r, q[1]) /\ q[1] \in DOMAIN r
        BY <1>1, <2>3 DEF JsonFirst, JsonOpened
      <3>2. s <= q[1] /\ q[1] <= s /\ s \in Int /\ q[1] \in Int
        <4>1. \A n \in DOMAIN r : n \in Int
          <5>1. r \in Seq(Json!Chars)
            BY <1>1
          <5> QED BY <5>1
        <4> QED BY <2>1, <2>2, <3>1, <4>1 DEF JsonFirst
      <3> DEFINE z == q[1]
      <3>3. s <= z /\ z <= s /\ s \in Int /\ z \in Int
        BY <3>2
      <3> HIDE DEF z
      <3>4. s = z
        BY <3>3
      <3> QED BY <3>4 DEF z
    <2> QED BY <1>2, <1>7, <2>1, <2>2, <2>3 DEF JsonOutermost
  <1> QED BY <1>6, <1>7

\* Inside the outermost bracket, any character at all.
JsonStays(r, m, q, O) ==
    /\ JsonShape(m, q, O)
    /\ \A s : JsonFirst(m, s) /\ m[s] = "lbrace" =>
                /\ JsonFirst(r, s) /\ r[s] = "lbrace" /\ s \in DOMAIN r
                /\ JsonOutermost(q, s)

LEMMA JsonWithin ==
    ASSUME NEW r, NEW q, NEW O, JsonShape(r, q, O), JsonOpened(r) # {}, NEW c \in Json!Chars
    PROVE  JsonStays(r, Append(r, c), q, O)
  <1> DEFINE m == Append(r, c)
  <1>1. /\ JsonShape(m, q, O)
        /\ \A s : JsonFirst(m, s) /\ m[s] = "lbrace" =>
                    /\ JsonFirst(r, s) /\ r[s] = "lbrace" /\ s \in DOMAIN r
                    /\ JsonOutermost(q, s)
    BY JsonShaped
  <1> QED BY <1>1 DEF JsonStays

\* After the object, whatever follows.
LEMMA JsonProse ==
    ASSUME NEW r, NEW O, JsonGood(r, <<>>, FALSE, O),
           NEW c \in Json!Chars, c \in {"lbrace", "lbracket"} => JsonOpened(r) # {}
    PROVE  JsonGood(Append(r, c), <<>>, FALSE, O)
  <1> DEFINE m == Append(r, c)
  <1>1. JsonShape(r, <<>>, O) /\ r \in Seq(Json!Chars)
    BY DEF JsonGood, JsonShape
  <1>2. /\ JsonShape(m, <<>>, O)
        /\ \A s : JsonFirst(m, s) /\ m[s] = "lbrace" =>
                    JsonFirst(r, s) /\ r[s] = "lbrace" /\ s \in DOMAIN r
    BY <1>1, JsonShaped
  <1>3. ASSUME NEW s, JsonFirst(m, s), m[s] = "lbrace" PROVE JsonOuter(m, <<>>, FALSE, O, s)
    <2>1. JsonFirst(r, s) /\ r[s] = "lbrace" /\ s \in DOMAIN r
      BY <1>2, <1>3
    <2>2. JsonAt(r, s).end # 0 /\ <<s, JsonAt(r, s).end>> \in O
      BY <2>1 DEF JsonGood, JsonOuter
    <2>3. JsonAt(m, s).end = JsonAt(r, s).end
      BY <1>1, <2>1, <2>2, JsonMore
    <2> QED BY <2>2, <2>3 DEF JsonOuter
  <1> HIDE DEF m
  <1>4. JsonGood(m, <<>>, FALSE, O)
    BY <1>2, <1>3 DEF JsonGood
  <1> QED BY <1>4 DEF m

\* A quote inside the object, which opens or closes a string.
LEMMA JsonQuote ==
    ASSUME NEW r, NEW q, NEW t, NEW O, JsonGood(r, q, t, O), q # <<>>,
           NEW u, u \in BOOLEAN, u # t, NEW c, c \in Json!Chars, c = "quote"
    PROVE  JsonGood(Append(r, c), q, u, O)
  <1> DEFINE m == Append(r, c)
  <1>1. /\ JsonShape(r, q, O) /\ r \in Seq(Json!Chars) /\ q \in Seq(DOMAIN r)
        /\ t \in BOOLEAN
    <2>1. JsonShape(r, q, O)
      BY DEF JsonGood
    <2>2. r \in Seq(Json!Chars) /\ q \in Seq(DOMAIN r) /\ t \in BOOLEAN
      BY <2>1 DEF JsonGood, JsonShape
    <2> QED BY <2>1, <2>2
  <1>2. /\ JsonShape(m, q, O)
        /\ \A s : JsonFirst(m, s) /\ m[s] = "lbrace" =>
                    JsonFirst(r, s) /\ r[s] = "lbrace" /\ s \in DOMAIN r
    BY <1>1, JsonShaped
  <1>3. ASSUME NEW s, JsonFirst(m, s), m[s] = "lbrace" PROVE JsonOuter(m, q, u, O, s)
    <2>1. JsonFirst(r, s) /\ r[s] = "lbrace" /\ s \in DOMAIN r
      BY <1>2, <1>3
    <2>2. JsonInside(r, q, s, t) /\ \A o \in O : o[1] # s
      BY <2>1 DEF JsonGood, JsonOuter
    <2>3. JsonInside(m, q, s, u)
      <3>1. JsonTurned(r, m, q, s)
        BY <1>1, <2>1, JsonMore
      <3> QED BY <1>1, <2>2, <3>1, Zenon DEF JsonTurned
    <2> QED BY <2>2, <2>3 DEF JsonOuter
  <1> HIDE DEF m
  <1>4. JsonGood(m, q, u, O)
    BY <1>2, <1>3 DEF JsonGood
  <1> QED BY <1>4 DEF m

\* A character in a string.
LEMMA JsonLetter ==
    ASSUME NEW r, NEW q, NEW O, JsonGood(r, q, TRUE, O), NEW c \in Json!Chars,
           c \notin {"quote", "backslash"}
    PROVE  JsonGood(Append(r, c), q, TRUE, O)
  <1> DEFINE m == Append(r, c)
  <1>1. /\ JsonShape(r, q, O) /\ r \in Seq(Json!Chars) /\ q \in Seq(DOMAIN r)
        /\ q # <<>> /\ JsonOpened(r) # {}
    BY DEF JsonGood, JsonShape
  <1>2. /\ JsonShape(m, q, O)
        /\ \A s : JsonFirst(m, s) /\ m[s] = "lbrace" =>
                    JsonFirst(r, s) /\ r[s] = "lbrace" /\ s \in DOMAIN r
    BY <1>1, JsonShaped
  <1>3. ASSUME NEW s, JsonFirst(m, s), m[s] = "lbrace" PROVE JsonOuter(m, q, TRUE, O, s)
    <2>1. JsonFirst(r, s) /\ r[s] = "lbrace" /\ s \in DOMAIN r
      BY <1>2, <1>3
    <2>2. JsonInside(r, q, s, TRUE) /\ \A o \in O : o[1] # s
      BY <1>1, <2>1 DEF JsonGood, JsonOuter
    <2>3. JsonInside(m, q, s, TRUE)
      BY <1>1, <2>1, <2>2, JsonMore
    <2> QED BY <1>1, <2>2, <2>3 DEF JsonOuter
  <1> HIDE DEF m
  <1>4. JsonGood(m, q, TRUE, O)
    BY <1>2, <1>3 DEF JsonGood
  <1> QED BY <1>4 DEF m

\* A backslash in a string and the character after it.
LEMMA JsonEscaped ==
    ASSUME NEW r, NEW q, NEW O, JsonGood(r, q, TRUE, O), NEW c \in Json!Chars,
           NEW m, m = Append(Append(r, "backslash"), c)
    PROVE  JsonGood(m, q, TRUE, O)
  <1> DEFINE h == Append(r, "backslash")
  <1>1. /\ JsonShape(r, q, O) /\ r \in Seq(Json!Chars) /\ q \in Seq(DOMAIN r)
        /\ q # <<>> /\ JsonOpened(r) # {} /\ "backslash" \in Json!Chars
    BY DEF JsonGood, JsonShape, Json!Chars
  <1>2. /\ JsonShape(h, q, O)
        /\ \A s : JsonFirst(h, s) /\ h[s] = "lbrace" =>
                    JsonFirst(r, s) /\ r[s] = "lbrace" /\ s \in DOMAIN r
    BY <1>1, JsonShaped
  <1>3. /\ Len(h) = Len(r) + 1 /\ Len(m) = Len(h) + 1 /\ Len(r) \in Nat
        /\ h \in Seq(Json!Chars) /\ DOMAIN r \subseteq DOMAIN h
        /\ JsonOpened(h) = JsonOpened(r) /\ q \in Seq(DOMAIN h)
        /\ JsonDepth(h, q) = JsonDepth(r, q)
    <2>1. /\ h \in Seq(Json!Chars) /\ Len(h) = Len(r) + 1 /\ DOMAIN r \subseteq DOMAIN h
          /\ JsonOpened(h) = JsonOpened(r)
      BY <1>1, JsonAdds
    <2>2. q \in Seq(DOMAIN h) /\ JsonDepth(h, q) = JsonDepth(r, q)
      BY <1>1, JsonAdds
    <2> HIDE DEF h
    <2>3. Len(m) = Len(h) + 1 /\ Len(r) \in Nat
      BY <1>1, <2>1 DEF h
    <2> QED BY <2>1, <2>2, <2>3
  <1> HIDE DEF h
  <1>4. /\ JsonShape(m, q, O)
        /\ \A s : JsonFirst(m, s) /\ m[s] = "lbrace" =>
                    JsonFirst(h, s) /\ h[s] = "lbrace" /\ s \in DOMAIN h
    <2>1. m = Append(h, c)
      BY DEF h
    <2> QED BY <1>1, <1>2, <1>3, <2>1, JsonShaped
  <1>5. ASSUME NEW s, JsonFirst(m, s), m[s] = "lbrace" PROVE JsonOuter(m, q, TRUE, O, s)
    <2> DEFINE at == JsonAt(r, s)
               mid == JsonAt(h, s)
               now == JsonAt(m, s)
    <2>1. JsonFirst(r, s) /\ r[s] = "lbrace" /\ s \in DOMAIN r /\ s \in DOMAIN h
      BY <1>2, <1>4, <1>5
    <2>2. JsonInside(r, q, s, TRUE) /\ \A o \in O : o[1] # s
      BY <1>1, <2>1 DEF JsonGood, JsonOuter
    <2>3. at \in Json!Scan /\ mid = JsonRead(at, "backslash")
      <3>1. s \in 1..(Len(r) + 1)
        BY <1>1, <2>1
      <3> QED BY <1>1, <3>1, JsonScan DEF h
    <2>4. mid \in Json!Scan /\ now = JsonRead(mid, c)
      <3>1. s \in 1..(Len(h) + 1)
        BY <1>3, <2>1
      <3>2. m = Append(h, c)
        BY DEF h
      <3> QED BY <1>3, <3>1, <3>2, JsonScan
    <2> HIDE DEF at, mid, now
    <2>5. /\ at.next = Len(r) + 1 /\ ~at.escape /\ at.string = TRUE /\ at.end = 0
          /\ at.depth = JsonDepth(r, q)
      BY <2>2 DEF JsonInside, at
    <2>6. /\ mid.next = Len(h) + 1 /\ mid.escape /\ mid.string = TRUE
          /\ mid.depth = JsonDepth(h, q) /\ mid.end = 0
      <3>1. /\ mid.next = at.next + 1 /\ mid.escape = (~at.escape /\ at.string)
            /\ mid.string = at.string /\ mid.depth = at.depth /\ mid.end = at.end
        BY <2>3, <2>5, JsonReads
      <3> QED BY <1>3, <2>5, <3>1
    <2>7. /\ now.next = mid.next + 1 /\ ~now.escape /\ now.string = TRUE
          /\ now.depth = mid.depth /\ now.end = 0
      <3>1. /\ now.next = mid.next + 1
            /\ now.escape = (~mid.escape /\ mid.string /\ c = "backslash")
            /\ now.string = IF c = "quote" /\ ~mid.escape THEN ~mid.string ELSE mid.string
            /\ mid.escape \/ mid.string => now.depth = mid.depth
            /\ now.end = IF /\ mid.end = 0 /\ ~mid.escape /\ ~mid.string
                            /\ c = "rbrace" /\ mid.depth = 1
                         THEN mid.next ELSE mid.end
        BY <2>4, JsonReads
      <3> QED BY <2>6, <3>1
    <2>8. JsonDepth(m, q) = JsonDepth(h, q)
      <3>1. m = Append(h, c)
        BY DEF h
      <3>2. \A z \in Seq(DOMAIN h) : JsonDepth(Append(h, c), z) = JsonDepth(h, z)
        BY <1>3, JsonAdds
      <3> QED BY <1>3, <3>1, <3>2
    <2>9. JsonInside(m, q, s, TRUE)
      BY <1>3, <2>6, <2>7, <2>8 DEF JsonInside, now
    <2> QED BY <1>1, <2>2, <2>9 DEF JsonOuter
  <1>6. JsonGood(m, q, TRUE, O)
    BY <1>4, <1>5 DEF JsonGood
  <1> QED BY <1>6

\* A bracket is opened: the first of all, or one inside it.
LEMMA JsonOpens ==
    ASSUME NEW r, NEW q, NEW O, JsonGood(r, q, FALSE, O), JsonOpened(r) # {} => q # <<>>,
           NEW c \in {"lbrace", "lbracket"}, NEW m, m = Append(r, c), NEW n, n = Len(m)
    PROVE  JsonGood(m, Append(q, n), FALSE, O)
  <1> DEFINE p == Append(q, n)
  <1>1. /\ r \in Seq(Json!Chars) /\ q \in Seq(DOMAIN r) /\ c \in Json!Chars
        /\ JsonOpened(r) = {} => q = <<>> /\ O = {}
        /\ q # <<>> => JsonFirst(r, q[1])
        /\ \A k \in DOMAIN q : q[k] \in JsonOpened(r) /\ (k # 1 => q[1] < q[k])
    BY DEF JsonGood, JsonShape, Json!Chars
  <1>2. /\ m \in Seq(Json!Chars) /\ n = Len(r) + 1 /\ m[n] = c /\ DOMAIN r \subseteq DOMAIN m
        /\ n \in DOMAIN m /\ \A k \in DOMAIN r : m[k] = r[k] /\ k \in Int /\ k < n
        /\ JsonOpened(m) = JsonOpened(r) \cup {n} /\ n \in Nat
    <2>1. /\ Append(r, c) \in Seq(Json!Chars) /\ Len(Append(r, c)) = Len(r) + 1
          /\ Append(r, c)[Len(r) + 1] = c /\ DOMAIN r \subseteq DOMAIN Append(r, c)
          /\ Len(r) + 1 \in DOMAIN Append(r, c)
          /\ \A k \in DOMAIN r : Append(r, c)[k] = r[k] /\ k \in 1..Len(r)
          /\ JsonOpened(Append(r, c)) = JsonOpened(r) \cup {Len(r) + 1}
      BY <1>1, JsonAdds
    <2>2. Len(r) \in Nat
      BY <1>1
    <2> QED BY <2>1, <2>2
  <1>3. \A s : JsonOpened(r) # {} => (JsonFirst(m, s) <=> JsonFirst(r, s))
    <2>1. JsonOpened(r) # {} => \A s : JsonFirst(Append(r, c), s) <=> JsonFirst(r, s)
      BY <1>1, JsonAdds
    <2> QED BY <2>1
  <1>4. /\ p \in Seq(DOMAIN m) /\ p # <<>> /\ DOMAIN p = DOMAIN q \cup {Len(q) + 1}
        /\ p[Len(q) + 1] = n /\ \A k \in DOMAIN q : p[k] = q[k]
        /\ q = <<>> => p[1] = n /\ DOMAIN p = {1}
        /\ q # <<>> => p[1] = q[1] /\ 1 \in DOMAIN q
    BY <1>1, <1>2
  <1> HIDE DEF p
  <1>5. JsonOpened(r) = {} => JsonFirst(m, n) /\ p[1] = n
    <2>1. SUFFICES ASSUME JsonOpened(r) = {} PROVE JsonFirst(m, n) /\ p[1] = n
      OBVIOUS
    <2>2. JsonOpened(m) = {n} /\ q = <<>>
      BY <1>1, <1>2, <2>1
    <2> QED BY <1>2, <1>4, <2>2 DEF JsonFirst
  <1>6. JsonShape(m, p, O)
    <2>1. JsonFirst(m, p[1])
      <3>1. CASE JsonOpened(r) = {}
        BY <1>5, <3>1
      <3>2. CASE JsonOpened(r) # {}
        BY <1>1, <1>3, <1>4, <3>2
      <3> QED BY <3>1, <3>2
    <2>2. ASSUME NEW k \in DOMAIN p PROVE p[k] \in JsonOpened(m) /\ (k # 1 => p[1] < p[k])
      <3>1. CASE k \in DOMAIN q
        <4>1. q # <<>>
          BY <1>1, <3>1
        <4> QED BY <1>1, <1>2, <1>4, <3>1, <4>1
      <3>2. CASE k = Len(q) + 1
        <4>1. p[k] = n
          BY <1>4, <3>2
        <4>2. CASE q = <<>>
          BY <1>2, <1>4, <4>1, <4>2
        <4>3. CASE q # <<>>
          <5>1. p[1] \in DOMAIN r
            BY <1>1, <1>4, <4>3
          <5> QED BY <1>2, <4>1, <5>1
        <4> QED BY <4>2, <4>3
      <3> QED BY <1>4, <3>1, <3>2
    <2>3. JsonOpened(m) # {}
      BY <1>2
    <2> QED BY <1>2, <1>4, <2>1, <2>2, <2>3 DEF JsonShape
  <1>7. ASSUME NEW s, JsonFirst(m, s), m[s] = "lbrace" PROVE JsonOuter(m, p, FALSE, O, s)
    <2>1. CASE JsonOpened(r) # {}
      <3>1. JsonFirst(r, s) /\ q # <<>>
        BY <1>3, <1>7, <2>1
      <3>2. s \in DOMAIN r
        BY <3>1 DEF JsonFirst, JsonOpened
      <3>3. r[s] = "lbrace"
        BY <1>2, <1>7, <3>2
      <3>4. JsonInside(r, q, s, FALSE) /\ \A o \in O : o[1] # s
        BY <3>1, <3>3 DEF JsonGood, JsonOuter
      <3>5. JsonInside(m, p, s, FALSE)
        BY <1>1, <3>2, <3>4, JsonMore DEF p
      <3> QED BY <1>4, <3>4, <3>5 DEF JsonOuter
    <2>2. CASE JsonOpened(r) = {}
      <3>1. s = n /\ q = <<>> /\ O = {} /\ c = "lbrace"
        <4>1. JsonOpened(m) = {n}
          BY <1>2, <2>2
        <4>2. s = n
          BY <1>7, <4>1 DEF JsonFirst
        <4> QED BY <1>1, <1>2, <1>7, <2>2, <4>2
      <3> DEFINE at == JsonAt(r, s)
                 now == JsonAt(m, s)
      <3>2. at \in Json!Scan /\ at = JsonStart(s) /\ now = JsonRead(at, c)
        <4>1. s = Len(r) + 1 /\ s \in 1..(Len(r) + 1)
          BY <1>1, <1>2, <3>1
        <4> QED BY <1>1, <4>1, JsonScan
      <3> HIDE DEF at, now
      <3>3. at.next = s /\ ~at.escape /\ ~at.string /\ at.depth = 0 /\ at.end = 0
        BY <3>2 DEF JsonStart
      <3>4. at.escape = FALSE /\ at.string = FALSE
        BY <3>2 DEF JsonStart
      <3>5. /\ now.next = s + 1 /\ ~now.escape /\ now.string = FALSE /\ now.depth = 1
            /\ now.end = 0
        <4>1. /\ now.next = at.next + 1 /\ now.escape = (~at.escape /\ at.string /\ c = "backslash")
              /\ now.string = at.string /\ now.depth = at.depth + 1 /\ now.end = at.end
          BY <3>1, <3>2, <3>3, JsonReads
        <4>2. ~now.escape /\ now.string = FALSE
          BY <3>4, <4>1
        <4>3. now.next = s + 1 /\ now.depth = 1 /\ now.end = 0
          BY <3>3, <4>1
        <4> QED BY <4>2, <4>3
      <3>6. JsonDepth(m, p) = 1
        <4>1. <<>> \in Seq(DOMAIN m)
          OBVIOUS
        <4>2. JsonDepth(m, Append(<<>>, n)) = JsonDepth(m, <<>>) + 1 /\ JsonDepth(m, <<>>) = 0
          BY <1>2, <3>1, <4>1, JsonDepths
        <4> QED BY <3>1, <4>2 DEF p
      <3>7. JsonInside(m, p, s, FALSE)
        BY <1>2, <3>1, <3>5, <3>6 DEF JsonInside, now
      <3> QED BY <1>4, <3>1, <3>7 DEF JsonOuter
    <2> QED BY <2>1, <2>2
  <1>8. JsonGood(m, p, FALSE, O)
    BY <1>6, <1>7 DEF JsonGood
  <1> QED BY <1>8 DEF p

\* The last bracket is closed: the outermost object when none is left.
LEMMA JsonCloses ==
    ASSUME NEW r, NEW p, NEW b, NEW O, NEW q, q = Append(p, b), p \in Seq(DOMAIN r),
           b \in DOMAIN r, JsonGood(r, q, FALSE, O), NEW c,
           c \in Json!Chars, r[b] = "lbrace" => c = "rbrace", r[b] # "lbrace" => c = "rbracket",
           NEW m, m = Append(r, c), NEW W,
           W = IF r[b] = "lbrace" THEN O \cup {<<b, Len(m)>>} ELSE O
    PROVE  JsonGood(m, p, FALSE, W)
  <1>1. /\ r \in Seq(Json!Chars) /\ q \in Seq(DOMAIN r) 
        /\ JsonOpened(r) = {} => q = <<>> /\ O = {}
        /\ q # <<>> => JsonFirst(r, q[1])
        /\ \A k \in DOMAIN q : q[k] \in JsonOpened(r) /\ (k # 1 => q[1] < q[k])
        /\ JsonShape(r, q, O)
    BY DEF JsonGood, JsonShape, Json!Chars
  <1>2. /\ q # <<>> /\ DOMAIN q = DOMAIN p \cup {Len(p) + 1} /\ q[Len(p) + 1] = b
        /\ \A k \in DOMAIN p : q[k] = p[k]
        /\ p = <<>> => q[1] = b
        /\ p # <<>> => p[1] = q[1] /\ Len(p) + 1 # 1 /\ 1 \in DOMAIN p
    OBVIOUS
  <1>3. JsonOpened(r) # {} /\ c \notin {"lbrace", "lbracket"}
    BY <1>1, <1>2
  <1>4. /\ JsonShape(m, q, O)
        /\ \A s : JsonFirst(m, s) /\ m[s] = "lbrace" =>
                    /\ JsonFirst(r, s) /\ r[s] = "lbrace" /\ s \in DOMAIN r
                    /\ s = q[1]
    <2>1. JsonStays(r, m, q, O)
      BY <1>1, <1>3, JsonWithin, Zenon
    <2> QED BY <1>2, <2>1 DEF JsonStays, JsonOutermost
  <1>5. /\ m \in Seq(Json!Chars) /\ p \in Seq(DOMAIN m) /\ JsonDepth(m, p) = JsonDepth(r, p)
        /\ Len(m) = Len(r) + 1 /\ Len(r) \in Nat
    <2>1. /\ m \in Seq(Json!Chars) /\ Len(m) = Len(r) + 1
      BY <1>1, JsonAdds
    <2>2. /\ p \in Seq(DOMAIN m) /\ JsonDepth(m, p) = JsonDepth(r, p)
      BY <1>1, JsonAdds
    <2> QED BY <1>1, <2>1, <2>2
  <1>6. JsonShape(m, p, W)
    <2>1. JsonOpened(m) # {} /\ JsonFirst(m, q[1])
          /\ \A k \in DOMAIN q : q[k] \in JsonOpened(m) /\ (k # 1 => q[1] < q[k])
      BY <1>2, <1>4 DEF JsonShape
    <2>2. ASSUME NEW k \in DOMAIN p PROVE p[k] \in JsonOpened(m) /\ (k # 1 => p[1] < p[k])
      <3>1. p # <<>> /\ k \in DOMAIN q /\ p[k] = q[k] /\ p[1] = q[1]
        BY <1>2
      <3> QED BY <2>1, <3>1
    <2>3. p # <<>> => JsonFirst(m, p[1])
      BY <1>2, <2>1
    <2> QED BY <1>5, <2>1, <2>2, <2>3 DEF JsonShape
  <1>7. ASSUME NEW s, JsonFirst(m, s), m[s] = "lbrace" PROVE JsonOuter(m, p, FALSE, W, s)
    <2>1. JsonFirst(r, s) /\ r[s] = "lbrace" /\ s \in DOMAIN r /\ s = q[1]
      BY <1>4, <1>7
    <2>2. JsonInside(r, q, s, FALSE) /\ \A o \in O : o[1] # s
      BY <1>2, <2>1 DEF JsonGood, JsonOuter
    <2>3. CASE r[b] # "lbrace"
      <3>1. r[b] = "lbracket" /\ p # <<>> /\ c = "rbracket" /\ W = O
        <4>1. b \in JsonOpened(r)
          BY <1>1, <1>2
        <4>2. r[b] = "lbracket"
          BY <2>3, <4>1 DEF JsonOpened
        <4> QED BY <1>2, <2>1, <2>3, <4>2
      <3>2. JsonInside(m, p, s, FALSE)
        BY <1>1, <2>1, <2>2, <3>1, JsonMore
      <3> QED BY <2>2, <3>1, <3>2 DEF JsonOuter
    <2>6. ASSUME r[b] = "lbrace" PROVE JsonShut(r, m, p, s)
      BY <1>1, <2>1, <2>2, <2>6, JsonMore
    <2>4. CASE r[b] = "lbrace" /\ p = <<>>
      <3>1. JsonDepth(r, p) = 0
        BY <1>1, <2>4, JsonDepths
      <3>2. JsonAt(m, s).end = Len(m)
        BY <2>6, <2>4, <3>1 DEF JsonShut
      <3>3. Len(m) # 0 /\ <<s, Len(m)>> \in W
        BY <1>2, <1>5, <2>1, <2>4
      <3> QED BY <2>4, <3>2, <3>3 DEF JsonOuter
    <2>5. CASE r[b] = "lbrace" /\ p # <<>>
      <3>1. JsonDepth(r, p) # 0
        <4> DEFINE S == {k \in DOMAIN p : r[p[k]] = "lbrace"}
        <4>1. 1 \in S
          BY <1>2, <2>1, <2>5
        <4>2. IsFiniteSet(S)
          <5>1. DOMAIN p = 1..Len(p) /\ Len(p) \in Nat
            OBVIOUS
          <5>2. IsFiniteSet(DOMAIN p)
            BY <5>1, FS_Interval
          <5> QED BY <5>2, FS_Subset
        <4> HIDE DEF S
        <4>3. Cardinality(S) # 0
          BY <4>1, <4>2, FS_EmptySet
        <4> QED BY <4>3 DEF S, JsonDepth
      <3>2. JsonInside(m, p, s, FALSE)
        BY <2>6, <2>5, <3>1 DEF JsonShut
      <3>3. \A o \in W : o[1] # s
        <4>1. q[1] < b
          BY <1>1, <1>2, <2>5
        <4>2. b # s
          <5>1. \A n \in DOMAIN r : n \in Int
            BY <1>1
          <5> QED BY <2>1, <4>1, <5>1
        <4> QED BY <2>2, <2>5, <4>2
      <3> QED BY <2>5, <3>2, <3>3 DEF JsonOuter
    <2> QED BY <2>3, <2>4, <2>5
  <1>8. JsonGood(m, p, FALSE, W)
    BY <1>6, <1>7 DEF JsonGood
  <1> QED BY <1>8

\* At first nothing is written.
LEMMA JsonInit == Json!Init => JsonInv
  <1> SUFFICES ASSUME Json!Init PROVE JsonInv
    OBVIOUS
  <1>1. /\ reply = <<>> /\ nest = <<>> /\ quoted = FALSE /\ objects = {}
        /\ reply \in Seq(Json!Chars) /\ nest \in Seq(DOMAIN reply) /\ DOMAIN reply = {}
        /\ DOMAIN nest = {}
    BY DEF Json!Init
  <1>2. JsonOpened(reply) = {}
    BY <1>1 DEF JsonOpened
  <1>3. \A s : ~JsonFirst(reply, s)
    BY <1>2 DEF JsonFirst
  <1>4. JsonShape(reply, nest, objects)
    BY <1>1 DEF JsonShape
  <1>5. JsonGood(<<>>, <<>>, FALSE, {})
    BY <1>1, <1>3, <1>4 DEF JsonGood
  <1> QED BY <1>1, <1>5 DEF JsonInv

\* Every step keeps JsonInv.
LEMMA JsonKeeps ==
    ASSUME JsonInv, Json!Next \/ UNCHANGED jsonVars
    PROVE  JsonInv'
  <1>1. /\ JsonGood(reply, nest, quoted, objects) /\ reply \in Seq(Json!Chars)
        /\ nest \in Seq(DOMAIN reply) /\ quoted \in BOOLEAN /\ (quoted => nest # <<>>)
    BY DEF JsonInv, JsonGood, JsonShape
  <1>2. Json!Begun <=> JsonOpened(reply) # {}
    BY DEF Json!Begun, JsonOpened
  <1>3. JsonInv' <=> JsonGood(reply', nest', quoted', objects')
    BY DEF JsonInv
  <1>4. CASE UNCHANGED jsonVars
    BY <1>1, <1>3, <1>4 DEF jsonVars
  <1>5. ASSUME NEW c \in Json!Chars, Json!Prose(c) PROVE JsonInv'
    <2>1. /\ nest = <<>> /\ reply' = Append(reply, c) /\ nest' = <<>> /\ quoted' = quoted
          /\ objects' = objects /\ (c \in {"lbrace", "lbracket"} => JsonOpened(reply) # {})
      BY <1>2, <1>5 DEF Json!Prose, Json!Ended
    <2>2. quoted = FALSE
      BY <1>1, <2>1
    <2> QED BY <1>1, <1>3, <2>1, <2>2, JsonProse
  <1>6. ASSUME NEW c \in Json!Chars, NEW e \in BOOLEAN, Json!InString(c, e) PROVE JsonInv'
    <2>1. /\ quoted = TRUE /\ (c \in {"quote", "backslash"} => e) /\ nest' = nest
          /\ quoted' = quoted /\ objects' = objects
          /\ reply' = reply \o (IF e THEN <<"backslash", c>> ELSE <<c>>)
      BY <1>1, <1>6 DEF Json!InString
    <2>2. CASE e
      <3>1. "backslash" \in Json!Chars
        BY DEF Json!Chars
      <3>2. reply' = Append(Append(reply, "backslash"), c)
        <4>1. reply' = reply \o <<"backslash", c>>
          BY <2>1, <2>2
        <4> QED BY <1>1, <3>1, <4>1
      <3> QED BY <1>1, <1>3, <2>1, <3>2, JsonEscaped
    <2>3. CASE ~e
      <3>1. reply' = Append(reply, c) /\ c \notin {"quote", "backslash"}
        BY <1>1, <2>1, <2>3
      <3> QED BY <1>1, <1>3, <2>1, <3>1, JsonLetter
    <2> QED BY <2>2, <2>3
  <1>7. ASSUME NEW c \in {"lbrace", "lbracket"}, Json!OpenBracket(c) PROVE JsonInv'
    <2>1. /\ quoted = FALSE /\ (JsonOpened(reply) # {} => nest # <<>>)
          /\ reply' = Append(reply, c) /\ nest' = Append(nest, Len(reply'))
          /\ quoted' = quoted /\ objects' = objects
      BY <1>1, <1>2, <1>7 DEF Json!OpenBracket, Json!Ended
    <2> QED BY <1>1, <1>3, <2>1, JsonOpens
  <1>8. ASSUME Json!CloseBracket PROVE JsonInv'
    <2> DEFINE p == SubSeq(nest, 1, Len(nest) - 1)
               b == nest[Len(nest)]
               c == IF reply[b] = "lbrace" THEN "rbrace" ELSE "rbracket"
    <2>1. /\ quoted = FALSE /\ nest # <<>> /\ reply' = Append(reply, c) /\ nest' = p
          /\ objects' = IF reply[b] = "lbrace" THEN objects \cup {<<b, Len(reply')>>}
                                               ELSE objects
          /\ quoted' = quoted
      BY <1>1, <1>8 DEF Json!CloseBracket, Json!Last, Json!Front
    <2>2. nest = Append(p, b) /\ p \in Seq(DOMAIN reply) /\ b \in DOMAIN reply
      <3>1. PICK z \in Seq(DOMAIN reply), y \in DOMAIN reply : nest = Append(z, y)
        BY <1>1, <2>1, SequenceEmptyOrAppend
      <3>2. z = p /\ y = b
        BY <3>1
      <3> QED BY <3>1, <3>2
    <2>3. /\ c \in Json!Chars /\ (reply[b] = "lbrace" => c = "rbrace")
          /\ (reply[b] # "lbrace" => c = "rbracket")
      BY DEF Json!Chars
    <2> HIDE DEF p, b, c
    <2> QED BY <1>1, <1>3, <2>1, <2>2, <2>3, JsonCloses
  <1>9. ASSUME Json!Quote PROVE JsonInv'
    <2>1. /\ nest # <<>> /\ reply' = Append(reply, "quote") /\ quoted' = ~quoted
          /\ nest' = nest /\ objects' = objects
      BY <1>9 DEF Json!Quote
    <2>2. quoted' \in BOOLEAN /\ quoted' # quoted
      BY <1>1, <2>1
    <2>3. "quote" \in Json!Chars
      BY DEF Json!Chars
    <2>4. \A c : c \in Json!Chars /\ c = "quote" =>
               JsonGood(Append(reply, c), nest, quoted', objects)
      BY <1>1, <2>1, <2>2, JsonQuote
    <2>5. JsonGood(Append(reply, "quote"), nest, quoted', objects)
      BY <2>3, <2>4
    <2> QED BY <1>3, <2>1, <2>5
  <1> QED BY <1>4, <1>5, <1>6, <1>7, <1>8, <1>9 DEF Json!Next

\* The first of the places where a character stands.
LEMMA JsonLeast ==
    ASSUME NEW r \in Seq(Json!Chars), NEW S \in SUBSET DOMAIN r
    PROVE  /\ S # {} => Json!Min(S) \in S /\ \A n \in S : Json!Min(S) <= n
           /\ \A s \in S : (\A n \in S : s <= n) => Json!Min(S) = s
  <1>1. S \in SUBSET Nat
    OBVIOUS
  <1>2. S # {} => Json!Min(S) \in S /\ \A n \in S : Json!Min(S) <= n
    <2>1. SUFFICES ASSUME S # {} PROVE Json!Min(S) \in S /\ \A n \in S : Json!Min(S) <= n
      OBVIOUS
    <2>2. \E x \in S : \A y \in S : x <= y
      BY <1>1, <2>1, LeastNumber
    <2> QED BY <2>2 DEF Json!Min
  <1>3. ASSUME NEW s \in S, \A n \in S : s <= n PROVE Json!Min(S) = s
    <2> DEFINE z == Json!Min(S)
    <2>1. z \in S /\ z <= s
      BY <1>2
    <2>2. s <= z /\ z \in Nat /\ s \in Nat
      BY <1>1, <1>3, <2>1
    <2> HIDE DEF z
    <2>3. z = s
      BY <2>1, <2>2
    <2> QED BY <2>3 DEF z
  <1> QED BY <1>2, <1>3

\* The block from the first brace, when nothing is opened before it.
LEMMA JsonBlock ==
    ASSUME NEW r \in Seq(Json!Chars), NEW s, JsonFirst(r, s), r[s] = "lbrace"
    PROVE  Json!FindBlock(r, "lbrace", "rbrace") =
             IF JsonAt(r, s).end = 0 THEN <<>> ELSE <<s, JsonAt(r, s).end>>
  <1> DEFINE begins == {n \in DOMAIN r : r[n] = "lbrace"}
  <1>1. begins \in SUBSET DOMAIN r /\ s \in begins
    BY DEF JsonFirst, JsonOpened
  <1>2. \A n \in begins : s <= n
    BY DEF JsonFirst, JsonOpened
  <1> HIDE DEF begins
  <1>3. Json!Min(begins) = s /\ begins # {}
    BY <1>1, <1>2, JsonLeast
  <1>4. Json!FindBlock(r, "lbrace", "rbrace") =
          IF begins = {} THEN <<>>
          ELSE IF Json!Scanned(r, Json!Min(begins), "lbrace", "rbrace").end = 0 THEN <<>>
          ELSE <<Json!Min(begins), Json!Scanned(r, Json!Min(begins), "lbrace", "rbrace").end>>
    BY Zenon DEF Json!FindBlock, Json!None, begins
  <1> QED BY <1>3, <1>4, Zenon DEF JsonAt

\* Without an object nothing is parsed: a block in square brackets is not one.
LEMMA JsonNone ==
    ASSUME NEW r \in Seq(Json!Chars), Json!FindBlock(r, "lbrace", "rbrace") = <<>>
    PROVE  Json!Parsed(r) = <<>>
  <1> DEFINE block == Json!FindBlock(r, "lbracket", "rbracket")
             begins == {n \in DOMAIN r : r[n] = "lbracket"}
             end == Json!Scanned(r, Json!Min(begins), "lbracket", "rbracket").end
  <1>1. Json!Extracted(r) = block
    BY DEF Json!Extracted, Json!None
  <1>2. block = IF begins = {} THEN <<>> ELSE IF end = 0 THEN <<>> ELSE <<Json!Min(begins), end>>
    BY Zenon DEF Json!FindBlock, Json!None
  <1>3. begins # {} => Json!Min(begins) \in begins
    <2>1. begins \in SUBSET DOMAIN r
      OBVIOUS
    <2> HIDE DEF begins
    <2> QED BY <2>1, JsonLeast
  <1>4. ASSUME block # <<>> PROVE r[block[1]] # "lbrace"
    <2> DEFINE z == Json!Min(begins)
    <2>1. block = <<z, end>> /\ begins # {}
      BY <1>2, <1>4
    <2>2. z \in begins
      BY <1>3, <2>1
    <2>3. r[z] = "lbracket"
      BY <2>2
    <2> HIDE DEF block, end, z
    <2>4. block[1] = z
      BY <2>1
    <2> QED BY <2>3, <2>4
  <1> HIDE DEF block
  <1> QED BY <1>1, <1>4 DEF Json!Parsed, Json!None

\* What the invariant says of the object that is parsed.
LEMMA JsonFound == JsonInv => Json!ObjectRecovered
  <1> SUFFICES ASSUME JsonInv PROVE Json!ObjectRecovered
    OBVIOUS
  <1> DEFINE opened == JsonOpened(reply)
             first == Json!Min(opened)
             whole == {o \in objects : o[1] = first}
  <1>1. /\ reply \in Seq(Json!Chars) /\ JsonGood(reply, nest, quoted, objects)
        /\ opened \in SUBSET DOMAIN reply
    BY DEF JsonInv, JsonGood, JsonShape, JsonOpened
  <1>2. ASSUME opened # {}, reply[first] = "lbrace"
        PROVE  IF whole = {} THEN Json!Parsed(reply) = <<>> ELSE Json!Parsed(reply) \in whole
    <2> DEFINE end == JsonAt(reply, first).end
    <2>1. JsonFirst(reply, first)
      BY <1>1, <1>2, JsonLeast DEF JsonFirst
    <2>2. JsonOuter(reply, nest, quoted, objects, first)
      BY <1>1, <1>2, <2>1 DEF JsonGood
    <2>3. Json!FindBlock(reply, "lbrace", "rbrace") = IF end = 0 THEN <<>> ELSE <<first, end>>
      BY <1>1, <1>2, <2>1, JsonBlock
    <2> HIDE DEF opened, first
    <2>4. CASE nest # <<>>
      <3>1. end = 0 /\ \A o \in objects : o[1] # first
        BY <2>2, <2>4 DEF JsonOuter, JsonInside
      <3>2. Json!Parsed(reply) = <<>>
        BY <1>1, <2>3, <3>1, JsonNone
      <3> QED BY <3>1, <3>2
    <2>5. CASE nest = <<>>
      <3>1. end # 0 /\ <<first, end>> \in objects
        BY <2>2, <2>5 DEF JsonOuter
      <3> HIDE DEF end
      <3>2. <<first, end>> # <<>> /\ <<first, end>>[1] = first
        OBVIOUS
      <3>3. Json!Extracted(reply) = <<first, end>>
        BY <2>3, <3>1, <3>2 DEF Json!Extracted, Json!None
      <3>4. Json!Parsed(reply) = <<first, end>>
        BY <1>2, <3>2, <3>3 DEF Json!Parsed, Json!None
      <3> QED BY <3>1, <3>2, <3>4
    <2> QED BY <2>4, <2>5
  <1>3. ASSUME \A n \in opened : reply[n] = "lbracket" PROVE Json!Parsed(reply) = <<>>
    <2>1. {n \in DOMAIN reply : reply[n] = "lbrace"} = {}
      BY <1>3 DEF JsonOpened
    <2>2. Json!FindBlock(reply, "lbrace", "rbrace") = <<>>
      BY <2>1, Zenon DEF Json!FindBlock, Json!None
    <2> QED BY <1>1, <2>2, JsonNone
  <1>4. opened = {n \in DOMAIN reply : reply[n] \in {"lbrace", "lbracket"}}
    BY DEF JsonOpened
  <1> HIDE DEF opened
  <1> QED BY <1>2, <1>3, <1>4, Zenon DEF Json!ObjectRecovered, Json!None

\* Replies of models (parse_json_response, ai/json_utils.py): what is parsed is the
\* outermost object of the reply, however its strings and what is inside it look, and
\* never an object inside one that is cut off.
THEOREM RepliesAlwaysTaken == Spec => []RepliesTaken
  <1> DEFINE Inv == part = "json" => JsonInv
  <1>1. Init => Inv
    BY JsonInit DEF Init
  <1>2. Inv /\ [Next]_vars => Inv'
    BY JsonKeeps, PartSteps
  <1>3. Inv => RepliesTaken
    BY JsonFound DEF RepliesTaken
  <1> HIDE DEF Inv
  <1> QED BY <1>1, <1>2, <1>3, PTL DEF Spec

\* The bounds of a reply and of the objects in it.
JsonRest == Len(reply) <= MaxText /\ objects \in SUBSET ((1..MaxText) \X (1..MaxText))

\* A reply grows while there is room, and an object ends where it does.
LEMMA JsonRestKept ==
    ASSUME JsonInv, JsonRest, Json!Next \/ UNCHANGED jsonVars
    PROVE  JsonRest'
  <1> DEFINE Places == 1..MaxText
             Here == DOMAIN reply
  <1>1. /\ MaxText \in Nat /\ reply \in Seq(Json!Chars) /\ nest \in Seq(Here)
        /\ Len(reply) \in Nat /\ Here \subseteq Places
    BY ServicesAssumption DEF Json!TextAssumption, JsonInv, JsonGood, JsonShape, JsonRest
  <1>2. ASSUME NEW more \in Seq(Json!Chars), Json!Room(Len(more)), reply' = reply \o more,
               objects' = objects
        PROVE  JsonRest'
    <2>1. Len(reply') = Len(reply) + Len(more)
      BY <1>1, <1>2
    <2> QED BY <1>2, <2>1 DEF JsonRest, Json!Room
  <1>3. ASSUME NEW c \in Json!Chars, Json!Room(1), reply' = Append(reply, c)
        PROVE  Len(reply') <= MaxText /\ Len(reply') \in Places
    BY <1>1, <1>3 DEF Json!Room
  <1>4. ASSUME NEW c \in Json!Chars, Json!Room(1), reply' = Append(reply, c), objects' = objects
        PROVE  JsonRest'
    BY <1>3, <1>4 DEF JsonRest
  <1>5. CASE UNCHANGED jsonVars
    BY <1>5 DEF jsonVars, JsonRest
  <1>6. ASSUME NEW c \in Json!Chars, Json!Prose(c) PROVE JsonRest'
    BY <1>4, <1>6 DEF Json!Prose
  <1>7. ASSUME NEW c \in Json!Chars, NEW e \in BOOLEAN, Json!InString(c, e) PROVE JsonRest'
    <2>1. CASE e
      <3>1. <<"backslash", c>> \in Seq(Json!Chars) /\ Len(<<"backslash", c>>) = 2
        BY DEF Json!Chars
      <3>2. /\ Json!Room(2) /\ reply' = reply \o <<"backslash", c>> /\ objects' = objects
        BY <1>7, <2>1 DEF Json!InString
      <3> QED BY <1>2, <3>1, <3>2
    <2>2. CASE ~e
      <3>1. <<c>> \in Seq(Json!Chars) /\ Len(<<c>>) = 1
        OBVIOUS
      <3>2. Json!Room(1) /\ reply' = reply \o <<c>> /\ objects' = objects
        BY <1>7, <2>2 DEF Json!InString
      <3> QED BY <1>2, <3>1, <3>2
    <2> QED BY <2>1, <2>2
  <1>8. ASSUME NEW c \in {"lbrace", "lbracket"}, Json!OpenBracket(c) PROVE JsonRest'
    <2>1. c \in Json!Chars
      BY DEF Json!Chars
    <2> QED BY <1>4, <1>8, <2>1 DEF Json!OpenBracket
  <1>9. CASE Json!CloseBracket
    <2> DEFINE b == nest[Len(nest)]
               c == IF reply[b] = "lbrace" THEN "rbrace" ELSE "rbracket"
    <2>1. /\ Json!Room(1) /\ nest # <<>> /\ reply' = Append(reply, c)
          /\ objects' = IF reply[b] = "lbrace" THEN objects \cup {<<b, Len(reply')>>}
                                               ELSE objects
      BY <1>9 DEF Json!CloseBracket, Json!Last
    <2>2. b \in Places
      <3>1. Len(nest) \in DOMAIN nest
        BY <1>1, <2>1
      <3> QED BY <1>1, <3>1
    <2>3. c \in Json!Chars
      BY DEF Json!Chars
    <2> HIDE DEF b, c, Places
    <2>4. Len(reply') <= MaxText /\ Len(reply') \in Places
      BY <1>3, <2>1, <2>3
    <2>5. objects \in SUBSET (Places \X Places)
      BY DEF JsonRest, Places
    <2>6. objects' \in SUBSET (Places \X Places)
      BY <2>1, <2>2, <2>4, <2>5
    <2> QED BY <2>4, <2>6 DEF JsonRest, Places
  <1>10. CASE Json!Quote
    <2>1. "quote" \in Json!Chars
      BY DEF Json!Chars
    <2> QED BY <1>4, <1>10, <2>1 DEF Json!Quote
  <1> QED BY <1>5, <1>6, <1>7, <1>8, <1>9, <1>10 DEF Json!Next

\* The types of the variables of a reply.
LEMMA JsonTyped == Spec => [](part = "json" => Json!TypeOK)
  <1> DEFINE Inv == part = "json" => JsonInv /\ JsonRest
  <1>1. Init => Inv
    <2> SUFFICES ASSUME Json!Init PROVE JsonRest
      BY JsonInit DEF Init
    <2>1. Len(reply) = 0 /\ objects = {}
      BY DEF Json!Init
    <2> QED BY <2>1, ServicesAssumption DEF Json!TextAssumption, JsonRest
  <1>2. Inv /\ [Next]_vars => Inv'
    BY JsonKeeps, JsonRestKept, PartSteps
  <1>3. Inv => (part = "json" => Json!TypeOK)
    <2> SUFFICES ASSUME JsonInv, JsonRest PROVE Json!TypeOK
      OBVIOUS
    <2> DEFINE Here == DOMAIN reply
               Places == 1..MaxText
    <2>1. /\ reply \in Seq(Json!Chars) /\ nest \in Seq(Here) /\ quoted \in BOOLEAN
      BY DEF JsonInv, JsonGood, JsonShape
    <2>2. Here \subseteq Places
      BY <2>1, ServicesAssumption DEF Json!TextAssumption, JsonRest
    <2>3. nest \in Seq(Places)
      <3> HIDE DEF Here, Places
      <3> QED BY <2>1, <2>2
    <2> QED BY <2>1, <2>3 DEF JsonRest, Json!TypeOK
  <1> HIDE DEF Inv
  <1> QED BY <1>1, <1>2, <1>3, PTL DEF Spec

-----------------------------------------------------------------------------
(* Sessions                                                                *)

\* A request that came with a revoked token: the token is still on the blacklist while
\* the request waits for the check, unless the token grew old; past the check it has.
RevokedInv ==
    \A r \in Requests : visit[r].late =>
        /\ visit[r].pc = "checked" =>
              visit[r].token \in blacklist \/ life[visit[r].token] \in {"last second", "expired"}
        /\ visit[r].pc \notin {"idle", "checked"} =>
              life[visit[r].token] \in {"last second", "expired"}

\* The cache and the blacklist of a token are all that outlives a request.
SessionInv == Session!TypeOK /\ RevokedInv /\ Session!CachedProfileIsCurrent

\* A request that is not under way holds nothing.
LEMMA SessionIdle ==
    ASSUME Session!SessionAssumption
    PROVE  /\ Session!First \in Tokens
           /\ Session!Idle \in Session!RequestState
           /\ Session!Idle.pc = "idle" /\ Session!Idle.late = FALSE
  <1>1. \E t \in Tokens : \A u \in Tokens : t <= u
    BY LeastNumber DEF Session!SessionAssumption
  <1>2. Session!First \in Tokens
    BY <1>1 DEF Session!First
  <1>3. Session!Unchanged \in Session!UserType
    BY DEF Session!SessionAssumption, Session!Unchanged, Session!UserType
  <1> QED BY <1>2, <1>3 DEF Session!Idle, Session!RequestState, Session!Kinds

\* A change of the row, within the bound.
LEMMA RowChanges ==
    ASSUME Session!SessionAssumption, userRow \in Session!UserType,
           NEW side \in {"profile", "account"}, Session!Changed(side)
    PROVE  /\ userRow' \in Session!UserType
           /\ side = "account" => userRow'.profile = userRow.profile
  <1>1. /\ userRow' = [userRow EXCEPT ![side] = userRow[side] + 1]
        /\ userRow.profile + userRow.account < MaxUpdates
    BY DEF Session!Changed
  <1>2. MaxUpdates \in Nat /\ userRow.profile \in Nat /\ userRow.account \in Nat
    BY DEF Session!SessionAssumption, Session!UserType
  <1>3. CASE side = "profile"
    BY <1>1, <1>2, <1>3 DEF Session!UserType
  <1>4. CASE side = "account"
    BY <1>1, <1>2, <1>4 DEF Session!UserType
  <1> QED BY <1>3, <1>4

\* A request that moves, and what the others are at.
LEMMA SessionMoves ==
    ASSUME visit \in [Requests -> Session!RequestState], NEW r \in Requests,
           NEW s \in Session!RequestState, Session!Move(r, s)
    PROVE  /\ visit' \in [Requests -> Session!RequestState]
           /\ \A q \in Requests : visit'[q] = IF q = r THEN s ELSE visit[q]
  BY DEF Session!Move

\* At first no token is revoked and no user cached.
LEMMA SessionInit == Session!SessionAssumption /\ Session!Init => SessionInv
  <1> SUFFICES ASSUME Session!SessionAssumption, Session!Init PROVE SessionInv
    OBVIOUS
  <1>1. Session!TypeOK
    <2>1. /\ life \in [Tokens -> {"none", "live", "last second", "expired"}]
          /\ visit \in [Requests -> Session!RequestState]
      BY SessionIdle DEF Session!Init
    <2>2. userRow \in Session!UserType /\ userCache \in Session!UserType \cup {Session!NoEntry}
      BY DEF Session!Init, Session!SessionAssumption, Session!Unchanged, Session!UserType
    <2> QED BY <2>1, <2>2 DEF Session!Init, Session!TypeOK
  <1>2. RevokedInv
    BY SessionIdle DEF Session!Init, RevokedInv
  <1>3. Session!CachedProfileIsCurrent
    BY DEF Session!Init, Session!CachedProfileIsCurrent
  <1> QED BY <1>1, <1>2, <1>3 DEF SessionInv

\* A step of one request that writes neither a token nor the row nor its cached copy.
LEMMA QuietVisit ==
    ASSUME SessionInv, NEW r \in Requests, NEW s \in Session!RequestState,
           Session!Move(r, s), UNCHANGED <<redisUp, Session!TokenState, Session!CacheState>>,
           visit[r].pc # "changed", s.pc # "changed",
           s.late => /\ s.pc = "checked" =>
                           s.token \in blacklist \/ life[s.token] \in {"last second", "expired"}
                     /\ s.pc \notin {"idle", "checked"} =>
                           life[s.token] \in {"last second", "expired"}
    PROVE  SessionInv'
  <1>1. /\ visit' \in [Requests -> Session!RequestState]
        /\ \A q \in Requests : visit'[q] = IF q = r THEN s ELSE visit[q]
    BY SessionMoves DEF SessionInv, Session!TypeOK
  <1>2. UNCHANGED <<redisUp, life, blacklist, userRow, userCache, overtaken>>
    BY DEF Session!TokenState, Session!CacheState
  <1>3. Session!TypeOK'
    BY <1>1, <1>2 DEF SessionInv, Session!TypeOK
  <1>4. RevokedInv'
    BY <1>1, <1>2 DEF SessionInv, RevokedInv
  <1>5. Session!CachedProfileIsCurrent'
    BY <1>1, <1>2 DEF SessionInv, Session!CachedProfileIsCurrent, Session!Changing
  <1> QED BY <1>3, <1>4, <1>5 DEF SessionInv

\* A request arrives, is checked, and reads the user from the cache or the row.
LEMMA VisitKeepsSession ==
    ASSUME Session!SessionAssumption, SessionInv, NEW r \in Requests,
           \/ \E k \in Session!Kinds, t \in Tokens : Session!Arrive(r, k, t)
           \/ Session!CheckToken(r) \/ Session!CacheHit(r) \/ Session!ReadUser(r)
           \/ Session!ReturnMe(r)
    PROVE  SessionInv'
  <1>1. visit[r] \in Session!RequestState
    BY DEF SessionInv, Session!TypeOK
  <1>2. ASSUME NEW k \in Session!Kinds, NEW t \in Tokens, Session!Arrive(r, k, t)
        PROVE  SessionInv'
    <2> DEFINE s == [Session!Idle EXCEPT !.pc = "checked", !.kind = k, !.token = t,
                                         !.late = t \in blacklist]
    <2>1. /\ s \in Session!RequestState /\ s.pc = "checked" /\ s.token = t
          /\ s.late => t \in blacklist
      <3> DEFINE revoked == t \in blacklist
      <3>1. revoked \in BOOLEAN
        OBVIOUS
      <3>2. s = [Session!Idle EXCEPT !.pc = "checked", !.kind = k, !.token = t, !.late = revoked]
        OBVIOUS
      <3>3. revoked => t \in blacklist
        OBVIOUS
      <3> HIDE DEF revoked, s
      <3> QED BY <3>1, <3>2, <3>3, SessionIdle DEF Session!RequestState
    <2>2. Session!Move(r, s) /\ visit[r].pc = "idle"
          /\ UNCHANGED <<redisUp, Session!TokenState, Session!CacheState>>
      BY <1>2 DEF Session!Arrive, Session!At
    <2> HIDE DEF s
    <2> QED BY <2>1, <2>2, QuietVisit
  <1>3. CASE Session!CheckToken(r)
    <2>1. CASE Session!Passes(r)
      <3> DEFINE s == [visit[r] EXCEPT !.pc = IF visit[r].kind = "me" THEN "reading" ELSE "known",
                                       !.late = @ /\ redisUp]
      <3>1. /\ s \in Session!RequestState /\ s.pc \in {"reading", "known"}
            /\ s.token = visit[r].token /\ s.late = (visit[r].late /\ redisUp)
        BY <1>1 DEF Session!RequestState, SessionInv, Session!TypeOK
      <3>2. Session!Move(r, s) /\ visit[r].pc = "checked"
            /\ UNCHANGED <<redisUp, Session!TokenState, Session!CacheState>>
        BY <1>3, <2>1 DEF Session!CheckToken, Session!At
      <3>3. s.late => life[s.token] \in {"last second", "expired"}
        BY <3>1, <3>2, <2>1 DEF SessionInv, RevokedInv, Session!Passes
      <3> HIDE DEF s
      <3> QED BY <3>1, <3>2, <3>3, QuietVisit
    <2>2. CASE ~Session!Passes(r)
      BY <1>3, <2>2, QuietVisit, SessionIdle DEF Session!CheckToken, Session!At, Session!End
    <2> QED BY <2>1, <2>2
  <1>4. CASE Session!CacheHit(r)
    <2> DEFINE s == [visit[r] EXCEPT !.pc = "known", !.user = userCache]
    <2>1. /\ s \in Session!RequestState /\ s.pc = "known"
          /\ s.token = visit[r].token /\ s.late = visit[r].late
      BY <1>1, <1>4 DEF Session!CacheHit, Session!RequestState, SessionInv, Session!TypeOK
    <2>2. Session!Move(r, s) /\ visit[r].pc = "reading"
          /\ UNCHANGED <<redisUp, Session!TokenState, Session!CacheState>>
      BY <1>4 DEF Session!CacheHit, Session!At
    <2>3. s.late => life[s.token] \in {"last second", "expired"}
      BY <2>1, <2>2 DEF SessionInv, RevokedInv
    <2> HIDE DEF s
    <2> QED BY <2>1, <2>2, <2>3, QuietVisit
  <1>5. CASE Session!ReadUser(r)
    <2> DEFINE s == [visit[r] EXCEPT !.pc = "caching", !.user = userRow]
    <2>1. /\ s \in Session!RequestState /\ s.pc = "caching"
          /\ s.token = visit[r].token /\ s.late = visit[r].late
      <3>1. userRow \in Session!UserType
        BY DEF SessionInv, Session!TypeOK
      <3> QED BY <1>1, <3>1 DEF Session!RequestState
    <2>2. Session!Move(r, s) /\ visit[r].pc = "reading"
          /\ UNCHANGED <<redisUp, Session!TokenState, Session!CacheState>>
      BY <1>5 DEF Session!ReadUser, Session!At
    <2>3. s.late => life[s.token] \in {"last second", "expired"}
      BY <2>1, <2>2 DEF SessionInv, RevokedInv
    <2> HIDE DEF s
    <2> QED BY <2>1, <2>2, <2>3, QuietVisit
  <1>6. CASE Session!ReturnMe(r)
    BY <1>6, QuietVisit, SessionIdle DEF Session!ReturnMe, Session!At, Session!End
  <1> QED BY <1>2, <1>3, <1>4, <1>5, <1>6

\* What is written: the cached copy, the row, the blacklist, new tokens.
LEMMA WriteKeepsSession ==
    ASSUME Session!SessionAssumption, SessionInv, NEW r \in Requests,
           \/ Session!SetCache(r) \/ Session!UpdateProfile(r) \/ Session!Logout(r)
           \/ Session!Refresh(r)
    PROVE  SessionInv'
  <1> USE DEF Session!TokenState, Session!CacheState
  <1>1. visit[r] \in Session!RequestState /\ visit \in [Requests -> Session!RequestState]
    BY DEF SessionInv, Session!TypeOK
  <1> DEFINE Known == [visit[r] EXCEPT !.pc = "known"]
             Changed == [visit[r] EXCEPT !.pc = "changed"]
  <1>2. /\ Known \in Session!RequestState /\ Changed \in Session!RequestState
        /\ Known.pc = "known" /\ Known.late = visit[r].late /\ Known.token = visit[r].token
        /\ Changed.pc = "changed" /\ Changed.late = visit[r].late
        /\ Changed.token = visit[r].token
    BY <1>1 DEF Session!RequestState
  <1>3. CASE Session!SetCache(r)
    <2>1. Session!Move(r, Known) /\ visit[r].pc = "caching"
      BY <1>3 DEF Session!SetCache, Session!At
    <2> HIDE DEF Known, Changed
    <2>2. /\ visit' \in [Requests -> Session!RequestState]
          /\ \A q \in Requests : visit'[q] = IF q = r THEN Known ELSE visit[q]
      BY <1>1, <1>2, <2>1, SessionMoves
    <2>3. /\ UNCHANGED <<redisUp, life, blacklist, userRow>>
          /\ userCache' = IF redisUp THEN visit[r].user ELSE userCache
          /\ overtaken' = IF redisUp THEN visit[r].user.profile # userRow.profile ELSE overtaken
      BY <1>3 DEF Session!SetCache
    <2>4. Session!TypeOK'
      BY <1>1, <2>2, <2>3 DEF SessionInv, Session!TypeOK, Session!RequestState
    <2>5. RevokedInv'
      BY <1>2, <2>1, <2>2, <2>3 DEF SessionInv, RevokedInv
    <2>6. Session!CachedProfileIsCurrent'
      BY <1>2, <2>1, <2>2, <2>3
      DEF SessionInv, Session!CachedProfileIsCurrent, Session!Changing
    <2> QED BY <2>4, <2>5, <2>6 DEF SessionInv
  <1>4. CASE Session!UpdateProfile(r)
    <2>1. CASE visit[r].pc = "known"
      <3>1. /\ Session!Move(r, Changed) /\ Session!Changed("profile")
            /\ UNCHANGED <<redisUp, life, blacklist, userCache, overtaken>>
        BY <1>4, <2>1 DEF Session!UpdateProfile, Session!At
      <3> HIDE DEF Known, Changed
      <3>2. /\ visit' \in [Requests -> Session!RequestState]
            /\ \A q \in Requests : visit'[q] = IF q = r THEN Changed ELSE visit[q]
        BY <1>1, <1>2, <3>1, SessionMoves
      <3>3. Session!TypeOK'
        <4>1. userRow' \in Session!UserType
          BY <3>1, RowChanges DEF SessionInv, Session!TypeOK
        <4> QED BY <3>1, <3>2, <4>1 DEF SessionInv, Session!TypeOK
      <3>4. RevokedInv'
        BY <1>2, <2>1, <3>1, <3>2 DEF SessionInv, RevokedInv
      <3>5. Session!CachedProfileIsCurrent'
        BY <1>2, <3>2 DEF Session!CachedProfileIsCurrent, Session!Changing
      <3> QED BY <3>3, <3>4, <3>5 DEF SessionInv
    <2>2. CASE visit[r].pc = "changed"
      <3>1. /\ Session!Move(r, Session!Idle)
            /\ userCache' = IF redisUp THEN Session!NoEntry ELSE userCache
            /\ overtaken' = IF redisUp THEN FALSE ELSE overtaken \/ userCache # Session!NoEntry
            /\ UNCHANGED <<redisUp, life, blacklist, userRow>>
        BY <1>4, <2>2 DEF Session!UpdateProfile, Session!At, Session!End
      <3>2. /\ visit' \in [Requests -> Session!RequestState]
            /\ \A q \in Requests : visit'[q] = IF q = r THEN Session!Idle ELSE visit[q]
        BY <1>1, <3>1, SessionMoves, SessionIdle
      <3>3. Session!TypeOK'
        <4>1. userCache' \in Session!UserType \cup {Session!NoEntry}
          BY <3>1 DEF SessionInv, Session!TypeOK
        <4>2. overtaken' \in BOOLEAN
          BY <3>1 DEF SessionInv, Session!TypeOK
        <4> QED BY <3>1, <3>2, <4>1, <4>2 DEF SessionInv, Session!TypeOK
      <3>4. RevokedInv'
        BY <3>1, <3>2, SessionIdle DEF SessionInv, RevokedInv
      <3>5. Session!CachedProfileIsCurrent'
        BY <3>1 DEF Session!CachedProfileIsCurrent
      <3> QED BY <3>3, <3>4, <3>5 DEF SessionInv
    <2> QED BY <1>4, <2>1, <2>2 DEF Session!UpdateProfile, Session!At
  <1>5. CASE Session!Logout(r) \/ Session!Refresh(r)
    <2>1. /\ Session!Move(r, Session!Idle) /\ visit[r].pc = "known"
          /\ UNCHANGED <<redisUp, userRow, userCache, overtaken>>
      BY <1>5 DEF Session!Logout, Session!Refresh, Session!At, Session!End
    <2>2. /\ visit' \in [Requests -> Session!RequestState]
          /\ \A q \in Requests : visit'[q] = IF q = r THEN Session!Idle ELSE visit[q]
      BY <1>1, <2>1, SessionMoves, SessionIdle
    <2>3. /\ blacklist \subseteq blacklist' /\ blacklist' \in SUBSET Tokens
          /\ life' \in [Tokens -> {"none", "live", "last second", "expired"}]
          /\ \A t \in Tokens : life[t] \in {"last second", "expired"} => life'[t] = life[t]
      BY <1>1, <1>5
      DEF Session!Logout, Session!Refresh, SessionInv, Session!TypeOK, Session!RequestState
    <2>4. Session!TypeOK'
      BY <2>1, <2>2, <2>3 DEF SessionInv, Session!TypeOK
    <2>5. RevokedInv'
      <3>1. \A q \in Requests : visit[q].token \in Tokens
        BY <1>1 DEF Session!RequestState
      <3> SUFFICES ASSUME NEW q \in Requests, visit'[q].late, visit'[q].pc # "idle"
                   PROVE  /\ visit'[q].pc = "checked" =>
                                \/ visit'[q].token \in blacklist'
                                \/ life'[visit'[q].token] \in {"last second", "expired"}
                          /\ visit'[q].pc # "checked" =>
                                life'[visit'[q].token] \in {"last second", "expired"}
        BY DEF RevokedInv
      <3>2. visit'[q] = visit[q]
        BY <2>2, SessionIdle
      <3>3. /\ visit[q].pc = "checked" =>
                  visit[q].token \in blacklist \/ life[visit[q].token] \in {"last second", "expired"}
            /\ visit[q].pc # "checked" => life[visit[q].token] \in {"last second", "expired"}
        BY <3>2 DEF SessionInv, RevokedInv
      <3> QED BY <2>3, <3>1, <3>2, <3>3
    <2>6. Session!CachedProfileIsCurrent'
      BY <2>1, <2>2, SessionIdle
      DEF SessionInv, Session!CachedProfileIsCurrent, Session!Changing
    <2> QED BY <2>4, <2>5, <2>6 DEF SessionInv
  <1> QED BY <1>3, <1>4, <1>5

\* Tokens and cached users grow old, and Redis fails.
LEMMA TimeKeepsSession ==
    ASSUME Session!SessionAssumption, SessionInv,
           \/ \E t \in Tokens : Session!Age(t)
           \/ Session!ChangeAccount \/ Session!CacheExpires \/ Session!RedisFails
    PROVE  SessionInv'
  <1> USE DEF Session!TokenState, Session!CacheState
  <1>1. ASSUME NEW t \in Tokens, Session!Age(t)  PROVE SessionInv'
    <2>1. UNCHANGED <<redisUp, userRow, userCache, overtaken, visit>>
      BY <1>1 DEF Session!Age
    <2>2. /\ life' \in [Tokens -> {"none", "live", "last second", "expired"}]
          /\ blacklist' \in SUBSET Tokens
          /\ \A u \in Tokens :
                /\ life[u] \in {"last second", "expired"} =>
                      life'[u] \in {"last second", "expired"}
                /\ u \in blacklist =>
                      u \in blacklist' \/ life'[u] \in {"last second", "expired"}
      BY <1>1 DEF Session!Age, SessionInv, Session!TypeOK
    <2>3. Session!TypeOK'
      BY <2>1, <2>2 DEF SessionInv, Session!TypeOK
    <2>4. RevokedInv'
      <3>1. \A q \in Requests : visit[q].token \in Tokens
        BY DEF SessionInv, Session!TypeOK, Session!RequestState
      <3> QED BY <2>1, <2>2, <3>1 DEF SessionInv, RevokedInv
    <2>5. Session!CachedProfileIsCurrent'
      BY <2>1 DEF SessionInv, Session!CachedProfileIsCurrent, Session!Changing
    <2> QED BY <2>3, <2>4, <2>5 DEF SessionInv
  <1>2. CASE Session!CacheExpires
    BY <1>2 DEF Session!CacheExpires, SessionInv, Session!TypeOK, RevokedInv,
                Session!CachedProfileIsCurrent
  <1>3. CASE Session!RedisFails
    BY <1>3 DEF Session!RedisFails, SessionInv, Session!TypeOK, RevokedInv,
                Session!CachedProfileIsCurrent, Session!Changing
  <1>4. CASE Session!ChangeAccount
    <2>1. Session!Changed("account") /\ UNCHANGED <<redisUp, life, blacklist, userCache,
                                                    overtaken, visit>>
      BY <1>4 DEF Session!ChangeAccount
    <2>2. userRow' \in Session!UserType /\ userRow'.profile = userRow.profile
      BY <2>1, RowChanges DEF SessionInv, Session!TypeOK
    <2> QED BY <2>1, <2>2 DEF SessionInv, Session!TypeOK, RevokedInv,
                              Session!CachedProfileIsCurrent, Session!Changing
  <1> QED BY <1>1, <1>2, <1>3, <1>4

\* Every step keeps SessionInv.
LEMMA SessionKeeps ==
    ASSUME Session!SessionAssumption, SessionInv, Session!Next \/ UNCHANGED sessionVars
    PROVE  SessionInv'
  <1>1. CASE UNCHANGED sessionVars
    BY <1>1 DEF sessionVars, SessionInv, Session!TypeOK, RevokedInv,
                Session!CachedProfileIsCurrent, Session!Changing
  <1>2. CASE Session!Next
    BY <1>2, VisitKeepsSession, WriteKeepsSession, TimeKeepsSession DEF Session!Next
  <1> QED BY <1>1, <1>2

\* A token that was revoked before a request came lets that request no further than the
\* check, and the cached profile is the one of the row, up to failures of Redis, the last
\* second of a token and readers overtaken by a change, whatever else changes the row
\* (security.py, get_current_user).
THEOREM SessionsAlwaysHold == Spec => []SessionsHold
  <1> DEFINE Inv == part = "session" => SessionInv
  <1>0. Session!SessionAssumption
    BY ServicesAssumption
  <1>1. Init => Inv
    BY <1>0, SessionInit DEF Init
  <1>2. Inv /\ [Next]_vars => Inv'
    BY <1>0, SessionKeeps, PartSteps
  <1>3. Inv => SessionsHold
    BY DEF SessionInv, SessionsHold, RevokedInv, Session!RevokedStaysOut
  <1> QED BY <1>1, <1>2, <1>3, PTL DEF Spec

-----------------------------------------------------------------------------
(* Logins                                                                  *)

\* The types of the variables, the counters without their bound.
LoginTypes ==
    /\ real \in BOOLEAN /\ counting \in BOOLEAN
    /\ clock \in SignIn!Windows
    /\ counter \in [SignIn!Windows -> Nat]
    /\ account \in SignIn!AccountType
    /\ verified \in SUBSET Numbers
    /\ login \in [Logins -> SignIn!LoginType]
    /\ admitted \in [SignIn!Windows -> Nat]
    /\ failedOpen \in SUBSET SignIn!Windows

\* Whoever was admitted was counted, in a window in which the counter answered.
CountedInv == \A w \in SignIn!Windows \ failedOpen :
                 admitted[w] <= counter[w] /\ admitted[w] <= LoginLimit

\* The row only gains: a number was verified, and what a login read is still there.
Gained(found) == /\ found.exists => account.exists
                 /\ found.union => account.union
                 /\ found.number # NoNumber => account.number # NoNumber
\* A number in the row or in a login was verified; the row has what a login has read.
RowInv ==
    /\ account.number \in verified \cup {NoNumber}
    /\ ~account.exists => account = SignIn!NoAccount
    /\ \A l \in Logins : /\ login[l].number \in verified \cup {NoNumber}
                         /\ Gained(login[l].found)

\* AccountTrue is inductive with the other two.
LoginInv == LoginTypes /\ CountedInv /\ RowInv /\ SignIn!AccountTrue

\* The limits are numbers, and NoNumber is none of the numbers.
LEMMA LoginNumbers ==
    /\ LoginLimit \in Nat /\ MaxWindows \in Nat
    /\ MockNumber \in Numbers /\ NoNumber \notin Numbers
    /\ SignIn!NoAccount \in SignIn!AccountType
    /\ SignIn!NoAccount.number = NoNumber
    /\ SignIn!NoAccount.exists = FALSE /\ SignIn!NoAccount.union = FALSE
  BY ServicesAssumption DEF SignIn!LoginAssumption, SignIn!NoAccount, SignIn!AccountType

\* At first there is no user and nothing was counted.
LEMMA LoginInit == SignIn!Init => LoginInv
  <1> SUFFICES ASSUME SignIn!Init PROVE LoginInv
    OBVIOUS
  <1>1. 0 \in SignIn!Windows
    BY LoginNumbers DEF SignIn!Windows
  <1>2. /\ login \in [Logins -> SignIn!LoginType]
        /\ \A l \in Logins : /\ login[l].pc = "new" /\ login[l].number = NoNumber
                             /\ login[l].found = SignIn!NoAccount
    BY <1>1, LoginNumbers DEF SignIn!Init, SignIn!LoginType, SignIn!Ends
  <1>3. LoginTypes
    BY <1>1, <1>2, LoginNumbers DEF SignIn!Init, LoginTypes
  <1>4. CountedInv
    BY LoginNumbers DEF SignIn!Init, CountedInv
  <1>5. RowInv
    BY <1>2, LoginNumbers DEF SignIn!Init, RowInv, Gained
  <1>6. SignIn!AccountTrue
    BY <1>2, LoginNumbers DEF SignIn!Init, SignIn!AccountTrue, SignIn!At
  <1> QED BY <1>3, <1>4, <1>5, <1>6 DEF LoginInv

\* A login that moves on without being in, while the row stays and no number is forgotten.
LEMMA LoginMoves ==
    ASSUME LoginInv, NEW l \in Logins, NEW s \in SignIn!LoginType,
           login' = [login EXCEPT ![l] = s], s.pc # "in",
           verified \subseteq verified', verified' \in SUBSET Numbers,
           s.number \in verified' \cup {NoNumber}, Gained(s.found),
           UNCHANGED <<real, counting, clock, account>>,
           counter' \in [SignIn!Windows -> Nat], admitted' \in [SignIn!Windows -> Nat],
           failedOpen' \in SUBSET SignIn!Windows, CountedInv'
    PROVE  LoginInv'
  <1>1. /\ login' \in [Logins -> SignIn!LoginType]
        /\ \A k \in Logins : login'[k] = IF k = l THEN s ELSE login[k]
    BY DEF LoginInv, LoginTypes
  <1>2. LoginTypes'
    BY <1>1 DEF LoginInv, LoginTypes
  <1>3. RowInv'
    BY <1>1 DEF LoginInv, RowInv, Gained
  <1>4. SignIn!AccountTrue'
    BY <1>1 DEF LoginInv, SignIn!AccountTrue, SignIn!At
  <1> QED BY <1>2, <1>3, <1>4 DEF LoginInv

\* The limiter: Arrive and Count.
LEMMA LimiterKeepsLogin ==
    ASSUME LoginInv, NEW l \in Logins, SignIn!Arrive(l) \/ SignIn!Count(l)
    PROVE  LoginInv'
  <1>1. /\ login[l] \in SignIn!LoginType /\ login[l].number \in verified \cup {NoNumber}
        /\ Gained(login[l].found) /\ verified \in SUBSET Numbers
    BY DEF LoginInv, LoginTypes, RowInv
  <1>2. CASE SignIn!Arrive(l)
    <2> DEFINE s == [login[l] EXCEPT !.pc = "count", !.window = clock]
    <2>1. /\ s \in SignIn!LoginType /\ s.pc # "in" /\ s.number = login[l].number
          /\ s.found = login[l].found
      BY <1>1 DEF SignIn!LoginType, LoginInv, LoginTypes
    <2>2. login' = [login EXCEPT ![l] = s]
      BY <1>2 DEF SignIn!Arrive
    <2>3. UNCHANGED <<real, counting, clock, counter, account, verified, admitted, failedOpen>>
      BY <1>2 DEF SignIn!Arrive
    <2> HIDE DEF s
    <2>4. CountedInv'
      BY <2>3 DEF LoginInv, CountedInv
    <2> QED BY <1>1, <2>1, <2>2, <2>3, <2>4, LoginMoves DEF LoginInv, LoginTypes
  <1>3. CASE SignIn!Count(l)
    <2> DEFINE w == login[l].window
    <2>1. w \in SignIn!Windows
      BY <1>1 DEF SignIn!LoginType
    <2>2. PICK to \in {"session", "limited"} : login' = [login EXCEPT ![l].pc = to]
      BY <1>3 DEF SignIn!Count, SignIn!GoTo
    <2> DEFINE s == [login[l] EXCEPT !.pc = to]
    <2>3. /\ s \in SignIn!LoginType /\ s.pc # "in" /\ s.number = login[l].number
          /\ s.found = login[l].found
      BY <1>1 DEF SignIn!LoginType, SignIn!Ends
    <2>4. login' = [login EXCEPT ![l] = s]
      BY <2>2
    <2>5. UNCHANGED <<real, counting, clock, account, verified>>
      BY <1>3 DEF SignIn!Count
    <2>6. /\ counter' \in [SignIn!Windows -> Nat] /\ admitted' \in [SignIn!Windows -> Nat]
          /\ failedOpen' \in SUBSET SignIn!Windows /\ CountedInv'
      <3> HIDE DEF w, s
      <3>1. /\ counter \in [SignIn!Windows -> Nat] /\ admitted \in [SignIn!Windows -> Nat]
            /\ failedOpen \in SUBSET SignIn!Windows /\ LoginLimit \in Nat
        BY LoginNumbers DEF LoginInv, LoginTypes
      <3>2. CASE counting /\ counter[w] + 1 <= LoginLimit
        <4>1. /\ counter' = [counter EXCEPT ![w] = @ + 1]
              /\ admitted' = [admitted EXCEPT ![w] = @ + 1]
              /\ failedOpen' = failedOpen
          BY <1>3, <3>2 DEF SignIn!Count, SignIn!WithinLimit, w
        <4> QED BY <2>1, <3>1, <3>2, <4>1 DEF LoginInv, CountedInv
      <3>3. CASE counting /\ ~(counter[w] + 1 <= LoginLimit)
        <4>1. /\ counter' = [counter EXCEPT ![w] = @ + 1]
              /\ admitted' = admitted /\ failedOpen' = failedOpen
          BY <1>3, <3>3 DEF SignIn!Count, SignIn!WithinLimit, w
        <4> QED BY <2>1, <3>1, <4>1 DEF LoginInv, CountedInv
      <3>4. CASE ~counting
        <4>1. /\ counter' = counter
              /\ admitted' = [admitted EXCEPT ![w] = @ + 1]
              /\ failedOpen' = failedOpen \cup {w}
          BY <1>3, <3>4 DEF SignIn!Count, w
        <4> QED BY <2>1, <3>1, <4>1 DEF LoginInv, CountedInv
      <3> QED BY <3>2, <3>3, <3>4
    <2> HIDE DEF s, w
    <2> QED BY <1>1, <2>3, <2>4, <2>5, <2>6, LoginMoves
  <1> QED BY <1>2, <1>3

\* WeChat: its answers and its failures.
LEMMA WeChatKeepsLogin ==
    ASSUME LoginInv, NEW l \in Logins, SignIn!ExchangeCode(l) \/ SignIn!ResolvePhone(l)
    PROVE  LoginInv'
  <1>1. /\ login[l] \in SignIn!LoginType /\ login[l].number \in verified \cup {NoNumber}
        /\ Gained(login[l].found) /\ verified \in SUBSET Numbers
        /\ counter \in [SignIn!Windows -> Nat] /\ admitted \in [SignIn!Windows -> Nat]
        /\ failedOpen \in SUBSET SignIn!Windows
    BY DEF LoginInv, LoginTypes, RowInv
  <1>2. CountedInv' /\ UNCHANGED <<real, counting, clock, counter, account, admitted, failedOpen>>
    BY DEF SignIn!ExchangeCode, SignIn!ResolvePhone, SignIn!Fail, LoginInv, CountedInv
  <1>3. CASE SignIn!Fail(l)
    <2> DEFINE s == [login[l] EXCEPT !.pc = "failed"]
    <2>1. /\ s \in SignIn!LoginType /\ s.pc # "in" /\ s.number = login[l].number
          /\ s.found = login[l].found
      BY <1>1 DEF SignIn!LoginType, SignIn!Ends
    <2>2. login' = [login EXCEPT ![l] = s] /\ verified' = verified
      BY <1>3 DEF SignIn!Fail, SignIn!GoTo
    <2> HIDE DEF s
    <2> QED BY <1>1, <1>2, <2>1, <2>2, LoginMoves
  <1>4. ASSUME NEW union \in BOOLEAN,
               login' = [login EXCEPT ![l].pc = "phone", ![l].union = union],
               verified' = verified
        PROVE  LoginInv'
    <2> DEFINE s == [login[l] EXCEPT !.pc = "phone", !.union = union]
    <2>1. /\ s \in SignIn!LoginType /\ s.pc # "in" /\ s.number = login[l].number
          /\ s.found = login[l].found
      BY <1>1 DEF SignIn!LoginType
    <2>2. login' = [login EXCEPT ![l] = s]
      BY <1>4
    <2> HIDE DEF s
    <2> QED BY <1>1, <1>2, <1>4, <2>1, <2>2, LoginMoves
  <1>5. ASSUME NEW n \in Numbers \cup {NoNumber},
               login' = [login EXCEPT ![l].pc = "read", ![l].number = n],
               verified' = verified \cup ({n} \ {NoNumber})
        PROVE  LoginInv'
    <2> DEFINE s == [login[l] EXCEPT !.pc = "read", !.number = n]
    <2>1. /\ s \in SignIn!LoginType /\ s.pc # "in" /\ s.number = n
          /\ s.found = login[l].found
      BY <1>1 DEF SignIn!LoginType
    <2>2. login' = [login EXCEPT ![l] = s]
      BY <1>5
    <2>3. n \in verified' \cup {NoNumber} /\ verified \subseteq verified'
          /\ verified' \in SUBSET Numbers
      BY <1>1, <1>5, LoginNumbers
    <2> HIDE DEF s
    <2> QED BY <1>1, <1>2, <2>1, <2>2, <2>3, LoginMoves
  <1> QED BY <1>3, <1>4, <1>5, LoginNumbers DEF SignIn!ExchangeCode, SignIn!ResolvePhone

\* The row: read, then inserted or filled in.
LEMMA RowKeepsLogin ==
    ASSUME LoginInv, NEW l \in Logins, SignIn!ReadAccount(l) \/ SignIn!WriteAccount(l)
    PROVE  LoginInv'
  <1>1. /\ login[l] \in SignIn!LoginType /\ login[l].number \in verified \cup {NoNumber}
        /\ Gained(login[l].found) /\ verified \in SUBSET Numbers
        /\ counter \in [SignIn!Windows -> Nat] /\ admitted \in [SignIn!Windows -> Nat]
        /\ failedOpen \in SUBSET SignIn!Windows
        /\ account \in SignIn!AccountType
        /\ login \in [Logins -> SignIn!LoginType]
    BY DEF LoginInv, LoginTypes, RowInv
  <1>2. CountedInv' /\ UNCHANGED <<real, counting, clock, counter, verified, admitted, failedOpen>>
    BY DEF SignIn!ReadAccount, SignIn!WriteAccount, LoginInv, CountedInv
  <1>3. CASE SignIn!ReadAccount(l)
    <2> DEFINE s == [login[l] EXCEPT !.pc = "write", !.found = account]
    <2>1. /\ s \in SignIn!LoginType /\ s.pc # "in" /\ s.number = login[l].number
          /\ s.found = account
      BY <1>1 DEF SignIn!LoginType
    <2>2. login' = [login EXCEPT ![l] = s] /\ account' = account
      BY <1>3 DEF SignIn!ReadAccount
    <2> HIDE DEF s
    <2> QED BY <1>1, <1>2, <2>1, <2>2, LoginMoves DEF Gained
  <1>4. CASE SignIn!WriteAccount(l)
    <2> DEFINE found == login[l].found
               number == login[l].number
               union == login[l].union
               Goes(to) == [login[l] EXCEPT !.pc = to]
    <2>1. /\ found \in SignIn!AccountType /\ union \in BOOLEAN
          /\ number \in Numbers \cup {NoNumber}
          /\ \A to \in {"in", "failed"} :
                /\ Goes(to) \in SignIn!LoginType /\ Goes(to).pc = to
                /\ Goes(to).number = number /\ Goes(to).found = found /\ Goes(to).union = union
      BY <1>1 DEF SignIn!LoginType, SignIn!Ends
    <2>2. CASE ~found.exists /\ account.exists
      <3>1. login' = [login EXCEPT ![l] = Goes("failed")] /\ account' = account
        BY <1>4, <2>2 DEF SignIn!WriteAccount, SignIn!GoTo
      <3> HIDE DEF found, number, union, Goes
      <3>2. /\ Goes("failed") \in SignIn!LoginType /\ Goes("failed").pc # "in"
            /\ Goes("failed").number = login[l].number /\ Goes("failed").found = login[l].found
        BY <2>1 DEF found, number
      <3> QED BY <1>1, <1>2, <3>1, <3>2, LoginMoves
    <2>3. CASE found.exists \/ ~account.exists
      <3>1. /\ login' = [login EXCEPT ![l] = Goes("in")]
            /\ account' \in SignIn!AccountType /\ account'.exists
            /\ account.exists => account'.exists
            /\ account.union => account'.union
            /\ union => account'.union
            /\ account'.number \in {account.number, number}
            /\ account.number # NoNumber \/ number # NoNumber => account'.number # NoNumber
        <4>1. CASE found.exists
          <5>1. /\ login' = [login EXCEPT ![l] = Goes("in")]
                /\ account' = [account EXCEPT
                       !.union = @ \/ (union /\ ~found.union),
                       !.number = IF number # NoNumber /\ number # found.number
                                  THEN number ELSE @]
            BY <1>4, <4>1 DEF SignIn!WriteAccount, SignIn!GoTo, SignIn!Filled
          <5>2. account.exists /\ (found.union => account.union)
                /\ (found.number # NoNumber => account.number # NoNumber)
            BY <1>1, <4>1 DEF Gained
          <5> HIDE DEF found, number, union, Goes
          <5> QED BY <1>1, <2>1, <5>1, <5>2 DEF SignIn!AccountType
        <4>2. CASE ~found.exists /\ ~account.exists
          <5>1. /\ login' = [login EXCEPT ![l] = Goes("in")]
                /\ account' = [exists |-> TRUE, union |-> union, number |-> number]
            BY <1>4, <4>2 DEF SignIn!WriteAccount, SignIn!GoTo
          <5>2. account.union = FALSE /\ account.number = NoNumber
            BY <4>2, LoginNumbers DEF LoginInv, RowInv
          <5> HIDE DEF found, number, union, Goes
          <5> QED BY <1>1, <2>1, <5>1, <5>2 DEF SignIn!AccountType
        <4> QED BY <2>3, <4>1, <4>2
      <3> HIDE DEF found, number, union, Goes
      <3>2. /\ login' \in [Logins -> SignIn!LoginType]
            /\ \A k \in Logins : login'[k] = IF k = l THEN Goes("in") ELSE login[k]
        BY <1>1, <2>1, <3>1
      <3>3. LoginTypes'
        BY <1>2, <3>1, <3>2 DEF LoginInv, LoginTypes
      <3>4. RowInv'
        <4>1. account'.number \in verified' \cup {NoNumber}
          BY <1>1, <1>2, <3>1 DEF LoginInv, RowInv, number
        <4>2. ASSUME NEW k \in Logins
              PROVE  /\ login'[k].number \in verified' \cup {NoNumber}
                     /\ login'[k].found.exists => account'.exists
                     /\ login'[k].found.union => account'.union
                     /\ login'[k].found.number # NoNumber => account'.number # NoNumber
          <5>1. login'[k].number = login[k].number /\ login'[k].found = login[k].found
            BY <2>1, <3>2 DEF found, number
          <5>2. /\ login[k].number \in verified \cup {NoNumber}
                /\ login[k].found.exists => account.exists
                /\ login[k].found.union => account.union
                /\ login[k].found.number # NoNumber => account.number # NoNumber
            BY DEF LoginInv, RowInv, Gained
          <5> QED BY <1>2, <3>1, <5>1, <5>2
        <4>3. account'.exists
          BY <3>1
        <4> QED BY <4>1, <4>2, <4>3 DEF RowInv, Gained
      <3>5. SignIn!AccountTrue'
        <4>1. account'.number \in verified' \cup {NoNumber}
          BY <3>4 DEF RowInv
        <4>2. ASSUME NEW k \in Logins, login'[k].pc = "in"
              PROVE  /\ account'.exists
                     /\ login'[k].number # NoNumber => account'.number # NoNumber
                     /\ login'[k].union => account'.union
          BY <2>1, <3>1, <3>2, <4>2 DEF LoginInv, SignIn!AccountTrue, SignIn!At
        <4> QED BY <4>1, <4>2 DEF SignIn!AccountTrue, SignIn!At
      <3> QED BY <1>2, <3>3, <3>4, <3>5 DEF LoginInv
    <2> QED BY <2>2, <2>3
  <1> QED BY <1>3, <1>4

\* Every step keeps LoginInv.
LEMMA LoginKeeps ==
    ASSUME LoginInv, SignIn!Next \/ UNCHANGED loginVars
    PROVE  LoginInv'
  <1> USE DEF LoginInv, LoginTypes, CountedInv, RowInv, Gained, SignIn!AccountTrue, SignIn!At
  <1>1. CASE UNCHANGED loginVars
    BY <1>1 DEF loginVars
  <1>2. CASE SignIn!Tick
    <2>1. clock' \in SignIn!Windows
      BY <1>2, LoginNumbers DEF SignIn!Tick, SignIn!Windows
    <2> QED BY <1>2, <2>1 DEF SignIn!Tick
  <1>3. CASE SignIn!RedisFailsOrReturns
    BY <1>3 DEF SignIn!RedisFailsOrReturns
  <1> QED BY <1>1, <1>2, <1>3, LimiterKeepsLogin, WeChatKeepsLogin, RowKeepsLogin
          DEF SignIn!Next

\* No window admits more logins than the limit unless Redis failed in it, and the row of
\* the user keeps what logins brought (rate_limit.py, IPRateLimiter; auth_service.py,
\* login_with_wechat_code).
THEOREM LoginAlwaysHolds == Spec => []LoginHolds
  <1> DEFINE Inv == part = "login" => LoginInv
  <1>1. Init => Inv
    BY LoginInit DEF Init
  <1>2. Inv /\ [Next]_vars => Inv'
    BY LoginKeeps, PartSteps
  <1>3. Inv => LoginHolds
    BY DEF LoginInv, CountedInv, LoginHolds, SignIn!LimitKept
  <1> QED BY <1>1, <1>2, <1>3, PTL DEF Spec

\* The logins the limiter has seen, of which a window has counted and admitted no more.
Passed == {l \in Logins : login[l].pc \notin {"new", "count"}}
LoginRest == \A w \in SignIn!Windows : /\ counter[w] <= Cardinality(Passed)
                                       /\ admitted[w] <= Cardinality(Passed)

\* A set of logins has a size.
LEMMA LoginsFinite == IsFiniteSet(Logins)
  BY ServicesAssumption DEF SignIn!LoginAssumption, SignIn!IsFiniteSet, IsFiniteSet

\* Each login is counted once, by the limiter.
LEMMA LoginRestKept ==
    ASSUME LoginInv, LoginRest, SignIn!Next \/ UNCHANGED loginVars
    PROVE  LoginRest'
  <1> DEFINE size == Cardinality(Passed)
  <1>1. /\ login \in [Logins -> SignIn!LoginType]
        /\ counter \in [SignIn!Windows -> Nat] /\ admitted \in [SignIn!Windows -> Nat]
    BY DEF LoginInv, LoginTypes
  <1>2. IsFiniteSet(Passed) /\ size \in Nat
    BY LoginsFinite, FS_Subset, FS_CardinalityType DEF Passed
  <1>3. ASSUME Passed' = Passed, counter' = counter, admitted' = admitted PROVE LoginRest'
    BY <1>3 DEF LoginRest
  <1>4. ASSUME NEW l \in Logins, SignIn!Count(l) PROVE LoginRest'
    <2>1. login[l].pc = "count"
      BY <1>4 DEF SignIn!Count, SignIn!At
    <2>2. \E to \in {"session", "limited"} : login' = [login EXCEPT ![l].pc = to]
      BY <1>4 DEF SignIn!Count, SignIn!GoTo
    <2>3. \A k \in Logins : login'[k].pc = login[k].pc \/ k = l
      BY <1>1, <2>2 DEF SignIn!LoginType
    <2>4. login'[l].pc \in {"session", "limited"}
      BY <1>1, <2>2 DEF SignIn!LoginType
    <2>5. Passed' = Passed \cup {l} /\ l \notin Passed
      BY <2>1, <2>3, <2>4 DEF Passed
    <2>6. Cardinality(Passed)' = size + 1
      BY <1>2, <2>5, FS_AddElement
    <2>7. \A w \in SignIn!Windows : /\ counter'[w] \in {counter[w], counter[w] + 1}
                                    /\ admitted'[w] \in {admitted[w], admitted[w] + 1}
      <3> DEFINE v == login[l].window
      <3>1. /\ counter' = counter \/ counter' = [counter EXCEPT ![v] = counter[v] + 1]
            /\ admitted' = admitted \/ admitted' = [admitted EXCEPT ![v] = admitted[v] + 1]
        BY <1>4 DEF SignIn!Count
      <3> HIDE DEF v
      <3> QED BY <1>1, <3>1
    <2> HIDE DEF size
    <2>8. \A w \in SignIn!Windows : /\ counter[w] \in Nat /\ admitted[w] \in Nat
                                    /\ counter[w] <= size /\ admitted[w] <= size
      BY <1>1 DEF LoginRest, size
    <2> QED BY <1>2, <2>6, <2>7, <2>8 DEF LoginRest
  <1>5. ASSUME NEW l \in Logins, NEW s \in SignIn!LoginType, login' = [login EXCEPT ![l] = s],
               s.pc \in {"new", "count"} <=> login[l].pc \in {"new", "count"}
        PROVE  Passed' = Passed
    BY <1>1, <1>5 DEF Passed
  <1>6. ASSUME NEW l \in Logins, \/ SignIn!Arrive(l) \/ SignIn!ExchangeCode(l)
                                 \/ SignIn!ResolvePhone(l) \/ SignIn!ReadAccount(l)
                                 \/ SignIn!WriteAccount(l)
        PROVE  LoginRest'
    <2>1. UNCHANGED <<counter, admitted>>
      BY <1>6 DEF SignIn!Arrive, SignIn!ExchangeCode, SignIn!ResolvePhone, SignIn!ReadAccount,
                  SignIn!WriteAccount, SignIn!Fail
    <2>2. login[l].pc \in {"new", "count"} <=> login'[l].pc \in {"new", "count"}
      <3> DEFINE Moved(from, to) == login[l].pc = from /\ login'[l].pc = to
      <3>1. ASSUME NEW to, SignIn!GoTo(l, to) PROVE login'[l].pc = to
        BY <1>1, <3>1 DEF SignIn!GoTo, SignIn!LoginType
      <3>2. SignIn!Arrive(l) => Moved("new", "count")
        BY <1>1 DEF SignIn!Arrive, SignIn!At, SignIn!LoginType
      <3>3. SignIn!ExchangeCode(l) => Moved("session", "phone") \/ Moved("session", "failed")
        BY <1>1, <3>1 DEF SignIn!ExchangeCode, SignIn!Fail, SignIn!At, SignIn!LoginType
      <3>4. SignIn!ResolvePhone(l) => Moved("phone", "read") \/ Moved("phone", "failed")
        BY <1>1, <3>1 DEF SignIn!ResolvePhone, SignIn!Fail, SignIn!At, SignIn!LoginType
      <3>5. SignIn!ReadAccount(l) => Moved("read", "write")
        BY <1>1 DEF SignIn!ReadAccount, SignIn!At, SignIn!LoginType
      <3>6. SignIn!WriteAccount(l) => Moved("write", "failed") \/ Moved("write", "in")
        BY <1>1, <3>1 DEF SignIn!WriteAccount, SignIn!At
      <3> QED BY <1>6, <3>2, <3>3, <3>4, <3>5, <3>6
    <2>3. \A k \in Logins \ {l} : login'[k] = login[k]
      BY <1>1, <1>6
         DEF SignIn!Arrive, SignIn!ExchangeCode, SignIn!ResolvePhone, SignIn!ReadAccount,
             SignIn!WriteAccount, SignIn!Fail, SignIn!GoTo
    <2>4. Passed' = Passed
      BY <2>2, <2>3 DEF Passed
    <2> QED BY <1>3, <2>1, <2>4
  <1>7. CASE SignIn!Tick \/ SignIn!RedisFailsOrReturns \/ UNCHANGED loginVars
    <2>1. UNCHANGED <<login, counter, admitted>>
      BY <1>7 DEF SignIn!Tick, SignIn!RedisFailsOrReturns, loginVars
    <2> QED BY <1>3, <2>1 DEF Passed
  <1> QED BY <1>4, <1>6, <1>7 DEF SignIn!Next

\* The types of the variables of a login.
LEMMA LoginTyped == Spec => [](part = "login" => SignIn!TypeOK)
  <1> DEFINE Inv == part = "login" => LoginInv /\ LoginRest
  <1>1. Init => Inv
    <2> SUFFICES ASSUME SignIn!Init PROVE LoginRest
      BY LoginInit DEF Init
    <2>1. Cardinality(Passed) \in Nat
      BY LoginsFinite, FS_Subset, FS_CardinalityType DEF Passed
    <2> QED BY <2>1 DEF SignIn!Init, LoginRest
  <1>2. Inv /\ [Next]_vars => Inv'
    BY LoginKeeps, LoginRestKept, PartSteps
  <1>3. Inv => (part = "login" => SignIn!TypeOK)
    <2> SUFFICES ASSUME LoginInv, LoginRest PROVE SignIn!TypeOK
      OBVIOUS
    <2> DEFINE most == Cardinality(Logins)
    <2>1. most \in Nat /\ Cardinality(Passed) \in Nat /\ Cardinality(Passed) <= most
      BY LoginsFinite, FS_Subset, FS_CardinalityType DEF Passed
    <2>2. SignIn!Cardinality(Logins) = most
      BY DEF SignIn!Cardinality, Cardinality, SignIn!IsFiniteSet, IsFiniteSet
    <2> HIDE DEF most
    <2>3. /\ counter \in [SignIn!Windows -> 0..most]
          /\ admitted \in [SignIn!Windows -> 0..most]
      BY <2>1 DEF LoginInv, LoginTypes, LoginRest
    <2> QED BY <2>2, <2>3 DEF LoginInv, LoginTypes, SignIn!TypeOK
  <1> QED BY <1>1, <1>2, <1>3, PTL DEF Spec

-----------------------------------------------------------------------------
(* The choice of a provider                                                *)

\* A call is made by a program that runs, and that runs only with what was accepted.
ProviderInv ==
    /\ Provider!TypeOK
    /\ call # Provider!NoCall => phase = "running"
    /\ phase = "running" => Provider!Accepted(config)
    /\ Provider!ProvidersUsable

\* At first the program does not run.
LEMMA ProviderInit == Provider!Init => ProviderInv
  <1> SUFFICES ASSUME Provider!Init PROVE ProviderInv
    OBVIOUS
  <1>1. Provider!TypeOK
    BY DEF Provider!Init, Provider!TypeOK, Provider!NoCall, Provider!Tasks,
           Provider!Destinations, Provider!Companies
  <1> QED BY <1>1 DEF ProviderInv, Provider!Init, Provider!NoCall, Provider!ProvidersUsable,
                      Provider!Companies

\* What the factory and the router choose from a configuration that was accepted.
LEMMA Choices ==
    ASSUME NEW c \in Provider!ConfigType
    PROVE  /\ Provider!TextClient(c) \in Provider!Destinations
           /\ Provider!TextModel(c) \in Provider!Destinations
           /\ Provider!DescribeClient(c) \in Provider!Destinations
           /\ Provider!DescribeModel(c) \in Provider!Destinations
           /\ Provider!ExtractClient(c) \in Provider!Destinations
           /\ Provider!TextClient(c) \in Provider!Companies => Provider!TextClient(c) \in c.keys
           /\ Provider!DescribeClient(c) \in Provider!Companies =>
                 Provider!DescribeClient(c) \in c.keys
           /\ Provider!ExtractClient(c) \in Provider!Companies =>
                 Provider!ExtractClient(c) \in c.keys
           /\ Provider!Accepted(c) /\ c.production /\ Provider!Is(c, "deepseek") =>
                 /\ Provider!TextClient(c) = "deepseek" /\ Provider!TextModel(c) = "deepseek"
                 /\ Provider!DescribeClient(c) = Provider!DescribeModel(c)
                 /\ Provider!DescribeClient(c) \in Provider!Companies
  <1> USE DEF Provider!ConfigType, Provider!Destinations, Provider!Companies
  <1>1. /\ Provider!TextClient(c) \in Provider!Companies \cup {"mock", "none"}
        /\ Provider!TextClient(c) \in Provider!Companies => Provider!TextClient(c) \in c.keys
    BY DEF Provider!TextClient
  <1>2. Provider!TextModel(c) \in Provider!Companies \cup {"mock", "none"}
    BY DEF Provider!TextModel
  <1>3. /\ Provider!DescribeClient(c) \in Provider!Destinations
        /\ Provider!DescribeClient(c) \in Provider!Companies =>
              Provider!DescribeClient(c) \in c.keys
    BY <1>1 DEF Provider!DescribeClient
  <1>4. Provider!DescribeModel(c) \in Provider!Destinations
    BY <1>2 DEF Provider!DescribeModel
  <1>5. /\ Provider!ExtractClient(c) \in Provider!Destinations
        /\ Provider!ExtractClient(c) \in Provider!Companies => Provider!ExtractClient(c) \in c.keys
    BY DEF Provider!ExtractClient
  <1>6. ASSUME Provider!Accepted(c), c.production, Provider!Is(c, "deepseek")
        PROVE  /\ Provider!TextClient(c) = "deepseek" /\ Provider!TextModel(c) = "deepseek"
               /\ Provider!DescribeClient(c) = Provider!DescribeModel(c)
               /\ Provider!DescribeClient(c) \in Provider!Companies
    <2>1. c.provider = "deepseek" /\ "deepseek" \in c.keys
      BY <1>6 DEF Provider!Accepted, Provider!Is
    <2>2. Provider!TextClient(c) = "deepseek" /\ Provider!TextModel(c) = "deepseek"
      BY <2>1 DEF Provider!TextClient, Provider!TextModel
    <2> QED BY <2>1, <2>2 DEF Provider!DescribeClient, Provider!DescribeModel
  <1> QED BY <1>1, <1>2, <1>3, <1>4, <1>5, <1>6

\* Every step keeps ProviderInv.
LEMMA ProviderKeeps ==
    ASSUME ProviderInv, Provider!Next \/ UNCHANGED providerVars
    PROVE  ProviderInv'
  <1>1. CASE UNCHANGED providerVars
    BY <1>1 DEF providerVars, ProviderInv, Provider!TypeOK, Provider!ProvidersUsable,
                Provider!Accepted, Provider!Is
  <1>2. CASE Provider!Start
    BY <1>2 DEF Provider!Start, ProviderInv, Provider!TypeOK, Provider!ProvidersUsable,
                Provider!Accepted, Provider!Is
  <1>3. ASSUME NEW task \in Provider!Tasks, NEW client \in Provider!Destinations,
               NEW model \in Provider!Destinations, Provider!Calls(task, client, model),
               client \in Provider!Companies => client \in config.keys,
               (config.production /\ Provider!Is(config, "deepseek")) =>
                  /\ client = model
                  /\ task \in {"text", "describe", "structure"} => client \in Provider!Companies
                  /\ task = "text" => client = "deepseek"
        PROVE  ProviderInv'
    <2>1. /\ call' = [task |-> task, client |-> client, model |-> model]
          /\ phase = "running" /\ UNCHANGED <<config, phase>>
      BY <1>3 DEF Provider!Calls
    <2>2. Provider!TypeOK'
      BY <2>1 DEF ProviderInv, Provider!TypeOK
    <2>3. Provider!ProvidersUsable'
      BY <1>3, <2>1 DEF Provider!ProvidersUsable, Provider!Is
    <2> QED BY <2>1, <2>2, <2>3 DEF ProviderInv, Provider!Accepted, Provider!Is
  <1>4. /\ config \in Provider!ConfigType
        /\ phase = "running" => Provider!Accepted(config)
    BY DEF ProviderInv, Provider!TypeOK
  <1>5. CASE Provider!Text
    <2>1. CASE Provider!WithModel(config)
      <3>1. Provider!Calls("text", Provider!TextClient(config), Provider!TextModel(config))
        BY <1>5, <2>1 DEF Provider!Text
      <3> QED BY <1>3, <1>4, <3>1, Choices DEF Provider!Calls, Provider!Tasks, Provider!Companies
    <2>2. CASE ~Provider!WithModel(config)
      <3>1. Provider!Calls("text", "rules", "rules") /\ ~Provider!Is(config, "deepseek")
        BY <1>5, <2>2 DEF Provider!Text, Provider!WithModel
      <3> QED BY <1>3, <3>1 DEF Provider!Tasks, Provider!Companies, Provider!Destinations
    <2> QED BY <2>1, <2>2
  <1>6. CASE Provider!Describe
    <2>1. Provider!Calls("describe", Provider!DescribeClient(config),
                         Provider!DescribeModel(config))
      BY <1>6 DEF Provider!Describe
    <2> QED BY <1>3, <1>4, <2>1, Choices DEF Provider!Calls, Provider!Tasks
  <1>7. CASE Provider!Extract
    <2>1. Provider!Calls("extract", Provider!ExtractClient(config),
                         Provider!ExtractClient(config))
      BY <1>7 DEF Provider!Extract
    <2> QED BY <1>3, <1>4, <2>1, Choices DEF Provider!Tasks
  <1>8. CASE Provider!Structure
    <2>1. Provider!Calls("structure", Provider!TextClient(config), "deepseek")
      BY <1>8 DEF Provider!Structure
    <2> QED BY <1>3, <1>4, <2>1, Choices
            DEF Provider!Calls, Provider!Tasks, Provider!Companies, Provider!Destinations
  <1> QED BY <1>1, <1>2, <1>5, <1>6, <1>7, <1>8 DEF Provider!Next

\* A client of a company is made only with its key, and in production with deepseek no call
\* fails for want of a client or a model, whatever else is configured (ai/factory.py,
\* ai/router.py, core/config.py).
THEOREM ProvidersAlwaysUsable == Spec => []ProvidersUsable
  <1> DEFINE Inv == part = "provider" => ProviderInv
  <1>1. Init => Inv
    BY ProviderInit DEF Init
  <1>2. Inv /\ [Next]_vars => Inv'
    BY ProviderKeeps, PartSteps
  <1>3. Inv => ProvidersUsable
    BY DEF ProviderInv, ProvidersUsable
  <1> QED BY <1>1, <1>2, <1>3, PTL DEF Spec

-----------------------------------------------------------------------------
(* One call of the AI client                                               *)

\* The types of the variables, the counters without their bounds.
ClientTypes ==
    /\ kind \in Client!Kinds
    /\ pc \in {"start", "request", "stream", "collected", "pause", "text", "returned", "raised"}
    /\ attempt \in Nat /\ format \in Nat /\ sent \in Nat
    /\ content \in Client!Texts /\ reasoning \in Client!Texts /\ result \in Client!Texts

\* The requests that may be sent for one prompt.
Tried == IF kind \in {"complete", "json"} THEN MaxRetries + 1 ELSE 1
\* The requests of a step: none is sent yet where one is about to be.
Sending == IF pc \in {"start", "pause"} THEN 0 ELSE 1

\* The prompts before this one used up their attempts, this one those it counted.
SentInv ==
    /\ attempt < Tried
    /\ format <= MaxJsonRetries
    /\ kind \notin Client!Json => format = 0
    /\ sent <= format * Tried + attempt + Sending

\* A call that returns has a text, and one that raises an error of its own kind.
ClientInv ==
    /\ ClientTypes
    /\ SentInv
    /\ pc = "text" => result # "empty"
    /\ Client!TextReturned
    /\ Client!ErrorsTranslated

\* How often a prompt is tried.
LEMMA ClientNumbers == /\ MaxRetries \in Nat /\ MaxJsonRetries \in Nat
                       /\ Tried \in Nat /\ Tried > 0
                       /\ kind \in {"complete", "json"} => Tried = MaxRetries + 1
                       /\ kind \notin {"complete", "json"} => Tried = 1
  BY ServicesAssumption DEF Client!ClientAssumption, Tried

\* A call starts with nothing sent.
LEMMA ClientInit == Client!Init => ClientInv
  <1> SUFFICES ASSUME Client!Init PROVE ClientInv
    OBVIOUS
  <1>1. ClientTypes
    BY DEF Client!Init, ClientTypes, Client!Texts
  <1>2. SentInv
    <2>1. 0 * Tried = 0
      BY ClientNumbers
    <2> QED BY <2>1, ClientNumbers DEF Client!Init, SentInv, Sending
  <1> QED BY <1>1, <1>2 DEF Client!Init, ClientInv, Client!TextReturned, Client!ErrorsTranslated

\* A step that goes on with the same prompt: another attempt is made only after a pause,
\* and a request is sent from a start or a pause.
LEMMA SamePrompt ==
    ASSUME ClientInv, kind' = kind, format' = format,
           pc' \in {"start", "request", "stream", "collected", "pause", "text", "returned", "raised"},
           \/ /\ attempt' = attempt /\ sent' = sent /\ Sending = 1
           \/ /\ attempt' = attempt /\ sent' = sent + 1 /\ Sending = 0 /\ Sending' = 1
           \/ /\ attempt' = attempt + 1 /\ sent' = sent /\ Sending = 1 /\ Client!MayRetry,
           attempt' = attempt => Sending' = 1
    PROVE  SentInv' /\ attempt' \in Nat /\ format' \in Nat /\ sent' \in Nat
  <1> DEFINE used == format * Tried
  <1>1. /\ attempt \in Nat /\ format \in Nat /\ sent \in Nat /\ Tried \in Nat /\ used \in Nat
        /\ attempt < Tried /\ format <= MaxJsonRetries
        /\ kind \notin Client!Json => format = 0
        /\ sent <= used + attempt + Sending
    BY ClientNumbers, Products DEF ClientInv, ClientTypes, SentInv
  <1>2. Tried' = Tried
    BY DEF Tried
  <1>3. Sending \in 0..1 /\ Sending' \in 0..1
    BY DEF Sending
  <1>4. attempt' \in Nat /\ sent' \in Nat /\ attempt' < Tried
    BY <1>1, ClientNumbers DEF Client!MayRetry
  <1>5. format' * Tried' = used
    BY <1>2
  <1> HIDE DEF used
  <1>6. sent' <= used + attempt' + Sending'
    <2> DEFINE now == Sending
               then == Sending'
    <2>1. /\ now \in 0..1 /\ then \in 0..1 /\ sent <= used + attempt + now
          /\ \/ attempt' = attempt /\ sent' = sent /\ now = 1 /\ then = 1
             \/ attempt' = attempt /\ sent' = sent + 1 /\ now = 0 /\ then = 1
             \/ attempt' = attempt + 1 /\ sent' = sent /\ now = 1
      BY <1>1, <1>3
    <2> HIDE DEF now, then
    <2>2. sent' <= used + attempt' + then
      <3>1. attempt \in Nat /\ sent \in Nat /\ used \in Nat
        BY <1>1
      <3>2. CASE attempt' = attempt /\ sent' = sent /\ now = 1 /\ then = 1
        BY <2>1, <3>1, <3>2
      <3>3. CASE attempt' = attempt /\ sent' = sent + 1 /\ now = 0 /\ then = 1
        BY <2>1, <3>1, <3>3
      <3>4. CASE attempt' = attempt + 1 /\ sent' = sent /\ now = 1
        BY <2>1, <3>1, <3>4
      <3> QED BY <2>1, <3>2, <3>3, <3>4
    <2> QED BY <2>2 DEF then
  <1> QED BY <1>1, <1>2, <1>4, <1>5, <1>6 DEF SentInv

\* A failure that may be retried, or is raised.
LEMMA FailureKeepsClient ==
    ASSUME ClientInv, NEW e, Client!Transient(e) \/ Client!Raise(e),
           \/ e \in Client!AIErrors \cup {"malformed"}
           \/ e = "raw" /\ kind = "json_usage",
           pc \notin {"start", "pause"},
           UNCHANGED <<kind, content, reasoning, sent, result>>
    PROVE  ClientInv'
  <1>1. Sending = 1
    BY DEF Sending
  <1>2. CASE pc' = "raised" /\ error' = e /\ UNCHANGED <<attempt, format>>
    <2>1. Sending' = 1
      BY <1>2 DEF Sending
    <2>2. SentInv' /\ attempt' \in Nat /\ format' \in Nat /\ sent' \in Nat
      BY <1>1, <1>2, <2>1, SamePrompt
    <2> QED BY <1>2, <2>2
            DEF ClientInv, ClientTypes, Client!TextReturned, Client!ErrorsTranslated
  <1>3. CASE Client!MayRetry /\ pc' = "pause" /\ attempt' = attempt + 1
             /\ UNCHANGED <<format, error>>
    <2>1. attempt' # attempt
      BY <1>3 DEF ClientInv, ClientTypes
    <2>2. SentInv' /\ attempt' \in Nat /\ format' \in Nat /\ sent' \in Nat
      BY <1>1, <1>3, <2>1, SamePrompt
    <2> QED BY <1>3, <2>2
            DEF ClientInv, ClientTypes, Client!TextReturned, Client!ErrorsTranslated
  <1> QED BY <1>2, <1>3 DEF Client!Transient, Client!Raise, Client!Tries

\* One request: it is sent, answered, broken off or read.
LEMMA RequestKeepsClient ==
    ASSUME ClientInv,
           \/ Client!Send \/ Client!Status \/ Client!TimesOut \/ Client!Breaks
           \/ Client!Chunk \/ Client!MalformedChunk \/ Client!EndOfStream
    PROVE  ClientInv'
  <1> USE DEF ClientTypes, Client!TextReturned, Client!ErrorsTranslated
  <1>1. CASE Client!Send
    <2>1. /\ Sending = 0 /\ Sending' = 1 /\ pc' = "request" /\ sent' = sent + 1
          /\ UNCHANGED <<kind, attempt, format, result, error>>
          /\ content' = "empty" /\ reasoning' = "empty"
      BY <1>1 DEF Client!Send, Client!Tries, Sending
    <2>2. SentInv' /\ attempt' \in Nat /\ format' \in Nat /\ sent' \in Nat
      BY <2>1, SamePrompt
    <2> QED BY <2>1, <2>2 DEF ClientInv, Client!Texts
  <1>2. ASSUME pc \in {"request", "stream"}, pc' \in {"stream", "returned", "collected"},
               pc' = "returned" => kind = "stream",
               UNCHANGED <<kind, attempt, format, sent, result, error>>,
               content' \in Client!Texts, reasoning' \in Client!Texts
        PROVE  ClientInv'
    <2>1. Sending = 1 /\ Sending' = 1
      BY <1>2 DEF Sending
    <2>2. SentInv' /\ attempt' \in Nat /\ format' \in Nat /\ sent' \in Nat
      BY <1>2, <2>1, SamePrompt
    <2> QED BY <1>2, <2>2 DEF ClientInv
  <1>3. CASE Client!Status
    <2>1. CASE pc' = "stream" /\ UNCHANGED <<attempt, format, error>>
      BY <1>2, <1>3, <2>1 DEF Client!Status, Client!Response, ClientInv
    <2>2. ASSUME NEW e \in {"rate_limited", "unavailable"}, Client!Transient(e)
          PROVE  ClientInv'
      BY <1>3, <2>2, FailureKeepsClient DEF Client!Status, Client!Response, Client!AIErrors
    <2> QED BY <1>3, <2>1, <2>2 DEF Client!Status, Client!Tries
  <1>4. CASE Client!TimesOut
    BY <1>4, FailureKeepsClient
    DEF Client!TimesOut, Client!HttpxError, Client!Response, Client!AIErrors
  <1>5. CASE Client!Breaks
    BY <1>5, FailureKeepsClient
    DEF Client!Breaks, Client!HttpxError, Client!Response, Client!AIErrors
  <1>6. CASE Client!Chunk
    <2>1. /\ pc = "stream" /\ pc' = pc /\ UNCHANGED <<kind, attempt, format, sent, result, error>>
          /\ content' \in {content} \cup Client!Grown
          /\ reasoning' \in {reasoning} \cup Client!Grown
      BY <1>6 DEF Client!Chunk, Client!Tries
    <2> QED BY <1>2, <2>1 DEF ClientInv, Client!Grown, Client!Texts
  <1>7. CASE Client!EndOfStream
    BY <1>2, <1>7 DEF Client!EndOfStream, Client!Tries, ClientInv
  <1>8. CASE Client!MalformedChunk
    BY <1>8, FailureKeepsClient DEF Client!MalformedChunk, Client!Response
  <1> QED BY <1>1, <1>3, <1>4, <1>5, <1>6, <1>7, <1>8

\* The whole text: taken, returned, or asked for anew.
LEMMA TextKeepsClient ==
    ASSUME ClientInv, Client!Collect \/ Client!ReturnText \/ Client!NotJson
    PROVE  ClientInv'
  <1> USE DEF Client!TextReturned, Client!ErrorsTranslated
  <1>1. CASE Client!Collect
    <2> DEFINE taken == IF content # "empty" THEN content ELSE reasoning
    <2>1. /\ pc = "collected" /\ taken \in Client!Texts
          /\ UNCHANGED <<kind, content, reasoning, sent>>
      BY <1>1 DEF Client!Collect, Client!Response, ClientInv, ClientTypes
    <2>2. CASE taken = "empty"
      <3>1. Client!Transient("unavailable") /\ result' = result
        BY <1>1, <2>2 DEF Client!Collect
      <3> QED BY <2>1, <3>1, FailureKeepsClient DEF Client!AIErrors
    <2>3. CASE taken # "empty"
      <3>1. pc' = "text" /\ result' = taken /\ UNCHANGED <<attempt, format, error>>
        BY <1>1, <2>3 DEF Client!Collect, Client!Tries
      <3>2. Sending = 1 /\ Sending' = 1
        BY <2>1, <3>1 DEF Sending
      <3>3. SentInv' /\ attempt' \in Nat /\ format' \in Nat /\ sent' \in Nat
        BY <2>1, <3>1, <3>2, SamePrompt
      <3> HIDE DEF taken
      <3> QED BY <2>1, <2>3, <3>1, <3>3 DEF ClientInv, ClientTypes
    <2> QED BY <2>2, <2>3
  <1>2. CASE Client!ReturnText
    <2>1. /\ pc = "text" /\ pc' = "returned"
          /\ kind \notin Client!Json \/ result = "object"
          /\ UNCHANGED <<kind, attempt, format, content, reasoning, sent, result, error>>
      BY <1>2 DEF Client!ReturnText, Client!Tries, Client!Response
    <2>2. Sending = 1 /\ Sending' = 1
      BY <2>1 DEF Sending
    <2>3. SentInv' /\ attempt' \in Nat /\ format' \in Nat /\ sent' \in Nat
      BY <2>1, <2>2, SamePrompt
    <2> QED BY <2>1, <2>3 DEF ClientInv, ClientTypes
  <1>3. CASE Client!NotJson
    <2>1. /\ pc = "text" /\ kind \in Client!Json /\ result' = "empty"
          /\ UNCHANGED <<kind, content, reasoning, sent>>
      BY <1>3 DEF Client!NotJson, Client!Response
    <2>2. CASE format < MaxJsonRetries
      <3>1. pc' = "start" /\ format' = format + 1 /\ attempt' = 0 /\ error' = error
        BY <1>3, <2>2 DEF Client!NotJson
      <3>2. /\ attempt \in Nat /\ format \in Nat /\ sent \in Nat /\ Tried \in Nat
            /\ attempt < Tried /\ sent <= format * Tried + attempt + 1
            /\ MaxJsonRetries \in Nat /\ Tried > 0
        BY <2>1, ClientNumbers DEF ClientInv, ClientTypes, SentInv, Sending
      <3>3. Tried' = Tried /\ Sending' = 0
        BY <2>1, <3>1 DEF Tried, Sending
      <3>4. format * Tried \in Nat /\ (format + 1) * Tried = format * Tried + Tried
        BY <3>2, Products
      <3> DEFINE used == format * Tried
                 next == (format + 1) * Tried
      <3>5. sent <= used + attempt + 1 /\ next = used + Tried /\ used \in Nat
        BY <3>2, <3>4
      <3>6. format' * Tried' = next
        BY <3>1, <3>3
      <3> HIDE DEF used, next
      <3>7. sent <= next + 0 + 0
        BY <3>2, <3>5
      <3>8. SentInv'
        BY <2>1, <2>2, <3>1, <3>2, <3>3, <3>6, <3>7 DEF SentInv
      <3> QED BY <2>1, <3>1, <3>2, <3>8 DEF ClientInv, ClientTypes, Client!Texts
    <2>3. CASE ~(format < MaxJsonRetries)
      <3>1. /\ pc' = "raised" /\ error' = "invalid" /\ UNCHANGED <<attempt, format>>
        BY <1>3, <2>3 DEF Client!NotJson, Client!Raise, Client!Tries
      <3>2. Sending = 1 /\ Sending' = 1
        BY <2>1, <3>1 DEF Sending
      <3>3. SentInv' /\ attempt' \in Nat /\ format' \in Nat /\ sent' \in Nat
        BY <2>1, <3>1, <3>2, SamePrompt
      <3> QED BY <2>1, <3>1, <3>3
              DEF ClientInv, ClientTypes, Client!Texts, Client!AIErrors
    <2> QED BY <2>2, <2>3
  <1> QED BY <1>1, <1>2, <1>3

\* Every step keeps ClientInv.
LEMMA ClientKeeps ==
    ASSUME ClientInv, Client!Next \/ UNCHANGED clientVars
    PROVE  ClientInv'
  <1>1. CASE UNCHANGED clientVars
    BY <1>1 DEF clientVars, ClientInv, ClientTypes, SentInv, Tried, Sending,
                Client!TextReturned, Client!ErrorsTranslated
  <1> QED BY <1>1, RequestKeepsClient, TextKeepsClient DEF Client!Next

\* However the two loops of retries are nested, a call sends no more requests than they
\* allow together, and it ends with a text that was asked for or an error its callers
\* know, but for the exceptions named in ErrorsTranslated (ai/client.py, complete,
\* complete_json and stream).
THEOREM CallAlwaysHolds == Spec => []CallHolds
  <1> DEFINE Inv == part = "client" => ClientInv
  <1>1. Init => Inv
    BY ClientInit DEF Init
  <1>2. Inv /\ [Next]_vars => Inv'
    BY ClientKeeps, PartSteps
  <1>3. Inv => CallHolds
    <2> SUFFICES ASSUME ClientInv PROVE Client!CallHolds
      BY DEF CallHolds
    <2> DEFINE used == format * Tried
               most == MaxJsonRetries * Tried
    <2>1. /\ attempt \in Nat /\ format \in Nat /\ sent \in Nat
          /\ attempt < Tried /\ format <= MaxJsonRetries /\ sent <= used + attempt + 1
          /\ kind \in Client!Kinds /\ (kind \notin Client!Json => format = 0)
      <3>1. Sending <= 1 /\ Sending \in Nat
        BY DEF Sending
      <3>2. format * Tried \in Nat
        BY Products, ClientNumbers DEF ClientInv, ClientTypes
      <3> QED BY <3>1, <3>2, ClientNumbers DEF ClientInv, ClientTypes, SentInv
    <2>2. used <= most /\ used \in Nat /\ most \in Nat
      BY <2>1, ClientNumbers, Products
    <2>3. format = 0 => used = 0
      BY ClientNumbers
    <2>4. (MaxJsonRetries + 1) * Tried = most + Tried
      BY ClientNumbers, Products
    <2>5. Tried = 1 => most = MaxJsonRetries
      BY ClientNumbers
    <2> HIDE DEF used, most
    <2>6. sent <= most + Tried
      BY <2>1, <2>2, ClientNumbers
    <2>7. Client!RequestsBounded
      <3>1. CASE kind = "json"
        BY <2>4, <2>6, <3>1, ClientNumbers DEF Client!RequestsBounded
      <3>2. CASE kind = "json_usage"
        BY <2>5, <2>6, <3>2, ClientNumbers DEF Client!RequestsBounded
      <3>3. CASE kind = "complete"
        BY <2>1, <2>3, <3>3, ClientNumbers DEF Client!RequestsBounded, Client!Json
      <3>4. CASE kind = "stream"
        BY <2>1, <2>3, <3>4, ClientNumbers DEF Client!RequestsBounded, Client!Json
      <3> QED BY <2>1, <3>1, <3>2, <3>3, <3>4 DEF Client!Kinds
    <2> QED BY <2>7 DEF ClientInv, Client!CallHolds
  <1> QED BY <1>1, <1>2, <1>3, PTL DEF Spec

\* The response, what was shown of it and the error of a call.
ClientRest ==
    /\ chunks \in 0..MaxChunks /\ cut \in BOOLEAN
    /\ shown \in SUBSET {"content", "reasoning"}
    /\ error \in {"none", "raw", "malformed"} \cup Client!AIErrors

\* An error is one of the AI layer, the raw one of httpx or a malformed chunk's.
LEMMA ClientRestKept ==
    ASSUME ClientRest, Client!Next \/ UNCHANGED clientVars
    PROVE  ClientRest'
  <1> USE DEF ClientRest, Client!Tries, Client!Response
  <1>0. MaxChunks \in Nat
    BY ServicesAssumption DEF Client!ClientAssumption
  <1>1. ASSUME NEW e \in {"raw", "malformed"} \cup Client!AIErrors,
               Client!Transient(e) \/ Client!Raise(e)
        PROVE  error' \in {"none", "raw", "malformed"} \cup Client!AIErrors
    BY <1>1 DEF Client!Transient, Client!Raise
  <1>2. \A e \in Client!AIErrors : Client!HttpxError(e) \in {"raw"} \cup Client!AIErrors
    BY DEF Client!HttpxError
  <1>3. {"rate_limited", "unavailable", "timeout", "invalid"} \subseteq Client!AIErrors
    BY DEF Client!AIErrors
  <1>4. CASE UNCHANGED clientVars
    BY <1>4 DEF clientVars
  <1>5. CASE Client!Send
    <2>1. chunks' = 0 /\ cut' = FALSE /\ UNCHANGED <<shown, error>>
      BY <1>5 DEF Client!Send
    <2>2. chunks' \in 0..MaxChunks
      BY <1>0, <2>1
    <2> QED BY <2>1, <2>2
  <1>6. CASE Client!Status
    BY <1>1, <1>3, <1>6 DEF Client!Status
  <1>7. CASE Client!TimesOut \/ Client!Breaks
    <2>1. UNCHANGED <<chunks, cut, shown>>
      BY <1>7 DEF Client!TimesOut, Client!Breaks
    <2>2. \E e \in {"raw", "malformed"} \cup Client!AIErrors : Client!Transient(e) \/ Client!Raise(e)
      BY <1>2, <1>3, <1>7 DEF Client!TimesOut, Client!Breaks
    <2> QED BY <1>1, <2>1, <2>2
  <1>8. CASE Client!Chunk
    <2>1. chunks' \in 0..MaxChunks
      BY <1>0, <1>8 DEF Client!Chunk
    <2>2. shown' \in SUBSET {"content", "reasoning"}
      BY <1>8 DEF Client!Chunk
    <2> QED BY <1>8, <2>1, <2>2 DEF Client!Chunk
  <1>9. CASE Client!EndOfStream
    BY <1>9 DEF Client!EndOfStream
  <1>10. CASE Client!Collect
    <2>1. UNCHANGED <<chunks, cut, shown>>
      BY <1>10 DEF Client!Collect
    <2>2. error' = error \/ Client!Transient("unavailable")
      BY <1>10 DEF Client!Collect
    <2> QED BY <1>1, <1>3, <2>1, <2>2
  <1>11. CASE Client!ReturnText
    BY <1>11 DEF Client!ReturnText
  <1>12. CASE Client!NotJson
    <2>1. UNCHANGED <<chunks, cut, shown>>
      BY <1>12 DEF Client!NotJson
    <2>2. error' = error \/ Client!Raise("invalid")
      BY <1>12 DEF Client!NotJson
    <2> QED BY <1>1, <1>3, <2>1, <2>2
  <1>13. CASE Client!MalformedChunk
    BY <1>1, <1>13 DEF Client!MalformedChunk
  <1> QED BY <1>4, <1>5, <1>6, <1>7, <1>8, <1>9, <1>10, <1>11, <1>12, <1>13 DEF Client!Next

\* The types of the variables of a call.
LEMMA ClientTyped == Spec => [](part = "client" => Client!TypeOK)
  <1> DEFINE Inv == part = "client" => ClientInv /\ ClientRest
  <1>1. Init => Inv
    <2> SUFFICES ASSUME Client!Init PROVE ClientRest
      BY ClientInit DEF Init
    <2>1. MaxChunks \in Nat
      BY ServicesAssumption DEF Client!ClientAssumption
    <2>2. chunks = 0 /\ cut = FALSE /\ shown = {} /\ error = "none"
      BY DEF Client!Init
    <2>3. chunks \in 0..MaxChunks
      BY <2>1, <2>2
    <2> QED BY <2>2, <2>3 DEF ClientRest
  <1>2. Inv /\ [Next]_vars => Inv'
    BY ClientKeeps, ClientRestKept, PartSteps
  <1>3. Inv => (part = "client" => Client!TypeOK)
    <2> SUFFICES ASSUME ClientInv, ClientRest PROVE Client!TypeOK
      OBVIOUS
    <2>1. attempt \in 0..MaxRetries /\ format \in 0..MaxJsonRetries
      BY ClientNumbers DEF ClientInv, ClientTypes, SentInv, Tried
    <2> QED BY <2>1 DEF ClientInv, ClientTypes, ClientRest, Client!TypeOK
  <1> QED BY <1>1, <1>2, <1>3, PTL DEF Spec

-----------------------------------------------------------------------------
(* Images under extraction                                                 *)

\* What a request has done, without a bound on its calls.
UploadState ==
    [pc : {"idle", "lookup", "enter", "waiting", "calling", "structure"},
     image : Images, more : BOOLEAN, calls : Nat, texts : 0..1]
\* The types of the variables; that the counters are natural numbers is a theorem.
ImageTypes ==
    /\ extractMode \in {"vision", "vision_text"}
    /\ inflight \in Int /\ permits \in Int
    /\ upload \in [Uploads -> UploadState]

\* A request that may still call has a call left; in the mode "vision_text" a second text
\* has a call of its own.
CallsLeft(s) ==
    IF extractMode = "vision"
    THEN /\ s.pc # "structure" /\ s.calls <= MaxAttempts
         /\ s.pc # "calling" => s.calls < MaxAttempts
    ELSE s.calls <= s.texts + (IF s.pc \in {"calling", "structure"} THEN 2 ELSE 1)

\* The counter and the semaphore are what the requests hold together.
ImageInv == /\ ImageTypes
            /\ Image!PlacesAccounted
            /\ \A r \in Uploads : CallsLeft(upload[r])

\* The places that a request at a step holds: of the counter and of the semaphore.
Held(place) == IF place \in {"waiting", "calling"} THEN 1 ELSE 0
Calling(place) == IF place = "calling" THEN 1 ELSE 0

\* A request that is not under way holds no place.
LEMMA ImageIdle ==
    /\ Image!Idle \in UploadState /\ Image!Idle.pc = "idle"
    /\ Image!Idle.calls = 0 /\ Image!Idle.texts = 0
    /\ \A s \in UploadState : s.pc = "idle" => Held(s.pc) = 0 /\ Calling(s.pc) = 0
    /\ IsFiniteSet(Uploads) /\ MaxConcurrency \in Nat
    /\ MaxAttempts \in Nat /\ MaxAttempts > 0
  <1>1. (CHOOSE i \in Images : TRUE) \in Images
    BY ServicesAssumption DEF Image!ExtractAssumption
  <1>2. IsFiniteSet(Uploads)
    BY ServicesAssumption DEF Image!ExtractAssumption, Image!IsFiniteSet, IsFiniteSet
  <1> QED BY <1>1, <1>2, ServicesAssumption
          DEF Image!ExtractAssumption, Image!Idle, UploadState, Held, Calling

\* Counting the requests at some steps when one of them moves.
LEMMA CountMoves ==
    ASSUME upload \in [Uploads -> UploadState], NEW r \in Uploads, NEW s \in UploadState,
           upload' = [upload EXCEPT ![r] = s], NEW P
    PROVE  /\ Image!In(P) \in Nat
           /\ Image!In(P)' = Image!In(P) + (IF s.pc \in P THEN 1 ELSE 0)
                                         - (IF upload[r].pc \in P THEN 1 ELSE 0)
  <1> DEFINE S == {q \in Uploads : upload[q].pc \in P}
             T == {q \in Uploads : upload'[q].pc \in P}
  <1>1. IsFiniteSet(S) /\ IsFiniteSet(T)
    BY ImageIdle, FS_Subset
  <1>2. T = IF s.pc \in P THEN S \cup {r} ELSE S \ {r}
    OBVIOUS
  <1>3. Cardinality(S) \in Nat
    BY <1>1, FS_CardinalityType
  <1>4. /\ Cardinality(S \cup {r}) = IF r \in S THEN Cardinality(S) ELSE Cardinality(S) + 1
        /\ Cardinality(S \ {r}) = IF r \in S THEN Cardinality(S) - 1 ELSE Cardinality(S)
    BY <1>1, FS_AddElement, FS_RemoveElement
  <1>5. r \in S <=> upload[r].pc \in P
    OBVIOUS
  <1>6. Image!In(P) = Cardinality(S) /\ Image!In(P)' = Cardinality(T)
    BY DEF Image!In, Image!Cardinality, Cardinality, Image!IsFiniteSet, IsFiniteSet
  <1> HIDE DEF S, T
  <1> QED BY <1>2, <1>3, <1>4, <1>5, <1>6

\* A request moves, and takes or gives back the places of its steps.
LEMMA ImageMoves ==
    ASSUME ImageInv, NEW r \in Uploads, NEW s \in UploadState, Image!Move(r, s),
           inflight' = inflight + Held(s.pc) - Held(upload[r].pc),
           permits' = permits - Calling(s.pc) + Calling(upload[r].pc),
           CallsLeft(s)
    PROVE  ImageInv'
  <1>1. upload' = [upload EXCEPT ![r] = s] /\ extractMode' = extractMode
    BY DEF Image!Move
  <1>2. /\ inflight \in Int /\ permits \in Int /\ upload \in [Uploads -> UploadState]
        /\ MaxConcurrency \in Nat
    BY ImageIdle DEF ImageInv, ImageTypes
  <1>3. /\ Held(s.pc) \in 0..1 /\ Held(upload[r].pc) \in 0..1
        /\ Calling(s.pc) \in 0..1 /\ Calling(upload[r].pc) \in 0..1
    BY DEF Held, Calling
  <1>4. ImageTypes'
    <2>1. inflight' \in Int /\ permits' \in Int
      BY <1>2, <1>3
    <2> QED BY <1>1, <1>2, <2>1 DEF ImageInv, ImageTypes
  <1>5. Image!PlacesAccounted'
    <2>1. /\ Image!In({"waiting", "calling"}) \in Nat
          /\ Image!In({"waiting", "calling"})' =
                Image!In({"waiting", "calling"}) + Held(s.pc) - Held(upload[r].pc)
      BY <1>1, <1>2, CountMoves DEF Held
    <2>2. /\ Image!In({"calling"}) \in Nat
          /\ Image!In({"calling"})' =
                Image!In({"calling"}) + Calling(s.pc) - Calling(upload[r].pc)
      <3>1. \A place : place \in {"calling"} <=> place = "calling"
        OBVIOUS
      <3> QED BY <1>1, <1>2, <3>1, CountMoves DEF Calling
    <2>3. /\ inflight = Image!In({"waiting", "calling"})
          /\ MaxConcurrency - permits = Image!In({"calling"})
      BY DEF ImageInv, Image!PlacesAccounted
    <2>4. inflight' = Image!In({"waiting", "calling"})'
      BY <2>1, <2>3
    <2>5. MaxConcurrency - permits' = Image!In({"calling"})'
      BY <1>2, <1>3, <2>2, <2>3
    <2> QED BY <2>4, <2>5 DEF Image!PlacesAccounted
  <1>6. \A q \in Uploads : CallsLeft(upload[q])'
    BY <1>1, <1>2 DEF ImageInv, CallsLeft
  <1> QED BY <1>4, <1>5, <1>6 DEF ImageInv

\* At first every place is free.
LEMMA ImageInit == Image!Init => ImageInv
  <1> SUFFICES ASSUME Image!Init PROVE ImageInv
    OBVIOUS
  <1>1. ImageTypes
    BY ImageIdle DEF Image!Init, ImageTypes
  <1>2. \A P : "idle" \notin P => Image!In(P) = 0
    <2> SUFFICES ASSUME NEW P, "idle" \notin P PROVE Image!In(P) = 0
      OBVIOUS
    <2>1. {q \in Uploads : upload[q].pc \in P} = {}
      BY ImageIdle DEF Image!Init
    <2>2. Image!In(P) = Cardinality({})
      BY <2>1 DEF Image!In, Image!Cardinality, Cardinality, Image!IsFiniteSet, IsFiniteSet
    <2> QED BY <2>2, FS_EmptySet
  <1>3. Image!PlacesAccounted
    <2>1. Image!In({"waiting", "calling"}) = 0 /\ Image!In({"calling"}) = 0
      BY <1>2
    <2> QED BY <2>1, ImageIdle DEF Image!Init, Image!PlacesAccounted
  <1>4. \A r \in Uploads : CallsLeft(upload[r])
    BY ImageIdle DEF Image!Init, CallsLeft
  <1> QED BY <1>1, <1>3, <1>4 DEF ImageInv

\* The cache, the guard and a cancellation.
LEMMA GuardKeepsImage ==
    ASSUME ImageInv, NEW r \in Uploads,
           \/ \E image \in Images, more \in BOOLEAN : Image!Arrive(r, image, more)
           \/ Image!CacheHit(r) \/ Image!CacheMiss(r) \/ Image!Busy(r) \/ Image!Enter(r)
           \/ Image!Acquire(r) \/ Image!Cancel(r)
    PROVE  ImageInv'
  <1>1. /\ upload[r] \in UploadState /\ CallsLeft(upload[r])
        /\ inflight \in Int /\ permits \in Int
        /\ upload \in [Uploads -> UploadState]
    BY DEF ImageInv, ImageTypes
  <1>2. CallsLeft(Image!Idle)
    BY ImageIdle DEF CallsLeft
  <1>3. ASSUME NEW image \in Images, NEW more \in BOOLEAN, Image!Arrive(r, image, more)
        PROVE  ImageInv'
    <2> DEFINE s == [Image!Idle EXCEPT !.pc = "lookup", !.image = image, !.more = more]
    <2>1. s \in UploadState /\ s.pc = "lookup" /\ s.calls = 0 /\ s.texts = 0
      BY ImageIdle DEF UploadState
    <2>2. /\ Image!Move(r, s) /\ upload[r].pc = "idle"
          /\ inflight' = inflight /\ permits' = permits
      BY <1>3 DEF Image!Arrive, Image!At, Image!Guard
    <2> HIDE DEF s
    <2>3. CallsLeft(s)
      BY <2>1, ImageIdle DEF CallsLeft
    <2> QED BY <1>1, <2>1, <2>2, <2>3, ImageMoves DEF Held, Calling
  <1>4. CASE Image!CacheHit(r) \/ Image!Busy(r)
    <2>1. /\ Image!Move(r, Image!Idle) /\ upload[r].pc \in {"lookup", "enter"}
          /\ inflight' = inflight /\ permits' = permits
      BY <1>4 DEF Image!CacheHit, Image!Busy, Image!End, Image!At, Image!Guard
    <2> QED BY <1>1, <1>2, <2>1, ImageIdle, ImageMoves DEF Held, Calling
  <1>5. ASSUME NEW place \in {"enter", "waiting"}, Image!Goes(r, place),
               upload[r].pc \in {"lookup", "enter"},
               inflight' = inflight + Held(place), permits' = permits
        PROVE  ImageInv'
    <2> DEFINE s == [upload[r] EXCEPT !.pc = place]
    <2>1. /\ s \in UploadState /\ s.pc = place /\ s.calls = upload[r].calls
          /\ s.texts = upload[r].texts /\ Image!Move(r, s)
      BY <1>1, <1>5 DEF UploadState, Image!Goes
    <2> HIDE DEF s
    <2>2. CallsLeft(s)
      BY <1>1, <1>5, <2>1 DEF CallsLeft
    <2>3. /\ inflight' = inflight + Held(s.pc) - Held(upload[r].pc)
          /\ permits' = permits - Calling(s.pc) + Calling(upload[r].pc)
      BY <1>1, <1>5, <2>1 DEF Held, Calling
    <2> QED BY <2>1, <2>2, <2>3, ImageMoves
  <1>6. CASE Image!CacheMiss(r)
    BY <1>1, <1>5, <1>6 DEF Image!CacheMiss, Image!At, Image!Guard, Held
  <1>7. CASE Image!Enter(r)
    BY <1>1, <1>5, <1>7 DEF Image!Enter, Image!At, Held
  <1>8. CASE Image!Acquire(r)
    <2> DEFINE s == [upload[r] EXCEPT !.pc = "calling", !.calls = @ + 1]
    <2>1. /\ s \in UploadState /\ s.pc = "calling" /\ s.calls = upload[r].calls + 1
          /\ s.texts = upload[r].texts /\ upload[r].calls \in Nat /\ upload[r].texts \in 0..1
      <3>1. upload[r].calls \in Nat /\ upload[r].texts \in 0..1
        BY <1>1 DEF UploadState
      <3>2. upload[r].calls + 1 \in Nat
        BY <3>1
      <3>3. s = [upload[r] EXCEPT !.pc = "calling", !.calls = upload[r].calls + 1]
        BY <1>1 DEF UploadState
      <3> DEFINE n == upload[r].calls + 1
      <3> HIDE DEF s
      <3>4. s = [upload[r] EXCEPT !.pc = "calling", !.calls = n] /\ n \in Nat
        BY <3>2, <3>3
      <3> HIDE DEF n
      <3>5. s \in UploadState /\ s.pc = "calling" /\ s.calls = n /\ s.texts = upload[r].texts
        BY <1>1, <3>4 DEF UploadState
      <3> QED BY <3>1, <3>5 DEF n
    <2>2. /\ Image!Move(r, s) /\ upload[r].pc = "waiting"
          /\ inflight' = inflight /\ permits' = permits - 1
      BY <1>8 DEF Image!Acquire, Image!At
    <2> HIDE DEF s
    <2>3. CallsLeft(s)
      BY <1>1, <2>1, <2>2, ImageIdle DEF CallsLeft
    <2> QED BY <1>1, <2>1, <2>2, <2>3, ImageMoves DEF Held, Calling
  <1>9. CASE Image!Cancel(r)
    <2>1. /\ Image!Move(r, Image!Idle) /\ upload[r].pc \in {"waiting", "calling"}
          /\ inflight' = inflight - 1
          /\ permits' = permits + Calling(upload[r].pc)
      BY <1>1, <1>9 DEF Image!Cancel, Image!End, Image!At, Calling
    <2> QED BY <1>1, <1>2, <2>1, ImageIdle, ImageMoves DEF Held
  <1> QED BY <1>3, <1>4, <1>6, <1>7, <1>8, <1>9

\* What the provider answers: a call ends, and may be followed by another.
LEMMA AnswerKeepsImage ==
    ASSUME ImageInv, NEW r \in Uploads,
           \/ Image!Fields(r) \/ Image!TryAgain(r) \/ Image!CallFails(r)
           \/ Image!TextRead(r) \/ Image!Structured(r)
    PROVE  ImageInv'
  <1>1. /\ upload[r] \in UploadState /\ CallsLeft(upload[r])
        /\ inflight \in Int /\ permits \in Int
        /\ extractMode \in {"vision", "vision_text"}
        /\ upload[r].calls \in Nat /\ upload[r].texts \in 0..1
    BY DEF ImageInv, ImageTypes, UploadState
  <1>2. CallsLeft(Image!Idle)
    BY ImageIdle DEF CallsLeft
  <1>3. ASSUME Image!Move(r, Image!Idle), upload[r].pc = "calling", Image!Leave
        PROVE  ImageInv'
    BY <1>1, <1>2, <1>3, ImageIdle, ImageMoves DEF Image!Leave, Held, Calling
  <1>4. ASSUME NEW place \in {"enter", "structure"}, Image!Goes(r, place),
               upload[r].pc = "calling", Image!Leave,
               IF place = "structure" THEN extractMode = "vision_text"
               ELSE IF extractMode = "vision" THEN upload[r].calls < MaxAttempts
                                              ELSE upload[r].calls = 1
        PROVE  ImageInv'
    <2> DEFINE s == [upload[r] EXCEPT !.pc = place]
    <2>1. /\ s \in UploadState /\ s.pc = place /\ s.calls = upload[r].calls
          /\ s.texts = upload[r].texts /\ Image!Move(r, s)
      BY <1>1, <1>4 DEF UploadState, Image!Goes
    <2> HIDE DEF s
    <2>2. CallsLeft(s)
      BY <1>1, <1>4, <2>1 DEF CallsLeft
    <2>3. /\ inflight' = inflight + Held(s.pc) - Held(upload[r].pc)
          /\ permits' = permits - Calling(s.pc) + Calling(upload[r].pc)
      BY <1>1, <1>4, <2>1 DEF Held, Calling, Image!Leave
    <2> QED BY <2>1, <2>2, <2>3, ImageMoves
  <1>5. CASE Image!Fields(r) \/ Image!CallFails(r)
    BY <1>3, <1>5 DEF Image!Fields, Image!CallFails, Image!End, Image!At
  <1>6. CASE Image!TryAgain(r)
    BY <1>4, <1>6 DEF Image!TryAgain, Image!At, Image!AttemptLeft
  <1>7. CASE Image!TextRead(r)
    BY <1>4, <1>7 DEF Image!TextRead, Image!At
  <1>8. CASE Image!Structured(r)
    <2>1. upload[r].pc = "structure" /\ inflight' = inflight /\ permits' = permits
      BY <1>8 DEF Image!Structured, Image!At, Image!Guard
    <2>2. CASE Image!Move(r, Image!Idle)
      BY <1>1, <1>2, <2>1, <2>2, ImageIdle, ImageMoves DEF Held, Calling
    <2> DEFINE s == [upload[r] EXCEPT !.pc = "enter", !.texts = 1]
    <2>3. CASE upload[r].texts = 0 /\ Image!Move(r, s)
      <3>1. /\ s \in UploadState /\ s.pc = "enter" /\ s.calls = upload[r].calls /\ s.texts = 1
        <4>1. s = [upload[r] EXCEPT !.pc = "enter", !.texts = 1] /\ 1 \in 0..1
          OBVIOUS
        <4> HIDE DEF s
        <4> QED BY <1>1, <4>1 DEF UploadState
      <3> HIDE DEF s
      <3>2. CallsLeft(s)
        BY <1>1, <2>1, <2>3, <3>1 DEF CallsLeft
      <3> QED BY <1>1, <2>1, <2>3, <3>1, <3>2, ImageMoves DEF Held, Calling
    <2> QED BY <1>8, <2>2, <2>3 DEF Image!Structured, Image!End
  <1> QED BY <1>5, <1>6, <1>7, <1>8

\* Every step keeps ImageInv.
LEMMA ImageKeeps ==
    ASSUME ImageInv, Image!Next \/ UNCHANGED imageVars
    PROVE  ImageInv'
  <1>1. CASE UNCHANGED imageVars
    <2>1. UNCHANGED <<extractMode, inflight, permits, upload>>
      BY <1>1 DEF imageVars
    <2>2. Image!PlacesAccounted'
      BY <2>1 DEF ImageInv, Image!PlacesAccounted, Image!In
    <2> QED BY <2>1, <2>2 DEF ImageInv, ImageTypes, CallsLeft
  <1> QED BY <1>1, GuardKeepsImage, AnswerKeepsImage DEF Image!Next, Image!Step

\* The counter and the semaphore of the vision calls are what is under way, whatever was
\* cancelled or failed, and no request calls more often than it may
\* (image_extract_service.py, _vision_call_guard and extract).
THEOREM PlacesAlwaysAccounted == Spec => []PlacesAccounted
  <1> DEFINE Inv == part = "image" => ImageInv
  <1>1. Init => Inv
    BY ImageInit DEF Init
  <1>2. Inv /\ [Next]_vars => Inv'
    BY ImageKeeps, PartSteps
  <1>3. Inv => PlacesAccounted
    <2> SUFFICES ASSUME ImageInv PROVE Image!PlacesAccounted /\ Image!CallsBounded
      BY DEF PlacesAccounted
    <2>1. ASSUME NEW r \in Uploads
          PROVE  upload[r].calls <= IF extractMode = "vision" THEN MaxAttempts ELSE 3
      <3>1. upload[r].calls \in Nat /\ upload[r].texts \in 0..1 /\ CallsLeft(upload[r])
        BY DEF ImageInv, ImageTypes, UploadState
      <3> QED BY <3>1 DEF CallsLeft
    <2> QED BY <2>1 DEF ImageInv, Image!CallsBounded
  <1> QED BY <1>1, <1>2, <1>3, PTL DEF Spec

\* The counters within the limits of the guard, and the cache within its size.
ImageRest ==
    /\ inflight <= MaxConcurrency + MaxQueue /\ permits >= 0
    /\ fields \in Seq(Images) /\ Len(fields) <= CacheSize

\* What is put in the cache has made room before.
LEMMA CacheKeepsSize ==
    ASSUME ImageRest, NEW i \in Images,
           fields' = fields \/ fields' = Image!Without(i) \/ Image!CachePut(i)
    PROVE  fields' \in Seq(Images) /\ Len(fields') <= CacheSize
  <1>1. fields \in Seq(Images) /\ Len(fields) <= CacheSize /\ CacheSize \in Nat \ {0}
    BY ServicesAssumption DEF ImageRest, Image!ExtractAssumption
  <1>2. ASSUME NEW s \in Seq(Images)
        PROVE  LET kept == Image!Only(s, Images \ {i})
               IN  kept \in Seq(Images) /\ Len(kept) <= Len(s) /\ Len(kept) \in Nat
    <2>1. Image!Only(s, Images \ {i}) = Only(s, Images \ {i})
      BY DEF Image!Only, Only
    <2>2. Only(s, Images \ {i}) \in Seq(Images)
      BY OnlySteps
    <2>3. Len(Only(s, Images \ {i})) <= Len(s)
      BY OnlyShrinks
    <2> HIDE DEF Only
    <2> QED BY <2>1, <2>2, <2>3
  <1>3. CASE fields' = fields \/ fields' = Image!Without(i)
    <2> DEFINE kept == Image!Only(fields, Images \ {i})
    <2>1. Len(fields) \in Nat
      BY <1>1
    <2>2. kept \in Seq(Images) /\ Len(kept) <= Len(fields) /\ Len(kept) \in Nat
      BY <1>1, <1>2
    <2>3. fields' = fields \/ fields' = kept
      BY <1>3 DEF Image!Without
    <2> HIDE DEF kept
    <2>4. CASE fields' = fields
      BY <1>1, <2>4
    <2>5. CASE fields' = kept
      BY <1>1, <2>1, <2>2, <2>5
    <2> QED BY <2>3, <2>4, <2>5
  <1>4. CASE Image!CachePut(i)
    <2> DEFINE room == IF Len(fields) >= CacheSize THEN Tail(fields) ELSE fields
               kept == Image!Only(room, Images \ {i})
    <2>1. room \in Seq(Images) /\ Len(room) < CacheSize
      BY <1>1
    <2>2. fields' = Append(kept, i)
      BY <1>4 DEF Image!CachePut
    <2>3. kept \in Seq(Images) /\ Len(kept) <= Len(room) /\ Len(kept) \in Nat
      <3> HIDE DEF room
      <3> QED BY <1>2, <2>1
    <2>4. Len(room) \in Nat
      BY <2>1
    <2> HIDE DEF room, kept
    <2>5. Len(fields') = Len(kept) + 1 /\ fields' \in Seq(Images)
      BY <2>2, <2>3
    <2> QED BY <1>1, <2>1, <2>3, <2>4, <2>5
  <1> QED BY <1>3, <1>4

\* Only a call that enters counts up, and only one that is made takes a permit.
LEMMA ImageRestKept ==
    ASSUME ImageInv, ImageRest, Image!Next \/ UNCHANGED imageVars
    PROVE  ImageRest'
  <1>1. /\ inflight \in Int /\ permits \in Int
        /\ MaxConcurrency \in Nat /\ MaxQueue \in Nat
        /\ \A r \in Uploads : upload[r].image \in Images
    BY ServicesAssumption DEF ImageInv, ImageTypes, UploadState, Image!ExtractAssumption
  <1> DEFINE Counts == /\ \/ inflight' = inflight \/ inflight' = inflight - 1
                          \/ inflight' = inflight + 1 /\ inflight < MaxConcurrency + MaxQueue
                       /\ \/ permits' = permits \/ permits' = permits + 1
                          \/ permits' = permits - 1 /\ permits > 0
             Stores == fields' = fields \/ \E i \in Images : \/ fields' = Image!Without(i)
                                                           \/ Image!CachePut(i)
  <1>2. ASSUME Counts, Stores PROVE ImageRest'
    <2>1. inflight' <= MaxConcurrency + MaxQueue /\ permits' >= 0
      BY <1>1, <1>2 DEF ImageRest
    <2>2. fields' \in Seq(Images) /\ Len(fields') <= CacheSize
      BY <1>2, CacheKeepsSize DEF ImageRest
    <2> QED BY <2>1, <2>2 DEF ImageRest
  <1>3. ASSUME NEW r \in Uploads, Image!Step(r) \/ Image!Cancel(r) PROVE Counts /\ Stores
    <2>1. CASE Image!CacheHit(r) \/ Image!CacheMiss(r) \/ Image!Busy(r) \/ Image!Structured(r)
      BY <1>1, <2>1 DEF Image!CacheHit, Image!CacheMiss, Image!Busy, Image!Structured, Image!Guard
    <2>2. CASE \/ Image!Enter(r) \/ Image!Acquire(r) \/ Image!Fields(r) \/ Image!TryAgain(r)
               \/ Image!CallFails(r) \/ Image!TextRead(r) \/ Image!Cancel(r)
      BY <1>1, <2>2 DEF Image!Enter, Image!Acquire, Image!Fields, Image!TryAgain, Image!CallFails,
                        Image!TextRead, Image!Cancel, Image!Leave, Image!Guard
    <2> QED BY <1>3, <2>1, <2>2 DEF Image!Step
  <1>4. ASSUME NEW r \in Uploads, NEW image, NEW more, Image!Arrive(r, image, more)
        PROVE  Counts /\ Stores
    BY <1>4 DEF Image!Arrive, Image!Guard
  <1>5. CASE UNCHANGED imageVars
    BY <1>5 DEF imageVars, ImageRest
  <1> HIDE DEF Counts, Stores
  <1> QED BY <1>2, <1>3, <1>4, <1>5 DEF Image!Next

\* The types of the variables of the extraction.
LEMMA ImageTyped == Spec => [](part = "image" => Image!TypeOK)
  <1> DEFINE Inv == part = "image" => ImageInv /\ ImageRest
  <1>1. Init => Inv
    <2> SUFFICES ASSUME Image!Init PROVE ImageRest
      BY ImageInit DEF Init
    <2>1. MaxConcurrency \in Nat /\ MaxQueue \in Nat /\ CacheSize \in Nat
      BY ServicesAssumption DEF Image!ExtractAssumption
    <2>2. <<>> \in Seq(Images) /\ Len(<<>>) = 0
      OBVIOUS
    <2> QED BY <2>1, <2>2 DEF Image!Init, ImageRest
  <1>2. Inv /\ [Next]_vars => Inv'
    BY ImageKeeps, ImageRestKept, PartSteps
  <1>3. Inv => (part = "image" => Image!TypeOK)
    <2> SUFFICES ASSUME ImageInv, ImageRest PROVE Image!TypeOK
      OBVIOUS
    <2>1. inflight \in Nat /\ permits \in Int /\ permits <= MaxConcurrency
      <3>1. ASSUME NEW P PROVE Image!In(P) \in Nat
        <4>1. IsFiniteSet({q \in Uploads : upload[q].pc \in P})
          BY ImageIdle, FS_Subset
        <4>2. Image!In(P) = Cardinality({q \in Uploads : upload[q].pc \in P})
          BY DEF Image!In, Image!Cardinality, Cardinality, Image!IsFiniteSet, IsFiniteSet
        <4> QED BY <4>1, <4>2, FS_CardinalityType
      <3>2. /\ Image!In({"waiting", "calling"}) \in Nat /\ Image!In({"calling"}) \in Nat
        BY <3>1
      <3>3. permits \in Int /\ MaxConcurrency \in Nat
        BY ImageIdle DEF ImageInv, ImageTypes
      <3>4. /\ inflight = Image!In({"waiting", "calling"})
            /\ MaxConcurrency - permits = Image!In({"calling"})
        BY DEF ImageInv, Image!PlacesAccounted
      <3> QED BY <3>2, <3>3, <3>4
    <2>2. /\ MaxConcurrency \in Nat /\ MaxQueue \in Nat /\ CacheSize \in Nat
      BY ServicesAssumption DEF Image!ExtractAssumption
    <2>3. inflight \in 0..MaxConcurrency + MaxQueue /\ permits \in 0..MaxConcurrency
      BY <2>1, <2>2 DEF ImageRest
    <2>4. \E n \in 0..CacheSize : fields \in [1..n -> Images]
      <3>1. fields \in [1..Len(fields) -> Images] /\ Len(fields) \in 0..CacheSize
        BY <2>2 DEF ImageRest
      <3> QED BY <3>1
    <2> QED BY <2>3, <2>4 DEF ImageInv, ImageTypes, UploadState, Image!RequestState, Image!TypeOK
  <1> QED BY <1>1, <1>2, <1>3, PTL DEF Spec
==============================================================================
