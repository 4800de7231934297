------------------------- MODULE TrustEngineProofs -------------------------
(***************************************************************************)
(* What of the scoring engine holds for every set of signals, dimensions,  *)
(* answers, weights and thresholds: an evaluation rests on the weighted    *)
(* signals alone, every score lies in the band, a block is a verdict, and  *)
(* the cascade is monotone.                                                *)
(***************************************************************************)
EXTENDS TrustEngine, FiniteSums

EngineShape ==
  /\ registered \subseteq Signals /\ IsFiniteSet(registered)
  /\ weight \in [Signals -> Weights]
  /\ \A s \in Signals \ registered : weight[s] = 0
  /\ gate \subseteq Dimensions
  /\ seen \in [Signals -> Answers \cup {Uncovered, Failed}]

\* Registration, profiles and observations keep the shape Evaluate reads.
LEMMA EngineShapeInvariant == EngineSpec => []EngineShape
<1>1. EngineInit => EngineShape
  BY FS_EmptySet, EngineConstants DEF EngineInit, EngineShape
<1>2. EngineShape /\ [EngineNext]_engineVars => EngineShape'
  <2> SUFFICES ASSUME EngineShape, [EngineNext]_engineVars
               PROVE  EngineShape'
    OBVIOUS
  <2> USE DEF EngineShape
  <2>1. ASSUME NEW s \in Signals, Register(s) \/ Retire(s)
        PROVE  EngineShape'
    <3>1. IsFiniteSet(registered')
      BY <2>1, FS_AddElement, FS_RemoveElement DEF Register, Retire
    <3>. QED
      BY <2>1, <3>1, EngineConstants DEF Register, Retire
  <2>2. ASSUME NEW s \in Signals, NEW w \in Weights, Weigh(s, w)
        PROVE  EngineShape'
    BY <2>2 DEF Weigh
  <2>3. ASSUME NEW d \in Dimensions, Gate(d)
        PROVE  EngineShape'
    BY <2>3 DEF Gate
  <2>4. ASSUME NEW s \in Signals, NEW o \in Answers \cup {Failed}, Observe(s, o)
        PROVE  EngineShape'
    BY <2>4 DEF Observe
  <2>5. CASE UNCHANGED engineVars
    BY <2>5 DEF engineVars
  <2>. QED
    BY <2>1, <2>2, <2>3, <2>4, <2>5 DEF EngineNext
<1>. QED
  BY <1>1, <1>2, PTL DEF EngineSpec

\* Evaluate reads nothing but the weighted signals of each dimension, their
\* answers and weights, and the profile's gate.
LEMMA RestsOnWeighted ==
  ASSUME gate' = gate,
         \A d \in Dimensions : Weighted(d)' = Weighted(d),
         \A d \in Dimensions : \A s \in Weighted(d) :
           Result(s)' = Result(s) /\ weight'[s] = weight[s],
         gate \subseteq Dimensions
  PROVE  Evaluation' = Evaluation
<1>1. ASSUME NEW d \in Dimensions
      PROVE  WeightedAverage(d)' = WeightedAverage(d)
  <2>1. [s \in Weighted(d) |-> weight[s]]' = [s \in Weighted(d) |-> weight[s]]
    OBVIOUS
  <2>2. [s \in Weighted(d) |-> Clamp(Result(s).raw) * weight[s]]'
          = [s \in Weighted(d) |-> Clamp(Result(s).raw) * weight[s]]
    OBVIOUS
  <2>. QED
    BY <2>1, <2>2 DEF WeightedAverage
<1>2. ASSUME NEW d \in Dimensions
      PROVE  Caps(d)' = Caps(d)
  <2>1. {t \in Weighted(d) : Result(t).cap # NoCap}'
          = {t \in Weighted(d) : Result(t).cap # NoCap}
    OBVIOUS
  <2>. QED
    BY <2>1 DEF Caps
<1>3. \A d \in Dimensions : Score(d)' = Score(d)
  BY <1>1, <1>2 DEF Score
<1>4. [d \in Dimensions |-> Score(d)]' = [d \in Dimensions |-> Score(d)]
  BY <1>3
<1>5. ActiveDimensions' = ActiveDimensions
  BY DEF ActiveDimensions
<1>6. (UNION {Result(s).risks : s \in UNION {Weighted(d) : d \in Dimensions}})'
        = UNION {Result(s).risks : s \in UNION {Weighted(d) : d \in Dimensions}}
  <2>1. (UNION {Weighted(d) : d \in Dimensions})' = UNION {Weighted(d) : d \in Dimensions}
    OBVIOUS
  <2>. QED
    BY <2>1
<1>. QED
  BY <1>4, <1>5, <1>6 DEF Evaluation

(***************************************************************************)
(* A signal the profile weighs 0 changes no score, risk or recommendation, *)
(* whatever it answers, caps and failures included (engine.Evaluate).      *)
(***************************************************************************)
THEOREM UnweighedTheorem == EngineSpec => UnweighedIsSilent
<1>1. ASSUME EngineShape, [EngineNext]_engineVars,
             NEW s \in Signals, weight[s] = 0, seen'[s] # seen[s]
      PROVE  Evaluation' = Evaluation
  <2>1. PICK t \in Signals, o \in Answers \cup {Failed} : Observe(t, o)
    BY <1>1 DEF EngineNext, engineVars, Register, Retire, Weigh, Gate
  <2>2. /\ UNCHANGED <<registered, weight, gate>>
        /\ \A q \in Signals : q # s => seen'[q] = seen[q]
    BY <1>1, <2>1 DEF Observe, EngineShape
  <2>3. \A d \in Dimensions : Weighted(d)' = Weighted(d)
    BY <1>1, <2>2 DEF Weighted, Excluded, EngineShape
  <2>4. \A d \in Dimensions : \A q \in Weighted(d) : q \in Signals /\ q # s
    BY <1>1 DEF Weighted, EngineShape
  <2>5. \A d \in Dimensions : \A q \in Weighted(d) :
          Result(q)' = Result(q) /\ weight'[q] = weight[q]
    BY <2>2, <2>4 DEF Result
  <2>. QED
    BY <1>1, <2>2, <2>3, <2>5, RestsOnWeighted DEF EngineShape
<1>2. EngineShape /\ [EngineNext]_engineVars =>
        [\A s \in Signals :
           (weight[s] = 0 /\ seen'[s] # seen[s]) => Evaluation' = Evaluation]_engineVars
  BY <1>1
<1>. QED
  BY <1>2, EngineShapeInvariant, PTL DEF EngineSpec, UnweighedIsSilent

(***************************************************************************)
(* Registering, retiring or weighing a provider's signal that covers the   *)
(* agent with nothing changes nothing for that agent (AbsenceAware).       *)
(***************************************************************************)
THEOREM NewProviderTheorem == EngineSpec => NewProviderIsNeutral
<1>1. ASSUME EngineShape,
             NEW s \in Signals \ Informative, seen[s] = Uncovered,
             Register(s) \/ Retire(s) \/ \E w \in Weights : Weigh(s, w)
      PROVE  Evaluation' = Evaluation
  <2>1. /\ UNCHANGED <<gate, seen>>
        /\ \A q \in Signals : q # s => /\ weight'[q] = weight[q]
                                       /\ q \in registered' <=> q \in registered
    BY <1>1 DEF Register, Retire, Weigh, EngineShape
  <2>2. registered' \subseteq Signals
    BY <1>1 DEF Register, Retire, Weigh, EngineShape
  <2>3. Excluded(s) /\ Excluded(s)'
    BY <1>1, <2>1 DEF Excluded
  <2>4. \A d \in Dimensions : Weighted(d)' = Weighted(d)
    BY <1>1, <2>1, <2>2, <2>3 DEF Weighted, Excluded, EngineShape
  <2>5. \A d \in Dimensions : \A q \in Weighted(d) : q \in Signals /\ q # s
    BY <1>1, <2>3 DEF Weighted, EngineShape
  <2>6. \A d \in Dimensions : \A q \in Weighted(d) :
          Result(q)' = Result(q) /\ weight'[q] = weight[q]
    BY <2>1, <2>5 DEF Result
  <2>. QED
    BY <1>1, <2>1, <2>4, <2>6, RestsOnWeighted DEF EngineShape
<1>2. EngineShape =>
        [\A s \in Signals \ Informative :
           (seen[s] = Uncovered /\ \/ Register(s) \/ Retire(s)
                                   \/ \E w \in Weights : Weigh(s, w))
             => Evaluation' = Evaluation]_engineVars
  BY <1>1
<1>. QED
  BY <1>2, EngineShapeInvariant, PTL DEF NewProviderIsNeutral

(***************************************************************************)
(* Classify is monotone: over the same active dimensions, no score that is *)
(* higher or equal everywhere is recommended for less.  It is the last     *)
(* step of BetterEvidenceNeverHurts, from scores to recommendations.       *)
(***************************************************************************)
THEOREM ClassifyMonotone ==
  ASSUME NEW active \in SUBSET Dimensions,
         NEW low \in [Dimensions -> Int], NEW high \in [Dimensions -> Int],
         \A d \in Dimensions : low[d] <= high[d]
  PROVE  /\ Classify(low, active) \in Recommended
         /\ Rank[Classify(low, active)] <= Rank[Classify(high, active)]
<1>1. \A n \in Int : AllAtLeast(low, active, n) => AllAtLeast(high, active, n)
  BY DEF AllAtLeast
<1>2. low[Identity] \in Int /\ high[Identity] \in Int /\ low[Identity] <= high[Identity]
  BY EngineConstants
<1>3. {Untrusted, Transactional, Fiduciary, IdentityFiduciary} \subseteq Int
  BY ThresholdsAscend
<1>4. \A f \in {low, high} : AllAtLeast(f, active, Fiduciary) => AllAtLeast(f, active, Transactional)
  BY ThresholdsAscend DEF AllAtLeast
<1>5. /\ Rank["UNTRUSTED"] = 0 /\ Rank["READ_ONLY"] = 1
      /\ Rank["TRANSACTIONAL"] = 2 /\ Rank["FIDUCIARY"] = 3
  BY DEF Rank, Recommended
<1>. QED
  BY <1>1, <1>2, <1>3, <1>4, <1>5 DEF Classify, Recommended

\* clampRaw.
LEMMA ClampBand == ASSUME NEW n \in Int PROVE Clamp(n) \in 0 .. 100
  BY DEF Clamp

\* An average of values of the band, rounded, is one.
LEMMA RoundedBand ==
  ASSUME NEW sum \in Nat, NEW by \in Nat, sum <= 100 * by
  PROVE  Rounded(sum, by) \in 0 .. 100
<1>1. CASE by = 0
  BY <1>1 DEF Rounded
<1>2. CASE by # 0
  <2>. DEFINE n == 2 * sum + by
              m == 2 * by
              q == n \div m
  <2>1. n \in Nat /\ m \in Nat \ {0} /\ n <= 100 * m + by /\ by < m
    BY <1>2
  <2>2. n < 101 * m
    BY <2>1
  <2>. HIDE DEF n, m
  <2>3. q \in Nat /\ q * m <= n
    BY <2>1
  <2>4. q <= 100
    <3>. SUFFICES ASSUME q >= 101 PROVE FALSE
      BY <2>3
    <3>. HIDE DEF q
    <3>1. q * m >= 101 * m
      BY <2>1, <2>3
    <3>. QED
      BY <2>1, <2>2, <2>3, <3>1
  <2>. QED
    BY <1>2, <2>3, <2>4 DEF Rounded, n, m
<1>. QED
  BY <1>1, <1>2

(***************************************************************************)
(* The dimension scores.                                                   *)
(***************************************************************************)

\* Answers reach the average through the clamp, whatever they are.
LEMMA ResultShape ==
  ASSUME EngineShape, NEW s \in registered
  PROVE  Result(s).raw \in Int /\ Result(s).cap \in Int \cup {NoCap}
<1>1. Degraded.raw \in Int /\ Degraded.cap \in Int \cup {NoCap}
  BY DEF Degraded
<1>2. s \in Signals /\ seen[s] \in Answers \cup {Uncovered, Failed} /\ WhenAbsent[s] \in Answers
  BY EngineConstants DEF EngineShape
<1>3. CASE seen[s] = Failed
  BY <1>1, <1>3, EngineConstants DEF Result
<1>4. CASE seen[s] = Uncovered
  BY <1>2, <1>4, EngineConstants DEF Result
<1>5. CASE seen[s] \notin {Failed, Uncovered}
  BY <1>2, <1>5, EngineConstants DEF Result
<1>. QED
  BY <1>3, <1>4, <1>5

\* The weighted average of any signals lies in the band (scoreDimension).
LEMMA AverageBand ==
  ASSUME EngineShape, NEW d \in Dimensions
  PROVE  WeightedAverage(d) \in 0 .. 100
<1>. DEFINE W == Weighted(d)
            terms == [s \in W |-> Clamp(Result(s).raw) * weight[s]]
            parts == [s \in W |-> weight[s]]
<1>1. IsFiniteSet(W) /\ W \subseteq registered
  BY FS_Subset DEF EngineShape, Weighted
<1>2. ASSUME NEW s \in W
      PROVE  /\ weight[s] \in Nat /\ Clamp(Result(s).raw) \in 0 .. 100
  BY <1>1, ResultShape, ClampBand, EngineConstants DEF EngineShape
<1>3. ASSUME NEW s \in W
      PROVE  /\ Clamp(Result(s).raw) * weight[s] \in Nat
             /\ Clamp(Result(s).raw) * weight[s] <= 100 * weight[s]
  <2>. DEFINE c == Clamp(Result(s).raw)
              w == weight[s]
  <2>1. c \in 0 .. 100 /\ w \in Nat
    BY <1>2
  <2>. HIDE DEF c, w
  <2>2. c * w \in Nat /\ c * w <= 100 * w
    BY <2>1
  <2>. QED
    BY <2>2 DEF c, w
<1>4. /\ terms \in [W -> Nat] /\ parts \in [W -> Nat]
      /\ \A s \in W : terms[s] <= 100 * parts[s]
  BY <1>2, <1>3
<1>5. WeightedAverage(d) = Rounded(SumFunction(terms), SumFunction(parts))
  BY DEF WeightedAverage
<1>. HIDE DEF W, terms, parts
<1>6. /\ SumFunction(terms) \in Nat /\ SumFunction(parts) \in Nat
      /\ SumFunction(terms) <= 100 * SumFunction(parts)
  BY <1>1, <1>4, SumBound
<1>. QED
  BY <1>5, <1>6, RoundedBand

\* A score is the least of the average and the caps.
LEMMA ScoreIsLeast ==
  ASSUME EngineShape, NEW d \in Dimensions
  PROVE  /\ Score(d) \in 0 .. 100
         /\ Score(d) = WeightedAverage(d) \/ Score(d) \in Caps(d)
         /\ Score(d) <= WeightedAverage(d)
         /\ \A s \in Weighted(d) : Result(s).cap # NoCap => Score(d) <= Clamp(Result(s).cap)
<1>. DEFINE limits == {WeightedAverage(d)} \cup Caps(d)
<1>1. Caps(d) \subseteq 0 .. 100
  BY ResultShape, ClampBand DEF Caps, Weighted
<1>2. limits \subseteq 0 .. 100 /\ limits # {} /\ limits \in SUBSET Nat
  BY <1>1, AverageBand
<1>3. \E n \in limits : \A m \in limits : n <= m
  BY <1>2, LeastNatural
<1>4. Score(d) \in limits /\ \A m \in limits : Score(d) <= m
  BY <1>3 DEF Score
<1>5. \A s \in Weighted(d) : Result(s).cap # NoCap => Clamp(Result(s).cap) \in limits
  BY DEF Caps
<1>. QED
  BY <1>2, <1>4, <1>5

\* The facts of this section, of a state and so of the next one.
ScoreFacts ==
  /\ \A s \in registered : Result(s).raw \in Int /\ Result(s).cap \in Int \cup {NoCap}
  /\ \A d \in Dimensions :
       /\ Score(d) \in 0 .. 100 /\ WeightedAverage(d) \in 0 .. 100
       /\ Score(d) = WeightedAverage(d) \/ Score(d) \in Caps(d)

\* They follow from the shape of the state.
LEMMA ScoreFactsHold == EngineShape => ScoreFacts
  BY ResultShape, AverageBand, ScoreIsLeast DEF ScoreFacts

\* For any signals, answers, weights and thresholds every dimension scores in
\* the band (Evaluate, clampRaw).
THEOREM EngineTypeTheorem == EngineSpec => []EngineTypeOK
<1>1. EngineShape => EngineTypeOK
  <2>. SUFFICES ASSUME EngineShape PROVE EngineTypeOK
    OBVIOUS
  <2>1. Evaluation.vector \in [Dimensions -> 0 .. 100]
    BY ScoreIsLeast DEF Evaluation
  <2>2. Evaluation.recommended \in Recommended
    BY DEF Evaluation, Classify, Recommended
  <2>. QED
    BY <2>1, <2>2 DEF EngineShape, EngineTypeOK
<1>. QED
  BY <1>1, EngineShapeInvariant, PTL

\* A gate's answer holds its dimension, and under the untrusted floor decides the
\* recommendation, whoever else scores (SignalResult.DimensionCap, Classify).
THEOREM BlockTheorem == EngineSpec => []BlockIsAVerdict
<1>1. EngineShape => BlockIsAVerdict
  <2>. SUFFICES ASSUME EngineShape, NEW d \in Dimensions, NEW s \in Weighted(d),
                       Result(s).cap # NoCap
                PROVE  /\ Score(d) <= Clamp(Result(s).cap)
                       /\ (d \in gate /\ Clamp(Result(s).cap) < Untrusted)
                            => Evaluation.recommended = "UNTRUSTED"
    BY DEF BlockIsAVerdict
  <2>. DEFINE vector == [e \in Dimensions |-> Score(e)]
  <2>1. Score(d) \in 0 .. 100 /\ Score(d) <= Clamp(Result(s).cap)
    BY ScoreIsLeast
  <2>2. Clamp(Result(s).cap) \in 0 .. 100
    BY ResultShape, ClampBand DEF Weighted
  <2>3. ASSUME d \in gate, Clamp(Result(s).cap) < Untrusted
        PROVE  Evaluation.recommended = "UNTRUSTED"
    <3>1. d \in ActiveDimensions
      BY <2>3 DEF ActiveDimensions
    <3>2. ~(vector[d] >= Untrusted) /\ vector[d] = Score(d)
      BY <2>1, <2>2, <2>3, ThresholdsAscend
    <3>3. ActiveDimensions # {} /\ ~AllAtLeast(vector, ActiveDimensions, Untrusted)
      BY <3>1, <3>2 DEF AllAtLeast
    <3>. QED
      BY <3>3 DEF Evaluation, Classify
  <2>. QED
    BY <2>1, <2>3
<1>. QED
  BY <1>1, EngineShapeInvariant, PTL

\* Rounding keeps the order of the sums.
LEMMA RoundedMonotone ==
  ASSUME NEW low \in Nat, NEW high \in Nat, low <= high, NEW by \in Nat
  PROVE  Rounded(low, by) <= Rounded(high, by)
<1>1. CASE by = 0
  BY <1>1 DEF Rounded
<1>2. CASE by # 0
  <2>. DEFINE n == 2 * low + by
              o == 2 * high + by
              m == 2 * by
              q == n \div m
              p == o \div m
  <2>1. n \in Nat /\ o \in Nat /\ m \in Nat \ {0} /\ n <= o
    BY <1>2
  <2>. HIDE DEF n, o, m
  <2>2. /\ q \in Nat /\ q * m <= n
        /\ p \in Nat /\ o < p * m + m
    BY <2>1
  <2>3. q <= p
    <3>. SUFFICES ASSUME q >= p + 1 PROVE FALSE
      BY <2>2
    <3>. HIDE DEF p, q
    <3>1. q * m >= (p + 1) * m
      BY <2>1, <2>2
    <3>2. (p + 1) * m = p * m + m
      BY <2>1, <2>2
    <3>. QED
      BY <2>1, <2>2, <3>1, <3>2
  <2>. QED
    BY <1>2, <2>3 DEF Rounded, n, o, m
<1>. QED
  BY <1>1, <1>2

\* What a step does that only betters answers: the same signals count, with the
\* same weights, and none of them answers less.
Bettered ==
  /\ \A d \in Dimensions : Weighted(d)' = Weighted(d)
  /\ weight' = weight /\ gate' = gate
  /\ \A d \in Dimensions : \A s \in Weighted(d) : NoWorse(Result(s), Result(s)')

\* No average falls (weightedAverage).
LEMMA AverageMonotone ==
  ASSUME EngineShape, ScoreFacts', Bettered, NEW d \in Dimensions
  PROVE  WeightedAverage(d) <= WeightedAverage(d)'
<1>. DEFINE W == Weighted(d)
            low == [s \in W |-> Clamp(Result(s).raw) * weight[s]]
            high == [s \in W |-> Clamp(Result(s)'.raw) * weight[s]]
            parts == [s \in W |-> weight[s]]
<1>1. IsFiniteSet(W) /\ W \subseteq registered /\ W \subseteq registered'
  BY FS_Subset DEF EngineShape, Weighted, Bettered
<1>2. \A s \in registered' : Result(s)'.raw \in Int
  BY DEF ScoreFacts
<1>3. ASSUME NEW s \in W
      PROVE  /\ weight[s] \in Nat
             /\ Clamp(Result(s).raw) \in Nat /\ Clamp(Result(s)'.raw) \in Nat
             /\ Clamp(Result(s).raw) <= Clamp(Result(s)'.raw)
  <2>1. Result(s).raw \in Int /\ Result(s)'.raw \in Int /\ Result(s).raw <= Result(s)'.raw
    BY <1>1, <1>2, ResultShape DEF Bettered, NoWorse
  <2>2. weight[s] \in Nat
    BY <1>1, EngineConstants DEF EngineShape
  <2>. QED
    BY <2>1, <2>2 DEF Clamp
<1>4. ASSUME NEW s \in W
      PROVE  low[s] \in Nat /\ high[s] \in Nat /\ low[s] <= 1 * high[s]
  <2>. DEFINE b == Clamp(Result(s).raw)
              c == Clamp(Result(s)'.raw)
              w == weight[s]
  <2>1. b \in Nat /\ c \in Nat /\ w \in Nat /\ b <= c
    BY <1>3
  <2>. HIDE DEF b, c, w
  <2>2. b * w \in Nat /\ c * w \in Nat /\ b * w <= c * w
    BY <2>1
  <2>. QED
    BY <2>2 DEF b, c, w
<1>5. low \in [W -> Nat] /\ high \in [W -> Nat] /\ parts \in [W -> Nat]
  BY <1>3, <1>4
<1>6. /\ WeightedAverage(d) = Rounded(SumFunction(low), SumFunction(parts))
      /\ WeightedAverage(d)' = Rounded(SumFunction(high), SumFunction(parts))
  BY DEF WeightedAverage, Bettered
<1>. HIDE DEF W, low, high, parts
<1>7. /\ SumFunction(low) \in Nat /\ SumFunction(high) \in Nat
      /\ SumFunction(low) <= 1 * SumFunction(high)
  BY <1>1, <1>4, <1>5, SumBound
<1>8. SumFunction(parts) \in Nat
  <2>1. \A s \in W : parts[s] <= 1 * parts[s]
    BY <1>5
  <2>. QED
    BY <1>1, <1>5, <2>1, SumBound
<1>. QED
  BY <1>6, <1>7, <1>8, RoundedMonotone

\* No score falls.
LEMMA ScoreMonotone ==
  ASSUME EngineShape, ScoreFacts', Bettered, NEW d \in Dimensions
  PROVE  Score(d) <= Score(d)'
<1>1. /\ Score(d) \in 0 .. 100 /\ Score(d) <= WeightedAverage(d)
      /\ \A s \in Weighted(d) : Result(s).cap # NoCap => Score(d) <= Clamp(Result(s).cap)
  BY ScoreIsLeast
<1>2. /\ Score(d)' \in 0 .. 100
      /\ Score(d)' = WeightedAverage(d)' \/ Score(d)' \in Caps(d)'
      /\ WeightedAverage(d)' \in 0 .. 100
  BY DEF ScoreFacts
<1>3. CASE Score(d)' = WeightedAverage(d)'
  BY <1>1, <1>2, <1>3, AverageMonotone, AverageBand
<1>4. CASE Score(d)' \in Caps(d)'
  <2>1. PICK s \in Weighted(d) : Result(s)'.cap # NoCap /\ Score(d)' = Clamp(Result(s)'.cap)
    BY <1>4 DEF Caps, Bettered
  <2>2. Result(s).cap # NoCap /\ Result(s).cap <= Result(s)'.cap
    BY <2>1 DEF Bettered, NoWorse
  <2>3. Result(s).cap \in Int /\ Result(s)'.cap \in Int
    <3>1. s \in registered /\ s \in registered'
      BY DEF Weighted, Bettered
    <3>. QED
      BY <2>1, <2>2, <3>1, ResultShape DEF ScoreFacts
  <2>4. Clamp(Result(s).cap) <= Clamp(Result(s)'.cap)
    BY <2>2, <2>3 DEF Clamp
  <2>5. Clamp(Result(s).cap) \in Int /\ Clamp(Result(s)'.cap) \in Int
    BY <2>3 DEF Clamp
  <2>. QED
    BY <1>1, <2>1, <2>2, <2>4, <2>5
<1>. QED
  BY <1>2, <1>3, <1>4

\* From a better answer to a recommendation that is no lower, through clamping,
\* rounding, caps and the cascade (Evaluate, Classify).
THEOREM BetterEvidenceTheorem == EngineSpec => BetterEvidenceNeverHurts
<1>1. ASSUME EngineShape, ScoreFacts', [EngineNext]_engineVars,
             UNCHANGED <<registered, gate, weight>>,
             \A s \in Signals : seen'[s] # seen[s] =>
               ~Excluded(s) /\ NoWorse(Result(s), Result(s)')
      PROVE  /\ \A d \in Dimensions : Score(d) <= Score(d)'
             /\ Rank[Evaluation.recommended] <= Rank[Evaluation.recommended']
  <2>1. \A s \in Signals : seen'[s] # seen[s] => seen'[s] # Uncovered
    BY <1>1, EngineConstants
    DEF EngineNext, Register, Retire, Weigh, Gate, Observe, EngineShape, engineVars
  <2>2. \A s \in Signals : Excluded(s)' = Excluded(s)
    BY <1>1, <2>1 DEF Excluded
  <2>3. \A d \in Dimensions : Weighted(d)' = Weighted(d)
    BY <1>1, <2>2 DEF Weighted, EngineShape
  <2>4. ASSUME NEW s \in registered
        PROVE  NoWorse(Result(s), Result(s)')
    <3>1. CASE seen'[s] # seen[s]
      BY <1>1, <3>1 DEF EngineShape
    <3>2. CASE seen'[s] = seen[s]
      <4>1. Result(s)' = Result(s)
        BY <3>2 DEF Result
      <4>2. Result(s).raw \in Int /\ Result(s).cap \in Int \cup {NoCap}
        BY <1>1, ResultShape
      <4>. QED
        BY <4>1, <4>2 DEF NoWorse
    <3>. QED
      BY <3>1, <3>2
  <2>5. Bettered
    BY <1>1, <2>3, <2>4 DEF Bettered, Weighted
  <2>6. \A d \in Dimensions : Score(d) <= Score(d)'
    BY <1>1, <2>5, ScoreMonotone
  <2>. DEFINE low == [d \in Dimensions |-> Score(d)]
              high == [d \in Dimensions |-> Score(d)']
  <2>7. \A d \in Dimensions : Score(d) \in Int /\ Score(d)' \in Int
    BY <1>1, ScoreIsLeast DEF ScoreFacts
  <2>8. /\ low \in [Dimensions -> Int] /\ high \in [Dimensions -> Int]
        /\ \A d \in Dimensions : low[d] <= high[d]
    BY <2>6, <2>7
  <2>9. /\ Evaluation.recommended = Classify(low, ActiveDimensions)
        /\ Evaluation.recommended' = Classify(high, ActiveDimensions)
    <3>1. ActiveDimensions' = ActiveDimensions
      BY <1>1, <2>3 DEF ActiveDimensions, EngineShape
    <3>. QED
      BY <3>1 DEF Evaluation
  <2>10. ActiveDimensions \in SUBSET Dimensions
    BY <1>1 DEF ActiveDimensions, EngineShape
  <2>. HIDE DEF low, high
  <2>11. Rank[Classify(low, ActiveDimensions)] <= Rank[Classify(high, ActiveDimensions)]
    BY <2>8, <2>10, ClassifyMonotone
  <2>. QED
    BY <2>6, <2>9, <2>11
<1>. QED
  BY <1>1, EngineShapeInvariant, ScoreFactsHold, PTL DEF EngineSpec, BetterEvidenceNeverHurts

(***************************************************************************)
(* Sums and averages between their terms.                                  *)
(***************************************************************************)

\* A finite sum of positive naturals is positive, unless it has no term.
LEMMA SumPositive ==
  ASSUME NEW S, IsFiniteSet(S), NEW parts \in [S -> Nat \ {0}]
  PROVE  /\ SumFunction(parts) \in Nat
         /\ SumFunction(parts) = 0 <=> S = {}
<1>. DEFINE P == Sums(S, parts)
            Good == {s \in SUBSET S : P[s] \in Nat /\ (P[s] = 0 <=> s = {})}
<1>1. \A s \in SUBSET S : P[s] = SumStep(parts, P, s)
  BY SumsStep
<1>2. SumFunction(parts) = P[S]
  BY SumUnfold
<1>. HIDE DEF P
<1>3. {} \in Good
  <2>1. SumStep(parts, P, {}) = 0
    BY DEF SumStep
  <2>2. P[{}] = 0
    BY <1>1, <2>1
  <2>. QED
    BY <2>2
<1>4. ASSUME NEW s \in SUBSET S, s # {}, s \ {Pick(s)} \in Good PROVE s \in Good
  <2>. DEFINE p == Pick(s)
              r == s \ {p}
  <2>1. p \in S
    BY <1>4, Smaller
  <2>2. P[s] = parts[p] + P[r]
    BY <1>1, <1>4 DEF SumStep
  <2>. HIDE DEF p
  <2>. QED
    BY <1>4, <2>1, <2>2 DEF p
<1>. HIDE DEF Good
<1>5. Good \in SUBSET (SUBSET S)
  BY DEF Good
<1>6. S \in Good
  BY <1>3, <1>4, <1>5, SubsetsByOne
<1>. QED
  BY <1>2, <1>6 DEF Good

\* A common factor of the terms is one of the sum.
LEMMA SumScaled ==
  ASSUME NEW S, IsFiniteSet(S), NEW parts \in [S -> Nat], NEW k \in Nat
  PROVE  /\ SumFunction(parts) \in Nat
         /\ SumFunction([s \in S |-> k * parts[s]]) = k * SumFunction(parts)
<1>. DEFINE terms == [s \in S |-> k * parts[s]]
            T == Sums(S, terms)
            P == Sums(S, parts)
            Good == {s \in SUBSET S : P[s] \in Nat /\ T[s] = k * P[s]}
<1>1. \A s \in SUBSET S : P[s] = SumStep(parts, P, s)
  BY SumsStep
<1>2. \A s \in SUBSET S : T[s] = SumStep(terms, T, s)
  BY SumsStep
<1>3. SumFunction(parts) = P[S] /\ SumFunction(terms) = T[S]
  BY SumUnfold
<1>4. \A s \in S : parts[s] \in Nat /\ terms[s] = k * parts[s]
  OBVIOUS
<1>. HIDE DEF P, T, terms
<1>5. {} \in Good
  <2>1. SumStep(terms, T, {}) = 0 /\ SumStep(parts, P, {}) = 0
    BY DEF SumStep
  <2>2. T[{}] = 0 /\ P[{}] = 0
    BY <1>1, <1>2, <2>1
  <2>. QED
    BY <2>2
<1>6. ASSUME NEW s \in SUBSET S, s # {}, s \ {Pick(s)} \in Good PROVE s \in Good
  <2>. DEFINE p == Pick(s)
              r == s \ {p}
  <2>1. p \in S
    BY <1>6, Smaller
  <2>2. P[s] = parts[p] + P[r] /\ T[s] = terms[p] + T[r]
    BY <1>1, <1>2, <1>6 DEF SumStep
  <2>3. /\ parts[p] \in Nat /\ terms[p] = k * parts[p]
        /\ P[r] \in Nat /\ T[r] = k * P[r]
    BY <1>4, <1>6, <2>1
  <2>4. \A x, y \in Nat : k * x + k * y = k * (x + y)
    OBVIOUS
  <2>5. k * parts[p] + k * P[r] = k * (parts[p] + P[r])
    BY <2>3, <2>4
  <2>6. P[s] \in Nat
    BY <2>2, <2>3
  <2>7. T[s] = k * P[s]
    BY <2>2, <2>3, <2>5
  <2>. QED
    BY <2>6, <2>7
<1>. HIDE DEF Good
<1>7. Good \in SUBSET (SUBSET S)
  BY DEF Good
<1>8. S \in Good
  BY <1>5, <1>6, <1>7, SubsetsByOne
<1>. QED
  BY <1>3, <1>8 DEF Good, terms

\* The multiples of a number lie at least that far apart.
LEMMA ProductSteps ==
  ASSUME NEW m \in Nat, NEW a \in Nat, NEW b \in Nat, a < b
  PROVE  a * m + m <= b * m
<1>1. PICK c \in Nat : b = a + 1 + c
  <2>1. b - a - 1 \in Nat /\ b = a + 1 + (b - a - 1)
    OBVIOUS
  <2>. QED
    BY <2>1
<1>2. c * m \in Nat /\ (a + 1 + c) * m = a * m + m + c * m
  OBVIOUS
<1>. QED
  BY <1>1, <1>2

\* Division is the quotient that leaves a remainder.
LEMMA DivIs ==
  ASSUME NEW n \in Nat, NEW m \in Nat \ {0}, NEW q \in Nat,
         q * m <= n, n < q * m + m
  PROVE  n \div m = q
<1>. DEFINE r == n \div m
<1>1. r \in Nat /\ r * m <= n /\ n < r * m + m
  OBVIOUS
<1>. HIDE DEF r
<1>2. \A a, b \in Nat : a < b => a * m + m <= b * m
  BY ProductSteps
<1>3. ~(r < q) /\ ~(q < r)
  BY <1>1, <1>2
<1>. QED
  BY <1>1, <1>3 DEF r

\* A common factor cancels, and so the rounded average does not see it
\* (weightedAverage).
LEMMA RoundedScaled ==
  ASSUME NEW sum \in Nat, NEW by \in Nat, NEW k \in Nat \ {0}
  PROVE  Rounded(k * sum, k * by) = Rounded(sum, by)
<1>1. CASE by = 0
  BY <1>1 DEF Rounded
<1>2. CASE by # 0
  <2>. DEFINE n == 2 * sum + by
              m == 2 * by
              q == n \div m
  <2>1. n \in Nat /\ m \in Nat \ {0}
    BY <1>2
  <2>2. q \in Nat /\ q * m <= n /\ n < q * m + m
    <3>. HIDE DEF n, m
    <3>. QED
      BY <2>1
  <2>3. /\ 2 * (k * sum) + k * by = k * n
        /\ 2 * (k * by) = k * m
        /\ k * by # 0
    BY <1>2
  <2>. HIDE DEF n, m, q
  <2>4. k * n \in Nat /\ k * m \in Nat \ {0}
    BY <2>1
  <2>5. q * (k * m) <= k * n /\ k * n < q * (k * m) + k * m
    <3>1. \A x, y \in Nat : x <= y => k * x <= k * y
      OBVIOUS
    <3>2. \A x, y \in Nat : x < y => k * x < k * y
      OBVIOUS
    <3>3. q * m \in Nat /\ q * m + m \in Nat
      BY <2>1, <2>2
    <3>4. k * (q * m) <= k * n /\ k * n < k * (q * m + m)
      BY <2>1, <2>2, <3>1, <3>2, <3>3
    <3>5. k * (q * m) = q * (k * m) /\ k * (q * m + m) = q * (k * m) + k * m
      BY <2>1, <2>2
    <3>. QED
      BY <3>4, <3>5
  <2>6. (k * n) \div (k * m) = q
    BY <2>2, <2>4, <2>5, DivIs
  <2>7. Rounded(k * sum, k * by) = (k * n) \div (k * m)
    BY <2>3 DEF Rounded
  <2>8. Rounded(sum, by) = q
    BY <1>2 DEF Rounded, q, n, m
  <2>. QED
    BY <2>6, <2>7, <2>8
<1>. QED
  BY <1>1, <1>2

\* An average lies between bounds of its terms (weightedAverage).
LEMMA RoundedBetween ==
  ASSUME NEW sum \in Nat, NEW by \in Nat \ {0}, NEW k \in Nat
  PROVE  /\ sum <= k * by => Rounded(sum, by) <= k
         /\ k * by <= sum => k <= Rounded(sum, by)
<1>. DEFINE n == 2 * sum + by
            m == 2 * by
            q == n \div m
<1>1. n \in Nat /\ m \in Nat \ {0}
  OBVIOUS
<1>2. q \in Nat /\ q * m <= n /\ n < q * m + m
  <2>. HIDE DEF n, m
  <2>. QED
    BY <1>1
<1>3. Rounded(sum, by) = q
  BY DEF Rounded
<1>4. \A a, b \in Nat : a < b => a * m + m <= b * m
  <2>. HIDE DEF m
  <2>. QED
    BY <1>1, ProductSteps
<1>5. k * m \in Nat /\ k * m = 2 * (k * by)
  OBVIOUS
<1>6. ASSUME sum <= k * by PROVE q <= k
  <2>1. n < k * m + m
    <3>. DEFINE x == k * by
    <3>1. x \in Nat /\ k * m = 2 * x
      BY <1>5
    <3>. HIDE DEF x
    <3>2. sum <= x
      BY <1>6 DEF x
    <3>. QED
      BY <3>1, <3>2
  <2>. HIDE DEF n, m, q
  <2>. QED
    BY <1>1, <1>2, <1>4, <1>5, <2>1
<1>7. ASSUME k * by <= sum PROVE k <= q
  <2>1. k * m <= n
    <3>. DEFINE x == k * by
    <3>1. x \in Nat /\ k * m = 2 * x
      BY <1>5
    <3>. HIDE DEF x
    <3>2. x <= sum
      BY <1>7 DEF x
    <3>. QED
      BY <3>1, <3>2
  <2>. HIDE DEF n, m, q
  <2>. QED
    BY <1>1, <1>2, <1>4, <1>5, <2>1
<1>. QED
  BY <1>3, <1>6, <1>7

(***************************************************************************)
(* What an evaluation is between, and what it does not see.                *)
(***************************************************************************)

\* The terms of an average, and their shapes.
LEMMA AverageTerms ==
  ASSUME EngineShape, NEW d \in Dimensions
  PROVE  LET W     == Weighted(d)
             terms == [s \in W |-> Clamp(Result(s).raw) * weight[s]]
             parts == [s \in W |-> weight[s]]
         IN  /\ IsFiniteSet(W) /\ W \subseteq registered
             /\ terms \in [W -> Nat] /\ parts \in [W -> Nat \ {0}]
             /\ WeightedAverage(d) = Rounded(SumFunction(terms), SumFunction(parts))
             /\ SumFunction(terms) \in Nat /\ SumFunction(parts) \in Nat
             /\ SumFunction(parts) = 0 <=> W = {}
<1>. DEFINE W == Weighted(d)
            terms == [s \in W |-> Clamp(Result(s).raw) * weight[s]]
            parts == [s \in W |-> weight[s]]
<1>1. IsFiniteSet(W) /\ W \subseteq registered
  BY FS_Subset DEF EngineShape, Weighted
<1>2. ASSUME NEW s \in W
      PROVE  /\ weight[s] \in Nat \ {0} /\ Clamp(Result(s).raw) \in 0 .. 100
             /\ Clamp(Result(s).raw) * weight[s] \in Nat
  <2>1. weight[s] \in Nat \ {0} /\ Clamp(Result(s).raw) \in 0 .. 100
    <3>1. s \in registered /\ weight[s] > 0 /\ weight[s] \in Nat
      BY <1>1, EngineConstants DEF EngineShape, Weighted
    <3>2. Result(s).raw \in Int
      BY <3>1, ResultShape
    <3>. QED
      BY <3>1, <3>2, ClampBand
  <2>. DEFINE c == Clamp(Result(s).raw)
              w == weight[s]
  <2>2. c \in Nat /\ w \in Nat
    BY <2>1
  <2>. HIDE DEF c, w
  <2>3. c * w \in Nat
    BY <2>2
  <2>. QED
    BY <2>1, <2>3 DEF c, w
<1>3. terms \in [W -> Nat] /\ parts \in [W -> Nat \ {0}]
  BY <1>2
<1>4. WeightedAverage(d) = Rounded(SumFunction(terms), SumFunction(parts))
  BY DEF WeightedAverage
<1>. HIDE DEF W, terms, parts
<1>5. SumFunction(parts) \in Nat /\ (SumFunction(parts) = 0 <=> W = {})
  BY <1>1, <1>3, SumPositive
<1>6. SumFunction(terms) \in Nat
  BY <1>1, <1>3, SumScaled, 1 \in Nat
<1>. QED
  BY <1>1, <1>3, <1>4, <1>5, <1>6 DEF W, terms, parts

\* An average lies between the least and the greatest of the answers weighted.
LEMMA AverageBetween ==
  ASSUME EngineShape, NEW d \in Dimensions, NEW k \in Nat, Weighted(d) # {}
  PROVE  /\ (\A s \in Weighted(d) : Clamp(Result(s).raw) <= k) => WeightedAverage(d) <= k
         /\ (\A s \in Weighted(d) : k <= Clamp(Result(s).raw)) => k <= WeightedAverage(d)
<1>. DEFINE W == Weighted(d)
            terms == [s \in W |-> Clamp(Result(s).raw) * weight[s]]
            parts == [s \in W |-> weight[s]]
            least == [s \in W |-> k * parts[s]]
<1>1. /\ IsFiniteSet(W) /\ W \subseteq registered
      /\ terms \in [W -> Nat] /\ parts \in [W -> Nat \ {0}]
      /\ WeightedAverage(d) = Rounded(SumFunction(terms), SumFunction(parts))
      /\ SumFunction(terms) \in Nat /\ SumFunction(parts) \in Nat \ {0}
  BY AverageTerms
<1>2. parts \in [W -> Nat]
  BY <1>1
<1>3. ASSUME NEW s \in W
      PROVE  /\ Clamp(Result(s).raw) <= k => terms[s] <= k * parts[s]
             /\ k <= Clamp(Result(s).raw) => k * parts[s] <= terms[s]
             /\ k * parts[s] \in Nat
  <2>. DEFINE c == Clamp(Result(s).raw)
              w == weight[s]
  <2>1. c \in Nat /\ w \in Nat
    <3>1. Result(s).raw \in Int
      BY <1>1, ResultShape
    <3>. QED
      BY <1>1, <3>1, ClampBand
  <2>2. terms[s] = c * w /\ parts[s] = w
    OBVIOUS
  <2>. HIDE DEF c, w, terms, parts
  <2>3. (c <= k => c * w <= k * w) /\ (k <= c => k * w <= c * w) /\ k * w \in Nat
    BY <2>1
  <2>. QED
    BY <2>2, <2>3 DEF c
<1>4. ASSUME \A s \in W : Clamp(Result(s).raw) <= k PROVE WeightedAverage(d) <= k
  <2>1. \A s \in W : terms[s] <= k * parts[s]
    BY <1>3, <1>4
  <2>. HIDE DEF W, terms, parts
  <2>2. SumFunction(terms) <= k * SumFunction(parts)
    BY <1>1, <1>2, <2>1, SumBound
  <2>. QED
    BY <1>1, <2>2, RoundedBetween
<1>5. ASSUME \A s \in W : k <= Clamp(Result(s).raw) PROVE k <= WeightedAverage(d)
  <2>1. \A s \in W : least[s] <= 1 * terms[s]
    <3>1. \A s \in W : least[s] = k * parts[s] /\ k * parts[s] <= terms[s] /\ terms[s] \in Nat
      BY <1>1, <1>3, <1>5
    <3>. HIDE DEF W, terms, parts, least
    <3>. QED
      BY <3>1
  <2>2. least \in [W -> Nat]
    BY <1>3
  <2>3. SumFunction(least) = k * SumFunction(parts)
    <3>. HIDE DEF W, terms, parts
    <3>. QED
      BY <1>1, <1>2, SumScaled
  <2>. HIDE DEF W, terms, parts, least
  <2>4. SumFunction(least) <= 1 * SumFunction(terms)
    BY <1>1, <2>1, <2>2, SumBound, 1 \in Nat
  <2>5. k * SumFunction(parts) <= SumFunction(terms)
    BY <1>1, <2>3, <2>4
  <2>. QED
    BY <1>1, <2>5, RoundedBetween
<1>. QED
  BY <1>4, <1>5

\* A weighted signal answers less than a floor, by its score or by its cap.
Below(s, floor) ==
  \/ Clamp(Result(s).raw) < floor
  \/ Result(s).cap # NoCap /\ Clamp(Result(s).cap) < floor

\* A dimension that is scored is as low, and as high, as an answer explains.
LEMMA ScoreBetween ==
  ASSUME EngineShape, NEW d \in Dimensions, NEW floor \in 1 .. 100, Weighted(d) # {}
  PROVE  /\ (\A s \in Weighted(d) : ~Below(s, floor)) => Score(d) >= floor
         /\ Score(d) >= floor => /\ \E s \in Weighted(d) : Clamp(Result(s).raw) >= floor
                                /\ \A s \in Weighted(d) : Result(s).cap # NoCap =>
                                     Clamp(Result(s).cap) >= floor
<1>1. /\ Score(d) \in 0 .. 100 /\ WeightedAverage(d) \in 0 .. 100
      /\ Score(d) = WeightedAverage(d) \/ Score(d) \in Caps(d)
      /\ Score(d) <= WeightedAverage(d)
      /\ \A s \in Weighted(d) : Result(s).cap # NoCap => Score(d) <= Clamp(Result(s).cap)
  BY ScoreIsLeast, AverageBand
<1>2. \A s \in Weighted(d) : /\ Clamp(Result(s).raw) \in 0 .. 100
                             /\ Result(s).cap # NoCap => Clamp(Result(s).cap) \in 0 .. 100
  BY ResultShape, ClampBand DEF Weighted
<1>3. ASSUME \A s \in Weighted(d) : ~Below(s, floor) PROVE Score(d) >= floor
  <2>1. \A s \in Weighted(d) : /\ floor <= Clamp(Result(s).raw)
                               /\ Result(s).cap # NoCap => floor <= Clamp(Result(s).cap)
    BY <1>2, <1>3 DEF Below
  <2>2. floor <= WeightedAverage(d)
    BY <2>1, AverageBetween
  <2>3. \A n \in Caps(d) : floor <= n
    BY <2>1 DEF Caps
  <2>. QED
    BY <1>1, <2>2, <2>3
<1>4. ASSUME Score(d) >= floor
      PROVE  \E s \in Weighted(d) : Clamp(Result(s).raw) >= floor
  <2>. SUFFICES ASSUME \A s \in Weighted(d) : ~(Clamp(Result(s).raw) >= floor) PROVE FALSE
    OBVIOUS
  <2>1. floor - 1 \in Nat /\ \A s \in Weighted(d) : Clamp(Result(s).raw) <= floor - 1
    BY <1>2
  <2>2. WeightedAverage(d) <= floor - 1
    BY <2>1, AverageBetween
  <2>. QED
    BY <1>1, <1>4, <2>2
<1>5. ASSUME Score(d) >= floor, NEW s \in Weighted(d), Result(s).cap # NoCap
      PROVE  Clamp(Result(s).cap) >= floor
  BY <1>1, <1>2, <1>5
<1>. QED
  BY <1>3, <1>4, <1>5

\* What the recommended profile owes to the answers.
VerdictsHaveCause ==
  LET verdict == Evaluation.recommended IN
  /\ verdict = "UNTRUSTED" => \E d \in gate : \E s \in Weighted(d) : Below(s, Untrusted)
  /\ verdict = "FIDUCIARY" =>
       /\ Identity \in ActiveDimensions
       /\ \E s \in Weighted(Identity) : Clamp(Result(s).raw) >= IdentityFiduciary
       /\ \A d \in ActiveDimensions :
            \E s \in Weighted(d) : Clamp(Result(s).raw) >= Fiduciary
  /\ (/\ ActiveDimensions # {}
      /\ \A d \in ActiveDimensions : \A s \in Weighted(d) : ~Below(s, Transactional))
       => verdict \in {"TRANSACTIONAL", "FIDUCIARY"}

(***************************************************************************)
(* No verdict comes of the arithmetic alone: an agent is UNTRUSTED only    *)
(* if a weighted signal of a gated dimension itself answers less than the  *)
(* floor, FIDUCIARY only if in every active dimension one answers that     *)
(* much, and what all of them grant the rounding does not take away        *)
(* (weightedAverage, scoreDimension, Classify).                            *)
(***************************************************************************)
THEOREM VerdictTheorem == EngineSpec => []VerdictsHaveCause
<1>1. EngineShape => VerdictsHaveCause
  <2>. SUFFICES ASSUME EngineShape PROVE VerdictsHaveCause
    OBVIOUS
  <2>. DEFINE vector == [d \in Dimensions |-> Score(d)]
              verdict == Classify(vector, ActiveDimensions)
  <2>1. Evaluation.recommended = verdict
    BY DEF Evaluation
  <2>2. /\ \A d \in ActiveDimensions :
             d \in gate /\ d \in Dimensions /\ Weighted(d) # {} /\ vector[d] = Score(d)
        /\ Identity \in Dimensions
    BY EngineConstants DEF ActiveDimensions, EngineShape
  <2>3. /\ Untrusted \in 1 .. 100 /\ Transactional \in 1 .. 100
        /\ Fiduciary \in 1 .. 100 /\ IdentityFiduciary \in 1 .. 100
        /\ Untrusted < Transactional
    BY ThresholdsAscend
  <2>4. \A d \in ActiveDimensions : Score(d) \in 0 .. 100
    BY <2>2, ScoreIsLeast
  <2>. HIDE DEF vector
  <2>5. ASSUME verdict = "UNTRUSTED"
        PROVE  \E d \in gate : \E s \in Weighted(d) : Below(s, Untrusted)
    <3>1. ActiveDimensions # {} /\ ~AllAtLeast(vector, ActiveDimensions, Untrusted)
      BY <2>5 DEF Classify
    <3>2. PICK d \in ActiveDimensions : ~(Score(d) >= Untrusted)
      BY <2>2, <3>1 DEF AllAtLeast
    <3>3. \E s \in Weighted(d) : Below(s, Untrusted)
      BY <2>2, <2>3, <3>2, ScoreBetween
    <3>. QED
      BY <2>2, <3>3
  <2>6. ASSUME verdict = "FIDUCIARY"
        PROVE  /\ Identity \in ActiveDimensions
               /\ \E s \in Weighted(Identity) : Clamp(Result(s).raw) >= IdentityFiduciary
               /\ \A d \in ActiveDimensions :
                    \E s \in Weighted(d) : Clamp(Result(s).raw) >= Fiduciary
    <3>1. /\ AllAtLeast(vector, ActiveDimensions, Fiduciary)
          /\ Identity \in ActiveDimensions /\ vector[Identity] >= IdentityFiduciary
      BY <2>6 DEF Classify
    <3>2. Score(Identity) >= IdentityFiduciary
      BY <2>2, <3>1
    <3>3. \A d \in ActiveDimensions : Score(d) >= Fiduciary
      BY <2>2, <3>1 DEF AllAtLeast
    <3>4. \E s \in Weighted(Identity) : Clamp(Result(s).raw) >= IdentityFiduciary
      BY <2>2, <2>3, <3>1, <3>2, ScoreBetween
    <3>5. \A d \in ActiveDimensions : \E s \in Weighted(d) : Clamp(Result(s).raw) >= Fiduciary
      BY <2>2, <2>3, <3>3, ScoreBetween
    <3>. QED
      BY <3>1, <3>4, <3>5
  <2>7. ASSUME ActiveDimensions # {},
               \A d \in ActiveDimensions : \A s \in Weighted(d) : ~Below(s, Transactional)
        PROVE  verdict \in {"TRANSACTIONAL", "FIDUCIARY"}
    <3>1. \A d \in ActiveDimensions : Score(d) >= Transactional
      BY <2>2, <2>3, <2>7, ScoreBetween
    <3>2. AllAtLeast(vector, ActiveDimensions, Transactional)
      BY <2>2, <3>1 DEF AllAtLeast
    <3>3. AllAtLeast(vector, ActiveDimensions, Untrusted)
      <4>1. \A d \in ActiveDimensions : Score(d) >= Untrusted
        BY <2>3, <2>4, <3>1
      <4>. QED
        BY <2>2, <4>1 DEF AllAtLeast
    <3>. QED
      BY <2>7, <3>2, <3>3 DEF Classify
  <2>. HIDE DEF verdict
  <2>. QED
    BY <2>1, <2>5, <2>6, <2>7 DEF VerdictsHaveCause
<1>. QED
  BY <1>1, EngineShapeInvariant, PTL

(***************************************************************************)
(* Weights are ratios: two profiles whose weights differ by a factor give  *)
(* every agent the same evaluation, rounding included.  This is why the    *)
(* weights of the model are naturals: fractions with a common denominator  *)
(* are such weights (weightedAverage).                                     *)
(***************************************************************************)
THEOREM WeightsAreRatios ==
  ASSUME EngineShape, NEW k \in Nat \ {0},
         UNCHANGED <<registered, gate, seen>>,
         weight' = [s \in Signals |-> k * weight[s]]
  PROVE  Evaluation' = Evaluation
<1>1. \A s \in Signals : weight[s] \in Nat /\ weight'[s] = k * weight[s]
  BY EngineConstants DEF EngineShape
<1>2. \A s \in Signals : weight'[s] > 0 <=> weight[s] > 0
  BY <1>1
<1>3. \A s \in Signals : Excluded(s)' = Excluded(s)
  BY DEF Excluded
<1>4. \A d \in Dimensions : Weighted(d)' = Weighted(d) /\ Weighted(d) \subseteq Signals
  BY <1>2, <1>3 DEF Weighted, EngineShape
<1>5. \A s \in Signals : Result(s)' = Result(s)
  BY DEF Result, Degraded
<1>6. ASSUME NEW d \in Dimensions PROVE WeightedAverage(d)' = WeightedAverage(d)
  <2>. DEFINE W == Weighted(d)
              terms == [s \in W |-> Clamp(Result(s).raw) * weight[s]]
              parts == [s \in W |-> weight[s]]
              more  == [s \in W |-> k * terms[s]]
              heavy == [s \in W |-> k * parts[s]]
  <2>1. /\ IsFiniteSet(W) /\ W \subseteq registered
        /\ terms \in [W -> Nat] /\ parts \in [W -> Nat \ {0}]
        /\ WeightedAverage(d) = Rounded(SumFunction(terms), SumFunction(parts))
        /\ SumFunction(terms) \in Nat /\ SumFunction(parts) \in Nat
    BY AverageTerms
  <2>2. WeightedAverage(d)' = Rounded(SumFunction(more), SumFunction(heavy))
    <3>1. \A s \in W : /\ Result(s)' = Result(s) /\ weight'[s] = k * weight[s]
                       /\ Clamp(Result(s).raw) \in Nat /\ weight[s] \in Nat
      BY <1>1, <1>4, <1>5, <2>1, ResultShape, ClampBand
    <3>2. \A s \in W : Clamp(Result(s).raw) * (k * weight[s])
                          = k * (Clamp(Result(s).raw) * weight[s])
      <4>1. \A c, w \in Nat : c * (k * w) = k * (c * w)
        OBVIOUS
      <4>. QED
        BY <3>1, <4>1
    <3>3. [s \in Weighted(d) |-> weight[s]]' = heavy
      BY <1>4, <3>1
    <3>4. [s \in Weighted(d) |-> Clamp(Result(s).raw) * weight[s]]' = more
      BY <1>4, <3>1, <3>2 DEF Clamp
    <3>. QED
      BY <3>3, <3>4 DEF WeightedAverage, Rounded
  <2>3. parts \in [W -> Nat]
    BY <2>1
  <2>. HIDE DEF W, terms, parts
  <2>4. SumFunction(more) = k * SumFunction(terms) /\ SumFunction(heavy) = k * SumFunction(parts)
    BY <2>1, <2>3, SumScaled
  <2>. HIDE DEF more, heavy
  <2>5. Rounded(k * SumFunction(terms), k * SumFunction(parts))
          = Rounded(SumFunction(terms), SumFunction(parts))
    BY <2>1, RoundedScaled
  <2>. QED
    BY <2>1, <2>2, <2>4, <2>5
<1>7. ASSUME NEW d \in Dimensions PROVE Score(d)' = Score(d)
  <2>1. Caps(d)' = Caps(d)
    BY <1>4, <1>5 DEF Caps, Clamp
  <2>. QED
    BY <1>6, <2>1 DEF Score
<1>8. ActiveDimensions' = ActiveDimensions
  BY <1>4 DEF ActiveDimensions, EngineShape
<1>9. [d \in Dimensions |-> Score(d)]' = [d \in Dimensions |-> Score(d)]
  BY <1>7
<1>10. (UNION {Result(s).risks : s \in UNION {Weighted(d) : d \in Dimensions}})'
         = UNION {Result(s).risks : s \in UNION {Weighted(d) : d \in Dimensions}}
  <2>1. (UNION {Weighted(d) : d \in Dimensions})' = UNION {Weighted(d) : d \in Dimensions}
    BY <1>4
  <2>. QED
    BY <1>4, <1>5, <2>1
<1>. QED
  BY <1>8, <1>9, <1>10 DEF Evaluation, Classify, AllAtLeast
=============================================================================
