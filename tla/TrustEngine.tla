---------------------------- MODULE TrustEngine ----------------------------
(***************************************************************************)
(* The scoring engine (internal/scoring/engine): how the answers of the    *)
(* registered signals about one agent become a Trust Vector, risk factors  *)
(* and a recommended profile.  An evaluation is recomputed on every read   *)
(* from what is registered, what the profile weighs and what was observed, *)
(* so those are the state, each action changes one of them, and the        *)
(* evaluation is an operator of the state.                                 *)
(*                                                                         *)
(* An answer is the data of a SignalResult: a raw score, a dimension cap   *)
(* and risk codes.  Weights are naturals, which keeps the average exact: a *)
(* profile's fractions differ from them by a common factor the average     *)
(* does not see.                                                           *)
(***************************************************************************)
EXTENDS Integers, Functions

CONSTANTS
  Signals,      \* signals a binary may register
  Dimensions,   \* domain.AllDimensions()
  Identity,     \* the dimension with a bar of its own
  DimensionOf,  \* Signal.Dimension()
  SubjectOf,    \* ScoreSignal.Subject(): what the score is about
  Informative,  \* signals whose missing observation counts: not AbsenceAware,
                \* or AbsenceInformative()
  Answers,      \* what a signal may answer
  WhenAbsent,   \* what a signal answers without an observation
  Weights,      \* the signal weights a profile may give
  Untrusted, Transactional, Fiduciary, IdentityFiduciary,  \* Thresholds
  EvaluationFailed,  \* SIGNAL_EVALUATION_FAILED
  NoCap, Uncovered, Failed

\* Classify.validate lets only ascending thresholds in (0, 100] boot.
ASSUME ThresholdsAscend ==
  /\ {Untrusted, Transactional, Fiduciary, IdentityFiduciary} \subseteq 1 .. 100
  /\ Untrusted < Transactional
  /\ Transactional < Fiduciary
  /\ Fiduciary < IdentityFiduciary

ASSUME EngineConstants ==
  /\ Identity \in Dimensions
  /\ DimensionOf \in [Signals -> Dimensions]
  /\ Informative \subseteq Signals
  /\ WhenAbsent \in [Signals -> Answers]
  /\ Weights \subseteq Nat /\ 0 \in Weights
  /\ NoCap \notin Int
  /\ \A a \in Answers : a.raw \in Int /\ a.cap \in Int \cup {NoCap}
  /\ Uncovered \notin Answers /\ Failed \notin Answers /\ Uncovered # Failed

VARIABLES
  registered,  \* the signals of registry.All()
  weight,      \* profile.SignalWeights, 0 for a signal it leaves out
  gate,        \* the dimensions the profile weighs 1
  seen         \* seen[s]: Uncovered while no observation of s is stored, then
               \* what s answers from the latest one, or Failed

engineVars == <<registered, weight, gate, seen>>

(***************************************************************************)
(* Evaluate: from answers to dimension scores                              *)
(***************************************************************************)
\* Mutants of Clamp: a raw score above the band passes; one out of it is 0.
ClampBelow(n) == IF n < 0 THEN 0 ELSE n
ZeroOutOfBand(n) == IF n \in 0 .. 100 THEN n ELSE 0

Clamp(n) == IF n < 0 THEN 0 ELSE IF n > 100 THEN 100 ELSE n

\* Mutant: every missing observation counts as a zero.
CountAbsence(s) == FALSE

\* A missing observation that says nothing leaves its signal out.
Excluded(s) == seen[s] = Uncovered /\ s \notin Informative

Degraded == [raw |-> 0, cap |-> NoCap, risks |-> {EvaluationFailed}]

Result(s) ==
  CASE seen[s] = Failed -> Degraded
    [] seen[s] = Uncovered -> WhenAbsent[s]
    [] OTHER -> seen[s]

\* Mutant: the engine does not ask whether the profile weighs the signal.
CountUnweighted(d) == {s \in registered : DimensionOf[s] = d /\ ~Excluded(s)}

\* The signals that count for a dimension: only these score, cap and warn.
Weighted(d) ==
  {s \in registered : DimensionOf[s] = d /\ ~Excluded(s) /\ weight[s] > 0}

\* int(math.Round(sum / by)) of naturals, 0 when nothing is weighted.
Rounded(sum, by) == IF by = 0 THEN 0 ELSE (2 * sum + by) \div (2 * by)

WeightedAverage(d) ==
  Rounded(SumFunction([s \in Weighted(d) |-> Clamp(Result(s).raw) * weight[s]]),
          SumFunction([s \in Weighted(d) |-> weight[s]]))

Caps(d) ==
  {Clamp(Result(s).cap) : s \in {t \in Weighted(d) : Result(t).cap # NoCap}}

\* Mutant: a gate's answer is one term among the others.
AverageOnly(d) == WeightedAverage(d)

\* The average, pulled down to the lowest cap.
Score(d) ==
  LET limits == {WeightedAverage(d)} \cup Caps(d)
  IN  CHOOSE n \in limits : \A m \in limits : n <= m

ActiveDimensions == {d \in gate : Weighted(d) # {}}

(***************************************************************************)
(* Classify: the first rule that matches                                   *)
(***************************************************************************)
AllAtLeast(score, active, threshold) == \A d \in active : score[d] >= threshold

Recommended == {"UNTRUSTED", "READ_ONLY", "TRANSACTIONAL", "FIDUCIARY"}

Classify(score, active) ==
  CASE active = {} -> "READ_ONLY"
    [] active # {} /\ ~AllAtLeast(score, active, Untrusted) -> "UNTRUSTED"
    [] OTHER ->
         IF /\ AllAtLeast(score, active, Fiduciary)
            /\ Identity \in active /\ score[Identity] >= IdentityFiduciary
         THEN "FIDUCIARY"
         ELSE IF AllAtLeast(score, active, Transactional) THEN "TRANSACTIONAL"
         ELSE "READ_ONLY"

Evaluation ==
  LET vector == [d \in Dimensions |-> Score(d)] IN
  [vector      |-> vector,
   recommended |-> Classify(vector, ActiveDimensions),
   risks       |-> UNION {Result(s).risks : s \in UNION {Weighted(d) : d \in Dimensions}}]

(***************************************************************************)
(* What an evaluation is read from changes                                 *)
(***************************************************************************)
EngineInit ==
  /\ registered = {}
  /\ weight = [s \in Signals |-> 0]
  /\ gate = {}
  /\ seen = [s \in Signals |-> Uncovered]

\* The binary is rebuilt with one more signal; no signal registers twice.
Register(s) ==
  /\ s \notin registered
  /\ registered' = registered \cup {s}
  /\ UNCHANGED <<weight, gate, seen>>

\* It is rebuilt without s, and no profile that weighs s boots any more; what
\* was observed of s stays stored.
Retire(s) ==
  /\ s \in registered
  /\ registered' = registered \ {s}
  /\ weight' = [weight EXCEPT ![s] = 0]
  /\ UNCHANGED <<gate, seen>>

\* Another profile is asked for, or one is edited: it may weigh only signals
\* that are registered (ValidateSignalWeights).
Weigh(s, w) ==
  /\ s \in registered
  /\ w # weight[s]
  /\ weight' = [weight EXCEPT ![s] = w]
  /\ UNCHANGED <<registered, gate, seen>>

Gate(d) ==
  /\ gate' = (gate \ {d}) \cup ({d} \ gate)
  /\ UNCHANGED <<registered, weight, seen>>

\* An observation of s is imported that it answers with o, or fails to read; a
\* derived signal's answer changes with the agent's age.
Observe(s, o) ==
  /\ s \in registered
  /\ o # seen[s]
  /\ seen' = [seen EXCEPT ![s] = o]
  /\ UNCHANGED <<registered, weight, gate>>

EngineNext ==
  \/ \E s \in Signals : Register(s) \/ Retire(s)
  \/ \E s \in Signals, w \in Weights : Weigh(s, w)
  \/ \E d \in Dimensions : Gate(d)
  \/ \E s \in Signals, o \in Answers \cup {Failed} : Observe(s, o)

EngineSpec == EngineInit /\ [][EngineNext]_engineVars

(***************************************************************************)
(* Properties                                                              *)
(***************************************************************************)
\* What a signal answers, in or out of the band of the specification, every
\* dimension scores in 0 .. 100 (clampRaw; the extension-boundary policy (b) of
\* Evaluate).
EngineTypeOK ==
  /\ registered \subseteq Signals
  /\ weight \in [Signals -> Weights]
  /\ \A s \in Signals \ registered : weight[s] = 0
  /\ gate \subseteq Dimensions
  /\ seen \in [Signals -> Answers \cup {Uncovered, Failed}]
  /\ Evaluation.vector \in [Dimensions -> 0 .. 100]
  /\ Evaluation.recommended \in Recommended

\* A block is a verdict: a weighted gate that answers a cap holds its dimension
\* at or under it whatever its co-signals answer, and one below the untrusted
\* floor in a dimension the profile gates on makes the agent UNTRUSTED, whatever
\* the other dimensions say (SignalResult.DimensionCap).
BlockIsAVerdict ==
  \A d \in Dimensions : \A s \in Weighted(d) :
    Result(s).cap # NoCap =>
      /\ Score(d) <= Clamp(Result(s).cap)
      /\ (d \in gate /\ Clamp(Result(s).cap) < Untrusted)
           => Evaluation.recommended = "UNTRUSTED"

\* No coverage is no penalty: a provider's signal that has no observation of the
\* agent may be registered, retired or weighed, and nothing an agent is told
\* changes (the absent-observation policy of Evaluate, AbsenceAware).
NewProviderIsNeutral ==
  [][\A s \in Signals \ Informative :
       (seen[s] = Uncovered /\ \/ Register(s) \/ Retire(s)
                               \/ \E w \in Weights : Weigh(s, w))
         => Evaluation' = Evaluation]_engineVars

\* A profile that does not weigh a signal is not moved by it: whatever it
\* answers, a failure or a cap included, no score, risk or profile changes
\* (the weight > 0 condition of Evaluate and weightedAverage).
UnweighedIsSilent ==
  [][\A s \in Signals :
       (weight[s] = 0 /\ seen'[s] # seen[s]) => Evaluation' = Evaluation]_engineVars

NoWorse(o, p) ==
  /\ o.raw <= p.raw
  /\ p.cap = NoCap \/ (o.cap # NoCap /\ o.cap <= p.cap)

Rank == [r \in Recommended |->
  CASE r = "UNTRUSTED" -> 0 [] r = "READ_ONLY" -> 1
    [] r = "TRANSACTIONAL" -> 2 [] r = "FIDUCIARY" -> 3]

\* Better evidence never hurts: when a signal that already counted answers a
\* higher raw score and no lower cap, no dimension falls and the agent is not
\* recommended for less - through clamping, rounding, caps and the cascade.
BetterEvidenceNeverHurts ==
  [][(/\ UNCHANGED <<registered, gate, weight>>
      /\ \A s \in Signals : seen'[s] # seen[s] =>
           ~Excluded(s) /\ NoWorse(Result(s), Result(s)'))
     => /\ \A d \in Dimensions : Score(d) <= Score(d)'
        /\ Rank[Evaluation.recommended] <= Rank[Evaluation.recommended']]_engineVars

\* "a Trust Index never silently averages, e.g., a tool's safety into an agent's
\* safety ... the engine buckets by value" (scorecontainer.go:62-66): what a
\* signal answers about one subject moves no score that already rests on signals
\* about another.
SubjectsApart ==
  [][\A s \in Signals :
       (/\ seen'[s] # seen[s]
        /\ \E t \in Weighted(DimensionOf[s]) : SubjectOf[t] # SubjectOf[s])
       => Score(DimensionOf[s])' = Score(DimensionOf[s])]_engineVars
=============================================================================
