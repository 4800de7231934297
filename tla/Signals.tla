------------------------------ MODULE Signals ------------------------------
(***************************************************************************)
(* The signals of the binary (internal/scoring/signals and its             *)
(* scorecontainer): which observations each accepts (Validate) and what it *)
(* answers from one (Evaluate).  A risk code is its dimension prefix and   *)
(* the rest; explanations and attestation tiers are left out.              *)
(***************************************************************************)
EXTENDS Integers, Sequences, Functions

CONSTANTS
  Absent,        \* the empty string
  Fingerprints,  \* the strings of the form SHA256:<64 hex>
  Containers,    \* the provider signals of the binary: id -> its configuration
  Codes,         \* provider risk codes of the right shape, as <<prefix, rest>>
  Misshapen,     \* a provider risk code of the wrong shape
  Unset,         \* a threshold or a score that is not given
  Unobserved     \* no observation

Drifts == {"certfingerprint.server", "certfingerprint.identity",
           "dnsrecord.ans", "dnsrecord.ans-badge"}
FingerprintDrifts == {"certfingerprint.server", "certfingerprint.identity"}

\* The signals that accept observations; agentage is derived and does not.
SignalIds ==
  {"certtype", "dnssecurity", "versionstability"} \cup Drifts \cup DOMAIN Containers

Dimensions == {"integrity", "identity", "solvency", "behavior", "safety"}

Configurations == [dimension : Dimensions, threshold : 0 .. 100 \cup {Unset}]

\* What LoadSignals lets boot, under ids no built-in signal has.
ASSUME SignalConstants ==
  /\ Containers \in [DOMAIN Containers -> Configurations]
  /\ DOMAIN Containers \cap
       ({"certtype", "dnssecurity", "versionstability", "agentage"} \cup Drifts) = {}
  /\ Absent \notin Fingerprints
  /\ Codes \subseteq Dimensions \X STRING /\ Misshapen \notin Codes
  /\ Unset \notin Int

DimensionOf(s) ==
  IF s \in DOMAIN Containers THEN Containers[s].dimension
  ELSE IF s = "certtype" THEN "identity" ELSE "integrity"

Answer(raw, risks) == [raw |-> raw, risks |-> risks]

\* In the band, and no code in a dimension of another signal.
InBand(s, answer) ==
  /\ answer.raw \in 0 .. 100
  /\ \A r \in answer.risks : r[1] = DimensionOf(s)

\* int(math.Round(n / d)) of naturals.
Nearest(n, d) == (2 * n + d) \div (2 * d)

-----------------------------------------------------------------------------
(* Raw observations.                                                       *)

CertTypes == {"DV", "OV", "EV", "none"}

CertTypeAnswer(o) ==
  CASE o = Unobserved -> Answer(0, {<<"identity", "CERT_MISSING">>})
    [] o = "EV" -> Answer(100, {})
    [] o = "OV" -> Answer(70, {})
    [] o = "DV" -> Answer(40, {<<"identity", "CERT_DV_ONLY">>})
    [] OTHER -> Answer(0, {})

\* The value is the set of what is present.
DNSSECurityAnswer(o) ==
  IF o = Unobserved THEN Answer(0, {})
  ELSE Answer(CASE o = {"dnssec", "caa"} -> 100 [] o = {} -> 0 [] OTHER -> 50,
              IF "dnssec" \in o THEN {} ELSE {<<"integrity", "DNSSEC_BROKEN">>})

\* The value is versionChanges30d.
VersionStabilityAnswer(o) ==
  IF o = Unobserved THEN Answer(0, {})
  ELSE LET changes == IF o < 0 THEN 0 ELSE o IN
       Answer(Nearest(100, 1 + changes),
              IF changes >= 4 THEN {<<"integrity", "VERSION_CHURN_HIGH">>} ELSE {})

\* Derived from the hours since agent.FirstSeen, which may lie ahead.
AgentAgeAnswer(hours) ==
  LET days == IF hours < 0 THEN 0 ELSE hours \div 24
      ramp == Nearest(100 * days, 180)
      raw  == IF ramp > 100 THEN 100 ELSE ramp
  IN  Answer(raw, IF raw < 25 THEN {<<"integrity", "AGENT_NEW">>} ELSE {})

-----------------------------------------------------------------------------
(* Drift verdicts: a sealed baseline, a live value, and the producer's word *)
(* on whether they match.                                                  *)

\* A side may be missing; what is there has the form.
FingerprintPair(v) == {v.expected, v.observed} \subseteq Fingerprints \cup {Absent}

\* Where both sides are there, the producer's word is checked.
DriftValid(s, v) ==
  /\ s \in FingerprintDrifts => FingerprintPair(v)
  /\ (v.expected # Absent /\ v.observed # Absent) => v.matched = (v.expected = v.observed)

\* Mutant: the producer's word is asked before the baseline.
DriftAnswerMatchedFirst(s, o) ==
  CASE o = Unobserved -> Answer(0, {})
    [] o # Unobserved /\ o.matched -> Answer(100, {})
    [] OTHER -> Answer(0, IF o.expected = Absent THEN {} ELSE {<<"integrity", s>>})

DriftAnswer(s, o) ==
  IF o = Unobserved \/ o.expected = Absent THEN Answer(0, {})
  ELSE IF o.matched THEN Answer(100, {})
  ELSE Answer(0, {<<"integrity", s>>})

-----------------------------------------------------------------------------
(* Provider scores.                                                        *)

Threshold(s) == IF Containers[s].threshold = Unset THEN 70 ELSE Containers[s].threshold

MaxRiskCodes == 16

\* Mutant: any number is a score.
ContainerValidUnbounded(s, v) ==
  /\ v.score # Unset
  /\ Len(v.riskCodes) <= MaxRiskCodes
  /\ \A c \in Range(v.riskCodes) : c # Misshapen /\ c[1] = DimensionOf(s)

ContainerValid(s, v) ==
  /\ v.score # Unset /\ v.score \in 0 .. 100
  /\ Len(v.riskCodes) <= MaxRiskCodes
  /\ \A c \in Range(v.riskCodes) : c # Misshapen /\ c[1] = DimensionOf(s)

\* The provider's codes of this dimension, and the backstop under the threshold.
ContainerAnswer(s, v) ==
  Answer(v.score,
         {c \in Range(v.riskCodes) : c[1] = DimensionOf(s)} \cup
         IF v.score < Threshold(s) THEN {<<DimensionOf(s), "SCORE_LOW">>} ELSE {})

-----------------------------------------------------------------------------
(* What the registry holds, by id.                                         *)

\* Decoding an imported value: each signal reads a shape of its own.
Verdicts(strings) == [expected : strings, observed : strings, matched : BOOLEAN]
Scores == [score : Int \cup {Unset}, riskCodes : Seq(Codes \cup {Misshapen})]

Validate(s, v) ==
  CASE s = "certtype" -> v \in CertTypes
    [] s = "dnssecurity" -> TRUE
    [] s = "versionstability" -> v >= 0
    [] s \in Drifts -> DriftValid(s, v)
    [] s \in DOMAIN Containers -> ContainerValid(s, v)

\* An absent container score is never evaluated: the engine leaves it out.
Evaluate(s, o) ==
  CASE s = "certtype" -> CertTypeAnswer(o)
    [] s = "dnssecurity" -> DNSSECurityAnswer(o)
    [] s = "versionstability" -> VersionStabilityAnswer(o)
    [] s \in Drifts -> DriftAnswer(s, o)
    [] s \in DOMAIN Containers -> ContainerAnswer(s, o)
=============================================================================
