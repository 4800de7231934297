-------------------------- MODULE ProducersProofs --------------------------
(***************************************************************************)
(* Proofs about the signals and their producers, for any configuration of  *)
(* provider signals, any agents, events, fixtures, hosts, provider scores  *)
(* and sizes.                                                              *)
(***************************************************************************)
EXTENDS Producers, FiniteSums

(***************************************************************************)
(* The signals: what any accepted observation is answered with, and what   *)
(* no observation is.                                                      *)
(***************************************************************************)

LEMMA QuotientBounds ==
  ASSUME NEW n \in Nat, NEW d \in Nat \ {0}
  PROVE  n \div d \in Nat /\ d * (n \div d) <= n
  OBVIOUS

\* A rounded share of one hundred stays in the band.
LEMMA NearestOfHundred ==
  ASSUME NEW d \in Nat \ {0}
  PROVE  Nearest(100, d) \in 0 .. 100
<1>. DEFINE q == (200 + d) \div (2 * d)
<1>. DEFINE n == 200 + d
            e == 2 * d
<1>1. q \in Nat /\ e * q <= n
  <2>1. n \in Nat /\ e \in Nat \ {0}
    OBVIOUS
  <2>. HIDE DEF n, e
  <2>2. n \div e \in Nat /\ e * (n \div e) <= n
    BY <2>1, QuotientBounds
  <2>. QED
    BY <2>2 DEF n, e
<1>2. ASSUME q > 100 PROVE FALSE
  <2>1. (2 * d) * q >= (2 * d) * 101
    BY <1>1, <1>2
  <2>. QED
    BY <1>1, <2>1
<1>. QED
  BY <1>1, <1>2 DEF Nearest

LEMMA BuiltInDimensions ==
  /\ DimensionOf("certtype") = "identity"
  /\ \A s \in {"dnssecurity", "versionstability"} \cup Drifts :
       DimensionOf(s) = "integrity" /\ s \notin DOMAIN Containers
  BY SignalConstants DEF DimensionOf, Drifts

\* No id is found under two branches of Validate and Evaluate.
LEMMA IdsAreSeparate ==
  /\ \A s \in {"certtype", "dnssecurity", "versionstability"} :
       s \notin Drifts /\ s \notin DOMAIN Containers
  /\ \A s \in Drifts : s \notin DOMAIN Containers
  /\ \A s \in Drifts \cup DOMAIN Containers :
       s \notin {"certtype", "dnssecurity", "versionstability"}
  BY SignalConstants DEF Drifts

LEMMA CertTypeInBand ==
  ASSUME NEW o PROVE InBand("certtype", CertTypeAnswer(o))
  BY BuiltInDimensions DEF InBand, CertTypeAnswer, Answer

LEMMA DNSSECurityInBand ==
  ASSUME NEW o PROVE InBand("dnssecurity", DNSSECurityAnswer(o))
  BY BuiltInDimensions DEF InBand, DNSSECurityAnswer, Answer

LEMMA VersionStabilityInBand ==
  ASSUME NEW o \in Int \cup {Unobserved}
  PROVE  InBand("versionstability", VersionStabilityAnswer(o))
<1>1. CASE o = Unobserved
  BY <1>1, BuiltInDimensions DEF InBand, VersionStabilityAnswer, Answer
<1>2. CASE o # Unobserved
  <2>. DEFINE changes == IF o < 0 THEN 0 ELSE o
  <2>1. Nearest(100, 1 + changes) \in 0 .. 100
    <3>1. changes \in Nat
      BY <1>2
    <3>. QED
      BY <3>1, NearestOfHundred
  <2>. QED
    BY <1>2, <2>1, BuiltInDimensions DEF InBand, VersionStabilityAnswer, Answer
<1>. QED
  BY <1>1, <1>2

LEMMA DriftInBand ==
  ASSUME NEW s \in Drifts, NEW o PROVE InBand(s, DriftAnswer(s, o))
<1>1. DriftAnswer(s, o) \in {Answer(0, {}), Answer(100, {}), Answer(0, {<<"integrity", s>>})}
  BY Zenon DEF DriftAnswer
<1>2. DimensionOf(s) = "integrity"
  BY BuiltInDimensions
<1>3. /\ InBand(s, Answer(0, {})) /\ InBand(s, Answer(100, {}))
      /\ InBand(s, Answer(0, {<<"integrity", s>>}))
  BY <1>2 DEF InBand, Answer
<1>. QED
  BY <1>1, <1>3

LEMMA ContainerInBand ==
  ASSUME NEW s \in DOMAIN Containers, NEW v, ContainerValid(s, v)
  PROVE  InBand(s, ContainerAnswer(s, v))
<1>1. v.score \in 0 .. 100
  BY DEF ContainerValid
<1>2. <<DimensionOf(s), "SCORE_LOW">>[1] = DimensionOf(s)
  OBVIOUS
<1>. QED
  BY <1>1, <1>2 DEF InBand, ContainerAnswer, Answer

\* Whatever a producer gets accepted is answered in the band, with risk codes
\* of the signal's own dimension: the engine's caps and its block rule see
\* nothing else.
THEOREM AcceptedInBand ==
  ASSUME NEW s \in SignalIds, NEW v, Validate(s, v),
         s = "versionstability" => v \in Int
  PROVE  InBand(s, Evaluate(s, v))
<1>1. CASE s = "certtype"
  <2>1. Evaluate(s, v) = CertTypeAnswer(v)
    BY IdsAreSeparate, <1>1 DEF Evaluate
  <2>. QED
    BY <1>1, <2>1, CertTypeInBand
<1>2. CASE s = "dnssecurity"
  <2>1. Evaluate(s, v) = DNSSECurityAnswer(v)
    BY IdsAreSeparate, <1>2 DEF Evaluate
  <2>. QED
    BY <1>2, <2>1, DNSSECurityInBand
<1>3. CASE s = "versionstability"
  <2>1. Evaluate(s, v) = VersionStabilityAnswer(v)
    BY IdsAreSeparate, <1>3 DEF Evaluate
  <2>. QED
    BY <1>3, <2>1, VersionStabilityInBand
<1>4. CASE s \in Drifts
  <2>1. Evaluate(s, v) = DriftAnswer(s, v)
    BY IdsAreSeparate, <1>4 DEF Evaluate
  <2>. QED
    BY <1>4, <2>1, DriftInBand
<1>5. CASE s \in DOMAIN Containers
  <2>1. Evaluate(s, v) = ContainerAnswer(s, v) /\ ContainerValid(s, v)
    BY IdsAreSeparate, <1>5 DEF Evaluate, Validate
  <2>. QED
    BY <1>5, <2>1, ContainerInBand
<1>. QED
  BY <1>1, <1>2, <1>3, <1>4, <1>5 DEF SignalIds

\* An absent observation is no reason to leave the band, and the age of an agent
\* is in it whenever it was first seen, in the future too.
THEOREM AbsentInBand ==
  /\ \A s \in SignalIds \ DOMAIN Containers : InBand(s, Evaluate(s, Unobserved))
  /\ \A hours \in Int : LET answer == AgentAgeAnswer(hours) IN
       /\ answer.raw \in 0 .. 100
       /\ answer.risks # {} <=> answer.raw < 25
<1>1. ASSUME NEW s \in SignalIds \ DOMAIN Containers
      PROVE  InBand(s, Evaluate(s, Unobserved))
  <2>1. CASE s = "certtype"
    <3>1. Evaluate(s, Unobserved) = CertTypeAnswer(Unobserved)
      BY IdsAreSeparate, <2>1 DEF Evaluate
    <3>. QED
      BY <2>1, <3>1, CertTypeInBand
  <2>2. CASE s = "dnssecurity"
    <3>1. Evaluate(s, Unobserved) = DNSSECurityAnswer(Unobserved)
      BY IdsAreSeparate, <2>2 DEF Evaluate
    <3>. QED
      BY <2>2, <3>1, DNSSECurityInBand
  <2>3. CASE s = "versionstability"
    <3>1. Evaluate(s, Unobserved) = VersionStabilityAnswer(Unobserved)
      BY IdsAreSeparate, <2>3 DEF Evaluate
    <3>. QED
      BY <2>3, <3>1, VersionStabilityInBand
  <2>4. CASE s \in Drifts
    <3>1. Evaluate(s, Unobserved) = DriftAnswer(s, Unobserved)
      BY IdsAreSeparate, <2>4 DEF Evaluate
    <3>. QED
      BY <2>4, <3>1, DriftInBand
  <2>. QED
    BY <2>1, <2>2, <2>3, <2>4 DEF SignalIds
<1>2. ASSUME NEW hours \in Int
      PROVE  /\ AgentAgeAnswer(hours).raw \in 0 .. 100
             /\ AgentAgeAnswer(hours).risks # {} <=> AgentAgeAnswer(hours).raw < 25
  <2>. DEFINE days == IF hours < 0 THEN 0 ELSE hours \div 24
              ramp == Nearest(100 * days, 180)
              raw  == IF ramp > 100 THEN 100 ELSE ramp
  <2>1. days \in Nat
    OBVIOUS
  <2>2. ramp \in Nat
    <3>. HIDE DEF days
    <3>. QED
      BY <2>1 DEF Nearest
  <2>3. raw \in 0 .. 100
    <3>. HIDE DEF ramp
    <3>. QED
      BY <2>2
  <2>4. AgentAgeAnswer(hours) =
          Answer(raw, IF raw < 25 THEN {<<"integrity", "AGENT_NEW">>} ELSE {})
    BY DEF AgentAgeAnswer
  <2>. HIDE DEF raw
  <2>5. CASE raw < 25
    <3>1. AgentAgeAnswer(hours) = [raw |-> raw, risks |-> {<<"integrity", "AGENT_NEW">>}]
      BY <2>4, <2>5 DEF Answer
    <3>2. /\ AgentAgeAnswer(hours).raw = raw
          /\ AgentAgeAnswer(hours).risks = {<<"integrity", "AGENT_NEW">>}
      BY <3>1
    <3>3. <<"integrity", "AGENT_NEW">> \in AgentAgeAnswer(hours).risks
      BY <3>2
    <3>. QED
      BY <2>3, <2>5, <3>2, <3>3
  <2>6. CASE ~(raw < 25)
    <3>1. AgentAgeAnswer(hours) = [raw |-> raw, risks |-> {}]
      BY <2>4, <2>6 DEF Answer
    <3>. QED
      BY <2>3, <2>6, <3>1
  <2>. QED
    BY <2>5, <2>6
<1>. QED
  BY <1>1, <1>2

(***************************************************************************)
(* What the producers put into an observation.                             *)
(***************************************************************************)

Honest(v) == v.expected # Absent => (v.matched <=> v.observed = v.expected)

\* What the server may come to read.
Good(s, v) == v \in Shape(s) /\ Validate(s, v) /\ (s \in Drifts => Honest(v))

LEMMA ShapeOf ==
  /\ \A s \in Drifts : Shape(s) = Verdicts(Strings)
  /\ \A s \in DOMAIN Containers : Shape(s) = Scores
  /\ Shape("certtype") = CertTypes
  /\ Shape("dnssecurity") = SUBSET {"dnssec", "caa"}
  /\ Shape("versionstability") = Int
  BY IdsAreSeparate DEF Shape

LEMMA ProbedSignals ==
  /\ Probed = {"certtype", "dnssecurity", "certfingerprint.server", "dnsrecord.ans",
               "dnsrecord.ans-badge"}
  /\ Probed \subseteq SignalIds
  /\ Probed \cap Drifts = {"certfingerprint.server", "dnsrecord.ans", "dnsrecord.ans-badge"}
  BY DEF Probed, SignalIds, Drifts

\* A verdict of a live value is honest, and is refused for its seal alone.
LEMMA LiveVerdictGood ==
  ASSUME NEW s \in Drifts, NEW expected \in Strings, NEW got,
         got \in Strings \cup {Unreachable},
         s \in FingerprintDrifts => got \in Fingerprints \cup {Unreachable}
  PROVE  /\ LiveVerdict(expected, got) \in Verdicts(Strings)
         /\ Honest(LiveVerdict(expected, got))
         /\ (s \in FingerprintDrifts => expected \in Fingerprints \cup {Absent})
              => Validate(s, LiveVerdict(expected, got))
<1>. DEFINE v == LiveVerdict(expected, got)
<1>1. /\ v.expected = expected /\ v.observed = Or(got, Absent)
      /\ v.matched = (got # Unreachable /\ expected = got)
      /\ v = [expected |-> expected, observed |-> Or(got, Absent),
              matched |-> (got # Unreachable /\ expected = got)]
  BY DEF LiveVerdict
<1>2. /\ Or(got, Absent) \in Strings
      /\ got # Unreachable => Or(got, Absent) = got
      /\ got = Unreachable => Or(got, Absent) = Absent
      /\ Unreachable \notin Strings
  BY ProducerConstants DEF Or
<1>3. v \in Verdicts(Strings)
  BY <1>1, <1>2 DEF Verdicts
<1>. HIDE DEF v
<1>5. Honest(v)
  BY <1>1, <1>2 DEF Honest
<1>6. ASSUME s \in FingerprintDrifts => expected \in Fingerprints \cup {Absent}
      PROVE  Validate(s, v)
  <2>1. s \in FingerprintDrifts => {v.expected, v.observed} \subseteq Fingerprints \cup {Absent}
    BY <1>1, <1>2, <1>6
  <2>2. (v.expected # Absent /\ v.observed # Absent) => v.matched = (v.expected = v.observed)
    BY <1>1, <1>2
  <2>3. DriftValid(s, v)
    BY <2>1, <2>2 DEF DriftValid, FingerprintPair
  <2>. QED
    BY <2>3, IdsAreSeparate DEF Validate
<1>. QED
  BY <1>3, <1>5, <1>6 DEF v

LEMMA ProbeGood ==
  ASSUME NEW attested \in Attestations, NEW host \in SiteStates, NEW s \in Probed
  PROVE  LET v == Probe(attested, host)[s] IN
         /\ v \in Shape(s)
         /\ s \in Drifts => Honest(v)
         /\ (s \in Drifts => WellSealed(attested, s)) => Validate(s, v)
<1>. DEFINE v == Probe(attested, host)[s]
<1>1. CASE s = "certtype"
  <2>1. v = IF host.cert = Unreachable THEN "none" ELSE host.type
    BY <1>1 DEF Probe
  <2>2. v \in CertTypes
    BY <2>1 DEF SiteStates, CertTypes
  <2>. QED
    BY <1>1, <2>2, ShapeOf, IdsAreSeparate DEF Validate
<1>2. CASE s = "dnssecurity"
  <2>1. v = {}
    BY <1>2 DEF Probe
  <2>. QED
    BY <1>2, <2>1, ShapeOf, IdsAreSeparate DEF Validate
<1>3. CASE s \in Drifts
  <2>1. PICK got : /\ v = LiveVerdict(attested[s], got)
                   /\ got \in Strings \cup {Unreachable}
                   /\ s \in FingerprintDrifts => got \in Fingerprints \cup {Unreachable}
    <3>1. CASE s = "certfingerprint.server"
      <4>1. v = LiveVerdict(attested[s], host.cert)
        BY <3>1 DEF Probe, Probed
      <4>2. host.cert \in Fingerprints \cup {Unreachable} /\ host.cert \in Strings \cup {Unreachable}
        BY ProducerConstants DEF SiteStates
      <4>. QED
        BY <4>1, <4>2
    <3>2. CASE s = "dnsrecord.ans"
      <4>1. v = LiveVerdict(attested[s], host.ans)
        BY <3>2 DEF Probe, Probed
      <4>2. host.ans \in Strings \cup {Unreachable} /\ s \notin FingerprintDrifts
        BY <3>2 DEF SiteStates, FingerprintDrifts
      <4>. QED
        BY <4>1, <4>2
    <3>3. CASE s = "dnsrecord.ans-badge"
      <4>1. v = LiveVerdict(attested[s], host.badge)
        BY <3>3 DEF Probe, Probed
      <4>2. host.badge \in Strings \cup {Unreachable} /\ s \notin FingerprintDrifts
        BY <3>3 DEF SiteStates, FingerprintDrifts
      <4>. QED
        BY <4>1, <4>2
    <3>. QED
      BY <1>3, <3>1, <3>2, <3>3, ProbedSignals
  <2>2. attested[s] \in Strings
    BY <1>3 DEF Attestations
  <2>3. Shape(s) = Verdicts(Strings)
    BY <1>3, ShapeOf
  <2>. HIDE DEF v
  <2>4. v \in Verdicts(Strings) /\ Honest(v) /\ (WellSealed(attested, s) => Validate(s, v))
    BY <1>3, <2>1, <2>2, LiveVerdictGood DEF WellSealed
  <2>. QED
    BY <1>3, <2>3, <2>4 DEF v
<1>. QED
  BY <1>1, <1>2, <1>3, ProbedSignals

\* So does the hydrator's, of its fixture's live side or raw value.
LEMMA ProjectedGood ==
  ASSUME NEW events \in Events, NEW files \in FixtureSets, NEW f \in files
  PROVE  LET v == Projected(events, f).value IN
         /\ Projected(events, f) \in [age : Ages, value : Shape(f.signal)]
         /\ f.signal \in Drifts => Honest(v)
         /\ \/ Validate(f.signal, v)
            \/ /\ f.signal \in FingerprintDrifts
               /\ \/ f.value \notin Fingerprints \cup {Absent}
                  \/ events[f.agent] # NoEvent /\ ~WellSealed(events[f.agent], f.signal)
<1>. DEFINE v == Projected(events, f).value
<1>1. /\ f \in Entries
      /\ f.signal = "certtype" => f.value \in CertTypes
      /\ f.signal # "certtype" => f.signal \in Drifts /\ f.value \in Strings
  BY ProducerConstants
<1>2. f.age \in Ages /\ f.agent \in AgentIds /\ f.signal \in SignalIds
  BY <1>1 DEF Entries
<1>3. CASE f.signal = "certtype"
  <2>1. Projected(events, f) = [age |-> f.age, value |-> f.value]
    BY <1>3, IdsAreSeparate DEF Projected, Reading
  <2>2. Validate(f.signal, f.value)
    BY <1>1, <1>3, IdsAreSeparate DEF Validate
  <2>3. f.signal \notin Drifts /\ Shape(f.signal) = CertTypes /\ f.value \in CertTypes
    BY <1>1, <1>3, ShapeOf, IdsAreSeparate
  <2>. QED
    BY <1>2, <2>1, <2>2, <2>3
<1>4. CASE f.signal \in Drifts
  <2>. DEFINE expected == Baseline(events, f.agent, f.signal)
              w == [expected |-> expected, observed |-> f.value, matched |-> expected = f.value]
  <2>1. Projected(events, f) = [age |-> f.age, value |-> w]
    BY <1>4 DEF Projected, Reading, FixtureVerdict
  <2>2. expected \in Strings /\ f.value \in Strings
    <3>1. events[f.agent] # NoEvent => events[f.agent] \in Attestations
      BY <1>2 DEF Events
    <3>2. f.value \in Strings
      BY <1>1, <1>4, IdsAreSeparate
    <3>. QED
      BY <1>4, <3>1, <3>2, ProducerConstants DEF Baseline, Attestations
  <2>3. w \in Verdicts(Strings) /\ Honest(w)
    BY <2>2 DEF Verdicts, Honest
  <2>4. Shape(f.signal) = Verdicts(Strings)
    BY <1>4, ShapeOf
  <2>5. ASSUME f.signal \in FingerprintDrifts => /\ f.value \in Fingerprints \cup {Absent}
                                                 /\ expected \in Fingerprints \cup {Absent}
        PROVE  Validate(f.signal, w)
    <3>1. DriftValid(f.signal, w)
      BY <2>5 DEF DriftValid, FingerprintPair
    <3>. QED
      BY <1>4, <3>1, IdsAreSeparate DEF Validate
  <2>6. ASSUME f.signal \in FingerprintDrifts, expected \notin Fingerprints \cup {Absent}
        PROVE  events[f.agent] # NoEvent /\ ~WellSealed(events[f.agent], f.signal)
    BY <2>6 DEF Baseline, WellSealed
  <2>. HIDE DEF w, expected
  <2>. QED
    BY <1>2, <1>4, <2>1, <2>3, <2>4, <2>5, <2>6
<1>. QED
  BY <1>1, <1>3, <1>4

(***************************************************************************)
(* Matrices of readings.                                                   *)
(***************************************************************************)

\* All that is there is good to read.
AllGood(m) == \A a \in AgentIds, s \in SignalIds :
  m[a][s] # Unobserved => Good(s, m[a][s].value)

LEMMA NothingIsThere ==
  /\ IsMatrix(Nothing)
  /\ \A a \in AgentIds, s \in SignalIds : Nothing[a][s] = Unobserved
  BY DEF Nothing, IsMatrix

\* A tick makes readings older and nothing else.
LEMMA OlderKeeps ==
  ASSUME NEW m, IsMatrix(m)
  PROVE  /\ IsMatrix(Older(m))
         /\ \A a \in AgentIds, s \in SignalIds :
              Older(m)[a][s] # Unobserved =>
                m[a][s] # Unobserved /\ Older(m)[a][s].value = m[a][s].value
<1>. DEFINE o == Older(m)
<1>1. DOMAIN o = AgentIds /\ \A a \in AgentIds : DOMAIN o[a] = SignalIds
  BY DEF Older
<1>2. ASSUME NEW a \in AgentIds, NEW s \in SignalIds, o[a][s] # Unobserved
      PROVE  /\ m[a][s] # Unobserved /\ o[a][s].value = m[a][s].value
             /\ o[a][s] \in [age : Ages, value : Shape(s)]
  <2>. DEFINE r == m[a][s]
  <2>1. o[a][s] = IF r # Unobserved /\ r.age \in 0 .. MaxAge - 1
                  THEN [r EXCEPT !.age = @ + 1] ELSE r
    BY DEF Older
  <2>2. r # Unobserved
    BY <1>2, <2>1
  <2>3. r \in [age : Ages, value : Shape(s)]
    BY <2>2 DEF IsMatrix
  <2>. HIDE DEF r
  <2>4. CASE r.age \in 0 .. MaxAge - 1
    <3>1. r.age + 1 \in Ages
      BY <2>4, ProducerConstants DEF Ages
    <3>2. o[a][s] = [age |-> r.age + 1, value |-> r.value]
      BY <2>1, <2>2, <2>3, <2>4
    <3>. QED
      BY <2>2, <2>3, <3>1, <3>2 DEF r
  <2>5. CASE r.age \notin 0 .. MaxAge - 1
    BY <2>1, <2>2, <2>3, <2>5 DEF r
  <2>. QED
    BY <2>4, <2>5
<1>. HIDE DEF o
<1>3. IsMatrix(o)
  BY <1>1, <1>2 DEF IsMatrix
<1>. QED
  BY <1>2, <1>3 DEF o

\* A batch that is taken leaves good readings.
LEMMA ImportKeeps ==
  ASSUME IsMatrix(latest), AllGood(latest), NEW batch, IsMatrix(batch), AllGood(batch),
         Import(batch)
  PROVE  IsMatrix(latest)' /\ AllGood(latest)'
<1>. DEFINE n == [a \in AgentIds |-> [s \in SignalIds |->
                    IF Newer(batch[a][s], latest[a][s]) THEN batch[a][s] ELSE latest[a][s]]]
<1>1. latest' = n
  BY DEF Import
<1>2. DOMAIN n = AgentIds /\ \A a \in AgentIds : DOMAIN n[a] = SignalIds
  OBVIOUS
<1>3. \A a \in AgentIds, s \in SignalIds :
        n[a][s] = batch[a][s] \/ n[a][s] = latest[a][s]
  OBVIOUS
<1>. HIDE DEF n
<1>4. IsMatrix(n)
  BY <1>2, <1>3 DEF IsMatrix
<1>5. AllGood(n)
  BY <1>3 DEF AllGood
<1>. QED
  BY <1>1, <1>4, <1>5 DEF IsMatrix, AllGood

(***************************************************************************)
(* The inductive invariant.                                                *)
(***************************************************************************)

\* What a pass found of an agent, whatever its host was like then.
Found(events, a, s, v) ==
  /\ a \in Listed(events) /\ s \in Probed
  /\ \E host \in SiteStates : v = Probe(events[a], host)[s]

BatchFound == \A a \in AgentIds, s \in SignalIds :
  prober.batch[a][s] # Unobserved => Found(prober.events, a, s, prober.batch[a][s].value)

ProducersInv ==
  /\ known \subseteq AgentIds
  /\ site \in [AgentIds -> SiteStates] /\ \A a \in AgentIds : site[a] \in Sites[a]
  /\ prober \in Probers /\ hydrator \in Hydrators
  /\ IsMatrix(latest) /\ IsMatrix(prober.batch)
  /\ AllGood(latest)
  /\ BatchFound
  /\ prober.todo \subseteq Listed(prober.events) /\ IsFiniteSet(Listed(prober.events))
  /\ hydrator.files \in FixtureSets \cup {{}}
  /\ hydrator.phase = "observations" => Listed(hydrator.events) \subseteq known

\* What is found is honest, and invalid for a malformed seal alone.
LEMMA FoundGood ==
  ASSUME NEW events \in Events, NEW a \in AgentIds, NEW s, NEW v, Found(events, a, s, v)
  PROVE  /\ v \in Shape(s) /\ (s \in Drifts => Honest(v))
         /\ (s \in Drifts => WellSealed(events[a], s)) => Validate(s, v)
<1>1. s \in Probed /\ events[a] \in Attestations
  BY DEF Found, Listed, Events
<1>2. PICK host \in SiteStates : v = Probe(events[a], host)[s]
  BY DEF Found
<1>. QED
  BY <1>1, <1>2, ProbeGood

\* Each cell of what the hydrator sends stems from a fixture.
LEMMA HydratedGood ==
  ASSUME ProducersInv
  PROVE  /\ IsMatrix(Hydrated)
         /\ \A a \in AgentIds, s \in SignalIds : Hydrated[a][s] # Unobserved =>
              \E f \in hydrator.files :
                /\ f.agent = a /\ f.signal = s
                /\ Hydrated[a][s] = Projected(hydrator.events, f)
<1>. DEFINE h == Hydrated
<1>1. DOMAIN h = AgentIds /\ \A a \in AgentIds : DOMAIN h[a] = SignalIds
  BY DEF Hydrated
<1>2. ASSUME NEW a \in AgentIds, NEW s \in SignalIds, h[a][s] # Unobserved
      PROVE  /\ \E f \in hydrator.files :
                  f.agent = a /\ f.signal = s /\ h[a][s] = Projected(hydrator.events, f)
             /\ h[a][s] \in [age : Ages, value : Shape(s)]
  <2>. DEFINE Chosen(f) == f \in hydrator.files /\ f.agent = a /\ f.signal = s
              g == CHOOSE f \in hydrator.files : f.agent = a /\ f.signal = s
  <2>1. h[a][s] = IF \E f \in hydrator.files : f.agent = a /\ f.signal = s
                  THEN Projected(hydrator.events, g) ELSE Unobserved
    BY Zenon DEF Hydrated
  <2>2. \E f \in hydrator.files : f.agent = a /\ f.signal = s
    BY <1>2, <2>1
  <2>3. Chosen(g)
    BY <2>2
  <2>4. h[a][s] = Projected(hydrator.events, g)
    BY <2>1, <2>2
  <2>. HIDE DEF g, h
  <2>5. hydrator.events \in Events /\ hydrator.files \in FixtureSets
    BY <2>3 DEF ProducersInv, Hydrators
  <2>6. Projected(hydrator.events, g) \in [age : Ages, value : Shape(g.signal)]
    BY <2>3, <2>5, ProjectedGood
  <2>. QED
    BY <2>3, <2>4, <2>6
<1>. HIDE DEF h
<1>3. IsMatrix(h)
  BY <1>1, <1>2 DEF IsMatrix
<1>. QED
  BY <1>2, <1>3 DEF h

(***************************************************************************)
(* The steps.                                                              *)
(***************************************************************************)

LEMMA InitProduces == Init => ProducersInv
<1>. SUFFICES ASSUME Init PROVE ProducersInv
  OBVIOUS
<1>1. NoEvents \in Events /\ Listed(NoEvents) = {}
  BY DEF NoEvents, Events, Listed
<1>2. /\ prober \in Probers /\ prober.todo = {} /\ prober.batch = Nothing
      /\ IsFiniteSet(Listed(prober.events))
  BY <1>1, FS_EmptySet DEF Init, ProberOff, Probers
<1>3. hydrator \in Hydrators /\ hydrator.files = {} /\ hydrator.phase = "off"
  BY <1>1 DEF Init, HydratorOff, Hydrators
<1>4. site \in [AgentIds -> SiteStates] /\ \A a \in AgentIds : site[a] \in Sites[a]
  <2>1. site \in [AgentIds -> UNION {Sites[a] : a \in AgentIds}]
        /\ \A a \in AgentIds : site[a] \in Sites[a]
    BY DEF Init
  <2>. QED
    BY <2>1, ProducerConstants
<1>5. AllGood(latest) /\ BatchFound /\ latest = Nothing
  BY <1>2, NothingIsThere DEF Init, AllGood, BatchFound
<1>. QED
  BY <1>2, <1>3, <1>4, <1>5, NothingIsThere DEF Init, ProducersInv

\* The prober goes on, its batch dropped or kept.
LEMMA ProberMoves ==
  ASSUME ProducersInv, UNCHANGED <<known, site, hydrator>>, prober' \in Probers',
         IsMatrix(prober.batch)', IsMatrix(latest)', AllGood(latest)', BatchFound',
         prober'.todo \subseteq Listed(prober'.events), IsFiniteSet(Listed(prober'.events))
  PROVE  ProducersInv'
  BY DEF ProducersInv, Hydrators

LEMMA EndsPass ==
  ASSUME ProducersInv, UNCHANGED <<known, site, hydrator>>,
         NEW phase \in {"wait", "lost"}, prober.phase = "post", EndPass(phase),
         IsMatrix(latest)', AllGood(latest)'
  PROVE  ProducersInv'
<1>1. /\ prober \in Probers /\ prober.todo \subseteq Listed(prober.events)
      /\ IsFiniteSet(Listed(prober.events))
  BY DEF ProducersInv
<1>2. /\ prober'.phase = phase /\ prober'.batch = Nothing /\ prober'.events = prober.events
      /\ prober'.todo = prober.todo /\ prober' \in Probers'
  BY <1>1 DEF EndPass, Probers
<1>3. IsMatrix(prober.batch)' /\ BatchFound'
  BY <1>2, NothingIsThere DEF BatchFound, IsMatrix
<1>. QED
  BY <1>1, <1>2, <1>3, ProberMoves

\* A batch of a pass that is accepted is good.
LEMMA AcceptedPassGood ==
  ASSUME ProducersInv, Acceptable(prober.batch)
  PROVE  AllGood(prober.batch)
<1>1. ASSUME NEW a \in AgentIds, NEW s \in SignalIds, prober.batch[a][s] # Unobserved
      PROVE  Good(s, prober.batch[a][s].value)
  <2>1. Found(prober.events, a, s, prober.batch[a][s].value) /\ prober.events \in Events
    BY <1>1 DEF ProducersInv, BatchFound, Probers
  <2>2. Validate(s, prober.batch[a][s].value)
    BY <1>1 DEF Acceptable
  <2>. QED
    BY <2>1, <2>2, FoundGood DEF Good
<1>. QED
  BY <1>1 DEF AllGood

LEMMA StartProberKeeps ==
  ASSUME ProducersInv, StartProber PROVE ProducersInv'
<1>1. PICK events \in EventSets :
        prober' = [ProberOff EXCEPT !.phase = "wait", !.events = events]
  BY DEF StartProber
<1>2. /\ prober'.batch = Nothing /\ prober'.todo = {} /\ prober' \in Probers'
      /\ prober'.events = events
  BY <1>1, ProducerConstants DEF ProberOff, Probers
<1>3. IsFiniteSet(Listed(prober'.events))
  BY <1>2, ProducerConstants DEF Listed
<1>4. IsMatrix(prober.batch)' /\ BatchFound'
  BY <1>2, NothingIsThere DEF BatchFound, IsMatrix
<1>. QED
  BY <1>2, <1>3, <1>4, ProberMoves DEF StartProber, ProducersInv, IsMatrix, AllGood

LEMMA BeginPassKeeps ==
  ASSUME ProducersInv, BeginPass PROVE ProducersInv'
<1>1. prober \in Probers
  BY DEF ProducersInv
<1>2. /\ prober'.batch = prober.batch /\ prober'.todo = Listed(prober.events)
      /\ prober'.events = prober.events /\ prober' \in Probers'
  BY <1>1 DEF BeginPass, Probers, Listed
<1>. QED
  BY <1>2, ProberMoves DEF BeginPass, ProducersInv, IsMatrix, AllGood, BatchFound

LEMMA ProbeAgentKeeps ==
  ASSUME ProducersInv, NEW a \in AgentIds, ProbeAgent(a) PROVE ProducersInv'
<1>. DEFINE found == Probe(prober.events[a], site[a])
            row == [s \in SignalIds |->
                      IF s \in Probed THEN Reading(Stamp, found[s]) ELSE Unobserved]
<1>1. /\ prober \in Probers /\ a \in Listed(prober.events) /\ site[a] \in SiteStates
      /\ prober.todo \subseteq Listed(prober.events) /\ IsMatrix(prober.batch) /\ BatchFound
      /\ prober.events[a] \in Attestations
  BY DEF ProbeAgent, ProducersInv, Listed, Probers, Events
<1>2. PICK phase \in {"post", "probe"} :
        prober' = [prober EXCEPT !.phase = phase, !.todo = @ \ {a}, !.batch[a] = row]
  BY DEF ProbeAgent, ProbedRow
<1>3. /\ prober'.batch = [prober.batch EXCEPT ![a] = row] /\ prober'.events = prober.events
      /\ prober'.todo = prober.todo \ {a} /\ prober' \in Probers'
  <2>. HIDE DEF row
  <2>. QED
    BY <1>1, <1>2 DEF Probers
<1>4. \A s \in SignalIds : row[s] # Unobserved =>
        /\ s \in Probed /\ row[s].value = found[s]
        /\ row[s] \in [age : Ages, value : Shape(s)]
  <2>. SUFFICES ASSUME NEW s \in SignalIds, row[s] # Unobserved
                PROVE  /\ s \in Probed /\ row[s].value = found[s]
                       /\ row[s] \in [age : Ages, value : Shape(s)]
    OBVIOUS
  <2>1. s \in Probed /\ row[s] = [age |-> Stamp, value |-> found[s]]
    BY DEF Reading
  <2>2. Stamp \in Ages
    BY ProducerConstants DEF Stamp, Ages
  <2>3. found[s] \in Shape(s)
    BY <1>1, <2>1, ProbeGood
  <2>. HIDE DEF row, found
  <2>. QED
    BY <2>1, <2>2, <2>3
<1>5. DOMAIN row = SignalIds
  OBVIOUS
<1>6. \A b \in AgentIds : prober'.batch[b] = IF b = a THEN row ELSE prober.batch[b]
  BY <1>1, <1>3 DEF IsMatrix
<1>7. PICK host \in SiteStates : found = Probe(prober.events[a], host)
  BY <1>1
<1>. HIDE DEF row, found
<1>8. IsMatrix(prober.batch)'
  BY <1>1, <1>3, <1>4, <1>5, <1>6 DEF IsMatrix
<1>9. BatchFound'
  <2>. SUFFICES ASSUME NEW b \in AgentIds, NEW s \in SignalIds,
                       prober'.batch[b][s] # Unobserved
                PROVE  Found(prober.events, b, s, prober'.batch[b][s].value)
    BY <1>3 DEF BatchFound
  <2>1. CASE b = a
    BY <1>1, <1>4, <1>6, <1>7, <2>1 DEF Found
  <2>2. CASE b # a
    BY <1>1, <1>6, <2>2 DEF BatchFound
  <2>. QED
    BY <2>1, <2>2
<1>. QED
  BY <1>1, <1>3, <1>8, <1>9, ProberMoves DEF ProbeAgent, ProducersInv, IsMatrix, AllGood

LEMMA PassKeeps ==
  ASSUME ProducersInv, PassAccepted \/ PassRefused \/ PassLost PROVE ProducersInv'
<1>1. CASE PassAccepted
  <2>1. AllGood(prober.batch)
    BY <1>1, AcceptedPassGood DEF PassAccepted
  <2>2. IsMatrix(latest)' /\ AllGood(latest)'
    BY <1>1, <2>1, ImportKeeps DEF PassAccepted, ProducersInv
  <2>. QED
    BY <1>1, <2>2, EndsPass DEF PassAccepted
<1>2. CASE PassRefused \/ PassLost
  <2>1. IsMatrix(latest)' /\ AllGood(latest)'
    BY <1>2 DEF PassRefused, PassLost, ProducersInv, IsMatrix, AllGood
  <2>. QED
    BY <1>2, <2>1, EndsPass DEF PassRefused, PassLost
<1>. QED
  BY <1>1, <1>2

LEMMA StopProberKeeps ==
  ASSUME ProducersInv, StopProber PROVE ProducersInv'
<1>1. NoEvents \in Events
  BY DEF NoEvents, Events
<1>2. /\ prober'.batch = Nothing /\ prober'.todo = {} /\ prober' \in Probers'
      /\ prober'.events = NoEvents
  BY <1>1 DEF StopProber, ProberOff, Probers
<1>3. IsFiniteSet(Listed(prober'.events))
  <2>1. Listed(prober'.events) = {}
    BY <1>2 DEF Listed, NoEvents
  <2>. QED
    BY <2>1, FS_EmptySet
<1>4. IsMatrix(prober.batch)' /\ BatchFound'
  BY <1>2, NothingIsThere DEF BatchFound, IsMatrix
<1>. QED
  BY <1>2, <1>3, <1>4, ProberMoves DEF StopProber, ProducersInv, IsMatrix, AllGood

\* The hydrator goes on, and what the server knows and reads is as good as it was.
LEMMA HydratorMoves ==
  ASSUME ProducersInv, UNCHANGED <<site, prober>>, hydrator' \in Hydrators,
         known \subseteq known', known' \subseteq AgentIds,
         IsMatrix(latest)', AllGood(latest)',
         hydrator'.files \in FixtureSets \cup {{}},
         hydrator'.phase = "observations" => Listed(hydrator'.events) \subseteq known'
  PROVE  ProducersInv'
  BY DEF ProducersInv, Hydrators, Probers, IsMatrix, BatchFound

LEMMA HydratorEnds == HydratorOff \in Hydrators /\ HydratorOff.phase = "off"
                      /\ HydratorOff.files = {}
<1>1. NoEvents \in Events
  BY DEF NoEvents, Events
<1>. QED
  BY <1>1 DEF HydratorOff, Hydrators

LEMMA HydratorKeeps ==
  ASSUME ProducersInv, StartHydrator \/ AgentsAccepted \/ AgentsFail \/ ObservationsFail
  PROVE  ProducersInv'
<1>1. /\ latest' = latest /\ UNCHANGED <<site, prober>>
      /\ known \subseteq known' /\ known' \subseteq AgentIds
  BY DEF ProducersInv, StartHydrator, AgentsAccepted, AgentsFail, ObservationsFail, Listed
<1>2. IsMatrix(latest)' /\ AllGood(latest)'
  BY <1>1 DEF ProducersInv, IsMatrix, AllGood
<1>3. CASE hydrator' = HydratorOff
  BY <1>1, <1>2, <1>3, HydratorEnds, HydratorMoves
<1>4. CASE StartHydrator
  <2>1. PICK events \in EventSets, files \in FixtureSets \cup {{}} :
          hydrator' = [phase |-> "agents", events |-> events, files |-> files]
    BY <1>4 DEF StartHydrator
  <2>2. files \in SUBSET Entries /\ events \in Events
    BY ProducerConstants
  <2>3. hydrator' \in Hydrators /\ hydrator'.phase = "agents" /\ hydrator'.files = files
    BY <2>1, <2>2 DEF Hydrators
  <2>. QED
    BY <1>1, <1>2, <2>3, HydratorMoves
<1>5. CASE AgentsAccepted /\ hydrator' # HydratorOff
  <2>1. hydrator \in Hydrators /\ hydrator.files \in FixtureSets \cup {{}}
    BY DEF ProducersInv
  <2>2. /\ hydrator' = [hydrator EXCEPT !.phase = "observations"]
        /\ known' = known \cup Listed(hydrator.events)
    BY <1>5 DEF AgentsAccepted
  <2>3. /\ hydrator' \in Hydrators /\ hydrator'.files = hydrator.files
        /\ hydrator'.events = hydrator.events
    BY <2>1, <2>2 DEF Hydrators
  <2>. QED
    BY <1>1, <1>2, <2>1, <2>2, <2>3, HydratorMoves
<1>. QED
  BY <1>3, <1>4, <1>5 DEF AgentsFail, ObservationsFail

LEMMA ObservationsKeep ==
  ASSUME ProducersInv, ObservationsAccepted PROVE ProducersInv'
<1>1. ASSUME NEW a \in AgentIds, NEW s \in SignalIds, Hydrated[a][s] # Unobserved
      PROVE  Good(s, Hydrated[a][s].value)
  <2>1. PICK f \in hydrator.files :
          f.agent = a /\ f.signal = s /\ Hydrated[a][s] = Projected(hydrator.events, f)
    BY <1>1, HydratedGood
  <2>2. hydrator.events \in Events /\ hydrator.files \in FixtureSets
    BY <2>1 DEF ProducersInv, Hydrators
  <2>3. /\ Projected(hydrator.events, f) \in [age : Ages, value : Shape(f.signal)]
        /\ f.signal \in Drifts => Honest(Projected(hydrator.events, f).value)
    BY <2>1, <2>2, ProjectedGood
  <2>4. Validate(s, Hydrated[a][s].value)
    BY <1>1 DEF ObservationsAccepted, Acceptable
  <2>5. Hydrated[a][s].value \in Shape(s) /\ (s \in Drifts => Honest(Hydrated[a][s].value))
    BY <2>1, <2>3
  <2>. QED
    BY <2>4, <2>5 DEF Good
<1>2. IsMatrix(latest)' /\ AllGood(latest)'
  <2>1. IsMatrix(Hydrated) /\ AllGood(Hydrated)
    BY <1>1, HydratedGood DEF AllGood
  <2>. QED
    BY <2>1, ImportKeeps DEF ObservationsAccepted, ProducersInv
<1>. QED
  BY <1>2, HydratorEnds, HydratorMoves DEF ObservationsAccepted, ProducersInv

\* A provider's batch holds one score.
LEMMA ProvidedIsMatrix ==
  ASSUME NEW p \in ProviderScores
  PROVE  IsMatrix([Nothing EXCEPT ![p[1]][p[2]] = Reading(0, p[3])])
<1>. DEFINE batch == [Nothing EXCEPT ![p[1]][p[2]] = Reading(0, p[3])]
<1>1. p[1] \in AgentIds /\ p[2] \in DOMAIN Containers /\ p[2] \in SignalIds /\ p[3] \in Scores
  BY ProducerConstants DEF SignalIds
<1>3. \A a \in AgentIds, s \in SignalIds :
        batch[a][s] = IF a = p[1] /\ s = p[2] THEN Reading(0, p[3]) ELSE Unobserved
  BY <1>1 DEF Nothing
<1>4. DOMAIN batch = AgentIds /\ \A a \in AgentIds : DOMAIN batch[a] = SignalIds
  BY <1>1 DEF Nothing
<1>5. Shape(p[2]) = Scores
  BY <1>1, ShapeOf
<1>6. Reading(0, p[3]) \in [age : Ages, value : Shape(p[2])]
  BY <1>1, <1>5, ProducerConstants DEF Reading, Ages
<1>. HIDE DEF batch
<1>7. IsMatrix(batch)
  BY <1>3, <1>4, <1>6 DEF IsMatrix
<1>. QED
  BY <1>7 DEF batch

LEMMA ProvideKeeps ==
  ASSUME ProducersInv, NEW p \in ProviderScores, Provide(p[1], p[2], p[3]) PROVE ProducersInv'
<1>. DEFINE batch == [Nothing EXCEPT ![p[1]][p[2]] = Reading(0, p[3])]
<1>1. p[1] \in AgentIds /\ p[2] \in DOMAIN Containers /\ p[2] \in SignalIds /\ p[3] \in Scores
  BY ProducerConstants DEF SignalIds
<1>2. Acceptable(batch) /\ Import(batch)
  BY DEF Provide
<1>3. \A a \in AgentIds, s \in SignalIds :
        batch[a][s] = IF a = p[1] /\ s = p[2] THEN Reading(0, p[3]) ELSE Unobserved
  BY <1>1 DEF Nothing
<1>5. Shape(p[2]) = Scores /\ p[2] \notin Drifts
  BY <1>1, ShapeOf, IdsAreSeparate
<1>6. Reading(0, p[3]).value = p[3]
  BY DEF Reading
<1>7. IsMatrix(batch)
  BY ProvidedIsMatrix
<1>. HIDE DEF batch
<1>8. AllGood(batch)
  <2>. SUFFICES ASSUME NEW a \in AgentIds, NEW s \in SignalIds, batch[a][s] # Unobserved
                PROVE  Good(s, batch[a][s].value)
    BY DEF AllGood
  <2>1. s = p[2] /\ batch[a][s].value = p[3] /\ Validate(s, batch[a][s].value)
    BY <1>2, <1>3, <1>6 DEF Acceptable
  <2>. QED
    BY <1>1, <1>5, <2>1 DEF Good
<1>9. IsMatrix(latest)' /\ AllGood(latest)'
  BY <1>2, <1>7, <1>8, ImportKeeps DEF ProducersInv
<1>. QED
  BY <1>9 DEF Provide, ProducersInv, Hydrators, Probers, IsMatrix, BatchFound

LEMMA WorldKeeps ==
  ASSUME ProducersInv, Tick \/ \E a \in AgentIds : Move(a) PROVE ProducersInv'
<1>1. CASE Tick
  <2>1. /\ IsMatrix(Older(latest)) /\ AllGood(Older(latest)) /\ latest' = Older(latest)
    BY <1>1, OlderKeeps DEF Tick, ProducersInv, AllGood
  <2>2. prober \in Probers
    BY DEF ProducersInv
  <2>3. /\ prober'.batch = Older(prober.batch) /\ prober'.events = prober.events
        /\ prober'.todo = prober.todo /\ prober' \in Probers'
    BY <1>1, <2>2 DEF Tick, Probers
  <2>4. IsMatrix(prober.batch)'
    BY <2>3, OlderKeeps DEF ProducersInv, IsMatrix
  <2>5. BatchFound'
    BY <2>3, OlderKeeps DEF ProducersInv, BatchFound
  <2>6. IsMatrix(latest)' /\ AllGood(latest)'
    BY <2>1 DEF IsMatrix, AllGood
  <2>. QED
    BY <1>1, <2>3, <2>4, <2>5, <2>6, ProberMoves DEF Tick, ProducersInv
<1>2. ASSUME NEW a \in AgentIds, Move(a) PROVE ProducersInv'
  <2>0. /\ site \in [AgentIds -> SiteStates] /\ Sites[a] \subseteq SiteStates
        /\ \A b \in AgentIds : site[b] \in Sites[b]
    BY ProducerConstants DEF ProducersInv
  <2>1. site' \in [AgentIds -> SiteStates] /\ \A b \in AgentIds : site'[b] \in Sites[b]
    BY <1>2, <2>0 DEF Move
  <2>. QED
    BY <1>2, <2>1 DEF Move, ProducersInv, Hydrators, Probers, IsMatrix, AllGood, BatchFound
<1>. QED
  BY <1>1, <1>2

LEMMA NextProduces == ProducersInv /\ [Next]_vars => ProducersInv'
<1>. SUFFICES ASSUME ProducersInv, [Next]_vars PROVE ProducersInv'
  OBVIOUS
<1>1. CASE UNCHANGED vars
  BY <1>1 DEF vars, ProducersInv, Hydrators, Probers, IsMatrix, AllGood, BatchFound
<1>2. CASE Next
  BY <1>2, StartProberKeeps, BeginPassKeeps, ProbeAgentKeeps, PassKeeps, StopProberKeeps,
     HydratorKeeps, ObservationsKeep, ProvideKeeps, WorldKeeps DEF Next
<1>. QED
  BY <1>1, <1>2

(***************************************************************************)
(* The theorems.                                                           *)
(***************************************************************************)

\* ProducersInv holds throughout: everything under way or stored is what a probe
\* or a fixture gave, and the agents of the observations to come are there.
THEOREM ProducersInductive == Spec => []ProducersInv
<1>. QED
  BY InitProduces, NextProduces, PTL DEF Spec

\* Accepted readings are in the band.
LEMMA InvIsTyped == ProducersInv => ProducersTypeOK
<1>. SUFFICES ASSUME ProducersInv, NEW a \in AgentIds, NEW s \in SignalIds,
                     latest[a][s] # Unobserved
              PROVE  InBand(s, Evaluate(s, latest[a][s].value))
  BY DEF ProducersInv, ProducersTypeOK
<1>1. latest[a][s].value \in Shape(s) /\ Validate(s, latest[a][s].value)
  BY DEF ProducersInv, AllGood, Good
<1>. QED
  BY <1>1, AcceptedInBand, ShapeOf

\* Whatever producers and providers send, what the server reads is of its
\* signal's shape and answered in the band, in the signal's dimension.
THEOREM ProducersType == Spec => []ProducersTypeOK
<1>. QED
  BY InvIsTyped, ProducersInductive, PTL

\* No producer of this repository gets a drift score or a drift code stored that
\* its own two sides do not bear out.
THEOREM Honesty == Spec => []VerdictsAreHonest
<1>1. ProducersInv => VerdictsAreHonest
  <2>. SUFFICES ASSUME ProducersInv, NEW a \in AgentIds, NEW s \in Drifts,
                       latest[a][s] # Unobserved
                PROVE  LET v == latest[a][s].value
                           answer == Evaluate(s, v)
                       IN  /\ answer.raw = 100 <=> v.expected # Absent /\ v.observed = v.expected
                           /\ answer.risks # {} <=> v.expected # Absent /\ v.observed # v.expected
    BY DEF VerdictsAreHonest
  <2>. DEFINE v == latest[a][s].value
  <2>1. Honest(v) /\ v \in Verdicts(Strings) /\ v # Unobserved
    <3>1. s \in SignalIds
      BY DEF SignalIds
    <3>2. Good(s, v)
      BY <3>1 DEF ProducersInv, AllGood
    <3>3. v \in Verdicts(Strings)
      BY <3>2, ShapeOf DEF Good
    <3>. HIDE DEF v
    <3>. QED
      BY <3>2, <3>3, ProducerConstants DEF Good
  <2>2. Evaluate(s, v) = DriftAnswer(s, v)
    BY IdsAreSeparate DEF Evaluate
  <2>3. CASE v.expected = Absent
    <3>1. Evaluate(s, v) = [raw |-> 0, risks |-> {}]
      BY <2>2, <2>3 DEF DriftAnswer, Answer
    <3>. QED
      BY <2>3, <3>1
  <2>4. CASE v.expected # Absent /\ v.observed = v.expected
    <3>1. Evaluate(s, v) = [raw |-> 100, risks |-> {}]
      BY Zenon, <2>1, <2>2, <2>4 DEF DriftAnswer, Answer, Honest
    <3>. QED
      BY <2>4, <3>1
  <2>5. CASE v.expected # Absent /\ v.observed # v.expected
    <3>1. Evaluate(s, v) = [raw |-> 0, risks |-> {<<"integrity", s>>}]
      BY Zenon, <2>1, <2>2, <2>5 DEF DriftAnswer, Answer, Honest
    <3>2. <<"integrity", s>> \in Evaluate(s, v).risks /\ Evaluate(s, v).raw = 0
      BY <3>1
    <3>. QED
      BY <2>5, <3>2
  <2>. QED
    BY <2>3, <2>4, <2>5
<1>. QED
  BY <1>1, ProducersInductive, PTL

(***************************************************************************)
(* Sizes.                                                                  *)
(***************************************************************************)

ShortVerdict(v) == ~Long(v.expected) /\ ~Long(v.observed)

DriftRows(batch) == {p \in Rows(batch) : p[2] \in Drifts}

LEMMA SizeTypes ==
  /\ {VerdictBytes, RowBytes, MaxValue, MaxBody, ShortBytes} \subseteq Nat
  /\ \A t \in Strings : Bytes[t] \in Nat
  /\ \A t \in Fingerprints \cup {Absent} : ~Long(t)
  /\ ShortRow \in Nat
<1>1. /\ VerdictBytes \in Nat /\ RowBytes \in Nat /\ MaxValue \in Nat
      /\ MaxBody \in Nat /\ ShortBytes \in Nat
  BY SizeConstants
<1>2. \A t \in Strings : Bytes[t] \in Nat
  BY SizeConstants
<1>3. Fingerprints \cup {Absent} \subseteq Strings
  BY ProducerConstants
<1>4. \A t \in Fingerprints \cup {Absent} : ~Long(t)
  BY <1>1, <1>2, <1>3, SizeConstants DEF Long
<1>. QED
  BY <1>1, <1>2, <1>4 DEF ShortRow

\* A batch whose verdicts have short sides is refused for the number of its rows
\* alone.
LEMMA ShortBatch ==
  ASSUME NEW batch, IsMatrix(batch), IsFiniteSet(Rows(batch)),
         \A p \in DriftRows(batch) : ShortVerdict(batch[p[1]][p[2]].value)
  PROVE  /\ \A p \in DriftRows(batch) : VerdictSize(batch[p[1]][p[2]].value) <= MaxValue
         /\ BodySize(batch) \in Nat
         /\ BodySize(batch) <= RowBytes * Cardinality(Rows(batch))
              + (VerdictBytes + 2 * ShortBytes) * Cardinality(DriftRows(batch))
<1>. DEFINE S == Rows(batch)
            D == DriftRows(batch)
            b == VerdictBytes + 2 * ShortBytes
            terms == [p \in S |-> RowSize(p[2], batch[p[1]][p[2]].value)]
<1>1. /\ VerdictBytes \in Nat /\ RowBytes \in Nat /\ MaxValue \in Nat /\ ShortBytes \in Nat
      /\ b \in Nat /\ b <= MaxValue
  BY SizeTypes, SizeConstants
<1>2. ASSUME NEW p \in D
      PROVE  VerdictSize(batch[p[1]][p[2]].value) \in Nat /\ VerdictSize(batch[p[1]][p[2]].value) <= b
  <2>. DEFINE v == batch[p[1]][p[2]].value
  <2>1. /\ p[1] \in AgentIds /\ p[2] \in Drifts /\ p[2] \in SignalIds
        /\ batch[p[1]][p[2]] # Unobserved
    BY DEF DriftRows, Rows
  <2>2. v \in Verdicts(Strings)
    BY <2>1, ShapeOf DEF IsMatrix
  <2>3. ShortVerdict(v)
    OBVIOUS
  <2>. HIDE DEF v
  <2>4. Bytes[v.expected] \in Nat /\ Bytes[v.observed] \in Nat
    BY <2>2, SizeTypes DEF Verdicts
  <2>5. Bytes[v.expected] <= ShortBytes /\ Bytes[v.observed] <= ShortBytes
    BY <1>1, <2>3, <2>4 DEF ShortVerdict, Long
  <2>6. VerdictSize(v) \in Nat /\ VerdictSize(v) <= b
    BY <1>1, <2>4, <2>5 DEF VerdictSize
  <2>. QED
    BY <2>6 DEF v
<1>3. \A p \in D : VerdictSize(batch[p[1]][p[2]].value) <= MaxValue
  <2>. HIDE DEF b
  <2>. QED
    BY <1>1, <1>2
<1>4. ASSUME NEW p \in S
      PROVE  terms[p] \in Nat /\ terms[p] <= RowBytes + (IF p \in D THEN b ELSE 0)
  <2>1. terms[p] = RowSize(p[2], batch[p[1]][p[2]].value)
    OBVIOUS
  <2>2. p \in D <=> p[2] \in Drifts
    BY DEF DriftRows
  <2>. HIDE DEF b, terms, D
  <2>. QED
    BY <1>1, <1>2, <2>1, <2>2 DEF RowSize
<1>5. terms \in [S -> Nat] /\ BodySize(batch) = SumFunction(terms)
  BY <1>4 DEF BodySize
<1>6. S \cap D = D
  BY DEF DriftRows
<1>. HIDE DEF S, D, b, terms
<1>7. /\ SumFunction(terms) \in Nat
      /\ SumFunction(terms) <= RowBytes * Cardinality(S) + b * Cardinality(S \cap D)
  BY <1>1, <1>4, <1>5, SumByCount DEF S
<1>. QED
  BY <1>3, <1>5, <1>6, <1>7 DEF S, D, b

\* The rows of a pass are five for each listed agent, three of them verdicts.
LEMMA PassRows ==
  ASSUME ProducersInv
  PROVE  /\ IsFiniteSet(Rows(prober.batch)) /\ IsFiniteSet(Listed(prober.events))
         /\ Cardinality(Rows(prober.batch)) \in Nat
         /\ Cardinality(DriftRows(prober.batch)) \in Nat
         /\ Cardinality(Listed(prober.events)) \in Nat
         /\ Cardinality(Rows(prober.batch)) <= Cardinality(Listed(prober.events)) * 5
         /\ Cardinality(DriftRows(prober.batch)) <= Cardinality(Listed(prober.events)) * 3
<1>. DEFINE L == Listed(prober.events)
            three == {"certfingerprint.server", "dnsrecord.ans", "dnsrecord.ans-badge"}
<1>1. IsFiniteSet(L)
  BY DEF ProducersInv
<1>2. IsFiniteSet(three) /\ Cardinality(three) = 3
  <2>1. IsFiniteSet({}) /\ Cardinality({}) = 0
    BY FS_EmptySet
  <2>. DEFINE one == {} \cup {"certfingerprint.server"}
              two == one \cup {"dnsrecord.ans"}
  <2>2. IsFiniteSet(one) /\ Cardinality(one) = 1
    BY <2>1, FS_AddElement
  <2>3. IsFiniteSet(two) /\ Cardinality(two) = 2
    <3>1. "dnsrecord.ans" \notin one
      OBVIOUS
    <3>. HIDE DEF one
    <3>. QED
      BY <2>2, <3>1, FS_AddElement
  <2>4. "dnsrecord.ans-badge" \notin two /\ three = two \cup {"dnsrecord.ans-badge"}
    OBVIOUS
  <2>. HIDE DEF two, three
  <2>. QED
    BY <2>3, <2>4, FS_AddElement
<1>3. IsFiniteSet(Probed) /\ Cardinality(Probed) = 5
  <2>. DEFINE four == three \cup {"certtype"}
  <2>1. IsFiniteSet(four) /\ Cardinality(four) = 4
    <3>1. "certtype" \notin three
      OBVIOUS
    <3>. HIDE DEF three
    <3>. QED
      BY <1>2, <3>1, FS_AddElement
  <2>2. "dnssecurity" \notin four /\ Probed = four \cup {"dnssecurity"}
    BY DEF Probed
  <2>. HIDE DEF four
  <2>. QED
    BY <2>1, <2>2, FS_AddElement
<1>4. \A p \in Rows(prober.batch) : p \in AgentIds \X SignalIds /\ p[1] \in L /\ p[2] \in Probed
  BY DEF ProducersInv, BatchFound, Found, Rows
<1>5. Rows(prober.batch) \subseteq L \X Probed
  BY <1>4
<1>6. DriftRows(prober.batch) \subseteq L \X three
  BY <1>4, ProbedSignals DEF DriftRows
<1>. HIDE DEF L, three
<1>7. /\ IsFiniteSet(L \X Probed) /\ Cardinality(L \X Probed) = Cardinality(L) * 5
  BY <1>1, <1>3, FS_Product
<1>8. /\ IsFiniteSet(L \X three) /\ Cardinality(L \X three) = Cardinality(L) * 3
  BY <1>1, <1>2, FS_Product
<1>9. IsFiniteSet(Rows(prober.batch)) /\ Cardinality(Rows(prober.batch)) <= Cardinality(L) * 5
  <2>1. Rows(prober.batch) \in SUBSET (L \X Probed)
    BY <1>5
  <2>. QED
    BY <1>7, <2>1, FS_Subset
<1>10. /\ IsFiniteSet(DriftRows(prober.batch))
       /\ Cardinality(DriftRows(prober.batch)) <= Cardinality(L) * 3
  <2>1. DriftRows(prober.batch) \in SUBSET (L \X three)
    BY <1>6
  <2>. QED
    BY <1>8, <2>1, FS_Subset
<1>. QED
  BY <1>1, <1>9, <1>10, FS_CardinalityType DEF L

\* The hydrator sends no more rows than it has fixtures.
LEMMA HydratedRows ==
  ASSUME ProducersInv
  PROVE  /\ IsFiniteSet(Rows(Hydrated))
         /\ Cardinality(Rows(Hydrated)) \in Nat /\ Cardinality(hydrator.files) \in Nat
         /\ Cardinality(DriftRows(Hydrated)) \in Nat
         /\ Cardinality(Rows(Hydrated)) <= Cardinality(hydrator.files)
         /\ Cardinality(DriftRows(Hydrated)) <= Cardinality(hydrator.files)
<1>. DEFINE S == Rows(Hydrated)
            Of(p) == CHOOSE f \in hydrator.files : f.agent = p[1] /\ f.signal = p[2]
            inj == [p \in S |-> Of(p)]
<1>1. IsFiniteSet(hydrator.files)
  BY ProducerConstants, FS_EmptySet DEF ProducersInv
<1>2. ASSUME NEW p \in S
      PROVE  Of(p) \in hydrator.files /\ Of(p).agent = p[1] /\ Of(p).signal = p[2]
  <2>1. \E f \in hydrator.files : f.agent = p[1] /\ f.signal = p[2]
    BY HydratedGood DEF Rows
  <2>. QED
    BY <2>1
<1>3. \A p, q \in S : (p[1] = q[1] /\ p[2] = q[2]) => p = q
  BY DEF Rows
<1>. HIDE DEF Of, S
<1>4. inj \in [S -> hydrator.files] /\ \A p, q \in S : inj[p] = inj[q] => p = q
  BY <1>2, <1>3
<1>5. inj \in Injection(S, hydrator.files)
  <2>. HIDE DEF inj
  <2>. QED
    BY <1>4 DEF Injection, IsInjective
<1>. HIDE DEF inj
<1>6. IsFiniteSet(S) /\ Cardinality(S) <= Cardinality(hydrator.files)
  BY <1>1, <1>5, FS_Injection
<1>7. DriftRows(Hydrated) \in SUBSET S
  BY DEF DriftRows, S
<1>8. IsFiniteSet(DriftRows(Hydrated)) /\ Cardinality(DriftRows(Hydrated)) <= Cardinality(S)
  BY <1>6, <1>7, FS_Subset
<1>9. /\ Cardinality(S) \in Nat /\ Cardinality(DriftRows(Hydrated)) \in Nat
      /\ Cardinality(hydrator.files) \in Nat
  BY <1>1, <1>6, <1>8, FS_CardinalityType
<1>. QED
  BY <1>6, <1>8, <1>9 DEF S

\* A fingerprint of a well-formed seal and that of a certificate are short.
LEMMA FoundShort ==
  ASSUME NEW events \in Events, NEW a \in AgentIds, NEW s \in FingerprintDrifts, NEW v,
         Found(events, a, s, v), WellSealed(events[a], s)
  PROVE  ShortVerdict(v)
<1>1. s = "certfingerprint.server"
  BY ProbedSignals DEF Found, Probed, FingerprintDrifts
<1>2. PICK host \in SiteStates : v = Probe(events[a], host)[s]
  BY DEF Found
<1>3. v = LiveVerdict(events[a][s], host.cert)
  BY <1>1, <1>2 DEF Probe, Probed
<1>4. v.expected = events[a][s] /\ v.observed = Or(host.cert, Absent)
  BY <1>3 DEF LiveVerdict
<1>5. v.observed \in Fingerprints \cup {Absent} /\ v.expected \in Fingerprints \cup {Absent}
  BY <1>4 DEF SiteStates, Or, WellSealed
<1>. QED
  BY <1>5, SizeTypes DEF ShortVerdict

\* Of what the network does, only a TXT record that is long gets a pass refused,
\* whatever the limits on a value and on a body are; all other refusals go back to
\* an agent that was never imported, to a seal, or to the number of agents.  The
\* hydrator's go back to a fixture or to the number of fixtures.  Hosts that move,
\* providers and the other producer get no batch refused.
THEOREM RefusalsHaveCause == Spec => []RefusedForCause
<1>0. /\ ShortRow = RowBytes + (VerdictBytes + 2 * ShortBytes)
      /\ RowBytes \in Nat /\ VerdictBytes + 2 * ShortBytes \in Nat /\ MaxBody \in Nat
  BY SizeTypes DEF ShortRow
<1>1. ASSUME ProducersInv, ~Acceptable(prober.batch), ~Crowded(prober.events)
      PROVE  \E a \in Listed(prober.events) : Refusable(a)
  <2>1. ASSUME NEW a \in AgentIds, NEW s \in SignalIds, prober.batch[a][s] # Unobserved,
               ~(a \in known /\ Validate(s, prober.batch[a][s].value))
        PROVE  a \in Listed(prober.events) /\ Refusable(a)
    <3>1. Found(prober.events, a, s, prober.batch[a][s].value) /\ prober.events \in Events
      BY <1>1, <2>1 DEF ProducersInv, BatchFound, Probers
    <3>2. a \in Listed(prober.events) /\ s \in Probed
      BY <3>1 DEF Found
    <3>3. a \in known => s \in Drifts /\ ~WellSealed(prober.events[a], s)
      BY <2>1, <3>1, <3>2, FoundGood
    <3>. QED
      BY <3>2, <3>3 DEF Refusable
  <2>2. ASSUME NEW p \in DriftRows(prober.batch),
               ~ShortVerdict(prober.batch[p[1]][p[2]].value)
        PROVE  p[1] \in Listed(prober.events) /\ Refusable(p[1])
    <3>. DEFINE a == p[1]
                s == p[2]
                v == prober.batch[a][s].value
    <3>1. a \in AgentIds /\ s \in SignalIds /\ s \in Drifts /\ prober.batch[a][s] # Unobserved
      BY DEF DriftRows, Rows
    <3>2. Found(prober.events, a, s, v) /\ prober.events \in Events
      BY <1>1, <3>1 DEF ProducersInv, BatchFound, Probers
    <3>3. a \in Listed(prober.events) /\ s \in Probed
      BY <3>2 DEF Found
    <3>4. Long(v.expected) \/ Long(v.observed)
      BY <2>2 DEF ShortVerdict
    <3>5. s \in FingerprintDrifts => ~WellSealed(prober.events[a], s)
      BY <2>2, <3>1, <3>2, FoundShort
    <3>. HIDE DEF a, s
    <3>6. Refusable(a)
      BY <3>1, <3>3, <3>4, <3>5 DEF Refusable
    <3>. QED
      BY <3>3, <3>6 DEF a
  <2>3. ASSUME \A p \in DriftRows(prober.batch) : ShortVerdict(prober.batch[p[1]][p[2]].value)
        PROVE  InSize(prober.batch)
    <3>. DEFINE n == Cardinality(Listed(prober.events))
                r == Cardinality(Rows(prober.batch))
                d == Cardinality(DriftRows(prober.batch))
                b == VerdictBytes + 2 * ShortBytes
    <3>1. /\ IsFiniteSet(Rows(prober.batch)) /\ IsMatrix(prober.batch)
          /\ n \in Nat /\ r \in Nat /\ d \in Nat /\ r <= n * 5 /\ d <= n * 3
      BY <1>1, PassRows DEF ProducersInv
    <3>2. /\ \A p \in DriftRows(prober.batch) :
               VerdictSize(prober.batch[p[1]][p[2]].value) <= MaxValue
          /\ BodySize(prober.batch) \in Nat
          /\ BodySize(prober.batch) <= RowBytes * r + b * d
      BY <2>3, <3>1, ShortBatch
    <3>3. n * (3 * (RowBytes + b) + 2 * RowBytes) <= MaxBody
      <4>1. ~(n * (3 * (RowBytes + b) + 2 * RowBytes) > MaxBody)
        BY <1>0, <1>1 DEF Crowded
      <4>. QED
        BY <1>0, <3>1, <4>1
    <3>4. RowBytes * r + b * d <= MaxBody
      <4>. HIDE DEF n, r, d, b
      <4>1. RowBytes \in Nat /\ b \in Nat /\ MaxBody \in Nat
        BY <1>0 DEF b
      <4>2. RowBytes * r <= RowBytes * (n * 5) /\ b * d <= b * (n * 3)
        BY <3>1, <4>1
      <4>3. n * (3 * (RowBytes + b) + 2 * RowBytes) = RowBytes * (n * 5) + b * (n * 3)
        BY <3>1, <4>1
      <4>. QED
        BY <3>1, <3>3, <4>1, <4>2, <4>3
    <3>5. BodySize(prober.batch) <= MaxBody
      <4>. HIDE DEF n, r, d, b
      <4>1. RowBytes * r \in Nat /\ b * d \in Nat
        BY <1>0, <3>1 DEF b
      <4>. QED
        BY <1>0, <3>2, <3>4, <4>1
    <3>. QED
      BY <3>2, <3>5 DEF InSize, DriftRows
  <2>4. CASE InSize(prober.batch)
    BY <1>1, <2>1, <2>4 DEF Acceptable
  <2>5. CASE ~InSize(prober.batch)
    BY <2>2, <2>3, <2>5
  <2>. QED
    BY <2>4, <2>5
<1>2. ASSUME ProducersInv, hydrator.phase = "observations", ~Acceptable(Hydrated),
             ~(Cardinality(hydrator.files) * ShortRow > MaxBody)
      PROVE  \E f \in hydrator.files : Faulty(f)
  <2>1. ASSUME NEW a \in AgentIds, NEW s \in SignalIds, Hydrated[a][s] # Unobserved,
               ~(a \in known /\ Validate(s, Hydrated[a][s].value))
        PROVE  \E f \in hydrator.files : Faulty(f)
    <3>1. PICK f \in hydrator.files :
            f.agent = a /\ f.signal = s /\ Hydrated[a][s] = Projected(hydrator.events, f)
      BY <1>2, <2>1, HydratedGood
    <3>2. hydrator.events \in Events /\ hydrator.files \in FixtureSets
      BY <1>2, <3>1 DEF ProducersInv, Hydrators
    <3>3. CASE a \in known
      <4>1. ~Validate(f.signal, Projected(hydrator.events, f).value)
        BY <2>1, <3>1, <3>3
      <4>. QED
        BY <3>1, <3>2, <4>1, ProjectedGood DEF Faulty
    <3>4. CASE a \notin known
      <4>1. hydrator.events[a] = NoEvent
        BY <1>2, <3>4 DEF ProducersInv, Listed
      <4>. QED
        BY <3>1, <3>4, <4>1 DEF Faulty
    <3>. QED
      BY <3>3, <3>4
  <2>2. ASSUME NEW p \in DriftRows(Hydrated), ~ShortVerdict(Hydrated[p[1]][p[2]].value)
        PROVE  \E f \in hydrator.files : Faulty(f)
    <3>. DEFINE v == Hydrated[p[1]][p[2]].value
    <3>1. /\ p[1] \in AgentIds /\ p[2] \in SignalIds /\ p[2] \in Drifts
          /\ Hydrated[p[1]][p[2]] # Unobserved
      BY DEF DriftRows, Rows
    <3>2. PICK f \in hydrator.files :
            f.agent = p[1] /\ f.signal = p[2] /\ Hydrated[p[1]][p[2]] = Projected(hydrator.events, f)
      BY <1>2, <3>1, HydratedGood
    <3>3. v = FixtureVerdict(Baseline(hydrator.events, f.agent, f.signal), f.value)
      BY <3>1, <3>2 DEF Projected, Reading
    <3>4. /\ v.expected = Baseline(hydrator.events, f.agent, f.signal)
          /\ v.observed = f.value
      BY <3>3 DEF FixtureVerdict
    <3>5. Long(v.expected) \/ Long(v.observed)
      BY <2>2 DEF ShortVerdict
    <3>. HIDE DEF v
    <3>. QED
      BY <3>1, <3>2, <3>4, <3>5 DEF Faulty
  <2>3. ASSUME \A p \in DriftRows(Hydrated) : ShortVerdict(Hydrated[p[1]][p[2]].value)
        PROVE  InSize(Hydrated)
    <3>. DEFINE n == Cardinality(hydrator.files)
                r == Cardinality(Rows(Hydrated))
                d == Cardinality(DriftRows(Hydrated))
                b == VerdictBytes + 2 * ShortBytes
    <3>1. /\ IsFiniteSet(Rows(Hydrated)) /\ IsMatrix(Hydrated)
          /\ n \in Nat /\ r \in Nat /\ d \in Nat /\ r <= n /\ d <= n
      BY <1>2, HydratedRows, HydratedGood
    <3>2. /\ \A p \in DriftRows(Hydrated) : VerdictSize(Hydrated[p[1]][p[2]].value) <= MaxValue
          /\ BodySize(Hydrated) \in Nat /\ BodySize(Hydrated) <= RowBytes * r + b * d
      BY <2>3, <3>1, ShortBatch
    <3>3. n * (RowBytes + b) <= MaxBody
      BY <1>0, <1>2, <3>1
    <3>. HIDE DEF n, r, d, b
    <3>4. RowBytes \in Nat /\ b \in Nat /\ MaxBody \in Nat
      BY <1>0 DEF b
    <3>5. RowBytes * r <= RowBytes * n /\ b * d <= b * n
      BY <3>1, <3>4
    <3>6. n * (RowBytes + b) = RowBytes * n + b * n
      BY <3>1, <3>4
    <3>7. BodySize(Hydrated) <= MaxBody
      BY <3>1, <3>2, <3>3, <3>4, <3>5, <3>6
    <3>. QED
      BY <3>2, <3>7 DEF InSize, DriftRows
  <2>4. CASE InSize(Hydrated)
    BY <1>2, <2>1, <2>4 DEF Acceptable
  <2>5. CASE ~InSize(Hydrated)
    BY <2>2, <2>3, <2>5
  <2>. QED
    BY <2>4, <2>5
<1>3. ProducersInv => RefusedForCause
  BY <1>1, <1>2 DEF RefusedForCause
<1>. QED
  BY <1>3, ProducersInductive, PTL

(***************************************************************************)
(* What a pass leaves behind.                                              *)
(***************************************************************************)

\* A batch is posted only when every agent that has an event was probed for
\* every signal: what is not reached is in it as such.
PassIsWhole == prober.phase = "post" =>
  \A a \in Listed(prober.events), s \in Probed : prober.batch[a][s] # Unobserved

\* What is read of a pair stays there, and only time makes it older.
ReadsGoForward == \A a \in AgentIds, s \in SignalIds : latest[a][s] # Unobserved =>
  /\ latest'[a][s] # Unobserved
  /\ \/ latest'[a][s] = latest[a][s]
     \/ latest'[a][s].age < latest[a][s].age
     \/ Tick /\ latest'[a][s] = Reading(latest[a][s].age + 1, latest[a][s].value)

\* A pass that is taken leaves no agent and no signal of it out: each is read
\* as it was found, or as someone observed it in that second or later.
PassTaken == PassAccepted =>
  \A a \in Listed(prober.events), s \in Probed :
    /\ latest'[a][s] # Unobserved
    /\ \/ latest'[a][s] = prober.batch[a][s]
       \/ latest'[a][s] = latest[a][s] /\ latest[a][s].age <= prober.batch[a][s].age

(***************************************************************************)
(* Imports and ticks, cell by cell.                                        *)
(***************************************************************************)

LEMMA AgeIsInt ==
  ASSUME NEW m, IsMatrix(m), NEW a \in AgentIds, NEW s \in SignalIds, m[a][s] # Unobserved
  PROVE  /\ m[a][s].age \in Int /\ m[a][s].age \in Ages
         /\ m[a][s] \in [age : Ages, value : Shape(s)]
<1>1. m[a][s] \in [age : Ages, value : Shape(s)]
  BY DEF IsMatrix
<1>. QED
  BY <1>1, ProducerConstants DEF Ages, Ahead

\* An import leaves of each pair what was read, or what came in if it is newer.
LEMMA ImportReads ==
  ASSUME IsMatrix(latest), NEW batch, IsMatrix(batch), Import(batch),
         NEW a \in AgentIds, NEW s \in SignalIds
  PROVE  /\ latest[a][s] # Unobserved =>
              /\ latest'[a][s] # Unobserved
              /\ latest'[a][s] = latest[a][s] \/ latest'[a][s].age < latest[a][s].age
         /\ batch[a][s] # Unobserved =>
              /\ latest'[a][s] # Unobserved
              /\ \/ latest'[a][s] = batch[a][s]
                 \/ latest'[a][s] = latest[a][s] /\ latest[a][s].age <= batch[a][s].age
              /\ (latest[a][s] # Unobserved => batch[a][s].age < latest[a][s].age)
                   => latest'[a][s] = batch[a][s]
<1>1. latest'[a][s] = IF Newer(batch[a][s], latest[a][s]) THEN batch[a][s] ELSE latest[a][s]
  BY DEF Import
<1>2. latest[a][s] # Unobserved => latest[a][s].age \in Int
  BY AgeIsInt
<1>3. batch[a][s] # Unobserved => batch[a][s].age \in Int
  BY AgeIsInt
<1>. QED
  BY <1>1, <1>2, <1>3 DEF Newer

\* A tick makes a reading a second older, or leaves one that is too old or too
\* new to tell.
LEMMA OlderReads ==
  ASSUME NEW m, IsMatrix(m), NEW a \in AgentIds, NEW s \in SignalIds, m[a][s] # Unobserved
  PROVE  /\ Older(m)[a][s] # Unobserved
         /\ Older(m)[a][s].value = m[a][s].value
         /\ Older(m)[a][s].age = IF m[a][s].age \in 0 .. MaxAge - 1
                                THEN m[a][s].age + 1 ELSE m[a][s].age
         /\ \/ Older(m)[a][s] = m[a][s]
            \/ Older(m)[a][s] = Reading(m[a][s].age + 1, m[a][s].value)
<1>. DEFINE r == m[a][s]
            o == Older(m)[a][s]
<1>1. o = IF r # Unobserved /\ r.age \in 0 .. MaxAge - 1 THEN [r EXCEPT !.age = @ + 1] ELSE r
  BY DEF Older
<1>2. r \in [age : Ages, value : Shape(s)] /\ r # Unobserved
  BY AgeIsInt
<1>3. Unobserved \notin [age : Ages, value : Shape(s)]
  BY UnobservedIsNoReading
<1>. HIDE DEF r, o
<1>4. CASE r.age \in 0 .. MaxAge - 1
  <2>1. o = [r EXCEPT !.age = @ + 1]
    BY <1>1, <1>2, <1>4
  <2>2. o = [age |-> r.age + 1, value |-> r.value]
    BY <1>2, <2>1
  <2>3. r.age + 1 \in Ages
    BY <1>4, ProducerConstants DEF Ages
  <2>4. o \in [age : Ages, value : Shape(s)]
    BY <1>2, <2>2, <2>3
  <2>. QED
    BY <1>3, <1>4, <2>2, <2>4 DEF r, o, Reading
<1>5. CASE r.age \notin 0 .. MaxAge - 1
  BY <1>1, <1>2, <1>5 DEF r, o
<1>. QED
  BY <1>4, <1>5

\* And it keeps their order.
LEMMA OlderOrders ==
  ASSUME NEW m, IsMatrix(m), NEW n, IsMatrix(n), NEW a \in AgentIds, NEW s \in SignalIds,
         m[a][s] # Unobserved, n[a][s] # Unobserved, m[a][s].age <= n[a][s].age
  PROVE  Older(m)[a][s].age <= Older(n)[a][s].age
<1>. DEFINE i == m[a][s].age
            j == n[a][s].age
<1>0. Older(n)[a][s].age = IF j \in 0 .. MaxAge - 1 THEN j + 1 ELSE j
  BY OlderReads
<1>1. Older(m)[a][s].age = IF i \in 0 .. MaxAge - 1 THEN i + 1 ELSE i
  BY OlderReads
<1>2. i \in Ages /\ j \in Ages /\ i <= j
  BY AgeIsInt
<1>. DEFINE k == Older(m)[a][s].age
            l == Older(n)[a][s].age
<1>. HIDE DEF i, j, k, l
<1>3. k <= l
  <2>1. MaxAge \in Nat /\ MaxAge > 0
    BY ProducerConstants
  <2>2. /\ i = -1 \/ i \in 0 .. MaxAge
        /\ j = -1 \/ j \in 0 .. MaxAge
    BY <1>2 DEF Ages, Ahead
  <2>. QED
    BY <1>0, <1>1, <1>2, <2>1, <2>2 DEF k, l
<1>. QED
  BY <1>3 DEF k, l

\* A probe puts a reading of every probed signal of its agent into the batch.
LEMMA ProbeReads ==
  ASSUME ProducersInv, NEW a \in AgentIds, ProbeAgent(a)
  PROVE  /\ a \in Listed(prober.events) /\ UNCHANGED <<latest, site>>
         /\ prober'.events = prober.events /\ prober'.todo = prober.todo \ {a}
         /\ prober.phase = "probe"
         /\ prober'.phase = IF prober.todo = {a} THEN "post" ELSE "probe"
         /\ \A b \in AgentIds \ {a} : prober'.batch[b] = prober.batch[b]
         /\ \A s \in Probed : /\ prober'.batch[a][s] # Unobserved
                             /\ prober'.batch[a][s].value = Probe(prober.events[a], site[a])[s]
<1>. DEFINE found == Probe(prober.events[a], site[a])
            row == [s \in SignalIds |->
                      IF s \in Probed THEN Reading(Stamp, found[s]) ELSE Unobserved]
            phase == IF prober.todo = {a} THEN "post" ELSE "probe"
<1>1. /\ prober \in Probers /\ a \in Listed(prober.events) /\ site[a] \in SiteStates
      /\ IsMatrix(prober.batch) /\ prober.events[a] \in Attestations
  BY DEF ProbeAgent, ProducersInv, Listed, Probers, Events
<1>2. prober' = [prober EXCEPT !.phase = phase, !.todo = @ \ {a}, !.batch[a] = row]
  BY DEF ProbeAgent, ProbedRow
<1>3. \A s \in Probed : row[s] # Unobserved /\ row[s].value = found[s]
  <2>. SUFFICES ASSUME NEW s \in Probed PROVE row[s] # Unobserved /\ row[s].value = found[s]
    OBVIOUS
  <2>1. s \in SignalIds
    BY ProbedSignals
  <2>2. row[s] = [age |-> Stamp, value |-> found[s]]
    BY <2>1 DEF Reading
  <2>3. Stamp \in Ages
    BY ProducerConstants DEF Stamp, Ages
  <2>4. found[s] \in Shape(s)
    BY <1>1, ProbeGood
  <2>. HIDE DEF row, found
  <2>5. row[s] \in [age : Ages, value : Shape(s)]
    BY <2>2, <2>3, <2>4
  <2>. QED
    BY <2>1, <2>2, <2>5, UnobservedIsNoReading
<1>. HIDE DEF row, phase
<1>4. /\ prober'.batch = [prober.batch EXCEPT ![a] = row] /\ prober'.events = prober.events
      /\ prober'.todo = prober.todo \ {a} /\ prober'.phase = phase
  BY <1>1, <1>2 DEF Probers
<1>5. \A b \in AgentIds : prober'.batch[b] = IF b = a THEN row ELSE prober.batch[b]
  BY <1>1, <1>4 DEF IsMatrix
<1>6. UNCHANGED <<latest, site>> /\ prober.phase = "probe"
  BY DEF ProbeAgent
<1>. QED
  BY <1>1, <1>3, <1>4, <1>5, <1>6 DEF phase

(***************************************************************************)
(* Passes are whole.                                                       *)
(***************************************************************************)

\* During a pass, the agents that are not waiting have been probed.
WholeInv ==
  /\ prober.phase \in {"probe", "post"} =>
       \A a \in Listed(prober.events) \ prober.todo, s \in Probed :
         prober.batch[a][s] # Unobserved
  /\ prober.phase = "post" => prober.todo = {}

\* What a step that is no probe and no end of a pass does to the prober.
LEMMA ProberSteps ==
  ASSUME ProducersInv, Next
  PROVE  \/ \E a \in AgentIds : ProbeAgent(a)
         \/ prober'.phase = "probe" /\ prober'.todo = Listed(prober'.events)
         \/ prober'.phase \in {"off", "wait", "lost"}
         \/ /\ prober'.phase = prober.phase /\ prober'.todo = prober.todo
            /\ prober'.events = prober.events
            /\ prober'.batch \in {prober.batch, Older(prober.batch)}
<1>0. prober \in Probers
  BY DEF ProducersInv
<1>1. CASE StartProber \/ StopProber
  <2>1. CASE StartProber
    BY <2>1 DEF StartProber, ProberOff
  <2>2. CASE StopProber
    BY <2>2 DEF StopProber, ProberOff
  <2>. QED
    BY <1>1, <2>1, <2>2
<1>2. CASE BeginPass
  BY <1>0, <1>2 DEF BeginPass, Probers
<1>3. CASE PassAccepted \/ PassRefused \/ PassLost
  BY <1>0, <1>3 DEF PassAccepted, PassRefused, PassLost, EndPass, Probers
<1>4. CASE Tick
  BY <1>0, <1>4 DEF Tick, Probers
<1>5. CASE prober' = prober
  BY <1>5
<1>6. Next => \/ StartProber \/ StopProber \/ BeginPass \/ (\E a \in AgentIds : ProbeAgent(a))
              \/ PassAccepted \/ PassRefused \/ PassLost \/ Tick \/ prober' = prober
  BY DEF Next, StartHydrator, AgentsAccepted, AgentsFail, ObservationsAccepted,
     ObservationsFail, Provide, Move
<1>. QED
  BY <1>1, <1>2, <1>3, <1>4, <1>5, <1>6

LEMMA WholeSteps == ProducersInv /\ WholeInv /\ [Next]_vars => WholeInv'
<1>. SUFFICES ASSUME ProducersInv, WholeInv, [Next]_vars PROVE WholeInv'
  OBVIOUS
<1>1. CASE UNCHANGED vars
  BY <1>1 DEF vars, WholeInv
<1>2. ASSUME NEW a \in AgentIds, ProbeAgent(a) PROVE WholeInv'
  <2>1. /\ prober'.events = prober.events /\ prober'.todo = prober.todo \ {a}
        /\ prober.phase = "probe"
        /\ prober'.phase = IF prober.todo = {a} THEN "post" ELSE "probe"
        /\ \A b \in AgentIds \ {a} : prober'.batch[b] = prober.batch[b]
        /\ \A s \in Probed : prober'.batch[a][s] # Unobserved
    BY <1>2, ProbeReads
  <2>2. Listed(prober.events) \subseteq AgentIds
    BY DEF Listed
  <2>. QED
    BY <2>1, <2>2 DEF WholeInv
<1>3. CASE prober'.phase = "probe" /\ prober'.todo = Listed(prober'.events)
  BY <1>3 DEF WholeInv
<1>4. CASE prober'.phase \in {"off", "wait", "lost"}
  BY <1>4 DEF WholeInv
<1>5. CASE /\ prober'.phase = prober.phase /\ prober'.todo = prober.todo
           /\ prober'.events = prober.events
           /\ prober'.batch \in {prober.batch, Older(prober.batch)}
  <2>1. \A a \in Listed(prober.events), s \in Probed :
          prober.batch[a][s] # Unobserved => prober'.batch[a][s] # Unobserved
    <3>. SUFFICES ASSUME NEW a \in Listed(prober.events), NEW s \in Probed,
                         prober.batch[a][s] # Unobserved
                  PROVE  prober'.batch[a][s] # Unobserved
      OBVIOUS
    <3>1. a \in AgentIds /\ s \in SignalIds /\ IsMatrix(prober.batch)
      BY ProbedSignals DEF Listed, ProducersInv
    <3>2. Older(prober.batch)[a][s] # Unobserved
      BY <3>1, OlderReads
    <3>. QED
      BY <1>5, <3>2
  <2>. QED
    BY <1>5, <2>1 DEF WholeInv
<1>. QED
  BY <1>1, <1>2, <1>3, <1>4, <1>5, ProberSteps

NoneOlder == \A a \in AgentIds, s \in SignalIds : latest[a][s] # Unobserved =>
  /\ latest'[a][s] # Unobserved
  /\ latest'[a][s] = latest[a][s] \/ latest'[a][s].age < latest[a][s].age

\* No import makes what is read of a pair go away or older.
LEMMA ImportsKeepUp ==
  ASSUME ProducersInv,
         \/ latest' = latest \/ PassAccepted \/ ObservationsAccepted
         \/ \E p \in ProviderScores : Provide(p[1], p[2], p[3])
  PROVE  NoneOlder
<1>0. IsMatrix(latest)
  BY DEF ProducersInv
<1>1. CASE latest' = latest
  BY <1>1 DEF NoneOlder
<1>3. ASSUME NEW batch, IsMatrix(batch), Import(batch) PROVE NoneOlder
  BY <1>0, <1>3, ImportReads DEF NoneOlder
<1>4. CASE PassAccepted
  BY <1>3, <1>4 DEF PassAccepted, ProducersInv
<1>5. CASE ObservationsAccepted
  BY <1>3, <1>5, HydratedGood DEF ObservationsAccepted
<1>6. ASSUME NEW p \in ProviderScores, Provide(p[1], p[2], p[3]) PROVE NoneOlder
  BY <1>3, <1>6, ProvidedIsMatrix DEF Provide
<1>. QED
  BY <1>1, <1>4, <1>5, <1>6

LEMMA ReadsStep ==
  ASSUME ProducersInv, [Next]_vars PROVE ReadsGoForward
<1>1. CASE Tick
  <2>1. latest' = Older(latest) /\ IsMatrix(latest)
    BY <1>1 DEF Tick, ProducersInv
  <2>2. ASSUME NEW a \in AgentIds, NEW s \in SignalIds, latest[a][s] # Unobserved
        PROVE  /\ latest'[a][s] # Unobserved
               /\ \/ latest'[a][s] = latest[a][s]
                  \/ latest'[a][s] = Reading(latest[a][s].age + 1, latest[a][s].value)
    BY <2>1, <2>2, OlderReads
  <2>. QED
    BY <1>1, <2>2 DEF ReadsGoForward
<1>2. [Next]_vars => \/ Tick \/ latest' = latest \/ PassAccepted \/ ObservationsAccepted
                     \/ \E p \in ProviderScores : Provide(p[1], p[2], p[3])
  BY DEF Next, vars, StartProber, BeginPass, ProbeAgent, PassRefused, PassLost, StopProber,
     StartHydrator, AgentsAccepted, AgentsFail, ObservationsFail, Move
<1>3. NoneOlder => ReadsGoForward
  BY DEF NoneOlder, ReadsGoForward
<1>. QED
  BY <1>1, <1>2, <1>3, ImportsKeepUp

\* And an accepted pass is read of every agent it probed.
LEMMA TakenStep ==
  ASSUME ProducersInv, WholeInv PROVE PassTaken
<1>. SUFFICES ASSUME PassAccepted, NEW a \in Listed(prober.events), NEW s \in Probed
              PROVE  /\ latest'[a][s] # Unobserved
                     /\ \/ latest'[a][s] = prober.batch[a][s]
                        \/ /\ latest'[a][s] = latest[a][s]
                           /\ latest[a][s].age <= prober.batch[a][s].age
  BY DEF PassTaken
<1>1. a \in AgentIds /\ s \in SignalIds /\ IsMatrix(latest) /\ IsMatrix(prober.batch)
  BY ProbedSignals DEF Listed, ProducersInv
<1>2. Import(prober.batch) /\ prober.batch[a][s] # Unobserved
  BY DEF PassAccepted, WholeInv
<1>. QED
  BY <1>1, <1>2, ImportReads

\* A pass leaves none of its agents and none of its signals out (prober.go, Run:
\* what cannot be resolved or dialled is observed as absent), neither in the
\* batch it posts nor in what the server reads once it is taken; and no import
\* brings back what a newer observation replaced.
THEOREM PassesAreWhole ==
  Spec => [](ProducersTypeOK /\ PassIsWhole) /\ [][ReadsGoForward /\ PassTaken]_vars
<1>1. Init => WholeInv
  BY DEF Init, ProberOff, WholeInv
<1>2. WholeInv => PassIsWhole
  BY DEF WholeInv, PassIsWhole
<1>3. Spec => []WholeInv
  BY <1>1, WholeSteps, ProducersInductive, PTL DEF Spec
<1>4. ProducersInv /\ WholeInv /\ [Next]_vars => [ReadsGoForward /\ PassTaken]_vars
  BY ReadsStep, TakenStep
<1>. QED
  BY <1>2, <1>3, <1>4, ProducersInductive, ProducersType, PTL DEF Spec

(***************************************************************************)
(* What a pass found is hidden by nothing older.                           *)
(***************************************************************************)

\* Beside the code: the agents of the batch whose host is as it was probed, and
\* the readings of the last pass that was taken of each agent whose host and
\* event are still the same, growing older as the observations do.
VARIABLES still, seen

watchVars == <<known, latest, site, prober, hydrator, still, seen>>

WatchInit == Init /\ still = {} /\ seen = Nothing

WatchProbe(a) == ProbeAgent(a) /\ still' = still \cup {a} /\ seen' = seen

WatchAccepted ==
  /\ PassAccepted
  /\ seen' = [a \in AgentIds |-> IF a \in still THEN prober.batch[a] ELSE seen[a]]
  /\ still' = {}

WatchDropped == (PassRefused \/ PassLost) /\ still' = {} /\ seen' = seen

WatchEvents == (StartProber \/ StopProber) /\ still' = {} /\ seen' = Nothing

WatchMove(a) ==
  /\ Move(a)
  /\ IF site' = site THEN still' = still /\ seen' = seen
     ELSE still' = still \ {a} /\ seen' = [seen EXCEPT ![a] = Nothing[a]]

WatchTick == Tick /\ still' = still /\ seen' = Older(seen)

WatchOthers ==
  /\ \/ BeginPass \/ StartHydrator \/ AgentsAccepted \/ AgentsFail
     \/ ObservationsAccepted \/ ObservationsFail
     \/ \E p \in ProviderScores : Provide(p[1], p[2], p[3])
  /\ still' = still /\ seen' = seen

WatchNext ==
  \/ (\E a \in AgentIds : WatchProbe(a)) \/ WatchAccepted \/ WatchDropped \/ WatchEvents
  \/ (\E a \in AgentIds : WatchMove(a)) \/ WatchTick \/ WatchOthers

WatchSpec == WatchInit /\ [][WatchNext]_watchVars

\* The safety half of DriftIsNoticed.  As long as an agent's host stays as the
\* last pass that was taken found it, every probed signal of it is read, and
\* nothing stamped before that pass is: only a reading of the same second or a
\* later one can hide what the pass found.
OnlyNewerHides ==
  \A a \in AgentIds, s \in Probed : seen[a][s] # Unobserved =>
    /\ a \in Listed(prober.events)
    /\ \A t \in Probed : seen[a][t] # Unobserved
    /\ seen[a][s].value = Probe(prober.events[a], site[a])[s]
    /\ latest[a][s] # Unobserved /\ latest[a][s].age <= seen[a][s].age

\* And a pass that is taken ends what hid its findings, if that is older.
PassShows == PassAccepted =>
  \A a \in still, s \in Probed :
    (latest[a][s] # Unobserved => prober.batch[a][s].age < latest[a][s].age) =>
      latest'[a][s].value = Probe(prober.events[a], site[a])[s]

WatchInv ==
  /\ still \subseteq Listed(prober.events)
  /\ \A a \in still, s \in Probed :
       /\ prober.batch[a][s] # Unobserved
       /\ prober.batch[a][s].value = Probe(prober.events[a], site[a])[s]
  /\ IsMatrix(seen)
  /\ OnlyNewerHides

LEMMA WatchIsNext == WatchNext => Next
  BY DEF WatchNext, WatchProbe, WatchAccepted, WatchDropped, WatchEvents, WatchMove, WatchTick,
     WatchOthers, Next

LEMMA WatchProbeKeeps ==
  ASSUME ProducersInv, WatchInv, NEW a \in AgentIds, WatchProbe(a) PROVE WatchInv'
<1>1. /\ a \in Listed(prober.events) /\ UNCHANGED <<latest, site>>
      /\ prober'.events = prober.events
      /\ \A b \in AgentIds \ {a} : prober'.batch[b] = prober.batch[b]
      /\ \A s \in Probed : /\ prober'.batch[a][s] # Unobserved
                          /\ prober'.batch[a][s].value = Probe(prober.events[a], site[a])[s]
  BY ProbeReads DEF WatchProbe
<1>2. still' = still \cup {a} /\ seen' = seen
  BY DEF WatchProbe
<1>3. Listed(prober.events) \subseteq AgentIds /\ Listed(prober.events)' = Listed(prober.events)
  BY <1>1 DEF Listed
<1>4. \A b \in still', s \in Probed :
        /\ prober'.batch[b][s] # Unobserved
        /\ prober'.batch[b][s].value = Probe(prober'.events[b], site'[b])[s]
  BY <1>1, <1>2, <1>3 DEF WatchInv
<1>5. IsMatrix(seen)' /\ OnlyNewerHides'
  BY <1>1, <1>2, <1>3 DEF WatchInv, IsMatrix, OnlyNewerHides
<1>. QED
  BY <1>1, <1>2, <1>3, <1>4, <1>5 DEF WatchInv

\* An import leaves what is read no older than it was.
LEMMA HidesOnlyNewerStill ==
  ASSUME ProducersInv, OnlyNewerHides, IsMatrix(seen), IsMatrix(latest)', NoneOlder,
         UNCHANGED <<site, seen>>, prober'.events = prober.events
  PROVE  OnlyNewerHides'
<1>. SUFFICES ASSUME NEW a \in AgentIds, NEW s \in Probed, seen[a][s] # Unobserved
              PROVE  /\ a \in Listed(prober.events)
                     /\ \A t \in Probed : seen[a][t] # Unobserved
                     /\ seen[a][s].value = Probe(prober.events[a], site[a])[s]
                     /\ latest'[a][s] # Unobserved /\ latest'[a][s].age <= seen[a][s].age
  BY DEF OnlyNewerHides
<1>1. s \in SignalIds
  BY ProbedSignals
<1>2. /\ latest[a][s] # Unobserved /\ latest[a][s].age <= seen[a][s].age
  BY DEF OnlyNewerHides
<1>3. /\ latest'[a][s] # Unobserved
      /\ latest'[a][s] = latest[a][s] \/ latest'[a][s].age < latest[a][s].age
  BY <1>1, <1>2 DEF NoneOlder
<1>4. latest[a][s].age \in Int /\ seen[a][s].age \in Int
  BY <1>1, <1>2, AgeIsInt DEF ProducersInv
<1>5. latest'[a][s].age \in Int
  BY <1>1, <1>3, ProducerConstants DEF IsMatrix, Ages, Ahead
<1>. QED
  BY <1>2, <1>3, <1>4, <1>5 DEF OnlyNewerHides

LEMMA WatchAcceptedKeeps ==
  ASSUME ProducersInv, ProducersInv', WatchInv, WatchAccepted PROVE WatchInv'
<1>1. /\ prober'.events = prober.events /\ site' = site /\ Import(prober.batch)
      /\ IsMatrix(prober.batch) /\ IsMatrix(latest)
  <2>1. prober \in Probers
    BY DEF ProducersInv
  <2>. QED
    BY <2>1 DEF WatchAccepted, PassAccepted, EndPass, Probers, ProducersInv
<1>2. /\ seen' = [a \in AgentIds |-> IF a \in still THEN prober.batch[a] ELSE seen[a]]
      /\ still' = {}
  BY DEF WatchAccepted
<1>3. IsMatrix(seen')
  BY <1>1, <1>2 DEF WatchInv, IsMatrix
<1>4. ASSUME NEW a \in AgentIds, NEW s \in Probed, seen'[a][s] # Unobserved
      PROVE  /\ a \in Listed(prober.events)
             /\ \A t \in Probed : seen'[a][t] # Unobserved
             /\ seen'[a][s].value = Probe(prober.events[a], site[a])[s]
             /\ latest'[a][s] # Unobserved /\ latest'[a][s].age <= seen'[a][s].age
  <2>1. s \in SignalIds
    BY ProbedSignals
  <2>2. CASE a \in still
    <3>1. seen'[a] = prober.batch[a]
      BY <1>2, <2>2
    <3>2. /\ a \in Listed(prober.events)
          /\ \A t \in Probed : prober.batch[a][t] # Unobserved
          /\ prober.batch[a][s].value = Probe(prober.events[a], site[a])[s]
      BY <2>2 DEF WatchInv
    <3>3. /\ latest'[a][s] # Unobserved
          /\ \/ latest'[a][s] = prober.batch[a][s]
             \/ latest'[a][s] = latest[a][s] /\ latest[a][s].age <= prober.batch[a][s].age
      BY <1>1, <2>1, <3>2, ImportReads
    <3>4. prober.batch[a][s].age \in Int
      BY <1>1, <2>1, <3>2, AgeIsInt
    <3>. QED
      BY <3>1, <3>2, <3>3, <3>4
  <2>3. CASE a \notin still
    <3>1. seen'[a] = seen[a]
      BY <1>2, <2>3
    <3>2. /\ a \in Listed(prober.events)
          /\ \A t \in Probed : seen[a][t] # Unobserved
          /\ seen[a][s].value = Probe(prober.events[a], site[a])[s]
          /\ latest[a][s] # Unobserved /\ latest[a][s].age <= seen[a][s].age
      BY <1>4, <3>1 DEF WatchInv, OnlyNewerHides
    <3>3. /\ latest'[a][s] # Unobserved
          /\ latest'[a][s] = latest[a][s] \/ latest'[a][s].age < latest[a][s].age
      BY <1>1, <2>1, <3>2, ImportReads
    <3>4. latest[a][s].age \in Int /\ seen[a][s].age \in Int
      BY <1>1, <1>4, <2>1, <3>1, <3>2, AgeIsInt DEF WatchInv
    <3>5. latest'[a][s].age \in Int
      BY <2>1, <3>3, ProducerConstants DEF ProducersInv, IsMatrix, Ages, Ahead
    <3>. QED
      BY <3>1, <3>2, <3>3, <3>4, <3>5
  <2>. QED
    BY <2>2, <2>3
<1>5. OnlyNewerHides'
  BY <1>1, <1>4 DEF OnlyNewerHides
<1>. QED
  BY <1>1, <1>2, <1>3, <1>5 DEF WatchInv, IsMatrix

LEMMA WatchEventsKeep ==
  ASSUME WatchEvents PROVE WatchInv'
<1>1. still' = {} /\ seen' = Nothing
  BY DEF WatchEvents
<1>2. IsMatrix(seen)'
  BY <1>1, NothingIsThere DEF IsMatrix
<1>3. \A a \in AgentIds, s \in Probed : seen'[a][s] = Unobserved
  BY <1>1, NothingIsThere, ProbedSignals
<1>. QED
  BY <1>1, <1>2, <1>3 DEF WatchInv, OnlyNewerHides

\* What moves takes its readings with it.
LEMMA WatchMoveKeeps ==
  ASSUME ProducersInv, WatchInv, NEW a \in AgentIds, WatchMove(a) PROVE WatchInv'
<1>1. UNCHANGED <<latest, prober>> /\ (site' = site \/ \E host : site' = [site EXCEPT ![a] = host])
  BY DEF WatchMove, Move
<1>2. CASE site' = site
  <2>1. still' = still /\ seen' = seen
    BY <1>2 DEF WatchMove
  <2>. QED
    BY <1>1, <1>2, <2>1 DEF WatchInv, OnlyNewerHides, IsMatrix
<1>3. CASE site' # site
  <2>1. still' = still \ {a} /\ seen' = [seen EXCEPT ![a] = Nothing[a]]
    BY <1>3 DEF WatchMove
  <2>2. \A b \in AgentIds \ {a} : site'[b] = site[b]
    BY <1>1, <1>3 DEF ProducersInv
  <2>3. \A b \in AgentIds : seen'[b] = IF b = a THEN Nothing[a] ELSE seen[b]
    BY <2>1 DEF WatchInv, IsMatrix
  <2>4. IsMatrix(seen')
    BY <2>1, <2>3, NothingIsThere DEF WatchInv, IsMatrix
  <2>5. \A s \in Probed : seen'[a][s] = Unobserved
    BY <2>3, NothingIsThere, ProbedSignals
  <2>6. OnlyNewerHides'
    <3>. SUFFICES ASSUME NEW b \in AgentIds, NEW s \in Probed, seen'[b][s] # Unobserved
                  PROVE  /\ b \in Listed(prober.events)
                         /\ \A t \in Probed : seen'[b][t] # Unobserved
                         /\ seen'[b][s].value = Probe(prober.events[b], site'[b])[s]
                         /\ latest[b][s] # Unobserved /\ latest[b][s].age <= seen'[b][s].age
      BY <1>1 DEF OnlyNewerHides
    <3>1. b # a /\ seen'[b] = seen[b] /\ site'[b] = site[b]
      BY <2>2, <2>3, <2>5
    <3>. QED
      BY <3>1 DEF WatchInv, OnlyNewerHides
  <2>7. \A b \in still', s \in Probed :
          /\ prober.batch[b][s] # Unobserved
          /\ prober.batch[b][s].value = Probe(prober.events[b], site'[b])[s]
    BY <2>1, <2>2 DEF WatchInv, Listed
  <2>. QED
    BY <1>1, <2>1, <2>4, <2>6, <2>7 DEF WatchInv, IsMatrix
<1>. QED
  BY <1>2, <1>3

LEMMA WatchTickKeeps ==
  ASSUME ProducersInv, WatchInv, WatchTick PROVE WatchInv'
<1>1. /\ latest' = Older(latest) /\ seen' = Older(seen) /\ UNCHANGED <<site, still>>
      /\ prober'.batch = Older(prober.batch) /\ prober'.events = prober.events
      /\ IsMatrix(latest) /\ IsMatrix(prober.batch) /\ IsMatrix(seen)
  <2>1. prober \in Probers
    BY DEF ProducersInv
  <2>. QED
    BY <2>1 DEF WatchTick, Tick, Probers, ProducersInv, WatchInv
<1>2. IsMatrix(seen)'
  BY <1>1, OlderKeeps DEF IsMatrix
<1>3. ASSUME NEW a \in still, NEW s \in Probed
      PROVE  /\ prober'.batch[a][s] # Unobserved
             /\ prober'.batch[a][s].value = Probe(prober.events[a], site[a])[s]
  <2>1. a \in AgentIds /\ s \in SignalIds
    BY ProbedSignals DEF WatchInv, Listed
  <2>2. /\ prober.batch[a][s] # Unobserved
        /\ prober.batch[a][s].value = Probe(prober.events[a], site[a])[s]
    BY DEF WatchInv
  <2>3. /\ Older(prober.batch)[a][s] # Unobserved
        /\ Older(prober.batch)[a][s].value = prober.batch[a][s].value
    BY <1>1, <2>1, <2>2, OlderReads
  <2>. QED
    BY <1>1, <2>2, <2>3
<1>4. ASSUME NEW a \in AgentIds, NEW s \in Probed, seen'[a][s] # Unobserved
      PROVE  /\ a \in Listed(prober.events)
             /\ \A t \in Probed : seen'[a][t] # Unobserved
             /\ seen'[a][s].value = Probe(prober.events[a], site[a])[s]
             /\ latest'[a][s] # Unobserved /\ latest'[a][s].age <= seen'[a][s].age
  <2>1. s \in SignalIds /\ Probed \subseteq SignalIds
    BY ProbedSignals
  <2>2. seen[a][s] # Unobserved
    BY <1>1, <1>4, <2>1, OlderKeeps
  <2>3. /\ a \in Listed(prober.events)
        /\ \A t \in Probed : seen[a][t] # Unobserved
        /\ seen[a][s].value = Probe(prober.events[a], site[a])[s]
        /\ latest[a][s] # Unobserved /\ latest[a][s].age <= seen[a][s].age
    BY <2>2 DEF WatchInv, OnlyNewerHides
  <2>4. \A t \in Probed : seen'[a][t] # Unobserved
    BY <1>1, <2>1, <2>3, OlderReads
  <2>5. seen'[a][s].value = seen[a][s].value
    BY <1>1, <2>1, <2>2, OlderReads
  <2>6. latest'[a][s] # Unobserved
    BY <1>1, <2>1, <2>3, OlderReads
  <2>7. latest'[a][s].age <= seen'[a][s].age
    BY <1>1, <2>1, <2>2, <2>3, OlderOrders
  <2>. QED
    BY <2>3, <2>4, <2>5, <2>6, <2>7
<1>5. OnlyNewerHides'
  BY <1>1, <1>4 DEF OnlyNewerHides
<1>. QED
  BY <1>1, <1>2, <1>3, <1>5 DEF WatchInv

LEMMA WatchOthersKeep ==
  ASSUME ProducersInv, ProducersInv', WatchInv, WatchDropped \/ WatchOthers PROVE WatchInv'
<1>1. /\ UNCHANGED <<site, seen>> /\ prober'.events = prober.events
      /\ still' # {} => still' = still /\ prober'.batch = prober.batch
  <2>0. prober \in Probers
    BY DEF ProducersInv
  <2>1. CASE WatchDropped
    BY <2>0, <2>1 DEF WatchDropped, PassRefused, PassLost, EndPass, Probers
  <2>2. CASE WatchOthers
    BY <2>0, <2>2 DEF WatchOthers, BeginPass, StartHydrator, AgentsAccepted, AgentsFail,
       ObservationsAccepted, ObservationsFail, Provide, Probers
  <2>. QED
    BY <2>1, <2>2
<1>2. NoneOlder
  BY ImportsKeepUp DEF WatchDropped, WatchOthers, PassRefused, PassLost, BeginPass,
     StartHydrator, AgentsAccepted, AgentsFail, ObservationsFail
<1>3. OnlyNewerHides'
  BY <1>1, <1>2, HidesOnlyNewerStill DEF WatchInv, ProducersInv
<1>. QED
  BY <1>1, <1>3 DEF WatchInv, IsMatrix

LEMMA WatchSteps ==
  ProducersInv /\ ProducersInv' /\ WatchInv /\ [WatchNext]_watchVars => WatchInv'
<1>. SUFFICES ASSUME ProducersInv, ProducersInv', WatchInv, [WatchNext]_watchVars
              PROVE  WatchInv'
  OBVIOUS
<1>1. CASE UNCHANGED watchVars
  BY <1>1 DEF watchVars, WatchInv, OnlyNewerHides, IsMatrix
<1>2. CASE WatchNext
  BY <1>2, WatchProbeKeeps, WatchAcceptedKeeps, WatchEventsKeep, WatchMoveKeeps,
     WatchTickKeeps, WatchOthersKeep DEF WatchNext
<1>. QED
  BY <1>1, <1>2

LEMMA ShowsStep ==
  ASSUME ProducersInv, WatchInv PROVE PassShows
<1>. SUFFICES ASSUME PassAccepted, NEW a \in still, NEW s \in Probed,
                     latest[a][s] # Unobserved => prober.batch[a][s].age < latest[a][s].age
              PROVE  latest'[a][s].value = Probe(prober.events[a], site[a])[s]
  BY DEF PassShows
<1>1. a \in AgentIds /\ s \in SignalIds /\ IsMatrix(latest) /\ IsMatrix(prober.batch)
  BY ProbedSignals DEF WatchInv, Listed, ProducersInv
<1>2. /\ Import(prober.batch) /\ prober.batch[a][s] # Unobserved
      /\ prober.batch[a][s].value = Probe(prober.events[a], site[a])[s]
  BY DEF PassAccepted, WatchInv
<1>3. latest'[a][s] = prober.batch[a][s]
  BY <1>1, <1>2, ImportReads
<1>. QED
  BY <1>2, <1>3

\* What the liveness run calls noticed is never lost again: while a host rests,
\* no fixture, no late pass and no provider brings back what was observed before
\* the last pass that the server took, and that pass itself ends what is older
\* (agent-prober, and the strictly-newer rule of the import it sends to).
THEOREM PassesStay ==
  WatchSpec => [](ProducersTypeOK /\ OnlyNewerHides) /\ [][PassShows]_watchVars
<1>1. WatchInit => ProducersInv /\ WatchInv
  <2>1. WatchInit => ProducersInv
    BY InitProduces DEF WatchInit
  <2>2. ASSUME WatchInit PROVE WatchInv
    <3>1. still = {} /\ seen = Nothing
      BY <2>2 DEF WatchInit
    <3>2. IsMatrix(seen) /\ \A a \in AgentIds, s \in Probed : seen[a][s] = Unobserved
      BY <3>1, NothingIsThere, ProbedSignals
    <3>. QED
      BY <3>1, <3>2 DEF WatchInv, OnlyNewerHides
  <2>. QED
    BY <2>1, <2>2
<1>2. ProducersInv /\ [WatchNext]_watchVars => ProducersInv'
  <2>1. [WatchNext]_watchVars => [Next]_vars
    BY WatchIsNext DEF watchVars, vars
  <2>. QED
    BY <2>1, NextProduces
<1>3. ProducersInv /\ WatchInv /\ [WatchNext]_watchVars => WatchInv'
  BY <1>2, WatchSteps
<1>4. ProducersInv /\ WatchInv => [PassShows]_watchVars
  BY ShowsStep
<1>5. ProducersInv /\ WatchInv => ProducersTypeOK /\ OnlyNewerHides
  BY InvIsTyped DEF WatchInv
<1>. QED
  BY <1>1, <1>2, <1>3, <1>4, <1>5, PTL DEF WatchSpec
=============================================================================
