----------------------------- MODULE Producers -----------------------------
(***************************************************************************)
(* The two producers and the server they import into: agent-hydrator-stub, *)
(* which runs once, agents first and then the observations of its fixtures, *)
(* and agent-prober, which loads the events once and then probes every     *)
(* agent and imports what it found, again and again.  A provider's own     *)
(* hydrator sends scores beside them.  An import is taken whole or refused *)
(* whole (TrustService), for what it says or for its size; a request or    *)
(* its answer may be lost.                                                 *)
(*                                                                         *)
(* Times are ages: a stamp of the current second is 0 and every tick makes *)
(* it older, up to MaxAge, the age of fixtures authored before the model   *)
(* begins.  Ahead is a fixture dated in the future.                        *)
(***************************************************************************)
EXTENDS Signals, FiniteSets

CONSTANTS
  AgentIds,
  Strings,         \* attested and observed strings, Absent among them
  NoEvent,
  EventSets,       \* what tlevent.LoadDir may return: the sealed attestations
                   \* of every agent that has an event
  FixtureSets,     \* what LoadObservations may return
  Sites,           \* Sites[a]: what the probes of the host of a may meet
  Unreachable,
  ProviderScores,  \* what providers send: <<agent, signal, value>>
  MaxAge,          \* bound: seconds that are told apart, and a pass may last
  Bytes,           \* Bytes[t]: what the string t takes in JSON, escapes included
  VerdictBytes,    \* what a verdict takes beside its two sides
  RowBytes,        \* what a row takes beside its verdict; all rows count as one size
  MaxValue,        \* maxObservationValLen
  MaxBody,         \* maxAdminBodyBytes
  ShortBytes       \* strings up to this are short, those of seals as a rule

Ahead == -1
Ages == {Ahead} \cup 0 .. MaxAge

Attestations == [Drifts -> Strings]
Events == [AgentIds -> Attestations \cup {NoEvent}]

\* Certificates have a fingerprint that is one; TXT may also return "".
SiteStates ==
  [cert : Fingerprints \cup {Unreachable}, type : {"DV", "OV"},
   ans : Strings \cup {Unreachable}, badge : Strings \cup {Unreachable}]

\* One entry of an observation fixture: a raw value, or the live side of a drift.
Entries == [agent : AgentIds, signal : SignalIds, age : Ages, value : Strings \cup CertTypes]

ASSUME ProducerConstants ==
  /\ Absent \in Strings /\ Fingerprints \subseteq Strings
  /\ Unreachable \notin Strings
  /\ NoEvent \notin Attestations
  /\ Unobserved \notin Verdicts(Strings)
  /\ EventSets \subseteq Events
  /\ \A files \in FixtureSets :
       /\ files \subseteq Entries
       /\ \A f \in files : IF f.signal = "certtype" THEN f.value \in CertTypes
                           ELSE f.signal \in Drifts /\ f.value \in Strings
       /\ \A f, g \in files : (f.agent = g.agent /\ f.signal = g.signal) => f = g
  /\ Sites \in [AgentIds -> SUBSET SiteStates]
  /\ \A a \in AgentIds : Sites[a] # {}
  /\ \A p \in ProviderScores : p[1] \in AgentIds /\ p[2] \in DOMAIN Containers /\ p[3] \in Scores
  /\ MaxAge \in Nat \ {0, 1}
  /\ \A events \in EventSets : IsFiniteSet({a \in AgentIds : events[a] # NoEvent})
  /\ \A files \in FixtureSets : IsFiniteSet(files)

\* Two short sides fit into a value, and fingerprints are short.
ASSUME SizeConstants ==
  /\ Bytes \in [Strings -> Nat]
  /\ {VerdictBytes, RowBytes, MaxValue, MaxBody, ShortBytes} \subseteq Nat
  /\ \A t \in Fingerprints \cup {Absent} : Bytes[t] <= ShortBytes
  /\ VerdictBytes + 2 * ShortBytes <= MaxValue

VARIABLES
  known,     \* the agents the server has
  latest,    \* latest[a][s]: the observation of s that the server reads for a
  site,      \* the hosts of the agents
  prober,    \* agent-prober
  hydrator   \* agent-hydrator-stub

vars == <<known, latest, site, prober, hydrator>>

\* What a signal's observations look like once decoded.
Shape(s) ==
  IF s \in Drifts THEN Verdicts(Strings)
  ELSE IF s \in DOMAIN Containers THEN Scores
  ELSE IF s = "certtype" THEN CertTypes
  ELSE IF s = "dnssecurity" THEN SUBSET {"dnssec", "caa"} ELSE Int

Reading(age, value) == [age |-> age, value |-> value]

\* A matrix holds at most one observation for each agent and signal.
IsMatrix(m) ==
  /\ DOMAIN m = AgentIds
  /\ \A a \in AgentIds :
       /\ DOMAIN m[a] = SignalIds
       /\ \A s \in SignalIds : m[a][s] # Unobserved =>
            m[a][s] \in [age : Ages, value : Shape(s)]

\* The lack of an observation is none.
ASSUME UnobservedIsNoReading ==
  \A s \in SignalIds : Unobserved \notin [age : Ages, value : Shape(s)]

Nothing == [a \in AgentIds |-> [s \in SignalIds |-> Unobserved]]
NoEvents == [a \in AgentIds |-> NoEvent]
Listed(events) == {a \in AgentIds : events[a] # NoEvent}

ProberOff == [phase |-> "off", events |-> NoEvents, todo |-> {}, batch |-> Nothing]
HydratorOff == [phase |-> "off", events |-> NoEvents, files |-> {}]

Init ==
  /\ known = {}
  /\ latest = Nothing
  /\ site \in {f \in [AgentIds -> UNION {Sites[a] : a \in AgentIds}] :
                 \A a \in AgentIds : f[a] \in Sites[a]}
  /\ prober = ProberOff
  /\ hydrator = HydratorOff

-----------------------------------------------------------------------------
(* The server.                                                             *)

Rows(batch) == {p \in AgentIds \X SignalIds : batch[p[1]][p[2]] # Unobserved}

VerdictSize(v) == VerdictBytes + Bytes[v.expected] + Bytes[v.observed]

RowSize(s, value) == RowBytes + (IF s \in Drifts THEN VerdictSize(value) ELSE 0)

BodySize(batch) ==
  SumFunction([p \in Rows(batch) |-> RowSize(p[2], batch[p[1]][p[2]].value)])

\* No value and no body is longer than the server takes (400 and 413).
InSize(batch) ==
  /\ \A p \in Rows(batch) : p[2] \in Drifts => VerdictSize(batch[p[1]][p[2]].value) <= MaxValue
  /\ BodySize(batch) <= MaxBody

\* And every row names an agent that is known and a value its signal takes (422).
Acceptable(batch) ==
  /\ \A a \in AgentIds, s \in SignalIds :
       batch[a][s] # Unobserved => a \in known /\ Validate(s, batch[a][s].value)
  /\ InSize(batch)

\* Only a strictly newer observation changes what is read of a pair.
Newer(r, old) == r # Unobserved /\ (old = Unobserved \/ r.age < old.age)

Import(batch) ==
  latest' = [a \in AgentIds |-> [s \in SignalIds |->
               IF Newer(batch[a][s], latest[a][s]) THEN batch[a][s] ELSE latest[a][s]]]

-----------------------------------------------------------------------------
(* agent-prober.                                                           *)

\* The directory loads, or the prober does not start.
StartProber ==
  /\ prober.phase = "off"
  /\ \E events \in EventSets :
       prober' = [ProberOff EXCEPT !.phase = "wait", !.events = events]
  /\ UNCHANGED <<known, latest, site, hydrator>>

\* The first pass, or the ticker: every event's agent is probed.
BeginPass ==
  /\ prober.phase \in {"wait", "lost"} /\ Listed(prober.events) # {}
  /\ prober' = [prober EXCEPT !.phase = "probe", !.todo = Listed(prober.events)]
  /\ UNCHANGED <<known, latest, site, hydrator>>

Or(got, fallback) == IF got = Unreachable THEN fallback ELSE got

\* Mutant: the match is taken for granted once something is observed.
LiveVerdictByPresence(expected, got) ==
  [expected |-> expected, observed |-> Or(got, Absent), matched |-> got # Unreachable]

LiveVerdict(expected, got) ==
  [expected |-> expected, observed |-> Or(got, Absent),
   matched |-> got # Unreachable /\ expected = got]

Probed == {"certtype", "certfingerprint.server", "dnsrecord.ans", "dnsrecord.ans-badge",
           "dnssecurity"}

\* What is not reached is observed as such, never skipped; CAA is deferred.
Probe(attested, host) == [s \in Probed |->
  CASE s = "certtype" -> IF host.cert = Unreachable THEN "none" ELSE host.type
    [] s = "certfingerprint.server" -> LiveVerdict(attested[s], host.cert)
    [] s = "dnsrecord.ans" -> LiveVerdict(attested[s], host.ans)
    [] s = "dnsrecord.ans-badge" -> LiveVerdict(attested[s], host.badge)
    [] s = "dnssecurity" -> {}]

\* Mutant: the placeholder for a stamper that is not configured.
StampPlaceholder == MaxAge

Stamp == 0

ProbedRow(a) ==
  LET found == Probe(prober.events[a], site[a]) IN
  [s \in SignalIds |-> IF s \in Probed THEN Reading(Stamp, found[s]) ELSE Unobserved]

ProbeAgent(a) ==
  /\ prober.phase = "probe" /\ a \in prober.todo
  /\ prober' = [prober EXCEPT
       !.phase = IF prober.todo = {a} THEN "post" ELSE "probe",
       !.todo = @ \ {a}, !.batch[a] = ProbedRow(a)]
  /\ UNCHANGED <<known, latest, site, hydrator>>

EndPass(phase) == prober' = [prober EXCEPT !.phase = phase, !.batch = Nothing]

PassAccepted ==
  /\ prober.phase = "post" /\ Acceptable(prober.batch)
  /\ Import(prober.batch)
  /\ EndPass("wait")
  /\ UNCHANGED <<known, site, hydrator>>

\* 400, 413 or 422: nothing is stored, and the next pass is as good as this one.
PassRefused ==
  /\ prober.phase = "post" /\ ~Acceptable(prober.batch)
  /\ EndPass("wait")
  /\ UNCHANGED <<known, latest, site, hydrator>>

\* The request does not get through, or meets a 401 or 500.  One whose answer alone is lost is
\* PassAccepted: the prober logs either error and goes on.
PassLost ==
  /\ prober.phase = "post"
  /\ EndPass("lost")
  /\ UNCHANGED <<known, latest, site, hydrator>>

\* A signal, a crash, or the end of a single pass.
StopProber ==
  /\ prober.phase # "off"
  /\ prober' = ProberOff
  /\ UNCHANGED <<known, latest, site, hydrator>>

-----------------------------------------------------------------------------
(* agent-hydrator-stub.                                                    *)

\* In real mode it loads no observations.
StartHydrator ==
  /\ hydrator.phase = "off"
  /\ \E events \in EventSets, files \in FixtureSets \cup {{}} :
       hydrator' = [phase |-> "agents", events |-> events, files |-> files]
  /\ UNCHANGED <<known, latest, site, prober>>

AgentsAccepted ==
  /\ hydrator.phase = "agents" /\ Listed(hydrator.events) # {}
  /\ known' = known \cup Listed(hydrator.events)
  /\ hydrator' = IF hydrator.files = {} THEN HydratorOff
                 ELSE [hydrator EXCEPT !.phase = "observations"]
  /\ UNCHANGED <<latest, site, prober>>

\* An empty batch is refused, a request is lost, or the answer of one that was
\* carried out: the run ends.
AgentsFail ==
  /\ hydrator.phase = "agents"
  /\ known' \in {known, known \cup Listed(hydrator.events)}
  /\ hydrator' = HydratorOff
  /\ UNCHANGED <<latest, site, prober>>

FixtureVerdict(expected, observed) ==
  [expected |-> expected, observed |-> observed, matched |-> expected = observed]

\* The sealed side of an agent without an event is empty.
Baseline(events, a, s) == IF events[a] = NoEvent THEN Absent ELSE events[a][s]

Projected(events, f) ==
  Reading(f.age, IF f.signal \in Drifts
                 THEN FixtureVerdict(Baseline(events, f.agent, f.signal), f.value)
                 ELSE f.value)

Hydrated == [a \in AgentIds |-> [s \in SignalIds |->
  IF \E f \in hydrator.files : f.agent = a /\ f.signal = s
  THEN Projected(hydrator.events,
                 CHOOSE f \in hydrator.files : f.agent = a /\ f.signal = s)
  ELSE Unobserved]]

ObservationsAccepted ==
  /\ hydrator.phase = "observations" /\ Acceptable(Hydrated)
  /\ Import(Hydrated)
  /\ hydrator' = HydratorOff
  /\ UNCHANGED <<known, site, prober>>

\* Refused, or lost on the way.
ObservationsFail ==
  /\ hydrator.phase = "observations"
  /\ hydrator' = HydratorOff
  /\ UNCHANGED <<known, latest, site, prober>>

-----------------------------------------------------------------------------
(* The world around them.                                                  *)

\* A provider's hydrator imports one score, which the server takes or refuses.
Provide(a, s, value) ==
  LET batch == [Nothing EXCEPT ![a][s] = Reading(0, value)] IN
  /\ Acceptable(batch)
  /\ Import(batch)
  /\ UNCHANGED <<known, site, prober, hydrator>>

\* The host of an agent changes its certificate, its records, or goes away.
Move(a) ==
  /\ \E host \in Sites[a] : site' = [site EXCEPT ![a] = host]
  /\ UNCHANGED <<known, latest, prober, hydrator>>

Older(m) == [a \in AgentIds |-> [s \in SignalIds |->
  IF m[a][s] # Unobserved /\ m[a][s].age \in 0 .. MaxAge - 1
  THEN [m[a][s] EXCEPT !.age = @ + 1] ELSE m[a][s]]]

\* The limits on each probe and request keep a pass under MaxAge seconds.
Tick ==
  /\ \A a \in AgentIds, s \in SignalIds :
       prober.batch[a][s] # Unobserved => prober.batch[a][s].age < MaxAge - 1
  /\ latest' = Older(latest)
  /\ prober' = [prober EXCEPT !.batch = Older(@)]
  /\ UNCHANGED <<known, site, hydrator>>

Next ==
  \/ StartProber \/ BeginPass \/ (\E a \in AgentIds : ProbeAgent(a))
  \/ PassAccepted \/ PassRefused \/ PassLost \/ StopProber
  \/ StartHydrator \/ AgentsAccepted \/ AgentsFail
  \/ ObservationsAccepted \/ ObservationsFail
  \/ \E p \in ProviderScores : Provide(p[1], p[2], p[3])
  \/ (\E a \in AgentIds : Move(a))
  \/ Tick

\* The prober's loop goes on, each of its calls returns, and time passes.
Fairness ==
  /\ WF_vars(BeginPass)
  /\ WF_vars(\E a \in AgentIds : ProbeAgent(a))
  /\ WF_vars(PassAccepted \/ PassRefused)
  /\ WF_vars(Tick)

Spec == Init /\ [][Next]_vars /\ Fairness

-----------------------------------------------------------------------------
(* Properties.                                                             *)

Probers ==
  [phase : {"off", "wait", "lost", "probe", "post"}, events : Events, todo : SUBSET AgentIds,
   batch : {prober.batch}]
Hydrators ==
  [phase : {"off", "agents", "observations"}, events : Events, files : SUBSET Entries]

\* The producers keep to their steps, and whatever they and the providers send,
\* what the server goes on to read is of the signal's shape and answered in
\* 0 .. 100 with risk codes of the signal's own dimension (Validate before
\* Evaluate, for every signal).
ProducersTypeOK ==
  /\ known \subseteq AgentIds
  /\ IsMatrix(latest) /\ IsMatrix(prober.batch)
  /\ site \in [AgentIds -> SiteStates]
  /\ prober \in Probers
  /\ hydrator \in Hydrators
  /\ \A a \in AgentIds, s \in SignalIds : latest[a][s] # Unobserved =>
       InBand(s, Evaluate(s, latest[a][s].value))

\* A full drift score is never given but for a sealed baseline that was
\* observed, and drift never reported but for one that was not, although Validate
\* checks the producer's word only where both sides are there: the comment on
\* drift.go:82 holds of the producers of this repository.
VerdictsAreHonest ==
  \A a \in AgentIds, s \in Drifts : latest[a][s] # Unobserved =>
    LET v == latest[a][s].value
        answer == Evaluate(s, v)
    IN  /\ answer.raw = 100 <=> v.expected # Absent /\ v.observed = v.expected
        /\ answer.risks # {} <=> v.expected # Absent /\ v.observed # v.expected

WellSealed(attested, s) ==
  s \in FingerprintDrifts => attested[s] \in Fingerprints \cup {Absent}

Long(t) == Bytes[t] > ShortBytes

\* What a row takes at most whose sides are short.
ShortRow == RowBytes + VerdictBytes + 2 * ShortBytes

\* Too many agents for one body, even with short sides.
Crowded(events) ==
  Cardinality(Listed(events)) * (3 * ShortRow + 2 * RowBytes) > MaxBody

\* The agent can get the pass of all agents refused: for its seal, or for a TXT
\* record of its host that is long, as it was probed.
Refusable(a) ==
  \/ a \notin known
  \/ \E s \in Probed \cap Drifts :
       \/ ~WellSealed(prober.events[a], s)
       \/ /\ s \notin FingerprintDrifts
          /\ prober.batch[a][s] # Unobserved
          /\ LET v == prober.batch[a][s].value IN Long(v.expected) \/ Long(v.observed)

\* The fixture can get the observations of all refused, for its agent, the live
\* side it holds or the seal beside it.
Faulty(f) ==
  \/ hydrator.events[f.agent] = NoEvent /\ f.agent \notin known
  \/ /\ f.signal \in FingerprintDrifts
     /\ \/ f.value \notin Fingerprints \cup {Absent}
        \/ hydrator.events[f.agent] # NoEvent
           /\ ~WellSealed(hydrator.events[f.agent], f.signal)
  \/ /\ f.signal \in Drifts
     /\ Long(f.value) \/ Long(Baseline(hydrator.events, f.agent, f.signal))

\* Of what the network does, only a long TXT record can get a pass refused, and
\* then it takes the findings of all other agents with it: no change of a
\* certificate or a record, no downtime and no race with other imports can.  A
\* pass is refused only if one of its agents was never imported, has a malformed
\* or long seal or such a record, or if there are too many agents for one body;
\* the hydrator's observations, fixtures of known signals with dates that parse,
\* only for one of an agent without event or with a malformed or long side, or for
\* their number (prober.go:74 and hydrator.go:42 send one body, which dto.go:195
\* and middleware.go:184 bound).
RefusedForCause ==
  /\ prober.phase = "post" /\ ~Acceptable(prober.batch) =>
       Crowded(prober.events) \/ \E a \in Listed(prober.events) : Refusable(a)
  /\ hydrator.phase = "observations" /\ ~Acceptable(Hydrated) =>
       \/ Cardinality(hydrator.files) * ShortRow > MaxBody
       \/ \E f \in hydrator.files : Faulty(f)

\* What a pass would send now.
Pass == [a \in AgentIds |-> IF a \in Listed(prober.events) THEN ProbedRow(a) ELSE Nothing[a]]

\* The prober runs on with events that the server takes, its passes get through
\* and are not too long, and no observation of them is dated ahead.
Effective ==
  /\ prober.phase \notin {"off", "lost"}
  /\ \A a \in Listed(prober.events) :
       /\ a \in known
       /\ \A s \in Probed \cap Drifts : WellSealed(prober.events[a], s)
       /\ \A s \in Probed : latest[a][s] # Unobserved => latest[a][s].age # Ahead
  /\ InSize(Pass)

\* The server reads what a probe would find now.
Current ==
  \A a \in Listed(prober.events) :
    LET found == Probe(prober.events[a], site[a]) IN
    \A s \in Probed : latest[a][s] # Unobserved /\ latest[a][s].value = found[s]

\* Drift is noticed, and its end: once the hosts come to rest and passes are
\* neither lost nor refused, the server reads for every agent what its host is
\* like, although observations of one second shadow each other and fixtures and
\* late passes arrive in between.
DriftIsNoticed ==
  (<>[]Effective /\ <>[][UNCHANGED <<site, prober.events>>]_vars) => <>[]Current
=============================================================================
