---------------------------- MODULE RaSyncProofs ----------------------------
(***************************************************************************)
(* Proofs about the capture, for any feed, any badges, any page size and   *)
(* any number of agents, events and runs.                                  *)
(***************************************************************************)
EXTENDS RaSync, FiniteSetTheorems, TLAPS

(***************************************************************************)
(* Shapes.                                                                 *)
(***************************************************************************)

\* The feed serves rows it has (the cursor is any position).
LEMMA ServedRows ==
  ASSUME feed \in Feeds, NEW c \in Nat
  PROVE  /\ Served(c) \in Seq(Nat)
         /\ \A k \in DOMAIN Served(c) : Served(c)[k] \in DOMAIN feed.log
         /\ \A n \in Cursors(Served(c)) : n \in Nat
<1>. DEFINE from == IF c < feed.oldest THEN feed.oldest ELSE c + 1
            to   == IF from + PageSize - 1 < Len(feed.log)
                    THEN from + PageSize - 1 ELSE Len(feed.log)
            len  == IF to < from THEN 0 ELSE to - from + 1
            pg   == [i \in 1 .. len |-> from + i - 1]
<1>1. /\ from \in Nat \ {0} /\ Len(feed.log) \in Nat /\ PageSize \in Nat \ {0}
      /\ DOMAIN feed.log = 1 .. Len(feed.log)
  BY RaSyncConstants DEF Feeds
<1>2. /\ to \in Nat /\ to <= Len(feed.log) /\ len \in Nat
      /\ \A i \in 1 .. len : from + i - 1 \in 1 .. Len(feed.log)
  <2>. HIDE DEF from
  <2>. QED
    BY <1>1
<1>3. Served(c) = pg
  BY DEF Served
<1>4. pg \in Seq(Nat) /\ \A k \in DOMAIN pg : pg[k] \in DOMAIN feed.log
  <2>1. /\ pg \in [1 .. len -> Nat] /\ DOMAIN pg = 1 .. len
        /\ \A k \in 1 .. len : pg[k] \in 1 .. Len(feed.log)
    <3>. HIDE DEF from, len
    <3>. QED
      BY <1>2
  <2>. HIDE DEF pg, len
  <2>. QED
    BY <1>1, <1>2, <2>1
<1>5. \A n \in Cursors(pg) : n \in Nat
  <2>. HIDE DEF pg
  <2>1. pg # <<>> => Len(pg) \in 1 .. Len(pg) /\ pg[Len(pg)] \in Nat
    BY <1>4
  <2>. QED
    BY <2>1, RaSyncConstants DEF Cursors
<1>. QED
  BY <1>3, <1>4, <1>5

\* Folding a row into the agents gives agents.
LEMMA AppliedAgents ==
  ASSUME feed \in Feeds, NEW id \in DOMAIN feed.log,
         NEW ags \in [AgentIds -> FoldedAgents \cup {NoAgent}]
  PROVE  /\ applyEvent(ags, id) \in [AgentIds -> FoldedAgents \cup {NoAgent}]
         /\ Recognized(id) => Folded(ags[feed.log[id].agentId], id) \in FoldedAgents
<1>. DEFINE it == feed.log[id]
            fa == IF ags[it.agentId] = NoAgent THEN ZeroAgent ELSE ags[it.agentId]
<1>1. /\ it.agentId \in AgentIds /\ it.dated \in BOOLEAN /\ id \in Nat
      /\ it.host \in Texts \cup {Absent} /\ it.name \in Texts \cup {Absent}
  BY RaSyncConstants DEF Feeds, EventItems
<1>2. /\ fa.host \in Texts \cup {Absent} /\ fa.name \in Texts \cup {Absent}
      /\ fa.firstSeen \in Times /\ fa.lastUpdated \in Times
  BY <1>1 DEF ZeroAgent, FoldedAgents, Times
<1>3. CreatedAt(id) \in Times
  BY <1>1 DEF CreatedAt, Times
<1>4. ASSUME Recognized(id)
      PROVE  Folded(ags[it.agentId], id) \in FoldedAgents
  <2>1. statusForEventType(it.eventType) \in Statuses
    BY <1>4 DEF Recognized, statusForEventType, Statuses
  <2>. HIDE DEF fa
  <2>2. [status      |-> statusForEventType(it.eventType),
         host        |-> Given(it.host, fa.host),
         name        |-> Given(it.name, fa.name),
         lastUpdated |-> Given(CreatedAt(id), fa.lastUpdated),
         firstSeen   |-> IF it.eventType = "AGENT_REGISTERED"
                         THEN Given(fa.firstSeen, CreatedAt(id)) ELSE fa.firstSeen]
        \in FoldedAgents
    BY <1>1, <1>2, <1>3, <2>1 DEF Given, FoldedAgents
  <2>. QED
    BY <2>2 DEF Folded, fa
<1>. QED
  BY <1>1, <1>4 DEF applyEvent

\* What is written is a fixture: its fields come from the fold and the badge.
LEMMA EventShape ==
  ASSUME NEW fa \in FoldedAgents, NEW badge \in BadgeEvents
  PROVE  toEvent(fa, badge) \in Fixtures
  BY DEF toEvent, Given, FoldedAgents, BadgeEvents, Fixtures, StatusTexts

\* The zero event that stands for a missing badge has the shape of a badge (Run).
LEMMA NoBadgeShape == NoBadge \in BadgeEvents
  BY DEF NoBadge, BadgeEvents, StatusTexts, Times

\* A folded agent is a value, so that an agent of the fold has one.
LEMMA FoldsShape ==
  ASSUME RaSyncTypeOK, NEW a \in Folds
  PROVE  run.agents[a] \in FoldedAgents /\ a \in AgentIds
  BY DEF RaSyncTypeOK, Runs, Folds

\* The body of the enrichment loop keeps the shapes.
LEMMA CaptureShape ==
  ASSUME RaSyncTypeOK, NEW a \in Folds, NEW badge \in BadgeEvents,
         NEW miss \in {0, 1}, Capture(a, badge, miss)
  PROVE  /\ run' \in Runs /\ summary' \in Summaries
         /\ dir' \in [AgentIds -> Fixtures \cup {NoFixture, Torn}]
<1>. DEFINE ev == toEvent(run.agents[a], badge)
<1>1. ev \in Fixtures
  BY FoldsShape, EventShape
<1>. HIDE DEF ev
<1>2. /\ \/ run' = [run EXCEPT !.todo = @ \ {a}]
         \/ run' = [run EXCEPT !.phase = "failed", !.error = "write"]
      /\ \/ summary' = [summary EXCEPT !.misses = @ + miss, !.drops = @ + 1]
         \/ summary' = [summary EXCEPT !.misses = @ + miss, !.captured = @ + 1]
         \/ summary' = [summary EXCEPT !.misses = @ + miss]
      /\ \/ dir' = dir \/ dir' = [dir EXCEPT ![a] = ev]
         \/ dir' = [dir EXCEPT ![a] = NoFixture] \/ dir' = [dir EXCEPT ![a] = Torn]
  BY DEF Capture, Fail, ev
<1>3. run' \in Runs
  BY <1>2 DEF RaSyncTypeOK, Runs
<1>4. summary' \in Summaries
  <2>1. /\ summary \in Summaries
        /\ summary.misses + miss \in Nat /\ summary.drops + 1 \in Nat
        /\ summary.captured + 1 \in Nat
    BY DEF RaSyncTypeOK, Summaries
  <2>. QED
    BY <1>2, <2>1 DEF Summaries
<1>5. dir' \in [AgentIds -> Fixtures \cup {NoFixture, Torn}]
  BY <1>1, <1>2 DEF RaSyncTypeOK
<1>. QED
  BY <1>3, <1>4, <1>5

\* A run that returns an error is still a run.
LEMMA FailShape ==
  ASSUME RaSyncTypeOK,
         NEW error \in {"fetch", "runaway", "empty", "prepare", "aborted", "degraded", "nothing"},
         Fail(error)
  PROVE  run' \in Runs
  BY DEF RaSyncTypeOK, Runs, Fail

\* The values Run starts from have their shapes.
LEMMA IdleShape ==
  /\ IdleRun \in Runs /\ [IdleRun EXCEPT !.phase = "fetch"] \in Runs
  /\ NoDrain \in Drains /\ NoDrain.page = <<>>
  /\ NoSummary \in Summaries
<1>1. NoAgents \in [AgentIds -> FoldedAgents \cup {NoAgent}]
  BY DEF NoAgents
<1>. QED
  BY <1>1 DEF IdleRun, Runs, NoDrain, Drains, NoSummary, Summaries

\* The capture's initial state has its shape.
LEMMA TypeInit == Init => RaSyncTypeOK
<1>. SUFFICES ASSUME Init PROVE RaSyncTypeOK
  OBVIOUS
<1>1. feed \in Feeds /\ past \in Histories /\ past.read = <<>> /\ drain.page = <<>>
  BY IdleShape DEF Init, Feeds, Histories, EmptyDir
<1>3. \A q : q = <<>> => \A k \in DOMAIN q : FALSE
  OBVIOUS
<1>4. expired \in BOOLEAN
  BY DEF Init
<1>2. dir \in [AgentIds -> Fixtures \cup {NoFixture, Torn}]
  BY DEF Init, EmptyDir
<1>. QED
  BY <1>1, <1>2, <1>3, <1>4, IdleShape DEF Init, RaSyncTypeOK

\* The feed's own steps: it grows at its end, and rows keep their ids.
LEMMA TypeFeed ==
  ASSUME RaSyncTypeOK, Publish \/ Age
  PROVE  RaSyncTypeOK'
<1>1. feed' \in Feeds /\ DOMAIN feed.log \subseteq DOMAIN feed'.log
  <2>1. CASE Publish
    <3>1. PICK it \in Items : feed' = [feed EXCEPT !.log = Append(@, it)]
      BY <2>1 DEF Publish
    <3>. DEFINE log == feed.log
    <3>2. log \in Seq(Items) /\ feed' = [feed EXCEPT !.log = Append(log, it)]
      BY <3>1 DEF RaSyncTypeOK, Feeds
    <3>3. Append(log, it) \in Seq(Items) /\ DOMAIN log \subseteq DOMAIN Append(log, it)
      BY <3>2
    <3>. QED
      BY <3>2, <3>3 DEF RaSyncTypeOK, Feeds
  <2>2. CASE Age
    BY <2>2 DEF Age, RaSyncTypeOK, Feeds
  <2>. QED
    BY <2>1, <2>2
<1>2. UNCHANGED <<expired, run, drain, summary, dir, past>>
  BY DEF Publish, Age
<1>. QED
  BY <1>1, <1>2 DEF RaSyncTypeOK

\* The reading of the feed.
LEMMA TypeDrain ==
  ASSUME RaSyncTypeOK,
         FetchPage \/ FetchFails \/ ApplyNext \/ NextCursor \/ Runaway \/ Drained
  PROVE  RaSyncTypeOK'
<1>1. CASE FetchPage
  <2>. DEFINE page == Served(drain.cursor)
  <2>1. PICK n \in Cursors(page) :
          drain' = [drain EXCEPT !.pages = @ + 1, !.page = page, !.next = n,
                                 !.items = Len(page)]
    BY <1>1 DEF FetchPage
  <2>2. /\ page \in Seq(Nat) /\ n \in Nat
        /\ \A k \in DOMAIN page : page[k] \in DOMAIN feed.log
    BY ServedRows DEF RaSyncTypeOK, Drains
  <2>3. drain' \in Drains /\ drain'.page = page
    <3>1. drain \in Drains /\ drain.pages + 1 \in Nat /\ Len(page) \in Nat
      BY <2>2 DEF RaSyncTypeOK, Drains
    <3>. HIDE DEF page
    <3>. QED
      BY <2>1, <2>2, <3>1 DEF Drains
  <2>4. run' \in Runs
    BY <1>1 DEF FetchPage, RaSyncTypeOK, Runs
  <2>. QED
    BY <1>1, <2>2, <2>3, <2>4 DEF FetchPage, RaSyncTypeOK
<1>2. CASE FetchFails
  BY <1>2, FailShape DEF FetchFails, RaSyncTypeOK
<1>3. CASE ApplyNext
  <2>. DEFINE id == Head(drain.page)
              pg == drain.page
              rd == past.read
  <2>1. /\ pg \in Seq(Nat) /\ pg # <<>> /\ rd \in Seq(Nat)
        /\ \A k \in DOMAIN pg : pg[k] \in DOMAIN feed.log
        /\ \A k \in DOMAIN rd : rd[k] \in DOMAIN feed.log
    BY <1>3 DEF ApplyNext, RaSyncTypeOK, Drains, Histories
  <2>2. /\ id \in DOMAIN feed.log /\ id \in Nat
        /\ Tail(pg) \in Seq(Nat)
        /\ \A k \in DOMAIN Tail(pg) : Tail(pg)[k] \in DOMAIN feed.log
        /\ Append(rd, id) \in Seq(Nat)
        /\ \A k \in DOMAIN Append(rd, id) : Append(rd, id)[k] \in DOMAIN feed.log
    BY <2>1
  <2>3. applyEvent(run.agents, id) \in [AgentIds -> FoldedAgents \cup {NoAgent}]
    BY <2>2, AppliedAgents DEF RaSyncTypeOK, Runs
  <2>4. /\ run' = [run EXCEPT !.agents = applyEvent(run.agents, id)]
        /\ drain' = [drain EXCEPT !.page = Tail(pg)]
        /\ past' = [past EXCEPT !.read = Append(rd, id)]
    BY <1>3 DEF ApplyNext, RaSyncTypeOK, Runs, Drains, Histories
  <2>5. /\ run' \in Runs
        /\ drain' \in Drains /\ drain'.page = Tail(pg)
        /\ past' \in Histories /\ past'.read = Append(rd, id)
    BY <2>2, <2>3, <2>4 DEF RaSyncTypeOK, Runs, Drains, Histories
  <2>. QED
    BY <1>3, <2>2, <2>5 DEF ApplyNext, RaSyncTypeOK
<1>4. CASE NextCursor
  <2>1. /\ run' \in Runs
        /\ drain' \in Drains /\ drain'.page = drain.page
    BY <1>4 DEF NextCursor, RaSyncTypeOK, Runs, Drains
  <2>. QED
    BY <1>4, <2>1 DEF NextCursor, RaSyncTypeOK
<1>5. CASE Runaway
  BY <1>5, FailShape DEF Runaway, RaSyncTypeOK
<1>6. CASE Drained
  <2>1. run' \in Runs
    BY <1>6, FailShape DEF Drained, RaSyncTypeOK, Runs
  <2>. QED
    BY <1>6, <2>1 DEF Drained, RaSyncTypeOK
<1>. QED
  BY <1>1, <1>2, <1>3, <1>4, <1>5, <1>6

\* The start, the deadline and the death of a run.
LEMMA TypeRun ==
  ASSUME RaSyncTypeOK, Start \/ Expire \/ Crash
  PROVE  RaSyncTypeOK'
<1>0. \A q : q = <<>> => \A k \in DOMAIN q : FALSE
  OBVIOUS
<1>1. CASE Start
  <2>1. past' \in Histories /\ past'.read = <<>>
    BY <1>1 DEF Start, RaSyncTypeOK, Feeds, Histories
  <2>2. expired' \in BOOLEAN
    BY <1>1 DEF Start
  <2>. QED
    BY <1>0, <1>1, <2>1, <2>2, IdleShape DEF Start, RaSyncTypeOK
<1>2. CASE Expire
  BY <1>2 DEF Expire, RaSyncTypeOK
<1>3. CASE Crash
  <2>1. dir' \in [AgentIds -> Fixtures \cup {NoFixture, Torn}]
    BY <1>3 DEF Crash, Without, RaSyncTypeOK
  <2>. QED
    BY <1>0, <1>3, <2>1, IdleShape DEF Crash, RaSyncTypeOK
<1>. QED
  BY <1>1, <1>2, <1>3

\* The agents to enrich have been folded.  This is what the type needs of the
\* run besides itself.
TodoFolded == run.phase = "enrich" => run.todo \subseteq Folds

\* The writing of the fixtures.
LEMMA TypeFixtures ==
  ASSUME RaSyncTypeOK, TodoFolded,
         \/ PrepareOutDir \/ PrepareFails \/ Finish
         \/ \E a \in AgentIds : Enrich(a) \/ Degrade(a) \/ Abort(a)
  PROVE  RaSyncTypeOK'
<1>1. CASE PrepareOutDir
  <2>1. run' \in Runs
    BY <1>1 DEF PrepareOutDir, RaSyncTypeOK, Runs, Folds
  <2>2. dir' \in [AgentIds -> Fixtures \cup {NoFixture, Torn}]
    BY <1>1 DEF PrepareOutDir, EmptyDir
  <2>. QED
    BY <1>1, <2>1, <2>2 DEF PrepareOutDir, RaSyncTypeOK
<1>2. CASE PrepareFails
  <2>1. dir' \in [AgentIds -> Fixtures \cup {NoFixture, Torn}]
    BY <1>2 DEF PrepareFails, Without, RaSyncTypeOK
  <2>2. run' \in Runs
    BY <1>2, FailShape DEF PrepareFails
  <2>. QED
    BY <1>2, <2>1, <2>2 DEF PrepareFails, RaSyncTypeOK
<1>3. CASE Finish
  <2>1. run' \in Runs
    BY <1>3, FailShape DEF Finish, RaSyncTypeOK, Runs
  <2>. QED
    BY <1>3, <2>1 DEF Finish, RaSyncTypeOK
<1>4. ASSUME NEW a \in AgentIds, Enrich(a)
      PROVE  RaSyncTypeOK'
  <2>1. a \in Folds
    BY <1>4 DEF Enrich, TodoFolded
  <2>2. PICK badge \in Badges : Capture(a, badge, 0)
    BY <1>4 DEF Enrich
  <2>3. /\ run' \in Runs /\ summary' \in Summaries
        /\ dir' \in [AgentIds -> Fixtures \cup {NoFixture, Torn}]
    BY <2>1, <2>2, CaptureShape, RaSyncConstants
  <2>4. past' \in Histories /\ past'.read = past.read
    BY <1>4 DEF Enrich, RaSyncTypeOK, Histories
  <2>. QED
    BY <1>4, <2>3, <2>4 DEF Enrich, RaSyncTypeOK
<1>5. ASSUME NEW a \in AgentIds, Degrade(a)
      PROVE  RaSyncTypeOK'
  <2>1. a \in Folds
    BY <1>5 DEF Degrade, TodoFolded
  <2>2. /\ run' \in Runs /\ summary' \in Summaries
        /\ dir' \in [AgentIds -> Fixtures \cup {NoFixture, Torn}]
    BY <1>5, <2>1, CaptureShape, NoBadgeShape DEF Degrade
  <2>. QED
    BY <1>5, <2>2 DEF Degrade, RaSyncTypeOK
<1>6. ASSUME NEW a \in AgentIds, Abort(a)
      PROVE  RaSyncTypeOK'
  BY <1>6, FailShape DEF Abort, RaSyncTypeOK
<1>. QED
  BY <1>1, <1>2, <1>3, <1>4, <1>5, <1>6

(***************************************************************************)
(* The inductive invariant: what the run has touched, and what it has      *)
(* counted.                                                                *)
(***************************************************************************)

\* The fixtures are untouched until the fold has an agent.
Sparing ==
  /\ run.phase \in {"fetch", "apply", "prepare"} => dir = past.before
  /\ run.error \in {"fetch", "runaway", "empty"} => dir = past.before
  /\ run.phase # "failed" => run.error = "none"
  /\ run.phase \in {"prepare", "enrich", "ok"} => run.agents # NoAgents
  /\ run.phase = "failed" /\ run.error \notin {"fetch", "runaway", "empty"} =>
       run.agents # NoAgents

\* The agents the enrichment loop is done with.
Done == Folds \ run.todo

\* The counters are the sizes of what the loop has done, and what it has
\* written is whole.
Tally ==
  /\ run.phase \in {"fetch", "apply", "prepare"} =>
       past.answered = {} /\ summary = NoSummary
  /\ run.phase \in {"enrich", "ok"} =>
       /\ run.todo \subseteq Folds
       /\ Files \subseteq Done
       /\ \A a \in Files : dir[a] # Torn /\ Valid(dir[a])
       /\ summary.captured = Cardinality(Files)
       /\ summary.captured + summary.drops = Cardinality(Done)
       /\ past.answered \subseteq Done
       /\ summary.misses = Cardinality(Done \ past.answered)
       /\ \A a \in Files \ past.answered : dir[a] = toEvent(run.agents[a], NoBadge)
  /\ run.phase = "ok" =>
       run.todo = {} /\ summary.misses # Cardinality(Folds) /\ summary.captured # 0

CaptureInv == RaSyncTypeOK /\ Sparing /\ Tally

\* The folded agents and those still to enrich are finite, so that Run's counters count.
LEMMA FiniteFolds ==
  /\ IsFiniteSet(Folds) /\ IsFiniteSet(Done) /\ IsFiniteSet(Files)
  /\ IsFiniteSet(Done \ past.answered)
<1>1. Folds \in SUBSET AgentIds /\ Done \in SUBSET AgentIds /\ Files \in SUBSET AgentIds
      /\ Done \ past.answered \in SUBSET AgentIds
  BY DEF Folds, Done, Files
<1>. QED
  BY <1>1, FS_Subset, RaSyncConstants

\* One agent more is done: captured, dropped or lost to a failed write.
LEMMA TallyCapture ==
  ASSUME CaptureInv, run.phase = "enrich", NEW a \in run.todo,
         NEW badge \in BadgeEvents, NEW miss \in {0, 1}, Capture(a, badge, miss),
         \/ miss = 0 /\ past'.answered = past.answered \cup {a}
         \/ miss = 1 /\ badge = NoBadge /\ past'.answered = past.answered
  PROVE  Tally'
<1>. DEFINE ev == toEvent(run.agents[a], badge)
<1>1. /\ a \in Folds /\ a \notin Done /\ a \notin Files /\ a \in AgentIds
      /\ a \notin past.answered
      /\ ev \in Fixtures
  <2>1. a \in Folds /\ a \notin Done
    BY DEF CaptureInv, Tally, Done
  <2>. QED
    BY <2>1, FoldsShape, EventShape DEF CaptureInv, Tally
<1>2. /\ Cardinality(Done \cup {a}) = Cardinality(Done) + 1
      /\ Cardinality(Files \cup {a}) = Cardinality(Files) + 1
      /\ Cardinality((Done \ past.answered) \cup {a}) = Cardinality(Done \ past.answered) + 1
      /\ Cardinality(Done) \in Nat /\ Cardinality(Files) \in Nat
      /\ Cardinality(Done \ past.answered) \in Nat
  BY <1>1, FiniteFolds, FS_AddElement, FS_CardinalityType
<1>. HIDE DEF ev
<1>3. CASE /\ run' = [run EXCEPT !.todo = @ \ {a}]
           /\ \/ /\ ~Valid(ev)
                 /\ summary' = [summary EXCEPT !.misses = @ + miss, !.drops = @ + 1]
                 /\ UNCHANGED dir
              \/ /\ Valid(ev)
                 /\ summary' = [summary EXCEPT !.misses = @ + miss, !.captured = @ + 1]
                 /\ dir' = [dir EXCEPT ![a] = ev]
  <2>1. /\ run'.phase = "enrich" /\ run'.agents = run.agents
        /\ run'.todo = run.todo \ {a}
    BY <1>3 DEF CaptureInv, RaSyncTypeOK, Runs
  <2>2. Folds' = Folds /\ Done' = Done \cup {a}
    BY <1>1, <2>1 DEF Folds, Done
  <2>3. Cardinality((Done \ past.answered)') = Cardinality(Done \ past.answered) + miss
        /\ past'.answered \subseteq Done'
    <3>1. CASE miss = 0 /\ past'.answered = past.answered \cup {a}
      <4>1. (Done \ past.answered)' = Done \ past.answered
        BY <1>1, <2>2, <3>1
      <4>2. Cardinality(Done \ past.answered) = Cardinality(Done \ past.answered) + miss
        BY <1>2, <3>1
      <4>3. past.answered \subseteq Done
        BY DEF CaptureInv, Tally
      <4>4. past'.answered \subseteq Done'
        BY <2>2, <3>1, <4>3
      <4>. QED
        BY <4>1, <4>2, <4>4
    <3>2. CASE miss = 1 /\ past'.answered = past.answered
      <4>1. (Done \ past.answered)' = (Done \ past.answered) \cup {a}
        BY <1>1, <2>2, <3>2
      <4>. QED
        BY <1>2, <2>2, <3>2, <4>1 DEF CaptureInv, Tally
    <3>. QED
      BY <3>1, <3>2
  <2>4. /\ summary.captured \in Nat /\ summary.drops \in Nat /\ summary.misses \in Nat
        /\ summary.captured = Cardinality(Files)
        /\ summary.captured + summary.drops = Cardinality(Done)
        /\ summary.misses = Cardinality(Done \ past.answered)
    BY DEF CaptureInv, RaSyncTypeOK, Summaries, Tally
  <2>5. CASE /\ ~Valid(ev)
             /\ summary' = [summary EXCEPT !.misses = @ + miss, !.drops = @ + 1]
             /\ UNCHANGED dir
    <3>1. Files' = Files
      BY <2>5 DEF Files
    <3>2. /\ summary'.captured = summary.captured /\ summary'.drops = summary.drops + 1
          /\ summary'.misses = summary.misses + miss
      BY <2>5 DEF CaptureInv, RaSyncTypeOK, Summaries
    <3>3. /\ summary'.captured + summary'.drops = Cardinality(Done')
          /\ summary'.misses = Cardinality((Done \ past.answered)')
      BY <1>2, <2>2, <2>3, <2>4, <3>2
    <3>. QED
      BY <1>1, <2>1, <2>2, <2>3, <2>4, <2>5, <3>1, <3>2, <3>3
      DEF CaptureInv, Tally
  <2>6. CASE /\ Valid(ev)
             /\ summary' = [summary EXCEPT !.misses = @ + miss, !.captured = @ + 1]
             /\ dir' = [dir EXCEPT ![a] = ev]
    <3>1. /\ dir'[a] = ev /\ ev # NoFixture /\ ev # Torn
          /\ \A b \in AgentIds : b # a => dir'[b] = dir[b]
      BY <1>1, <2>6, RaSyncConstants DEF CaptureInv, RaSyncTypeOK
    <3>2. Files' = Files \cup {a}
      BY <1>1, <3>1 DEF Files
    <3>3. /\ summary'.captured = summary.captured + 1 /\ summary'.drops = summary.drops
          /\ summary'.misses = summary.misses + miss
      BY <2>6 DEF CaptureInv, RaSyncTypeOK, Summaries
    <3>4. /\ summary'.captured + summary'.drops = Cardinality(Done')
          /\ summary'.captured = Cardinality(Files')
          /\ summary'.misses = Cardinality((Done \ past.answered)')
      BY <1>2, <2>2, <2>3, <2>4, <3>2, <3>3
    <3>5. \A b \in Files' : dir'[b] # Torn /\ Valid(dir'[b])
      BY <2>6, <3>1, <3>2 DEF CaptureInv, Tally, Files
    <3>6. \A b \in Files' \ past'.answered : dir'[b] = toEvent(run'.agents[b], NoBadge)
      <4>. SUFFICES ASSUME NEW b \in Files' \ past'.answered
                    PROVE  dir'[b] = toEvent(run.agents[b], NoBadge)
        BY <2>1
      <4>1. CASE b = a
        BY <3>1, <4>1 DEF ev
      <4>2. CASE b # a
        BY <3>1, <3>2, <4>2 DEF CaptureInv, Tally, Files
      <4>. QED
        BY <4>1, <4>2
    <3>7. run'.todo \subseteq Folds' /\ Files' \subseteq Done'
      BY <2>1, <2>2, <3>2 DEF CaptureInv, Tally
    <3>. QED
      BY <2>1, <2>3, <3>4, <3>5, <3>6, <3>7 DEF Tally, Valid, toEvent
  <2>. QED
    BY <1>3, <2>5, <2>6
<1>4. CASE Fail("write")
  BY <1>4 DEF Fail, Tally, CaptureInv, RaSyncTypeOK, Runs
<1>. QED
  BY <1>3, <1>4 DEF Capture, ev

\* Nothing has run: there is nothing to spare and nothing to tally.
LEMMA InvInit == Init => CaptureInv
<1>. SUFFICES ASSUME Init PROVE CaptureInv
  OBVIOUS
<1>1. run.phase = "idle" /\ run.error = "none"
  BY DEF Init, IdleRun
<1>. QED
  BY <1>1, TypeInit DEF CaptureInv, Sparing, Tally

\* The agents, the directory and what the run recalls decide the rest.
LEMMA InvUnmoved ==
  ASSUME CaptureInv, RaSyncTypeOK', run' = run, dir' = dir, summary' = summary, past' = past
  PROVE  CaptureInv'
<1>1. Folds' = Folds /\ Done' = Done /\ Files' = Files
  BY DEF Folds, Done, Files
<1>. QED
  BY <1>1 DEF CaptureInv, Sparing, Tally, Valid, toEvent

\* A failure leaves the agents; the feed's leave the directory too.
LEMMA InvFail ==
  ASSUME CaptureInv, RaSyncTypeOK', past' = past,
         NEW error \in {"fetch", "runaway", "empty", "prepare", "aborted", "degraded", "nothing"},
         Fail(error),
         \/ error \in {"fetch", "runaway", "empty"} /\ dir' = dir
            /\ run.phase \in {"fetch", "apply"}
         \/ error \notin {"fetch", "runaway", "empty"}
            /\ run.phase \in {"prepare", "enrich"}
  PROVE  CaptureInv'
<1>1. /\ run'.phase = "failed" /\ run'.error = error /\ run'.agents = run.agents
  BY DEF Fail, CaptureInv, RaSyncTypeOK, Runs
<1>. QED
  BY <1>1 DEF CaptureInv, Sparing, Tally

\* The reading of the feed touches no fixture and counts nothing.
LEMMA InvDrain ==
  ASSUME CaptureInv, RaSyncTypeOK',
         FetchPage \/ FetchFails \/ ApplyNext \/ NextCursor \/ Runaway \/ Drained
  PROVE  CaptureInv'
<1>1. CASE FetchPage \/ NextCursor
  <2>1. /\ run.phase \in {"fetch", "apply"} /\ run'.phase \in {"fetch", "apply"}
        /\ run'.error = run.error
        /\ UNCHANGED <<summary, dir, past>>
    BY <1>1 DEF FetchPage, NextCursor, PageApplied, CaptureInv, RaSyncTypeOK, Runs
  <2>. QED
    BY <2>1 DEF CaptureInv, Sparing, Tally
<1>2. CASE FetchFails
  BY <1>2, InvFail DEF FetchFails
<1>3. CASE ApplyNext
  <2>1. /\ run.phase = "apply" /\ run'.phase = "apply" /\ run'.error = run.error
        /\ past'.before = past.before /\ past'.answered = past.answered
        /\ UNCHANGED <<summary, dir>>
    BY <1>3 DEF ApplyNext, CaptureInv, RaSyncTypeOK, Runs, Histories
  <2>. QED
    BY <2>1 DEF CaptureInv, Sparing, Tally
<1>4. CASE Runaway
  BY <1>4, InvFail DEF Runaway, PageApplied
<1>5. CASE Drained /\ run.agents = NoAgents
  BY <1>5, InvFail DEF Drained, PageApplied
<1>6. CASE Drained /\ run.agents # NoAgents
  <2>1. /\ run.phase = "apply" /\ run'.phase = "prepare" /\ run'.error = run.error
        /\ run'.agents = run.agents
        /\ UNCHANGED <<summary, dir, past>>
    BY <1>6 DEF Drained, PageApplied, CaptureInv, RaSyncTypeOK, Runs
  <2>. QED
    BY <1>6, <2>1 DEF CaptureInv, Sparing, Tally
<1>. QED
  BY <1>1, <1>2, <1>3, <1>4, <1>5, <1>6

\* A run begins with the fixtures it finds, and a dead one promises nothing.
LEMMA InvRun ==
  ASSUME CaptureInv, RaSyncTypeOK', Start \/ Crash
  PROVE  CaptureInv'
<1>1. CASE Start
  <2>1. /\ run'.phase = "fetch" /\ run'.error = "none"
        /\ summary' = NoSummary /\ dir' = dir
        /\ past'.before = dir /\ past'.answered = {}
    BY <1>1 DEF Start, IdleRun
  <2>. QED
    BY <2>1 DEF CaptureInv, Sparing, Tally
<1>2. CASE Crash
  <2>1. run'.phase = "idle" /\ run'.error = "none"
    BY <1>2 DEF Crash, IdleRun
  <2>. QED
    BY <2>1 DEF CaptureInv, Sparing, Tally
<1>. QED
  BY <1>1, <1>2

\* The loop's step for one agent keeps the rest of the invariant.
LEMMA InvCapture ==
  ASSUME CaptureInv, RaSyncTypeOK', run.phase = "enrich", NEW a \in run.todo,
         NEW badge \in BadgeEvents, NEW miss \in {0, 1}, Capture(a, badge, miss),
         \/ miss = 0 /\ past'.answered = past.answered \cup {a}
         \/ miss = 1 /\ badge = NoBadge /\ past'.answered = past.answered
  PROVE  CaptureInv'
<1>1. Tally'
  BY TallyCapture
<1>2. \/ run'.phase = "enrich" /\ run'.error = run.error /\ run'.agents = run.agents
      \/ run'.phase = "failed" /\ run'.error = "write" /\ run'.agents = run.agents
  BY DEF Capture, Fail, CaptureInv, RaSyncTypeOK, Runs
<1>3. run.error = "none" /\ run.agents # NoAgents
  BY DEF CaptureInv, Sparing
<1>4. Sparing'
  BY <1>2, <1>3 DEF Sparing
<1>. QED
  BY <1>1, <1>4 DEF CaptureInv

\* The wipe, the enrichment loop and the end of Run keep the invariant.
LEMMA InvFixtures ==
  ASSUME CaptureInv, RaSyncTypeOK',
         \/ PrepareOutDir \/ PrepareFails \/ Finish
         \/ \E a \in AgentIds : Enrich(a) \/ Degrade(a) \/ Abort(a)
  PROVE  CaptureInv'
<1>1. CASE PrepareOutDir
  <2>1. /\ run.phase = "prepare" /\ run'.phase = "enrich" /\ run'.error = run.error
        /\ run'.agents = run.agents /\ run'.todo = Folds
        /\ UNCHANGED <<summary, past>> /\ dir' = EmptyDir
    BY <1>1 DEF PrepareOutDir, CaptureInv, RaSyncTypeOK, Runs
  <2>2. Folds' = Folds /\ Done' = {} /\ Files' = {}
    BY <2>1 DEF Folds, Done, Files, EmptyDir
  <2>3. Cardinality({}) = 0 /\ Done' \ past'.answered = {}
    BY <2>2, FS_EmptySet
  <2>4. past'.answered = {} /\ summary' = NoSummary
    BY <2>1 DEF CaptureInv, Tally
  <2>5. /\ summary'.captured = 0 /\ summary'.drops = 0 /\ summary'.misses = 0
    BY <2>4 DEF NoSummary
  <2>6. Tally'
    BY <2>1, <2>2, <2>3, <2>4, <2>5 DEF Tally
  <2>7. Sparing'
    BY <2>1 DEF CaptureInv, Sparing
  <2>. QED
    BY <2>6, <2>7 DEF CaptureInv
<1>2. CASE PrepareFails
  BY <1>2, InvFail DEF PrepareFails
<1>3. CASE Finish /\ (Fail("degraded") \/ Fail("nothing"))
  BY <1>3, InvFail DEF Finish
<1>4. CASE Finish /\ /\ summary.misses # Cardinality(Folds) /\ summary.captured # 0
                     /\ run' = [run EXCEPT !.phase = "ok"]
  <2>1. /\ run.phase = "enrich" /\ run'.phase = "ok" /\ run'.error = run.error
        /\ run'.agents = run.agents /\ run'.todo = run.todo /\ run.todo = {}
        /\ UNCHANGED <<summary, past, dir>>
    BY <1>4 DEF Finish, CaptureInv, RaSyncTypeOK, Runs
  <2>2. Folds' = Folds /\ Done' = Done /\ Files' = Files
    BY <2>1 DEF Folds, Done, Files
  <2>3. Tally'
    BY <1>4, <2>1, <2>2 DEF CaptureInv, Tally, Valid, toEvent
  <2>4. Sparing'
    BY <2>1 DEF CaptureInv, Sparing
  <2>. QED
    BY <2>3, <2>4 DEF CaptureInv
<1>5. ASSUME NEW a \in AgentIds, Enrich(a)
      PROVE  CaptureInv'
  <2>1. PICK badge \in Badges : Capture(a, badge, 0)
    BY <1>5 DEF Enrich
  <2>2. badge \in BadgeEvents /\ a \in run.todo /\ run.phase = "enrich"
    BY <1>5, RaSyncConstants DEF Enrich
  <2>3. past'.answered = past.answered \cup {a}
    BY <1>5 DEF Enrich, CaptureInv, RaSyncTypeOK, Histories
  <2>. QED
    BY <2>1, <2>2, <2>3, InvCapture
<1>6. ASSUME NEW a \in AgentIds, Degrade(a)
      PROVE  CaptureInv'
  <2>1. NoBadge \in BadgeEvents /\ a \in run.todo /\ run.phase = "enrich"
        /\ past' = past /\ Capture(a, NoBadge, 1)
    BY <1>6, NoBadgeShape DEF Degrade
  <2>. QED
    BY <2>1, InvCapture
<1>7. ASSUME NEW a \in AgentIds, Abort(a)
      PROVE  CaptureInv'
  BY <1>7, InvFail DEF Abort
<1>. QED
  BY <1>1, <1>2, <1>3, <1>4, <1>5, <1>6, <1>7 DEF Finish

\* Every step keeps the invariant.
LEMMA InvStep == CaptureInv /\ [Next]_vars => CaptureInv'
<1>. SUFFICES ASSUME CaptureInv, [Next]_vars PROVE CaptureInv'
  OBVIOUS
<1>0. RaSyncTypeOK /\ TodoFolded
  BY DEF CaptureInv, Tally, TodoFolded
<1>1. CASE Publish \/ Age
  BY <1>0, <1>1, TypeFeed, InvUnmoved DEF Publish, Age
<1>2. CASE Start \/ Crash
  BY <1>0, <1>2, TypeRun, InvRun
<1>3. CASE Expire
  BY <1>0, <1>3, TypeRun, InvUnmoved DEF Expire
<1>4. CASE FetchPage \/ FetchFails \/ ApplyNext \/ NextCursor \/ Runaway \/ Drained
  BY <1>0, <1>4, TypeDrain, InvDrain
<1>5. CASE \/ PrepareOutDir \/ PrepareFails \/ Finish
           \/ \E a \in AgentIds : Enrich(a) \/ Degrade(a) \/ Abort(a)
  BY <1>0, <1>5, TypeFixtures, InvFixtures
<1>6. CASE UNCHANGED vars
  <2>1. RaSyncTypeOK'
    BY <1>0, <1>6 DEF vars, RaSyncTypeOK
  <2>. QED
    BY <1>6, <2>1, InvUnmoved DEF vars
<1>. QED
  BY <1>1, <1>2, <1>3, <1>4, <1>5, <1>6 DEF Next, RunStep

\* The invariant of the capture holds always.
LEMMA InvAlways == Spec => []CaptureInv
  BY InvInit, InvStep, PTL DEF Spec

(***************************************************************************)
(* What follows.                                                           *)
(***************************************************************************)

\* The capture's state keeps its shape, for every feed, page size and set of
\* agents (Run, drainAndFold).
THEOREM CaptureTypeTheorem == Spec => []RaSyncTypeOK
<1>1. CaptureInv => RaSyncTypeOK
  BY DEF CaptureInv
<1>. QED
  BY <1>1, InvAlways, PTL

\* A feed that fails, never ends or has no agent costs no fixture (Run returns
\* before prepareOutDir).
THEOREM SparingTheorem == Spec => []FeedTroubleSparesFixtures
<1>1. CaptureInv => FeedTroubleSparesFixtures
  BY DEF CaptureInv, RaSyncTypeOK, Runs, Sparing, FeedTroubleSparesFixtures
<1>. QED
  BY <1>1, InvAlways, PTL

\* What a green run leaves loads, and its summary counts it (Run, LoadDir).
THEOREM GreenLoadsTheorem == Spec => []GreenSetLoads
<1>1. CaptureInv => GreenSetLoads
  <2>. SUFFICES ASSUME CaptureInv, run.phase = "ok"
                PROVE  /\ Files # {} /\ Files \subseteq Folds
                       /\ \A a \in Files : dir[a] # Torn /\ Valid(dir[a])
                       /\ summary.captured = Cardinality(Files)
                       /\ summary.captured + summary.drops = Cardinality(Folds)
    BY DEF GreenSetLoads, Loads
  <2>1. Done = Folds
    BY DEF CaptureInv, Tally, Done
  <2>2. Files # {}
    BY FS_EmptySet DEF CaptureInv, Tally
  <2>. QED
    BY <2>1, <2>2 DEF CaptureInv, Tally
<1>. QED
  BY <1>1, InvAlways, PTL

\* A green run has heard from the log, wrote the rest from the feed alone, and
\* tells by its counters when that rest is all it wrote (Run's refusal of an
\* all-degraded capture, toEvent).
THEOREM GreenNotBlindTheorem == Spec => []GreenIsNotBlind
<1>1. CaptureInv => GreenIsNotBlind
  <2>. SUFFICES ASSUME CaptureInv, run.phase = "ok"
                PROVE  /\ past.answered # {}
                       /\ summary.misses = Cardinality(Folds \ past.answered)
                       /\ \A a \in Files \ past.answered :
                            dir[a] = toEvent(run.agents[a], NoBadge)
                       /\ Files \cap past.answered = {} => summary.drops > 0 /\ summary.misses > 0
    BY DEF GreenIsNotBlind
  <2>1. Done = Folds
    BY DEF CaptureInv, Tally, Done
  <2>2. /\ past.answered # {} /\ past.answered \subseteq Folds
        /\ summary.misses = Cardinality(Folds \ past.answered)
    <3>1. Folds \ {} = Folds
      OBVIOUS
    <3>. QED
      BY <2>1, <3>1 DEF CaptureInv, Tally
  <2>3. \A a \in Files \ past.answered : dir[a] = toEvent(run.agents[a], NoBadge)
    BY DEF CaptureInv, Tally
  <2>4. ASSUME Files \cap past.answered = {}
        PROVE  summary.drops > 0 /\ summary.misses > 0
    <3>. DEFINE W == Folds \ past.answered
    <3>1. Files \in SUBSET W /\ W \in SUBSET Folds /\ W # Folds
      BY <2>1, <2>2, <2>4 DEF CaptureInv, Tally
    <3>2. IsFiniteSet(Folds) /\ IsFiniteSet(W) /\ IsFiniteSet(Files)
      BY <2>1, FiniteFolds
    <3>. HIDE DEF W
    <3>3. Cardinality(Files) <= Cardinality(W)
      BY <3>1, <3>2, FS_Subset
    <3>4. Cardinality(W) <= Cardinality(Folds) /\ Cardinality(W) # Cardinality(Folds)
      BY <3>1, <3>2, FS_Subset
    <3>5. /\ Cardinality(Files) \in Nat /\ Cardinality(W) \in Nat /\ Cardinality(Folds) \in Nat
      BY <3>2, FS_CardinalityType
    <3>6. /\ summary.captured = Cardinality(Files) /\ summary.captured # 0
          /\ summary.captured + summary.drops = Cardinality(Folds)
          /\ summary.drops \in Nat
      BY <2>1 DEF CaptureInv, Tally, RaSyncTypeOK, Summaries
    <3>. QED
      BY <2>2, <3>3, <3>4, <3>5, <3>6 DEF W
  <2>. QED
    BY <2>2, <2>3, <2>4
<1>. QED
  BY <1>1, InvAlways, PTL

(***************************************************************************)
(* The fold.                                                               *)
(***************************************************************************)

\* First seen is set once, by the first dated registration.
FirstSeenOnce(a) ==
  run.agents[a] # NoAgent =>
    (run.agents[a].firstSeen = Absent <=> Registered(a) = {})

FoldInv ==
  run.phase # "idle" => \A a \in AgentIds : FoldedFromReads(a) /\ FirstSeenOnce(a)

\* Steps that read nothing change nothing in what was read.
LEMMA FoldUnmoved ==
  ASSUME RaSyncTypeOK, FoldInv, past'.read = past.read, run'.agents = run.agents,
         run.phase # "idle", Publish \/ feed'.log = feed.log
  PROVE  FoldInv'
<1>1. \A k \in DOMAIN past.read : feed'.log[past.read[k]] = feed.log[past.read[k]]
  <2>1. CASE Publish
    <3>1. PICK it \in Items : feed' = [feed EXCEPT !.log = Append(@, it)]
      BY <2>1 DEF Publish
    <3>. DEFINE log == feed.log
    <3>2. log \in Seq(Items) /\ feed'.log = Append(log, it)
      BY <3>1 DEF RaSyncTypeOK, Feeds
    <3>3. \A i \in DOMAIN log : Append(log, it)[i] = log[i]
      BY <3>2
    <3>. QED
      BY <3>2, <3>3 DEF RaSyncTypeOK
  <2>. QED
    BY <2>1
<1>2. \A a : /\ Known(a)' = Known(a) /\ Hosted(a)' = Hosted(a) /\ Named(a)' = Named(a)
             /\ Dated(a)' = Dated(a) /\ Registered(a)' = Registered(a)
             /\ Known(a) \subseteq DOMAIN past.read /\ Hosted(a) \subseteq DOMAIN past.read
             /\ Named(a) \subseteq DOMAIN past.read
  BY <1>1 DEF Known, Hosted, Named, Dated, Registered, Recognized
<1>. QED
  BY <1>1, <1>2 DEF FoldInv, FoldedFromReads, FirstSeenOnce, Newest, Oldest

\* A row is applied to the agent it names, and to no other.
LEMMA FoldApply ==
  ASSUME RaSyncTypeOK, FoldInv, ApplyNext, NEW a \in AgentIds
  PROVE  (FoldedFromReads(a) /\ FirstSeenOnce(a))'
<1>. DEFINE id == Head(drain.page)
            rd == past.read
            n  == Len(rd) + 1
            it == feed.log[id]
            hit == Recognized(id) /\ it.agentId = a
<1>1. /\ id \in DOMAIN feed.log /\ id \in Nat /\ rd \in Seq(Nat) /\ feed' = feed
      /\ past'.read = Append(rd, id) /\ run'.agents = applyEvent(run.agents, id)
  <2>1. drain.page \in Seq(Nat) /\ drain.page # <<>>
        /\ \A k \in DOMAIN drain.page : drain.page[k] \in DOMAIN feed.log
    BY DEF ApplyNext, RaSyncTypeOK, Drains
  <2>2. id \in Nat /\ id \in DOMAIN feed.log
    BY <2>1
  <2>. QED
    BY <2>2 DEF ApplyNext, RaSyncTypeOK, Runs, Histories
<1>2. /\ n \in Nat /\ DOMAIN rd = 1 .. n - 1 /\ DOMAIN past'.read = 1 .. n
      /\ past'.read[n] = id /\ \A k \in 1 .. n - 1 : past'.read[k] = rd[k]
  BY <1>1
<1>. HIDE DEF id, n, rd
<1>3. Known(a)' = Known(a) \cup (IF hit THEN {n} ELSE {}) /\ Known(a) \subseteq 1 .. n - 1
  BY <1>1, <1>2 DEF Known, Recognized, rd
<1>4. /\ Hosted(a)' = Hosted(a) \cup (IF hit /\ it.host # Absent THEN {n} ELSE {})
      /\ Named(a)' = Named(a) \cup (IF hit /\ it.name # Absent THEN {n} ELSE {})
      /\ Dated(a)' = Dated(a) \cup (IF hit /\ it.dated THEN {n} ELSE {})
  BY <1>1, <1>2, <1>3 DEF Hosted, Named, Dated, rd
<1>5. Registered(a)' = Registered(a)
                         \cup (IF hit /\ it.dated /\ it.eventType = "AGENT_REGISTERED"
                               THEN {n} ELSE {})
  BY <1>1, <1>2, <1>3, <1>4 DEF Registered, Dated, rd
<1>6. /\ Hosted(a) \subseteq 1 .. n - 1 /\ Named(a) \subseteq 1 .. n - 1
      /\ Dated(a) \subseteq 1 .. n - 1 /\ Registered(a) \subseteq Dated(a)
  BY <1>3 DEF Hosted, Named, Dated, Registered
<1>7. FoldedFromReads(a) /\ FirstSeenOnce(a)
  BY DEF FoldInv, ApplyNext
<1>8. CASE ~hit
  <2>1. run'.agents[a] = run.agents[a]
    BY <1>1, <1>8 DEF applyEvent, RaSyncTypeOK, Runs
  <2>2. /\ Known(a)' = Known(a) /\ Hosted(a)' = Hosted(a) /\ Named(a)' = Named(a)
        /\ Dated(a)' = Dated(a) /\ Registered(a)' = Registered(a)
    BY <1>3, <1>4, <1>5, <1>8
  <2>. QED
    BY <1>1, <1>2, <1>3, <1>6, <1>7, <2>1, <2>2
    DEF FoldedFromReads, FirstSeenOnce, Newest, Oldest, rd
<1>9. CASE hit
  <2>. DEFINE fa == IF run.agents[a] = NoAgent THEN ZeroAgent ELSE run.agents[a]
              fb == run'.agents[a]
  <2>1. fb = Folded(run.agents[a], id) /\ fb # NoAgent
    <3>1. fb = Folded(run.agents[a], id)
      BY <1>1, <1>9 DEF applyEvent, RaSyncTypeOK, Runs
    <3>2. Folded(run.agents[a], id) \in FoldedAgents
      BY <1>1, <1>9, AppliedAgents DEF RaSyncTypeOK, Runs
    <3>. QED
      BY <3>1, <3>2, RaSyncConstants
  <2>2. /\ fb.status = statusForEventType(it.eventType)
        /\ fb.host = Given(it.host, fa.host) /\ fb.name = Given(it.name, fa.name)
        /\ fb.lastUpdated = IF it.dated THEN id ELSE fa.lastUpdated
        /\ fb.firstSeen = IF it.eventType = "AGENT_REGISTERED" /\ it.dated /\ fa.firstSeen = Absent
                          THEN id ELSE fa.firstSeen
    <3>1. id # Absent
      BY <1>1, RaSyncConstants
    <3>. QED
      BY <2>1, <3>1 DEF Folded, Given, CreatedAt
  <2>3. /\ Known(a) # {} => run.agents[a] # NoAgent /\ fa = run.agents[a]
        /\ Known(a) = {} => fa.firstSeen = Absent
        /\ Hosted(a) # {} => Known(a) # {}
        /\ Named(a) # {} => Known(a) # {}
        /\ Dated(a) # {} => Known(a) # {}
    BY <1>7 DEF FoldedFromReads, ZeroAgent, Hosted, Named, Dated
  <2>4. fa.firstSeen = Absent <=> Registered(a) = {}
    BY <1>6, <1>7, <2>3 DEF FoldedFromReads, FirstSeenOnce
  <2>. HIDE DEF fa, fb, it
  <2>5. \A k \in Known(a)' : Newest(k, Known(a)') =>
          fb.status = statusForEventType(feed.log[past'.read[k]].eventType)
    <3>. SUFFICES ASSUME NEW k \in Known(a)', Newest(k, Known(a)')
                  PROVE  fb.status = statusForEventType(feed.log[past'.read[k]].eventType)
      OBVIOUS
    <3>0. n \in Known(a)' /\ (k \in 1 .. n - 1 \/ k = n)
      BY <1>3, <1>9
    <3>1. k = n
      BY <1>2, <3>0 DEF Newest
    <3>. QED
      BY <1>2, <2>2, <3>1 DEF it
  <2>6. \A k \in Hosted(a)' : Newest(k, Hosted(a)') =>
          fb.host = feed.log[past'.read[k]].host
    <3>. SUFFICES ASSUME NEW k \in Hosted(a)', Newest(k, Hosted(a)')
                  PROVE  fb.host = feed.log[past'.read[k]].host
      OBVIOUS
    <3>1. CASE it.host # Absent
      <4>1. k = n
        BY <1>2, <1>4, <1>6, <1>9, <3>1 DEF Newest
      <4>. QED
        BY <1>2, <2>2, <3>1, <4>1 DEF it, Given
    <3>2. CASE it.host = Absent
      <4>1. Hosted(a)' = Hosted(a) /\ k \in 1 .. n - 1 /\ fa = run.agents[a]
        BY <1>4, <1>6, <2>3, <3>2
      <4>. QED
        BY <1>2, <1>7, <2>2, <3>2, <4>1 DEF FoldedFromReads, Given, rd
    <3>. QED
      BY <3>1, <3>2
  <2>7. \A k \in Named(a)' : Newest(k, Named(a)') =>
          fb.name = feed.log[past'.read[k]].name
    <3>. SUFFICES ASSUME NEW k \in Named(a)', Newest(k, Named(a)')
                  PROVE  fb.name = feed.log[past'.read[k]].name
      OBVIOUS
    <3>1. CASE it.name # Absent
      <4>1. k = n
        BY <1>2, <1>4, <1>6, <1>9, <3>1 DEF Newest
      <4>. QED
        BY <1>2, <2>2, <3>1, <4>1 DEF it, Given
    <3>2. CASE it.name = Absent
      <4>1. Named(a)' = Named(a) /\ k \in 1 .. n - 1 /\ fa = run.agents[a]
        BY <1>4, <1>6, <2>3, <3>2
      <4>. QED
        BY <1>2, <1>7, <2>2, <3>2, <4>1 DEF FoldedFromReads, Given, rd
    <3>. QED
      BY <3>1, <3>2
  <2>8. \A k \in Dated(a)' : Newest(k, Dated(a)') => fb.lastUpdated = past'.read[k]
    <3>. SUFFICES ASSUME NEW k \in Dated(a)', Newest(k, Dated(a)')
                  PROVE  fb.lastUpdated = past'.read[k]
      OBVIOUS
    <3>1. CASE it.dated
      <4>1. k = n
        BY <1>2, <1>4, <1>6, <1>9, <3>1 DEF Newest
      <4>. QED
        BY <1>2, <2>2, <3>1, <4>1
    <3>2. CASE ~it.dated
      <4>1. Dated(a)' = Dated(a) /\ k \in 1 .. n - 1 /\ fa = run.agents[a]
        BY <1>4, <1>6, <2>3, <3>2
      <4>. QED
        BY <1>2, <1>7, <2>2, <3>2, <4>1 DEF FoldedFromReads, rd
    <3>. QED
      BY <3>1, <3>2
  <2>9. \A k \in Registered(a)' : Oldest(k, Registered(a)') => fb.firstSeen = past'.read[k]
    <3>. SUFFICES ASSUME NEW k \in Registered(a)', Oldest(k, Registered(a)')
                  PROVE  fb.firstSeen = past'.read[k]
      OBVIOUS
    <3>1. CASE Registered(a) = {}
      <4>1. k = n /\ it.dated /\ it.eventType = "AGENT_REGISTERED"
        BY <1>5, <3>1
      <4>. QED
        BY <1>2, <2>2, <2>4, <3>1, <4>1
    <3>2. CASE Registered(a) # {}
      <4>1. k \in Registered(a) /\ Oldest(k, Registered(a)) /\ k \in 1 .. n - 1
        BY <1>2, <1>5, <1>6, <3>2 DEF Oldest
      <4>. QED
        BY <1>2, <1>6, <1>7, <2>2, <2>3, <2>4, <3>2, <4>1 DEF FoldedFromReads, rd
    <3>. QED
      BY <3>1, <3>2
  <2>10. fb.firstSeen = Absent <=> Registered(a)' = {}
    <3>1. id # Absent
      BY <1>1, RaSyncConstants
    <3>. QED
      BY <1>5, <1>9, <2>2, <2>4, <3>1
  <2>11. Known(a)' # {}
    BY <1>3, <1>9
  <2>. QED
    BY <1>1, <2>1, <2>5, <2>6, <2>7, <2>8, <2>9, <2>10, <2>11
    DEF FoldedFromReads, FirstSeenOnce, fb
<1>. QED
  BY <1>8, <1>9

\* Every step keeps the fold equal to what was read (drainAndFold).
LEMMA FoldStep == CaptureInv /\ FoldInv /\ [Next]_vars => FoldInv'
<1>. SUFFICES ASSUME CaptureInv, FoldInv, [Next]_vars PROVE FoldInv'
  OBVIOUS
<1>0. RaSyncTypeOK
  BY DEF CaptureInv
<1>1. CASE ApplyNext
  BY <1>0, <1>1, FoldApply DEF FoldInv
<1>2. CASE Start
  <2>1. /\ past'.read = <<>> /\ run'.agents = NoAgents
    BY <1>2 DEF Start, IdleRun
  <2>2. \A a \in AgentIds : /\ Known(a)' = {} /\ Hosted(a)' = {} /\ Named(a)' = {}
                            /\ Dated(a)' = {} /\ Registered(a)' = {}
    BY <2>1 DEF Known, Hosted, Named, Dated, Registered
  <2>. QED
    BY <2>1, <2>2 DEF FoldInv, FoldedFromReads, FirstSeenOnce, NoAgents
<1>3. CASE Crash
  BY <1>3 DEF Crash, IdleRun, FoldInv
<1>4. CASE Publish \/ Age \/ Expire \/ UNCHANGED vars
  <2>1. /\ past' = past /\ run' = run
        /\ Publish \/ feed'.log = feed.log
    BY <1>0, <1>4 DEF Publish, Age, Expire, vars, RaSyncTypeOK, Feeds
  <2>. QED
    BY <1>0, <2>1, FoldUnmoved DEF FoldInv
<1>5. CASE RunStep /\ ~ApplyNext
  <2>1. /\ run'.agents = run.agents /\ feed' = feed /\ past'.read = past.read
        /\ run.phase # "idle"
    <3>1. CASE FetchPage \/ FetchFails \/ NextCursor \/ Runaway \/ Drained
      BY <1>0, <3>1 DEF FetchPage, FetchFails, NextCursor, Runaway, Drained, PageApplied,
         Fail, RaSyncTypeOK, Runs
    <3>2. CASE PrepareOutDir \/ PrepareFails \/ Finish
      BY <1>0, <3>2 DEF PrepareOutDir, PrepareFails, Finish, Fail, RaSyncTypeOK, Runs
    <3>3. ASSUME NEW a \in AgentIds, Enrich(a) \/ Degrade(a) \/ Abort(a)
          PROVE  /\ run'.agents = run.agents /\ feed' = feed /\ past'.read = past.read
                 /\ run.phase # "idle"
      BY <1>0, <3>3
      DEF Enrich, Degrade, Abort, Capture, Fail, RaSyncTypeOK, Runs, Histories
    <3>. QED
      BY <1>5, <3>1, <3>2, <3>3 DEF RunStep
  <2>. QED
    BY <1>0, <2>1, FoldUnmoved
<1>. QED
  BY <1>1, <1>2, <1>3, <1>4, <1>5 DEF Next

\* The fold of any feed, read in any pages, is what its rows say (applyEvent).
THEOREM FoldTheorem == Spec => []FoldIsCurrent
<1>1. Init => FoldInv
  BY DEF Init, IdleRun, FoldInv
<1>2. FoldInv => FoldIsCurrent
  BY DEF FoldInv, FoldIsCurrent
<1>. QED
  BY <1>1, <1>2, FoldStep, InvAlways, PTL DEF Spec

(***************************************************************************)
(* The drain.                                                              *)
(***************************************************************************)

\* The rows that were there when the run began and are still retained.
Due == feed.oldest .. past.tail
WasRead(id) == \E k \in DOMAIN past.read : past.read[k] = id
InPage(id) == \E k \in DOMAIN drain.page : drain.page[k] = id

\* What is due up to the cursor has been read.  Of a page that is being applied:
\* it reaches from the cursor to its own next one, or to the tail, so that what
\* is due there is read or still to be applied; an empty one leaves nothing due.
Drainage ==
  /\ past.tail <= Len(feed.log)
  /\ run.phase \in {"fetch", "apply"} =>
       \A id \in Due : id <= drain.cursor => WasRead(id)
  /\ run.phase = "apply" =>
       IF drain.items = 0
       THEN \A id \in Due : id <= drain.cursor
       ELSE /\ drain.next = 0 \/ drain.cursor < drain.next
            /\ \A id \in Due :
                 drain.next = 0 \/ id <= drain.next => WasRead(id) \/ InPage(id)
  /\ DrainMissesNothing

\* A page holds every retained row after the cursor, up to its own next one.
NoGap(c, page) ==
  /\ Len(page) \in Nat
  /\ Len(page) = 0 => \A id \in feed.oldest .. Len(feed.log) : id <= c
  /\ Len(page) # 0 => \A n \in Cursors(page) :
       /\ n = 0 \/ c < n
       /\ \A id \in feed.oldest .. Len(feed.log) :
            (c < id /\ (n = 0 \/ id <= n)) => \E k \in DOMAIN page : page[k] = id

\* So does every page a sound feed serves.
LEMMA ServedContiguous ==
  ASSUME feed \in Feeds, NEW c \in Nat, StrayCursors = {}
  PROVE  NoGap(c, Served(c))
<1>. DEFINE last == Len(feed.log)
            from == IF c < feed.oldest THEN feed.oldest ELSE c + 1
            to   == IF from + PageSize - 1 < last THEN from + PageSize - 1 ELSE last
            len  == IF to < from THEN 0 ELSE to - from + 1
            pg   == [i \in 1 .. len |-> from + i - 1]
<1>1. /\ from \in Nat \ {0} /\ c < from /\ last \in Nat /\ PageSize \in Nat \ {0}
      /\ \A id \in feed.oldest .. last : c < id => from <= id
  BY RaSyncConstants DEF Feeds
<1>. HIDE DEF last, from
<1>2. to \in Nat /\ to <= last /\ len \in Nat /\ (len = 0 => last < from)
  BY <1>1
<1>3. Served(c) = pg /\ pg \in Seq(Nat) /\ Len(pg) = len
  <2>1. Served(c) = pg
    BY DEF Served, from, last
  <2>2. pg \in [1 .. len -> Nat]
    BY <1>1, <1>2
  <2>. HIDE DEF pg, len
  <2>3. DOMAIN pg = 1 .. len /\ pg \in Seq(Nat)
    BY <1>2, <2>2
  <2>. QED
    BY <1>2, <2>1, <2>3
<1>4. CASE len = 0
  <2>1. \A id \in feed.oldest .. last : id <= c
    BY <1>1, <1>2, <1>4 DEF Feeds
  <2>. QED
    BY <1>2, <1>3, <1>4, <2>1 DEF last, NoGap
<1>5. CASE len # 0
  <2>1. /\ len \in 1 .. len /\ pg[len] = to /\ from <= to
    BY <1>1, <1>2, <1>5
  <2>2. /\ pg # <<>> /\ DOMAIN pg = 1 .. len
        /\ \A id \in from .. to : \E k \in DOMAIN pg : pg[k] = id
    <3>1. DOMAIN pg = 1 .. len
      OBVIOUS
    <3>2. ASSUME NEW id \in from .. to PROVE \E k \in 1 .. len : pg[k] = id
      <4>1. id - from + 1 \in 1 .. len /\ pg[id - from + 1] = id
        BY <1>1, <1>2, <1>5
      <4>. QED
        BY <4>1
    <3>3. pg # <<>>
      <4>. HIDE DEF pg, len
      <4>. QED
        BY <1>3, <1>5
    <3>. QED
      BY <3>1, <3>2, <3>3
  <2>. HIDE DEF pg, len
  <2>3. \A n \in Cursors(pg) : n = to \/ (n = 0 /\ to = last)
    BY <1>3, <2>1, <2>2 DEF Cursors, last
  <2>. HIDE DEF to
  <2>4. ASSUME NEW n \in Cursors(pg)
        PROVE  /\ n = 0 \/ c < n
               /\ \A id \in feed.oldest .. last :
                    (c < id /\ (n = 0 \/ id <= n)) => \E k \in DOMAIN pg : pg[k] = id
    BY <1>1, <1>2, <2>1, <2>2, <2>3 DEF Feeds
  <2>. QED
    BY <1>2, <1>3, <1>5, <2>4 DEF last, NoGap
<1>. QED
  BY <1>4, <1>5

\* Outside the reading, what is due is either read or asked no more.
LEMMA DrainageUnmoved ==
  ASSUME RaSyncTypeOK, feed' \in Feeds, Drainage, past'.read = past.read, past'.tail = past.tail,
         drain' = drain, run'.phase = run.phase,
         \/ feed' = feed
         \/ feed'.oldest = feed.oldest /\ Len(feed'.log) >= Len(feed.log)
         \/ feed'.oldest >= feed.oldest /\ feed'.log = feed.log
  PROVE  Drainage'
<1>1. /\ feed'.oldest >= feed.oldest /\ Len(feed'.log) >= Len(feed.log)
      /\ feed.oldest \in Nat /\ past.tail \in Nat
      /\ Len(feed.log) \in Nat /\ past.tail <= Len(feed.log)
      /\ feed'.oldest \in Nat /\ Len(feed'.log) \in Nat
  BY DEF RaSyncTypeOK, Feeds, Histories, Drainage
<1>2. past'.tail <= Len(feed'.log) /\ Due' \subseteq Due
  BY <1>1 DEF Due
<1>3. \A id : /\ WasRead(id)' = WasRead(id) /\ InPage(id)' = InPage(id)
  BY DEF WasRead, InPage
<1>4. Drainage /\ \A id \in Due' : id \in Due
  BY <1>2
<1>5. run'.phase \in {"prepare", "enrich", "ok"} => \A id \in Due' : WasRead(id)'
  BY <1>3, <1>4 DEF Drainage, DrainMissesNothing, Due, WasRead
<1>6. run'.phase \in {"fetch", "apply"} =>
        \A id \in Due' : id <= drain'.cursor => WasRead(id)'
  BY <1>3, <1>4 DEF Drainage
<1>7. run'.phase = "apply" =>
        IF drain'.items = 0
        THEN \A id \in Due' : id <= drain'.cursor
        ELSE /\ drain'.next = 0 \/ drain'.cursor < drain'.next
             /\ \A id \in Due' :
                  drain'.next = 0 \/ id <= drain'.next => WasRead(id)' \/ InPage(id)'
  BY <1>3, <1>4 DEF Drainage
<1>8. DrainMissesNothing'
  BY <1>5 DEF DrainMissesNothing, Due, WasRead
<1>. QED
  BY <1>2, <1>6, <1>7, <1>8 DEF Drainage

\* A page read from a sound feed leaves no gap.
LEMMA DrainageFetch ==
  ASSUME StrayCursors = {}, RaSyncTypeOK, Drainage, FetchPage
  PROVE  Drainage'
<1>. DEFINE page == Served(drain.cursor)
<1>1. PICK n \in Cursors(page) :
        drain' = [drain EXCEPT !.pages = @ + 1, !.page = page, !.next = n,
                               !.items = Len(page)]
  BY DEF FetchPage
<1>. HIDE DEF page
<1>2. /\ drain'.cursor = drain.cursor /\ drain'.page = page /\ drain'.next = n
      /\ drain'.items = Len(page) /\ run'.phase = "apply" /\ past' = past /\ feed' = feed
      /\ run.phase = "fetch" /\ drain.cursor \in Nat
  BY <1>1 DEF FetchPage, RaSyncTypeOK, Drains, Runs
<1>3. /\ feed.oldest \in Nat /\ past.tail \in Nat /\ Len(feed.log) \in Nat
      /\ past.tail <= Len(feed.log)
      /\ Due \subseteq feed.oldest .. Len(feed.log) /\ Due \subseteq Int
  BY DEF RaSyncTypeOK, Feeds, Histories, Drainage, Due
<1>4. /\ Len(page) \in Nat
      /\ Len(page) = 0 => \A id \in Due : id <= drain.cursor
      /\ Len(page) # 0 =>
           /\ n = 0 \/ drain.cursor < n
           /\ \A id \in Due : (drain.cursor < id /\ (n = 0 \/ id <= n))
                                => \E k \in DOMAIN page : page[k] = id
  <2>1. NoGap(drain.cursor, page)
    BY <1>2, ServedContiguous DEF RaSyncTypeOK, page
  <2>2. \A id \in Due : id \in feed.oldest .. Len(feed.log)
    BY <1>3
  <2>. QED
    BY <2>1, <2>2 DEF NoGap
<1>5. \A id \in Due : id <= drain.cursor => WasRead(id)
  BY <1>2 DEF Drainage
<1>6. Len(page) # 0 =>
        \A id \in Due : n = 0 \/ id <= n => WasRead(id) \/ \E k \in DOMAIN page : page[k] = id
  <2>. SUFFICES ASSUME Len(page) # 0, NEW id \in Due, n = 0 \/ id <= n
                PROVE  WasRead(id) \/ \E k \in DOMAIN page : page[k] = id
    OBVIOUS
  <2>1. CASE id <= drain.cursor
    BY <1>5, <2>1
  <2>2. CASE drain.cursor < id
    BY <1>4, <2>2
  <2>3. id <= drain.cursor \/ drain.cursor < id
    BY <1>2, <1>3
  <2>. QED
    BY <2>1, <2>2, <2>3
<1>7. Due' = Due /\ \A id : WasRead(id)' = WasRead(id)
  BY <1>2 DEF Due, WasRead
<1>. QED
  BY <1>2, <1>3, <1>4, <1>5, <1>6, <1>7 DEF Drainage, DrainMissesNothing, InPage

\* A row applied is a row read.
LEMMA DrainageApply ==
  ASSUME RaSyncTypeOK, Drainage, ApplyNext
  PROVE  Drainage'
<1>. DEFINE pg == drain.page
            rd == past.read
<1>1. /\ pg \in Seq(Nat) /\ pg # <<>> /\ rd \in Seq(Nat)
      /\ past'.read = Append(rd, Head(pg)) /\ past'.tail = past.tail
      /\ drain'.page = Tail(pg) /\ drain'.cursor = drain.cursor
      /\ drain'.next = drain.next /\ drain'.items = drain.items
      /\ run.phase = "apply" /\ run'.phase = "apply" /\ feed' = feed
  BY DEF ApplyNext, RaSyncTypeOK, Drains, Histories, Runs
<1>2. ASSUME NEW id, WasRead(id)
      PROVE  WasRead(id)'
  <2>1. PICK k \in DOMAIN rd : rd[k] = id
    BY <1>2 DEF WasRead
  <2>2. k \in DOMAIN Append(rd, Head(pg)) /\ Append(rd, Head(pg))[k] = id
    BY <1>1, <2>1
  <2>. QED
    BY <1>1, <2>2 DEF WasRead
<1>3. ASSUME NEW id, InPage(id)
      PROVE  WasRead(id)' \/ InPage(id)'
  <2>1. PICK k \in DOMAIN pg : pg[k] = id
    BY <1>3 DEF InPage
  <2>2. CASE k = 1
    <3>1. /\ Len(rd) + 1 \in DOMAIN Append(rd, Head(pg))
          /\ Append(rd, Head(pg))[Len(rd) + 1] = id
      BY <1>1, <2>1, <2>2
    <3>. QED
      BY <1>1, <3>1 DEF WasRead
  <2>3. CASE k # 1
    <3>1. k - 1 \in DOMAIN Tail(pg) /\ Tail(pg)[k - 1] = id
      <4>. DEFINE i == k - 1
      <4>1. k \in 1 .. Len(pg) /\ Len(pg) \in Nat /\ i \in 1 .. Len(pg) - 1 /\ k = i + 1
        BY <1>1, <2>1, <2>3
      <4>2. Tail(pg) \in Seq(Nat) /\ Len(Tail(pg)) = Len(pg) - 1
        BY <1>1
      <4>. HIDE DEF pg, i
      <4>3. DOMAIN Tail(pg) = 1 .. Len(pg) - 1
        BY <4>1, <4>2
      <4>4. Tail(pg)[i] = pg[i + 1]
        BY <1>1, <4>1
      <4>. QED
        BY <2>1, <4>1, <4>3, <4>4 DEF i
    <3>. QED
      BY <1>1, <3>1 DEF InPage
  <2>. QED
    BY <2>2, <2>3
<1>4. Due' = Due
  BY <1>1 DEF Due
<1>. QED
  BY <1>1, <1>2, <1>3, <1>4 DEF Drainage, DrainMissesNothing

\* The end of a page: to the next one, or out of the loop with nothing due.
LEMMA DrainagePage ==
  ASSUME RaSyncTypeOK, Drainage, NextCursor \/ Runaway \/ Drained
  PROVE  Drainage'
<1>1. /\ drain.page = <<>> /\ run.phase = "apply" /\ feed' = feed /\ past' = past
      /\ drain.cursor \in Nat /\ drain.next \in Nat /\ Due \subseteq Int
      /\ past.tail <= Len(feed.log)
  BY DEF NextCursor, Runaway, Drained, PageApplied, RaSyncTypeOK, Drains, Feeds, Histories,
     Due, Drainage
<1>2. \A id : ~InPage(id)
  BY <1>1 DEF InPage
<1>3. Due' = Due /\ \A id : WasRead(id)' = WasRead(id)
  BY <1>1 DEF Due, WasRead
<1>4. CASE NextCursor
  <2>1. /\ run'.phase = "fetch" /\ drain'.cursor = drain.next
        /\ drain.next # 0 /\ drain.items # 0
    BY <1>4 DEF NextCursor, ReachedEnd, RaSyncTypeOK, Runs, Drains
  <2>2. \A id \in Due : id <= drain.next => WasRead(id)
    BY <1>1, <1>2, <2>1 DEF Drainage
  <2>. QED
    BY <1>1, <1>3, <2>1, <2>2 DEF Drainage, DrainMissesNothing
<1>5. CASE Runaway
  <2>1. run'.phase = "failed"
    BY <1>5 DEF Runaway, Fail, RaSyncTypeOK, Runs
  <2>. QED
    BY <1>1, <2>1 DEF Drainage, DrainMissesNothing
<1>6. CASE Drained
  <2>1. run'.phase \in {"failed", "prepare"} /\ ReachedEnd
    BY <1>6 DEF Drained, Fail, RaSyncTypeOK, Runs
  <2>2. \A id \in Due : WasRead(id)
    <3>1. CASE drain.items = 0
      BY <1>1, <3>1 DEF Drainage
    <3>2. CASE drain.items # 0
      <4>1. drain.next = 0
        BY <1>1, <2>1, <3>2 DEF Drainage, ReachedEnd
      <4>. QED
        BY <1>1, <1>2, <3>2, <4>1 DEF Drainage
    <3>. QED
      BY <3>1, <3>2
  <2>. QED
    BY <1>1, <1>3, <2>1, <2>2 DEF Drainage, DrainMissesNothing, Due, WasRead
<1>. QED
  BY <1>4, <1>5, <1>6

\* The fixtures are written with the reading behind them.
LEMMA DrainageFixtures ==
  ASSUME RaSyncTypeOK, Drainage,
         \/ FetchFails \/ PrepareOutDir \/ PrepareFails \/ Finish
         \/ \E a \in AgentIds : Enrich(a) \/ Degrade(a) \/ Abort(a)
  PROVE  Drainage'
<1>1. /\ feed' = feed /\ past'.read = past.read /\ past'.tail = past.tail
      /\ \/ run'.phase = "failed"
         \/ run.phase \in {"prepare", "enrich"} /\ run'.phase \in {"enrich", "ok"}
  <2>1. CASE FetchFails \/ PrepareOutDir \/ PrepareFails \/ Finish
    BY <2>1 DEF FetchFails, PrepareOutDir, PrepareFails, Finish, Fail, RaSyncTypeOK, Runs
  <2>2. ASSUME NEW a \in AgentIds, Enrich(a) \/ Degrade(a) \/ Abort(a)
        PROVE  /\ feed' = feed /\ past'.read = past.read /\ past'.tail = past.tail
               /\ \/ run'.phase = "failed"
                  \/ run.phase \in {"prepare", "enrich"} /\ run'.phase \in {"enrich", "ok"}
    BY <2>2 DEF Enrich, Degrade, Abort, Capture, Fail, RaSyncTypeOK, Runs, Histories
  <2>. QED
    BY <2>1, <2>2
<1>. QED
  BY <1>1 DEF Drainage, DrainMissesNothing, Due, WasRead

\* Every step leaves read what is due (drainAndFold).
LEMMA DrainageStep ==
  ASSUME StrayCursors = {}
  PROVE  CaptureInv /\ Drainage /\ [Next]_vars => Drainage'
<1>. SUFFICES ASSUME CaptureInv, Drainage, [Next]_vars PROVE Drainage'
  OBVIOUS
<1>0. RaSyncTypeOK /\ feed' \in Feeds
  BY InvStep DEF CaptureInv, RaSyncTypeOK
<1>1. CASE Start
  <2>1. /\ run'.phase = "fetch" /\ drain'.cursor = 0 /\ feed' = feed
        /\ past'.tail = Len(feed.log) /\ Len(feed.log) \in Nat /\ feed.oldest \in Nat \ {0}
    BY <1>0, <1>1, IdleShape DEF Start, IdleRun, NoDrain, RaSyncTypeOK, Feeds, Runs
  <2>2. \A id \in Due' : ~(id <= 0)
    BY <2>1 DEF Due
  <2>. QED
    BY <2>1, <2>2 DEF Drainage, DrainMissesNothing
<1>2. CASE Crash
  BY <1>2 DEF Crash, IdleRun, Drainage, DrainMissesNothing
<1>3. CASE Publish
  <2>1. PICK it \in Items : feed' = [feed EXCEPT !.log = Append(@, it)]
    BY <1>3 DEF Publish
  <2>. DEFINE log == feed.log
  <2>2. log \in Seq(Items) /\ feed'.log = Append(log, it) /\ feed'.oldest = feed.oldest
    BY <1>0, <2>1 DEF RaSyncTypeOK, Feeds
  <2>3. Len(Append(log, it)) >= Len(log)
    BY <2>2
  <2>. QED
    BY <1>0, <1>3, <2>2, <2>3, DrainageUnmoved DEF Publish
<1>4. CASE Age
  <2>1. feed'.oldest >= feed.oldest /\ feed'.log = feed.log
    BY <1>0, <1>4 DEF Age, RaSyncTypeOK, Feeds
  <2>. QED
    BY <1>0, <1>4, <2>1, DrainageUnmoved DEF Age
<1>5. CASE Expire \/ UNCHANGED vars
  BY <1>0, <1>5, DrainageUnmoved DEF Expire, vars
<1>6. CASE RunStep
  BY <1>0, <1>6, DrainageFetch, DrainageApply, DrainagePage, DrainageFixtures DEF RunStep
<1>. QED
  BY <1>1, <1>2, <1>3, <1>4, <1>5, <1>6 DEF Next

\* On a sound feed, whose pages name their own last row, a drain of any length
\* misses no retained row of its start (drainAndFold, ReachedEnd).
THEOREM DrainTheorem ==
  ASSUME StrayCursors = {}
  PROVE  Spec => []DrainMissesNothing
<1>1. Init => Drainage
  <2>. SUFFICES ASSUME Init PROVE Drainage
    OBVIOUS
  <2>1. past.tail = 0 /\ Len(feed.log) = 0 /\ run.phase = "idle"
    BY DEF Init, IdleRun
  <2>. QED
    BY <2>1 DEF Drainage, DrainMissesNothing
<1>2. Drainage => DrainMissesNothing
  BY DEF Drainage
<1>3. CaptureInv /\ Drainage /\ [Next]_vars => Drainage'
  BY DrainageStep
<1>. QED
  BY <1>1, <1>2, <1>3, InvAlways, PTL DEF Spec

(***************************************************************************)
(* The end of a run: a measure of the work that is left.                   *)
(***************************************************************************)

\* A page costs its request, its rows and the step to the next cursor.
PageCost == PageSize + 2

RunBound == MaxFeedPages * PageCost + Cardinality(AgentIds) + 3

\* The steps a run may still take at most.
WorkLeft ==
  CASE run.phase = "fetch" ->
         (MaxFeedPages - drain.pages) * PageCost + Cardinality(AgentIds) + 3
    [] run.phase = "apply" ->
         (MaxFeedPages - drain.pages) * PageCost + Len(drain.page)
           + Cardinality(AgentIds) + 4
    [] run.phase = "prepare" -> Cardinality(Folds) + 2
    [] run.phase = "enrich" -> Cardinality(run.todo) + 1
    [] OTHER -> 0

\* The pages counted are those fetched, never more than may be (maxFeedPages).
PagesCounted ==
  /\ run.phase = "fetch" => drain.pages < MaxFeedPages
  /\ run.phase = "apply" => drain.pages <= MaxFeedPages

\* What is left is a number of steps within the bound, and none only of a run
\* that is over.
WorkIsBounded == WorkLeft \in 0 .. RunBound /\ (Running => WorkLeft > 0)

\* Every step of the run lowers what is left, and nothing but a new run raises
\* it: no growth or ageing of the feed, no deadline.
WorkShrinks ==
  [][/\ RunStep => WorkLeft' < WorkLeft
     /\ ~Start => WorkLeft' <= WorkLeft]_vars

\* A page that is paid for leaves the others their cost.
LEMMA PagePaid ==
  /\ PageCost \in Nat /\ PageCost = PageSize + 2
  /\ \A n \in Nat : n * PageCost \in Nat /\ (n + 1) * PageCost = n * PageCost + PageCost
<1>1. PageCost \in Nat /\ PageCost = PageSize + 2
  BY RaSyncConstants DEF PageCost
<1>2. \A c, n \in Nat : n * c \in Nat /\ (n + 1) * c = n * c + c
  BY SMT
<1>. QED
  BY <1>1, <1>2

\* No page of the feed is longer than asked for.
LEMMA ServedLength ==
  ASSUME feed \in Feeds, NEW c \in Nat
  PROVE  Len(Served(c)) \in 0 .. PageSize
<1>. DEFINE from == IF c < feed.oldest THEN feed.oldest ELSE c + 1
            to   == IF from + PageSize - 1 < Len(feed.log)
                    THEN from + PageSize - 1 ELSE Len(feed.log)
            len  == IF to < from THEN 0 ELSE to - from + 1
            pg   == [i \in 1 .. len |-> from + i - 1]
<1>1. from \in Nat \ {0} /\ Len(feed.log) \in Nat /\ PageSize \in Nat \ {0}
  BY RaSyncConstants DEF Feeds
<1>2. len \in 0 .. PageSize
  <2>. HIDE DEF from
  <2>. QED
    BY <1>1
<1>3. Served(c) = pg
  BY DEF Served
<1>4. Len(pg) = len
  <2>1. \A n \in Nat : \A f : f = [i \in 1 .. n |-> from + i - 1] /\ f \in Seq(Int) => Len(f) = n
    OBVIOUS
  <2>2. pg \in Seq(Int)
    <3>. HIDE DEF from, len
    <3>. QED
      BY <1>1, <1>2
  <2>. HIDE DEF len, from
  <2>. QED
    BY <1>2, <2>1, <2>2
<1>. QED
  BY <1>2, <1>3, <1>4

\* Folded agents and those to enrich are among the agents, of which the fold has
\* finitely many.
LEMMA AgentsCounted ==
  /\ Cardinality(AgentIds) \in Nat
  /\ \A S \in SUBSET AgentIds : /\ IsFiniteSet(S)
                                /\ Cardinality(S) \in Nat
                                /\ Cardinality(S) <= Cardinality(AgentIds)
  BY FS_Subset, FS_CardinalityType, RaSyncConstants

\* A drain counts its pages (drainAndFold).
LEMMA PagesStep ==
  RaSyncTypeOK /\ PagesCounted /\ [Next]_vars => PagesCounted'
<1>. SUFFICES ASSUME RaSyncTypeOK, PagesCounted, [Next]_vars PROVE PagesCounted'
  OBVIOUS
<1>. USE DEF PagesCounted
<1>0. /\ drain.pages \in Nat /\ MaxFeedPages \in Nat \ {0} /\ run \in Runs /\ drain \in Drains
  BY RaSyncConstants DEF RaSyncTypeOK, Drains
<1>1. CASE Publish \/ Age \/ Expire \/ UNCHANGED vars
  BY <1>1 DEF Publish, Age, Expire, vars
<1>2. CASE Start
  BY <1>0, <1>2 DEF Start, IdleRun, NoDrain
<1>3. CASE Crash
  BY <1>3 DEF Crash, IdleRun
<1>4. CASE FetchPage
  <2>1. drain'.pages = drain.pages + 1 /\ run'.phase = "apply" /\ run.phase = "fetch"
    BY <1>0, <1>4 DEF FetchPage, Drains, Runs
  <2>. QED
    BY <1>0, <2>1
<1>5. CASE ApplyNext
  BY <1>0, <1>5 DEF ApplyNext, Runs, Drains
<1>6. CASE NextCursor
  BY <1>0, <1>6 DEF NextCursor, PageApplied, Runs, Drains
<1>7. CASE FetchFails \/ Runaway \/ Drained
  BY <1>0, <1>7 DEF FetchFails, Runaway, Drained, Fail, Runs
<1>8. CASE PrepareOutDir \/ PrepareFails \/ Finish
  BY <1>0, <1>8 DEF PrepareOutDir, PrepareFails, Finish, Fail, Runs
<1>9. ASSUME NEW a \in AgentIds, Enrich(a) \/ Degrade(a) \/ Abort(a)
      PROVE  PagesCounted'
  BY <1>0, <1>9 DEF Enrich, Degrade, Abort, Capture, Fail, Runs
<1>. QED
  BY <1>1, <1>2, <1>3, <1>4, <1>5, <1>6, <1>7, <1>8, <1>9 DEF Next, RunStep

\* The state's part of the measure's facts, in the state before and after a step.
WorkFacts ==
  /\ run \in Runs /\ drain \in Drains /\ drain.page \in Seq(Nat)
  /\ Folds \in SUBSET AgentIds /\ run.todo \in SUBSET AgentIds
  /\ WorkLeft \in Nat
  /\ ~Running => WorkLeft = 0
  /\ Running => WorkLeft > 0

\* The shapes make the measure a number, positive exactly while the run goes on
\* (Running).
LEMMA WorkMeasured == RaSyncTypeOK /\ PagesCounted => WorkFacts
<1>. SUFFICES ASSUME RaSyncTypeOK, PagesCounted PROVE WorkFacts
  OBVIOUS
<1>1. /\ run \in Runs /\ drain \in Drains /\ drain.page \in Seq(Nat)
      /\ Folds \in SUBSET AgentIds /\ run.todo \in SUBSET AgentIds
      /\ run.phase \in {"idle", "fetch", "apply", "prepare", "enrich", "ok", "failed"}
      /\ drain.pages \in Nat
  BY DEF RaSyncTypeOK, Runs, Drains, Folds
<1>2. /\ Cardinality(AgentIds) \in Nat /\ Cardinality(Folds) \in Nat
      /\ Cardinality(run.todo) \in Nat /\ Len(drain.page) \in Nat
  BY <1>1, AgentsCounted
<1>3. run.phase \in {"fetch", "apply"} => (MaxFeedPages - drain.pages) * PageCost \in Nat
  <2>1. run.phase \in {"fetch", "apply"} => MaxFeedPages - drain.pages \in Nat
    BY <1>1, RaSyncConstants DEF PagesCounted
  <2>. QED
    BY <2>1, PagePaid
<1>4. WorkLeft \in Nat /\ (~Running => WorkLeft = 0) /\ (Running => WorkLeft > 0)
  <2>. DEFINE paid == (MaxFeedPages - drain.pages) * PageCost
              all  == Cardinality(AgentIds)
              some == Cardinality(Folds)
              todo == Cardinality(run.todo)
              rows == Len(drain.page)
  <2>1. WorkLeft = CASE run.phase = "fetch" -> paid + all + 3
                     [] run.phase = "apply" -> paid + rows + all + 4
                     [] run.phase = "prepare" -> some + 2
                     [] run.phase = "enrich" -> todo + 1
                     [] OTHER -> 0
    BY DEF WorkLeft
  <2>. HIDE DEF paid, all, some, todo, rows, WorkLeft
  <2>2. /\ all \in Nat /\ some \in Nat /\ todo \in Nat /\ rows \in Nat
        /\ run.phase \in {"fetch", "apply"} => paid \in Nat
    BY <1>2, <1>3 DEF paid, all, some, todo, rows
  <2>. QED
    BY <1>1, <2>1, <2>2 DEF Running
<1>. QED
  BY <1>1, <1>4 DEF WorkFacts

\* Reading the feed lowers what is left: a page is paid for by those not asked
\* for any more.
LEMMA DrainShrinks ==
  ASSUME RaSyncTypeOK, PagesCounted, WorkFacts, WorkFacts',
         FetchPage \/ FetchFails \/ ApplyNext \/ NextCursor \/ Runaway \/ Drained
  PROVE  WorkLeft' < WorkLeft
<1>0. /\ run \in Runs /\ drain \in Drains /\ drain.pages \in Nat
      /\ MaxFeedPages \in Nat \ {0} /\ Cardinality(AgentIds) \in Nat
      /\ PageSize \in Nat /\ PageCost = PageSize + 2
  BY AgentsCounted, PagePaid, RaSyncConstants DEF WorkFacts, Drains
<1>1. ASSUME run'.phase = "failed", Running
      PROVE  WorkLeft' < WorkLeft
  BY <1>1 DEF WorkFacts, Running
<1>2. CASE FetchFails \/ Runaway
  BY <1>0, <1>1, <1>2 DEF FetchFails, Runaway, PageApplied, Fail, Running, Runs
<1>3. CASE FetchPage
  <2>. DEFINE page == Served(drain.cursor)
              left == MaxFeedPages - (drain.pages + 1)
  <2>1. /\ run.phase = "fetch" /\ run'.phase = "apply"
        /\ drain'.pages = drain.pages + 1 /\ drain'.page = page
    BY <1>0, <1>3 DEF FetchPage, Runs, Drains
  <2>2. Len(page) \in 0 .. PageSize
    BY ServedLength DEF RaSyncTypeOK, Drains
  <2>3. left \in Nat /\ MaxFeedPages - drain.pages = left + 1
    BY <1>0, <2>1 DEF PagesCounted
  <2>4. left * PageCost \in Nat
        /\ (MaxFeedPages - drain.pages) * PageCost = left * PageCost + PageCost
    BY <2>3, PagePaid
  <2>5. /\ WorkLeft = (MaxFeedPages - drain.pages) * PageCost + Cardinality(AgentIds) + 3
        /\ WorkLeft' = left * PageCost + Len(page) + Cardinality(AgentIds) + 4
    BY <2>1 DEF WorkLeft, PageCost
  <2>. HIDE DEF left, page
  <2>. QED
    BY <1>0, <2>2, <2>4, <2>5
<1>4. CASE ApplyNext
  <2>1. /\ run.phase = "apply" /\ run'.phase = "apply"
        /\ drain'.pages = drain.pages /\ drain'.page = Tail(drain.page)
        /\ drain.page # <<>> /\ drain.page \in Seq(Nat)
    BY <1>0, <1>4 DEF ApplyNext, Runs, Drains
  <2>2. Len(drain'.page) = Len(drain.page) - 1 /\ Len(drain.page) \in Nat
    BY <2>1
  <2>3. (MaxFeedPages - drain.pages) * PageCost \in Nat
    BY <1>0, <2>1, PagePaid DEF PagesCounted
  <2>4. /\ WorkLeft = (MaxFeedPages - drain.pages) * PageCost + Len(drain.page)
                         + Cardinality(AgentIds) + 4
        /\ WorkLeft' = (MaxFeedPages - drain.pages) * PageCost + Len(drain'.page)
                         + Cardinality(AgentIds) + 4
    BY <2>1 DEF WorkLeft, PageCost
  <2>. QED
    BY <1>0, <2>2, <2>3, <2>4
<1>5. CASE NextCursor
  <2>1. /\ run.phase = "apply" /\ run'.phase = "fetch"
        /\ drain'.pages = drain.pages /\ drain.page = <<>>
    BY <1>0, <1>5 DEF NextCursor, PageApplied, Runs, Drains
  <2>2. (MaxFeedPages - drain.pages) * PageCost \in Nat /\ Len(drain.page) = 0
    BY <1>0, <2>1, PagePaid DEF PagesCounted
  <2>3. /\ WorkLeft = (MaxFeedPages - drain.pages) * PageCost + Len(drain.page)
                         + Cardinality(AgentIds) + 4
        /\ WorkLeft' = (MaxFeedPages - drain.pages) * PageCost + Cardinality(AgentIds) + 3
    BY <2>1 DEF WorkLeft, PageCost
  <2>. QED
    BY <1>0, <2>2, <2>3
<1>6. CASE Drained
  <2>1. CASE Fail("empty")
    BY <1>0, <1>1, <1>6, <2>1 DEF Drained, PageApplied, Fail, Running, Runs
  <2>2. CASE run' = [run EXCEPT !.phase = "prepare"]
    <3>1. /\ run.phase = "apply" /\ run'.phase = "prepare" /\ drain.page = <<>>
      BY <1>0, <1>6, <2>2 DEF Drained, PageApplied, Runs
    <3>2. (MaxFeedPages - drain.pages) * PageCost \in Nat /\ Len(drain.page) = 0
      BY <1>0, <3>1, PagePaid DEF PagesCounted
    <3>3. /\ WorkLeft = (MaxFeedPages - drain.pages) * PageCost + Len(drain.page)
                           + Cardinality(AgentIds) + 4
          /\ WorkLeft' = Cardinality(Folds') + 2
      BY <3>1 DEF WorkLeft
    <3>4. Cardinality(Folds') \in Nat /\ Cardinality(Folds') <= Cardinality(AgentIds)
      BY AgentsCounted DEF WorkFacts
    <3>. QED
      BY <1>0, <3>2, <3>3, <3>4
  <2>. QED
    BY <1>6, <2>1, <2>2 DEF Drained
<1>. QED
  BY <1>2, <1>3, <1>4, <1>5, <1>6

\* Writing the fixtures lowers what is left, one agent at a time.
LEMMA FixturesShrink ==
  ASSUME RaSyncTypeOK, TodoFolded, WorkFacts, WorkFacts',
         \/ PrepareOutDir \/ PrepareFails \/ Finish
         \/ \E a \in AgentIds : Enrich(a) \/ Degrade(a) \/ Abort(a)
  PROVE  WorkLeft' < WorkLeft
<1>0. run \in Runs
  BY DEF WorkFacts
<1>1. ASSUME run'.phase \in {"failed", "ok"}, Running
      PROVE  WorkLeft' < WorkLeft
  BY <1>1 DEF WorkFacts, Running
<1>2. CASE PrepareFails \/ Finish
  BY <1>0, <1>1, <1>2 DEF PrepareFails, Finish, Fail, Running, Runs
<1>3. CASE PrepareOutDir
  <2>1. /\ run.phase = "prepare" /\ run'.phase = "enrich" /\ run'.todo = Folds
    BY <1>0, <1>3 DEF PrepareOutDir, Runs
  <2>2. WorkLeft = Cardinality(Folds) + 2 /\ WorkLeft' = Cardinality(Folds) + 1
    BY <2>1 DEF WorkLeft
  <2>3. Cardinality(Folds) \in Nat
    BY AgentsCounted DEF WorkFacts
  <2>. QED
    BY <2>2, <2>3
<1>4. ASSUME NEW a \in run.todo, run.phase = "enrich",
             NEW badge, NEW miss, Capture(a, badge, miss)
      PROVE  WorkLeft' < WorkLeft
  <2>1. CASE Fail("write")
    BY <1>0, <1>1, <1>4, <2>1 DEF Fail, Running, Runs
  <2>2. CASE run' = [run EXCEPT !.todo = @ \ {a}]
    <3>1. run'.phase = "enrich" /\ run'.todo = run.todo \ {a}
      BY <1>0, <1>4, <2>2 DEF Runs
    <3>2. WorkLeft = Cardinality(run.todo) + 1 /\ WorkLeft' = Cardinality(run.todo \ {a}) + 1
      BY <1>4, <3>1 DEF WorkLeft
    <3>3. /\ Cardinality(run.todo) \in Nat
          /\ Cardinality(run.todo \ {a}) = Cardinality(run.todo) - 1
      BY <1>4, AgentsCounted, FS_RemoveElement DEF WorkFacts
    <3>. QED
      BY <3>2, <3>3
  <2>. QED
    BY <1>4, <2>1, <2>2 DEF Capture
<1>5. ASSUME NEW a \in AgentIds, Enrich(a) \/ Degrade(a) \/ Abort(a)
      PROVE  WorkLeft' < WorkLeft
  <2>1. CASE Abort(a)
    BY <1>0, <1>1, <2>1 DEF Abort, Fail, Running, Runs
  <2>2. CASE Enrich(a) \/ Degrade(a)
    BY <1>4, <2>2 DEF Enrich, Degrade
  <2>. QED
    BY <1>5, <2>1, <2>2
<1>. QED
  BY <1>2, <1>3, <1>5

\* What is not a step of the run leaves the measure, and the death of a run ends it.
LEMMA OthersSpare ==
  ASSUME RaSyncTypeOK, WorkFacts, WorkFacts',
         Publish \/ Age \/ Expire \/ Crash \/ UNCHANGED vars
  PROVE  WorkLeft' <= WorkLeft
<1>1. CASE Crash
  BY <1>1 DEF Crash, IdleRun, WorkFacts, Running
<1>2. CASE UNCHANGED <<run, drain>>
  <2>1. WorkLeft' = WorkLeft
    BY <1>2 DEF WorkLeft, Folds
  <2>. QED
    BY <2>1 DEF WorkFacts
<1>. QED
  BY <1>1, <1>2 DEF Publish, Age, Expire, vars

\* The work left is bounded by the bound of a new run.
BoundKept == WorkLeft <= RunBound

\* A run starts with all its work ahead of it.
LEMMA StartsBounded == Start /\ RaSyncTypeOK => WorkLeft' = RunBound
<1>. SUFFICES ASSUME Start, RaSyncTypeOK PROVE WorkLeft' = RunBound
  OBVIOUS
<1>1. run'.phase = "fetch" /\ drain'.pages = 0
  BY DEF Start, IdleRun, NoDrain
<1>2. MaxFeedPages - 0 = MaxFeedPages
  BY RaSyncConstants
<1>. QED
  BY <1>1, <1>2 DEF WorkLeft, RunBound

\* Every step of Run lowers what is left, every other one but its start spares it.
LEMMA ShrinkStep ==
  ASSUME CaptureInv, PagesCounted, WorkFacts, WorkFacts', [Next]_vars
  PROVE  /\ RunStep => WorkLeft' < WorkLeft
         /\ ~Start => WorkLeft' <= WorkLeft
<1>0. RaSyncTypeOK /\ TodoFolded /\ WorkLeft \in Nat /\ WorkLeft' \in Nat
  BY DEF CaptureInv, Tally, TodoFolded, WorkFacts
<1>1. RunStep => WorkLeft' < WorkLeft
  BY <1>0, DrainShrinks, FixturesShrink DEF RunStep
<1>2. Publish \/ Age \/ Expire \/ Crash \/ UNCHANGED vars => WorkLeft' <= WorkLeft
  BY <1>0, OthersSpare
<1>. QED
  BY <1>0, <1>1, <1>2 DEF Next

\* A run takes at most MaxFeedPages pages of PageSize rows, and one step for each
\* agent and each of its stages, on whatever feed (maxFeedPages, drainAndFold, Run).
THEOREM RunIsBounded == Spec => []WorkIsBounded /\ WorkShrinks
<1>. DEFINE Step == (RunStep => WorkLeft' < WorkLeft) /\ (~Start => WorkLeft' <= WorkLeft)
<1>1. Init => PagesCounted
  BY DEF Init, IdleRun, PagesCounted
<1>2. Spec => []PagesCounted
  BY <1>1, PagesStep, CaptureTypeTheorem, PTL DEF Spec
<1>3. Spec => []WorkFacts
  BY <1>2, WorkMeasured, CaptureTypeTheorem, PTL
<1>4. CaptureInv /\ PagesCounted /\ WorkFacts /\ WorkFacts' /\ [Next]_vars => [Step]_vars
  BY ShrinkStep
<1>5. Spec => [][Step]_vars
  BY <1>2, <1>3, <1>4, InvAlways, PTL DEF Spec
<1>6. RunBound \in Nat
  BY PagePaid, AgentsCounted, RaSyncConstants DEF RunBound
<1>7. Init => BoundKept
  <2>1. Init => WorkLeft = 0
    BY DEF Init, IdleRun, WorkLeft
  <2>. QED
    BY <1>6, <2>1 DEF BoundKept
<1>8. RaSyncTypeOK /\ BoundKept /\ WorkFacts /\ WorkFacts' /\ [Next]_vars /\ [Step]_vars => BoundKept'
  <2>. SUFFICES ASSUME RaSyncTypeOK, BoundKept, WorkFacts, WorkFacts', [Next]_vars, [Step]_vars
                PROVE  BoundKept'
    OBVIOUS
  <2>1. RunBound' = RunBound
    BY DEF RunBound
  <2>2. WorkLeft \in Nat /\ WorkLeft' \in Nat
    BY DEF WorkFacts
  <2>3. CASE Start
    BY <1>6, <2>1, <2>3, StartsBounded DEF BoundKept
  <2>4. CASE ~Start /\ Step
    BY <1>6, <2>1, <2>2, <2>4 DEF BoundKept
  <2>5. CASE UNCHANGED vars
    <3>1. WorkLeft' = WorkLeft
      BY <2>5 DEF vars, WorkLeft, Folds
    <3>. QED
      BY <2>1, <3>1 DEF BoundKept
  <2>. QED
    BY <2>3, <2>4, <2>5
<1>9. WorkFacts /\ BoundKept => WorkIsBounded
  BY <1>6 DEF WorkFacts, BoundKept, WorkIsBounded
<1>. QED
  BY <1>3, <1>5, <1>7, <1>8, <1>9, CaptureTypeTheorem, PTL DEF Spec, WorkShrinks

(***************************************************************************)
(* The capture implements what its readers are promised.                   *)
(***************************************************************************)

Stage ==
  CASE run.phase \in {"fetch", "apply"} -> "reading"
    [] run.phase = "prepare"            -> "clearing"
    [] run.phase = "enrich"             -> "writing"
    [] run.phase = "ok"                 -> "green"
    [] OTHER                            -> "idle"

Promise == INSTANCE CapturePromise WITH stage <- Stage

LEMMA StageOf ==
  ASSUME RaSyncTypeOK
  PROVE  /\ run.phase \in {"fetch", "apply"} <=> Stage = "reading"
         /\ run.phase = "prepare" <=> Stage = "clearing"
         /\ run.phase = "enrich" <=> Stage = "writing"
         /\ run.phase = "ok" <=> Stage = "green"
         /\ run.phase \in {"idle", "failed"} <=> Stage = "idle"
  BY DEF RaSyncTypeOK, Runs, Stage

\* The promise's words are the directory's.
LEMMA SameWords ==
  /\ Promise!Files = Files /\ Promise!EmptyDir = EmptyDir /\ Promise!Fixtures = Fixtures
  /\ \A gone : Promise!Without(gone) = Without(gone)
  /\ \A ev : Promise!Valid(ev) = Valid(ev)
<1>1. Promise!StatusTexts = StatusTexts /\ Promise!Times = Times
  BY DEF Promise!StatusTexts, Promise!Statuses, StatusTexts, Statuses, Promise!Times, Times
<1>2. Promise!Fixtures = Fixtures
  BY <1>1 DEF Promise!Fixtures, Fixtures
<1>3. Promise!Files = Files /\ Promise!EmptyDir = EmptyDir
  BY DEF Promise!Files, Files, Promise!EmptyDir, EmptyDir
<1>4. \A gone : Promise!Without(gone) = Without(gone)
  BY DEF Promise!Without, Without
<1>5. \A ev : Promise!Valid(ev) = Valid(ev)
  BY DEF Promise!Valid, Valid, Promise!Statuses, Statuses
<1>. QED
  BY <1>2, <1>3, <1>4, <1>5

\* A file is written once in a run: its agent had none when its turn came.
LEMMA CaptureWrites ==
  ASSUME CaptureInv, CaptureInv', run.phase = "enrich", NEW a \in run.todo,
         NEW badge \in BadgeEvents, NEW miss \in {0, 1}, Capture(a, badge, miss)
  PROVE  [Promise!Next]_(Promise!promiseVars)
<1>. DEFINE ev == toEvent(run.agents[a], badge)
<1>1. /\ a \in AgentIds /\ a \notin Files /\ dir[a] = NoFixture
      /\ dir \in [AgentIds -> Fixtures \cup {NoFixture, Torn}]
  BY FoldsShape DEF CaptureInv, Tally, Done, Files, RaSyncTypeOK
<1>2. ev \in Fixtures
  BY FoldsShape, EventShape DEF CaptureInv, Tally
<1>3. Stage = "writing"
  BY StageOf DEF CaptureInv
<1>4. Stage' = IF run'.phase = "enrich" THEN "writing"
               ELSE IF run'.phase = "failed" THEN "idle" ELSE Stage'
  BY DEF Stage
<1>. HIDE DEF ev
<1>5. CASE run' = [run EXCEPT !.todo = @ \ {a}] /\ UNCHANGED dir
  <2>1. Stage' = Stage
    BY <1>3, <1>4, <1>5 DEF CaptureInv, RaSyncTypeOK, Runs
  <2>. QED
    BY <1>5, <2>1 DEF Promise!promiseVars
<1>6. CASE /\ run' = [run EXCEPT !.todo = @ \ {a}] /\ Valid(ev)
           /\ dir' = [dir EXCEPT ![a] = ev]
  <2>1. Stage' = Stage
    BY <1>3, <1>4, <1>6 DEF CaptureInv, RaSyncTypeOK, Runs
  <2>2. dir'[a] = ev
    BY <1>1, <1>6
  <2>. QED
    BY <1>1, <1>2, <1>3, <1>6, <2>1, <2>2, SameWords DEF Promise!WriteFile, Promise!Next
<1>7. CASE Fail("write") /\ \E left \in {NoFixture, Torn} : dir' = [dir EXCEPT ![a] = left]
  <2>1. Stage' = "idle"
    BY <1>4, <1>7 DEF Fail, CaptureInv, RaSyncTypeOK, Runs
  <2>2. dir' = dir \/ dir' = [dir EXCEPT ![a] = Torn]
    BY <1>1, <1>7
  <2>. QED
    BY <1>1, <1>3, <2>1, <2>2 DEF Promise!WriteFails, Promise!Next
<1>. QED
  BY <1>5, <1>6, <1>7 DEF Capture, ev

LEMMA CrashKeepsPromise ==
  ASSUME CaptureInv, Crash PROVE [Promise!Next]_(Promise!promiseVars)
<1>1. Stage' = "idle" /\ RaSyncTypeOK
  BY DEF Crash, IdleRun, Stage, CaptureInv
<1>2. CASE UNCHANGED dir
  <2>1. Stage \in {"reading", "clearing", "writing"}
    BY <1>1, StageOf DEF Crash, Running
  <2>2. Without({}) = dir /\ {} \subseteq Files
    BY <1>1 DEF Without, RaSyncTypeOK
  <2>. QED
    BY <1>1, <1>2, <2>1, <2>2, SameWords
    DEF Promise!Read, Promise!ClearFails, Promise!WriteFails, Promise!Next
<1>3. CASE run.phase = "prepare" /\ \E gone \in SUBSET Files : dir' = Without(gone)
  BY <1>1, <1>3, StageOf, SameWords DEF Promise!ClearFails, Promise!Next
<1>4. CASE run.phase = "enrich" /\ \E a \in run.todo : dir' = [dir EXCEPT ![a] = Torn]
  <2>1. run.todo \subseteq AgentIds
    BY <1>1 DEF RaSyncTypeOK, Runs
  <2>. QED
    BY <1>1, <1>4, <2>1, StageOf DEF Promise!WriteFails, Promise!Next
<1>. QED
  BY <1>2, <1>3, <1>4 DEF Crash

\* Every step of the capture is one of the promise or none.
LEMMA StepKeepsPromise ==
  ASSUME CaptureInv, CaptureInv', [Next]_vars
  PROVE  [Promise!Next]_(Promise!promiseVars)
<1>0. RaSyncTypeOK /\ RaSyncTypeOK' /\ run \in Runs
  BY DEF CaptureInv, RaSyncTypeOK
<1>1. CASE run'.phase = run.phase /\ dir' = dir
  <2>1. Stage' = Stage
    BY <1>1 DEF Stage
  <2>. QED
    BY <1>1, <2>1 DEF Promise!promiseVars
<1>2. CASE Start
  <2>1. Stage \in {"idle", "green"}
    BY <1>0, <1>2, StageOf DEF Start, Running, Runs
  <2>2. Stage' = "reading" /\ dir' = dir
    BY <1>2 DEF Start, IdleRun, Stage
  <2>. QED
    BY <2>1, <2>2 DEF Promise!Begin, Promise!Next
<1>3. CASE Crash
  BY <1>3, CrashKeepsPromise
<1>4. CASE FetchPage \/ NextCursor
  <2>1. dir' = dir /\ Stage = "reading" /\ run'.phase \in {"fetch", "apply"}
    BY <1>0, <1>4, StageOf DEF FetchPage, NextCursor, PageApplied, Runs
  <2>2. Stage' = "reading"
    BY <2>1 DEF Stage
  <2>. QED
    BY <2>1, <2>2 DEF Promise!promiseVars
<1>5. CASE FetchFails \/ Runaway \/ Drained
  <2>1. dir' = dir /\ Stage = "reading" /\ run'.phase \in {"failed", "prepare"}
    BY <1>0, <1>5, StageOf DEF FetchFails, Runaway, Drained, PageApplied, Fail, Runs
  <2>2. Stage' \in {"clearing", "idle"}
    BY <2>1 DEF Stage
  <2>. QED
    BY <2>1, <2>2 DEF Promise!Read, Promise!Next
<1>6. CASE PrepareOutDir
  <2>1. dir' = EmptyDir /\ Stage = "clearing" /\ run'.phase = "enrich"
    BY <1>0, <1>6, StageOf DEF PrepareOutDir, Runs
  <2>2. Stage' = "writing"
    BY <2>1 DEF Stage
  <2>. QED
    BY <2>1, <2>2, SameWords DEF Promise!Clear, Promise!Next
<1>7. CASE PrepareFails
  <2>1. (\E gone \in SUBSET Files : dir' = Without(gone)) /\ Stage = "clearing"
        /\ run'.phase = "failed"
    BY <1>0, <1>7, StageOf DEF PrepareFails, Fail, Runs
  <2>2. Stage' = "idle"
    BY <2>1 DEF Stage
  <2>. QED
    BY <2>1, <2>2, SameWords DEF Promise!ClearFails, Promise!Next
<1>8. ASSUME NEW a \in AgentIds, Enrich(a) \/ Degrade(a)
      PROVE  [Promise!Next]_(Promise!promiseVars)
  <2>1. run.phase = "enrich" /\ a \in run.todo
    BY <1>8 DEF Enrich, Degrade
  <2>2. PICK badge \in BadgeEvents, miss \in {0, 1} : Capture(a, badge, miss)
    BY <1>8, NoBadgeShape, RaSyncConstants DEF Enrich, Degrade
  <2>. QED
    BY <2>1, <2>2, CaptureWrites
<1>9. ASSUME NEW a \in AgentIds, Abort(a)
      PROVE  [Promise!Next]_(Promise!promiseVars)
  <2>1. dir' = dir /\ Stage = "writing" /\ run'.phase = "failed"
    BY <1>0, <1>9, StageOf DEF Abort, Fail, Runs
  <2>2. Stage' = "idle"
    BY <2>1 DEF Stage
  <2>. QED
    BY <2>1, <2>2 DEF Promise!WriteFails, Promise!Next
<1>10. CASE Finish
  <2>1. dir' = dir /\ Stage = "writing" /\ run'.phase \in {"failed", "ok"}
    BY <1>0, <1>10, StageOf DEF Finish, Fail, Runs
  <2>2. Stage' \in {"idle", "green"}
    BY <2>1 DEF Stage
  <2>. QED
    BY <2>1, <2>2 DEF Promise!WriteFails, Promise!Finish, Promise!Next
<1>11. Publish \/ Age \/ Expire \/ ApplyNext \/ UNCHANGED vars =>
         run'.phase = run.phase /\ dir' = dir
  BY <1>0 DEF Publish, Age, Expire, ApplyNext, vars, Runs
<1>. QED
  BY <1>1, <1>2, <1>3, <1>4, <1>5, <1>6, <1>7, <1>8, <1>9, <1>10, <1>11 DEF Next, RunStep

\* The promise keeps damage to one file: files are torn only while a set is
\* written, and no set is begun before the last one is gone.
LEMMA DamageStep ==
  ASSUME Promise!DamageIsOneFile, [Promise!Next]_(Promise!promiseVars),
         dir \in [AgentIds -> Fixtures \cup {NoFixture, Torn}],
         dir' \in [AgentIds -> Fixtures \cup {NoFixture, Torn}]
  PROVE  Promise!DamageIsOneFile'
<1>. DEFINE OneTorn(d) == \A a, b \in AgentIds : d[a] = Torn /\ d[b] = Torn => a = b
            Whole(d) == \A a \in AgentIds : d[a] \notin {NoFixture, Torn} => Valid(d[a])
            NoneTorn(d) == \A a \in AgentIds : d[a] # Torn
<1>1. Promise!DamageIsOneFile <=>
        Whole(dir) /\ OneTorn(dir) /\ (Stage \in {"writing", "green"} => NoneTorn(dir))
  BY SameWords, RaSyncConstants DEF Promise!DamageIsOneFile, Promise!Loads, Files
<1>2. Promise!DamageIsOneFile' <=>
        Whole(dir') /\ OneTorn(dir') /\ (Stage' \in {"writing", "green"} => NoneTorn(dir'))
  BY SameWords, RaSyncConstants DEF Promise!DamageIsOneFile, Promise!Loads, Promise!Files
<1>3. CASE dir' = dir /\ (Stage' \in {"writing", "green"} => Stage \in {"writing", "green"})
  BY <1>1, <1>2, <1>3
<1>4. CASE dir' = EmptyDir
  <2>1. \A a \in AgentIds : dir'[a] = NoFixture
    BY <1>4 DEF EmptyDir
  <2>. QED
    BY <1>2, <2>1, RaSyncConstants
<1>5. CASE (\E gone \in SUBSET Files : dir' = Without(gone)) /\ Stage' = "idle"
  <2>1. \A a \in AgentIds : dir'[a] \in {NoFixture, dir[a]}
    BY <1>5 DEF Without
  <2>. QED
    BY <1>1, <1>2, <1>5, <2>1, RaSyncConstants
<1>6. CASE Promise!WriteFile
  <2>1. PICK a \in AgentIds :
          dir' = [dir EXCEPT ![a] = dir'[a]] /\ dir'[a] \in Fixtures /\ Valid(dir'[a])
    BY <1>6, SameWords DEF Promise!WriteFile
  <2>2. /\ Stage = "writing" /\ Stage' = "writing" /\ dir'[a] # Torn
        /\ \A b \in AgentIds : b # a => dir'[b] = dir[b]
    BY <1>6, <2>1, RaSyncConstants DEF Promise!WriteFile
  <2>. QED
    BY <1>1, <1>2, <2>1, <2>2
<1>7. CASE Promise!WriteFails /\ dir' # dir
  <2>1. PICK a \in AgentIds : dir' = [dir EXCEPT ![a] = Torn]
    BY <1>7 DEF Promise!WriteFails
  <2>2. /\ Stage = "writing" /\ Stage' = "idle" /\ dir'[a] = Torn
        /\ \A b \in AgentIds : b # a => dir'[b] = dir[b]
    BY <1>7, <2>1 DEF Promise!WriteFails
  <2>. QED
    BY <1>1, <1>2, <2>1, <2>2
<1>. HIDE DEF OneTorn, Whole, NoneTorn
<1>. QED
  BY <1>3, <1>4, <1>5, <1>6, <1>7, SameWords
  DEF Promise!Next, Promise!Begin, Promise!Read, Promise!Clear, Promise!ClearFails,
      Promise!WriteFails, Promise!Finish, Promise!promiseVars

\* The capture implements CapturePromise, whatever the feed and the log do and
\* wherever the process dies: the old set is untouched until the feed gave an
\* agent and gone before the new one is begun (Run, prepareOutDir, writeFixture).
THEOREM KeepsCapturePromise == Spec => Promise!Spec
<1>1. Init => Promise!Init
  BY SameWords DEF Init, IdleRun, Stage, Promise!Init
<1>. QED
  BY <1>1, StepKeepsPromise, InvAlways, PTL DEF Spec, Promise!Spec

\* So that, after any number of failed and dead runs, one torn file at most is in
\* the way of the producers that load the directory (tlevent.LoadDir).
THEOREM DamageTheorem == Spec => []Promise!DamageIsOneFile
<1>1. Init => Promise!DamageIsOneFile
  <2>. SUFFICES ASSUME Init PROVE Promise!DamageIsOneFile
    OBVIOUS
  <2>1. Files = {} /\ Stage = "idle"
    BY DEF Init, EmptyDir, Files, IdleRun, Stage
  <2>. QED
    BY <2>1, SameWords DEF Promise!DamageIsOneFile
<1>2. CaptureInv /\ CaptureInv' /\ Promise!DamageIsOneFile /\ [Next]_vars
        => Promise!DamageIsOneFile'
  BY StepKeepsPromise, DamageStep DEF CaptureInv, RaSyncTypeOK
<1>. QED
  BY <1>1, <1>2, InvAlways, PTL DEF Spec
=============================================================================
