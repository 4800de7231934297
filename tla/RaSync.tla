------------------------------- MODULE RaSync -------------------------------
(***************************************************************************)
(* agent-ra-sync: drain the registration authority's event feed, fold it   *)
(* into the current agents, ask the transparency log for each one's badge, *)
(* and rewrite the fixture directory (internal/rasync).  The feed grows    *)
(* and forgets its oldest rows while it is drained; fetches fail or time   *)
(* out; the run's deadline passes or the process dies at any moment.       *)
(***************************************************************************)
EXTENDS FixtureDir, Sequences, FiniteSets

CONSTANTS
  Items,         \* the events the feed may publish
  Badges,        \* the answers of the transparency log
  StrayCursors,  \* cursors a faulty feed may hand out; {} is a sound feed
  PageSize,      \* after normalizePageSize
  MaxFeedPages,
  MaxLog,        \* bound: events published
  NoAgent

\* An event without an agent id is skipped like one of an unknown type.
EventItems ==
  [agentId : AgentIds, eventType : STRING, dated : BOOLEAN,
   host : Texts \cup {Absent}, name : Texts \cup {Absent}]

FoldedAgents ==
  [status : Statuses, host : Texts \cup {Absent}, name : Texts \cup {Absent},
   firstSeen : Times, lastUpdated : Times]

BadgeEvents ==
  [status : StatusTexts, host : Texts \cup {Absent}, firstSeen : Times,
   attestations : Baselines \cup {Absent}]

ASSUME RaSyncConstants ==
  /\ Items \subseteq EventItems
  /\ Badges \subseteq BadgeEvents
  /\ StrayCursors \subseteq Nat
  /\ PageSize \in 1 .. 200
  /\ MaxFeedPages \in Nat \ {0}
  /\ MaxLog \in Nat
  /\ IsFiniteSet(AgentIds)
  /\ NoAgent \notin FoldedAgents
  /\ NoFixture \notin Fixtures /\ Torn \notin Fixtures /\ Torn # NoFixture
  /\ Absent \notin Nat \cup Texts \cup Statuses

VARIABLES
  feed,     \* the rows published and the first one still retained
  expired,  \* the run's context is done
  run,      \* where Run is, the folded agents and those still to enrich
  drain,    \* the variables of drainAndFold
  summary,  \* Summary
  past      \* history of the run: what the code forgets and properties recall

vars == <<feed, expired, run, drain, summary, dir, past>>

Feeds == [log : Seq(Items), oldest : Nat \ {0}]

Runs ==
  [phase  : {"idle", "fetch", "apply", "prepare", "enrich", "ok", "failed"},
   error  : {"none", "fetch", "runaway", "empty", "prepare", "aborted",
             "write", "degraded", "nothing"},
   agents : [AgentIds -> FoldedAgents \cup {NoAgent}],
   todo   : SUBSET AgentIds]

Drains ==
  [cursor : Nat,        \* 0 is the empty cursor
   pages  : Nat,
   page   : Seq(Nat),   \* log ids of the page not yet applied
   next   : Nat,        \* LastLogID of the page
   items  : Nat]        \* len(Items) of the page

Summaries == [captured : Nat, misses : Nat, drops : Nat]

Histories ==
  [read     : Seq(Nat),                         \* log ids applied, in order
   tail     : Nat,                              \* last row when the run began
   before   : [AgentIds -> Fixtures \cup {NoFixture, Torn}],
   answered : SUBSET AgentIds]                  \* agents whose badge came

\* The run, its directory and the feed have their shapes, and pages and cursors
\* name rows of the feed.
RaSyncTypeOK ==
  /\ feed \in Feeds
  /\ expired \in BOOLEAN
  /\ run \in Runs
  /\ drain \in Drains
  /\ summary \in Summaries
  /\ dir \in [AgentIds -> Fixtures \cup {NoFixture, Torn}]
  /\ past \in Histories
  /\ \A k \in DOMAIN drain.page : drain.page[k] \in DOMAIN feed.log
  /\ \A k \in DOMAIN past.read : past.read[k] \in DOMAIN feed.log

NoAgents == [a \in AgentIds |-> NoAgent]

IdleRun == [phase |-> "idle", error |-> "none", agents |-> NoAgents, todo |-> {}]
NoDrain == [cursor |-> 0, pages |-> 0, page |-> <<>>, next |-> 0, items |-> 0]
NoSummary == [captured |-> 0, misses |-> 0, drops |-> 0]

Init ==
  /\ feed = [log |-> <<>>, oldest |-> 1]
  /\ expired = FALSE
  /\ run = IdleRun /\ drain = NoDrain /\ summary = NoSummary
  /\ dir = EmptyDir
  /\ past = [read |-> <<>>, tail |-> 0, before |-> EmptyDir, answered |-> {}]

-----------------------------------------------------------------------------
(* The feed, outside this repository.                                      *)

Publish ==
  /\ Len(feed.log) < MaxLog
  /\ \E it \in Items : feed' = [feed EXCEPT !.log = Append(@, it)]
  /\ UNCHANGED <<expired, run, drain, summary, dir, past>>

\* The retention window passes a row.
Age ==
  /\ feed.oldest <= Len(feed.log)
  /\ feed' = [feed EXCEPT !.oldest = @ + 1]
  /\ UNCHANGED <<expired, run, drain, summary, dir, past>>

\* The log ids of the page after a cursor: the next retained rows, ascending.
Served(cursor) ==
  LET from == IF cursor < feed.oldest THEN feed.oldest ELSE cursor + 1
      to   == IF from + PageSize - 1 < Len(feed.log)
              THEN from + PageSize - 1 ELSE Len(feed.log)
  IN  [i \in 1 .. (IF to < from THEN 0 ELSE to - from + 1) |-> from + i - 1]

\* The cursor of a page: its last row, nothing at the tail, or a stray one.
Cursors(page) ==
  (IF page = <<>> THEN {0}
   ELSE {page[Len(page)]} \cup (IF page[Len(page)] = Len(feed.log) THEN {0} ELSE {}))
    \cup StrayCursors

-----------------------------------------------------------------------------
(* drainAndFold                                                            *)

statusForEventType(t) ==
  CASE t \in {"AGENT_REGISTERED", "AGENT_RENEWED"} -> "ACTIVE"
    [] t = "AGENT_REVOKED"    -> "REVOKED"
    [] t = "AGENT_DEPRECATED" -> "DEPRECATED"
    [] OTHER                  -> Absent

ZeroAgent ==
  [status |-> Absent, host |-> Absent, name |-> Absent,
   firstSeen |-> Absent, lastUpdated |-> Absent]

CreatedAt(id) == IF feed.log[id].dated THEN id ELSE Absent

Folded(old, id) ==
  LET it == feed.log[id]
      fa == IF old = NoAgent THEN ZeroAgent ELSE old
  IN  [status      |-> statusForEventType(it.eventType),
       host        |-> Given(it.host, fa.host),
       name        |-> Given(it.name, fa.name),
       lastUpdated |-> Given(CreatedAt(id), fa.lastUpdated),
       firstSeen   |-> IF it.eventType = "AGENT_REGISTERED"
                       THEN Given(fa.firstSeen, CreatedAt(id)) ELSE fa.firstSeen]

Recognized(id) == statusForEventType(feed.log[id].eventType) # Absent

\* Mutant: an unknown event counts.
applyAnyEvent(agents, id) == [agents EXCEPT ![feed.log[id].agentId] = Folded(@, id)]

applyEvent(agents, id) ==
  IF Recognized(id)
  THEN [agents EXCEPT ![feed.log[id].agentId] = Folded(@, id)]
  ELSE agents

Running == run.phase \in {"fetch", "apply", "prepare", "enrich"}

Fail(error) == run' = [run EXCEPT !.phase = "failed", !.error = error]

Start ==
  /\ ~Running
  /\ run' = [IdleRun EXCEPT !.phase = "fetch"]
  /\ drain' = NoDrain /\ summary' = NoSummary
  /\ expired' = FALSE
  /\ past' = [read |-> <<>>, tail |-> Len(feed.log), before |-> dir, answered |-> {}]
  /\ UNCHANGED <<feed, dir>>

\* The deadline of the run's context, which main sets.
Expire ==
  /\ Running /\ ~expired
  /\ expired' = TRUE
  /\ UNCHANGED <<feed, run, drain, summary, dir, past>>

\* The process dies, the directory half emptied or a file half written: the
\* directory is all that is left.
Crash ==
  /\ Running
  /\ run' = IdleRun /\ drain' = NoDrain /\ summary' = NoSummary
  /\ \/ UNCHANGED dir
     \/ /\ run.phase = "prepare"
        /\ \E gone \in SUBSET Files : dir' = Without(gone)
     \/ /\ run.phase = "enrich"
        /\ \E a \in run.todo : dir' = [dir EXCEPT ![a] = Torn]
  /\ UNCHANGED <<feed, expired, past>>

FetchPage ==
  /\ run.phase = "fetch" /\ ~expired
  /\ LET page == Served(drain.cursor)
     IN  \E next \in Cursors(page) :
           drain' = [drain EXCEPT !.pages = @ + 1, !.page = page, !.next = next,
                                  !.items = Len(page)]
  /\ run' = [run EXCEPT !.phase = "apply"]
  /\ UNCHANGED <<feed, expired, summary, dir, past>>

\* Mutant: a failed fetch is tried again, whatever the reason.
FetchRetries == run.phase = "fetch" /\ UNCHANGED vars

FetchFails ==
  /\ run.phase = "fetch"
  /\ Fail("fetch")
  /\ UNCHANGED <<feed, expired, drain, summary, dir, past>>

ApplyNext ==
  /\ run.phase = "apply" /\ drain.page # <<>>
  /\ run' = [run EXCEPT !.agents = applyEvent(@, Head(drain.page))]
  /\ drain' = [drain EXCEPT !.page = Tail(@)]
  /\ past' = [past EXCEPT !.read = Append(@, Head(drain.page))]
  /\ UNCHANGED <<feed, expired, summary, dir>>

\* Mutant: the cursor comparison is inverted.
ReachedEndEarly == drain.next = 0 \/ drain.next # drain.cursor \/ drain.items = 0

ReachedEnd == drain.next = 0 \/ drain.next = drain.cursor \/ drain.items = 0

PageApplied == run.phase = "apply" /\ drain.page = <<>>

NextCursor ==
  /\ PageApplied /\ ~ReachedEnd /\ drain.pages < MaxFeedPages
  /\ run' = [run EXCEPT !.phase = "fetch"]
  /\ drain' = [drain EXCEPT !.cursor = drain.next]
  /\ UNCHANGED <<feed, expired, summary, dir, past>>

Runaway ==
  /\ PageApplied /\ ~ReachedEnd /\ drain.pages >= MaxFeedPages
  /\ Fail("runaway")
  /\ UNCHANGED <<feed, expired, drain, summary, dir, past>>

\* Mutant: an empty feed is captured like another.
DrainedAnything ==
  /\ PageApplied /\ ReachedEnd
  /\ run' = [run EXCEPT !.phase = "prepare"]
  /\ UNCHANGED <<feed, expired, drain, summary, dir, past>>

\* The feed is read; without an agent the run refuses to go on.
Drained ==
  /\ PageApplied /\ ReachedEnd
  /\ \/ run.agents = NoAgents /\ Fail("empty")
     \/ run.agents # NoAgents /\ run' = [run EXCEPT !.phase = "prepare"]
  /\ UNCHANGED <<feed, expired, drain, summary, dir, past>>

-----------------------------------------------------------------------------
(* The fixtures.                                                           *)

Folds == {a \in AgentIds : run.agents[a] # NoAgent}

\* Mutant: the previous fixtures stay.
PrepareKeepsFiles ==
  /\ run.phase = "prepare"
  /\ run' = [run EXCEPT !.phase = "enrich", !.todo = Folds]
  /\ UNCHANGED <<feed, expired, drain, summary, dir, past>>

PrepareOutDir ==
  /\ run.phase = "prepare"
  /\ dir' = EmptyDir
  /\ run' = [run EXCEPT !.phase = "enrich", !.todo = Folds]
  /\ UNCHANGED <<feed, expired, drain, summary, past>>

\* A file cannot be removed, after others were.
PrepareFails ==
  /\ run.phase = "prepare"
  /\ \E gone \in SUBSET Files : dir' = Without(gone)
  /\ Fail("prepare")
  /\ UNCHANGED <<feed, expired, drain, summary, past>>

NoBadge == [status |-> Absent, host |-> Absent, firstSeen |-> Absent, attestations |-> Absent]

\* The feed's display name, or its host: never the badge's.
toEvent(fa, badge) ==
  LET firstSeen == Given(badge.firstSeen, fa.firstSeen)
  IN  [status       |-> Given(badge.status, fa.status),
       host         |-> Given(badge.host, fa.host),
       name         |-> Given(fa.name, fa.host),
       firstSeen    |-> firstSeen,
       lastUpdated  |-> Given(fa.lastUpdated, firstSeen),
       attestations |-> badge.attestations]

\* The rest of the loop's body for agent a, from its badge or NoBadge.
Capture(a, badge, miss) ==
  LET ev == toEvent(run.agents[a], badge)
  IN  \/ /\ ~Valid(ev)
         /\ run' = [run EXCEPT !.todo = @ \ {a}]
         /\ summary' = [summary EXCEPT !.misses = @ + miss, !.drops = @ + 1]
         /\ UNCHANGED dir
      \/ /\ Valid(ev)
         /\ run' = [run EXCEPT !.todo = @ \ {a}]
         /\ summary' = [summary EXCEPT !.misses = @ + miss, !.captured = @ + 1]
         /\ dir' = [dir EXCEPT ![a] = ev]
      \/ /\ Valid(ev)
         /\ Fail("write")
         /\ summary' = [summary EXCEPT !.misses = @ + miss]
         /\ \E left \in {NoFixture, Torn} : dir' = [dir EXCEPT ![a] = left]

Enrich(a) ==
  /\ run.phase = "enrich" /\ a \in run.todo /\ ~expired
  /\ \E badge \in Badges : Capture(a, badge, 0)
  /\ past' = [past EXCEPT !.answered = @ \cup {a}]
  /\ UNCHANGED <<feed, expired, drain>>

Degrade(a) ==
  /\ run.phase = "enrich" /\ a \in run.todo /\ ~expired
  /\ Capture(a, NoBadge, 1)
  /\ UNCHANGED <<feed, expired, drain, past>>

\* A fetch that fails with context.DeadlineExceeded: the run's deadline, and
\* the http client's own limit of one request, whose error matches it too.
Abort(a) ==
  /\ run.phase = "enrich" /\ a \in run.todo
  /\ Fail("aborted")
  /\ UNCHANGED <<feed, expired, drain, summary, dir, past>>

\* Mutant: only an empty capture is refused.
FinishDegraded ==
  /\ run.phase = "enrich" /\ run.todo = {}
  /\ \/ summary.captured = 0 /\ Fail("nothing")
     \/ summary.captured # 0 /\ run' = [run EXCEPT !.phase = "ok"]
  /\ UNCHANGED <<feed, expired, drain, summary, dir, past>>

Finish ==
  /\ run.phase = "enrich" /\ run.todo = {}
  /\ \/ summary.misses = Cardinality(Folds) /\ Fail("degraded")
     \/ summary.misses # Cardinality(Folds) /\ summary.captured = 0 /\ Fail("nothing")
     \/ summary.misses # Cardinality(Folds) /\ summary.captured # 0
        /\ run' = [run EXCEPT !.phase = "ok"]
  /\ UNCHANGED <<feed, expired, drain, summary, dir, past>>

RunStep ==
  \/ FetchPage \/ FetchFails \/ ApplyNext \/ NextCursor \/ Runaway \/ Drained
  \/ PrepareOutDir \/ PrepareFails
  \/ \E a \in AgentIds : Enrich(a) \/ Degrade(a) \/ Abort(a)
  \/ Finish

Next == Publish \/ Age \/ Start \/ Expire \/ Crash \/ RunStep

\* The producer is one sequential program whose calls all return: a request has
\* its time limit.  Nothing is assumed of the feed, the deadline or the operator.
Spec == Init /\ [][Next]_vars /\ WF_vars(RunStep)

-----------------------------------------------------------------------------
(* What the capture promises.                                              *)

\* The places of the run's reading where an event about a counts.
Known(a) ==
  {k \in DOMAIN past.read : /\ Recognized(past.read[k])
                            /\ feed.log[past.read[k]].agentId = a}

Hosted(a)     == {k \in Known(a) : feed.log[past.read[k]].host # Absent}
Named(a)      == {k \in Known(a) : feed.log[past.read[k]].name # Absent}
Dated(a)      == {k \in Known(a) : feed.log[past.read[k]].dated}
Registered(a) == {k \in Dated(a) : feed.log[past.read[k]].eventType = "AGENT_REGISTERED"}

Newest(k, K) == k \in K /\ \A j \in K : j <= k
Oldest(k, K) == k \in K /\ \A j \in K : k <= j

\* What the events read say of agent a.
FoldedFromReads(a) ==
  LET fa == run.agents[a] IN
  /\ fa = NoAgent <=> Known(a) = {}
  /\ \A k \in Known(a) : Newest(k, Known(a)) =>
       fa.status = statusForEventType(feed.log[past.read[k]].eventType)
  /\ \A k \in Hosted(a) : Newest(k, Hosted(a)) => fa.host = feed.log[past.read[k]].host
  /\ \A k \in Named(a) : Newest(k, Named(a)) => fa.name = feed.log[past.read[k]].name
  /\ \A k \in Dated(a) : Newest(k, Dated(a)) => fa.lastUpdated = past.read[k]
  /\ \A k \in Registered(a) : Oldest(k, Registered(a)) => fa.firstSeen = past.read[k]

\* The folded agent is what the events read so far say of it: the status of the
\* newest one, and each detail from the newest event that carries it, so that a
\* sparse revocation neither blanks a host nor leaves an old status
\* (applyEvent).  Unknown events count for nothing.
FoldIsCurrent == run.phase # "idle" => \A a \in AgentIds : FoldedFromReads(a)

\* A drain that ends has read every row that was there when the run began and
\* is still retained, however the feed grew and aged between two pages
\* (drainAndFold, ReachedEnd).
DrainMissesNothing ==
  run.phase \in {"prepare", "enrich", "ok"} =>
    \A id \in feed.oldest .. past.tail : \E k \in DOMAIN past.read : past.read[k] = id

\* No run touches the previous fixtures unless the feed gave it an agent: a
\* failed, endless or empty feed leaves them as they were (Run).
FeedTroubleSparesFixtures ==
  run.phase # "idle" /\ dir # past.before =>
    /\ run.agents # NoAgents
    /\ run.phase \notin {"fetch", "apply"}
    /\ run.error \notin {"fetch", "runaway", "empty"}

\* The fixtures of a green run load (tlevent.LoadDir): each is whole and valid,
\* there is one at least, they are all of this run's agents, and the summary
\* counts them.
GreenSetLoads ==
  run.phase = "ok" =>
    /\ Files # {} /\ Files \subseteq Folds
    /\ Loads
    /\ summary.captured = Cardinality(Files)
    /\ summary.captured + summary.drops = Cardinality(Folds)

\* A green run heard from the transparency log, and an agent it did not hear
\* about is written as the feed alone tells it (Run, toEvent).  That the log told
\* of is an agent that may have been dropped: a green set may be the feed's word
\* alone, but then the run reports drops beside its misses.
GreenIsNotBlind ==
  run.phase = "ok" =>
    /\ past.answered # {}
    /\ summary.misses = Cardinality(Folds \ past.answered)
    /\ \A a \in Files \ past.answered : dir[a] = toEvent(run.agents[a], NoBadge)
    /\ Files \cap past.answered = {} => summary.drops > 0 /\ summary.misses > 0

\* "A TL badge miss degrades that agent to a feed-only fixture (empty
\* attestations), never aborts the run" (Run): only the run's own deadline does.
MissNeverAborts == run.error = "aborted" => expired

\* Every run ends, on a feed that grows, ages and hands out cursors it handed
\* out before (maxFeedPages).
RunsEnd == Running ~> ~Running
=============================================================================
