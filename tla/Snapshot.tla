------------------------------ MODULE Snapshot ------------------------------
(***************************************************************************)
(* agent-snapshot: walk the search page by page, ask the transparency log  *)
(* for the badge of each agent found, and rewrite the fixture directory    *)
(* (internal/snapshot, internal/atdclient).  Agents are registered and     *)
(* changed while the search is walked; the process may die at any moment;  *)
(* a request may fail, as all do once the run's deadline has passed.       *)
(***************************************************************************)
EXTENDS SearchPages, FixtureDir

CONSTANTS
  Badges,        \* the events the transparency log's answers map to
  Providers,     \* SearchOpts.ProviderIDs, for any filter of the search
  PageSize,      \* SearchOpts.PageSize; 0 leaves it to the server
  Limits,        \* what SearchOpts.Limit may be; 0 is none
  StrayPages,    \* next links a faulty search may hand out; {} is a sound one
  MaxPagesWalk,
  MaxImports     \* bound: changes of the catalog

ASSUME SnapshotConstants ==
  /\ Badges \subseteq Fixtures
  /\ PageSize \in Nat /\ Limits \subseteq Nat
  /\ StrayPages \subseteq Nat
  /\ MaxPagesWalk \in Nat \ {0}
  /\ MaxImports \in Nat
  /\ NoFixture \notin Fixtures /\ Torn \notin Fixtures /\ Torn # NoFixture
  /\ Absent \notin Nat \cup Texts \cup Statuses
  /\ \A r \in Rows : r.status \in StatusTexts

VARIABLES
  imports,  \* changes of the catalog so far
  run,      \* where Run is, and the agents still to capture
  walk,     \* the variables of SearchAgents
  summary,  \* Summary
  past      \* history of the run: what properties recall

vars == <<catalog, imports, run, walk, summary, dir, past>>

\* What the walk keeps of a row: the row is read when its page is asked for.
Found == [agentId : AgentIds, status : StatusTexts]

Runs ==
  [phase : {"idle", "page", "prepare", "enrich", "ok", "failed"},
   error : {"none", "search", "ceiling", "prepare", "write", "nothing"},
   todo  : Seq(Found)]

Walks == [limit : Nat, next : Nat, pages : Nat, collected : Seq(Found)]

Summaries == [captured : Nat, errors : Nat]

Histories ==
  [before    : [AgentIds -> Fixtures \cup {NoFixture, Torn}],
   listed    : SUBSET AgentIds,  \* listed when the run began, and ever since
   moved     : SUBSET AgentIds,  \* left the list, or their place in it
   strays    : {0, 1},          \* 1 once a link was not the search's own
   answered  : SUBSET AgentIds]  \* agents with a badge that can be written

\* The run, its walk and its directory have their shapes.
SnapshotTypeOK ==
  /\ catalog \in Catalogs
  /\ imports \in 0 .. MaxImports
  /\ run \in Runs
  /\ walk \in Walks
  /\ summary \in Summaries
  /\ dir \in [AgentIds -> Fixtures \cup {NoFixture, Torn}]
  /\ past \in Histories

IdleRun == [phase |-> "idle", error |-> "none", todo |-> <<>>]
NewWalk(limit) ==
  [limit |-> limit, next |-> 1, pages |-> 0, collected |-> <<>>]
NoSummary == [captured |-> 0, errors |-> 0]
NewPast(before, listed) ==
  [before |-> before, listed |-> listed, moved |-> {}, strays |-> 0, answered |-> {}]

Init ==
  /\ catalog \in Catalogs /\ imports = 0
  /\ run = IdleRun /\ walk = NewWalk(0) /\ summary = NoSummary
  /\ dir = EmptyDir
  /\ past = NewPast(EmptyDir, {})

-----------------------------------------------------------------------------
(* The registry behind the search, changed by other clients.               *)

Selected(row) == Providers = {} \/ row.provider \in Providers

\* An import registers an agent or replaces its row; none is ever removed.
Import(a, row) ==
  /\ imports < MaxImports
  /\ imports' = imports + 1
  /\ catalog' = [catalog EXCEPT ![a] = row]
  /\ past' = [past EXCEPT
       !.listed = IF Selected(row) THEN @ ELSE @ \ {a},
       !.moved = IF a \in Matches(catalog, Providers)
                      /\ (~Selected(row) \/ row.name # catalog[a].name)
                 THEN @ \cup {a} ELSE @]
  /\ UNCHANGED <<run, walk, summary, dir>>

-----------------------------------------------------------------------------
(* The run.                                                                *)

Running == run.phase \in {"page", "prepare", "enrich"}

Fail(error) == run' = [run EXCEPT !.phase = "failed", !.error = error]

\* Mutant: the directory is wiped before the search is asked.
StartWiping ==
  /\ ~Running
  /\ run' = [IdleRun EXCEPT !.phase = "page"]
  /\ \E limit \in Limits : walk' = NewWalk(limit)
  /\ summary' = NoSummary /\ dir' = EmptyDir
  /\ past' = NewPast(dir, Matches(catalog, Providers))
  /\ UNCHANGED <<catalog, imports>>

Start ==
  /\ ~Running
  /\ run' = [IdleRun EXCEPT !.phase = "page"]
  /\ \E limit \in Limits : walk' = NewWalk(limit)
  /\ summary' = NoSummary
  /\ past' = NewPast(dir, Matches(catalog, Providers))
  /\ UNCHANGED <<catalog, imports, dir>>

\* The process dies, the directory half emptied or a file half written.
Crash ==
  /\ Running
  /\ run' = IdleRun /\ walk' = NewWalk(0) /\ summary' = NoSummary
  /\ \/ UNCHANGED dir
     \/ /\ run.phase = "prepare"
        /\ \E gone \in SUBSET Files : dir' = Without(gone)
     \/ /\ run.phase = "enrich" /\ run.todo # <<>>
        /\ dir' = [dir EXCEPT ![Head(run.todo).agentId] = Torn]
  /\ UNCHANGED <<catalog, imports, past>>

-----------------------------------------------------------------------------
(* SearchAgents                                                            *)

\* The agents of a page as the answer gives them.
Answer(page) ==
  LET items == Items(Providers, page, PageSize)
  IN  [i \in DOMAIN items |->
         [agentId |-> items[i], status |-> catalog[items[i]].status]]

Limited(found) ==
  IF walk.limit > 0 /\ Len(found) > walk.limit THEN SubSeq(found, 1, walk.limit) ELSE found

LimitReached(found) == walk.limit > 0 /\ Len(found) >= walk.limit

\* The next link of an answer, or a faulty search's.
NextLinks(page) == {NextToken(Providers, page, PageSize)} \cup StrayPages

FetchPage ==
  /\ run.phase = "page" /\ walk.pages < MaxPagesWalk
  /\ \E next \in NextLinks(walk.next) :
       LET found == walk.collected \o Answer(walk.next)
           done  == LimitReached(found) \/ next = 0
       IN  /\ walk' = [walk EXCEPT !.next = next, !.pages = @ + 1,
                                   !.collected = Limited(found)]
           /\ run' = [run EXCEPT !.phase = IF done THEN "prepare" ELSE "page",
                                 !.todo = IF done THEN Limited(found) ELSE <<>>]
           /\ past' = [past EXCEPT
                !.strays = IF next = NextToken(Providers, walk.next, PageSize)
                           THEN @ ELSE 1]
  /\ UNCHANGED <<catalog, imports, summary, dir>>

\* A page that cannot be had, is too large, or lies on another host.
FetchFails ==
  /\ run.phase = "page" /\ walk.pages < MaxPagesWalk
  /\ Fail("search")
  /\ UNCHANGED <<catalog, imports, walk, summary, dir, past>>

\* Mutant: the walk starts over at its ceiling.
CeilingRestarts ==
  /\ run.phase = "page" /\ walk.pages >= MaxPagesWalk
  /\ walk' = NewWalk(walk.limit)
  /\ UNCHANGED <<catalog, imports, run, summary, dir, past>>

Ceiling ==
  /\ run.phase = "page" /\ walk.pages >= MaxPagesWalk
  /\ Fail("ceiling")
  /\ UNCHANGED <<catalog, imports, walk, summary, dir, past>>

-----------------------------------------------------------------------------
(* The fixtures.                                                           *)

PrepareOutDir ==
  /\ run.phase = "prepare"
  /\ dir' = EmptyDir
  /\ run' = [run EXCEPT !.phase = "enrich"]
  /\ UNCHANGED <<catalog, imports, walk, summary, past>>

\* A file cannot be removed, after others were.
PrepareFails ==
  /\ run.phase = "prepare"
  /\ \E gone \in SUBSET Files : dir' = Without(gone)
  /\ Fail("prepare")
  /\ UNCHANGED <<catalog, imports, walk, summary, past>>

\* Mutant: the search's field goes into the wrong one.
mergeSwapped(found, badge) ==
  [badge EXCEPT !.status = Given(@, found.status), !.name = found.status]

\* The badge is the fixture; the search lends its status where it has none (and
\* the description and the endpoints, which no check reads).
merge(found, badge) == [badge EXCEPT !.status = Given(@, found.status)]

\* The agent is passed over: no badge, or one that does not make a valid event.
Skip ==
  /\ run' = [run EXCEPT !.todo = Tail(@)]
  /\ summary' = [summary EXCEPT !.errors = @ + 1]
  /\ UNCHANGED <<dir, past>>

Write(a, ev) ==
  /\ run' = [run EXCEPT !.todo = Tail(@)]
  /\ summary' = [summary EXCEPT !.captured = @ + 1]
  /\ dir' = [dir EXCEPT ![a] = ev]
  /\ past' = [past EXCEPT !.answered = @ \cup {a}]

\* A write that fails before the file is touched, or half way.
WriteFails(a) ==
  /\ Fail("write")
  /\ \E left \in {dir[a], Torn} : dir' = [dir EXCEPT ![a] = left]
  /\ UNCHANGED <<summary, past>>

Capture ==
  /\ run.phase = "enrich" /\ run.todo # <<>>
  /\ \E badge \in Badges :
       LET ev == merge(Head(run.todo), badge)
           a  == Head(run.todo).agentId
       IN  IF Valid(ev) THEN Write(a, ev) \/ WriteFails(a) ELSE Skip
  /\ UNCHANGED <<catalog, imports, walk>>

Miss ==
  /\ run.phase = "enrich" /\ run.todo # <<>>
  /\ Skip
  /\ UNCHANGED <<catalog, imports, walk>>

\* Mutant: an outage ends like any other run.
FinishEmpty ==
  /\ run.phase = "enrich" /\ run.todo = <<>>
  /\ run' = [run EXCEPT !.phase = "ok"]
  /\ UNCHANGED <<catalog, imports, walk, summary, dir, past>>

\* An outage of the log is refused; that the search found nobody is not.
Finish ==
  /\ run.phase = "enrich" /\ run.todo = <<>>
  /\ \/ walk.collected # <<>> /\ summary.captured = 0 /\ Fail("nothing")
     \/ /\ walk.collected = <<>> \/ summary.captured # 0
        /\ run' = [run EXCEPT !.phase = "ok"]
  /\ UNCHANGED <<catalog, imports, walk, summary, dir, past>>

RunStep ==
  \/ FetchPage \/ FetchFails \/ Ceiling
  \/ PrepareOutDir \/ PrepareFails
  \/ Capture \/ Miss \/ Finish

Next ==
  \/ \E a \in AgentIds, row \in Rows : Import(a, row)
  \/ Start \/ Crash
  \/ RunStep

\* The producer is one sequential program whose calls all return: a request has
\* its time limit.  Nothing is assumed of other clients or the operator.
Spec == Init /\ [][Next]_vars /\ WF_vars(RunStep)

-----------------------------------------------------------------------------
(* What the snapshot promises.                                             *)

Stage ==
  CASE run.phase = "page"    -> "reading"
    [] run.phase = "prepare" -> "clearing"
    [] run.phase = "enrich"  -> "writing"
    [] run.phase = "ok"      -> "green"
    [] OTHER                 -> "idle"

Promise == INSTANCE CapturePromise WITH stage <- Stage

\* Whoever loads the directory sees what both capture tools promise: not a file
\* is touched before the search has been walked to its end, the old ones are gone
\* before the first new one, each is a valid event, and a run that is cut short
\* leaves one torn file at most and is not green (Run, prepareOutDir,
\* writeFixture).
ImplementsPromise == Promise!Spec

Collected == {walk.collected[k].agentId : k \in DOMAIN walk.collected}

Walked == run.phase \in {"prepare", "enrich", "ok"}

\* Agents at most joined the list since the run began, and every link was the
\* search's own.
Undisturbed == past.moved = {} /\ past.strays = 0

\* A walk to the end of the list passes over nobody who was on it all along, as
\* long as agents are only added to the list while it is walked: offsets shift,
\* and the walk meets some twice (Search, SearchAgents).
WalkSkipsNobody ==
  Walked /\ walk.limit = 0 /\ Undisturbed => past.listed \subseteq Collected

\* On a list nobody touches, and whose pages have numbers, the walk is the list:
\* in its order, nobody twice, up to the limit (Search, SearchAgents).
QuietWalkIsTheList ==
  Walked /\ imports = 0 /\ Undisturbed =>
    LET size == Cardinality(past.listed)
    IN  size <= MaxPage * clampSize(PageSize) =>
        /\ Len(walk.collected) =
             IF walk.limit > 0 /\ walk.limit < size THEN walk.limit ELSE size
        /\ \A k \in DOMAIN walk.collected :
             Rank(catalog, Providers, walk.collected[k].agentId) = k - 1

\* A search that fails or never ends costs no fixture (Run).
SearchTroubleSparesFixtures ==
  run.phase # "idle" /\ dir # past.before =>
    run.phase # "page" /\ run.error \notin {"search", "ceiling"}

\* A green run leaves a set that loads: a file for exactly the agents whose
\* badge came and was valid, all of them found by the search, and none at all
\* only if the search found nobody; each agent found was captured or counted as
\* an error (Run, tlevent.LoadDir).
GreenSnapshotLoads ==
  run.phase = "ok" =>
    /\ Loads
    /\ Files = past.answered /\ Files \subseteq Collected
    /\ Files = {} => walk.collected = <<>>
    /\ summary.captured + summary.errors = Len(walk.collected)
    /\ Cardinality(Files) <= summary.captured

\* Every run ends, on a search that grows and sends the walk in a circle
\* (maxPagesWalk).
SnapshotEnds == Running ~> ~Running
=============================================================================
