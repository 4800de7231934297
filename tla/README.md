# A verification model of agent-trust-discovery

This directory holds TLA+ modules that model the trust-discovery server of this
repository, TLC configurations that check them on small instances, and proofs
that TLAPS checks for every value of the constants. `PROJECT.json` maps every
definition to the lines it models, and lists the runs, the mutants that show
each property can fail, the hazards and the theorems.

Run a model with `tlc -workers 2 -config <file>.cfg <MC module>`, a proof with
`tlapm <module>Proofs.tla`.

## The system

RA feed, transparency log and a remote Trust Index (all external) are captured
by command-line tools into `tl-events/*.yaml`. Two producers turn those files
into HTTP imports. The server stores them and computes a Trust Evaluation on
every read.

```
RA feed / TL --> agent-ra-sync, agent-snapshot --> tl-events/*.yaml
                                                     |
                   agent-hydrator-stub, agent-prober <
                                   | POST imports
   audit > recoverer > adminAuth > importsvc --> sqlitestore (agents, log, FTS)
                                                     ^ LatestObservation, GetAgent
             GET detail > search.Service > scoring engine > classify
             GET/POST search > search.Service > index
```

### Components

| component | state | operations | what is hard |
|---|---|---|---|
| `port.AgentStore` | agent register, newest observation per pair | `UpsertAgents`, `AppendObservations`, `GetAgent`, `LatestObservation` | all-or-nothing, idempotent, monotone in time |
| SQLite adapter | `agents`, `agents_fts` (triggers), `signal_observations` (append-only, unique triple), the open transaction | statements, commit, rollback, `PruneObservations` | failures between statements, truncation to the second, late rows, retention, index in lockstep |
| boot and migrations | `schema_migrations`; what a process has read of its files | `config.Load`, `Open`, `migrate`, `LoadSignals`, `LoadProfiles`, `Build` | crashes between statements, processes that boot side by side, duplicates of version 1, files that change between two reads |
| search index | reads `agents` + FTS | `Search` | two statements per page, offsets into a changing order |
| import service | none of its own; one goroutine per request | the two import routes with every early return | lookups outside the transaction, lost answers, retries, crashes, the mandatory audit line |
| middleware | per-request recorder and `auditctx.Info` | body limit, key, panic recovery, audit | deferred lines that read what others set |
| detail route | none; one goroutine per request | `Detail`, `Evaluate` | one read per signal between other clients' commits |
| scoring engine | registry, profiles (fixed per boot), thresholds | `Evaluate`, `Classify` | absence, weights, caps, rounding, the cascade |
| built-in and container signals | none | `Validate`, `Evaluate` | boundary values, what `Validate` lets through to `Evaluate` |
| `agent-ra-sync` | the folded agents, the cursor, the counters of one run; the output directory across runs | `drainAndFold`, `prepareOutDir`, `Fetch`, `toEvent`, `validate`, `writeFixture`, the verdict | a feed that changes while it is paged, partial failures after the wipe, deadlines, crashes |
| `agent-snapshot` | the walk of one run; the output directory across runs | `SearchAgents`, `prepareOutDir`, `Fetch`, `merge`, `Validate`, `writeFixture`, the verdict | pages that are offsets into a list others change, links that lead in a circle, partial failures after the wipe, crashes |
| `agent-hydrator-stub` | the events and fixtures of one run | `projectAgent`, `projectObservation`, two POSTs | agents first, lost answers, one bad row rejects a batch |
| `agent-prober` | the events, loaded once; the batch of a pass | `probeAgent`, `RunOnce`, the ticker | probes that fail, one body for all agents that is refused or too long, lost passes, stamps that compete with those of others |

The properties that make each correct are the hazards of `PROJECT.json`, each
with the line where it bites. Three of them no property covers; their notes say
why.

## Modules

| module | models | role |
|---|---|---|
| `StoreTypes` | domain types, batches, `formatTime`'s truncation | shared values and the order "at least as new" |
| `StorePromise` | `port.AgentStore` | abstract specification: one call open at a time, taken whole in one step or not at all |
| `ObservationStore` | `adapter/sqlitestore` | detailed specification: one action per SQL statement |
| `TrustService` | router, middleware, `importsvc`, `search.Service.Detail`, the engine's read loop | concurrent handlers over `StorePromise`, with crash and restart |
| `TrustEngine` | `scoring/engine`, `registry` | evaluation as operators; registration, profiles and observations as actions |
| `Agents`, `FixtureDir` | `domain.Status`; the directory `tl-events/`, `tlevent`'s `validate` and `LoadDir` | shared by the capture tools |
| `CapturePromise` | what a capture tool does to the directory, feeds, searches and badges left out | abstract specification: nothing touched until the agents are known, the old set gone before the new one is begun, only a finished run green |
| `RaSync` | `cmd/agent-ra-sync`, `rasync`, `raclient`, the outcomes of `tlclient.Fetch` | one capture after another over a directory of fixtures, beside a feed that grows and ages |
| `SearchPages` | `DB.Search` and the links of the search route | one page as an operator: filter, order, offset, token |
| `Snapshot` | `cmd/agent-snapshot`, `snapshot`, `atdclient` | one snapshot after another: a walk over those pages beside imports, then the fixtures |
| `Signals` | `scoring/signals`, `scorecontainer` | `Validate` and `Evaluate` of every signal of the binary as operators |
| `Producers` | `cmd/agent-hydrator-stub`, `hydrator`, `cmd/agent-prober`, `prober` | the producers, hosts and a provider around what the server reads |
| `Boot` | `cmd/agent-trust-discovery`, `config`, `server.Build`, `sqlitestore.Open` and `migrate`, `LoadSignals`, `LoadProfiles` | processes that boot on one database while files change |
| `MCObservationStore`, `MCTrustService`, `MCTrustEngine`, `MCRaSync`, `MCSnapshot`, `MCProducers`, `MCBoot` | - | the instances TLC explores |
| `ObservationStoreProofs`, `TrustServiceProofs`, `TrustEngineProofs`, `RaSyncProofs`, `SnapshotProofs`, `ProducersProofs`, `BootProofs` | - | theorems |
| `FiniteSums` | - | lemmas on finite sums, for `TrustEngineProofs` and `ProducersProofs` |

`ObservationStore` is shown to implement `StorePromise` (run `store`, theorem
`ImplementsPromiseTheorem`); `TrustService` EXTENDS `StorePromise` and is shown
to stay within it (`RoutesKeepThePromise`). So what the service relies on is
exactly what the adapter provides. `RaSync` and `Snapshot` both EXTEND
`FixtureDir`, the directory they rewrite, and both are shown to implement
`CapturePromise` (run `snapshot`, theorems `KeepsCapturePromise`), so that the
producers that load the directory need not know which tool wrote it; `Snapshot` also EXTENDS `SearchPages`
and so composes the client's walk with the server's pages. `Producers` EXTENDS
`Signals`: what the producers write is what the signals validate and score.
`ServingIsSound` of `Boot` is what the others assume of a server that runs:
`ThresholdsAscend` of `TrustEngine`, `SignalConstants` of `Signals`, the current
schema of `ObservationStore`, and weights of signals that exist.

### Correspondence

*ObservationStore.* `db` is the committed database: `agents` the table, `fts`
the index entries, `rows` the observation log, `seq` the AUTOINCREMENT
sequence. `tx` is the open write transaction: the batch of the call, how many
rows its loop has done, and the copy of the database it is building. SQLite
begins a deferred transaction and takes the write lock at its first statement,
which is always an insert, so `Begin` stands for both. `UpsertNext` and
`AppendNext` are one turn of the loops (`agentstore.go` 38 and 60); a missing
agent disables `AppendNext`, which leaves `Rollback`. `Rollback` is also the
cancelled context and the crash. Triggers and `ON CONFLICT` are part of the
statement that fires them.

*TrustService.* `req[r]` is one import request; its `pc` is the place in the
middleware chain and handler: `audit` (body), `auth`, `decode`, `validate` (one
row at a time), `store` (about to begin), `call` (inside the store), `ack`,
`reply` (status written, audit line to come). `view[d]` is one detail request:
`lookup`, `score` (one signal at a time), `answer`. `committed`, `known`,
`floor` and `acked` are history: no guard reads them. A client that loses an
answer is the branch of `Ack` that leaves `acked` alone; a retry is the same
body sent again. `Crash` ends all handlers and keeps what was committed.

*TrustEngine.* `registered`, `weight`, `gate` and `seen` are what `Evaluate`
reads. `Weighted(d)` is the set of signals that reach the `weight > 0` block of
the loop, `Score` the capped average, `Classify` the cascade. A registry is
ordered in the code; the order only decides the order of the risk codes in the
response, so it is a set here. Weights are naturals: the average is a ratio,
and multiplying the fractions of a profile by their common denominator does not
change it. The float64 arithmetic of the code is taken as exact.

*RaSync.* `feed` is the RA's log and its oldest retained row. `run.phase` is the
place in `Run`: `fetch` and `apply` in `drainAndFold` (one page, one event),
`prepare` before `prepareOutDir`, `enrich` in the loop over the agents, which
`range` over a map visits in any order, `ok` and `failed` once it has returned,
`run.error` naming the return. `run.agents` is the map of folded agents, `drain`
the locals of `drainAndFold`, `summary` the counters, `dir` the directory.
`past` is history: the rows applied, the tail when the run began, the directory
it found, the agents whose badge came. Agent ids are UUIDs, so a file is named
by its agent. `host` stands for host and version, which the code treats alike;
`name` for the display name and what else an event overwrites only when it
carries it. A time is a position in the feed. A badge whose timestamps do not
parse overrides and then fails `validate`, as one with an unknown status does,
and is represented by it. `Torn` is a file whose write did not finish. `Expire`
is the run's context reaching its deadline; the HTTP client's limit for one
request is part of `FetchFails` and `Abort`.

*SearchPages and Snapshot.* `catalog` is the table `agents`: of a row, `name` is
`display_name`, which orders the list, `provider` stands for whatever a filter
reads, `status` is what the snapshot takes from an answer. A page token is the
number of the page; 0 is no token. `effectivePage` and `clampSize` are the
functions of that name, and `HasNext` the one row more than the page that
`Search` asks for. A text query orders by relevance, which any import can move;
the model is about the list in the order of names. `Import` is what
`UpsertAgents` does to a row. `run.phase` is the place in `Run`: `page` in
`SearchAgents` (one request), `prepare`, `enrich` (one agent of the loop), `ok`
and `failed`. `walk` holds the variables of `SearchAgents`. The index behind it
is remote; it is taken to be this repository's search, and `StrayPages` are
links that a faulty one may hand out instead of its own. The run's deadline
needs no step: it makes requests fail, which `FetchFails` and `Miss` may do at
any time. A badge's `ansId` is taken to be the one asked for; a badge without
one is a badge that does not validate. Description and endpoints, which `merge`
takes from the search, are left out. `past` is history: the directory found, the
agents listed ever since the run began, those that changed place, whether a link
was not the search's own, the agents whose badge came.

*Signals.* An observation's value is what its signal decodes: a certificate
type, the set of DNS protections present, a number of version changes, a verdict
(two sides and the producer's word), a score with risk codes. A risk code is the
pair of its dimension prefix and the rest, since prefixes are what `Validate`
and the engine read. `Nearest` is `math.Round` of a quotient of naturals. `agentage` is derived: it has
an answer (`AgentAgeAnswer`), but takes no observation.

*Producers.* `latest` is what `LatestObservation` returns for each pair, which
`StorePromise` promises to be the newest accepted; a batch is taken whole or
refused whole, which is `AckedIsStored` and `StatusTellsEffect` of the service.
`prober.phase` is the place in `run`: `off`, `wait` for the ticker, `probe` in
`RunOnce` (one agent at a time, in the directory's order, which is abstracted to
any), `post` before its one request; `lost` is `wait` after a pass whose request
did not arrive. `hydrator.phase` is the place in `Run`: `agents`, `observations`. Both load
the directory when they start. A stamp is kept as its age in seconds, so that
time needs no bound of its own: a passing second (`Tick`) makes every stamp
older up to `MaxAge`, and `Ahead` is a fixture dated in the future, whose date
does not come within the model. `site` is what a host would answer; `Unreachable` is any
error of a probe. The identity certificate is sealed and drifts, but the prober
does not emit it (v1), and the CAA lookup of the command is a stub that answers
no (`agent-prober/main.go` 158), so `Probe` has no CAA although `prober.go` 150
would pass one on; both are as in the program that is built.

The server may refuse a batch for what it says (422, the rules of
`validateObservation`) or for its size: 400 for a value over 64 KiB (`dto.go` 32
and 195), 413 for a body over 1 MiB (`middleware.go` 35 and 184). `Acceptable` is
both, `InSize` the second. `Bytes[t]` is the length of a string as JSON carries
it, escapes included; `VerdictBytes` is the rest of a verdict, `RowBytes` the rest
of a row, the longest there is, and with it the value of a row that is no
verdict. `ShortBytes` separates the strings that seals are expected to hold from
long ones: two short sides fit into a value. A refusal has one effect whatever its
status, so 400, 413 and 422 are one action, `PassRefused`. Strings are taken as
JSON carries them: `json.Marshal` replaces bytes of a TXT record that are not
UTF-8 after `matched` was computed on the raw string (`prober.go` 160 to 164),
and a seal has none, since it is read from YAML or JSON.

*Boot.* `db` is the schema (`objects`), `schema_migrations` (`applied`) and
whether the log has duplicate triples; `files` is what the operator's files and
environment say now; `server[p].phase` is the place in `run` and `Build`, and
the rest of `server[p]` what the process has read so far. `Execute`, `Record`
and `Commit` are the statements of `applyMigration`: nothing of them is in `db`
before `Commit`, so a process that dies or fails under them leaves `db` alone.
`Unlocked` is SQLite's one writer; a process that waits is one whose step is not
enabled, and `Stop` is also the end of `busy_timeout`. `Replay` is a server of
version 1 that still runs during an overlapping deploy: its log has no unique
index yet. `Dedupe` is the repair after it.

## Runs

| run | instance | shows |
|---|---|---|
| `store` | 2 agents, 1 signal, 2 records, 2 values, instants 0..2, two to a second, batches of at most 2, 3 row ids | the adapter's invariants, monotone reads, refinement |
| `same_second` | same | **violation**: of two observations of one second the first one stays |
| `imports` | 1 agent, 3 signals, 2 concurrent imports | the import routes |
| `detail` | 1 import beside 1 detail request | freshness of a detail answer |
| `engine` | 3 signals in 2 dimensions, 4 answers and a failure, weights 0, 1, 3 | scoring and classification |
| `subjects` | same, with two provider scores about different subjects | **violation**: the engine averages across subjects |
| `capture` | 2 agents, 4 events, 3 badges, a log of at most 3 rows, pages of 2, at most 2 pages | reading, folding, sparing, and what green means |
| `capture_ends` | 1 agent, pages of 1, at most 3 pages, a feed that may repeat cursor 1 | every run ends |
| `snapshot` | 3 agents, 3 rows (two names, two providers), pages of 1, at most 3 page numbers and 3 pages, limits none and 2, a stray link to page 1, one import, 2 badges | walking, refinement of `CapturePromise`, what green means, the end |
| `badge_miss` | the instance of `capture_ends` | **violation**: a slow badge aborts the run |
| `producers` | 2 agents, 2 sets of events, 2 sets of fixtures, 3 states of one host, 4 provider scores, stamps of up to 2 seconds, values up to 10 and bodies up to 28 | honest verdicts, refusals with a cause, sizes among them, drift noticed in the end |
| `boot` | 2 processes, 3 runtime files, 3 environments, 4 signal files, 3 sets of profiles | whole migrations, sound servers, and that good files serve |

**The store instance.** Instants 0 and 1 fall in one second and 2 in the next,
so that a batch can meet a late, an equal-second and a newer row of the same
pair. Two agents let a batch carry a row for an unregistered agent after one
for a registered agent, which is where the foreign key fails the batch half
way. `MaxRowId = 3` leaves room for two rows of one pair beside one of another,
or three of one pair, which is the least in which retention keeps one and
removes some. `PruneObservations` keeps any number in 1..`MaxRowId`. TLC visits 393,381
distinct states; the theorems hold for every value of all these constants.

`imports` and `detail` split the server in two because the detail route writes
nothing: imports do not see it, and one detail request sees at most what one
import at a time commits.  Two concurrent imports are the least that contend
for the write lock, interleave between validation and transaction, and repeat
each other's batch.  The bodies hold each case of `validateObservation`
(unknown agent, derived signal, bad value in the second row) and an older
observation after a newer one.  The theorems remove these bounds for safety.

In `engine` the answers lie below and above the band and around every
threshold; the caps are one between two thresholds and one under the band, so a
gate lowers, blocks or does nothing; 1 and 3 make unequal weights.

In `capture` one agent is registered, revoked by an event that carries nothing
else, and named by an event of an unknown type; the other is renewed without
name and date, so that it is written only if a badge dates it. Badges override,
are silent, or fail validation. Three rows over two pages let the feed grow and
age between the pages, the revocation lie on either side of the page border, and
the page bound be met by a third page that would be empty. Runs follow each other
without bound, over the directory that earlier ones, failed or dead, left. TLC
visits 2,088,936 distinct states. `capture_ends` keeps one agent because the end of a run
does not depend on what is folded, and lets the feed lead the drain in a circle.

In `snapshot` the import may fall before, behind or on the page being read,
register an agent, move it within the list, take it off the list, or change its
status only. Three agents of one page each are walked in three pages, so that an
import can push one back over a page border already passed; the full list just
fits under the ceiling. The size asked for (5) is clamped to the
largest (1). Page 3 is the last number: with all three agents listed the walk
ends there, and with the stray link to page 1 it runs in a circle into the
ceiling. Of the two badges one lacks a status, which the search lends or, if it
has none, makes the event invalid; the other lacks a date. TLC visits 459,723
distinct states.

In `producers` one host serves what is sealed, then another certificate under
another type and no TXT record, then no certificate and a long TXT record. One set
of events has both agents well sealed, the other the second agent alone, with a
seal that is no fingerprint, so that it gets passes refused. Of one set of fixtures
one is dated ahead and one long past, the latter for a record that was never
sealed, where a string is found beside an empty seal; the other set is one huge
record. The sizes are scaled down to where the limits bind: a pass of two agents
with short sides fits the body, the long record takes it over (413), and the huge
one exceeds a value by itself (400). The
provider's scores are one below the default threshold, one above 100, one
missing, and one with a code of another dimension. `MaxAge` = 2 tells apart the
current second, the one a running pass began in, and all before, which is all
that `Newer` can ask of a pass that keeps under it (the limits on probes and
requests, `prober/config.go` 53 and `main.go` 59, bound a pass, and only the
order of stamps matters). Both producers start, stop and lose requests without
bound. TLC visits 157,353 distinct states.

In `boot` two processes are the least that contend for the lock and read a plan
that the other makes stale; the two migrations are those of the repository. The
database is new, current, or version 1 with and without duplicates. A provider is
turned on and off, has the id of a built-in, or a threshold of 101; one runtime
file is a partial `classify` block and one lacks the key, which the environment
may lend, leave, or blank; a profile weighs the provider, and one set of profiles has
a name twice. Every file may change between any two steps, and processes crash
and fail without bound. TLC visits 193,212 distinct states.

Deadlock is checked in every run: no cfg switches it off.

### What the violations show

- `same_second`: `encode.go:41` says that the `ORDER BY` tie-break on `obs_id`
  "preserves insert order within a single second". Since migration 0002 the
  triple (agent, signal, second) is unique and a second insert does nothing, so
  the later observation is dropped, and the acknowledgement counts it all the
  same.
- `subjects`: `scorecontainer.go:62` says that the engine buckets by subject so
  that a tool's score is never averaged into the agent's. `Evaluate` groups by
  dimension and never calls `Subject()`.
- `badge_miss`: `rasync.go:62` says that a badge miss "never aborts the run".
  `Run` takes every error that matches `context.DeadlineExceeded` for the run's
  own deadline, and the error of `http.Client.Timeout` (30 s for one badge,
  `main.go:70`) matches it. One slow badge ends the run with the previous
  fixtures wiped and the rest of the agents unwritten.

Two comments expect more than the code ensures, and have no run of their own:
`middleware.go:33` calls 1 MiB "well above the largest legitimate batch imports
we generate" and `dto.go:32` calls 64 KiB "plenty for any built-in signal's
JSON". The prober puts a TXT record of any length into a value and all agents
into one body. `RefusedForCause` names both as causes.

### Fairness

`ServiceSpec` has weak fairness of each request's next step: a goroutine that
can run is scheduled, and the calls of the store return. Waiting for the write
lock is bounded by `busy_timeout(5000)` (`sqlite.go:67`), whose timer is part of
`GiveUpWaiting`; without it an import could starve behind others. Nothing is
assumed of clients, of failures or of crashes.

`RaSync`'s `Spec` has weak fairness of the run's own steps: the producer is one
sequential program, and each of its calls returns, because the HTTP client has a
time limit (`main.go:70`) and the rest are file operations. Nothing is assumed
of the feed, the deadline or whoever starts the runs. `Snapshot`'s is the same,
from the same time limit (`main.go:111`).

`Producers` has weak fairness of the prober's steps alone - the ticker fires,
probes return because each has a time limit (of the CAA stub nothing is asked),
and a request that is not lost is answered - and of time. Nothing is assumed of
the hydrator, of the provider, of hosts, or of requests getting through: that
passes are neither lost nor refused from some time on is the premise
`<>[]Effective` of `DriftIsNoticed` (agents known, seals well formed, a pass in
size, no fixture dated ahead), beside hosts that come to rest.

`Boot` has weak fairness of each process's next step, which includes its start:
the server is run under a supervisor, as `main.go` 65 to 68 supposes of the exit
code. `GoodFilesServe` supposes that the files stay good and that processes stop
crashing; it does not suppose that earlier boots succeeded.

The other specifications are checked for safety only.

## Proofs

From the named assumptions on the constants (`StoreConstants`,
`NoObservationIsNoReading`, `NoCallIsNoCall`, `StoreBounds`, `NoTxIsNoTx`,
`ServiceConstants`, `IdleIsIdle`, `ThresholdsAscend`, `EngineConstants`,
`RaSyncConstants`, `SearchConstants`, `SnapshotConstants`, `SignalConstants`, `ProducerConstants`, `SizeConstants`,
`UnobservedIsNoReading`, `BootConstants`) and for any number of agents, signals, rows, requests, batches,
feed events, list entries, pages, fixtures, providers, hosts, processes and files:

*Store.* `TypeOK` is inductive. `DatabaseConsistent` is inductive relative to
it: it speaks of the transaction's copy as well as of the committed database,
which is what carries it over the commit; its part `RowsOrdered` (a pair that
has rows has one after all others, and no id is ahead of the sequence) is what
makes `LatestObservation` well defined. `TransactionFaithful` relates the copy
to the database it was taken from after every row, and is the induction over
the batch: at the commit it says what the batch as a whole has done, which is
both `LatestNeverRegresses` and the step of `StorePromise` that a commit
implements.

*Service.* `RoutesKeepThePromise` maps each step to a step or a stutter of
`StorePromise`. `LockHasOneHolder` is inductive with the type invariant.
`StatusTellsEffect` needs `Histories` (a request past the store has committed,
one before it has not); `AckedIsStored` needs `Acknowledgeable` (what is about
to be acknowledged is stored already) and the monotonicity of the store;
`ValidatedStaysValid` needs `AllChecked` (the rows already passed stay
acceptable); `DetailFresh` needs `AllBetween` (what has been read so far lies
between arrival and now).

*Engine.* `RestsOnWeighted`: an evaluation is a function of the weighted
signals, their answers and weights. `UnweighedIsSilent` and
`NewProviderIsNeutral` follow for every registry, profile and answer. The
others need the values of the sums. `SumFunction` is a recursive function over
the subsets of a finite set (only finitely many signals are ever registered);
that it exists (`SumExists`), and that a bound on each term bounds the sum
(`SumBound`), go by the least counterexample (`LeastNatural`); these are in `FiniteSums`. From there the
average, rounded, lies in the band and no answer that is better lowers it
(`RoundedBand`, `RoundedMonotone`), the score is the least of it and the caps
(`ScoreIsLeast`), and `EngineTypeOK`, `BlockIsAVerdict` and, with
`ClassifyMonotone` for the cascade, `BetterEvidenceNeverHurts` follow.

*Capture.* `CaptureInv` adds two facts to the type invariant: `Sparing` (until
the wipe the directory is the one the run found, and the wipe is reached only
with an agent) and `Tally` (in the loop, the files on disk are exactly the
agents captured, each valid, the agents still to do have none, and captures and
drops count the agents done, misses those done without an answer). The first
gives `FeedTroubleSparesFixtures`; the second, at the loop's end, `GreenSetLoads`
and `GreenIsNotBlind`, whose cardinalities need the finiteness of `AgentIds`.
`GreenIsNotBlind` promises less than its name may suggest: one answer is enough for
green. If every agent that was answered for is dropped, the set on disk is the
feed's word alone, and the run may be green nevertheless; the property says that
the summary then shows both drops and misses.
`FoldIsCurrent` is inductive once `FirstSeenOnce` is added (an agent without a
dated registration among the rows read has no first-seen time), and is the
induction over the rows of all pages. `DrainMissesNothing` is proved of a feed
whose pages name their own last row, or nothing at the tail (no `StrayCursors`):
`Drainage` says that what is due (retained, and there when the run began) up to
the cursor has been read, and that a page reaches without a gap from there to the
next cursor (`ServedContiguous`). A feed with stray cursors can make a drain miss
rows; of it only `RunsEnd` is claimed.

*Snapshot.* `SnapshotInv` adds to the type invariant: `AheadInv` (while the walk
is undisturbed, an agent listed all along that it has not collected still ranks
at or behind the offset of the next page), `QuietInv` (with no import, what is
collected is the list up to that offset, in order), and `SparedInv`, `FreshInv`
and `FixturesInv`, the counterparts of the capture's facts. `AheadInv` survives an
import because an agent that joins the list only pushes others back
(`ImportPushesBack`), and a page because the page holds every rank from its
offset to the next (`PageComplete`), which rests on ranks being distinct and
without gaps (`RankStrict`, `RankDense`). At the end of the list nobody ranks
behind the offset, so `WalkSkipsNobody` follows.

*What both capture tools promise.* `CapturePromise` has one variable beside the
directory, the `stage` of the run; `Stage` of `Snapshot` and of `RaSyncProofs`
maps the place in `Run` to it. A page or a row applied is a stutter, `Crash` is
`Read`, `ClearFails` or `WriteFails` by the stage it strikes in
(`CrashKeepsPromise`), a failed write leaves the file as it was, absent or torn
(`CaptureWrites`). The refinement needs of `RaSync` that an agent still to do has
no file yet (`Tally`), so that a write that fails before the file is touched leaves
what the abstract `WriteFails` leaves. `DamageIsOneFile` is a property of the
abstract specification and carried to both tools: after any number of failed and
dead runs one torn file at most is in the way of `tlevent.LoadDir`, so the repair is
to remove one file or to run again. That a failed feed or search costs no fixture
(`FeedTroubleSparesFixtures`, `SearchTroubleSparesFixtures`) is proved beside it; TLC
checks the first, and of the second the refinement, which contains it.

*Signals.* `AcceptedInBand`: for every signal and every value it accepts, the
answer lies in 0 .. 100 with codes of the signal's dimension. Each signal has a
lemma of its own; that no id falls under two signals (`IdsAreSeparate`) comes
from what boots. It turns the engine's clamp from a rule for third parties into
a fact about the signals of this repository. `AbsentInBand` is its counterpart for
no observation and for the age of an agent.

*Producers.* `ProducersInv` adds to the type invariant `AllGood` (every value
read has its signal's shape, is one its signal accepts, and is honest if it is a
verdict) and `BatchFound` (each row of the batch under way is what a probe of that
agent may find). Rows become honest where they are made (`LiveVerdictGood`,
`ProjectedGood`), an import takes only what is accepted (`ImportKeeps`), and
a tick leaves values alone (`OlderKeeps`). `ProducersTypeOK` then follows from
`AcceptedInBand` and `VerdictsAreHonest` from honesty. `RefusedForCause` goes by
the kind of refusal. What a probe can find passes `validateObservation` but for
the seal. If no side is long, every value fits (`ShortVerdict`), so only the body
can be too long; it is a sum over rows (`BodySize`), each at most `ShortRow`,
of which an agent has five, three of them verdicts (`PassRows`), and a fixture one
(`HydratedRows`). `SumByCount` bounds the sum by the number of agents or fixtures,
which is finite because a directory is. For every limit and any number of agents,
then: if nobody is `Refusable` and the directory is not `Crowded`, the pass is taken.

*Boot.* `BootInv`: the database is one of `Databases` and has duplicates only at
version 1; a process in a transaction found it executable and, at the commit,
not yet recorded (`MigratingOK`); what a process does not mean to apply is
applied; what it has read satisfies the check it passed (`ReadOK`); one process
at most is in a transaction (`OneLocks`). The last is what carries the first two
over another process's commit. `FilesOK` holds the operator's files to their
sets, and is used where they are read.

*What is proved of the ends.* The liveness properties themselves need fairness
and ENABLED, which are outside the prover. What they rest on beside fairness is
safety, and is proved as such:

- `RunIsBounded` (capture and snapshot), `RequestsAreBounded`, `BootIsBounded`:
  a measure in the naturals, bounded by the constants (pages, rows and agents; rows
  of a batch or signals; ten steps of a boot), that every step of the run, request
  or boot lowers and that nobody else's step raises. No feed that leads in a
  circle, list that grows, client that contends for the lock or process that
  migrates beside it can therefore keep one going.
- `BootFailsForCause`: on files that load and a log without duplicates, a boot
  fails only if a file was edited between the read and the check, or if another
  process has applied a migration that this one had planned. So no crash leaves
  behind what keeps the next boot from coming up.
- `PassesAreWhole`, `PassesStay`: the safety half of `DriftIsNoticed`. A pass posts
  a reading of every listed agent and probed signal, no reading goes back in age but by
  time, and, once a pass has been taken and as long as the host rests, only
  readings of that second or later hide what it found (`OnlyNewerHides`); each
  further pass ends what is older (`PassShows`).

*History variables.* Two theorems are about specifications with history that no
guard reads. `HeardSpec` adds to the service `heard`, the readings that committed
calls have carried: `StoreReadsTheNewest` says that in every state what is read of
a pair is the newest of them, and `SameHistorySameAnswers` that the order in which they
came shows only in a tie within one second. `WatchSpec` adds to the producers
`still`, the agents whose host has not moved since the pass under way probed it,
and `seen`, what the last accepted pass found of the hosts that rest.

*Two more facts of the engine.* `VerdictTheorem`: an agent is UNTRUSTED only if
a weighted signal of a gated dimension answers under the floor, and FIDUCIARY only if one
answers that high in every active dimension: averages and rounding alone decide
nothing. `WeightsAreRatios`: profiles that differ by a factor give equal
evaluations, which is what justifies naturals for the weights.

*How induction over data is done.* The library's induction theorems take an
operator and cannot be used. Where a fact is about all sets or all numbers, it is
stated with its counterexamples as a set of naturals or of subsets, and goes by the least
one (`LeastNatural`) or by adding one element at a time (`SubsetsByOne`). All recursion in the
modules with proofs is by recursive functions or folds.

Only model-checked: the liveness properties `ImportsEnd`, `DetailsEnd`,
`RunsEnd`, `SnapshotEnds`, `DriftIsNoticed` and `GoodFilesServe`, of which fairness
and the composition of many steps are left to TLC. Every safety property of a
passing run is proved, and so is every refinement.

## Not modelled

- Explanations, attestation tiers, provenance, request ids, log wording, JSON
  and query-string layout: no property is about them.
- Field-shape rules of the DTOs: in `TrustService` one nondeterministic "malformed
  request". `Producers` models the lengths of a value and of a body; the other
  length caps are met by configuration (the AIM id) or by agents (an id that is too
  long is refused with its agent, by `AgentsFail`), and its fixtures have signals
  and dates that the server knows how to read.
- The `authenticated` field of the audit line.
- Rows written before the fixed-length time format: `ObservationStore` starts
  empty at the current version, and `Boot` knows of an older log only whether it
  has duplicates.
- In-memory databases at boot, the parsing of YAML (one outcome, `Malformed`),
  the resolution of relative paths, listening, log levels.
- Of the producers: two fixtures of one pair in one set, two event files of one
  agent (`LoadDir` accepts them; the last one's baseline counts), the searchable
  fields of an agent, and that a stamp is taken just before the probes of its
  agent (`ProbeAgent` is one step, and a host changes between agents, not within one).
- What the server keeps of an agent whose fixture was dropped later on: imports
  only add and replace.
- Power loss under SQLite: a commit that returned is durable.
- Of `agent-ra-sync` and `agent-snapshot`: command line and configuration files, files in the
  directory that are not fixtures, and the flattening of endpoints.
- Of the search: the ranking of text queries, more than one filter at a time, and
  the `COUNT` beside a page, a second statement that may count what the page
  does not show; clients of this repository do not read it.
- The projection of the two badge schemas on one event (`tlclient/client.go` 195,
  `v2.go`): pure functions of one response. They choose the sealed baseline, by
  the newest `notAfter` of a list of certificates and by the host's keys among
  the DNS records, so the baselines of `Producers` are those after the choice.
  That a host may rightly serve another certificate of the list is a limitation
  the package itself documents.
- The parsing and rendering of search parameters: field by field, without state.

## Plan

Written, in this order: `StoreTypes`, `StorePromise`, `ObservationStore` and its
proofs; `TrustService` and its proofs; `TrustEngine` and its proofs; `RaSync` and
its proofs; `SearchPages`, `Snapshot` and their proofs; `Signals`, `Producers` and
their proofs; `Boot` and its proofs; `CapturePromise` and the two refinements; the
measures of the runs, requests and boots, and the safety halves of the liveness
properties.

What would come next: the producers' sets of events as what `LoadDir` reads of a
directory that `CapturePromise` rewrites beside them; the accepted observations
of `Signals` as the answers of `TrustEngine`, so that the band holds end to end; drift against a list of certificates, once the code
matches against one; `COUNT` beside a page, once a client relies on it.
