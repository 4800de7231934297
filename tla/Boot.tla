-------------------------------- MODULE Boot --------------------------------
(***************************************************************************)
(* How agent-trust-discovery comes up: config.Load, the migrations that    *)
(* sqlitestore.Open applies, the provider signals, the profiles and the    *)
(* admin key, each read at a moment of its own, while an operator edits    *)
(* them.  Several processes may boot on one database, as in a deploy that  *)
(* overlaps, and each may stop anywhere; a supervisor starts it again.     *)
(*                                                                         *)
(* SQLite has one writer at a time.  A process holds the lock between the  *)
(* first statement of a migration and the end of its transaction; who      *)
(* waits longer than busy_timeout fails, which is a way to stop.           *)
(***************************************************************************)
EXTENDS Integers, Sequences, Functions

CONSTANTS
  Servers,       \* processes on one database
  Ids,           \* signal ids
  BuiltIns,      \* those of the signals in the binary
  SegmentOf,     \* the dimension in vendor.dimension.name, or Unset
  Malformed,     \* a file that is missing, or does not decode
  Unset,         \* an optional field or variable that is not there
  RuntimeFiles,  \* what the operator writes as config/runtime.yaml,
  Environments,  \*   as ANS_ADMIN_KEY,
  SignalFiles,   \*   at signals.path,
  ProfileFiles   \*   and as default-profile.yaml followed by profiles/*.yaml

Dimensions == {"integrity", "identity", "solvency", "behavior", "safety"}

Keys == {"", "key"}

\* signals says whether signals.path is given.
Runtimes == [classify : Seq(Int) \cup {Unset}, requireKey : {"yes", "no", Unset},
             key : Keys, signals : {"given", Unset}]

\* subject says whether it is a token of the right form.
SignalEntries == [id : Ids \cup {""}, dimension : Dimensions \cup {"other"},
                  subject : {"token", "other", Unset}, threshold : Int \cup {Unset}]

\* The weights of the dimensions and of the signals that a profile lists.
Profiles == [name : {"", "default", "strict"},
             gates : UNION {[D -> Int] : D \in SUBSET (Dimensions \cup {"other"})},
             weights : UNION {[I -> Int] : I \in SUBSET Ids}]

ASSUME BootConstants ==
  /\ BuiltIns \subseteq Ids /\ "" \notin Ids
  /\ SegmentOf \in [Ids -> Dimensions \cup {Unset}] /\ Unset \notin Int \cup Keys \cup Dimensions
  /\ \A r \in RuntimeFiles \ {Malformed} :
       DOMAIN r = {"classify", "requireKey", "key", "signals"}

VARIABLES
  db,       \* the database: rows, schema and schema_migrations
  files,    \* what a process would read now
  server    \* server[p]: how far process p is, and what it has read

vars == <<db, files, server>>

\* 0001_init.sql and 0002_observations_dedup.sql.
Versions == {1, 2}

Phases == {"stopped", "failed", "open", "migrate", "record", "commit",
           "signals", "profiles", "serving"}

NoProviders == <<>>

Off(phase) == [phase |-> phase, cfg |-> Malformed, todo |-> {},
               providers |-> NoProviders, profiles |-> <<>>]

\* objects: the migrations whose tables and indexes are there.  duplicates:
\* whether two observations have the same agent, signal and time.
Databases ==
  {[objects |-> v, applied |-> v, duplicates |-> d] :
     v \in {{}, {1}, {1, 2}}, d \in {"none", "some"}}

\* A new database, one that version 1 has filled, or a current one.
Init ==
  /\ db \in {d \in Databases : d.duplicates = "some" => d.objects = {1}}
  /\ files \in [runtime : RuntimeFiles, environment : Environments,
                signals : SignalFiles, profiles : ProfileFiles]
  /\ server = [p \in Servers |-> Off("stopped")]

-----------------------------------------------------------------------------
(* config.Load.                                                            *)

DefaultClassify == <<20, 50, 80, 90>>

Ascending(steps) == \A i \in 1 .. 3 : steps[i] < steps[i + 1]

\* A block that is there is complete: a step left out reads 0.
ClassifyValid(steps) == (\A i \in 1 .. 4 : steps[i] \in 1 .. 100) /\ Ascending(steps)

RuntimeLoads(r) == r # Malformed /\ (r.classify # Unset => ClassifyValid(r.classify))

Resolved(r, environment) ==
  [classify   |-> IF r.classify = Unset THEN DefaultClassify ELSE r.classify,
   requireKey |-> IF r.requireKey = "no" THEN "no" ELSE "yes",
   key        |-> IF environment = Unset THEN r.key ELSE environment,
   signals    |-> r.signals]

-----------------------------------------------------------------------------
(* Provider signals and profiles.                                          *)

EntryValid(e) ==
  /\ e.id # "" /\ e.dimension \in Dimensions
  /\ SegmentOf[e.id] = e.dimension
  /\ e.threshold # Unset => e.threshold \in 0 .. 100
  /\ e.subject # "other"

\* LoadSignals, and Register, which takes no id of the binary.
SignalsLoad(entries) ==
  /\ entries # Malformed
  /\ \A i \in DOMAIN entries : EntryValid(entries[i]) /\ entries[i].id \notin BuiltIns
  /\ IsInjective([i \in DOMAIN entries |-> entries[i].id])

Providers(entries) ==
  [id \in {entries[i].id : i \in DOMAIN entries} |->
     LET e == entries[CHOOSE i \in DOMAIN entries : entries[i].id = id]
     IN  [dimension |-> e.dimension, threshold |-> e.threshold]]

ProfileValid(p) ==
  /\ p # Malformed /\ p.name # ""
  /\ DOMAIN p.gates \subseteq Dimensions
  /\ \A d \in DOMAIN p.gates : p.gates[d] \in {0, 1}
  /\ \A s \in DOMAIN p.weights : p.weights[s] >= 0

ProfilesLoad(profiles) ==
  /\ \A i \in DOMAIN profiles : ProfileValid(profiles[i])
  /\ IsInjective([i \in DOMAIN profiles |-> profiles[i].name])

\* Mutant: only the default profile is held against the registry.
DefaultWeighsKnown(profiles, known) == DOMAIN profiles[1].weights \subseteq known

\* ValidateSignalWeights, of every profile.
WeighsKnown(profiles, known) ==
  \A i \in DOMAIN profiles : DOMAIN profiles[i].weights \subseteq known

KeyGiven(cfg) == cfg.requireKey = "yes" => cfg.key # ""

-----------------------------------------------------------------------------
(* Booting.                                                                *)

Become(p, state) == server' = [server EXCEPT ![p] = state]
Refuse(p) == Become(p, Off("failed"))
Goto(p, phase) == Become(p, [server[p] EXCEPT !.phase = phase])

Load(p) ==
  /\ server[p].phase \in {"stopped", "failed"}
  /\ IF RuntimeLoads(files.runtime)
     THEN Become(p, [Off("open") EXCEPT !.cfg = Resolved(files.runtime, files.environment)])
     ELSE Refuse(p)
  /\ UNCHANGED <<db, files>>

\* Mutant: the record of what is applied is not consulted.
UnappliedAll == Versions

\* migrate reads schema_migrations once, having created it if need be.
Unapplied == Versions \ db.applied

Plan(p) ==
  /\ server[p].phase = "open"
  /\ Become(p, [server[p] EXCEPT !.phase = "migrate", !.todo = Unapplied])
  /\ UNCHANGED <<db, files>>

First(todo) == CHOOSE v \in todo : \A w \in todo : v <= w

Unlocked == \A p \in Servers : server[p].phase \notin {"record", "commit"}

\* 0001 creates tables without IF NOT EXISTS; 0002 creates its index unless it
\* is there, and cannot over duplicates.
Executes(v) ==
  IF v = 1 THEN 1 \notin db.objects
  ELSE 1 \in db.objects /\ (2 \in db.objects \/ db.duplicates = "none")

\* Mutant: the statements run outside of the transaction.
ExecuteUnprotected(p) ==
  /\ server[p].phase = "migrate" /\ server[p].todo # {} /\ Unlocked
  /\ LET v == First(server[p].todo) IN
     IF Executes(v) THEN /\ db' = [db EXCEPT !.objects = @ \cup {v}]
                         /\ Goto(p, "record")
     ELSE UNCHANGED db /\ Refuse(p)
  /\ UNCHANGED files

\* The first statement of the transaction takes the write lock.  A 0002 that
\* finds its index there does not, but then its version is recorded as well.
Execute(p) ==
  /\ server[p].phase = "migrate" /\ server[p].todo # {} /\ Unlocked
  /\ IF Executes(First(server[p].todo)) THEN Goto(p, "record") ELSE Refuse(p)
  /\ UNCHANGED <<db, files>>

\* The version is the primary key of schema_migrations.
Record(p) ==
  /\ server[p].phase = "record"
  /\ IF First(server[p].todo) \notin db.applied THEN Goto(p, "commit") ELSE Refuse(p)
  /\ UNCHANGED <<db, files>>

Commit(p) ==
  /\ server[p].phase = "commit"
  /\ LET v == First(server[p].todo) IN
       /\ db' = [db EXCEPT !.objects = @ \cup {v}, !.applied = @ \cup {v}]
       /\ Become(p, [server[p] EXCEPT !.phase = "migrate", !.todo = @ \ {v}])
  /\ UNCHANGED files

Migrated(p) ==
  /\ server[p].phase = "migrate" /\ server[p].todo = {}
  /\ Goto(p, "signals")
  /\ UNCHANGED <<db, files>>

\* A path that is not given is no provider signals, a missing file an error.
LoadSignals(p) ==
  /\ server[p].phase = "signals"
  /\ IF server[p].cfg.signals = Unset THEN Goto(p, "profiles")
     ELSE IF ~SignalsLoad(files.signals) THEN Refuse(p)
     ELSE Become(p, [server[p] EXCEPT !.phase = "profiles",
                                      !.providers = Providers(files.signals)])
  /\ UNCHANGED <<db, files>>

\* The rest of Build, up to the handler.
Assemble(p) ==
  /\ server[p].phase = "profiles"
  /\ IF /\ ProfilesLoad(files.profiles)
        /\ WeighsKnown(files.profiles, BuiltIns \cup DOMAIN server[p].providers)
        /\ KeyGiven(server[p].cfg)
     THEN Become(p, [server[p] EXCEPT !.phase = "serving", !.profiles = files.profiles])
     ELSE Refuse(p)
  /\ UNCHANGED <<db, files>>

Step(p) ==
  Load(p) \/ Plan(p) \/ Execute(p) \/ Record(p) \/ Commit(p) \/ Migrated(p)
          \/ LoadSignals(p) \/ Assemble(p)

\* SIGTERM, a crash, a lock that is not had in time, an error of I/O or of the
\* listener: what is not committed is rolled back.
Stop(p) ==
  /\ server[p].phase \notin {"stopped", "failed"}
  /\ Become(p, Off("stopped"))
  /\ UNCHANGED <<db, files>>

-----------------------------------------------------------------------------
(* The operator, and an older server.                                      *)

Edit ==
  /\ \/ \E r \in RuntimeFiles : files' = [files EXCEPT !.runtime = r]
     \/ \E e \in Environments : files' = [files EXCEPT !.environment = e]
     \/ \E s \in SignalFiles : files' = [files EXCEPT !.signals = s]
     \/ \E f \in ProfileFiles : files' = [files EXCEPT !.profiles = f]
  /\ UNCHANGED <<db, server>>

\* A process of version 1 that still runs: its log takes a replay twice.
Replay ==
  /\ db.objects = {1} /\ Unlocked
  /\ db' = [db EXCEPT !.duplicates = "some"]
  /\ UNCHANGED <<files, server>>

\* Rids the log of what keeps 0002 from being applied.
Dedupe ==
  /\ db.duplicates = "some" /\ Unlocked
  /\ db' = [db EXCEPT !.duplicates = "none"]
  /\ UNCHANGED <<files, server>>

Next == (\E p \in Servers : Step(p) \/ Stop(p)) \/ Edit \/ Replay \/ Dedupe

\* Each call of a boot returns, and the supervisor starts what has ended.
Spec == Init /\ [][Next]_vars /\ \A p \in Servers : WF_vars(Step(p))

-----------------------------------------------------------------------------
(* Properties.                                                             *)

\* Neither a crash nor a second process leaves half a migration: what the schema
\* holds is what schema_migrations says, 0002 only after 0001 and over a log
\* without duplicates; and one transaction at most is under way, over a schema
\* that lacks its changes or has them as no-ops.
MigrationsAreWhole ==
  /\ db \in Databases
  /\ 2 \in db.objects => db.duplicates = "none"
  /\ \A p, q \in Servers :
       {server[p].phase, server[q].phase} \subseteq {"record", "commit"} => p = q

\* The process serves with what its parts take for granted, although each was
\* read at another moment than the next and others migrate beside it: the
\* current schema, an ascending cascade (the engine), provider signals that are
\* not the binary's (SignalConstants of Signals), weights of signals it has
\* registered, all of them, and a key if one is required.
Sound(s) ==
  /\ db.applied = Versions
  /\ \A i, j \in 1 .. 4 : i < j => s.cfg.classify[i] < s.cfg.classify[j]
  /\ s.cfg.requireKey = "yes" => s.cfg.key # ""
  /\ DOMAIN s.providers \cap BuiltIns = {}
  /\ \A id \in DOMAIN s.providers :
       /\ s.providers[id].dimension \in Dimensions
       /\ s.providers[id].threshold \in 0 .. 100 \cup {Unset}
  /\ \A i \in DOMAIN s.profiles :
       DOMAIN s.profiles[i].weights \subseteq BuiltIns \cup DOMAIN s.providers

ServingIsSound == \A p \in Servers : server[p].phase = "serving" => Sound(server[p])

\* What is in the files boots, and so does the log.
Bootable ==
  /\ db.duplicates = "none"
  /\ RuntimeLoads(files.runtime)
  /\ KeyGiven(Resolved(files.runtime, files.environment))
  /\ files.runtime.signals # Unset => SignalsLoad(files.signals)
  /\ ProfilesLoad(files.profiles)
  /\ WeighsKnown(files.profiles,
       BuiltIns \cup IF files.runtime.signals = Unset THEN {}
                     ELSE DOMAIN Providers(files.signals))

\* Good files get every process to serve, whatever it or another one failed at
\* before: no boot leaves behind what keeps the next from coming up.
GoodFilesServe ==
  (/\ <>[]Bootable
   /\ <>[][UNCHANGED files]_vars
   /\ <>[](\A p \in Servers : server[p].phase # "stopped"))
    => <>[](\A p \in Servers : server[p].phase = "serving")
=============================================================================
