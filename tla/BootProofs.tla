----------------------------- MODULE BootProofs -----------------------------
(***************************************************************************)
(* Proofs about the boot, for any number of processes on one database and  *)
(* any files an operator writes, at any moment.                            *)
(***************************************************************************)
EXTENDS Boot, TLAPS

(***************************************************************************)
(* The inductive invariant: the database, and what each process has read.  *)
(***************************************************************************)

IsProcess(s) ==
  s \in [phase : Phases, cfg : {s.cfg}, todo : SUBSET Versions,
         providers : {s.providers}, profiles : {s.profiles}]

DatabaseOK ==
  /\ db \in Databases
  /\ db.duplicates = "some" => db.objects = {1}

Locks(s) == s.phase \in {"record", "commit"}

\* A transaction under way is over the schema that it found; what a process does
\* not mean to apply any more is applied.
MigratingOK(s) ==
  /\ Locks(s) => s.todo # {} /\ Executes(First(s.todo))
  /\ s.phase = "commit" => First(s.todo) \notin db.applied
  /\ s.phase \notin {"stopped", "failed", "open"} => Versions \ s.todo \subseteq db.applied
  /\ s.phase \in {"signals", "profiles", "serving"} => s.todo = {}

CascadeOK(cfg) == \A i, j \in 1 .. 4 : i < j => cfg.classify[i] < cfg.classify[j]

ProvidersOK(providers) ==
  /\ DOMAIN providers \cap BuiltIns = {}
  /\ \A id \in DOMAIN providers :
       /\ providers[id].dimension \in Dimensions
       /\ providers[id].threshold \in 0 .. 100 \cup {Unset}

ReadOK(s) ==
  /\ s.phase \notin {"stopped", "failed"} => CascadeOK(s.cfg)
  /\ ProvidersOK(s.providers)
  /\ s.phase = "serving" =>
       KeyGiven(s.cfg) /\ WeighsKnown(s.profiles, BuiltIns \cup DOMAIN s.providers)

ProcessOK(s) == IsProcess(s) /\ MigratingOK(s) /\ ReadOK(s)

OneLocks == \A p, q \in Servers : Locks(server[p]) /\ Locks(server[q]) => p = q

BootInv ==
  /\ DatabaseOK
  /\ server = [p \in Servers |-> server[p]]
  /\ \A p \in Servers : ProcessOK(server[p])
  /\ OneLocks

LEMMA FirstIsFirst ==
  ASSUME NEW todo \in SUBSET Versions, todo # {}
  PROVE  /\ First(todo) \in todo /\ First(todo) \in {1, 2}
         /\ First(todo) = 2 => 1 \notin todo
<1>. DEFINE Least(v) == v \in todo /\ \A w \in todo : v <= w
<1>1. \A w \in todo : w = 1 \/ w = 2
  BY DEF Versions
<1>2. CASE 1 \in todo
  <2>1. Least(1)
    BY <1>1, <1>2
  <2>2. Least(First(todo))
    BY <2>1 DEF First
  <2>3. First(todo) = 1
    BY <1>1, <1>2, <2>2
  <2>. QED
    BY <1>2, <2>3
<1>3. CASE 1 \notin todo
  <2>1. todo = {2}
    BY <1>1, <1>3
  <2>2. Least(2)
    BY <2>1
  <2>3. Least(First(todo))
    BY <2>2 DEF First
  <2>. QED
    BY <2>1, <2>3
<1>. QED
  BY <1>2, <1>3

\* A process that has ended satisfies its part.
LEMMA OffOK ==
  ASSUME NEW phase \in {"stopped", "failed", "open"}
  PROVE  /\ IsProcess(Off(phase)) /\ MigratingOK(Off(phase)) /\ ProvidersOK(Off(phase).providers)
         /\ phase # "open" => ProcessOK(Off(phase))
         /\ ~Locks(Off(phase)) /\ Off(phase).phase = phase
<1>1. IsProcess(Off(phase)) /\ ~Locks(Off(phase)) /\ Off(phase).phase = phase
  BY DEF IsProcess, Off, Phases, Locks
<1>2. MigratingOK(Off(phase))
  BY <1>1 DEF MigratingOK, Off
<1>3. Off(phase).providers = <<>> /\ DOMAIN Off(phase).providers = {}
  BY DEF Off, NoProviders
<1>4. ProvidersOK(Off(phase).providers)
  BY <1>3 DEF ProvidersOK
<1>. QED
  BY <1>1, <1>2, <1>4 DEF ProcessOK, ReadOK

\* Steps that rise one after the other rise throughout.
LEMMA AscendsThroughout ==
  ASSUME NEW c, ClassifyValid(c)
  PROVE  \A i, j \in 1 .. 4 : i < j => c[i] < c[j]
<1>1. c[1] \in Int /\ c[2] \in Int /\ c[3] \in Int /\ c[4] \in Int
  BY DEF ClassifyValid
<1>2. c[1] < c[2] /\ c[2] < c[3] /\ c[3] < c[4]
  BY DEF ClassifyValid, Ascending
<1>3. c[1] < c[3] /\ c[1] < c[4] /\ c[2] < c[4]
  BY <1>1, <1>2
<1>. QED
  BY <1>2, <1>3

\* What Load hands on is an ascending cascade.
LEMMA LoadedCascade ==
  ASSUME NEW r \in RuntimeFiles, NEW environment, RuntimeLoads(r)
  PROVE  CascadeOK(Resolved(r, environment))
<1>. DEFINE c == Resolved(r, environment).classify
<1>1. CASE r.classify = Unset
  <2>1. c = <<20, 50, 80, 90>>
    BY <1>1 DEF Resolved, DefaultClassify
  <2>. QED
    BY <2>1 DEF CascadeOK
<1>2. CASE r.classify # Unset
  <2>1. c = r.classify /\ ClassifyValid(r.classify)
    BY <1>2 DEF Resolved, RuntimeLoads
  <2>. QED
    BY <2>1, AscendsThroughout DEF CascadeOK
<1>. QED
  BY <1>1, <1>2

\* What LoadSignals registers has a dimension and a threshold of its own.
LEMMA LoadedProviders ==
  ASSUME NEW entries, SignalsLoad(entries)
  PROVE  ProvidersOK(Providers(entries))
<1>. DEFINE ids == {entries[i].id : i \in DOMAIN entries}
            At(id) == CHOOSE i \in DOMAIN entries : entries[i].id = id
<1>1. DOMAIN Providers(entries) = ids
  BY DEF Providers
<1>2. ids \cap BuiltIns = {}
  BY DEF SignalsLoad
<1>3. ASSUME NEW id \in ids
      PROVE  /\ Providers(entries)[id].dimension \in Dimensions
             /\ Providers(entries)[id].threshold \in 0 .. 100 \cup {Unset}
  <2>1. At(id) \in DOMAIN entries
    OBVIOUS
  <2>2. EntryValid(entries[At(id)])
    BY <2>1 DEF SignalsLoad
  <2>3. Providers(entries)[id] = [dimension |-> entries[At(id)].dimension,
                                  threshold |-> entries[At(id)].threshold]
    BY Zenon DEF Providers
  <2>. DEFINE e == entries[At(id)]
  <2>4. e.dimension \in Dimensions /\ e.threshold \in 0 .. 100 \cup {Unset}
    BY <2>2 DEF EntryValid
  <2>. HIDE DEF At, e
  <2>. QED
    BY <2>3, <2>4 DEF e
<1>. QED
  BY <1>1, <1>2, <1>3 DEF ProvidersOK

(***************************************************************************)
(* One process moves, the database stays as it is.                         *)
(***************************************************************************)

LEMMA Moves ==
  ASSUME BootInv, UNCHANGED db, NEW p \in Servers, NEW state, Become(p, state),
         ProcessOK(state), Locks(state) => Locks(server[p]) \/ Unlocked
  PROVE  BootInv'
<1>1. server' = [q \in Servers |-> IF q = p THEN state ELSE server[q]]
  BY DEF BootInv, Become
<1>2. server' = [q \in Servers |-> server'[q]]
  BY <1>1
<1>3. DatabaseOK'
  BY DEF BootInv, DatabaseOK
<1>4. \A q \in Servers : ProcessOK(server[q])'
  <2>. SUFFICES ASSUME NEW q \in Servers PROVE ProcessOK(server[q])'
    OBVIOUS
  <2>. DEFINE s == IF q = p THEN state ELSE server[q]
  <2>1. server'[q] = s /\ ProcessOK(s)
    BY <1>1 DEF BootInv
  <2>. HIDE DEF s
  <2>. QED
    BY <2>1 DEF ProcessOK, IsProcess, MigratingOK, ReadOK, Executes
<1>5. OneLocks'
  <2>. SUFFICES ASSUME NEW q \in Servers, NEW r \in Servers,
                       Locks(server'[q]), Locks(server'[r])
                PROVE  q = r
    BY DEF OneLocks
  <2>. USE DEF BootInv, OneLocks
  <2>1. CASE Locks(server[p])
    BY <1>1, <2>1
  <2>2. CASE ~Locks(server[p])
    BY <1>1, <2>2 DEF Unlocked, Locks
  <2>. QED
    BY <2>1, <2>2
<1>. QED
  BY <1>2, <1>3, <1>4, <1>5 DEF BootInv

\* A process may end at any time.
LEMMA Ends ==
  ASSUME BootInv, UNCHANGED db, NEW p \in Servers, NEW phase \in {"stopped", "failed"},
         Become(p, Off(phase))
  PROVE  BootInv'
<1>1. ProcessOK(Off(phase)) /\ ~Locks(Off(phase))
  BY OffOK
<1>. QED
  BY <1>1, Moves

\* What holds of the process that moves.
LEMMA OfProcess ==
  ASSUME BootInv, NEW p \in Servers
  PROVE  /\ IsProcess(server[p]) /\ MigratingOK(server[p]) /\ ReadOK(server[p])
         /\ server[p].phase \in Phases /\ server[p].todo \in SUBSET Versions
  BY DEF BootInv, ProcessOK, IsProcess

\* Going on to another phase with what is read.
LEMMA Goes ==
  ASSUME BootInv, UNCHANGED db, NEW p \in Servers, NEW phase \in Phases, Goto(p, phase),
         server[p].phase \notin {"stopped", "failed", "open"},
         phase \notin {"stopped", "failed", "open", "serving"},
         phase \in {"record", "commit"} =>
           /\ Locks(server[p]) \/ Unlocked
           /\ server[p].todo # {} /\ Executes(First(server[p].todo)),
         phase = "commit" => First(server[p].todo) \notin db.applied,
         phase \in {"signals", "profiles"} => server[p].todo = {}
  PROVE  BootInv'
<1>. DEFINE t == [server[p] EXCEPT !.phase = phase]
<1>1. /\ IsProcess(server[p]) /\ MigratingOK(server[p]) /\ ReadOK(server[p])
  BY OfProcess
<1>2. /\ IsProcess(t) /\ t.phase = phase /\ t.todo = server[p].todo
      /\ t.cfg = server[p].cfg /\ t.providers = server[p].providers
      /\ t.profiles = server[p].profiles
  BY <1>1 DEF IsProcess
<1>3. Become(p, t)
  BY DEF Goto
<1>. HIDE DEF t
<1>4. MigratingOK(t)
  BY <1>1, <1>2 DEF MigratingOK, Locks
<1>5. ReadOK(t)
  BY <1>1, <1>2 DEF ReadOK
<1>. QED
  BY <1>2, <1>3, <1>4, <1>5, Moves DEF ProcessOK, Locks

(***************************************************************************)
(* The steps of a boot.                                                    *)
(***************************************************************************)

LEMMA LoadKeeps ==
  ASSUME BootInv, files.runtime \in RuntimeFiles, NEW p \in Servers, Load(p)
  PROVE  BootInv'
<1>. DEFINE r == files.runtime
            t == [Off("open") EXCEPT !.cfg = Resolved(r, files.environment)]
<1>1. CASE ~RuntimeLoads(r)
  BY <1>1, Ends DEF Load, Refuse
<1>2. CASE RuntimeLoads(r)
  <2>1. Become(p, t) /\ UNCHANGED db
    BY <1>2 DEF Load
  <2>2. /\ IsProcess(t) /\ t.phase = "open" /\ t.cfg = Resolved(r, files.environment)
        /\ t.todo = {} /\ t.providers = NoProviders
    BY DEF Off, IsProcess, Phases
  <2>3. CascadeOK(Resolved(r, files.environment))
    BY <1>2, LoadedCascade
  <2>4. ProvidersOK(NoProviders)
    BY OffOK DEF Off
  <2>. HIDE DEF t
  <2>5. MigratingOK(t) /\ ReadOK(t) /\ ~Locks(t)
    BY <2>2, <2>3, <2>4 DEF MigratingOK, ReadOK, Locks
  <2>. QED
    BY <2>1, <2>2, <2>5, Moves DEF ProcessOK
<1>. QED
  BY <1>1, <1>2

LEMMA PlanKeeps ==
  ASSUME BootInv, NEW p \in Servers, Plan(p)
  PROVE  BootInv'
<1>. DEFINE t == [server[p] EXCEPT !.phase = "migrate", !.todo = Unapplied]
<1>1. Become(p, t) /\ UNCHANGED db /\ server[p].phase = "open"
  BY DEF Plan
<1>2. /\ IsProcess(server[p]) /\ ReadOK(server[p])
  BY OfProcess
<1>3. /\ IsProcess(t) /\ t.phase = "migrate" /\ t.todo = Versions \ db.applied
      /\ t.cfg = server[p].cfg /\ t.providers = server[p].providers
  BY <1>2 DEF IsProcess, Unapplied, Phases
<1>. HIDE DEF t
<1>4. MigratingOK(t) /\ ReadOK(t) /\ ~Locks(t)
  BY <1>1, <1>2, <1>3 DEF MigratingOK, ReadOK, Locks
<1>. QED
  BY <1>1, <1>3, <1>4, Moves DEF ProcessOK

LEMMA ExecuteKeeps ==
  ASSUME BootInv, NEW p \in Servers, Execute(p)
  PROVE  BootInv'
<1>1. CASE Executes(First(server[p].todo))
  BY <1>1, Goes DEF Execute, Phases
<1>2. CASE ~Executes(First(server[p].todo))
  BY <1>2, Ends DEF Execute, Refuse
<1>. QED
  BY <1>1, <1>2

LEMMA RecordKeeps ==
  ASSUME BootInv, NEW p \in Servers, Record(p)
  PROVE  BootInv'
<1>1. server[p].todo # {} /\ Executes(First(server[p].todo)) /\ Locks(server[p])
  BY OfProcess DEF Record, MigratingOK, Locks
<1>2. CASE First(server[p].todo) \notin db.applied
  BY <1>1, <1>2, Goes DEF Record, Phases
<1>3. CASE First(server[p].todo) \in db.applied
  BY <1>3, Ends DEF Record, Refuse
<1>. QED
  BY <1>2, <1>3

LEMMA MigratedKeeps ==
  ASSUME BootInv, NEW p \in Servers, Migrated(p)
  PROVE  BootInv'
  BY Goes DEF Migrated, Phases

LEMMA LoadSignalsKeeps ==
  ASSUME BootInv, NEW p \in Servers, LoadSignals(p)
  PROVE  BootInv'
<1>. DEFINE t == [server[p] EXCEPT !.phase = "profiles",
                                   !.providers = Providers(files.signals)]
<1>1. /\ IsProcess(server[p]) /\ MigratingOK(server[p]) /\ ReadOK(server[p])
      /\ server[p].phase = "signals" /\ UNCHANGED db
  BY OfProcess DEF LoadSignals
<1>2. CASE server[p].cfg.signals = Unset
  BY <1>1, <1>2, Goes DEF LoadSignals, Phases, MigratingOK
<1>3. CASE server[p].cfg.signals # Unset /\ ~SignalsLoad(files.signals)
  BY <1>3, Ends DEF LoadSignals, Refuse
<1>4. CASE server[p].cfg.signals # Unset /\ SignalsLoad(files.signals)
  <2>1. Become(p, t)
    BY <1>4 DEF LoadSignals
  <2>2. /\ IsProcess(t) /\ t.phase = "profiles" /\ t.todo = server[p].todo
        /\ t.cfg = server[p].cfg /\ t.providers = Providers(files.signals)
    BY <1>1 DEF IsProcess, Phases
  <2>3. ProvidersOK(Providers(files.signals))
    BY <1>4, LoadedProviders
  <2>. HIDE DEF t
  <2>4. MigratingOK(t) /\ ReadOK(t) /\ ~Locks(t)
    BY <1>1, <2>2, <2>3 DEF MigratingOK, ReadOK, Locks
  <2>. QED
    BY <1>1, <2>1, <2>2, <2>4, Moves DEF ProcessOK
<1>. QED
  BY <1>2, <1>3, <1>4

LEMMA AssembleKeeps ==
  ASSUME BootInv, NEW p \in Servers, Assemble(p)
  PROVE  BootInv'
<1>. DEFINE t == [server[p] EXCEPT !.phase = "serving", !.profiles = files.profiles]
            Checked == /\ ProfilesLoad(files.profiles)
                       /\ WeighsKnown(files.profiles, BuiltIns \cup DOMAIN server[p].providers)
                       /\ KeyGiven(server[p].cfg)
<1>1. /\ IsProcess(server[p]) /\ MigratingOK(server[p]) /\ ReadOK(server[p])
      /\ server[p].phase = "profiles" /\ UNCHANGED db
  BY OfProcess DEF Assemble
<1>2. CASE ~Checked
  BY <1>2, Ends DEF Assemble, Refuse
<1>3. CASE Checked
  <2>1. Become(p, t)
    BY <1>3 DEF Assemble
  <2>2. /\ IsProcess(t) /\ t.phase = "serving" /\ t.todo = server[p].todo
        /\ t.cfg = server[p].cfg /\ t.providers = server[p].providers
        /\ t.profiles = files.profiles
    BY <1>1 DEF IsProcess, Phases
  <2>. HIDE DEF t
  <2>3. MigratingOK(t) /\ ~Locks(t)
    BY <1>1, <2>2 DEF MigratingOK, Locks
  <2>4. ReadOK(t)
    BY <1>1, <1>3, <2>2 DEF ReadOK
  <2>. QED
    BY <1>1, <2>1, <2>2, <2>3, <2>4, Moves DEF ProcessOK
<1>. QED
  BY <1>2, <1>3

(***************************************************************************)
(* The steps that change the database.                                     *)
(***************************************************************************)

\* The one that commits found the database as it still is: nobody else has the
\* lock, and what the others mean to leave out stays applied.
LEMMA CommitKeeps ==
  ASSUME BootInv, NEW p \in Servers, Commit(p)
  PROVE  BootInv'
<1>. DEFINE v == First(server[p].todo)
            t == [server[p] EXCEPT !.phase = "migrate", !.todo = @ \ {v}]
<1>1. /\ IsProcess(server[p]) /\ MigratingOK(server[p]) /\ ReadOK(server[p])
      /\ server[p].phase = "commit" /\ server[p].todo \in SUBSET Versions
      /\ server[p].todo # {} /\ Executes(v) /\ v \notin db.applied /\ Locks(server[p])
      /\ Versions \ server[p].todo \subseteq db.applied
  BY OfProcess DEF Commit, MigratingOK, Locks
<1>2. v \in server[p].todo /\ v \in {1, 2}
  BY <1>1, FirstIsFirst
<1>3. /\ server' = [server EXCEPT ![p] = t]
      /\ db' = [db EXCEPT !.objects = @ \cup {v}, !.applied = @ \cup {v}]
  BY DEF Commit, Become
<1>4. /\ IsProcess(t) /\ t.phase = "migrate" /\ t.todo = server[p].todo \ {v}
      /\ t.cfg = server[p].cfg /\ t.providers = server[p].providers
  BY <1>1 DEF IsProcess, Phases
<1>. HIDE DEF t, v
<1>5. /\ db \in Databases /\ (db.duplicates = "some" => db.objects = {1})
  BY DEF BootInv, DatabaseOK
<1>6. /\ DatabaseOK' /\ db'.applied = db.applied \cup {v}
  <2>1. /\ db.objects = db.applied /\ db.applied \in {{}, {1}, {1, 2}}
        /\ db.duplicates \in {"none", "some"}
        /\ db = [objects |-> db.objects, applied |-> db.applied,
                  duplicates |-> db.duplicates]
    BY <1>5 DEF Databases
  <2>2. db' = [objects |-> db.objects \cup {v}, applied |-> db.applied \cup {v},
               duplicates |-> db.duplicates]
    BY <1>3, <2>1
  <2>3. CASE v = 1
    <3>1. db.applied = {} /\ db.duplicates = "none"
      BY <1>1, <1>5, <2>1, <2>3
    <3>2. db' = [objects |-> {1}, applied |-> {1}, duplicates |-> "none"]
      BY <2>1, <2>2, <2>3, <3>1
    <3>. QED
      BY <2>2, <3>2 DEF DatabaseOK, Databases
  <2>4. CASE v = 2
    <3>1. db.applied = {1} /\ db.duplicates = "none"
      BY <1>1, <1>5, <2>1, <2>4 DEF Executes
    <3>2. db' = [objects |-> {1, 2}, applied |-> {1, 2}, duplicates |-> "none"]
      BY <2>1, <2>2, <2>4, <3>1
    <3>. QED
      BY <2>2, <3>2 DEF DatabaseOK, Databases
  <2>. QED
    BY <1>2, <2>3, <2>4
<1>7. PICK s : s = t
  OBVIOUS
<1>8. server' = [q \in Servers |-> IF q = p THEN s ELSE server[q]]
  BY <1>3, <1>7 DEF BootInv
<1>9. ProcessOK(s)' /\ ~Locks(s)
  <2>1. MigratingOK(s)' /\ ~Locks(s)
    BY <1>1, <1>4, <1>6, <1>7 DEF MigratingOK, Locks
  <2>2. ReadOK(s)
    BY <1>1, <1>4, <1>7 DEF ReadOK
  <2>. QED
    BY <1>4, <1>7, <2>1, <2>2 DEF ProcessOK, IsProcess, ReadOK
<1>10. ASSUME NEW q \in Servers, q # p
       PROVE  /\ ProcessOK(server[q])' /\ ~Locks(server'[q])
  <2>1. server'[q] = server[q] /\ ~Locks(server[q]) /\ ProcessOK(server[q])
    BY <1>1, <1>8, <1>10 DEF BootInv, OneLocks
  <2>2. MigratingOK(server[q])'
    BY <1>6, <2>1 DEF ProcessOK, MigratingOK, Locks
  <2>. QED
    BY <2>1, <2>2 DEF ProcessOK, IsProcess, ReadOK
<1>11. (\A q \in Servers : ProcessOK(server[q]))' /\ OneLocks'
  <2>1. server'[p] = s
    BY <1>8
  <2>2. ProcessOK(server[p])' /\ ~Locks(server'[p])
    BY <1>9, <2>1 DEF ProcessOK, IsProcess, MigratingOK, ReadOK, Executes
  <2>. QED
    BY <1>10, <2>2 DEF OneLocks
<1>12. server' = [q \in Servers |-> server'[q]]
  BY <1>8
<1>. QED
  BY <1>6, <1>11, <1>12 DEF BootInv

\* Replays and repairs wait for the lock, and touch no migration.
LEMMA LogKeeps ==
  ASSUME BootInv, Replay \/ Dedupe
  PROVE  BootInv'
<1>1. /\ server' = server /\ Unlocked
      /\ \/ db.objects = {1} /\ db' = [db EXCEPT !.duplicates = "some"]
         \/ db' = [db EXCEPT !.duplicates = "none"]
  BY DEF Replay, Dedupe
<1>2. db \in Databases
  BY DEF BootInv, DatabaseOK
<1>3. DatabaseOK' /\ db'.applied = db.applied
  BY <1>1, <1>2 DEF DatabaseOK, Databases
<1>4. \A q \in Servers : ProcessOK(server[q])'
  BY <1>1, <1>3 DEF BootInv, ProcessOK, IsProcess, MigratingOK, ReadOK, Locks, Unlocked
<1>. QED
  BY <1>1, <1>3, <1>4 DEF BootInv, OneLocks

(***************************************************************************)
(* The theorems.                                                           *)
(***************************************************************************)

\* What processes read is what the operator writes.
FilesOK ==
  files \in [runtime : RuntimeFiles, environment : Environments,
             signals : SignalFiles, profiles : ProfileFiles]

LEMMA InitBoots == Init => BootInv /\ FilesOK
<1>. SUFFICES ASSUME Init PROVE BootInv
  BY DEF Init, FilesOK
<1>1. DatabaseOK
  BY DEF Init, DatabaseOK
<1>2. \A p \in Servers : server[p] = Off("stopped")
  BY DEF Init
<1>3. ProcessOK(Off("stopped")) /\ ~Locks(Off("stopped"))
  BY OffOK
<1>. QED
  BY <1>1, <1>2, <1>3 DEF BootInv, OneLocks, Init

LEMMA NextBoots == BootInv /\ FilesOK /\ [Next]_vars => BootInv' /\ FilesOK'
<1>. SUFFICES ASSUME BootInv, FilesOK, [Next]_vars PROVE BootInv' /\ FilesOK'
  OBVIOUS
<1>0. files.runtime \in RuntimeFiles
  BY DEF FilesOK
<1>1. ASSUME NEW p \in Servers, Step(p) PROVE BootInv' /\ UNCHANGED files
  <2>1. CASE Load(p)
    BY <1>0, <2>1, LoadKeeps DEF Load
  <2>2. CASE Plan(p)
    BY <2>2, PlanKeeps DEF Plan
  <2>3. CASE Execute(p)
    BY <2>3, ExecuteKeeps DEF Execute
  <2>4. CASE Record(p)
    BY <2>4, RecordKeeps DEF Record
  <2>5. CASE Commit(p)
    BY <2>5, CommitKeeps DEF Commit
  <2>6. CASE Migrated(p)
    BY <2>6, MigratedKeeps DEF Migrated
  <2>7. CASE LoadSignals(p)
    BY <2>7, LoadSignalsKeeps DEF LoadSignals
  <2>8. CASE Assemble(p)
    BY <2>8, AssembleKeeps DEF Assemble
  <2>. QED
    BY <1>1, <2>1, <2>2, <2>3, <2>4, <2>5, <2>6, <2>7, <2>8 DEF Step
<1>2. ASSUME NEW p \in Servers, Stop(p) PROVE BootInv' /\ UNCHANGED files
  BY <1>2, Ends DEF Stop
<1>3. CASE Edit
  <2>1. FilesOK'
    BY <1>3 DEF Edit, FilesOK
  <2>2. UNCHANGED <<db, server>>
    BY <1>3 DEF Edit
  <2>. QED
    BY <2>1, <2>2 DEF BootInv, DatabaseOK, ProcessOK, IsProcess, MigratingOK, ReadOK,
                      OneLocks, Executes
<1>4. CASE Replay \/ Dedupe
  BY <1>4, LogKeeps DEF Replay, Dedupe, FilesOK
<1>5. CASE UNCHANGED vars
  BY <1>5 DEF vars, FilesOK, BootInv, DatabaseOK, ProcessOK, IsProcess, MigratingOK,
              ReadOK, OneLocks, Executes
<1>. QED
  BY <1>1, <1>2, <1>3, <1>4, <1>5 DEF Next, FilesOK

\* BootInv holds throughout: a transaction is over the schema it was planned for.
THEOREM BootInductive == Spec => [](BootInv /\ FilesOK)
<1>. QED
  BY InitBoots, NextBoots, PTL DEF Spec

\* However many processes boot at once and wherever each of them ends, the
\* schema is what schema_migrations says, and its index is over a log without
\* duplicates.
THEOREM MigrationsWhole == Spec => []MigrationsAreWhole
<1>1. BootInv => MigrationsAreWhole
  <2>. SUFFICES ASSUME BootInv PROVE MigrationsAreWhole
    OBVIOUS
  <2>1. db \in Databases /\ (2 \in db.objects => db.duplicates = "none")
    BY DEF BootInv, DatabaseOK, Databases
  <2>2. \A p, q \in Servers :
          {server[p].phase, server[q].phase} \subseteq {"record", "commit"} => p = q
    BY DEF BootInv, OneLocks, Locks
  <2>. QED
    BY <2>1, <2>2 DEF MigrationsAreWhole
<1>. QED
  BY <1>1, BootInductive, PTL

\* Whatever the files hold and whenever they are edited, a process that serves
\* has a cascade, provider signals, profiles and a schema that fit.
THEOREM ServingSound == Spec => []ServingIsSound
<1>1. BootInv => ServingIsSound
  <2>. SUFFICES ASSUME BootInv, NEW p \in Servers, server[p].phase = "serving"
                PROVE  Sound(server[p])
    BY DEF ServingIsSound
  <2>1. /\ MigratingOK(server[p]) /\ ReadOK(server[p])
    BY OfProcess
  <2>2. db.applied = Versions
    <3>1. Versions \subseteq db.applied
      BY <2>1 DEF MigratingOK
    <3>2. db.applied \subseteq Versions
      BY DEF BootInv, DatabaseOK, Databases, Versions
    <3>. QED
      BY <3>1, <3>2
  <2>3. /\ CascadeOK(server[p].cfg) /\ ProvidersOK(server[p].providers)
        /\ KeyGiven(server[p].cfg)
        /\ WeighsKnown(server[p].profiles, BuiltIns \cup DOMAIN server[p].providers)
    BY <2>1 DEF ReadOK
  <2>. QED
    BY <2>2, <2>3 DEF Sound, CascadeOK, ProvidersOK, KeyGiven, WeighsKnown
<1>. QED
  BY <1>1, BootInductive, PTL

(***************************************************************************)
(* The end of a boot: how many of its steps are left, and why it fails.    *)
(***************************************************************************)

\* The migrations still to be applied: each takes three steps.
Pending(todo) == (IF 1 \in todo THEN 3 ELSE 0) + (IF 2 \in todo THEN 3 ELSE 0)

StepsOf(s) ==
  CASE s.phase = "open"     -> 10
    [] s.phase = "migrate"  -> Pending(s.todo) + 3
    [] s.phase = "record"   -> Pending(s.todo) + 2
    [] s.phase = "commit"   -> Pending(s.todo) + 1
    [] s.phase = "signals"  -> 2
    [] s.phase = "profiles" -> 1
    [] OTHER -> 0

\* A process takes at most ten steps to serve or to fail, whatever is edited or
\* migrated beside it.
BootsShrink ==
  [][\A p \in Servers :
       /\ StepsOf(server[p]) \in 0 .. 10
       /\ Step(p) /\ ~Load(p) => StepsOf(server'[p]) < StepsOf(server[p])
       /\ ~Load(p) => StepsOf(server'[p]) <= StepsOf(server[p])]_vars

\* Another process has applied what p means to apply.
Outrun(p) == \E v \in server[p].todo : v \in db.applied

\* What p has read so far is still what the files say.
ReadsCurrent(p) ==
  LET s == server[p] IN
  /\ s.phase \notin {"stopped", "failed"} =>
       s.cfg = Resolved(files.runtime, files.environment)
  /\ s.phase = "profiles" =>
       s.providers = IF files.runtime.signals = Unset THEN NoProviders
                     ELSE Providers(files.signals)

\* On files and a log that boot, a process fails for two causes only: what it
\* has read is out of date, or it was outrun.
FailsForCause ==
  [][\A p \in Servers :
       Bootable /\ Step(p) /\ server'[p].phase = "failed"
         => ~ReadsCurrent(p) \/ Outrun(p)]_vars

\* What the process becomes, and nobody else.
LEMMA Becomes ==
  ASSUME BootInv, NEW p \in Servers, NEW t, Become(p, t)
  PROVE  server'[p] = t /\ \A q \in Servers : q # p => server'[q] = server[q]
BY DEF BootInv, Become

\* Two migrations at most are pending.
LEMMA PendingCounted ==
  ASSUME NEW todo \in SUBSET Versions
  PROVE  /\ Pending(todo) \in 0 .. 6
         /\ \A v \in todo : Pending(todo \ {v}) + 3 = Pending(todo)
<1>1. Pending(todo) \in 0 .. 6
  BY DEF Pending
<1>2. ASSUME NEW v \in todo PROVE Pending(todo \ {v}) + 3 = Pending(todo)
  <2>1. v = 1 \/ v = 2
    BY DEF Versions
  <2>2. CASE v = 1
    BY <2>2 DEF Pending
  <2>3. CASE v = 2
    BY <2>3 DEF Pending
  <2>. QED
    BY <2>1, <2>2, <2>3
<1>. QED
  BY <1>1, <1>2

\* What is left is a number of steps.
LEMMA StepsCounted ==
  ASSUME NEW s, s.phase \in Phases, s.todo \in SUBSET Versions
  PROVE  StepsOf(s) \in 0 .. 10
BY PendingCounted DEF StepsOf, Phases

\* Every step of a boot but its first lowers what is left (Open, migrate, Build).
LEMMA BootShrinks ==
  ASSUME BootInv, NEW p \in Servers, Step(p), ~Load(p)
  PROVE  StepsOf(server'[p]) < StepsOf(server[p])
<1>. DEFINE s == server[p]
<1>1. /\ IsProcess(s) /\ s.phase \in Phases /\ s.todo \in SUBSET Versions /\ MigratingOK(s)
  BY OfProcess
<1>2. Pending(s.todo) \in Nat /\ Pending(s.todo) <= 6
  BY <1>1, PendingCounted
<1>3. ASSUME Refuse(p), s.phase \in {"migrate", "record", "signals", "profiles"}
      PROVE  StepsOf(server'[p]) < StepsOf(s)
  <2>1. server'[p].phase = "failed"
    BY <1>3, Becomes, OffOK DEF Refuse
  <2>2. StepsOf(server'[p]) = 0
    BY <2>1 DEF StepsOf
  <2>3. StepsOf(s) > 0
    BY <1>2, <1>3 DEF StepsOf
  <2>. QED
    BY <2>2, <2>3
<1>4. ASSUME NEW phase \in Phases, Goto(p, phase)
      PROVE  server'[p].phase = phase /\ server'[p].todo = s.todo
  <2>. DEFINE t == [server[p] EXCEPT !.phase = phase]
  <2>1. t.phase = phase /\ t.todo = s.todo
    BY <1>1 DEF IsProcess
  <2>2. server'[p] = t
    BY <1>4, Becomes DEF Goto
  <2>. QED
    BY <2>1, <2>2
<1>5. CASE Plan(p)
  <2>. DEFINE t == [server[p] EXCEPT !.phase = "migrate", !.todo = Unapplied]
  <2>1. t.phase = "migrate" /\ t.todo = Unapplied /\ Unapplied \in SUBSET Versions
    BY <1>1 DEF IsProcess, Unapplied
  <2>2. server'[p] = t /\ s.phase = "open"
    BY <1>5, Becomes DEF Plan
  <2>3. Pending(Unapplied) \in 0 .. 6
    BY <2>1, PendingCounted
  <2>4. StepsOf(server'[p]) = Pending(Unapplied) + 3 /\ StepsOf(s) = 10
    BY <2>1, <2>2 DEF StepsOf
  <2>. QED
    BY <2>3, <2>4
<1>6. CASE Execute(p)
  <2>1. CASE Goto(p, "record")
    BY <1>2, <1>4, <1>6, <2>1 DEF Execute, StepsOf, Phases
  <2>. QED
    BY <1>3, <1>6, <2>1 DEF Execute
<1>7. CASE Record(p)
  <2>1. CASE Goto(p, "commit")
    BY <1>2, <1>4, <1>7, <2>1 DEF Record, StepsOf, Phases
  <2>. QED
    BY <1>3, <1>7, <2>1 DEF Record
<1>8. CASE Commit(p)
  <2>. DEFINE v == First(s.todo)
              t == [server[p] EXCEPT !.phase = "migrate", !.todo = @ \ {v}]
  <2>1. t.phase = "migrate" /\ t.todo = s.todo \ {v}
    BY <1>1 DEF IsProcess
  <2>2. server'[p] = t /\ s.phase = "commit"
    BY <1>8, Becomes DEF Commit
  <2>3. v \in s.todo
    BY <1>1, <2>2, FirstIsFirst DEF MigratingOK, Locks
  <2>4. Pending(s.todo \ {v}) + 3 = Pending(s.todo) /\ Pending(s.todo \ {v}) \in 0 .. 6
    BY <1>1, <2>3, PendingCounted
  <2>5. StepsOf(server'[p]) = Pending(s.todo \ {v}) + 3 /\ StepsOf(s) = Pending(s.todo) + 1
    BY <2>1, <2>2 DEF StepsOf
  <2>. DEFINE n == Pending(s.todo \ {v})
              m == Pending(s.todo)
  <2>6. n + 3 = m /\ n \in Nat /\ m \in Nat
        /\ StepsOf(server'[p]) = n + 3 /\ StepsOf(server[p]) = m + 1
    BY <1>2, <2>4, <2>5
  <2>. HIDE DEF s, v, n, m
  <2>. QED
    BY <2>6
<1>9. CASE Migrated(p)
  BY <1>2, <1>4, <1>9 DEF Migrated, StepsOf, Phases
<1>10. CASE LoadSignals(p)
  <2>1. CASE Goto(p, "profiles")
    BY <1>4, <1>10, <2>1 DEF LoadSignals, StepsOf, Phases
  <2>2. CASE Become(p, [server[p] EXCEPT !.phase = "profiles", !.providers = Providers(files.signals)])
    <3>. DEFINE t == [server[p] EXCEPT !.phase = "profiles", !.providers = Providers(files.signals)]
    <3>1. server'[p] = t /\ t.phase = "profiles"
      BY <1>1, <2>2, Becomes DEF IsProcess
    <3>. QED
      BY <1>10, <3>1 DEF LoadSignals, StepsOf
  <2>. QED
    BY <1>3, <1>10, <2>1, <2>2 DEF LoadSignals
<1>11. CASE Assemble(p)
  <2>. DEFINE t == [server[p] EXCEPT !.phase = "serving", !.profiles = files.profiles]
  <2>1. CASE Become(p, t)
    <3>1. server'[p] = t /\ t.phase = "serving"
      BY <1>1, <2>1, Becomes DEF IsProcess
    <3>. QED
      BY <1>11, <3>1 DEF Assemble, StepsOf
  <2>. QED
    BY <1>3, <1>11, <2>1 DEF Assemble
<1>. QED
  BY <1>5, <1>6, <1>7, <1>8, <1>9, <1>10, <1>11 DEF Step

(***************************************************************************)
(* A boot goes through at most ten steps after its first, or fails: no     *)
(* plan is made twice, however many processes migrate beside it.           *)
(***************************************************************************)
THEOREM BootIsBounded == Spec => BootsShrink
<1>. DEFINE Shrink ==
       \A p \in Servers :
         /\ StepsOf(server[p]) \in 0 .. 10
         /\ Step(p) /\ ~Load(p) => StepsOf(server'[p]) < StepsOf(server[p])
         /\ ~Load(p) => StepsOf(server'[p]) <= StepsOf(server[p])
<1>1. BootInv /\ BootInv' /\ Next => Shrink
  <2>. SUFFICES ASSUME BootInv, BootInv', Next, NEW p \in Servers
                PROVE  /\ StepsOf(server[p]) \in 0 .. 10
                       /\ Step(p) /\ ~Load(p) => StepsOf(server'[p]) < StepsOf(server[p])
                       /\ ~Load(p) => StepsOf(server'[p]) <= StepsOf(server[p])
    OBVIOUS
  <2>1. StepsOf(server[p]) \in 0 .. 10
    BY OfProcess, StepsCounted
  <2>2. StepsOf(server'[p]) \in 0 .. 10
    <3>1. ProcessOK(server[p])'
      BY DEF BootInv
    <3>2. server'[p].phase \in Phases /\ server'[p].todo \in SUBSET Versions
      BY <3>1 DEF ProcessOK, IsProcess
    <3>. QED
      BY <3>2, StepsCounted
  <2>3. Step(p) /\ ~Load(p) => StepsOf(server'[p]) < StepsOf(server[p])
    BY BootShrinks
  <2>4. ASSUME NEW q \in Servers, q # p, Step(q) \/ Stop(q) PROVE server'[p] = server[p]
    <3>1. PICK t : Become(q, t)
      BY <2>4 DEF Step, Stop, Load, Plan, Execute, Record, Commit, Migrated, LoadSignals,
                  Assemble, Goto, Refuse
    <3>. QED
      BY <2>4, <3>1, Becomes
  <2>5. Stop(p) => StepsOf(server'[p]) = 0
    <3>. SUFFICES ASSUME Stop(p) PROVE StepsOf(server'[p]) = 0
      OBVIOUS
    <3>1. server'[p].phase = "stopped"
      BY Becomes, OffOK DEF Stop
    <3>. QED
      BY <3>1 DEF StepsOf
  <2>6. Edit \/ Replay \/ Dedupe => server' = server
    BY DEF Edit, Replay, Dedupe
  <2>. QED
    BY <2>1, <2>2, <2>3, <2>4, <2>5, <2>6 DEF Next
<1>2. Spec => [](BootInv /\ FilesOK)
  BY BootInductive
<1>3. BootInv /\ BootInv' /\ [Next]_vars => [Shrink]_vars
  BY <1>1
<1>. QED
  BY <1>2, <1>3, PTL DEF Spec, BootsShrink

\* One step of a boot that fails has its cause.
LEMMA FailureHasCause ==
  ASSUME BootInv, FilesOK, Bootable, NEW p \in Servers, Step(p),
         server'[p].phase = "failed", ReadsCurrent(p)
  PROVE  Outrun(p)
<1>. DEFINE s == server[p]
            v == First(s.todo)
<1>1. /\ IsProcess(s) /\ s.todo \in SUBSET Versions /\ MigratingOK(s)
  BY OfProcess
<1>2. ASSUME NEW phase \in Phases \ {"failed"}, Goto(p, phase) PROVE FALSE
  <2>. DEFINE t == [server[p] EXCEPT !.phase = phase]
  <2>1. t.phase = phase
    BY <1>1 DEF IsProcess
  <2>. QED
    BY <1>2, <2>1, Becomes DEF Goto
<1>3. /\ db.objects = db.applied /\ db.applied \in {{}, {1}, {1, 2}} /\ db.duplicates = "none"
  BY DEF BootInv, DatabaseOK, Databases, Bootable
<1>4. CASE Load(p)
  <2>. DEFINE t == [Off("open") EXCEPT !.cfg = Resolved(files.runtime, files.environment)]
  <2>1. Become(p, t) /\ t.phase = "open"
    BY <1>4 DEF Load, Bootable, Off
  <2>. QED
    BY <2>1, Becomes
<1>5. CASE Plan(p)
  <2>. DEFINE t == [server[p] EXCEPT !.phase = "migrate", !.todo = Unapplied]
  <2>1. Become(p, t) /\ t.phase = "migrate"
    BY <1>1, <1>5 DEF Plan, IsProcess
  <2>. QED
    BY <2>1, Becomes
<1>6. CASE Execute(p)
  <2>1. s.phase = "migrate" /\ s.todo # {} /\ ~Executes(v)
    BY <1>2, <1>6 DEF Execute, Phases
  <2>2. v \in s.todo /\ v \in {1, 2} /\ (v = 2 => 1 \notin s.todo)
    BY <1>1, <2>1, FirstIsFirst
  <2>3. v = 2 => 1 \in db.applied
    BY <1>1, <2>1, <2>2 DEF MigratingOK, Versions
  <2>4. v = 1 /\ 1 \in db.applied
    BY <1>3, <2>1, <2>2, <2>3 DEF Executes
  <2>. QED
    BY <2>2, <2>4 DEF Outrun
<1>7. CASE Record(p)
  <2>1. s.phase = "record" /\ v \in db.applied
    BY <1>2, <1>7 DEF Record, Phases
  <2>2. v \in s.todo
    BY <1>1, <2>1, FirstIsFirst DEF MigratingOK, Locks
  <2>. QED
    BY <2>1, <2>2 DEF Outrun
<1>8. CASE Commit(p)
  <2>. DEFINE t == [server[p] EXCEPT !.phase = "migrate", !.todo = @ \ {v}]
  <2>1. Become(p, t) /\ t.phase = "migrate"
    BY <1>1, <1>8 DEF Commit, IsProcess
  <2>. QED
    BY <2>1, Becomes
<1>9. CASE Migrated(p)
  BY <1>2, <1>9 DEF Migrated, Phases
<1>10. CASE LoadSignals(p)
  <2>1. s.phase = "signals" /\ s.cfg = Resolved(files.runtime, files.environment)
    BY <1>10 DEF LoadSignals, ReadsCurrent
  <2>2. s.cfg.signals = files.runtime.signals
    BY <2>1 DEF Resolved
  <2>3. s.cfg.signals # Unset => SignalsLoad(files.signals)
    BY <2>2 DEF Bootable
  <2>4. s.cfg.signals = Unset => Goto(p, "profiles")
    BY <1>10 DEF LoadSignals
  <2>5. s.cfg.signals # Unset
    BY <1>2, <2>4 DEF Phases
  <2>. DEFINE t == [server[p] EXCEPT !.phase = "profiles", !.providers = Providers(files.signals)]
  <2>6. Become(p, t) /\ t.phase = "profiles"
    BY <1>1, <1>10, <2>3, <2>5 DEF LoadSignals, IsProcess
  <2>. QED
    BY <2>6, Becomes
<1>11. CASE Assemble(p)
  <2>. DEFINE t == [server[p] EXCEPT !.phase = "serving", !.profiles = files.profiles]
  <2>1. /\ s.phase = "profiles" /\ s.cfg = Resolved(files.runtime, files.environment)
        /\ s.providers = IF files.runtime.signals = Unset THEN NoProviders
                         ELSE Providers(files.signals)
    BY <1>11 DEF Assemble, ReadsCurrent
  <2>2. DOMAIN s.providers = IF files.runtime.signals = Unset THEN {}
                             ELSE DOMAIN Providers(files.signals)
    BY <2>1 DEF NoProviders
  <2>3. /\ ProfilesLoad(files.profiles) /\ KeyGiven(s.cfg)
        /\ WeighsKnown(files.profiles, BuiltIns \cup DOMAIN s.providers)
    BY <2>1, <2>2 DEF Bootable
  <2>4. Become(p, t) /\ t.phase = "serving"
    BY <1>1, <1>11, <2>3 DEF Assemble, IsProcess
  <2>. QED
    BY <2>4, Becomes
<1>. QED
  BY <1>4, <1>5, <1>6, <1>7, <1>8, <1>9, <1>10, <1>11 DEF Step

(***************************************************************************)
(* No boot leaves behind what keeps the next from coming up: on files that *)
(* load and a log without duplicates, a process fails only because what it *)
(* has read was edited since, or because another one has applied a         *)
(* migration that it meant to apply (sqlitestore.Open, server.Build).      *)
(***************************************************************************)
THEOREM BootFailsForCause == Spec => FailsForCause
<1>. DEFINE Cause == \A p \in Servers :
                       Bootable /\ Step(p) /\ server'[p].phase = "failed"
                         => ~ReadsCurrent(p) \/ Outrun(p)
<1>1. BootInv /\ FilesOK /\ [Next]_vars => [Cause]_vars
  BY FailureHasCause
<1>. QED
  BY <1>1, BootInductive, PTL DEF Spec, FailsForCause
=============================================================================
