-------------------------- MODULE ObservationStore --------------------------
(***************************************************************************)
(* The SQLite adapter (internal/adapter/sqlitestore): the agents table,    *)
(* its full-text index kept by triggers, the append-only observation log   *)
(* with its unique (agent, signal, second) index, retention, and the write *)
(* transactions that change them one statement at a time.  SQLite admits   *)
(* one writer; readers see the committed database (WAL).                   *)
(***************************************************************************)
EXTENDS StoreTypes, FiniteSets

CONSTANTS
  NoTx,      \* no write transaction is open
  MaxRowId   \* bound: the largest obs_id handed out

ASSUME StoreBounds == MaxRowId \in Nat

VARIABLES
  db,  \* the committed database
  tx   \* the open write transaction: its batch, its progress, its copy

vars == <<db, tx>>

Rows == [id : Nat, agent : AgentIds, signal : SignalIds, at : Nat, value : Values]
Databases ==
  [agents : [AgentIds -> AgentRecords \cup {NoAgent}],
   fts    : SUBSET Upserts,
   rows   : SUBSET Rows,
   seq    : Nat]
Transactions ==
     [kind : {"agents"}, batch : Batches(Upserts), done : Nat, work : Databases]
  \cup
     [kind : {"observations"}, batch : Batches(Observations), done : Nat, work : Databases]

ASSUME NoTxIsNoTx == NoTx \notin Transactions /\ NoTx \notin Calls

\* Both databases keep to the schema, and an open transaction is one call's.
TypeOK ==
  /\ db \in Databases
  /\ tx \in Transactions \cup {NoTx}

\* A database to which the migrations have just been applied.
EmptyDatabase ==
  [agents |-> [a \in AgentIds |-> NoAgent], fts |-> {}, rows |-> {}, seq |-> 0]

Init ==
  /\ db = EmptyDatabase
  /\ tx = NoTx

-----------------------------------------------------------------------------
(* Reads.                                                                  *)

PairRows(rows, a, s) == {r \in rows : r.agent = a /\ r.signal = s}

\* ORDER BY observed_at DESC, obs_id DESC
Before(r, q) == r.at > q.at \/ (r.at = q.at /\ r.id > q.id)

IsLatest(rows, r) ==
  /\ r \in rows
  /\ \A q \in PairRows(rows, r.agent, r.signal) : q # r => Before(r, q)

LatestObservation(rows, a, s) ==
  LET tops == {r \in PairRows(rows, a, s) : IsLatest(rows, r)}
  IN  IF tops = {} THEN NoObservation
      ELSE LET r == CHOOSE r \in tops : TRUE IN [at |-> r.at, value |-> r.value]

Latest(d, p) == LatestObservation(d.rows, p[1], p[2])

-----------------------------------------------------------------------------
(* The statements.                                                         *)

\* Mutant: the insert trigger reads old.* where it should read new.*
SyncIndexFromOldRow(d, u) ==
  IF d.agents[u.agent] = NoAgent
  THEN d.fts \cup {[u EXCEPT !.record = d.agents[u.agent]]}
  ELSE {IF e.agent = u.agent THEN u ELSE e : e \in d.fts}

\* The triggers agents_ai and agents_au: a new agent gets an index entry, a
\* replaced one has its entries rewritten.
SyncIndex(d, u) ==
  IF d.agents[u.agent] = NoAgent
  THEN d.fts \cup {u}
  ELSE {IF e.agent = u.agent THEN u ELSE e : e \in d.fts}

\* INSERT INTO agents ... ON CONFLICT(agent_id) DO UPDATE
UpsertRow(d, u) ==
  [d EXCEPT !.agents[u.agent] = u.record, !.fts = SyncIndex(d, u)]

Conflicts(d, o) ==
  \E r \in d.rows : /\ r.agent = o.agent /\ r.signal = o.signal
                    /\ r.at = Truncate(o.observedAt)

\* Mutant: the insert without its ON CONFLICT clause and the unique index.
AppendRowAlways(d, o) ==
  [d EXCEPT !.seq = @ + 1,
            !.rows = @ \cup {[id |-> d.seq + 1, agent |-> o.agent, signal |-> o.signal,
                              at |-> Truncate(o.observedAt), value |-> o.value]}]

\* INSERT INTO signal_observations ... ON CONFLICT DO NOTHING
AppendRow(d, o) ==
  IF Conflicts(d, o) THEN d
  ELSE [d EXCEPT !.seq = @ + 1,
                 !.rows = @ \cup {[id |-> d.seq + 1, agent |-> o.agent,
                                   signal |-> o.signal,
                                   at |-> Truncate(o.observedAt),
                                   value |-> o.value]}]

\* Mutant: the window orders the pair's rows oldest first.
RetainedOldest(rows, keep) ==
  {r \in rows :
     Cardinality({q \in PairRows(rows, r.agent, r.signal) : Before(r, q)}) < keep}

\* DELETE of every row with keep or more rows of its pair before it.
Retained(rows, keep) ==
  {r \in rows :
     Cardinality({q \in PairRows(rows, r.agent, r.signal) : Before(q, r)}) < keep}

-----------------------------------------------------------------------------
(* Transactions.                                                           *)

Begin(kind, batch) ==
  /\ tx = NoTx
  /\ tx' = [kind |-> kind, batch |-> batch, done |-> 0, work |-> db]
  /\ UNCHANGED db

BeginUpsertAgents == \E batch \in Batches(Upserts) : Begin("agents", batch)

BeginAppendObservations ==
  \E batch \in Batches(Observations) : Begin("observations", batch)

\* The statement loop of UpsertAgents / AppendObservations has a row left.
RowLeft(kind) ==
  /\ tx # NoTx
  /\ tx.kind = kind
  /\ tx.done + 1 \in DOMAIN tx.batch

UpsertNext ==
  /\ RowLeft("agents")
  /\ tx' = [tx EXCEPT !.done = @ + 1,
                      !.work = UpsertRow(@, tx.batch[tx.done + 1])]
  /\ UNCHANGED db

\* The foreign key makes a row of an unknown agent fail: only Rollback is left.
AppendNext ==
  /\ RowLeft("observations")
  /\ LET o == tx.batch[tx.done + 1]
     IN  /\ tx.work.agents[o.agent] # NoAgent
         /\ tx.work.seq < MaxRowId
         /\ tx' = [tx EXCEPT !.done = @ + 1, !.work = AppendRow(@, o)]
  /\ UNCHANGED db

Commit ==
  /\ tx # NoTx
  /\ tx.done + 1 \notin DOMAIN tx.batch
  /\ db' = tx.work
  /\ tx' = NoTx

\* Mutant: the deferred call commits what the loop had written so far.
RollbackKeepsRows ==
  /\ tx # NoTx
  /\ db' = tx.work
  /\ tx' = NoTx

\* A failed statement or commit, a cancelled request (the deferred Rollback),
\* or a crash of the process before the commit reached the log.
Rollback ==
  /\ tx # NoTx
  /\ tx' = NoTx
  /\ UNCHANGED db

\* A DELETE outside any transaction waits for the write lock like the others.
PruneObservations ==
  /\ tx = NoTx
  /\ \E keep \in 1 .. MaxRowId : db' = [db EXCEPT !.rows = Retained(@, keep)]
  /\ UNCHANGED tx

Next ==
  \/ BeginUpsertAgents
  \/ BeginAppendObservations
  \/ UpsertNext
  \/ AppendNext
  \/ Commit
  \/ Rollback
  \/ PruneObservations

Spec == Init /\ [][Next]_vars

-----------------------------------------------------------------------------
(* Properties.                                                             *)

\* obs_id is a primary key, and a pair has one row per second.
RowsDistinct(d) ==
  \A r, q \in d.rows :
    \/ r = q
    \/ /\ r.id # q.id
       /\ <<r.agent, r.signal, r.at>> # <<q.agent, q.signal, q.at>>

\* Every observation belongs to a stored agent.
NoOrphanRow(d) == \A r \in d.rows : d.agents[r.agent] # NoAgent

\* The search index holds exactly the stored agents, with their current text.
IndexInLockstep(d) == d.fts = {u \in Upserts : d.agents[u.agent] = u.record}

\* Row ids do not run ahead of the sequence they come from, and a pair that
\* has rows has one that all the others come after.
RowsOrdered(d) ==
  /\ \A r \in d.rows : r.id <= d.seq
  /\ \A r \in d.rows :
       \E t \in d.rows : /\ t.agent = r.agent /\ t.signal = r.signal
                         /\ IsLatest(d.rows, t)

Consistent(d) == RowsDistinct(d) /\ NoOrphanRow(d) /\ IndexInLockstep(d) /\ RowsOrdered(d)

(***************************************************************************)
(* The committed database and the one a transaction is building are both   *)
(* consistent after every statement: unique triples, no orphan, the index  *)
(* in lockstep through inserts, replacements, retention and rollbacks.     *)
(***************************************************************************)
DatabaseConsistent == Consistent(db) /\ (tx # NoTx => Consistent(tx.work))

(***************************************************************************)
(* At every statement a transaction's copy is the committed database with  *)
(* exactly the rows written so far applied: the last upsert of each agent  *)
(* stands, each appended observation is read back or is beaten by one at   *)
(* least as new, and nothing outside the batch has changed.                *)
(***************************************************************************)
Written == {i \in DOMAIN tx.batch : i <= tx.done}

AgentsFaithful ==
  /\ tx.work.rows = db.rows
  /\ \A a \in AgentIds :
       \/ /\ \A i \in Written : tx.batch[i].agent # a
          /\ tx.work.agents[a] = db.agents[a]
       \/ \E i \in Written :
            /\ tx.batch[i].agent = a /\ tx.work.agents[a] = tx.batch[i].record
            /\ \A j \in Written : tx.batch[j].agent = a => j <= i

ObservationsFaithful ==
  /\ tx.work.agents = db.agents
  /\ \A i \in Written :
       /\ db.agents[tx.batch[i].agent] # NoAgent
       /\ AsNew(Latest(tx.work, PairOf(tx.batch[i])), Reading(tx.batch[i]))
  /\ \A p \in Pairs :
       \/ Latest(tx.work, p) = Latest(db, p)
       \/ /\ NewerReading(Latest(tx.work, p), Latest(db, p))
          /\ \E i \in Written : /\ PairOf(tx.batch[i]) = p
                                /\ Latest(tx.work, p) = Reading(tx.batch[i])

TransactionFaithful ==
  tx # NoTx =>
    /\ tx.done = 0 \/ tx.done \in DOMAIN tx.batch
    /\ tx.kind = "agents" => AgentsFaithful
    /\ tx.kind = "observations" => ObservationsFaithful

(***************************************************************************)
(* What the scoring engine reads of a pair never goes away and never goes  *)
(* back in time, whatever is appended late, retried, pruned or rolled      *)
(* back, and two different answers never carry the same second.            *)
(***************************************************************************)
LatestNeverRegresses ==
  [][\A p \in Pairs : \/ Latest(db', p) = Latest(db, p)
                      \/ NewerReading(Latest(db', p), Latest(db, p))]_vars

\* The call of the port that the open transaction serves.
OpenCall == IF tx = NoTx THEN NoTx ELSE [kind |-> tx.kind, batch |-> tx.batch]

(***************************************************************************)
(* The adapter implements the contract of port.AgentStore: of each call    *)
(* the whole batch or nothing becomes visible, in one step, and nothing    *)
(* else (retention, sequence numbers, statement order) ever shows.         *)
(***************************************************************************)
Promise == INSTANCE StorePromise WITH
  NoCall <- NoTx,
  agent  <- db.agents,
  latest <- [p \in Pairs |-> Latest(db, p)],
  call   <- OpenCall

ImplementsPromise == Promise!Spec

(***************************************************************************)
(* encode.go:41 says of producers' sub-second times that "the ORDER BY     *)
(* tie-break on obs_id preserves insert order within a single second": of  *)
(* two observations of a pair in the same second, the one appended last    *)
(* would be the one read.                                                  *)
(***************************************************************************)
InsertOrderWithinSecond ==
  [][(Commit /\ tx.kind = "observations") =>
       LET last == tx.batch[tx.done]
           p    == PairOf(last)
       IN  Latest(db, p) # NoObservation /\ Latest(db, p).at = Truncate(last.observedAt)
             => Latest(db', p) = Reading(last)]_vars
=============================================================================
