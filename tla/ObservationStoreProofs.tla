----------------------- MODULE ObservationStoreProofs -----------------------
(***************************************************************************)
(* Proofs about the SQLite adapter, for every set of agents, signals,      *)
(* records, values and instants and every batch size.                      *)
(***************************************************************************)
EXTENDS ObservationStore, FiniteSetTheorems, TLAPS

(***************************************************************************)
(* Type correctness.                                                       *)
(***************************************************************************)

\* formatTime stores a natural second for every instant.
LEMMA TruncateIsNat == \A t \in Instants : Truncate(t) \in Nat
  BY StoreConstants DEF Truncate

\* A database fresh from its migrations keeps to the schema.
LEMMA EmptyDatabaseType == EmptyDatabase \in Databases
  BY DEF EmptyDatabase, Databases

\* upsertAgentTx and the triggers it fires keep to the schema.
LEMMA UpsertRowType ==
  ASSUME NEW d \in Databases, NEW u \in Upserts
  PROVE  UpsertRow(d, u) \in Databases
<1>1. SyncIndex(d, u) \in SUBSET Upserts
  BY DEF SyncIndex, Databases, Upserts
<1>2. u.agent \in AgentIds /\ u.record \in AgentRecords
  BY DEF Upserts
<1>3. [d.agents EXCEPT ![u.agent] = u.record] \in [AgentIds -> AgentRecords \cup {NoAgent}]
  BY <1>2 DEF Databases
<1>. QED
  BY <1>1, <1>3 DEF UpsertRow, Databases

\* appendObservationTx keeps to the schema, whether it inserts or ignores.
LEMMA AppendRowType ==
  ASSUME NEW d \in Databases, NEW o \in Observations
  PROVE  AppendRow(d, o) \in Databases
<1>1. d.seq + 1 \in Nat
  BY DEF Databases
<1>2. [id |-> d.seq + 1, agent |-> o.agent, signal |-> o.signal,
       at |-> Truncate(o.observedAt), value |-> o.value] \in Rows
  BY <1>1, TruncateIsNat DEF Observations, Rows
<1>. QED
  BY <1>1, <1>2 DEF AppendRow, Databases

\* Every row of a batch is one of the values batches are built from.
LEMMA BatchElement ==
  ASSUME NEW S, NEW batch \in Batches(S), NEW i \in DOMAIN batch
  PROVE  batch[i] \in S
  BY DEF Batches

\* One turn of a statement loop leaves a transaction of the same kind and
\* batch, one row further, over the copy the statement produced.
LEMMA AdvanceType ==
  ASSUME NEW K, NEW B, NEW w \in Databases,
         NEW t \in [kind : K, batch : B, done : Nat, work : Databases]
  PROVE  [t EXCEPT !.done = @ + 1, !.work = w]
           \in [kind : K, batch : B, done : Nat, work : Databases]
<1>1. t.done + 1 \in Nat
  OBVIOUS
<1>. QED
  BY <1>1

\* Opening a transaction and executing a statement of it leave one open.
LEMMA BeginOpens ==
  ASSUME TypeOK, BeginUpsertAgents \/ BeginAppendObservations
  PROVE  tx = NoTx /\ tx' \in Transactions /\ tx' # NoTx /\ db' = db
<1>1. CASE BeginUpsertAgents
  <2>1. PICK batch \in Batches(Upserts) : Begin("agents", batch)
    BY <1>1 DEF BeginUpsertAgents
  <2>2. tx = NoTx /\ db' = db /\ tx' \in Transactions
    BY <2>1 DEF Begin, Transactions, TypeOK
  <2>. QED
    BY <2>2, NoTxIsNoTx
<1>2. CASE BeginAppendObservations
  <2>1. PICK batch \in Batches(Observations) : Begin("observations", batch)
    BY <1>2 DEF BeginAppendObservations
  <2>2. tx = NoTx /\ db' = db /\ tx' \in Transactions
    BY <2>1 DEF Begin, Transactions, TypeOK
  <2>. QED
    BY <2>2, NoTxIsNoTx
<1>. QED
  BY <1>1, <1>2

\* A statement does not change which call of the port is open.
LEMMA StatementKeepsCall ==
  ASSUME TypeOK, UpsertNext \/ AppendNext
  PROVE  /\ tx # NoTx /\ tx' \in Transactions /\ tx' # NoTx /\ db' = db
         /\ tx'.kind = tx.kind /\ tx'.batch = tx.batch
<1>1. CASE UpsertNext
  <2>1. /\ tx \in [kind : {"agents"}, batch : Batches(Upserts), done : Nat, work : Databases]
        /\ tx.done + 1 \in DOMAIN tx.batch
    BY <1>1 DEF UpsertNext, RowLeft, Transactions, TypeOK
  <2>2. UpsertRow(tx.work, tx.batch[tx.done + 1]) \in Databases
    BY <2>1, BatchElement, UpsertRowType
  <2>3. tx' \in [kind : {"agents"}, batch : Batches(Upserts), done : Nat, work : Databases]
    BY <1>1, <2>1, <2>2, AdvanceType DEF UpsertNext
  <2>4. tx'.kind = tx.kind /\ tx'.batch = tx.batch
    BY <1>1, <2>1 DEF UpsertNext
  <2>5. tx' \in Transactions
    BY <2>3 DEF Transactions
  <2>. QED
    BY <1>1, <2>4, <2>5, NoTxIsNoTx DEF UpsertNext, RowLeft
<1>2. CASE AppendNext
  <2>1. /\ tx \in [kind : {"observations"}, batch : Batches(Observations), done : Nat,
                   work : Databases]
        /\ tx.done + 1 \in DOMAIN tx.batch
    BY <1>2 DEF AppendNext, RowLeft, Transactions, TypeOK
  <2>2. AppendRow(tx.work, tx.batch[tx.done + 1]) \in Databases
    BY <2>1, BatchElement, AppendRowType
  <2>3. tx' \in [kind : {"observations"}, batch : Batches(Observations), done : Nat,
                 work : Databases]
    BY <1>2, <2>1, <2>2, AdvanceType DEF AppendNext
  <2>4. tx'.kind = tx.kind /\ tx'.batch = tx.batch
    BY <1>2, <2>1 DEF AppendNext
  <2>5. tx' \in Transactions
    BY <2>3 DEF Transactions
  <2>. QED
    BY <1>2, <2>4, <2>5, NoTxIsNoTx DEF AppendNext, RowLeft
<1>. QED
  BY <1>1, <1>2

(***************************************************************************)
(* The committed database and the open transaction's copy keep to the      *)
(* schema through every statement of the adapter.                          *)
(***************************************************************************)
THEOREM TypeOKInvariant == Spec => []TypeOK
<1>1. Init => TypeOK
  BY EmptyDatabaseType DEF Init, TypeOK
<1>2. TypeOK /\ [Next]_vars => TypeOK'
  <2> SUFFICES ASSUME TypeOK, [Next]_vars PROVE TypeOK'
    OBVIOUS
  <2>1. CASE BeginUpsertAgents \/ BeginAppendObservations
    BY <2>1, BeginOpens DEF TypeOK
  <2>2. CASE UpsertNext \/ AppendNext
    BY <2>2, StatementKeepsCall DEF TypeOK
  <2> USE DEF TypeOK
  <2>5. CASE Commit
    BY <2>5 DEF Commit, Transactions
  <2>6. CASE Rollback
    BY <2>6 DEF Rollback
  <2>7. CASE PruneObservations
    BY <2>7 DEF PruneObservations, Retained, Databases
  <2>8. CASE UNCHANGED vars
    BY <2>8 DEF vars
  <2>. QED
    BY <2>1, <2>2, <2>5, <2>6, <2>7, <2>8 DEF Next
<1>. QED
  BY <1>1, <1>2, PTL DEF Spec

(***************************************************************************)
(* Each statement keeps a database consistent.                             *)
(***************************************************************************)

\* What upsertAgentTx changes: the one agent row and its index entry.
LEMMA UpsertRowFields ==
  ASSUME NEW d \in Databases, NEW u \in Upserts
  PROVE  /\ UpsertRow(d, u).rows = d.rows
         /\ UpsertRow(d, u).seq = d.seq
         /\ UpsertRow(d, u).fts = SyncIndex(d, u)
         /\ UpsertRow(d, u).agents = [d.agents EXCEPT ![u.agent] = u.record]
  BY DEF UpsertRow, Databases

\* Upserting an agent keeps the database consistent: the triggers agents_ai
\* and agents_au keep the index in lockstep, no observation loses its agent.
LEMMA UpsertRowConsistent ==
  ASSUME NEW d \in Databases, NEW u \in Upserts, Consistent(d)
  PROVE  Consistent(UpsertRow(d, u))
<1>. DEFINE e == UpsertRow(d, u)
<1>0. /\ u.agent \in AgentIds /\ u.record \in AgentRecords /\ u.record # NoAgent
      /\ d.agents \in [AgentIds -> AgentRecords \cup {NoAgent}]
      /\ d.rows \subseteq Rows
      /\ d.fts = {v \in Upserts : d.agents[v.agent] = v.record}
  BY StoreConstants DEF Upserts, Databases, Consistent, IndexInLockstep
<1>1. \A a \in AgentIds : e.agents[a] = IF a = u.agent THEN u.record ELSE d.agents[a]
  BY <1>0, UpsertRowFields
<1>2. NoOrphanRow(e)
  <2>1. \A r \in d.rows : r.agent \in AgentIds /\ d.agents[r.agent] # NoAgent
    BY <1>0 DEF Consistent, NoOrphanRow, Rows
  <2>2. e.rows = d.rows
    BY UpsertRowFields
  <2>. QED
    BY <1>0, <1>1, <2>1, <2>2 DEF NoOrphanRow
<1>3. RowsDistinct(e) /\ RowsOrdered(e)
  BY UpsertRowFields DEF Consistent, RowsDistinct, RowsOrdered
<1>4. IndexInLockstep(e)
  <2>1. SUFFICES e.fts = {v \in Upserts : e.agents[v.agent] = v.record}
    BY DEF IndexInLockstep
  <2>2. \A v \in Upserts : /\ v.agent \in AgentIds
                           /\ v.record \in AgentRecords
                           /\ v.agent = u.agent /\ v.record = u.record => v = u
    BY DEF Upserts
  <2>3. CASE d.agents[u.agent] = NoAgent
    <3>1. e.fts = d.fts \cup {u}
      BY <2>3, UpsertRowFields DEF SyncIndex
    <3>2. \A v \in d.fts : v.agent # u.agent
      BY <1>0, <2>2, <2>3, StoreConstants
    <3>. QED
      BY <1>0, <1>1, <2>2, <3>1, <3>2
  <2>4. CASE d.agents[u.agent] # NoAgent
    <3>1. e.fts = {IF v.agent = u.agent THEN u ELSE v : v \in d.fts}
      BY <2>4, UpsertRowFields DEF SyncIndex
    <3>2. [agent |-> u.agent, record |-> d.agents[u.agent]] \in d.fts
      BY <1>0, <2>4 DEF Upserts
    <3>3. u \in e.fts
      BY <3>1, <3>2
    <3>4. \A v \in e.fts : v = u \/ (v \in d.fts /\ v.agent # u.agent)
      BY <3>1
    <3>5. \A v \in d.fts : v.agent # u.agent => v \in e.fts
      BY <3>1
    <3>. QED
      BY <1>0, <1>1, <2>2, <3>3, <3>4, <3>5
  <2>. QED
    BY <2>3, <2>4
<1>. QED
  BY <1>2, <1>3, <1>4 DEF Consistent

\* What appendObservationTx changes when no row has its triple: one new row,
\* with the next obs_id.
LEMMA AppendedRow ==
  ASSUME NEW d \in Databases, NEW o \in Observations, ~ Conflicts(d, o)
  PROVE  \E n \in Rows :
           /\ n.id = d.seq + 1
           /\ n.agent = o.agent /\ n.signal = o.signal
           /\ n.at = Truncate(o.observedAt) /\ n.value = o.value
           /\ AppendRow(d, o).rows = d.rows \cup {n}
           /\ AppendRow(d, o).seq = d.seq + 1
           /\ AppendRow(d, o).agents = d.agents
           /\ AppendRow(d, o).fts = d.fts
<1>. DEFINE n == [id |-> d.seq + 1, agent |-> o.agent, signal |-> o.signal,
                  at |-> Truncate(o.observedAt), value |-> o.value]
<1>1. d.seq \in Nat /\ d.seq + 1 \in Nat
  BY DEF Databases
<1>2. n \in Rows
  BY <1>1, TruncateIsNat DEF Rows, Observations
<1>3. /\ AppendRow(d, o).rows = d.rows \cup {n}
      /\ AppendRow(d, o).seq = d.seq + 1
      /\ AppendRow(d, o).agents = d.agents
      /\ AppendRow(d, o).fts = d.fts
  BY DEF AppendRow, Databases
<1>. QED
  BY <1>2, <1>3

\* Appending an observation of a stored agent keeps the database consistent:
\* the triple and the obs_id stay unique, and a latest row still exists.
LEMMA AppendRowConsistent ==
  ASSUME NEW d \in Databases, NEW o \in Observations, Consistent(d),
         d.agents[o.agent] # NoAgent
  PROVE  Consistent(AppendRow(d, o))
<1>1. CASE Conflicts(d, o)
  BY <1>1 DEF AppendRow
<1>2. CASE ~ Conflicts(d, o)
  <2>. DEFINE e == AppendRow(d, o)
  <2>1. PICK n \in Rows :
           /\ n.id = d.seq + 1
           /\ n.agent = o.agent /\ n.signal = o.signal
           /\ n.at = Truncate(o.observedAt) /\ n.value = o.value
           /\ e.rows = d.rows \cup {n}
           /\ e.seq = d.seq + 1
           /\ e.agents = d.agents
           /\ e.fts = d.fts
    BY <1>2, AppendedRow
  <2>2. /\ \A r \in d.rows : r \in Rows /\ r.id \in Nat /\ r.at \in Nat /\ r.id <= d.seq
        /\ d.seq \in Nat /\ n.at \in Nat
    BY DEF Databases, Rows, Consistent, RowsOrdered
  <2>3. \A r \in d.rows : r.agent = n.agent /\ r.signal = n.signal => r.at # n.at
    BY <1>2, <2>1 DEF Conflicts
  <2>4. RowsDistinct(e)
    <3>1. \A r \in d.rows : /\ r.id # n.id
                            /\ <<r.agent, r.signal, r.at>> # <<n.agent, n.signal, n.at>>
      BY <2>1, <2>2, <2>3
    <3>. QED
      BY <2>1, <3>1 DEF Consistent, RowsDistinct
  <2>5. NoOrphanRow(e) /\ IndexInLockstep(e)
    BY <2>1 DEF Consistent, NoOrphanRow, IndexInLockstep
  <2>6. RowsOrdered(e)
    <3>1. \A r \in e.rows : r.id <= e.seq
      BY <2>1, <2>2
    <3>2. ASSUME NEW r \in e.rows
          PROVE  \E t \in e.rows : /\ t.agent = r.agent /\ t.signal = r.signal
                                   /\ IsLatest(e.rows, t)
      <4>1. CASE ~ (r.agent = n.agent /\ r.signal = n.signal)
        <5>1. r \in d.rows
          BY <2>1, <4>1
        <5>2. PICK t \in d.rows : /\ t.agent = r.agent /\ t.signal = r.signal
                                  /\ IsLatest(d.rows, t)
          BY <5>1 DEF Consistent, RowsOrdered
        <5>. QED
          BY <2>1, <4>1, <5>2 DEF IsLatest, PairRows
      <4>2. CASE /\ r.agent = n.agent /\ r.signal = n.signal
                 /\ \A q \in PairRows(d.rows, n.agent, n.signal) : q.at < n.at
        BY <2>1, <4>2 DEF IsLatest, PairRows, Before
      <4>3. CASE /\ r.agent = n.agent /\ r.signal = n.signal
                 /\ \E q \in PairRows(d.rows, n.agent, n.signal) : ~ (q.at < n.at)
        <5>1. PICK q \in d.rows : /\ q.agent = n.agent /\ q.signal = n.signal
                                  /\ q.at > n.at
          BY <2>2, <2>3, <4>3 DEF PairRows
        <5>2. PICK t \in d.rows : /\ t.agent = n.agent /\ t.signal = n.signal
                                  /\ IsLatest(d.rows, t)
          BY <5>1 DEF Consistent, RowsOrdered
        <5>3. t.at >= q.at
          BY <2>2, <5>1, <5>2 DEF IsLatest, PairRows, Before
        <5>4. Before(t, n)
          BY <2>2, <5>1, <5>3 DEF Before
        <5>. QED
          BY <2>1, <4>3, <5>2, <5>4 DEF IsLatest, PairRows
      <4>. QED
        BY <4>1, <4>2, <4>3
    <3>. QED
      BY <3>1, <3>2 DEF RowsOrdered
  <2>. QED
    BY <2>4, <2>5, <2>6 DEF Consistent
<1>. QED
  BY <1>1, <1>2

\* Retention keeps the row the engine reads.
LEMMA LatestRetained ==
  ASSUME NEW d \in Databases, Consistent(d), NEW keep \in 1 .. MaxRowId,
         NEW t \in d.rows, IsLatest(d.rows, t)
  PROVE  t \in Retained(d.rows, keep)
<1>1. {q \in PairRows(d.rows, t.agent, t.signal) : Before(q, t)} = {}
  <2>1. \A q \in d.rows : q.id \in Nat /\ q.at \in Nat
    BY DEF Databases, Rows
  <2>. QED
    BY <2>1 DEF IsLatest, PairRows, Before
<1>2. Cardinality({}) = 0 /\ 0 < keep
  BY FS_EmptySet
<1>. QED
  BY <1>1, <1>2 DEF Retained

\* PruneObservations keeps the database consistent.
LEMMA RetainedConsistent ==
  ASSUME NEW d \in Databases, Consistent(d), NEW keep \in 1 .. MaxRowId
  PROVE  Consistent([d EXCEPT !.rows = Retained(@, keep)])
<1>. DEFINE e == [d EXCEPT !.rows = Retained(@, keep)]
<1>1. /\ e.rows = Retained(d.rows, keep) /\ e.seq = d.seq
      /\ e.agents = d.agents /\ e.fts = d.fts
  BY DEF Databases
<1>2. e.rows \subseteq d.rows
  BY <1>1 DEF Retained
<1>3. RowsDistinct(e) /\ NoOrphanRow(e) /\ IndexInLockstep(e)
  BY <1>1, <1>2 DEF Consistent, RowsDistinct, NoOrphanRow, IndexInLockstep
<1>4. RowsOrdered(e)
  <2>1. \A r \in e.rows : r.id <= e.seq
    BY <1>1, <1>2 DEF Consistent, RowsOrdered
  <2>2. ASSUME NEW r \in e.rows
        PROVE  \E t \in e.rows : /\ t.agent = r.agent /\ t.signal = r.signal
                                 /\ IsLatest(e.rows, t)
    <3>1. PICK t \in d.rows : /\ t.agent = r.agent /\ t.signal = r.signal
                              /\ IsLatest(d.rows, t)
      BY <1>2 DEF Consistent, RowsOrdered
    <3>2. t \in e.rows
      BY <1>1, <3>1, LatestRetained
    <3>. QED
      BY <1>2, <3>1, <3>2 DEF IsLatest, PairRows
  <2>. QED
    BY <2>1, <2>2 DEF RowsOrdered
<1>. QED
  BY <1>3, <1>4 DEF Consistent

(***************************************************************************)
(* The committed database and a transaction's copy are consistent.         *)
(***************************************************************************)
THEOREM ConsistentInvariant == Spec => []DatabaseConsistent
<1>1. Init => DatabaseConsistent
  <2>1. Consistent(EmptyDatabase)
    BY StoreConstants DEF Consistent, EmptyDatabase, RowsDistinct, NoOrphanRow,
                          IndexInLockstep, RowsOrdered, Upserts
  <2>. QED
    BY <2>1 DEF Init, DatabaseConsistent
<1>2. TypeOK /\ DatabaseConsistent /\ [Next]_vars => DatabaseConsistent'
  <2> SUFFICES ASSUME TypeOK, DatabaseConsistent, [Next]_vars
               PROVE  DatabaseConsistent'
    OBVIOUS
  <2> USE DEF DatabaseConsistent
  <2>1. CASE BeginUpsertAgents
    BY <2>1 DEF BeginUpsertAgents, Begin
  <2>2. CASE BeginAppendObservations
    BY <2>2 DEF BeginAppendObservations, Begin
  <2>3. CASE UpsertNext
    <3>1. /\ tx \in [kind : {"agents"}, batch : Batches(Upserts), done : Nat, work : Databases]
          /\ tx # NoTx
          /\ tx.done + 1 \in DOMAIN tx.batch
      BY <2>3 DEF UpsertNext, RowLeft, TypeOK, Transactions
    <3>2. Consistent(UpsertRow(tx.work, tx.batch[tx.done + 1]))
      BY <3>1, BatchElement, UpsertRowConsistent
    <3>3. tx'.work = UpsertRow(tx.work, tx.batch[tx.done + 1])
      BY <2>3, <3>1 DEF UpsertNext
    <3>. QED
      BY <2>3, <3>2, <3>3 DEF UpsertNext
  <2>4. CASE AppendNext
    <3>1. /\ tx \in [kind : {"observations"}, batch : Batches(Observations), done : Nat,
                     work : Databases]
          /\ tx # NoTx
          /\ tx.done + 1 \in DOMAIN tx.batch
          /\ tx.work.agents[tx.batch[tx.done + 1].agent] # NoAgent
      BY <2>4 DEF AppendNext, RowLeft, TypeOK, Transactions
    <3>2. Consistent(AppendRow(tx.work, tx.batch[tx.done + 1]))
      BY <3>1, BatchElement, AppendRowConsistent
    <3>3. tx'.work = AppendRow(tx.work, tx.batch[tx.done + 1])
      BY <2>4, <3>1 DEF AppendNext
    <3>. QED
      BY <2>4, <3>2, <3>3 DEF AppendNext
  <2>5. CASE Commit
    BY <2>5 DEF Commit
  <2>6. CASE Rollback
    BY <2>6 DEF Rollback
  <2>7. CASE PruneObservations
    BY <2>7, RetainedConsistent DEF PruneObservations, TypeOK
  <2>8. CASE UNCHANGED vars
    BY <2>8 DEF vars
  <2>. QED
    BY <2>1, <2>2, <2>3, <2>4, <2>5, <2>6, <2>7, <2>8 DEF Next
<1>. QED
  BY <1>1, <1>2, TypeOKInvariant, PTL DEF Spec

(***************************************************************************)
(* What LatestObservation returns, and how each write changes it.          *)
(***************************************************************************)

\* LatestObservation reports the row that all others of its pair come after.
LEMMA LatestOfRow ==
  ASSUME NEW d \in Databases, NEW t \in d.rows, IsLatest(d.rows, t)
  PROVE  LatestObservation(d.rows, t.agent, t.signal) = [at |-> t.at, value |-> t.value]
<1>. DEFINE tops == {r \in PairRows(d.rows, t.agent, t.signal) : IsLatest(d.rows, r)}
<1>1. \A r \in d.rows : r.id \in Nat /\ r.at \in Nat
  BY DEF Databases, Rows
<1>2. tops = {t}
  BY <1>1 DEF IsLatest, PairRows, Before
<1>. QED
  BY <1>2 DEF LatestObservation

\* LatestObservation reports nil for a pair without rows.
LEMMA LatestOfNone ==
  ASSUME NEW rows, NEW a, NEW s, PairRows(rows, a, s) = {}
  PROVE  LatestObservation(rows, a, s) = NoObservation
  BY DEF LatestObservation

\* Of a consistent database: the pair has no row and no answer, or it has a
\* latest row and that is the answer.
LEMMA LatestCases ==
  ASSUME NEW d \in Databases, Consistent(d), NEW p \in Pairs
  PROVE  \/ /\ PairRows(d.rows, p[1], p[2]) = {}
            /\ Latest(d, p) = NoObservation
         \/ \E t \in d.rows : /\ t.agent = p[1] /\ t.signal = p[2]
                              /\ IsLatest(d.rows, t)
                              /\ Latest(d, p) = [at |-> t.at, value |-> t.value]
                              /\ Latest(d, p) \in Readings
<1>1. CASE PairRows(d.rows, p[1], p[2]) = {}
  BY <1>1, LatestOfNone DEF Latest
<1>2. CASE PairRows(d.rows, p[1], p[2]) # {}
  <2>1. PICK r \in d.rows : r.agent = p[1] /\ r.signal = p[2]
    BY <1>2 DEF PairRows
  <2>2. PICK t \in d.rows : /\ t.agent = p[1] /\ t.signal = p[2]
                            /\ IsLatest(d.rows, t)
    BY <2>1 DEF Consistent, RowsOrdered
  <2>3. Latest(d, p) = [at |-> t.at, value |-> t.value]
    BY <2>2, LatestOfRow DEF Latest
  <2>4. t.at \in Nat /\ t.value \in Values
    BY DEF Databases, Rows
  <2>. QED
    BY <2>2, <2>3, <2>4 DEF Readings
<1>. QED
  BY <1>1, <1>2

\* LatestObservation reports a reading or nil.
LEMMA LatestType ==
  ASSUME NEW d \in Databases, Consistent(d), NEW p \in Pairs
  PROVE  Latest(d, p) \in Readings \cup {NoObservation}
  BY LatestCases

\* The pair of an observation is a pair.
LEMMA PairType ==
  ASSUME NEW o \in Observations
  PROVE  /\ PairOf(o) \in Pairs /\ PairOf(o)[1] = o.agent /\ PairOf(o)[2] = o.signal
         /\ Reading(o) \in Readings /\ Reading(o) # NoObservation
         /\ Reading(o).at = Truncate(o.observedAt) /\ Reading(o).at \in Nat
  BY TruncateIsNat, NoObservationIsNoReading
  DEF Observations, PairOf, Pairs, Reading, Readings

\* One appended row concerns its own pair only, and there the newer of the
\* row and the previous answer is read afterwards, the previous one on a tie.
LEMMA AppendRowLatest ==
  ASSUME NEW d \in Databases, Consistent(d), NEW o \in Observations,
         d.agents[o.agent] # NoAgent
  PROVE  /\ \A p \in Pairs : p # PairOf(o) => Latest(AppendRow(d, o), p) = Latest(d, p)
         /\ AsNew(Latest(AppendRow(d, o), PairOf(o)), Reading(o))
         /\ \/ Latest(AppendRow(d, o), PairOf(o)) = Latest(d, PairOf(o))
            \/ /\ Latest(AppendRow(d, o), PairOf(o)) = Reading(o)
               /\ NewerReading(Reading(o), Latest(d, PairOf(o)))
<1>. DEFINE e == AppendRow(d, o)
            p == PairOf(o)
<1>0. /\ p \in Pairs /\ p[1] = o.agent /\ p[2] = o.signal
      /\ Reading(o) # NoObservation
      /\ Reading(o) = [at |-> Truncate(o.observedAt), value |-> o.value]
  BY PairType DEF Reading
<1>1. \A r \in d.rows : r.id \in Nat /\ r.at \in Nat
  BY DEF Databases, Rows
<1>2. CASE Conflicts(d, o)
  <2>1. e = d
    BY <1>2 DEF AppendRow
  <2>2. PICK r \in d.rows : /\ r.agent = p[1] /\ r.signal = p[2]
                            /\ r.at = Truncate(o.observedAt)
    BY <1>0, <1>2 DEF Conflicts
  <2>3. PICK t \in d.rows : /\ t.agent = p[1] /\ t.signal = p[2]
                            /\ IsLatest(d.rows, t)
                            /\ Latest(d, p) = [at |-> t.at, value |-> t.value]
                            /\ Latest(d, p) \in Readings
    BY <1>0, <2>2, LatestCases DEF PairRows
  <2>4. t.at >= r.at
    BY <1>1, <2>2, <2>3 DEF IsLatest, PairRows, Before
  <2>5. AsNew(Latest(d, p), Reading(o))
    BY <1>0, <2>2, <2>3, <2>4, NoObservationIsNoReading DEF AsNew
  <2>. QED
    BY <2>1, <2>5
<1>3. CASE ~ Conflicts(d, o)
  <2>1. PICK n \in Rows :
           /\ n.id = d.seq + 1
           /\ n.agent = o.agent /\ n.signal = o.signal
           /\ n.at = Truncate(o.observedAt) /\ n.value = o.value
           /\ e.rows = d.rows \cup {n}
           /\ e.seq = d.seq + 1
           /\ e.agents = d.agents
           /\ e.fts = d.fts
    BY <1>3, AppendedRow
  <2>2. Consistent(e) /\ e \in Databases
    BY AppendRowConsistent, AppendRowType
  <2>3. n.at \in Nat /\ Reading(o) = [at |-> n.at, value |-> n.value]
    BY <1>0, <2>1 DEF Rows
  <2>4. \A r \in d.rows : r.agent = p[1] /\ r.signal = p[2] => r.at # n.at
    BY <1>0, <1>3, <2>1 DEF Conflicts
  <2>5. ASSUME NEW x \in Pairs, x # p
        PROVE  Latest(e, x) = Latest(d, x)
    <3>1. x = <<x[1], x[2]>> /\ p = <<o.agent, o.signal>>
      BY DEF Pairs, PairOf
    <3>2. PairRows(e.rows, x[1], x[2]) = PairRows(d.rows, x[1], x[2])
      BY <2>1, <2>5, <3>1 DEF PairRows
    <3>3. \A r \in PairRows(d.rows, x[1], x[2]) : IsLatest(e.rows, r) <=> IsLatest(d.rows, r)
      <4>. TAKE r \in PairRows(d.rows, x[1], x[2])
      <4>1. r \in d.rows /\ r \in e.rows /\ r.agent = x[1] /\ r.signal = x[2]
        BY <2>1 DEF PairRows
      <4>. QED
        BY <3>2, <4>1 DEF IsLatest
    <3>. QED
      BY <3>2, <3>3 DEF Latest, LatestObservation
  <2>6. CASE \A q \in PairRows(d.rows, p[1], p[2]) : q.at < n.at
    <3>1. IsLatest(e.rows, n)
      BY <1>0, <2>1, <2>6 DEF IsLatest, PairRows, Before
    <3>2. Latest(e, p) = Reading(o)
      <4>1. n \in e.rows
        BY <2>1
      <4>2. LatestObservation(e.rows, n.agent, n.signal) = [at |-> n.at, value |-> n.value]
        BY <2>2, <3>1, <4>1, LatestOfRow
      <4>. QED
        BY <1>0, <2>1, <2>3, <4>2 DEF Latest
    <3>3. NewerReading(Reading(o), Latest(d, p))
      <4>1. CASE Latest(d, p) = NoObservation
        BY <1>0, <4>1 DEF NewerReading
      <4>2. CASE Latest(d, p) # NoObservation
        <5>1. PICK t \in d.rows : /\ t.agent = p[1] /\ t.signal = p[2]
                                  /\ Latest(d, p) = [at |-> t.at, value |-> t.value]
          BY <1>0, <4>2, LatestCases
        <5>2. t.at < n.at
          BY <2>6, <5>1 DEF PairRows
        <5>. QED
          BY <1>0, <1>1, <2>3, <5>1, <5>2 DEF NewerReading
      <4>. QED
        BY <4>1, <4>2
    <3>4. AsNew(Latest(e, p), Reading(o))
      BY <1>0, <2>3, <3>2 DEF AsNew
    <3>. QED
      BY <2>5, <3>2, <3>3, <3>4
  <2>7. CASE ~ \A q \in PairRows(d.rows, p[1], p[2]) : q.at < n.at
    <3>1. PICK q \in d.rows : q.agent = p[1] /\ q.signal = p[2] /\ q.at > n.at
      BY <1>1, <2>3, <2>4, <2>7 DEF PairRows
    <3>2. PICK t \in d.rows : /\ t.agent = p[1] /\ t.signal = p[2]
                              /\ IsLatest(d.rows, t)
                              /\ Latest(d, p) = [at |-> t.at, value |-> t.value]
                              /\ Latest(d, p) \in Readings
      BY <1>0, <3>1, LatestCases DEF PairRows
    <3>3. t.at >= q.at
      BY <1>1, <3>1, <3>2 DEF IsLatest, PairRows, Before
    <3>4. t.at > n.at
      BY <1>1, <2>3, <3>1, <3>3
    <3>5. IsLatest(e.rows, t)
      BY <1>0, <2>1, <3>2, <3>4 DEF IsLatest, PairRows, Before
    <3>6. Latest(e, p) = Latest(d, p)
      BY <2>1, <2>2, <3>2, <3>5, LatestOfRow DEF Latest
    <3>7. AsNew(Latest(e, p), Reading(o))
      BY <1>0, <1>1, <2>3, <3>2, <3>4, <3>6, NoObservationIsNoReading DEF AsNew
    <3>. QED
      BY <2>5, <3>6, <3>7
  <2>. QED
    BY <2>6, <2>7
<1>. QED
  BY <1>2, <1>3

\* Retention changes no answer.
LEMMA RetainedLatest ==
  ASSUME NEW d \in Databases, Consistent(d), NEW keep \in 1 .. MaxRowId, NEW p \in Pairs
  PROVE  Latest([d EXCEPT !.rows = Retained(@, keep)], p) = Latest(d, p)
<1>. DEFINE e == [d EXCEPT !.rows = Retained(@, keep)]
<1>1. e.rows = Retained(d.rows, keep) /\ e \in Databases /\ e.rows \subseteq d.rows
  BY DEF Databases, Retained
<1>2. CASE PairRows(d.rows, p[1], p[2]) = {}
  <2>1. PairRows(e.rows, p[1], p[2]) = {}
    BY <1>1, <1>2 DEF PairRows
  <2>. QED
    BY <1>2, <2>1, LatestOfNone DEF Latest
<1>3. CASE PairRows(d.rows, p[1], p[2]) # {}
  <2>1. PICK t \in d.rows : /\ t.agent = p[1] /\ t.signal = p[2]
                            /\ IsLatest(d.rows, t)
                            /\ Latest(d, p) = [at |-> t.at, value |-> t.value]
    BY <1>3, LatestCases
  <2>2. t \in e.rows
    BY <1>1, <2>1, LatestRetained
  <2>3. IsLatest(e.rows, t)
    BY <1>1, <2>1, <2>2 DEF IsLatest, PairRows
  <2>. QED
    BY <1>1, <2>1, <2>2, <2>3, LatestOfRow DEF Latest
<1>. QED
  BY <1>2, <1>3

(***************************************************************************)
(* A transaction's copy is the committed database plus the rows written.   *)
(***************************************************************************)

\* What a reader is told depends on the rows alone.
LEMMA LatestOfSameRows ==
  ASSUME NEW d, NEW e, d.rows = e.rows, NEW p
  PROVE  Latest(d, p) = Latest(e, p)
  BY DEF Latest

\* One more upsert keeps an open UpsertAgents faithful to its batch.
LEMMA UpsertNextFaithful ==
  ASSUME TypeOK, DatabaseConsistent, TransactionFaithful, UpsertNext
  PROVE  TransactionFaithful'
<1>. DEFINE i == tx.done + 1
            u == tx.batch[i]
<1>1. /\ tx \in [kind : {"agents"}, batch : Batches(Upserts), done : Nat, work : Databases]
      /\ tx # NoTx /\ db \in Databases
      /\ i \in DOMAIN tx.batch
  BY DEF UpsertNext, RowLeft, TypeOK, Transactions
<1>2. /\ tx'.kind = "agents" /\ tx'.batch = tx.batch /\ tx'.done = i
      /\ tx'.work = UpsertRow(tx.work, u) /\ db' = db
  BY <1>1 DEF UpsertNext
<1>3. u \in Upserts
  BY <1>1, BatchElement
<1>4. \A k \in DOMAIN tx.batch : k \in Nat
  BY <1>1 DEF Batches
<1>5. Written' = Written \cup {i} /\ \A k \in Written : k <= i
  BY <1>1, <1>2, <1>4 DEF Written
<1>6. /\ tx'.work.rows = tx.work.rows
      /\ \A a \in AgentIds :
           tx'.work.agents[a] = IF a = u.agent THEN u.record ELSE tx.work.agents[a]
  <2>1. tx.work.agents \in [AgentIds -> AgentRecords \cup {NoAgent}]
    BY <1>1 DEF Databases
  <2>2. /\ UpsertRow(tx.work, u).rows = tx.work.rows
        /\ UpsertRow(tx.work, u).agents = [tx.work.agents EXCEPT ![u.agent] = u.record]
    BY <1>1, <1>3, UpsertRowFields
  <2>. QED
    BY <1>2, <2>1, <2>2
<1>7. AgentsFaithful
  BY <1>1 DEF TransactionFaithful
<1>8. ASSUME NEW a \in AgentIds
      PROVE  \/ /\ \A j \in Written' : tx'.batch[j].agent # a
                /\ tx'.work.agents[a] = db'.agents[a]
             \/ \E j \in Written' :
                  /\ tx'.batch[j].agent = a /\ tx'.work.agents[a] = tx'.batch[j].record
                  /\ \A k \in Written' : tx'.batch[k].agent = a => k <= j
  <2>1. CASE u.agent = a
    <3>1. tx'.batch[i].agent = a /\ tx'.work.agents[a] = tx'.batch[i].record /\ i \in Written'
      BY <1>2, <1>5, <1>6, <2>1
    <3>2. \A k \in Written' : k <= i
      BY <1>1, <1>5
    <3>. QED
      BY <3>1, <3>2
  <2>2. CASE u.agent # a
    BY <1>2, <1>5, <1>6, <1>7, <2>2 DEF AgentsFaithful
  <2>. QED
    BY <2>1, <2>2
<1>9. AgentsFaithful'
  BY <1>2, <1>6, <1>7, <1>8 DEF AgentsFaithful
<1>. QED
  BY <1>1, <1>2, <1>9 DEF TransactionFaithful

\* Being at least as new is transitive.
LEMMA AsNewTransitive ==
  ASSUME NEW r \in Readings \cup {NoObservation}, NEW s \in Readings \cup {NoObservation},
         NEW t \in Readings \cup {NoObservation},
         r = s \/ NewerReading(r, s)
  PROVE  /\ AsNew(s, t) => AsNew(r, t)
         /\ s = t \/ NewerReading(s, t) => r = t \/ NewerReading(r, t)
  BY NoObservationIsNoReading DEF AsNew, NewerReading, Readings

\* One more append keeps an open AppendObservations faithful to its batch.
LEMMA AppendNextFaithful ==
  ASSUME TypeOK, DatabaseConsistent, TransactionFaithful, AppendNext
  PROVE  TransactionFaithful'
<1>. DEFINE i == tx.done + 1
            o == tx.batch[i]
<1>1. /\ tx \in [kind : {"observations"}, batch : Batches(Observations), done : Nat,
                 work : Databases]
      /\ tx # NoTx /\ db \in Databases
      /\ i \in DOMAIN tx.batch
      /\ tx.work.agents[o.agent] # NoAgent
  BY DEF AppendNext, RowLeft, TypeOK, Transactions
<1>2. /\ tx'.kind = "observations" /\ tx'.batch = tx.batch /\ tx'.done = i
      /\ tx'.work = AppendRow(tx.work, o) /\ db' = db
  BY <1>1 DEF AppendNext
<1>3. o \in Observations /\ tx.work \in Databases /\ Consistent(tx.work) /\ Consistent(db)
  BY <1>1, BatchElement DEF DatabaseConsistent
<1>4. \A k \in DOMAIN tx.batch : k \in Nat /\ tx.batch[k] \in Observations
  BY <1>1, BatchElement DEF Batches
<1>5. Written' = Written \cup {i} /\ Written \subseteq DOMAIN tx.batch
  BY <1>1, <1>2, <1>4 DEF Written
<1>6. ObservationsFaithful
  BY <1>1 DEF TransactionFaithful
<1>7. tx'.work.agents = tx.work.agents
  BY <1>2, <1>3 DEF AppendRow, Databases
<1>8. tx'.work \in Databases /\ Consistent(tx'.work)
  BY <1>1, <1>2, <1>3, AppendRowType, AppendRowConsistent
<1>9. \A p \in Pairs : /\ Latest(db, p) \in Readings \cup {NoObservation}
                       /\ Latest(tx.work, p) \in Readings \cup {NoObservation}
                       /\ Latest(tx'.work, p) \in Readings \cup {NoObservation}
  BY <1>1, <1>3, <1>8, LatestType
<1>10. /\ \A p \in Pairs : p # PairOf(o) => Latest(tx'.work, p) = Latest(tx.work, p)
       /\ AsNew(Latest(tx'.work, PairOf(o)), Reading(o))
       /\ \/ Latest(tx'.work, PairOf(o)) = Latest(tx.work, PairOf(o))
          \/ /\ Latest(tx'.work, PairOf(o)) = Reading(o)
             /\ NewerReading(Reading(o), Latest(tx.work, PairOf(o)))
  BY <1>1, <1>2, <1>3, AppendRowLatest
<1>11. \A p \in Pairs : \/ Latest(tx'.work, p) = Latest(tx.work, p)
                        \/ NewerReading(Latest(tx'.work, p), Latest(tx.work, p))
  BY <1>10
<1>12. ASSUME NEW k \in Written'
       PROVE  /\ db'.agents[tx'.batch[k].agent] # NoAgent
              /\ AsNew(Latest(tx'.work, PairOf(tx'.batch[k])), Reading(tx'.batch[k]))
  <2>1. CASE k = i
    BY <1>1, <1>2, <1>6, <1>10, <2>1 DEF ObservationsFaithful
  <2>2. CASE k \in Written
    <3>. DEFINE p == PairOf(tx.batch[k])
    <3>1. /\ db.agents[tx.batch[k].agent] # NoAgent
          /\ AsNew(Latest(tx.work, p), Reading(tx.batch[k]))
      BY <1>6, <2>2 DEF ObservationsFaithful
    <3>2. p \in Pairs /\ Reading(tx.batch[k]) \in Readings
      BY <1>4, <1>5, <2>2, PairType
    <3>3. AsNew(Latest(tx'.work, p), Reading(tx.batch[k]))
      BY <1>9, <1>11, <3>1, <3>2, AsNewTransitive
    <3>. QED
      BY <1>2, <3>1, <3>3
  <2>. QED
    BY <1>5, <2>1, <2>2
<1>13. ASSUME NEW p \in Pairs
       PROVE  \/ Latest(tx'.work, p) = Latest(db', p)
              \/ /\ NewerReading(Latest(tx'.work, p), Latest(db', p))
                 /\ \E k \in Written' : /\ PairOf(tx'.batch[k]) = p
                                        /\ Latest(tx'.work, p) = Reading(tx'.batch[k])
  <2>1. CASE Latest(tx'.work, p) = Latest(tx.work, p)
    BY <1>2, <1>5, <1>6, <2>1 DEF ObservationsFaithful
  <2>2. CASE Latest(tx'.work, p) # Latest(tx.work, p)
    <3>1. /\ p = PairOf(o) /\ Latest(tx'.work, p) = Reading(o)
          /\ NewerReading(Latest(tx'.work, p), Latest(tx.work, p))
      BY <1>10, <2>2
    <3>2. Latest(tx.work, p) = Latest(db, p) \/ NewerReading(Latest(tx.work, p), Latest(db, p))
      BY <1>6 DEF ObservationsFaithful
    <3>3. Latest(tx'.work, p) = Latest(db, p) \/ NewerReading(Latest(tx'.work, p), Latest(db, p))
      BY <1>9, <3>1, <3>2, AsNewTransitive
    <3>. QED
      BY <1>2, <1>5, <3>1, <3>3
  <2>. QED
    BY <2>1, <2>2
<1>14. ObservationsFaithful'
  BY <1>2, <1>6, <1>7, <1>12, <1>13 DEF ObservationsFaithful
<1>. QED
  BY <1>1, <1>2, <1>14 DEF TransactionFaithful

\* A transaction that has written nothing is faithful to any batch.
LEMMA BeginFaithful ==
  ASSUME TypeOK, NEW kind \in {"agents", "observations"}, NEW S, NEW batch \in Batches(S),
         Begin(kind, batch)
  PROVE  TransactionFaithful'
<1>1. /\ tx'.kind = kind /\ tx'.batch = batch /\ tx'.done = 0 /\ tx'.work = db /\ db' = db
  BY DEF Begin
<1>2. Written' = {}
  BY <1>1 DEF Written, Batches
<1>. QED
  BY <1>1, <1>2 DEF TransactionFaithful, AgentsFaithful, ObservationsFaithful

\* At every statement of UpsertAgents and AppendObservations the copy under
\* construction is the committed database with the rows written so far applied,
\* for every batch, retention and interleaving.
THEOREM FaithfulInvariant == Spec => []TransactionFaithful
<1>1. Init => TransactionFaithful
  BY DEF Init, TransactionFaithful
<1>2. TypeOK /\ DatabaseConsistent /\ TransactionFaithful /\ [Next]_vars
        => TransactionFaithful'
  <2> SUFFICES ASSUME TypeOK, DatabaseConsistent, TransactionFaithful, [Next]_vars
               PROVE  TransactionFaithful'
    OBVIOUS
  <2>1. CASE BeginUpsertAgents
    BY <2>1, BeginFaithful DEF BeginUpsertAgents
  <2>2. CASE BeginAppendObservations
    BY <2>2, BeginFaithful DEF BeginAppendObservations
  <2>3. CASE UpsertNext
    BY <2>3, UpsertNextFaithful
  <2>4. CASE AppendNext
    BY <2>4, AppendNextFaithful
  <2>5. CASE Commit
    BY <2>5 DEF Commit, TransactionFaithful
  <2>6. CASE Rollback
    BY <2>6 DEF Rollback, TransactionFaithful
  <2>7. CASE PruneObservations
    BY <2>7 DEF PruneObservations, TransactionFaithful
  <2>8. CASE UNCHANGED vars
    BY <2>8 DEF vars, TransactionFaithful, AgentsFaithful, ObservationsFaithful, Written
  <2>. QED
    BY <2>1, <2>2, <2>3, <2>4, <2>5, <2>6, <2>7, <2>8 DEF Next
<1>. QED
  BY <1>1, <1>2, TypeOKInvariant, ConsistentInvariant, PTL DEF Spec

(***************************************************************************)
(* No step takes an answer back.                                           *)
(***************************************************************************)

\* The commit of an open transaction moves what a reader is told of a pair
\* forward in time or not at all.
LEMMA CommittedLatest ==
  ASSUME TypeOK, TransactionFaithful, Commit, NEW p \in Pairs
  PROVE  Latest(db', p) = Latest(db, p) \/ NewerReading(Latest(db', p), Latest(db, p))
<1>1. tx # NoTx /\ db' = tx.work /\ tx.kind \in {"agents", "observations"}
  BY DEF Commit, TypeOK, Transactions
<1>2. CASE tx.kind = "agents"
  <2>1. db'.rows = db.rows
    BY <1>1, <1>2 DEF TransactionFaithful, AgentsFaithful
  <2>. QED
    BY <2>1, LatestOfSameRows
<1>3. CASE tx.kind = "observations"
  BY <1>1, <1>3 DEF TransactionFaithful, ObservationsFaithful
<1>. QED
  BY <1>1, <1>2, <1>3

\* No late append, retry, retention pass or rollback moves LatestObservation
\* back in time or makes it forget a pair.
THEOREM LatestNeverRegressesTheorem == Spec => LatestNeverRegresses
<1>1. TypeOK /\ DatabaseConsistent /\ TransactionFaithful /\ [Next]_vars
        => [\A p \in Pairs : \/ Latest(db', p) = Latest(db, p)
                             \/ NewerReading(Latest(db', p), Latest(db, p))]_vars
  <2> SUFFICES ASSUME TypeOK, DatabaseConsistent, TransactionFaithful, Next, NEW p \in Pairs
               PROVE  \/ Latest(db', p) = Latest(db, p)
                      \/ NewerReading(Latest(db', p), Latest(db, p))
    OBVIOUS
  <2>1. CASE db' = db
    BY <2>1
  <2>2. CASE Commit
    BY <2>2, CommittedLatest
  <2>3. CASE PruneObservations
    BY <2>3, RetainedLatest DEF PruneObservations, TypeOK, DatabaseConsistent
  <2>. QED
    BY <2>1, <2>2, <2>3 DEF Next, BeginUpsertAgents, BeginAppendObservations, Begin,
                            UpsertNext, AppendNext, Rollback
<1>. QED
  BY <1>1, TypeOKInvariant, ConsistentInvariant, FaithfulInvariant, PTL
  DEF Spec, LatestNeverRegresses

(***************************************************************************)
(* The adapter implements the contract of port.AgentStore.                 *)
(***************************************************************************)

\* Committing UpsertAgents is the one step in which the port takes the batch.
LEMMA CommittedAgents ==
  ASSUME TypeOK, TransactionFaithful, Commit, tx.kind = "agents"
  PROVE  Promise!ImportAgents(tx.batch)
<1>1. /\ tx # NoTx /\ db' = tx.work
      /\ tx \in [kind : {"agents"}, batch : Batches(Upserts), done : Nat, work : Databases]
      /\ AgentsFaithful
  BY DEF Commit, TypeOK, Transactions, TransactionFaithful
<1>2. Written = DOMAIN tx.batch
  <2>1. PICK n \in 1 .. MaxBatch : tx.batch \in [1 .. n -> Upserts]
    BY <1>1 DEF Batches
  <2>2. tx.done + 1 \notin 1 .. n /\ (tx.done = 0 \/ tx.done \in 1 .. n)
    BY <2>1 DEF Commit, TransactionFaithful
  <2>. QED
    BY <1>1, <2>1, <2>2, StoreConstants DEF Written
<1>3. db'.agents \in [AgentIds -> AgentRecords \cup {NoAgent}]
  BY <1>1 DEF Databases
<1>4. [p \in Pairs |-> Latest(db, p)]' = [p \in Pairs |-> Latest(db, p)]
  <2>1. \A p \in Pairs : Latest(db', p) = Latest(db, p)
    BY <1>1, LatestOfSameRows DEF AgentsFaithful
  <2>. QED
    BY <2>1
<1>5. ASSUME NEW a \in AgentIds
      PROVE  \/ /\ \A i \in DOMAIN tx.batch : tx.batch[i].agent # a
                /\ db'.agents[a] = db.agents[a]
             \/ \E i \in DOMAIN tx.batch : /\ LastUpsert(tx.batch, a, i)
                                           /\ db'.agents[a] = tx.batch[i].record
  BY <1>1, <1>2 DEF AgentsFaithful, LastUpsert
<1>. QED
  BY <1>3, <1>4, <1>5 DEF Promise!ImportAgents, Promise!Pairs, Pairs,
                          Promise!LastUpsert, LastUpsert

\* Committing AppendObservations is the one step in which the port takes it.
LEMMA CommittedObservations ==
  ASSUME TypeOK, DatabaseConsistent, TransactionFaithful, Commit, tx.kind = "observations"
  PROVE  Promise!ImportObservations(tx.batch)
<1>1. /\ tx # NoTx /\ db' = tx.work /\ db' \in Databases /\ Consistent(db')
      /\ tx \in [kind : {"observations"}, batch : Batches(Observations), done : Nat,
                 work : Databases]
      /\ ObservationsFaithful
  BY DEF Commit, TypeOK, Transactions, TransactionFaithful, DatabaseConsistent
<1>2. Written = DOMAIN tx.batch
  <2>1. PICK n \in 1 .. MaxBatch : tx.batch \in [1 .. n -> Observations]
    BY <1>1 DEF Batches
  <2>2. tx.done + 1 \notin 1 .. n /\ (tx.done = 0 \/ tx.done \in 1 .. n)
    BY <2>1 DEF Commit, TransactionFaithful
  <2>. QED
    BY <1>1, <2>1, <2>2, StoreConstants DEF Written
<1>. DEFINE L == [p \in Pairs |-> Latest(db, p)]
            M == [p \in Pairs |-> Latest(db', p)]
<1>4. \A i \in DOMAIN tx.batch :
        /\ db.agents[tx.batch[i].agent] # NoAgent
        /\ AsNew(Latest(db', PairOf(tx.batch[i])), Reading(tx.batch[i]))
  BY <1>1, <1>2 DEF ObservationsFaithful
<1>5. ASSUME NEW p \in Pairs
      PROVE  /\ \A r \in ReadingsFor(tx.batch, p) : AsNew(M[p], r)
             /\ \/ M[p] = L[p]
                \/ M[p] \in ReadingsFor(tx.batch, p) /\ NewerReading(M[p], L[p])
  <2>1. \A r \in ReadingsFor(tx.batch, p) : AsNew(Latest(db', p), r)
    BY <1>4 DEF ReadingsFor
  <2>2. \/ Latest(db', p) = Latest(db, p)
        \/ /\ NewerReading(Latest(db', p), Latest(db, p))
           /\ Latest(db', p) \in ReadingsFor(tx.batch, p)
    BY <1>1, <1>2 DEF ObservationsFaithful, ReadingsFor
  <2>. QED
    BY <2>1, <2>2
<1>6. db'.agents = db.agents
  BY <1>1 DEF ObservationsFaithful
<1>7. ASSUME NEW p \in Pairs
      PROVE  M[p] \in {L[q] : q \in Pairs} \cup {Reading(tx.batch[i]) : i \in DOMAIN tx.batch}
  BY <1>5 DEF ReadingsFor
<1>. QED
  BY <1>4, <1>5, <1>6, <1>7
  DEF Promise!Answers, Promise!ImportObservations, Promise!Registered, Promise!Pairs, Pairs,
      Promise!Readings, Readings, Promise!ReadingsFor, ReadingsFor, Promise!AsNew, AsNew,
      Promise!NewerReading, NewerReading, Promise!Reading, Reading,
      Promise!Truncate, Truncate, Promise!PairOf, PairOf

\* The open call while a transaction is open, and that it is a call of the port.
LEMMA OpenCallOfTx ==
  ASSUME TypeOK, tx # NoTx
  PROVE  /\ OpenCall = [kind |-> tx.kind, batch |-> tx.batch]
         /\ OpenCall \in Calls /\ OpenCall # NoTx
<1>1. [kind |-> tx.kind, batch |-> tx.batch] \in Calls
  BY DEF TypeOK, Transactions, Calls
<1>. QED
  BY <1>1, NoTxIsNoTx DEF OpenCall

(***************************************************************************)
(* The refinement: the statement loops, retention and the sequence numbers *)
(* are invisible; a commit is the success of the whole call and a rollback *)
(* its failure, for every batch size and every number of rows.             *)
(***************************************************************************)
THEOREM ImplementsPromiseTheorem == Spec => ImplementsPromise
<1>1. Init => Promise!Init
  <2>1. \A p \in Pairs : Latest(EmptyDatabase, p) = NoObservation
    BY LatestOfNone DEF Latest, EmptyDatabase, PairRows
  <2>. QED
    BY <2>1 DEF Init, OpenCall, EmptyDatabase, Promise!Init, Promise!Pairs, Pairs
<1>2. TypeOK /\ DatabaseConsistent /\ TransactionFaithful /\ [Next]_vars
        /\ TypeOK'
        => [Promise!Next]_Promise!promiseVars
  <2> SUFFICES ASSUME TypeOK, DatabaseConsistent, TransactionFaithful, [Next]_vars, TypeOK'
               PROVE  Promise!Next \/ UNCHANGED Promise!promiseVars
    OBVIOUS
  <2>. DEFINE L == [p \in Pairs |-> Latest(db, p)]
  <2>1. CASE BeginUpsertAgents \/ BeginAppendObservations
    <3>1. tx = NoTx /\ db' = db /\ tx' # NoTx /\ tx' \in Transactions
      BY <2>1, BeginOpens
    <3>2. PICK c \in Calls : c = [kind |-> tx'.kind, batch |-> tx'.batch]
      BY <3>1 DEF Transactions, Calls
    <3>3. OpenCall = NoTx /\ OpenCall' = c /\ L' = L /\ db'.agents = db.agents
      BY <3>1, <3>2 DEF OpenCall, Latest
    <3>4. Promise!Call(c)
      BY <3>3 DEF Promise!Call
    <3>5. c \in Promise!Calls
      BY <3>2 DEF Promise!Calls, Calls, Promise!Batches, Batches,
                  Promise!Upserts, Upserts, Promise!Observations, Observations
    <3>. QED
      BY <3>4, <3>5 DEF Promise!Next
  <2>2. CASE UpsertNext \/ AppendNext
    <3>1. /\ tx # NoTx /\ tx' # NoTx /\ db' = db
          /\ tx'.kind = tx.kind /\ tx'.batch = tx.batch
      BY <2>2, StatementKeepsCall
    <3>2. OpenCall' = OpenCall /\ L' = L
      BY <3>1 DEF OpenCall, Latest
    <3>. QED
      BY <3>1, <3>2 DEF Promise!promiseVars
  <2>3. CASE Commit
    <3>1. tx # NoTx /\ tx.kind \in {"agents", "observations"} /\ tx' = NoTx
      BY <2>3 DEF Commit, TypeOK, Transactions
    <3>2. /\ OpenCall # NoTx /\ OpenCall' = NoTx
          /\ OpenCall.kind = tx.kind /\ OpenCall.batch = tx.batch
      BY <3>1, OpenCallOfTx DEF OpenCall
    <3>3. CASE tx.kind = "agents"
      BY <2>3, <3>2, <3>3, CommittedAgents DEF Promise!Next, Promise!Succeed
    <3>4. CASE tx.kind = "observations"
      BY <2>3, <3>2, <3>4, CommittedObservations DEF Promise!Next, Promise!Succeed
    <3>. QED
      BY <3>1, <3>3, <3>4
  <2>4. CASE Rollback
    <3>1. tx # NoTx /\ tx' = NoTx /\ db' = db
      BY <2>4 DEF Rollback
    <3>2. OpenCall # NoTx /\ OpenCall' = NoTx /\ L' = L
      BY <3>1, OpenCallOfTx DEF OpenCall, Latest
    <3>. QED
      BY <3>1, <3>2 DEF Promise!Next, Promise!Fail
  <2>5. CASE PruneObservations
    <3>1. db'.agents = db.agents /\ \A p \in Pairs : Latest(db', p) = Latest(db, p)
      BY <2>5, RetainedLatest DEF PruneObservations, TypeOK, DatabaseConsistent, Databases
    <3>2. OpenCall' = OpenCall
      BY <2>5 DEF PruneObservations, OpenCall
    <3>. QED
      BY <3>1, <3>2 DEF Promise!promiseVars
  <2>6. CASE UNCHANGED vars
    BY <2>6 DEF vars, Promise!promiseVars, Latest, OpenCall
  <2>. QED
    BY <2>1, <2>2, <2>3, <2>4, <2>5, <2>6 DEF Next
<1>. QED
  BY <1>1, <1>2, TypeOKInvariant, ConsistentInvariant, FaithfulInvariant, PTL
  DEF Spec, ImplementsPromise, Promise!Spec
=============================================================================
