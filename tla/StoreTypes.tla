----------------------------- MODULE StoreTypes -----------------------------
(***************************************************************************)
(* The values the persistence contract of internal/port/store.go speaks    *)
(* of, shared by the abstract StorePromise and the SQLite adapter's        *)
(* ObservationStore.                                                       *)
(***************************************************************************)
EXTENDS Naturals

CONSTANTS
  AgentIds,      \* domain.AgentID
  SignalIds,     \* domain.SignalID
  AgentRecords,  \* the rest of domain.Agent: name, tags, status, dates
  Values,        \* domain.SignalObservation.Value, raw JSON
  Instants,      \* producers' observedAt, finer than a second
  Second,        \* instants in a second
  MaxBatch,      \* bound: rows in one import batch
  NoAgent,       \* GetAgent's "not found"
  NoObservation  \* LatestObservation's nil

ASSUME StoreConstants ==
  /\ Instants \subseteq Nat
  /\ Second \in Nat \ {0}
  /\ MaxBatch \in Nat \ {0}
  /\ NoAgent \notin AgentRecords

Pairs == AgentIds \X SignalIds

Upserts == [agent : AgentIds, record : AgentRecords]
Observations ==
  [agent : AgentIds, signal : SignalIds, observedAt : Instants, value : Values]

\* Import batches: the services reject an empty one before the store sees it.
Batches(S) == UNION {[1 .. n -> S] : n \in 1 .. MaxBatch}

\* The two calls of port.AgentStore that write.
Calls ==
     [kind : {"agents"}, batch : Batches(Upserts)]
  \cup
     [kind : {"observations"}, batch : Batches(Observations)]

\* formatTime: producers' instants are stored truncated to the whole second.
Truncate(t) == t \div Second

\* What a reader is told of a pair: the stored second and the value.
Readings == [at : Nat, value : Values]
Reading(o) == [at |-> Truncate(o.observedAt), value |-> o.value]

ASSUME NoObservationIsNoReading == NoObservation \notin Readings

\* r is at least as new as s; "nothing recorded" is older than everything.
AsNew(r, s) == \/ s = NoObservation
               \/ NoObservation \notin {r, s} /\ r.at >= s.at

\* r is strictly newer than s.
NewerReading(r, s) == /\ r # NoObservation
                      /\ \/ s = NoObservation
                         \/ s # NoObservation /\ r.at > s.at

PairOf(o) == <<o.agent, o.signal>>

\* The readings of the pair p that a batch carries.
ReadingsFor(batch, p) ==
  {Reading(batch[i]) : i \in {j \in DOMAIN batch : PairOf(batch[j]) = p}}

\* i is the last upsert of the agent a in the batch, the one that stays.
LastUpsert(batch, a, i) ==
  /\ batch[i].agent = a
  /\ \A j \in DOMAIN batch : batch[j].agent = a => j <= i
=============================================================================
