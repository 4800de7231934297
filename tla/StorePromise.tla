---------------------------- MODULE StorePromise ----------------------------
(***************************************************************************)
(* What port.AgentStore (internal/port/store.go) promises the services     *)
(* above it, with the tables, row ids, transactions and retention of the   *)
(* SQLite adapter left out: an agent register and, per (agent, signal)     *)
(* pair, the newest observation.  One import is open at a time, and it     *)
(* takes effect as a whole, in one step, or not at all.  ObservationStore  *)
(* is shown to implement this module; TrustService is built on it.         *)
(***************************************************************************)
EXTENDS StoreTypes

CONSTANT NoCall  \* no import is open

VARIABLES
  agent,   \* agent[a]: the record GetAgent returns, or NoAgent
  latest,  \* latest[p]: what LatestObservation returns for the pair p
  call     \* the open UpsertAgents or AppendObservations call, or NoCall

promiseVars == <<agent, latest, call>>

ASSUME NoCallIsNoCall == NoCall \notin Calls

PromiseTypeOK ==
  /\ agent \in [AgentIds -> AgentRecords \cup {NoAgent}]
  /\ latest \in [Pairs -> Readings \cup {NoObservation}]
  /\ call \in Calls \cup {NoCall}

Init ==
  /\ agent = [a \in AgentIds |-> NoAgent]
  /\ latest = [p \in Pairs |-> NoObservation]
  /\ call = NoCall

Registered(a) == agent[a] # NoAgent

(***************************************************************************)
(* UpsertAgents: the batch replaces the records it names, the last one     *)
(* where it names an agent twice, and touches no other.                    *)
(***************************************************************************)
ImportAgents(batch) ==
  /\ agent' \in [AgentIds -> AgentRecords \cup {NoAgent}]
  /\ \A a \in AgentIds :
       \/ /\ \A i \in DOMAIN batch : batch[i].agent # a
          /\ agent'[a] = agent[a]
       \/ \E i \in DOMAIN batch : /\ LastUpsert(batch, a, i)
                                  /\ agent'[a] = batch[i].record
  /\ UNCHANGED latest

\* What a reader may be told once the batch is in.
Answers(batch) ==
  {latest[p] : p \in Pairs} \cup {Reading(batch[i]) : i \in DOMAIN batch}

\* Mutant: the last observation appended is the one read.
ImportLastAppended(batch) ==
  /\ \A i \in DOMAIN batch : Registered(batch[i].agent)
  /\ latest' \in [Pairs -> Answers(batch)]
  /\ \A p \in Pairs : IF ReadingsFor(batch, p) = {} THEN latest'[p] = latest[p]
                      ELSE latest'[p] \in ReadingsFor(batch, p)
  /\ UNCHANGED agent

(***************************************************************************)
(* AppendObservations: nothing in the batch is lost, nothing is invented,  *)
(* and what a reader is told of a pair changes only for something strictly *)
(* newer.  Re-appending and appending late are therefore no-ops.           *)
(***************************************************************************)
ImportObservations(batch) ==
  /\ \A i \in DOMAIN batch : Registered(batch[i].agent)
  /\ latest' \in [Pairs -> Answers(batch)]
  /\ \A p \in Pairs :
       /\ \A r \in ReadingsFor(batch, p) : AsNew(latest'[p], r)
       /\ \/ latest'[p] = latest[p]
          \/ /\ latest'[p] \in ReadingsFor(batch, p)
             /\ NewerReading(latest'[p], latest[p])
  /\ UNCHANGED agent

Call(c) ==
  /\ call = NoCall
  /\ call' = c
  /\ UNCHANGED <<agent, latest>>

\* The call returns nil: the whole batch has taken effect.
Succeed ==
  /\ call # NoCall
  /\ \/ call.kind = "agents" /\ ImportAgents(call.batch)
     \/ call.kind = "observations" /\ ImportObservations(call.batch)
  /\ call' = NoCall

\* The call returns an error, or the process dies under it: no effect.
Fail ==
  /\ call # NoCall
  /\ call' = NoCall
  /\ UNCHANGED <<agent, latest>>

Next ==
  \/ \E c \in Calls : Call(c)
  \/ Succeed
  \/ Fail

Spec == Init /\ [][Next]_promiseVars
=============================================================================
