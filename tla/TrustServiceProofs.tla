------------------------- MODULE TrustServiceProofs -------------------------
(***************************************************************************)
(* Proofs about the import and detail routes, for any number of agents,    *)
(* signals, clients' bodies and concurrent requests.                       *)
(***************************************************************************)
EXTENDS TrustService, TLAPS

(***************************************************************************)
(* What a step of the store preserves.                                     *)
(***************************************************************************)

\* Rows of a batch are what its kind says, and readings are readings.
LEMMA CallRow ==
  ASSUME NEW c \in Calls, NEW i \in DOMAIN c.batch
  PROVE  /\ c.batch[i].agent \in AgentIds
         /\ c.kind \in {"agents", "observations"}
         /\ c.kind = "agents" => c.batch[i] \in Upserts
         /\ c.kind = "observations" => /\ c.batch[i] \in Observations
                                       /\ PairOf(c.batch[i]) \in Pairs
                                       /\ Reading(c.batch[i]) \in Readings
<1>1. CASE c \in [kind : {"agents"}, batch : Batches(Upserts)]
  BY <1>1 DEF Batches, Upserts
<1>2. CASE c \in [kind : {"observations"}, batch : Batches(Observations)]
  <2>1. c.batch[i] \in Observations /\ c.kind = "observations"
    BY <1>2 DEF Batches
  <2>2. \A t \in Instants : Truncate(t) \in Nat
    BY StoreConstants DEF Truncate
  <2>. QED
    BY <2>1, <2>2 DEF Observations, PairOf, Pairs, Reading, Readings
<1>. QED
  BY <1>1, <1>2 DEF Calls

\* A batch is never empty: the services reject it before the store sees it.
LEMMA CallRows ==
  ASSUME NEW c \in Calls
  PROVE  /\ DOMAIN c.batch = 1 .. Len(c.batch) /\ Len(c.batch) \in Nat
         /\ 1 \in DOMAIN c.batch
  BY StoreConstants DEF Calls, Batches

\* Being at least as new is transitive.
LEMMA AsNewTransitive ==
  ASSUME NEW r \in Readings \cup {NoObservation}, NEW s \in Readings \cup {NoObservation},
         NEW t \in Readings \cup {NoObservation}
  PROVE  /\ AsNew(r, r)
         /\ AsNew(r, s) /\ AsNew(s, t) => AsNew(r, t)
         /\ NewerReading(r, s) => AsNew(r, s)
         /\ NewerReading(r, s) => ~AsNew(s, r)
  BY NoObservationIsNoReading DEF AsNew, NewerReading, Readings

\* A successful observation import answers from its batch, or as before.
LEMMA ObservationsStep ==
  ASSUME PromiseTypeOK, NEW c \in Calls, c.kind = "observations",
         ImportObservations(c.batch)
  PROVE  /\ latest' \in [Pairs -> Readings \cup {NoObservation}]
         /\ \A p \in Pairs : latest'[p] = latest[p] \/ NewerReading(latest'[p], latest[p])
         /\ Stored(c)'
<1>1. /\ latest \in [Pairs -> Readings \cup {NoObservation}]
      /\ agent' = agent
      /\ \A i \in DOMAIN c.batch :
           /\ Registered(c.batch[i].agent)
           /\ Reading(c.batch[i]) \in Readings
           /\ PairOf(c.batch[i]) \in Pairs
  BY CallRow DEF PromiseTypeOK, ImportObservations
<1>2. \A p \in Pairs : latest'[p] \in Readings \cup {NoObservation}
  BY <1>1 DEF ImportObservations, ReadingsFor
<1>3. latest' \in [Pairs -> Readings \cup {NoObservation}]
  BY <1>2 DEF ImportObservations
<1>4. \A p \in Pairs : latest'[p] = latest[p] \/ NewerReading(latest'[p], latest[p])
  BY DEF ImportObservations
<1>5. \A i \in DOMAIN c.batch : AsNew(latest'[PairOf(c.batch[i])], Reading(c.batch[i]))
  BY <1>1 DEF ImportObservations, ReadingsFor
<1>. QED
  BY <1>1, <1>3, <1>4, <1>5 DEF Stored, Registered

\* A successful agent import registers its agents and removes none.
LEMMA AgentsStep ==
  ASSUME PromiseTypeOK, NEW c \in Calls, c.kind = "agents", ImportAgents(c.batch)
  PROVE  /\ agent' \in [AgentIds -> AgentRecords \cup {NoAgent}]
         /\ \A a \in AgentIds : Registered(a) => Registered(a)'
         /\ latest' = latest
         /\ Stored(c)'
<1>1. \A i \in DOMAIN c.batch : c.batch[i] \in Upserts
  BY CallRow
<1>2. ASSUME NEW a \in AgentIds, agent'[a] # agent[a]
      PROVE  agent'[a] # NoAgent
  BY <1>1, <1>2, StoreConstants DEF ImportAgents, LastUpsert, Upserts
<1>3. ASSUME NEW i \in DOMAIN c.batch
      PROVE  agent'[c.batch[i].agent] # NoAgent
  BY <1>1, StoreConstants DEF ImportAgents, LastUpsert, Upserts
<1>. QED
  BY <1>2, <1>3 DEF ImportAgents, Registered, Stored

(***************************************************************************)
(* What readers were told is never taken back: in no step of the store     *)
(* does an agent disappear or a pair's answer become older.                *)
(***************************************************************************)
LEMMA StoreStep ==
  ASSUME PromiseTypeOK, [Next]_promiseVars
  PROVE  /\ PromiseTypeOK'
         /\ \A a \in AgentIds : Registered(a) => Registered(a)'
         /\ \A p \in Pairs : latest'[p] = latest[p] \/ NewerReading(latest'[p], latest[p])
<1>1. ASSUME NEW c \in Calls, Call(c)
      PROVE  PromiseTypeOK' /\ agent' = agent /\ latest' = latest
  BY <1>1 DEF Call, PromiseTypeOK
<1>2. CASE Succeed
  <2>1. PICK c \in Calls : c = call
    BY <1>2 DEF Succeed, PromiseTypeOK
  <2>2. CASE c.kind = "agents" /\ ImportAgents(c.batch)
    BY <1>2, <2>2, AgentsStep DEF Succeed, PromiseTypeOK
  <2>3. CASE c.kind = "observations" /\ ImportObservations(c.batch)
    <3>1. agent' = agent
      BY <2>3 DEF ImportObservations
    <3>. QED
      BY <1>2, <2>3, <3>1, ObservationsStep DEF Succeed, PromiseTypeOK, Registered
  <2>. QED
    BY <1>2, <2>1, <2>2, <2>3 DEF Succeed
<1>3. CASE Fail
  BY <1>3 DEF Fail, PromiseTypeOK, Registered
<1>4. CASE UNCHANGED promiseVars
  BY <1>4 DEF promiseVars, PromiseTypeOK, Registered
<1>. QED
  BY <1>1, <1>2, <1>3, <1>4 DEF Next, Registered

\* So a stored call stays stored.
LEMMA StoredStays ==
  ASSUME PromiseTypeOK, [Next]_promiseVars, NEW c \in Calls, Stored(c)
  PROVE  Stored(c)'
<1>1. /\ PromiseTypeOK' /\ \A a \in AgentIds : Registered(a) => Registered(a)'
      /\ \A p \in Pairs : latest'[p] = latest[p] \/ NewerReading(latest'[p], latest[p])
  BY StoreStep
<1>2. ASSUME NEW i \in DOMAIN c.batch, c.kind = "observations"
      PROVE  AsNew(latest'[PairOf(c.batch[i])], Reading(c.batch[i]))
  <2>. DEFINE p == PairOf(c.batch[i])
  <2>1. p \in Pairs /\ Reading(c.batch[i]) \in Readings
    BY <1>2, CallRow
  <2>2. latest[p] \in Readings \cup {NoObservation} /\ latest'[p] \in Readings \cup {NoObservation}
    BY <1>1, <2>1 DEF PromiseTypeOK
  <2>3. AsNew(latest[p], Reading(c.batch[i]))
    BY <1>2 DEF Stored
  <2>. QED
    BY <1>1, <2>1, <2>2, <2>3, AsNewTransitive
<1>3. \A i \in DOMAIN c.batch : Registered(c.batch[i].agent)'
  BY <1>1, CallRow DEF Stored
<1>. QED
  BY <1>2, <1>3 DEF Stored

(***************************************************************************)
(* The routes drive the store as the port allows: whatever the handlers,   *)
(* clients and crashes do, what is seen of the store is a behaviour of     *)
(* StorePromise.                                                           *)
(***************************************************************************)

\* Every step of the routes is a step of the port or leaves the store alone.
LEMMA ServiceStepIsStoreStep ==
  ASSUME ServiceTypeOK, [ServiceNext]_vars
  PROVE  [Next]_promiseVars
<1>1. ASSUME NEW r \in Requests, Send(r) \/ Refuse(r) \/ ReadBody(r) \/ Authorize(r) \/ Decode(r)
                                 \/ Validate(r) \/ GiveUpWaiting(r) \/ Ack(r) \/ EmitAudit(r)
      PROVE  UNCHANGED promiseVars
  BY <1>1 DEF Send, Refuse, ReadBody, Authorize, Decode, Validate, GiveUpWaiting, Ack,
              EmitAudit, promiseVars
<1>2. ASSUME NEW r \in Requests, OpenCall(r)
      PROVE  Next
  <2>1. req[r].call \in Calls
    BY <1>2 DEF OpenCall, At, ServiceTypeOK, Active
  <2>. QED
    BY <1>2, <2>1 DEF OpenCall, Next
<1>3. ASSUME NEW r \in Requests, CallReturns(r) \/ CallFails(r)
      PROVE  Next
  BY <1>3 DEF CallReturns, CallFails, Next
<1>4. ASSUME NEW d \in Readers, Ask(d) \/ Evaluate(d) \/ DetailFails(d)
      PROVE  UNCHANGED promiseVars
  BY <1>4 DEF Ask, Evaluate, Lookup, ReadNext, Scored, Answer, DetailFails, promiseVars
<1>5. CASE Crash
  BY <1>5 DEF Crash, Next, promiseVars
<1>6. CASE UNCHANGED vars
  BY <1>6 DEF vars, promiseVars
<1>. QED
  BY <1>1, <1>2, <1>3, <1>4, <1>5, <1>6 DEF ServiceNext, Serve

\* A handler's step keeps its request well formed and every other as it was.
LEMMA RequestStep ==
  ASSUME ServiceTypeOK, NEW r \in Requests, Send(r) \/ Serve(r) \/ Refuse(r)
  PROVE  /\ req' \in [Requests -> Active \cup {Idle}]
         /\ req'[r] # Idle => req'[r].row \in DOMAIN req'[r].call.batch
         /\ \A q \in Requests : q # r => req'[q] = req[q]
         /\ view' = view
<1>0. req \in [Requests -> Active \cup {Idle}] /\ view' = view
  BY DEF ServiceTypeOK, Send, Serve, Refuse, ReadBody, Authorize, Decode, Validate,
         OpenCall, GiveUpWaiting, CallReturns, CallFails, Ack, EmitAudit
<1>1. CASE Send(r)
  <2>1. PICK c \in Bodies :
          req' = [req EXCEPT ![r] = [pc |-> "audit", call |-> c, row |-> 1,
                                     status |-> 0, accepted |-> 0, committed |-> FALSE]]
    BY <1>1 DEF Send
  <2>2. c \in Calls /\ 1 \in DOMAIN c.batch
    BY ServiceConstants, CallRows
  <2>. QED
    BY <1>0, <2>1, <2>2 DEF Active
<1>2. CASE EmitAudit(r)
  BY <1>0, <1>2 DEF EmitAudit
<1>3. CASE \/ Refuse(r) \/ ReadBody(r) \/ Authorize(r) \/ Decode(r) \/ OpenCall(r)
           \/ GiveUpWaiting(r) \/ CallReturns(r) \/ CallFails(r) \/ Ack(r) \/ Validate(r)
  <2>1. req[r] \in Active /\ req[r].row \in DOMAIN req[r].call.batch
    BY <1>0, <1>3 DEF Refuse, ReadBody, Authorize, Decode, OpenCall, GiveUpWaiting,
                      CallReturns, CallFails, Ack, Validate, At, ServiceTypeOK
  <2>2. /\ req[r].call \in Calls /\ DOMAIN req[r].call.batch = 1 .. Len(req[r].call.batch)
        /\ Len(req[r].call.batch) \in Nat /\ req[r].row + 1 \in Nat
    BY <2>1, CallRows DEF Active
  <2>3. \E q \in Active : /\ req' = [req EXCEPT ![r] = q]
                          /\ q.call = req[r].call
                          /\ q.row = req[r].row \/ (q.row = req[r].row + 1 /\ q.row \in DOMAIN q.call.batch)
    <3>1. CASE Validate(r) /\ RowPasses(r) /\ req[r].row + 1 \in DOMAIN req[r].call.batch
      <4>. DEFINE q == [req[r] EXCEPT !.row = @ + 1]
      <4>1. q \in Active /\ q.call = req[r].call /\ q.row = req[r].row + 1
        BY <2>1, <2>2 DEF Active
      <4>2. req' = [req EXCEPT ![r] = q]
        BY <3>1 DEF RowPasses
      <4>. QED
        BY <3>1, <4>1, <4>2
    <3>2. CASE \E p \in {"auth", "decode", "validate", "store", "call"} : Goto(r, p)
      <4>1. PICK p \in {"auth", "decode", "validate", "store", "call"} : Goto(r, p)
        BY <3>2
      <4>. DEFINE q == [req[r] EXCEPT !.pc = p]
      <4>2. q \in Active /\ q.call = req[r].call /\ q.row = req[r].row
        BY <2>1 DEF Active
      <4>. QED
        BY <4>1, <4>2 DEF Goto
    <3>3. CASE \E n \in Nat : Problem(r, n)
      <4>1. PICK n \in Nat : Problem(r, n)
        BY <3>3
      <4>. DEFINE q == [req[r] EXCEPT !.pc = "reply", !.status = n]
      <4>2. q \in Active /\ q.call = req[r].call /\ q.row = req[r].row
        BY <2>1 DEF Active
      <4>. QED
        BY <4>1, <4>2 DEF Problem
    <3>4. CASE CallReturns(r)
      <4>. DEFINE q == [req[r] EXCEPT !.pc = "ack", !.committed = TRUE]
      <4>2. q \in Active /\ q.call = req[r].call /\ q.row = req[r].row
        BY <2>1 DEF Active
      <4>. QED
        BY <3>4, <4>2 DEF CallReturns
    <3>5. CASE Ack(r)
      <4>. DEFINE q == [req[r] EXCEPT !.pc = "reply", !.status = 200,
                                      !.accepted = Len(req[r].call.batch)]
      <4>2. q \in Active /\ q.call = req[r].call /\ q.row = req[r].row
        BY <2>1, <2>2 DEF Active
      <4>. QED
        BY <3>5, <4>2 DEF Ack
    <3>. QED
      BY <1>3, <3>1, <3>2, <3>3, <3>4, <3>5
      DEF Refuse, ReadBody, Authorize, Decode, OpenCall, GiveUpWaiting, CallFails,
          Validate, RowPasses
  <2>. QED
    BY <1>0, <2>1, <2>3
<1>. QED
  BY <1>0, <1>1, <1>2, <1>3 DEF Serve

\* The same of a detail request.
LEMMA DetailStep ==
  ASSUME ServiceTypeOK, NEW d \in Readers, Ask(d) \/ Evaluate(d) \/ DetailFails(d)
  PROVE  /\ view' \in [Readers -> Detail \cup {Idle}]
         /\ \A e \in Readers : e # d => view'[e] = view[e]
         /\ UNCHANGED <<agent, latest, call, req, acked>>
<1>0. /\ view \in [Readers -> Detail \cup {Idle}]
      /\ UNCHANGED <<agent, latest, call, req, acked>>
  BY DEF ServiceTypeOK, Ask, Evaluate, Lookup, ReadNext, Scored, Answer, DetailFails
<1>1. CASE Ask(d)
  <2>1. PICK a \in AgentIds :
          view' = [view EXCEPT ![d] =
                     [pc |-> "lookup", agent |-> a, row |-> 0,
                      read |-> [s \in SignalIds |-> NoObservation], status |-> 0,
                      known |-> Registered(a), floor |-> AnswersOf(a)]]
    BY <1>1 DEF Ask
  <2>2. AnswersOf(a) \in [SignalIds -> Reported] /\ Registered(a) \in BOOLEAN
    BY DEF ServiceTypeOK, PromiseTypeOK, AnswersOf, Registered, Pairs, Reported
  <2>. QED
    BY <1>0, <2>1, <2>2 DEF Detail, Reported
<1>2. CASE Answer(d)
  BY <1>0, <1>2 DEF Answer
<1>3. CASE ReadNext(d)
  <2>1. view[d] \in Detail /\ view[d].row < Len(Registry)
    BY <1>0, <1>3 DEF ReadNext, Viewing
  <2>2. PICK s \in SignalIds :
          view' = [view EXCEPT ![d].row = @ + 1,
                               ![d].read[s] = latest[<<view[d].agent, s>>]]
    <3>1. Registry[view[d].row + 1] \in SignalIds
      BY <2>1, ServiceConstants DEF Detail
    <3>. QED
      BY <1>3, <3>1 DEF ReadNext
  <2>3. latest[<<view[d].agent, s>>] \in Reported
    BY <2>1 DEF ServiceTypeOK, PromiseTypeOK, Pairs, Detail, Reported
  <2>4. view[d].row + 1 \in Nat
    BY <2>1 DEF Detail
  <2>. DEFINE v == [view[d] EXCEPT !.row = @ + 1, !.read[s] = latest[<<view[d].agent, s>>]]
  <2>5. v \in Detail
    BY <2>1, <2>3, <2>4 DEF Detail
  <2>. QED
    BY <1>0, <2>2, <2>5
<1>4. CASE Lookup(d) \/ Scored(d) \/ DetailFails(d)
  <2>1. view[d] \in Detail
    BY <1>0, <1>4 DEF Lookup, Scored, DetailFails, Viewing
  <2>2. CASE view' = [view EXCEPT ![d].pc = "score"]
    BY <1>0, <2>1, <2>2 DEF Detail
  <2>3. CASE \E n \in Nat : AnswerWith(d, n)
    <3>1. PICK n \in Nat : AnswerWith(d, n)
      BY <2>3
    <3>. DEFINE v == [view[d] EXCEPT !.pc = "answer", !.status = n]
    <3>2. v \in Detail
      BY <2>1 DEF Detail
    <3>3. view' = [view EXCEPT ![d] = v]
      BY <3>1 DEF AnswerWith
    <3>. QED
      BY <1>0, <3>2, <3>3
  <2>. QED
    BY <1>4, <2>2, <2>3 DEF Lookup, Scored, DetailFails
<1>. QED
  BY <1>0, <1>1, <1>2, <1>3, <1>4 DEF Evaluate

(***************************************************************************)
(* Requests, audit records and evaluations keep their shape, and the       *)
(* validation loop stays within its batch (service.go ImportObservations). *)
(***************************************************************************)
THEOREM ServiceTypeInvariant == ServiceSafety => []ServiceTypeOK
<1>1. ServiceInit => ServiceTypeOK
  BY DEF ServiceInit, Init, ServiceTypeOK, PromiseTypeOK, Pairs
<1>2. ServiceTypeOK /\ [ServiceNext]_vars => ServiceTypeOK'
  <2> SUFFICES ASSUME ServiceTypeOK, [ServiceNext]_vars
               PROVE  ServiceTypeOK'
    OBVIOUS
  <2>0. PromiseTypeOK'
    BY ServiceStepIsStoreStep, StoreStep DEF ServiceTypeOK
  <2>1. ASSUME NEW r \in Requests, Send(r) \/ Serve(r) \/ Refuse(r)
        PROVE  ServiceTypeOK'
    <3>1. acked' \subseteq Calls
      <4>1. acked' = acked \/ (At(r, "ack") /\ acked' = acked \cup {req[r].call})
        BY <2>1 DEF Send, Serve, Refuse, ReadBody, Authorize, Decode, Validate,
                    OpenCall, GiveUpWaiting, CallReturns, CallFails, Ack, EmitAudit
      <4>. QED
        BY <4>1 DEF ServiceTypeOK, At, Active
    <3>. QED
      BY <2>0, <2>1, <3>1, RequestStep DEF ServiceTypeOK
  <2>2. ASSUME NEW d \in Readers, Ask(d) \/ Evaluate(d) \/ DetailFails(d)
        PROVE  ServiceTypeOK'
    BY <2>0, <2>2, DetailStep DEF ServiceTypeOK
  <2>3. CASE Crash
    BY <2>0, <2>3 DEF Crash, ServiceTypeOK
  <2>4. CASE UNCHANGED vars
    BY <2>0, <2>4 DEF vars, ServiceTypeOK
  <2>. QED
    BY <2>1, <2>2, <2>3, <2>4 DEF ServiceNext
<1>. QED
  BY <1>1, <1>2, PTL DEF ServiceSafety

(***************************************************************************)
(* What is seen of the store through the routes is a behaviour of          *)
(* StorePromise, crashes included.                                         *)
(***************************************************************************)
THEOREM RoutesKeepThePromise == ServiceSafety => Spec
<1>1. ServiceInit => Init
  BY DEF ServiceInit
<1>2. ServiceTypeOK /\ [ServiceNext]_vars => [Next]_promiseVars
  BY ServiceStepIsStoreStep
<1>. QED
  BY <1>1, <1>2, ServiceTypeInvariant, PTL DEF ServiceSafety, Spec

(***************************************************************************)
(* The write lock.                                                         *)
(***************************************************************************)

\* What a request looks like after a problem response and after moving on.
LEMMA ProblemFields ==
  ASSUME ServiceTypeOK, NEW r \in Requests, req[r] \in Active, NEW n \in Nat, Problem(r, n)
  PROVE  /\ req'[r] \in Active /\ req'[r].pc = "reply" /\ req'[r].status = n
         /\ req'[r].call = req[r].call /\ req'[r].row = req[r].row
         /\ req'[r].accepted = req[r].accepted /\ req'[r].committed = req[r].committed
<1>. DEFINE q == [req[r] EXCEPT !.pc = "reply", !.status = n]
<1>1. q \in Active
  BY DEF Active
<1>2. req'[r] = q
  BY DEF Problem, ServiceTypeOK
<1>. QED
  BY <1>1, <1>2 DEF Active

\* What moving on to another step changes of a request: its pc.
LEMMA GotoFields ==
  ASSUME ServiceTypeOK, NEW r \in Requests, req[r] \in Active,
         NEW p \in {"auth", "decode", "validate", "store", "call"}, Goto(r, p)
  PROVE  /\ req'[r] \in Active /\ req'[r].pc = p
         /\ req'[r].call = req[r].call /\ req'[r].row = req[r].row
         /\ req'[r].accepted = req[r].accepted /\ req'[r].committed = req[r].committed
<1>. DEFINE q == [req[r] EXCEPT !.pc = p]
<1>1. q \in Active
  BY DEF Active
<1>2. req'[r] = q
  BY DEF Goto, ServiceTypeOK
<1>. QED
  BY <1>1, <1>2 DEF Active

\* Only opening a call and its end take a handler into the store or out of it.
LEMMA OutsideTheStore ==
  ASSUME ServiceTypeOK, NEW r \in Requests,
         \/ Send(r) \/ Refuse(r) \/ ReadBody(r) \/ Authorize(r) \/ Decode(r)
         \/ Validate(r) \/ GiveUpWaiting(r) \/ Ack(r) \/ EmitAudit(r)
  PROVE  /\ ~At(r, "call") /\ ~At(r, "call")' /\ ~At(r, "ack")'
         /\ UNCHANGED <<agent, latest, call>>
<1>0. /\ req \in [Requests -> Active \cup {Idle}]
      /\ UNCHANGED <<agent, latest, call>>
  BY DEF ServiceTypeOK, Send, Refuse, ReadBody, Authorize, Decode, Validate,
         GiveUpWaiting, Ack, EmitAudit
<1>1. CASE Send(r)
  BY <1>0, <1>1 DEF Send, At
<1>2. CASE Refuse(r) \/ GiveUpWaiting(r)
  <2>1. req[r] \in Active /\ ~At(r, "call")
    BY <1>0, <1>2 DEF Refuse, GiveUpWaiting, At
  <2>2. PICK n \in Nat : Problem(r, n)
    BY <1>2 DEF Refuse, GiveUpWaiting
  <2>. QED
    BY <1>0, <2>1, <2>2, ProblemFields DEF At
<1>3. CASE Ack(r)
  <2>. DEFINE q == [req[r] EXCEPT !.pc = "reply", !.status = 200,
                                  !.accepted = Len(req[r].call.batch)]
  <2>1. req[r] \in Active /\ ~At(r, "call") /\ req'[r] = q
    BY <1>0, <1>3 DEF Ack, At
  <2>. QED
    BY <1>0, <2>1 DEF At, Active
<1>4. CASE EmitAudit(r)
  BY <1>0, <1>4 DEF EmitAudit, At
<1>5. CASE ReadBody(r) \/ Authorize(r) \/ Decode(r)
  <2>1. req[r] \in Active /\ ~At(r, "call")
    BY <1>0, <1>5 DEF ReadBody, Authorize, Decode, At
  <2>2. PICK p \in {"auth", "decode", "validate", "store"} : Goto(r, p)
    BY <1>5 DEF ReadBody, Authorize, Decode
  <2>. QED
    BY <1>0, <2>1, <2>2, GotoFields DEF At
<1>6. CASE Validate(r)
  <2>1. req[r] \in Active /\ req[r].pc = "validate" /\ ~At(r, "call")
    BY <1>0, <1>6 DEF Validate, At
  <2>2. CASE Problem(r, 422)
    BY <1>0, <2>1, <2>2, ProblemFields DEF At
  <2>3. CASE Goto(r, "store")
    BY <1>0, <2>1, <2>3, GotoFields DEF At
  <2>4. CASE req' = [req EXCEPT ![r].row = @ + 1]
    <3>1. req'[r] = [req[r] EXCEPT !.row = @ + 1]
      BY <1>0, <2>4
    <3>. QED
      BY <1>0, <2>1, <3>1 DEF At, Active
  <2>. QED
    BY <1>6, <2>2, <2>3, <2>4 DEF Validate, RowPasses
<1>. QED
  BY <1>1, <1>2, <1>3, <1>4, <1>5, <1>6

(***************************************************************************)
(* No error path, panic or restart leaves the write lock taken, and two    *)
(* handlers are never in the store at once (agentstore.go's deferred       *)
(* Rollback).                                                              *)
(***************************************************************************)
THEOREM LockInvariant == ServiceSafety => []LockHasOneHolder
<1>1. ServiceInit => LockHasOneHolder
  BY DEF ServiceInit, Init, LockHasOneHolder, At
<1>2. ServiceTypeOK /\ LockHasOneHolder /\ [ServiceNext]_vars => LockHasOneHolder'
  <2> SUFFICES ASSUME ServiceTypeOK, LockHasOneHolder, [ServiceNext]_vars
               PROVE  LockHasOneHolder'
    OBVIOUS
  <2>0. \A r \in Requests : At(r, "call") => call # NoCall
    BY NoCallIsNoCall DEF LockHasOneHolder, At, ServiceTypeOK, Active
  <2>1. ASSUME NEW r \in Requests,
               \/ Send(r) \/ Refuse(r) \/ ReadBody(r) \/ Authorize(r) \/ Decode(r)
               \/ Validate(r) \/ GiveUpWaiting(r) \/ Ack(r) \/ EmitAudit(r)
        PROVE  LockHasOneHolder'
    <3>1. ~At(r, "call") /\ ~At(r, "call")' /\ call' = call
      BY <2>1, OutsideTheStore
    <3>2. \A q \in Requests : q # r => req'[q] = req[q]
      BY <2>1, RequestStep DEF Serve
    <3>. QED
      BY <3>1, <3>2 DEF LockHasOneHolder, At
  <2>2. ASSUME NEW r \in Requests, OpenCall(r)
        PROVE  LockHasOneHolder'
    <3>1. /\ call = NoCall /\ call' = req[r].call /\ req[r] # Idle /\ req[r] \in Active
          /\ req' = [req EXCEPT ![r] = [req[r] EXCEPT !.pc = "call"]]
      BY <2>2 DEF OpenCall, Call, At, Goto, ServiceTypeOK
    <3>2. \A q \in Requests : ~At(q, "call")
      BY <2>0, <3>1
    <3>3. /\ req'[r].pc = "call" /\ req'[r].call = call' /\ req'[r] # Idle
      <4>1. [req[r] EXCEPT !.pc = "call"] \in Active
        BY <3>1 DEF Active
      <4>. QED
        BY <3>1, <4>1, IdleIsIdle DEF ServiceTypeOK, Active
    <3>4. \A q \in Requests : q # r => req'[q] = req[q]
      BY <3>1 DEF ServiceTypeOK
    <3>. QED
      BY <3>2, <3>3, <3>4 DEF LockHasOneHolder, At
  <2>3. ASSUME NEW r \in Requests, CallReturns(r) \/ CallFails(r)
        PROVE  LockHasOneHolder'
    <3>1. At(r, "call") /\ call' = NoCall /\ req[r] \in Active
      BY <2>3 DEF CallReturns, CallFails, Succeed, Fail, At, ServiceTypeOK
    <3>2. ~At(r, "call")'
      <4>1. CASE CallFails(r)
        BY <3>1, <4>1, ProblemFields DEF CallFails, At
      <4>2. CASE CallReturns(r)
        <5>1. req'[r] = [req[r] EXCEPT !.pc = "ack", !.committed = TRUE]
          BY <4>2 DEF CallReturns, ServiceTypeOK
        <5>. QED
          BY <3>1, <5>1 DEF At, Active
      <4>. QED
        BY <2>3, <4>1, <4>2
    <3>3. \A q \in Requests : q # r => req'[q] = req[q]
      BY <2>3, RequestStep DEF Serve
    <3>. QED
      BY <3>1, <3>2, <3>3 DEF LockHasOneHolder, At
  <2>4. ASSUME NEW d \in Readers, Ask(d) \/ Evaluate(d) \/ DetailFails(d)
        PROVE  LockHasOneHolder'
    BY <2>4, DetailStep DEF LockHasOneHolder, At
  <2>5. CASE Crash
    BY <2>5 DEF Crash, Fail, LockHasOneHolder, At
  <2>6. CASE UNCHANGED vars
    BY <2>6 DEF vars, LockHasOneHolder, At
  <2>. QED
    BY <2>1, <2>2, <2>3, <2>4, <2>5, <2>6 DEF ServiceNext, Serve
<1>. QED
  BY <1>1, <1>2, ServiceTypeInvariant, PTL DEF ServiceSafety

(***************************************************************************)
(* Answers and effects.                                                    *)
(***************************************************************************)

\* What each step of a handler knows of its own effect and of its audit record.
History(q) ==
  /\ q.pc \notin {"ack", "reply"} => ~q.committed /\ q.accepted = 0
  /\ q.pc = "ack" => q.committed
  /\ q.pc = "reply" =>
       \/ q.committed /\ q.status = 200 /\ q.accepted = Len(q.call.batch)
       \/ ~q.committed /\ q.status >= 400 /\ q.accepted = 0

Histories == \A r \in Requests : req[r] # Idle => History(req[r])

\* A request that is past the store has committed, one that is before it has
\* not, and only an acknowledgement sets what is reported.
LEMMA HistoriesInvariant == ServiceSafety => []Histories
<1>1. ServiceInit => Histories
  BY DEF ServiceInit, Histories
<1>2. ServiceTypeOK /\ Histories /\ [ServiceNext]_vars => Histories'
  <2> SUFFICES ASSUME ServiceTypeOK, Histories, [ServiceNext]_vars
               PROVE  Histories'
    OBVIOUS
  <2>1. ASSUME NEW r \in Requests, Send(r) \/ Serve(r) \/ Refuse(r)
        PROVE  Histories'
    <3>1. \A q \in Requests : q # r => req'[q] = req[q]
      BY <2>1, RequestStep
    <3>2. req'[r] # Idle => History(req'[r])
      <4>1. CASE Send(r)
        BY <4>1 DEF Send, ServiceTypeOK, History
      <4>2. CASE EmitAudit(r)
        BY <4>2 DEF EmitAudit, ServiceTypeOK
      <4>3. CASE ReadBody(r) \/ Authorize(r) \/ Decode(r) \/ OpenCall(r)
        <5>1. req[r] \in Active /\ History(req[r]) /\ req[r].pc \notin {"ack", "reply"}
          BY <4>3 DEF ReadBody, Authorize, Decode, OpenCall, At, ServiceTypeOK, Histories
        <5>2. PICK p \in {"auth", "decode", "validate", "store", "call"} : Goto(r, p)
          BY <4>3 DEF ReadBody, Authorize, Decode, OpenCall
        <5>. QED
          BY <5>1, <5>2, GotoFields DEF History
      <4>4. CASE Refuse(r) \/ GiveUpWaiting(r) \/ CallFails(r)
        <5>1. req[r] \in Active /\ History(req[r]) /\ req[r].pc \notin {"ack", "reply"}
          BY <4>4 DEF Refuse, GiveUpWaiting, CallFails, At, ServiceTypeOK, Histories
        <5>2. PICK n \in Nat : n >= 400 /\ Problem(r, n)
          BY <4>4 DEF Refuse, GiveUpWaiting, CallFails
        <5>. QED
          BY <5>1, <5>2, ProblemFields DEF History
      <4>5. CASE Validate(r)
        <5>1. req[r] \in Active /\ History(req[r]) /\ req[r].pc = "validate"
          BY <4>5 DEF Validate, At, ServiceTypeOK, Histories
        <5>2. CASE Problem(r, 422)
          BY <5>1, <5>2, ProblemFields DEF History
        <5>3. CASE Goto(r, "store")
          BY <5>1, <5>3, GotoFields DEF History
        <5>4. CASE req' = [req EXCEPT ![r].row = @ + 1]
          BY <5>1, <5>4 DEF ServiceTypeOK, History, Active
        <5>. QED
          BY <4>5, <5>2, <5>3, <5>4 DEF Validate, RowPasses
      <4>6. CASE CallReturns(r)
        <5>1. req[r] \in Active
          BY <4>6 DEF CallReturns, At, ServiceTypeOK
        <5>. QED
          BY <4>6, <5>1 DEF CallReturns, ServiceTypeOK, History, Active
      <4>7. CASE Ack(r)
        <5>1. req[r] \in Active /\ req[r].committed
          BY <4>7 DEF Ack, At, ServiceTypeOK, Histories, History
        <5>. QED
          BY <4>7, <5>1 DEF Ack, ServiceTypeOK, History, Active
      <4>. QED
        BY <2>1, <4>1, <4>2, <4>3, <4>4, <4>5, <4>6, <4>7 DEF Serve
    <3>. QED
      BY <3>1, <3>2 DEF Histories
  <2>2. ASSUME NEW d \in Readers, Ask(d) \/ Evaluate(d) \/ DetailFails(d)
        PROVE  Histories'
    BY <2>2, DetailStep DEF Histories
  <2>3. CASE Crash
    BY <2>3 DEF Crash, Histories
  <2>4. CASE UNCHANGED vars
    BY <2>4 DEF vars, Histories
  <2>. QED
    BY <2>1, <2>2, <2>3, <2>4 DEF ServiceNext
<1>. QED
  BY <1>1, <1>2, ServiceTypeInvariant, PTL DEF ServiceSafety

(***************************************************************************)
(* The status and the audit line tell the effect: accepted with the number *)
(* of rows if and only if the store committed the batch (server audit,     *)
(* importsvc handlers).                                                    *)
(***************************************************************************)
THEOREM StatusInvariant == ServiceSafety => []StatusTellsEffect
<1>1. ServiceTypeOK /\ Histories => StatusTellsEffect
  <2> SUFFICES ASSUME ServiceTypeOK, Histories, NEW r \in Requests, At(r, "reply")
               PROVE  LET q == req[r]
                      IN  /\ q.committed <=> q.status = 200
                          /\ AuditLine(q) =
                               [outcome   |-> IF q.committed THEN "accepted" ELSE "rejected",
                                batchSize |-> IF q.committed THEN Len(q.call.batch) ELSE 0]
    BY DEF StatusTellsEffect
  <2>1. req[r] \in Active /\ History(req[r]) /\ req[r].pc = "reply"
    BY DEF At, ServiceTypeOK, Histories
  <2>. QED
    BY <2>1 DEF History, AuditLine, Active
<1>. QED
  BY <1>1, ServiceTypeInvariant, HistoriesInvariant, PTL

(***************************************************************************)
(* Acknowledgements.                                                       *)
(***************************************************************************)

\* Between the commit and the 200 the call stays stored as well.
Acknowledgeable == \A r \in Requests : At(r, "ack") => Stored(req[r].call)

\* The call that returns is the handler's own.
LEMMA ReturnedCallIsStored ==
  ASSUME ServiceTypeOK, LockHasOneHolder, NEW r \in Requests, CallReturns(r)
  PROVE  /\ req'[r].call = call /\ call \in Calls /\ req[r] \in Active
         /\ req'[r].pc = "ack"
         /\ \A c \in Calls : c = call => Stored(c)'
<1>1. req[r] \in Active /\ req[r].call = call /\ call \in Calls
  BY DEF CallReturns, At, ServiceTypeOK, LockHasOneHolder, Active
<1>2. req'[r] = [req[r] EXCEPT !.pc = "ack", !.committed = TRUE]
  BY DEF CallReturns, ServiceTypeOK
<1>3. ASSUME NEW c \in Calls, c = call
      PROVE  Stored(c)'
  BY <1>3, AgentsStep, ObservationsStep DEF CallReturns, Succeed, ServiceTypeOK
<1>. QED
  BY <1>1, <1>2, <1>3 DEF Active

\* No step makes an acknowledged call any less stored.
LEMMA AckedStep ==
  ASSUME ServiceTypeOK, LockHasOneHolder, AckedIsStored, Acknowledgeable, [ServiceNext]_vars
  PROVE  AckedIsStored' /\ Acknowledgeable'
<1>1. \A c \in Calls : Stored(c) => Stored(c)'
  BY ServiceStepIsStoreStep, StoredStays DEF ServiceTypeOK
<1>2. acked \subseteq Calls /\ \A r \in Requests : req[r] # Idle => req[r].call \in Calls
  BY DEF ServiceTypeOK, Active
<1>3. ASSUME acked' = acked
      PROVE  AckedIsStored'
  BY <1>1, <1>2, <1>3 DEF AckedIsStored
<1>4. ASSUME NEW r \in Requests, ~At(r, "ack")', \A q \in Requests : q # r => req'[q] = req[q]
      PROVE  Acknowledgeable'
  BY <1>1, <1>2, <1>4 DEF Acknowledgeable, At
<1>5. ASSUME NEW r \in Requests,
             \/ Send(r) \/ Refuse(r) \/ ReadBody(r) \/ Authorize(r) \/ Decode(r)
             \/ Validate(r) \/ GiveUpWaiting(r) \/ EmitAudit(r)
      PROVE  AckedIsStored' /\ Acknowledgeable'
  <2>1. acked' = acked
    BY <1>5 DEF Send, Refuse, ReadBody, Authorize, Decode, Validate, GiveUpWaiting, EmitAudit
  <2>. QED
    BY <1>3, <1>4, <1>5, <2>1, RequestStep, OutsideTheStore DEF Serve
<1>6. ASSUME NEW r \in Requests, Ack(r)
      PROVE  AckedIsStored' /\ Acknowledgeable'
  <2>1. Stored(req[r].call) /\ req[r].call \in Calls
    BY <1>2, <1>6 DEF Ack, At, Acknowledgeable
  <2>2. acked' \subseteq acked \cup {req[r].call}
    BY <1>6 DEF Ack
  <2>3. \A c \in acked' : c \in Calls /\ Stored(c)
    BY <1>2, <2>1, <2>2 DEF AckedIsStored
  <2>4. AckedIsStored'
    BY <1>1, <2>3 DEF AckedIsStored
  <2>. QED
    BY <1>4, <1>6, <2>4, RequestStep, OutsideTheStore DEF Serve
<1>7. ASSUME NEW r \in Requests, OpenCall(r) \/ CallFails(r)
      PROVE  AckedIsStored' /\ Acknowledgeable'
  <2>1. acked' = acked /\ req[r] \in Active
    BY <1>7 DEF OpenCall, CallFails, At, ServiceTypeOK
  <2>2. ~At(r, "ack")'
    BY <1>7, <2>1, ProblemFields, GotoFields DEF OpenCall, CallFails, At
  <2>. QED
    BY <1>3, <1>4, <1>7, <2>1, <2>2, RequestStep DEF Serve
<1>8. ASSUME NEW r \in Requests, CallReturns(r)
      PROVE  AckedIsStored' /\ Acknowledgeable'
  <2>1. acked' = acked
    BY <1>8 DEF CallReturns
  <2>2. PICK c \in Calls : c = call /\ c = req'[r].call /\ Stored(c)'
    BY <1>8, ReturnedCallIsStored
  <2>3. \A q \in Requests : q # r => req'[q] = req[q]
    BY <1>8, RequestStep DEF Serve
  <2>4. Acknowledgeable'
    BY <1>1, <1>2, <2>2, <2>3 DEF Acknowledgeable, At
  <2>. QED
    BY <1>3, <2>1, <2>4
<1>9. ASSUME NEW d \in Readers, Ask(d) \/ Evaluate(d) \/ DetailFails(d)
      PROVE  AckedIsStored' /\ Acknowledgeable'
  <2>1. acked' = acked /\ req' = req
    BY <1>9, DetailStep
  <2>2. Acknowledgeable'
    BY <1>1, <1>2, <2>1 DEF Acknowledgeable, At
  <2>. QED
    BY <1>3, <2>1, <2>2
<1>10. CASE Crash
  BY <1>3, <1>10 DEF Crash, Acknowledgeable, At
<1>11. CASE UNCHANGED vars
  <2>1. Acknowledgeable'
    BY <1>1, <1>2, <1>11 DEF vars, Acknowledgeable, At
  <2>. QED
    BY <1>3, <1>11, <2>1 DEF vars
<1>. QED
  BY <1>5, <1>6, <1>7, <1>8, <1>9, <1>10, <1>11 DEF ServiceNext, Serve

(***************************************************************************)
(* An acknowledged import is never lost: not to a late batch, a failed     *)
(* call of another client, a retry or a restart.                           *)
(***************************************************************************)
THEOREM AckedInvariant == ServiceSafety => []AckedIsStored
<1>1. ServiceInit => AckedIsStored /\ Acknowledgeable
  BY DEF ServiceInit, AckedIsStored, Acknowledgeable, At
<1>2. ServiceTypeOK /\ LockHasOneHolder /\ AckedIsStored /\ Acknowledgeable /\ [ServiceNext]_vars
        => AckedIsStored' /\ Acknowledgeable'
  BY AckedStep
<1>. QED
  BY <1>1, <1>2, ServiceTypeInvariant, LockInvariant, PTL DEF ServiceSafety

(***************************************************************************)
(* Sending an acknowledged observation batch again changes no answer       *)
(* (idempotence of the import over any interleaving).                      *)
(***************************************************************************)
THEOREM RetryTheorem == ServiceSafety => RetryIsHarmless
<1>1. ServiceTypeOK /\ LockHasOneHolder /\ AckedIsStored
        => \A r \in Requests :
             CallReturns(r) /\ call.kind = "observations" /\ call \in acked
               => UNCHANGED latest
  <2> SUFFICES ASSUME ServiceTypeOK, LockHasOneHolder, AckedIsStored, NEW r \in Requests,
                      CallReturns(r), call.kind = "observations", call \in acked
               PROVE  latest' = latest
    OBVIOUS
  <2>1. call \in Calls /\ Stored(call) /\ ImportObservations(call.batch)
    BY DEF AckedIsStored, CallReturns, Succeed, ServiceTypeOK
  <2>2. /\ latest \in [Pairs -> Readings \cup {NoObservation}]
        /\ latest' \in [Pairs -> Readings \cup {NoObservation}]
    BY <2>1, ObservationsStep DEF ServiceTypeOK, PromiseTypeOK
  <2>3. ASSUME NEW p \in Pairs, latest'[p] # latest[p]
        PROVE  FALSE
    <3>1. latest'[p] \in ReadingsFor(call.batch, p) /\ NewerReading(latest'[p], latest[p])
      BY <2>1, <2>3 DEF ImportObservations
    <3>2. PICK i \in DOMAIN call.batch :
            PairOf(call.batch[i]) = p /\ latest'[p] = Reading(call.batch[i])
      BY <3>1 DEF ReadingsFor
    <3>3. AsNew(latest[p], latest'[p])
      BY <2>1, <3>2 DEF Stored
    <3>. QED
      BY <2>2, <3>1, <3>3, AsNewTransitive
  <2>. QED
    BY <2>2, <2>3
<1>. QED
  BY <1>1, ServiceTypeInvariant, LockInvariant, AckedInvariant, PTL DEF RetryIsHarmless

(***************************************************************************)
(* Validation.                                                             *)
(***************************************************************************)

\* The rows a request has got past are acceptable, and stay so.
Checked(q) ==
  q.call.kind = "observations" =>
    /\ q.pc \in {"audit", "auth", "decode"} => q.row = 1
    /\ q.pc = "validate" => \A i \in DOMAIN q.call.batch :
                              i < q.row => Acceptable(q.call.batch[i])
    /\ q.pc \in {"store", "call"} => \A i \in DOMAIN q.call.batch :
                                        Acceptable(q.call.batch[i])

AllChecked == \A r \in Requests : req[r] # Idle => Checked(req[r])

\* Nothing takes an acceptable observation's agent away again.
LEMMA AcceptableStays ==
  ASSUME ServiceTypeOK, [ServiceNext]_vars, NEW o \in Observations, Acceptable(o)
  PROVE  Acceptable(o)'
<1>1. \A a \in AgentIds : Registered(a) => Registered(a)'
  BY ServiceStepIsStoreStep, StoreStep DEF ServiceTypeOK
<1>. QED
  BY <1>1 DEF Acceptable, Valid, Observations

\* A request that a step leaves alone, or moves past no check, stays checked.
LEMMA CheckedStays ==
  ASSUME ServiceTypeOK, [ServiceNext]_vars, NEW q \in Active, Checked(q)
  PROVE  Checked(q)'
<1>1. \A i \in DOMAIN q.call.batch :
        q.call.kind = "observations" => q.call.batch[i] \in Observations
  BY CallRow DEF Active
<1>. QED
  BY <1>1, AcceptableStays DEF Checked

\* The loop gets past a row only when it is acceptable.
LEMMA ValidateChecks ==
  ASSUME ServiceTypeOK, NEW r \in Requests, req[r] \in Active, Validate(r), Checked(req[r]),
         req[r].row \in DOMAIN req[r].call.batch,
         req[r].call.kind = "observations"
  PROVE  /\ req'[r].pc = "validate" => \A i \in DOMAIN req[r].call.batch :
              i < req'[r].row => Acceptable(req[r].call.batch[i])
         /\ req'[r].pc = "store" => \A i \in DOMAIN req[r].call.batch :
              Acceptable(req[r].call.batch[i])
         /\ req'[r].pc \in {"validate", "store", "reply"} /\ req'[r].call = req[r].call
<1>. DEFINE b == req[r].call.batch
            k == req[r].row
<1>1. /\ req[r].pc = "validate" /\ k \in Nat
      /\ \A i \in DOMAIN b : i < k => Acceptable(b[i])
      /\ DOMAIN b = 1 .. Len(b) /\ Len(b) \in Nat
  BY CallRows DEF Validate, At, Checked, Active
<1>2. CASE Problem(r, 422)
  BY <1>2, ProblemFields
<1>3. CASE Acceptable(b[k]) /\ k + 1 \in DOMAIN b /\ req' = [req EXCEPT ![r].row = @ + 1]
  <2>1. req'[r] = [req[r] EXCEPT !.row = @ + 1]
    BY <1>3 DEF ServiceTypeOK
  <2>2. req'[r].pc = "validate" /\ req'[r].row = k + 1 /\ req'[r].call = req[r].call
    BY <1>1, <2>1 DEF Active
  <2>3. \A i \in DOMAIN b : i < k + 1 => i < k \/ i = k
    BY <1>1
  <2>. QED
    BY <1>1, <1>3, <2>2, <2>3
<1>4. CASE Acceptable(b[k]) /\ k + 1 \notin DOMAIN b /\ Goto(r, "store")
  <2>1. \A i \in DOMAIN b : i < k \/ i = k
    BY <1>1, <1>4
  <2>. QED
    BY <1>1, <1>4, <2>1, GotoFields
<1>. QED
  BY <1>2, <1>3, <1>4 DEF Validate, RowPasses, Row

\* Every step keeps the rows a request has passed acceptable.
LEMMA AllCheckedStep ==
  ASSUME ServiceTypeOK, AllChecked, [ServiceNext]_vars
  PROVE  AllChecked'
<1>1. ASSUME NEW q \in Requests, req'[q] = req[q]
      PROVE  (req[q] # Idle => Checked(req[q]))'
  <2>1. CASE req[q] = Idle
    BY <1>1, <2>1
  <2>2. CASE req[q] # Idle
    <3>1. PICK v \in Active : v = req[q] /\ Checked(v)
      BY <2>2 DEF AllChecked, ServiceTypeOK
    <3>2. Checked(v)'
      BY <3>1, CheckedStays
    <3>3. v = req'[q]
      BY <1>1, <3>1
    <3>. QED
      BY <3>2, <3>3
  <2>. QED
    BY <2>1, <2>2
<1>2. ASSUME NEW r \in Requests, Send(r) \/ Serve(r) \/ Refuse(r)
      PROVE  (req[r] # Idle => Checked(req[r]))'
  <2>1. CASE Send(r)
    BY <2>1 DEF Send, ServiceTypeOK, Checked
  <2>2. CASE EmitAudit(r)
    BY <2>2 DEF EmitAudit, ServiceTypeOK
  <2>. SUFFICES ASSUME ~Send(r), ~EmitAudit(r)
                PROVE  Checked(req[r])'
    BY <2>1, <2>2
  <2>3. PICK v \in Active : v = req[r] /\ Checked(v) /\ v.row \in DOMAIN v.call.batch
    BY <1>2 DEF Serve, Refuse, ReadBody, Authorize, Decode, Validate, OpenCall, GiveUpWaiting,
                CallReturns, CallFails, Ack, At, AllChecked, ServiceTypeOK
  <2>4. Checked(v)'
    BY <2>3, CheckedStays
  <2>5. CASE Refuse(r) \/ GiveUpWaiting(r) \/ CallFails(r)
    <3>1. PICK n \in Nat : Problem(r, n)
      BY <2>5 DEF Refuse, GiveUpWaiting, CallFails
    <3>. QED
      BY <2>3, <3>1, ProblemFields DEF Checked
  <2>6. CASE ReadBody(r) \/ Authorize(r) \/ Decode(r) \/ OpenCall(r)
    <3>1. PICK p \in {"auth", "decode", "validate", "store", "call"} :
            /\ Goto(r, p)
            /\ p \in {"auth", "decode"} => v.pc \in {"audit", "auth"}
            /\ p = "validate" => v.pc = "decode"
            /\ p = "store" => v.call.kind = "agents"
            /\ p = "call" => v.pc = "store"
      BY <2>3, <2>6 DEF ReadBody, Authorize, Decode, OpenCall, At
    <3>2. /\ req'[r].pc = p /\ req'[r].call = v.call /\ req'[r].row = v.row
      BY <2>3, <3>1, GotoFields
    <3>3. v.row \in Nat /\ \A i \in DOMAIN v.call.batch : i \in Nat /\ i >= 1
      BY <2>3, CallRows DEF Active
    <3>4. CASE p \in {"auth", "decode"}
      BY <2>4, <3>1, <3>2, <3>4 DEF Checked
    <3>5. CASE p = "validate"
      <4>1. v.call.kind = "observations" => v.row = 1
        BY <2>3, <3>1, <3>5 DEF Checked
      <4>2. \A i \in DOMAIN v.call.batch : ~(i < 1)
        BY <3>3
      <4>. QED
        BY <3>2, <3>5, <4>1, <4>2 DEF Checked
    <3>6. CASE p = "store"
      BY <3>1, <3>2, <3>6 DEF Checked
    <3>7. CASE p = "call"
      BY <2>4, <3>1, <3>2, <3>7 DEF Checked
    <3>. QED
      BY <3>1, <3>4, <3>5, <3>6, <3>7
  <2>7. CASE Validate(r)
    <3>1. \A o : Acceptable(o)' = Acceptable(o)
      BY <2>7 DEF Validate, Acceptable, Valid, Registered
    <3>2. v.call.kind = "observations" =>
            /\ req'[r].pc = "validate" => \A i \in DOMAIN v.call.batch :
                 i < req'[r].row => Acceptable(v.call.batch[i])
            /\ req'[r].pc = "store" => \A i \in DOMAIN v.call.batch :
                 Acceptable(v.call.batch[i])
            /\ req'[r].pc \in {"validate", "store", "reply"} /\ req'[r].call = v.call
      BY <2>3, <2>7, ValidateChecks
    <3>3. req'[r].call = v.call
      <4>1. CASE Problem(r, 422)
        BY <2>3, <4>1, ProblemFields
      <4>2. CASE Goto(r, "store")
        BY <2>3, <4>2, GotoFields
      <4>3. CASE req' = [req EXCEPT ![r].row = @ + 1]
        BY <2>3, <4>3 DEF ServiceTypeOK, Active
      <4>. QED
        BY <2>7, <4>1, <4>2, <4>3 DEF Validate, RowPasses
    <3>. QED
      BY <3>1, <3>2, <3>3 DEF Checked
  <2>8. CASE CallReturns(r) \/ Ack(r)
    <3>1. req'[r].pc \in {"ack", "reply"}
      BY <2>3, <2>8 DEF CallReturns, Ack, ServiceTypeOK, Active
    <3>. QED
      BY <3>1 DEF Checked
  <2>. QED
    BY <1>2, <2>5, <2>6, <2>7, <2>8 DEF Serve
<1>3. ASSUME NEW r \in Requests, Send(r) \/ Serve(r) \/ Refuse(r)
      PROVE  AllChecked'
  <2>1. \A q \in Requests : q # r => req'[q] = req[q]
    BY <1>3, RequestStep
  <2>2. ASSUME NEW q \in Requests
        PROVE  (req[q] # Idle => Checked(req[q]))'
    BY <1>1, <1>2, <1>3, <2>1
  <2>. QED
    BY <2>2 DEF AllChecked
<1>4. ASSUME req' = req
      PROVE  AllChecked'
  BY <1>1, <1>4 DEF AllChecked
<1>5. CASE Crash
  BY <1>5 DEF Crash, AllChecked
<1>. QED
  BY <1>3, <1>4, <1>5, DetailStep DEF ServiceNext, vars

\* The rows validateObservation has passed stay acceptable while others import.
LEMMA AllCheckedInvariant == ServiceSafety => []AllChecked
<1>1. ServiceInit => AllChecked
  BY DEF ServiceInit, AllChecked
<1>2. ServiceTypeOK /\ AllChecked /\ [ServiceNext]_vars => AllChecked'
  BY AllCheckedStep
<1>. QED
  BY <1>1, <1>2, ServiceTypeInvariant, PTL DEF ServiceSafety

(***************************************************************************)
(* The lookup outside the transaction is safe: a batch that has passed     *)
(* validateObservation is still acceptable whenever the store executes it. *)
(***************************************************************************)
THEOREM ValidatedInvariant == ServiceSafety => []ValidatedStaysValid
<1>1. AllChecked => ValidatedStaysValid
  BY DEF AllChecked, ValidatedStaysValid, Checked, At
<1>. QED
  BY <1>1, AllCheckedInvariant, PTL

(***************************************************************************)
(* The engine is never handed an observation of a derived or unknown       *)
(* signal, of an unknown agent, or with a value Validate refuses.          *)
(***************************************************************************)
THEOREM ScoredInvariant == ServiceSafety => []ScoredIsValid
<1>1. ServiceInit => ScoredIsValid
  BY DEF ServiceInit, Init, ScoredIsValid, Pairs
<1>2. ServiceTypeOK /\ LockHasOneHolder /\ ValidatedStaysValid /\ ScoredIsValid
        /\ [ServiceNext]_vars => ScoredIsValid'
  <2> SUFFICES ASSUME ServiceTypeOK, LockHasOneHolder, ValidatedStaysValid, ScoredIsValid,
                      [ServiceNext]_vars,
                      NEW a \in AgentIds, NEW s \in SignalIds, latest'[<<a, s>>] # NoObservation
               PROVE  /\ Registered(a)'
                      /\ s \in Importable
                      /\ <<s, latest'[<<a, s>>].value>> \in ValidValues
    BY DEF ScoredIsValid
  <2>. DEFINE p == <<a, s>>
  <2>1. Registered(a) => Registered(a)'
    BY ServiceStepIsStoreStep, StoreStep DEF ServiceTypeOK
  <2>2. CASE latest'[p] = latest[p]
    BY <2>1, <2>2 DEF ScoredIsValid
  <2>3. CASE latest'[p] # latest[p]
    <3>1. PICK r \in Requests : CallReturns(r) /\ call.kind = "observations"
      <4>1. p \in Pairs
        BY DEF Pairs
      <4>2. latest' # latest
        BY <2>3
      <4>3. PICK r \in Requests : CallReturns(r)
        BY <4>2, OutsideTheStore, DetailStep
        DEF ServiceNext, Serve, OpenCall, Call, CallFails, Fail, Crash, vars
      <4>. QED
        BY <4>2, <4>3 DEF CallReturns, Succeed, ImportAgents
    <3>2. /\ req[r].call = call /\ At(r, "call") /\ call \in Calls
          /\ ImportObservations(call.batch)
      BY <3>1 DEF CallReturns, Succeed, LockHasOneHolder, ServiceTypeOK, At, Active
    <3>3. PICK i \in DOMAIN call.batch :
            PairOf(call.batch[i]) = p /\ latest'[p] = Reading(call.batch[i])
      <4>1. latest'[p] \in ReadingsFor(call.batch, p)
        BY <2>3, <3>2 DEF ImportObservations, Pairs
      <4>. QED
        BY <4>1 DEF ReadingsFor
    <3>4. Acceptable(call.batch[i])
      BY <3>1, <3>2 DEF ValidatedStaysValid
    <3>5. call.batch[i].agent = a /\ call.batch[i].signal = s
      BY <3>3 DEF PairOf
    <3>6. latest'[p].value = call.batch[i].value
      BY <3>3 DEF Reading
    <3>. QED
      BY <2>1, <3>4, <3>5, <3>6 DEF Acceptable, Valid
  <2>. QED
    BY <2>2, <2>3
<1>. QED
  BY <1>1, <1>2, ServiceTypeInvariant, LockInvariant, ValidatedInvariant, PTL DEF ServiceSafety

(***************************************************************************)
(* Detail requests.                                                        *)
(***************************************************************************)

\* What a detail request has read so far lies between the store of its arrival
\* and the store of now.
Current(a, s) == latest[<<a, s>>]

Between(v) ==
  /\ v.known => Registered(v.agent)
  /\ \A s \in SignalIds : AsNew(Current(v.agent, s), v.floor[s])
  /\ v.row <= Len(Registry)
  /\ \A i \in 1 .. v.row :
       /\ AsNew(v.read[Registry[i]], v.floor[Registry[i]])
       /\ AsNew(Current(v.agent, Registry[i]), v.read[Registry[i]])
  /\ v.pc = "answer" /\ v.status = 404 => ~v.known
  /\ v.pc = "answer" /\ v.status = 200 => v.row = Len(Registry)

AllBetween == \A d \in Readers : view[d] # Idle => Between(view[d])

\* Every registered signal is a signal.
LEMMA RegistryElements ==
  /\ Len(Registry) \in Nat /\ DOMAIN Registry = 1 .. Len(Registry)
  /\ \A i \in 1 .. Len(Registry) : Registry[i] \in SignalIds
  BY ServiceConstants

\* The store moving on leaves a request between.
LEMMA BetweenStays ==
  ASSUME ServiceTypeOK, [ServiceNext]_vars, NEW v \in Detail, Between(v)
  PROVE  Between(v)'
<1>1. /\ Registered(v.agent) => Registered(v.agent)'
      /\ \A s \in SignalIds : \/ Current(v.agent, s)' = Current(v.agent, s)
                              \/ NewerReading(Current(v.agent, s)', Current(v.agent, s))
      /\ \A s \in SignalIds : /\ Current(v.agent, s) \in Readings \cup {NoObservation}
                              /\ Current(v.agent, s)' \in Readings \cup {NoObservation}
  BY ServiceStepIsStoreStep, StoreStep
  DEF ServiceTypeOK, PromiseTypeOK, Pairs, Current, Detail
<1>2. \A s \in SignalIds : /\ v.floor[s] \in Readings \cup {NoObservation}
                          /\ v.read[s] \in Readings \cup {NoObservation}
  BY DEF Detail, Reported
<1>3. \A s \in SignalIds : AsNew(Current(v.agent, s)', v.floor[s])
  BY <1>1, <1>2, AsNewTransitive DEF Between
<1>4. \A i \in 1 .. v.row : Registry[i] \in SignalIds
  BY RegistryElements DEF Between, Detail
<1>5. \A i \in 1 .. v.row : AsNew(Current(v.agent, Registry[i])', v.read[Registry[i]])
  BY <1>1, <1>2, <1>4, AsNewTransitive DEF Between
<1>. QED
  BY <1>1, <1>3, <1>5 DEF Between

\* Each step of the request itself keeps it between.
LEMMA DetailBetween ==
  ASSUME ServiceTypeOK, AllBetween, NEW d \in Readers, Ask(d) \/ Evaluate(d) \/ DetailFails(d)
  PROVE  view'[d] # Idle => Between(view'[d])
<1>1. CASE Ask(d)
  <2>1. PICK a \in AgentIds :
          view' = [view EXCEPT ![d] =
                     [pc |-> "lookup", agent |-> a, row |-> 0,
                      read |-> [s \in SignalIds |-> NoObservation], status |-> 0,
                      known |-> Registered(a), floor |-> AnswersOf(a)]]
    BY <1>1 DEF Ask
  <2>2. \A s \in SignalIds : AsNew(Current(a, s), AnswersOf(a)[s])
    BY AsNewTransitive DEF Current, AnswersOf, ServiceTypeOK, PromiseTypeOK, Pairs
  <2>. QED
    BY <2>1, <2>2, RegistryElements DEF ServiceTypeOK, Between
<1>2. CASE Answer(d)
  BY <1>2 DEF Answer, ServiceTypeOK
<1>3. CASE ReadNext(d) \/ Lookup(d) \/ Scored(d) \/ DetailFails(d)
  <2>1. view[d] \in Detail /\ Between(view[d])
    BY <1>3 DEF ReadNext, Lookup, Scored, DetailFails, Viewing, ServiceTypeOK, AllBetween
  <2>2. CASE view' = [view EXCEPT ![d].pc = "score"]
    BY <2>1, <2>2 DEF ServiceTypeOK, Between, Detail
  <2>3. ASSUME NEW n \in Nat, AnswerWith(d, n),
               n = 404 => ~Registered(view[d].agent),
               n = 200 => view[d].row = Len(Registry)
        PROVE  Between(view'[d])
    BY <2>1, <2>3 DEF AnswerWith, ServiceTypeOK, Between, Detail
  <2>4. CASE ReadNext(d)
    <3>. DEFINE v == view[d]
                k == v.row + 1
                s == Registry[k]
                w == [v EXCEPT !.row = @ + 1, !.read[s] = latest[<<v.agent, s>>]]
    <3>1. v.row < Len(Registry) /\ v.pc = "score" /\ v.row \in Nat /\ s \in SignalIds
      BY <2>1, <2>4, RegistryElements DEF ReadNext, Viewing, Detail
    <3>2. view'[d] = w
      BY <2>4 DEF ReadNext, ServiceTypeOK
    <3>3. /\ w.pc = "score" /\ w.row = k /\ w.agent = v.agent /\ w.floor = v.floor
          /\ w.known = v.known
          /\ w.read[s] = Current(v.agent, s)
          /\ \A t \in SignalIds : t # s => w.read[t] = v.read[t]
      BY <2>1, <3>1 DEF Detail, Current
    <3>4. /\ AsNew(Current(v.agent, s), v.floor[s]) /\ Current(v.agent, s) \in Readings \cup {NoObservation}
      BY <2>1, <3>1 DEF Between, Current, ServiceTypeOK, PromiseTypeOK, Pairs, Detail
    <3>5. ASSUME NEW i \in 1 .. k
          PROVE  /\ AsNew(w.read[Registry[i]], v.floor[Registry[i]])
                 /\ AsNew(Current(v.agent, Registry[i]), w.read[Registry[i]])
      <4>1. CASE Registry[i] = s
        BY <3>3, <3>4, <4>1, AsNewTransitive
      <4>2. CASE Registry[i] # s
        <5>1. i \in 1 .. v.row /\ Registry[i] \in SignalIds
          BY <3>1, <4>2, RegistryElements
        <5>. QED
          BY <2>1, <3>3, <4>2, <5>1 DEF Between
      <4>. QED
        BY <4>1, <4>2
    <3>6. k <= Len(Registry)
      BY <3>1, RegistryElements
    <3>. QED
      BY <2>1, <3>2, <3>3, <3>5, <3>6 DEF Between
  <2>. QED
    BY <1>3, <2>2, <2>3, <2>4 DEF Lookup, Scored, DetailFails
<1>. QED
  BY <1>1, <1>2, <1>3 DEF Evaluate

\* Every step keeps what a detail request has read between the readings of its
\* arrival and the store's present ones.
LEMMA AllBetweenStep ==
  ASSUME ServiceTypeOK, AllBetween, [ServiceNext]_vars
  PROVE  AllBetween'
<1>1. ASSUME NEW e \in Readers, view'[e] = view[e]
      PROVE  (view[e] # Idle => Between(view[e]))'
  <2>1. CASE view[e] = Idle
    BY <1>1, <2>1
  <2>2. CASE view[e] # Idle
    <3>1. PICK v \in Detail : v = view[e] /\ Between(v)
      BY <2>2 DEF AllBetween, ServiceTypeOK
    <3>2. Between(v)' /\ v = view'[e]
      BY <1>1, <3>1, BetweenStays
    <3>. QED
      BY <3>2
  <2>. QED
    BY <2>1, <2>2
<1>2. ASSUME NEW d \in Readers, Ask(d) \/ Evaluate(d) \/ DetailFails(d)
      PROVE  AllBetween'
  <2>1. UNCHANGED <<agent, latest>> /\ \A e \in Readers : e # d => view'[e] = view[e]
    BY <1>2, DetailStep
  <2>2. (view[d] # Idle => Between(view[d]))'
    <3>1. view'[d] # Idle => Between(view'[d])
      BY <1>2, DetailBetween
    <3>2. \A v : Between(v)' = Between(v)
      BY <2>1 DEF Between, Registered, Current
    <3>. QED
      BY <3>1, <3>2
  <2>3. ASSUME NEW e \in Readers
        PROVE  (view[e] # Idle => Between(view[e]))'
    BY <1>1, <2>1, <2>2, <2>3
  <2>. QED
    BY <2>3 DEF AllBetween
<1>3. ASSUME view' = view
      PROVE  AllBetween'
  BY <1>1, <1>3 DEF AllBetween
<1>4. CASE Crash
  BY <1>4 DEF Crash, AllBetween
<1>. QED
  BY <1>2, <1>3, <1>4, RequestStep DEF ServiceNext, vars

(***************************************************************************)
(* Detail answers are regular: signal by signal, what a client is told is  *)
(* at least what was stored when it asked (so it reads its own acknowl-    *)
(* edged writes, and never goes back in time), and a 404 was true on       *)
(* arrival (search.Service.Detail, engine.Evaluate).                       *)
(***************************************************************************)
THEOREM DetailInvariant == ServiceSafety => []DetailFresh
<1>1. ServiceInit => AllBetween
  BY DEF ServiceInit, AllBetween
<1>2. ServiceTypeOK /\ AllBetween /\ [ServiceNext]_vars => AllBetween'
  BY AllBetweenStep
<1>3. ServiceTypeOK /\ AllBetween => DetailFresh
  <2> SUFFICES ASSUME ServiceTypeOK, AllBetween, NEW d \in Readers, Viewing(d, "answer")
               PROVE  /\ view[d].status = 404 => ~view[d].known
                      /\ view[d].status = 200 =>
                           \A i \in DOMAIN Registry :
                             LET s == Registry[i]
                             IN  /\ AsNew(view[d].read[s], view[d].floor[s])
                                 /\ AsNew(latest[<<view[d].agent, s>>], view[d].read[s])
    BY DEF DetailFresh
  <2>1. Between(view[d]) /\ view[d].pc = "answer"
    BY DEF Viewing, AllBetween
  <2>. QED
    BY <2>1, RegistryElements DEF Between, Current
<1>. QED
  BY <1>1, <1>2, <1>3, ServiceTypeInvariant, PTL DEF ServiceSafety

(***************************************************************************)
(* The end of a request: a measure of the steps that are left.             *)
(***************************************************************************)

\* The steps an import request may still take: those of its handler, and one
\* for each row that is still to be validated.
StepsOf(q) ==
  CASE q.pc = "audit"    -> Len(q.call.batch) + 7
    [] q.pc = "auth"     -> Len(q.call.batch) + 6
    [] q.pc = "decode"   -> Len(q.call.batch) + 5
    [] q.pc = "validate" -> Len(q.call.batch) - q.row + 5
    [] q.pc = "store"    -> 4
    [] q.pc = "call"     -> 3
    [] q.pc = "ack"      -> 2
    [] q.pc = "reply"    -> 1

StepsLeft(r) == IF req[r] = Idle THEN 0 ELSE StepsOf(req[r])

\* The steps a detail request may still take: one for each signal, and three.
ReadsOf(v) ==
  CASE v.pc = "lookup" -> Len(Registry) + 3
    [] v.pc = "score"  -> Len(Registry) - v.row + 2
    [] v.pc = "answer" -> 1

ReadsLeft(d) == IF view[d] = Idle THEN 0 ELSE ReadsOf(view[d])

\* What is left is within the bound, and none only of a request that is over.
LeftIsBounded ==
  /\ \A r \in Requests : /\ StepsLeft(r) \in 0 .. MaxBatch + 7
                         /\ req[r] # Idle => StepsLeft(r) > 0
  /\ \A d \in Readers : /\ ReadsLeft(d) \in 0 .. Len(Registry) + 3
                        /\ view[d] # Idle => ReadsLeft(d) > 0

\* Every step of a request lowers what is left of it, refused or served, and
\* nothing the other clients do, and no restart, raises it.
RequestsShrink ==
  [][/\ \A r \in Requests :
          /\ Serve(r) \/ Refuse(r) => StepsLeft(r)' < StepsLeft(r)
          /\ ~Send(r) => StepsLeft(r)' <= StepsLeft(r)
     /\ \A d \in Readers :
          /\ Evaluate(d) \/ DetailFails(d) => ReadsLeft(d)' < ReadsLeft(d)
          /\ ~Ask(d) => ReadsLeft(d)' <= ReadsLeft(d)]_vars

\* The length of a batch is within its bound.
LEMMA BatchLength ==
  ASSUME NEW c \in Calls
  PROVE  Len(c.batch) \in 1 .. MaxBatch /\ DOMAIN c.batch = 1 .. Len(c.batch)
<1>1. PICK n \in 1 .. MaxBatch : \E S : c.batch \in [1 .. n -> S]
  BY DEF Calls, Batches
<1>2. DOMAIN c.batch = 1 .. n /\ n \in Nat
  BY <1>1, StoreConstants
<1>3. Len(c.batch) = n
  BY <1>2, CallRows
<1>. QED
  BY <1>1, <1>2, <1>3

\* A request at one of its steps has some left, and no more than the bound.
LEMMA StepsCounted ==
  ASSUME NEW q \in Active, q.row \in DOMAIN q.call.batch
  PROVE  StepsOf(q) \in 1 .. MaxBatch + 7
<1>1. q.call \in Calls /\ q.row \in Nat
      /\ q.pc \in {"audit", "auth", "decode", "validate", "store", "call", "ack", "reply"}
  BY DEF Active
<1>. DEFINE n == Len(q.call.batch)
<1>2. n \in 1 .. MaxBatch /\ q.row \in 1 .. n /\ MaxBatch \in Nat
  BY <1>1, BatchLength, StoreConstants
<1>3. StepsOf(q) = CASE q.pc = "audit"    -> n + 7
                     [] q.pc = "auth"     -> n + 6
                     [] q.pc = "decode"   -> n + 5
                     [] q.pc = "validate" -> n - q.row + 5
                     [] q.pc = "store"    -> 4
                     [] q.pc = "call"     -> 3
                     [] q.pc = "ack"      -> 2
                     [] q.pc = "reply"    -> 1
  BY DEF StepsOf
<1>. HIDE DEF n
<1>. QED
  BY <1>1, <1>2, <1>3

\* The same of a detail request.
LEMMA ReadsCounted ==
  ASSUME NEW v \in Detail, v.row <= Len(Registry)
  PROVE  ReadsOf(v) \in 1 .. Len(Registry) + 3
<1>1. v.row \in Nat /\ v.pc \in {"lookup", "score", "answer"} /\ Len(Registry) \in Nat
  BY RegistryElements DEF Detail
<1>. QED
  BY <1>1 DEF ReadsOf

\* Every step of an import request lowers what is left of it.
LEMMA ServeShrinks ==
  ASSUME ServiceTypeOK, NEW r \in Requests, Serve(r) \/ Refuse(r)
  PROVE  StepsLeft(r)' < StepsLeft(r)
<1>0. req \in [Requests -> Active \cup {Idle}]
  BY DEF ServiceTypeOK
<1>1. req[r] # Idle /\ req[r] \in Active /\ req[r].row \in DOMAIN req[r].call.batch
  BY <1>0 DEF ServiceTypeOK, Serve, Refuse, ReadBody, Authorize, Decode, Validate,
              OpenCall, GiveUpWaiting, CallReturns, CallFails, Ack, EmitAudit, At
<1>. DEFINE q == req[r]
            n == Len(req[r].call.batch)
<1>2. n \in Nat /\ q.row \in Nat /\ q.row <= n /\ DOMAIN q.call.batch = 1 .. n
      /\ StepsOf(q) > 0 /\ StepsOf(q) \in Nat
  BY <1>1, BatchLength, StepsCounted, StoreConstants DEF Active
<1>3. StepsLeft(r) = StepsOf(q)
  BY <1>1 DEF StepsLeft
<1>4. ASSUME NEW p \in {"auth", "decode", "validate", "store", "call"}, Goto(r, p)
      PROVE  \E w \in Active : /\ StepsLeft(r)' = StepsOf(w) /\ w.pc = p
                              /\ w.call = q.call /\ w.row = q.row
  <2>. DEFINE w == [req[r] EXCEPT !.pc = p]
  <2>1. w \in Active /\ w.pc = p /\ w.call = q.call /\ w.row = q.row
    BY <1>1 DEF Active
  <2>2. req'[r] = w /\ w # Idle
    BY <1>0, <1>4, <2>1, IdleIsIdle DEF Goto
  <2>3. StepsLeft(r)' = StepsOf(w)
    BY <2>2 DEF StepsLeft, StepsOf
  <2>. QED
    BY <2>1, <2>3
<1>5. ASSUME NEW status \in Nat, Problem(r, status), q.pc # "reply"
      PROVE  StepsLeft(r)' < StepsLeft(r)
  <2>1. req'[r] # Idle /\ req'[r].pc = "reply"
    BY <1>1, <1>5, ProblemFields, IdleIsIdle
  <2>2. StepsLeft(r)' = 1
    BY <2>1 DEF StepsLeft, StepsOf
  <2>3. StepsOf(q) > 1
    BY <1>1, <1>2, <1>5 DEF StepsOf, Active
  <2>. QED
    BY <1>2, <1>3, <2>2, <2>3
<1>6. CASE Refuse(r) \/ GiveUpWaiting(r) \/ CallFails(r)
  BY <1>5, <1>6 DEF Refuse, GiveUpWaiting, CallFails, At
<1>7. CASE ReadBody(r)
  BY <1>2, <1>3, <1>4, <1>7 DEF ReadBody, At, StepsOf
<1>8. CASE Authorize(r)
  BY <1>2, <1>3, <1>4, <1>8 DEF Authorize, At, StepsOf
<1>9. CASE Decode(r)
  <2>1. CASE Goto(r, "store")
    BY <1>2, <1>3, <1>4, <1>9, <2>1 DEF Decode, At, StepsOf
  <2>2. CASE Goto(r, "validate")
    <3>1. StepsOf(q) = n + 5
      BY <1>9 DEF Decode, At, StepsOf
    <3>2. StepsLeft(r)' = n - q.row + 5
      BY <1>4, <2>2 DEF StepsOf
    <3>3. q.row > 0
      BY <1>1, <1>2
    <3>. HIDE DEF n, q
    <3>. QED
      BY <1>2, <1>3, <3>1, <3>2, <3>3
  <2>. QED
    BY <1>9, <2>1, <2>2 DEF Decode
<1>10. CASE Validate(r)
  <2>0. q.pc = "validate" /\ StepsOf(q) = n - q.row + 5
    BY <1>10 DEF Validate, At, StepsOf
  <2>1. CASE \E status \in Nat : Problem(r, status)
    BY <1>5, <2>0, <2>1
  <2>2. CASE Goto(r, "store")
    <3>1. StepsLeft(r)' = 4
      BY <1>4, <2>2 DEF StepsOf
    <3>. QED
      BY <1>2, <1>3, <2>0, <3>1
  <2>3. CASE RowPasses(r) /\ q.row + 1 \in DOMAIN q.call.batch
    <3>. DEFINE p == [req[r] EXCEPT !.row = @ + 1]
    <3>1. p \in Active /\ p.pc = q.pc /\ p.call = q.call /\ p.row = q.row + 1
      BY <1>1, <1>2 DEF Active
    <3>2. req'[r] = p /\ p # Idle
      BY <1>0, <2>3, <3>1, IdleIsIdle DEF RowPasses
    <3>3. StepsLeft(r)' = StepsOf(p)
      BY <3>2 DEF StepsLeft, StepsOf
    <3>4. StepsOf(p) = n - (q.row + 1) + 5
      BY <2>0, <3>1 DEF StepsOf
    <3>. HIDE DEF p, q, n
    <3>. QED
      BY <1>2, <1>3, <2>0, <3>3, <3>4
  <2>. QED
    BY <1>10, <2>1, <2>2, <2>3 DEF Validate, RowPasses
<1>11. CASE OpenCall(r)
  BY <1>2, <1>3, <1>4, <1>11 DEF OpenCall, At, StepsOf
<1>12. CASE CallReturns(r)
  <2>. DEFINE p == [req[r] EXCEPT !.pc = "ack", !.committed = TRUE]
  <2>1. p \in Active /\ p.pc = "ack"
    BY <1>1 DEF Active
  <2>2. req'[r] = p /\ p # Idle
    BY <1>0, <1>12, <2>1, IdleIsIdle DEF CallReturns
  <2>3. StepsLeft(r)' = 2 /\ StepsOf(q) = 3
    BY <1>12, <2>1, <2>2 DEF StepsLeft, StepsOf, CallReturns, At
  <2>. QED
    BY <1>3, <2>3
<1>13. CASE Ack(r)
  <2>. DEFINE p == [req[r] EXCEPT !.pc = "reply", !.status = 200,
                                  !.accepted = Len(req[r].call.batch)]
  <2>1. p \in Active /\ p.pc = "reply"
    BY <1>1, <1>2 DEF Active
  <2>2. req'[r] = p /\ p # Idle
    BY <1>0, <1>13, <2>1, IdleIsIdle DEF Ack
  <2>3. StepsLeft(r)' = 1 /\ StepsOf(q) = 2
    BY <1>13, <2>1, <2>2 DEF StepsLeft, StepsOf, Ack, At
  <2>. QED
    BY <1>3, <2>3
<1>14. CASE EmitAudit(r)
  BY <1>0, <1>2, <1>3, <1>14 DEF EmitAudit, StepsLeft
<1>. QED
  BY <1>6, <1>7, <1>8, <1>9, <1>10, <1>11, <1>12, <1>13, <1>14 DEF Serve

\* Every step of a detail request lowers what is left of it.
LEMMA EvaluateShrinks ==
  ASSUME ServiceTypeOK, AllBetween, NEW d \in Readers, Evaluate(d) \/ DetailFails(d)
  PROVE  ReadsLeft(d)' < ReadsLeft(d)
<1>0. view \in [Readers -> Detail \cup {Idle}]
  BY DEF ServiceTypeOK
<1>1. view[d] # Idle /\ view[d] \in Detail /\ view[d].row <= Len(Registry)
  BY <1>0 DEF AllBetween, Between, Evaluate, DetailFails, Lookup, ReadNext, Scored,
              Answer, Viewing
<1>. DEFINE v == view[d]
<1>2. v.row \in Nat /\ Len(Registry) \in Nat /\ v.pc \in {"lookup", "score", "answer"}
      /\ ReadsOf(v) \in Nat /\ ReadsOf(v) > 0 /\ ReadsLeft(d) = ReadsOf(v)
  BY <1>1, RegistryElements, ReadsCounted DEF Detail, ReadsLeft
<1>3. ASSUME NEW status \in Nat, AnswerWith(d, status), v.pc # "answer"
      PROVE  ReadsLeft(d)' < ReadsLeft(d)
  <2>. DEFINE w == [view[d] EXCEPT !.pc = "answer", !.status = status]
  <2>1. w \in Detail /\ w.pc = "answer"
    BY <1>1 DEF Detail
  <2>2. view'[d] = w /\ w # Idle
    BY <1>0, <1>3, <2>1, IdleIsIdle DEF AnswerWith
  <2>3. ReadsLeft(d)' = 1
    BY <2>1, <2>2 DEF ReadsLeft, ReadsOf
  <2>4. ReadsOf(v) > 1
    BY <1>1, <1>2, <1>3 DEF ReadsOf
  <2>. QED
    BY <1>2, <2>3, <2>4
<1>4. CASE Answer(d)
  BY <1>0, <1>2, <1>4 DEF Answer, ReadsLeft
<1>5. CASE v.pc = "lookup" /\ view' = [view EXCEPT ![d].pc = "score"]
  <2>. DEFINE w == [view[d] EXCEPT !.pc = "score"]
  <2>1. w \in Detail /\ w.pc = "score" /\ w.row = v.row
    BY <1>1 DEF Detail
  <2>2. view'[d] = w /\ w # Idle
    BY <1>0, <1>5, <2>1, IdleIsIdle
  <2>3. ReadsLeft(d)' = Len(Registry) - v.row + 2
    BY <2>1, <2>2 DEF ReadsLeft, ReadsOf
  <2>4. ReadsOf(v) = Len(Registry) + 3
    BY <1>5 DEF ReadsOf
  <2>. QED
    BY <1>2, <2>3, <2>4
<1>6. CASE ReadNext(d)
  <2>1. v.pc = "score" /\ v.row < Len(Registry) /\ Registry[v.row + 1] \in SignalIds
    BY <1>2, <1>6, RegistryElements DEF ReadNext, Viewing
  <2>. DEFINE s == Registry[v.row + 1]
              w == [view[d] EXCEPT !.row = @ + 1, !.read[s] = latest[<<view[d].agent, s>>]]
  <2>2. w.pc = v.pc /\ w.row = v.row + 1
    BY <1>1 DEF Detail
  <2>3. view'[d] = w
    BY <1>0, <1>6 DEF ReadNext
  <2>4. w # Idle
    <3>1. latest[<<v.agent, s>>] \in Reported /\ v.row + 1 \in Nat
      BY <1>1, <1>2, <2>1 DEF ServiceTypeOK, PromiseTypeOK, Pairs, Detail, Reported
    <3>2. w \in Detail
      BY <1>1, <2>1, <3>1 DEF Detail
    <3>. QED
      BY <3>2, IdleIsIdle
  <2>5. ReadsLeft(d)' = Len(Registry) - (v.row + 1) + 2
    BY <2>1, <2>2, <2>3, <2>4 DEF ReadsLeft, ReadsOf
  <2>6. ReadsOf(v) = Len(Registry) - v.row + 2
    BY <2>1 DEF ReadsOf
  <2>. QED
    BY <1>2, <2>5, <2>6
<1>. QED
  BY <1>2, <1>3, <1>4, <1>5, <1>6 DEF Evaluate, DetailFails, Lookup, Scored, Viewing

\* What the measures rest on, in the state before and after a step.
LeftFacts ==
  /\ \A r \in Requests : /\ StepsLeft(r) \in 0 .. MaxBatch + 7
                         /\ req[r] = Idle => StepsLeft(r) = 0
                         /\ req[r] # Idle => StepsLeft(r) > 0
  /\ \A d \in Readers : /\ ReadsLeft(d) \in 0 .. Len(Registry) + 3
                        /\ view[d] = Idle => ReadsLeft(d) = 0
                        /\ view[d] # Idle => ReadsLeft(d) > 0

\* The shapes make the measures numbers, positive exactly while the request is
\* there.
LEMMA LeftMeasured == ServiceTypeOK /\ AllBetween => LeftFacts
<1>. SUFFICES ASSUME ServiceTypeOK, AllBetween PROVE LeftFacts
  OBVIOUS
<1>0. MaxBatch \in Nat /\ Len(Registry) \in Nat
  BY StoreConstants, RegistryElements
<1>1. ASSUME NEW r \in Requests, req[r] # Idle
      PROVE  StepsLeft(r) \in 1 .. MaxBatch + 7
  <2>1. req[r] \in Active /\ req[r].row \in DOMAIN req[r].call.batch
    BY <1>1 DEF ServiceTypeOK
  <2>. QED
    BY <1>1, <2>1, StepsCounted DEF StepsLeft
<1>2. ASSUME NEW d \in Readers, view[d] # Idle
      PROVE  ReadsLeft(d) \in 1 .. Len(Registry) + 3
  <2>1. view[d] \in Detail /\ view[d].row <= Len(Registry)
    BY <1>2 DEF ServiceTypeOK, AllBetween, Between
  <2>. QED
    BY <1>2, <2>1, ReadsCounted DEF ReadsLeft
<1>3. /\ \A r \in Requests : req[r] = Idle => StepsLeft(r) = 0
      /\ \A d \in Readers : view[d] = Idle => ReadsLeft(d) = 0
  BY DEF StepsLeft, ReadsLeft
<1>. QED
  BY <1>0, <1>1, <1>2, <1>3 DEF LeftFacts

\* A step of one request leaves the others and the other kind what they have
\* left; a restart ends them all.
LEMMA LeftStep ==
  ASSUME ServiceTypeOK, AllBetween, LeftFacts, LeftFacts', ServiceNext
  PROVE  /\ \A r \in Requests :
               /\ Serve(r) \/ Refuse(r) => StepsLeft(r)' < StepsLeft(r)
               /\ ~Send(r) => StepsLeft(r)' <= StepsLeft(r)
         /\ \A d \in Readers :
               /\ Evaluate(d) \/ DetailFails(d) => ReadsLeft(d)' < ReadsLeft(d)
               /\ ~Ask(d) => ReadsLeft(d)' <= ReadsLeft(d)
<1>1. /\ \A r \in Requests : Serve(r) \/ Refuse(r) => StepsLeft(r)' < StepsLeft(r)
      /\ \A d \in Readers : Evaluate(d) \/ DetailFails(d) => ReadsLeft(d)' < ReadsLeft(d)
  BY ServeShrinks, EvaluateShrinks
<1>2. /\ \A r \in Requests : StepsLeft(r) \in Nat /\ StepsLeft(r)' \in Nat
      /\ \A d \in Readers : ReadsLeft(d) \in Nat /\ ReadsLeft(d)' \in Nat
  <2>1. MaxBatch' = MaxBatch /\ Len(Registry)' = Len(Registry)
    OBVIOUS
  <2>. QED
    BY <2>1, StoreConstants, RegistryElements DEF LeftFacts
<1>3. /\ \A r \in Requests : req'[r] = req[r] => StepsLeft(r)' = StepsLeft(r)
      /\ \A d \in Readers : view'[d] = view[d] => ReadsLeft(d)' = ReadsLeft(d)
  <2>1. ASSUME NEW r \in Requests, req'[r] = req[r] PROVE StepsLeft(r)' = StepsLeft(r)
    BY <2>1 DEF StepsLeft, StepsOf
  <2>2. ASSUME NEW d \in Readers, view'[d] = view[d] PROVE ReadsLeft(d)' = ReadsLeft(d)
    BY <2>2 DEF ReadsLeft, ReadsOf
  <2>. QED
    BY <2>1, <2>2
<1>4. ASSUME NEW r \in Requests, ~Send(r) PROVE StepsLeft(r)' <= StepsLeft(r)
  <2>1. ASSUME NEW q \in Requests, Send(q) \/ Serve(q) \/ Refuse(q)
        PROVE  StepsLeft(r)' <= StepsLeft(r)
    BY <1>1, <1>2, <1>3, <1>4, <2>1, RequestStep
  <2>2. ASSUME NEW d \in Readers, Ask(d) \/ Evaluate(d) \/ DetailFails(d)
        PROVE  StepsLeft(r)' <= StepsLeft(r)
    BY <1>2, <1>3, <2>2, DetailStep
  <2>3. CASE Crash
    <3>1. req'[r] = Idle
      BY <2>3 DEF Crash
    <3>2. StepsLeft(r)' = 0
      BY <3>1 DEF StepsLeft
    <3>. QED
      BY <1>2, <3>2
  <2>. QED
    BY <2>1, <2>2, <2>3 DEF ServiceNext
<1>5. ASSUME NEW d \in Readers, ~Ask(d) PROVE ReadsLeft(d)' <= ReadsLeft(d)
  <2>1. ASSUME NEW e \in Readers, Ask(e) \/ Evaluate(e) \/ DetailFails(e)
        PROVE  ReadsLeft(d)' <= ReadsLeft(d)
    BY <1>1, <1>2, <1>3, <1>5, <2>1, DetailStep
  <2>2. ASSUME NEW q \in Requests, Send(q) \/ Serve(q) \/ Refuse(q)
        PROVE  ReadsLeft(d)' <= ReadsLeft(d)
    BY <1>2, <1>3, <2>2, RequestStep
  <2>3. CASE Crash
    <3>1. view'[d] = Idle
      BY <2>3 DEF Crash
    <3>2. ReadsLeft(d)' = 0
      BY <3>1 DEF ReadsLeft
    <3>. QED
      BY <1>2, <3>2
  <2>. QED
    BY <2>1, <2>2, <2>3 DEF ServiceNext
<1>. QED
  BY <1>1, <1>4, <1>5

(***************************************************************************)
(* No request goes on for ever: an import takes at most a step for each    *)
(* row of its batch and seven of its handler, a detail request one for     *)
(* each signal and three, whatever the other clients send meanwhile,       *)
(* however often the lock is taken before it, and on every error path      *)
(* (importsvc handler.go, search.Service.Detail, engine.Evaluate).         *)
(***************************************************************************)
THEOREM RequestsAreBounded == ServiceSafety => []LeftIsBounded /\ RequestsShrink
<1>. DEFINE Shrink ==
       /\ \A r \in Requests :
            /\ Serve(r) \/ Refuse(r) => StepsLeft(r)' < StepsLeft(r)
            /\ ~Send(r) => StepsLeft(r)' <= StepsLeft(r)
       /\ \A d \in Readers :
            /\ Evaluate(d) \/ DetailFails(d) => ReadsLeft(d)' < ReadsLeft(d)
            /\ ~Ask(d) => ReadsLeft(d)' <= ReadsLeft(d)
<1>1. ServiceSafety => []AllBetween
  <2>1. ServiceInit => AllBetween
    BY DEF ServiceInit, AllBetween
  <2>2. ServiceTypeOK /\ AllBetween /\ [ServiceNext]_vars => AllBetween'
    BY AllBetweenStep
  <2>. QED
    BY <2>1, <2>2, ServiceTypeInvariant, PTL DEF ServiceSafety
<1>2. ServiceSafety => []LeftFacts
  BY <1>1, LeftMeasured, ServiceTypeInvariant, PTL
<1>3. ServiceTypeOK /\ AllBetween /\ LeftFacts /\ LeftFacts' /\ [ServiceNext]_vars
        => [Shrink]_vars
  BY LeftStep
<1>4. ServiceSafety => [][Shrink]_vars
  BY <1>1, <1>2, <1>3, ServiceTypeInvariant, PTL DEF ServiceSafety
<1>5. LeftFacts => LeftIsBounded
  BY DEF LeftFacts, LeftIsBounded
<1>. QED
  BY <1>2, <1>4, <1>5, PTL DEF RequestsShrink

(***************************************************************************)
(* The whole history of imports: a store is a register of newest readings. *)
(***************************************************************************)

\* History: the readings of each pair that committed calls have carried.
VARIABLE heard

HearCommitted ==
  heard' = IF call # NoCall /\ call.kind = "observations" /\ \E r \in Requests : CallReturns(r)
           THEN [p \in Pairs |-> heard[p] \cup ReadingsFor(call.batch, p)]
           ELSE heard

\* The service, with its history.
HeardSpec ==
  /\ ServiceInit /\ heard = [p \in Pairs |-> {}]
  /\ [][ServiceNext /\ HearCommitted]_<<vars, heard>>

\* The newest of some readings, or nothing where there is none.
NewestOf(reading, readings) ==
  /\ reading \in readings \cup {NoObservation}
  /\ \A r \in readings : AsNew(reading, r)

\* What is read of a pair is the newest of all that was ever committed of it:
\* late batches, retries, crashes and failed calls leave no other trace.
ReadsTheNewest == \A p \in Pairs : NewestOf(latest[p], heard[p])

\* No two readings differ within a second.
NoTie(readings) == \A r, s \in readings : r.at = s.at => r = s

HeardTypeOK == heard \in [Pairs -> SUBSET Readings]

\* A batch carries readings.
LEMMA CarriedReadings ==
  ASSUME NEW c \in Calls, c.kind = "observations", NEW p \in Pairs
  PROVE  ReadingsFor(c.batch, p) \subseteq Readings
BY CallRow DEF ReadingsFor

\* Only a call that returns moves what is read.
LEMMA OthersKeepLatest ==
  ASSUME ServiceTypeOK, [ServiceNext]_vars, ~ \E r \in Requests : CallReturns(r)
  PROVE  latest' = latest
<1>1. ASSUME NEW r \in Requests, Send(r) \/ Serve(r) \/ Refuse(r) PROVE latest' = latest
  BY <1>1 DEF Send, Refuse, Serve, ReadBody, Authorize, Decode, Validate, OpenCall, Call,
              GiveUpWaiting, CallFails, Fail, Ack, EmitAudit
<1>2. ASSUME NEW d \in Readers, Ask(d) \/ Evaluate(d) \/ DetailFails(d)
      PROVE  latest' = latest
  BY <1>2, DetailStep
<1>3. Crash => latest' = latest
  BY DEF Crash, Fail
<1>4. UNCHANGED vars => latest' = latest
  BY DEF vars
<1>. QED
  BY <1>1, <1>2, <1>3, <1>4 DEF ServiceNext

\* What a step leaves to be read is the newest of what was heard then.
LEMMA NewestStep ==
  ASSUME ServiceTypeOK, HeardTypeOK, ReadsTheNewest,
         [ServiceNext /\ HearCommitted]_<<vars, heard>>
  PROVE  HeardTypeOK' /\ ReadsTheNewest'
<1>. DEFINE Hears == call # NoCall /\ call.kind = "observations"
                     /\ \E r \in Requests : CallReturns(r)
<1>0. [ServiceNext]_vars
  BY DEF vars
<1>1. CASE ServiceNext /\ HearCommitted /\ Hears
  <2>1. /\ call \in Calls /\ call.kind = "observations" /\ ImportObservations(call.batch)
        /\ latest \in [Pairs -> Readings \cup {NoObservation}]
    BY <1>1 DEF CallReturns, Succeed, ServiceTypeOK, PromiseTypeOK
  <2>2. heard' = [p \in Pairs |-> heard[p] \cup ReadingsFor(call.batch, p)]
    BY <1>1 DEF HearCommitted
  <2>3. HeardTypeOK'
    BY <2>1, <2>2, CarriedReadings DEF HeardTypeOK
  <2>4. ASSUME NEW p \in Pairs PROVE NewestOf(latest'[p], heard'[p])
    <3>. DEFINE new == ReadingsFor(call.batch, p)
    <3>1. /\ heard'[p] = heard[p] \cup new /\ heard[p] \subseteq Readings /\ new \subseteq Readings
          /\ NewestOf(latest[p], heard[p])
      BY <2>1, <2>2, CarriedReadings DEF HeardTypeOK, ReadsTheNewest
    <3>2. /\ \A r \in new : AsNew(latest'[p], r)
          /\ \/ latest'[p] = latest[p]
             \/ latest'[p] \in new /\ NewerReading(latest'[p], latest[p])
      BY <2>1 DEF ImportObservations
    <3>. HIDE DEF new
    <3>3. latest'[p] \in heard'[p] \cup {NoObservation}
      BY <3>1, <3>2 DEF NewestOf
    <3>4. ASSUME NEW r \in heard[p] PROVE AsNew(latest'[p], r)
      <4>1. AsNew(latest[p], r) /\ r \in Readings
        BY <3>1 DEF NewestOf
      <4>2. latest[p] \in Readings \cup {NoObservation} /\ latest'[p] \in Readings \cup {NoObservation}
        BY <2>1, <3>1, <3>2
      <4>3. AsNew(latest'[p], latest[p])
        BY <3>2, <4>2, AsNewTransitive
      <4>. QED
        BY <4>1, <4>2, <4>3, AsNewTransitive
    <3>. QED
      BY <3>1, <3>2, <3>3, <3>4 DEF NewestOf
  <2>. QED
    BY <2>3, <2>4 DEF ReadsTheNewest
<1>2. CASE ServiceNext /\ HearCommitted /\ ~Hears
  <2>1. heard' = heard
    BY <1>2 DEF HearCommitted
  <2>2. latest' = latest
    <3>1. CASE \E r \in Requests : CallReturns(r)
      BY <1>2, <3>1 DEF CallReturns, Succeed, ImportAgents
    <3>2. CASE ~ \E r \in Requests : CallReturns(r)
      BY <1>0, <3>2, OthersKeepLatest
    <3>. QED
      BY <3>1, <3>2
  <2>. QED
    BY <2>1, <2>2 DEF HeardTypeOK, ReadsTheNewest, NewestOf, AsNew
<1>3. CASE UNCHANGED <<vars, heard>>
  BY <1>3 DEF vars, HeardTypeOK, ReadsTheNewest, NewestOf, AsNew
<1>. QED
  BY <1>1, <1>2, <1>3

(***************************************************************************)
(* The store forgets order: in every state what is read of a pair is the   *)
(* newest reading of the set of all committed ones, however the batches    *)
(* that carried them were ordered, repeated or interleaved                 *)
(* (appendObservations, latestObservation).                                *)
(***************************************************************************)
THEOREM StoreReadsTheNewest == HeardSpec => [](ServiceTypeOK /\ ReadsTheNewest)
<1>1. HeardSpec => ServiceSafety
  <2>1. [ServiceNext /\ HearCommitted]_<<vars, heard>> => [ServiceNext]_vars
    BY DEF vars
  <2>. QED
    BY <2>1, PTL DEF HeardSpec, ServiceSafety
<1>2. ServiceInit /\ heard = [p \in Pairs |-> {}] => HeardTypeOK /\ ReadsTheNewest
  BY DEF ServiceInit, Init, HeardTypeOK, ReadsTheNewest, NewestOf
<1>3. ServiceTypeOK /\ HeardTypeOK /\ ReadsTheNewest
        /\ [ServiceNext /\ HearCommitted]_<<vars, heard>>
      => HeardTypeOK' /\ ReadsTheNewest'
  BY NewestStep
<1>. QED
  BY <1>1, <1>2, <1>3, ServiceTypeInvariant, PTL DEF HeardSpec

\* Two stores that have heard the same answer alike: of the same second, and the
\* same value unless two readings differ within it.  (Within a tie the first to
\* be committed stays, so there the order shows.)
THEOREM SameHistorySameAnswers ==
  ASSUME NEW readings \in SUBSET Readings,
         NEW one, NewestOf(one, readings), NEW other, NewestOf(other, readings)
  PROVE  /\ one = NoObservation <=> other = NoObservation
         /\ one # NoObservation => one.at = other.at
         /\ NoTie(readings) => one = other
<1>1. \A r \in readings : r # NoObservation /\ r.at \in Nat
  BY NoObservationIsNoReading DEF Readings
<1>2. CASE readings = {}
  BY <1>2 DEF NewestOf
<1>3. CASE readings # {}
  <2>1. one \in readings /\ other \in readings
    BY <1>1, <1>3 DEF NewestOf, AsNew
  <2>2. one.at >= other.at /\ other.at >= one.at
    BY <1>1, <2>1 DEF NewestOf, AsNew
  <2>. QED
    BY <1>1, <2>1, <2>2 DEF NoTie
<1>. QED
  BY <1>2, <1>3
=============================================================================
