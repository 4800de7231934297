---------------------------- MODULE TrustService ----------------------------
(***************************************************************************)
(* The HTTP server over the store: the admin import routes (internal/      *)
(* server middleware, internal/importsvc) and the detail route             *)
(* (internal/search, internal/scoring/engine).  Handlers run concurrently, *)
(* one step between any two of their reads and calls of the store; clients *)
(* may lose an answer and send again; the process may die and restart at   *)
(* any moment.  The store is what StorePromise promises.                   *)
(***************************************************************************)
EXTENDS StorePromise, Sequences

CONSTANTS
  Requests,     \* import requests in flight at once
  Readers,      \* detail requests in flight at once
  Bodies,       \* the import calls clients send
  RequireKey,   \* admin.requireKey
  Registry,     \* registry.All(): the signals in the order they are read
  Importable,   \* registered signals that are not derived
  ValidValues,  \* <<signal, value>> that the signal's Validate accepts
  Idle          \* no request

ASSUME ServiceConstants ==
  /\ Bodies \subseteq Calls
  /\ RequireKey \in BOOLEAN
  /\ Registry \in Seq(SignalIds)
  /\ Importable \subseteq SignalIds
  /\ ValidValues \subseteq SignalIds \X Values

VARIABLES
  req,    \* req[r]: the import request r, from its arrival to its audit line
  view,   \* view[d]: the detail request d
  acked   \* history: the calls whose 200 a client has seen

vars == <<agent, latest, call, req, view, acked>>

Active ==
  [pc        : {"audit", "auth", "decode", "validate", "store", "call", "ack", "reply"},
   call      : Calls,
   row       : Nat,      \* the row validateObservation is at
   status    : Nat,      \* statusRecorder.status, 0 before it is written
   accepted  : Nat,      \* auditctx.Info.Accepted
   committed : BOOLEAN]  \* history: the store has committed the call

Reported == Readings \cup {NoObservation}

Detail ==
  [pc     : {"lookup", "score", "answer"},
   agent  : AgentIds,
   row    : Nat,                  \* signals of the registry read so far
   read   : [SignalIds -> Reported],
   status : Nat,
   known  : BOOLEAN,              \* history: registered when it arrived
   floor  : [SignalIds -> Reported]]  \* history: the readings of that moment

\* Every request is at one of its handler's steps, and its validation at one of
\* its rows, on a store of the right shape.
ServiceTypeOK ==
  /\ PromiseTypeOK
  /\ req \in [Requests -> Active \cup {Idle}]
  /\ view \in [Readers -> Detail \cup {Idle}]
  /\ acked \subseteq Calls
  /\ \A r \in Requests : req[r] # Idle => req[r].row \in DOMAIN req[r].call.batch

ASSUME IdleIsIdle == Idle \notin Active /\ Idle \notin Detail

ServiceInit ==
  /\ Init
  /\ req = [r \in Requests |-> Idle]
  /\ view = [d \in Readers |-> Idle]
  /\ acked = {}

-----------------------------------------------------------------------------
(* The import routes.                                                      *)

At(r, pc) == req[r] # Idle /\ req[r].pc = pc

Goto(r, pc) == req' = [req EXCEPT ![r].pc = pc]

\* A problem response: the audit line is all that is left.
Problem(r, status) ==
  req' = [req EXCEPT ![r].pc = "reply", ![r].status = status]

Send(r) ==
  /\ req[r] = Idle
  /\ \E c \in Bodies :
       req' = [req EXCEPT ![r] = [pc |-> "audit", call |-> c, row |-> 1,
                                  status |-> 0, accepted |-> 0, committed |-> FALSE]]
  /\ UNCHANGED <<agent, latest, call, view, acked>>

\* audit: the whole body is in memory before anything else looks at the request.
ReadBody(r) ==
  /\ At(r, "audit")
  /\ Goto(r, "auth")
  /\ UNCHANGED <<agent, latest, call, view, acked>>

Authorize(r) ==
  /\ At(r, "auth")
  /\ Goto(r, "decode")
  /\ UNCHANGED <<agent, latest, call, view, acked>>

\* decodeJSON and toDomain; the agents' handler goes straight to the store.
Decode(r) ==
  /\ At(r, "decode")
  /\ \/ req[r].call.kind = "agents" /\ Goto(r, "store")
     \/ req[r].call.kind = "observations" /\ Goto(r, "validate")
  /\ UNCHANGED <<agent, latest, call, view, acked>>

Row(r) == req[r].call.batch[req[r].row]

\* The checks of validateObservation; the lookup reads outside any transaction.
Valid(o) == o.signal \in Importable /\ <<o.signal, o.value>> \in ValidValues
Acceptable(o) == Registered(o.agent) /\ Valid(o)

\* Mutant: the loop runs one row past the end.
RowPassesOffByOne(r) ==
  IF req[r].row \in DOMAIN req[r].call.batch
  THEN req' = [req EXCEPT ![r].row = @ + 1]
  ELSE Goto(r, "store")

\* Mutant: only the first row is validated.
FirstRowPasses(r) == Goto(r, "store")

\* Mutant: the loop does not advance.
SameRow(r) == UNCHANGED req

RowPasses(r) ==
  IF req[r].row + 1 \in DOMAIN req[r].call.batch
  THEN req' = [req EXCEPT ![r].row = @ + 1]
  ELSE Goto(r, "store")

\* Mutant: the agent is not looked up.
ValidateWithoutLookup(r) ==
  /\ At(r, "validate")
  /\ \/ Valid(Row(r)) /\ RowPasses(r)
     \/ ~Valid(Row(r)) /\ Problem(r, 422)
  /\ UNCHANGED <<agent, latest, call, view, acked>>

\* One row of the loop in ImportObservations; the first bad one ends it.
Validate(r) ==
  /\ At(r, "validate")
  /\ \/ Acceptable(Row(r)) /\ RowPasses(r)
     \/ ~Acceptable(Row(r)) /\ Problem(r, 422)
  /\ UNCHANGED <<agent, latest, call, view, acked>>

OpenCall(r) ==
  /\ At(r, "store")
  /\ Call(req[r].call)
  /\ Goto(r, "call")
  /\ UNCHANGED <<view, acked>>

\* busy_timeout: another writer has held the lock for too long.
GiveUpWaiting(r) ==
  /\ At(r, "store")
  /\ call # NoCall
  /\ Problem(r, 500)
  /\ UNCHANGED <<agent, latest, call, view, acked>>

CallReturns(r) ==
  /\ At(r, "call")
  /\ Succeed
  /\ req' = [req EXCEPT ![r].pc = "ack", ![r].committed = TRUE]
  /\ UNCHANGED <<view, acked>>

\* Mutant: the handler acknowledges a call that has failed.
CallFailsSilently(r) ==
  /\ At(r, "call")
  /\ Fail
  /\ Goto(r, "ack")
  /\ UNCHANGED <<view, acked>>

\* The store returns an error, or the driver panics under the deferred Rollback.
CallFails(r) ==
  /\ At(r, "call")
  /\ Fail
  /\ Problem(r, 500)
  /\ UNCHANGED <<view, acked>>

\* Mutant: the handler does not report Accepted.
AckUnreported(r) ==
  /\ At(r, "ack")
  /\ Problem(r, 200)
  /\ acked' \in {acked, acked \cup {req[r].call}}
  /\ UNCHANGED <<agent, latest, call, view>>

\* info.Accepted, then the 200, which the client may or may not see.
Ack(r) ==
  /\ At(r, "ack")
  /\ req' = [req EXCEPT ![r].pc = "reply", ![r].status = 200,
                        ![r].accepted = Len(req[r].call.batch)]
  /\ acked' \in {acked, acked \cup {req[r].call}}
  /\ UNCHANGED <<agent, latest, call, view>>

\* The fields of the deferred audit line.
AuditLine(q) ==
  [outcome   |-> IF q.status >= 400 THEN "rejected" ELSE "accepted",
   batchSize |-> q.accepted]

EmitAudit(r) ==
  /\ At(r, "reply")
  /\ req' = [req EXCEPT ![r] = Idle]
  /\ UNCHANGED <<agent, latest, call, view, acked>>

Serve(r) ==
  \/ ReadBody(r)
  \/ Authorize(r)
  \/ Decode(r)
  \/ Validate(r)
  \/ OpenCall(r)
  \/ GiveUpWaiting(r)
  \/ CallReturns(r)
  \/ CallFails(r)
  \/ Ack(r)
  \/ EmitAudit(r)

\* What may end a request instead: a body too large or cut off, a wrong key, a
\* malformed request, a failed lookup or a panic while validating, a client
\* that goes away (its context is cancelled) before the call is open.
Refuse(r) ==
  /\ \/ At(r, "audit") /\ (Problem(r, 413) \/ Problem(r, 400))
     \/ At(r, "auth") /\ RequireKey /\ Problem(r, 401)
     \/ At(r, "decode") /\ Problem(r, 400)
     \/ (At(r, "validate") \/ At(r, "store")) /\ Problem(r, 500)
  /\ UNCHANGED <<agent, latest, call, view, acked>>

-----------------------------------------------------------------------------
(* The detail route.                                                       *)

AnswersOf(a) == [s \in SignalIds |-> latest[<<a, s>>]]

Viewing(d, pc) == view[d] # Idle /\ view[d].pc = pc

AnswerWith(d, status) ==
  view' = [view EXCEPT ![d].pc = "answer", ![d].status = status]

Ask(d) ==
  /\ view[d] = Idle
  /\ \E a \in AgentIds :
       view' = [view EXCEPT ![d] =
                  [pc |-> "lookup", agent |-> a, row |-> 0,
                   read |-> [s \in SignalIds |-> NoObservation], status |-> 0,
                   known |-> Registered(a), floor |-> AnswersOf(a)]]
  /\ UNCHANGED <<agent, latest, call, req, acked>>

\* Detail's GetAgent.
Lookup(d) ==
  /\ Viewing(d, "lookup")
  /\ \/ Registered(view[d].agent) /\ view' = [view EXCEPT ![d].pc = "score"]
     \/ ~Registered(view[d].agent) /\ AnswerWith(d, 404)
  /\ UNCHANGED <<agent, latest, call, req, acked>>

\* Mutant: Evaluate takes a store error for an absent observation.
ReadNextOrNothing(d) ==
  /\ Viewing(d, "score")
  /\ view[d].row < Len(Registry)
  /\ \E r \in {latest[<<view[d].agent, Registry[view[d].row + 1]>>], NoObservation} :
       view' = [view EXCEPT ![d].row = @ + 1, ![d].read[Registry[view[d].row + 1]] = r]
  /\ UNCHANGED <<agent, latest, call, req, acked>>

\* Evaluate reads one signal's latest observation at a time.
ReadNext(d) ==
  /\ Viewing(d, "score")
  /\ view[d].row < Len(Registry)
  /\ LET s == Registry[view[d].row + 1]
     IN  view' = [view EXCEPT ![d].row = @ + 1,
                              ![d].read[s] = latest[<<view[d].agent, s>>]]
  /\ UNCHANGED <<agent, latest, call, req, acked>>

\* Mutant: the evaluation waits for a signal after the last.
ScoredPastEnd(d) ==
  /\ Viewing(d, "score")
  /\ view[d].row > Len(Registry)
  /\ AnswerWith(d, 200)
  /\ UNCHANGED <<agent, latest, call, req, acked>>

Scored(d) ==
  /\ Viewing(d, "score")
  /\ view[d].row = Len(Registry)
  /\ AnswerWith(d, 200)
  /\ UNCHANGED <<agent, latest, call, req, acked>>

Answer(d) ==
  /\ Viewing(d, "answer")
  /\ view' = [view EXCEPT ![d] = Idle]
  /\ UNCHANGED <<agent, latest, call, req, acked>>

Evaluate(d) == Lookup(d) \/ ReadNext(d) \/ Scored(d) \/ Answer(d)

\* The profile asked for is not loaded; or a read of the store fails, or the
\* client goes away.
DetailFails(d) ==
  /\ \/ Viewing(d, "lookup") /\ AnswerWith(d, 422)
     \/ (Viewing(d, "lookup") \/ Viewing(d, "score")) /\ AnswerWith(d, 500)
  /\ UNCHANGED <<agent, latest, call, req, acked>>

-----------------------------------------------------------------------------
\* Mutant: the dead process's transaction still holds the lock.
CrashKeepsLock ==
  /\ req' = [r \in Requests |-> Idle]
  /\ view' = [d \in Readers |-> Idle]
  /\ UNCHANGED <<agent, latest, call, acked>>

\* The process dies and is started again: every handler is gone, an open
\* transaction is rolled back by SQLite, what was committed is still there.
Crash ==
  /\ req' = [r \in Requests |-> Idle]
  /\ view' = [d \in Readers |-> Idle]
  /\ Fail \/ (call = NoCall /\ UNCHANGED <<agent, latest, call>>)
  /\ UNCHANGED acked

ServiceNext ==
  \/ \E r \in Requests : Send(r) \/ Serve(r) \/ Refuse(r)
  \/ \E d \in Readers : Ask(d) \/ Evaluate(d) \/ DetailFails(d)
  \/ Crash

\* A goroutine that has something to do is scheduled, the timer of the busy
\* timeout fires; nothing makes clients send, reads fail or processes die.
Fairness ==
  /\ \A r \in Requests : WF_vars(Serve(r))
  /\ \A d \in Readers : WF_vars(Evaluate(d))

ServiceSafety == ServiceInit /\ [][ServiceNext]_vars
ServiceSpec == ServiceSafety /\ Fairness

-----------------------------------------------------------------------------
(* Properties.                                                             *)

\* The call's effect is there, or something newer is.
Stored(c) ==
  \A i \in DOMAIN c.batch :
    /\ Registered(c.batch[i].agent)
    /\ c.kind = "observations"
         => AsNew(latest[PairOf(c.batch[i])], Reading(c.batch[i]))

(***************************************************************************)
(* What a client has been told is stored stays stored, through late        *)
(* batches, retries and restarts: every acknowledged observation is read   *)
(* back or beaten by one at least as new, every acknowledged agent is      *)
(* found.  (importsvc handler.go acks only after the store has committed.) *)
(***************************************************************************)
AckedIsStored == \A c \in acked : Stored(c)

(***************************************************************************)
(* The status a client gets and the mandatory audit line both tell the     *)
(* request's effect: 200 and "accepted" with the number of rows for one    *)
(* that was committed, 4xx/5xx and "rejected" with none for one that left  *)
(* no trace.  (audit, importsvc.ImportAgents, importsvc.ImportObservations)*)
(***************************************************************************)
StatusTellsEffect ==
  \A r \in Requests :
    At(r, "reply") =>
      LET q == req[r]
      IN  /\ q.committed <=> q.status = 200
          /\ AuditLine(q) =
               [outcome   |-> IF q.committed THEN "accepted" ELSE "rejected",
                batchSize |-> IF q.committed THEN Len(q.call.batch) ELSE 0]

(***************************************************************************)
(* validateObservation looks agents up outside the transaction that later  *)
(* appends the rows; nothing that runs in between can take them away, so a *)
(* validated batch never fails on the foreign key (a 500 where the client  *)
(* was owed a 422).                                                        *)
(***************************************************************************)
ValidatedStaysValid ==
  \A r \in Requests :
    (At(r, "store") \/ At(r, "call")) /\ req[r].call.kind = "observations"
      => \A i \in DOMAIN req[r].call.batch : Acceptable(req[r].call.batch[i])

(***************************************************************************)
(* Whatever batches arrive, the engine only ever reads observations of     *)
(* importable signals with a value their Validate accepts.                 *)
(***************************************************************************)
ScoredIsValid ==
  \A a \in AgentIds, s \in SignalIds :
    latest[<<a, s>>] # NoObservation
      => /\ Registered(a)
         /\ s \in Importable
         /\ <<s, latest[<<a, s>>].value>> \in ValidValues

(***************************************************************************)
(* A client that sends an acknowledged observation batch again changes     *)
(* nothing, whatever was imported in between (service.go: idempotent on    *)
(* the (agent, signal, observedAt) triple).                                *)
(***************************************************************************)
RetryIsHarmless ==
  [][\A r \in Requests :
       CallReturns(r) /\ call.kind = "observations" /\ call \in acked
         => UNCHANGED latest]_vars

(***************************************************************************)
(* A detail answer is never older than the store was when the request      *)
(* arrived nor newer than the store is now, signal by signal, although the *)
(* engine reads them one by one between other clients' commits, and a 404  *)
(* is only for an agent that was not yet registered on arrival.            *)
(***************************************************************************)
DetailFresh ==
  \A d \in Readers :
    Viewing(d, "answer") =>
      /\ view[d].status = 404 => ~view[d].known
      /\ view[d].status = 200 =>
           \A i \in DOMAIN Registry :
             LET s == Registry[i]
             IN  /\ AsNew(view[d].read[s], view[d].floor[s])
                 /\ AsNew(latest[<<view[d].agent, s>>], view[d].read[s])

(***************************************************************************)
(* The write lock always belongs to exactly one handler, the one that is   *)
(* in the store with that very batch: no error path, panic or restart      *)
(* leaves it taken.  (The deferred Rollback in agentstore.go.)             *)
(***************************************************************************)
LockHasOneHolder ==
  /\ call # NoCall => \E r \in Requests : At(r, "call") /\ req[r].call = call
  /\ \A r \in Requests : At(r, "call") => call = req[r].call
  /\ \A r, q \in Requests : At(r, "call") /\ At(q, "call") => r = q

(***************************************************************************)
(* Every import the server has begun comes to its end, even one that has   *)
(* to wait for the write lock behind the others.                           *)
(***************************************************************************)
ImportsEnd == \A r \in Requests : req[r] # Idle ~> req[r] = Idle

(***************************************************************************)
(* Every detail request comes to its end, whatever is imported meanwhile.  *)
(***************************************************************************)
DetailsEnd == \A d \in Readers : view[d] # Idle ~> view[d] = Idle
=============================================================================
