------------------------------ MODULE MCRaSync ------------------------------
(***************************************************************************)
(* The captures TLC explores.  One agent is registered, revoked by an event *)
(* that carries nothing else, and named by an event the fold must ignore;   *)
(* another is renewed without a display name or a date of its own.  Badges  *)
(* override, are silent, or carry a status nobody knows.                    *)
(***************************************************************************)
EXTENDS RaSync

CONSTANTS x, y, host1, host2, sealed

MCItems ==
  {[agentId |-> x, eventType |-> "AGENT_REGISTERED", dated |-> TRUE,
    host |-> host1, name |-> host2],
   [agentId |-> x, eventType |-> "AGENT_REVOKED", dated |-> TRUE,
    host |-> Absent, name |-> Absent],
   [agentId |-> x, eventType |-> "AGENT_SUSPENDED", dated |-> TRUE,
    host |-> host2, name |-> host1],
   [agentId |-> y, eventType |-> "AGENT_RENEWED", dated |-> FALSE,
    host |-> host2, name |-> Absent]}

\* What the end of a run depends on: one event, one badge.
MCRegistration == {it \in MCItems : it.eventType = "AGENT_REGISTERED"}
MCExpiry == {[status |-> "EXPIRED", host |-> host2, firstSeen |-> 0, attestations |-> sealed]}

MCBadges ==
  {[status |-> "EXPIRED", host |-> host2, firstSeen |-> 0, attestations |-> sealed],
   [status |-> Absent, host |-> Absent, firstSeen |-> Absent, attestations |-> sealed],
   [status |-> "UNKNOWN", host |-> Absent, firstSeen |-> 0, attestations |-> sealed]}
=============================================================================
