------------------------------- MODULE Agents -------------------------------
(***************************************************************************)
(* The agents and their lifecycle, as the capture tools and the search     *)
(* speak of them (domain.AgentID, domain.Status).                          *)
(***************************************************************************)
CONSTANT AgentIds

Statuses == {"ACTIVE", "WARNING", "DEPRECATED", "EXPIRED", "REVOKED"}
=============================================================================
