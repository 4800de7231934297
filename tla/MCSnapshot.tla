----------------------------- MODULE MCSnapshot -----------------------------
(***************************************************************************)
(* The snapshots TLC explores.  Rows differ in their place in the list and *)
(* in whether the query selects them, and one has a status of its own; a   *)
(* badge is whole, without a status, or without a date.                    *)
(***************************************************************************)
EXTENDS Snapshot

CONSTANTS host, sealed

MCRows ==
  {[name |-> 1, provider |-> "p", status |-> "ACTIVE"],
   [name |-> 2, provider |-> "p", status |-> Absent],
   [name |-> 2, provider |-> "q", status |-> "ACTIVE"]}

MCBadge(status, firstSeen) ==
  [status |-> status, host |-> host, name |-> host, firstSeen |-> firstSeen,
   lastUpdated |-> 0, attestations |-> sealed]

MCBadges == {MCBadge(Absent, 0), MCBadge("REVOKED", Absent)}
=============================================================================
