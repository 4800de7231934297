------------------------- MODULE MCObservationStore -------------------------
(***************************************************************************)
(* The store instance TLC explores.  Instants 0 and 1 fall in one second   *)
(* and 2 in the next, so that batches meet late, equal-second and newer    *)
(* observations; three row ids leave room for two rows of one pair and one *)
(* of another, or three of one pair, and for retention to remove some.     *)
(***************************************************************************)
EXTENDS ObservationStore

MCInstants == 0 .. 2
=============================================================================
