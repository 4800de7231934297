--------------------------- MODULE MCTrustEngine ---------------------------
(***************************************************************************)
(* The engine instance TLC explores: two signals of one dimension beside   *)
(* one of identity.  Weights 1 and 3 and the answers' raw scores put the   *)
(* averages on both sides of every threshold; a raw score lies above the   *)
(* band and another below it; one cap is above the untrusted floor and one *)
(* under the band.                                                         *)
(***************************************************************************)
EXTENDS TrustEngine

CONSTANTS first, second, cert, integrity, identity, drift, missing

MCDimensionOf == [s \in Signals |-> IF s = cert THEN identity ELSE integrity]
MCSubjectOf == [s \in Signals |-> IF s = second THEN "tool" ELSE "agent"]
MCNothingSeen == [raw |-> 0, cap |-> NoCap, risks |-> {missing}]
MCAnswers ==
  {[raw |-> 150, cap |-> NoCap, risks |-> {}],
   [raw |-> 85, cap |-> 55, risks |-> {drift}],
   [raw |-> -5, cap |-> -5, risks |-> {drift}],
   MCNothingSeen}
MCWhenAbsent == [s \in Signals |-> MCNothingSeen]
=============================================================================
