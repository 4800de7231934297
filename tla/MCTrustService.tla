--------------------------- MODULE MCTrustService ---------------------------
(***************************************************************************)
(* The server instance TLC explores.  One agent and three registered       *)
(* signals, of which agentAge is derived.  The bodies meet every case of   *)
(* validateObservation: an agent not yet imported, a derived signal, a bad *)
(* value in the second row; and of the store: two observations of one pair *)
(* in either order, a batch over two signals.                              *)
(***************************************************************************)
EXTENDS TrustService

CONSTANTS a1, rec, agentAge, dns, drift, good, bad

Obs(s, t, v) == [agent |-> a1, signal |-> s, observedAt |-> t, value |-> v]

MCBodies ==
  {[kind |-> "agents", batch |-> <<[agent |-> a1, record |-> rec]>>]} \cup
  {[kind |-> "observations", batch |-> b] :
     b \in {<<Obs(drift, 1, good)>>,
            <<Obs(drift, 0, good), Obs(dns, 1, good)>>,
            <<Obs(dns, 0, good), Obs(drift, 0, bad)>>,
            <<Obs(agentAge, 0, good)>>}}

MCRegistry == <<agentAge, dns, drift>>
MCValidValues == {<<drift, good>>, <<dns, good>>}
MCInstants == 0 .. 1
=============================================================================
