---------------------------- MODULE MCProducers ----------------------------
(***************************************************************************)
(* The producers TLC explores.  The host of x serves what is sealed; then  *)
(* another certificate and no TXT record; or no certificate, and a TXT     *)
(* record too long for one body with y.  One set of events has both        *)
(* agents, the other y alone, with a fingerprint that is none.  The        *)
(* fixtures hold an observation dated ahead and one long past, of an       *)
(* unsealed record; or one that is too long.  A provider covers y.         *)
(***************************************************************************)
EXTENDS Producers

CONSTANTS x, y, fp1, fp2, txt, long, huge

Sealed(server, ans) ==
  [s \in Drifts |-> CASE s = "certfingerprint.server" -> server
                      [] s = "dnsrecord.ans" -> ans
                      [] OTHER -> Absent]

MCEventSets ==
  {[a \in AgentIds |-> IF a = x THEN Sealed(fp1, txt) ELSE Sealed(fp2, txt)],
   [a \in AgentIds |-> IF a = x THEN NoEvent ELSE Sealed(txt, Absent)]}

Entry(a, s, age, value) == [agent |-> a, signal |-> s, age |-> age, value |-> value]

MCFixtureSets ==
  {{Entry(x, "certfingerprint.server", Ahead, fp2),
    Entry(x, "dnsrecord.ans-badge", MaxAge, txt)},
   {Entry(y, "dnsrecord.ans", MaxAge, huge)}}

Host(cert, type, ans) == [cert |-> cert, type |-> type, ans |-> ans, badge |-> Absent]

MCSites == [a \in AgentIds |->
  IF a = x THEN {Host(fp1, "OV", txt), Host(fp2, "DV", Unreachable),
                 Host(Unreachable, "DV", long)}
  ELSE {Host(fp2, "DV", Absent)}]

\* Two agents with short sides just fit into a body of 28, not so with the long
\* record; a verdict with the huge one exceeds a value of 10.
MCBytes == [t \in Strings |-> CASE t = Absent -> 0 [] t = long -> 8 [] t = huge -> 9 [] OTHER -> 1]

MCContainers ==
  [s \in {"acme.safety.score"} |-> [dimension |-> "safety", threshold |-> Unset]]

MCCodes == {<<"safety", "JAILBREAK">>, <<"integrity", "LEAK">>}

MCProviderScores ==
  {y} \X {"acme.safety.score"} \X
  {[score |-> 69, riskCodes |-> <<<<"safety", "JAILBREAK">>>>],
   [score |-> 101, riskCodes |-> <<>>],
   [score |-> Unset, riskCodes |-> <<>>],
   [score |-> 80, riskCodes |-> <<<<"integrity", "LEAK">>>>]}
=============================================================================
