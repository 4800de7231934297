------------------------------- MODULE MCBoot -------------------------------
(***************************************************************************)
(* Two processes on one database, and an operator who turns a provider on  *)
(* and off in runtime.yaml, has it under the id of a built-in signal in    *)
(* between, and weighs it in a second profile.                             *)
(***************************************************************************)
EXTENDS Boot, TLC

CONSTANTS certtype, acme, p1, p2

MCSegmentOf == (certtype :> "identity") @@ (acme :> "safety")

Runtime(classify, key, signals) ==
  [classify |-> classify, requireKey |-> Unset, key |-> key, signals |-> signals]

MCRuntimeFiles ==
  {Runtime(Unset, "key", "given"), Runtime(<<30, 50, 0, 0>>, "key", Unset),
   Runtime(<<1, 2, 3, 100>>, "", Unset)}

Provided(id, dimension, threshold) ==
  [id |-> id, dimension |-> dimension, subject |-> Unset, threshold |-> threshold]

MCSignalFiles ==
  {<<Provided(acme, "safety", 0)>>, <<Provided(certtype, "identity", Unset)>>,
   <<Provided(acme, "safety", 101)>>, Malformed}

Profile(name, weighed) ==
  [name |-> name, gates |-> [d \in {"identity"} |-> 1], weights |-> [s \in weighed |-> 1]]

MCProfileFiles ==
  {<<Profile("default", {certtype})>>,
   <<Profile("default", {certtype}), Profile("strict", {acme})>>,
   <<Profile("default", {certtype}), Profile("default", {})>>}
=============================================================================
