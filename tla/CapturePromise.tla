--------------------------- MODULE CapturePromise ---------------------------
(***************************************************************************)
(* What the two capture tools promise those who load the directory they    *)
(* rewrite, with feeds, searches and badges left out: nothing is touched   *)
(* until the agents are known, the old set is gone before the new one is   *)
(* begun, and only a run that wrote every file to its end is green.        *)
(* RaSync and Snapshot are shown to implement this module.                 *)
(***************************************************************************)
EXTENDS FixtureDir

VARIABLE stage  \* where the tool is: a run that fails or dies leaves it idle

promiseVars == <<dir, stage>>

Stages == {"idle", "reading", "clearing", "writing", "green"}

Init == dir = EmptyDir /\ stage = "idle"

Begin ==
  /\ stage \in {"idle", "green"}
  /\ stage' = "reading" /\ UNCHANGED dir

\* The feed or the search is read, or the run ends over it.
Read ==
  /\ stage = "reading"
  /\ stage' \in {"clearing", "idle"} /\ UNCHANGED dir

Clear ==
  /\ stage = "clearing"
  /\ stage' = "writing" /\ dir' = EmptyDir

\* The run ends with some of the old files still there.
ClearFails ==
  /\ stage = "clearing"
  /\ stage' = "idle" /\ \E gone \in SUBSET Files : dir' = Without(gone)

WriteFile ==
  /\ stage = "writing"
  /\ \E a \in AgentIds : /\ dir' = [dir EXCEPT ![a] = dir'[a]]
                         /\ dir'[a] \in Fixtures /\ Valid(dir'[a])
  /\ UNCHANGED stage

\* The run ends between two files, or within one.
WriteFails ==
  /\ stage = "writing"
  /\ stage' = "idle"
  /\ UNCHANGED dir \/ \E a \in AgentIds : dir' = [dir EXCEPT ![a] = Torn]

Finish ==
  /\ stage = "writing"
  /\ stage' = "green" /\ UNCHANGED dir

Next == Begin \/ Read \/ Clear \/ ClearFails \/ WriteFile \/ WriteFails \/ Finish

Spec == Init /\ [][Next]_promiseVars

\* However many runs fail or die, one file at most is torn, every other one is a
\* whole valid event, and while files are written or after a green run none is
\* torn: removing one file makes any directory load again (tlevent.LoadDir).
DamageIsOneFile ==
  /\ \A a \in Files : dir[a] # Torn => dir[a] \in Fixtures /\ Valid(dir[a])
  /\ \A a, b \in Files : dir[a] = Torn /\ dir[b] = Torn => a = b
  /\ stage \in {"writing", "green"} => Loads
=============================================================================
