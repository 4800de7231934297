----------------------------- MODULE FixtureDir -----------------------------
(***************************************************************************)
(* The directory tl-events/ that the capture tools rewrite and the         *)
(* producers load (internal/tlevent): one file per agent, absent, whole, or *)
(* torn by a write that did not finish.  Agent ids are UUIDs, so an agent   *)
(* names its file.                                                         *)
(***************************************************************************)
EXTENDS Agents, Integers

CONSTANTS
  Texts,      \* hosts and display names
  Absent,     \* the empty string, and a time that is not given
  Baselines,  \* sealed attestations
  NoFixture,
  Torn        \* a file whose write did not finish

VARIABLE dir  \* dir[a]: the fixture file of a

\* A status string, of which the transparency log may send an unknown one.
StatusTexts == Statuses \cup {Absent, "UNKNOWN"}

\* Times are positions of the feed, which is ordered by time; 0 is a time
\* before it.
Times == Nat \cup {Absent}

\* host stands for host and version, which the code treats alike; name for the
\* display name and, in the feed's fold, for the description and endpoints
\* treated like it.
Fixtures ==
  [status : StatusTexts, host : Texts \cup {Absent}, name : Texts \cup {Absent},
   firstSeen : Times, lastUpdated : Times, attestations : Baselines \cup {Absent}]

\* Mutant: the sparse event blanks.
GivenOrBlank(new, old) == new

\* What is given replaces what was known; what is omitted does not.
Given(new, old) == IF new # Absent THEN new ELSE old

Valid(ev) ==
  /\ ev.host # Absent /\ ev.name # Absent
  /\ ev.status \in Statuses
  /\ ev.firstSeen # Absent /\ ev.lastUpdated # Absent

EmptyDir == [a \in AgentIds |-> NoFixture]

Files == {a \in AgentIds : dir[a] # NoFixture}

Without(gone) == [a \in AgentIds |-> IF a \in gone THEN NoFixture ELSE dir[a]]

\* LoadDir gives up on the first file that does not parse or is not valid.
Loads == \A a \in Files : dir[a] # Torn /\ Valid(dir[a])
=============================================================================
