SPECIFICATION Spec
CONSTANTS
  x = x
  y = y
  fp1 = fp1
  fp2 = fp2
  txt = txt
  long = long
  huge = huge
  AgentIds = {x, y}
  Absent = Absent
  Fingerprints = {fp1, fp2}
  Strings = {fp1, fp2, txt, long, huge, Absent}
  Containers <- MCContainers
  Codes <- MCCodes
  Misshapen = Misshapen
  Unset = Unset
  Unobserved = Unobserved
  NoEvent = NoEvent
  EventSets <- MCEventSets
  FixtureSets <- MCFixtureSets
  Sites <- MCSites
  Unreachable = Unreachable
  ProviderScores <- MCProviderScores
  MaxAge = 2
  Bytes <- MCBytes
  VerdictBytes = 1
  RowBytes = 1
  MaxValue = 10
  MaxBody = 28
  ShortBytes = 1
INVARIANTS
  ProducersTypeOK
  VerdictsAreHonest
  RefusedForCause
PROPERTIES
  DriftIsNoticed
