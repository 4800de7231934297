SPECIFICATION Spec
CONSTANTS
  x = x
  y = y
  host1 = host1
  host2 = host2
  sealed = sealed
  AgentIds = {x}
  Texts = {host1, host2}
  Absent = Absent
  Items <- MCRegistration
  Badges <- MCExpiry
  Baselines = {sealed}
  StrayCursors = {1}
  PageSize = 1
  MaxFeedPages = 3
  MaxLog = 3
  NoAgent = NoAgent
  NoFixture = NoFixture
  Torn = Torn
INVARIANT
  MissNeverAborts
