SPECIFICATION Spec
CONSTANTS
  x = x
  y = y
  host1 = host1
  host2 = host2
  sealed = sealed
  AgentIds = {x, y}
  Texts = {host1, host2}
  Absent = Absent
  Items <- MCItems
  Badges <- MCBadges
  Baselines = {sealed}
  StrayCursors = {}
  PageSize = 2
  MaxFeedPages = 2
  MaxLog = 3
  NoAgent = NoAgent
  NoFixture = NoFixture
  Torn = Torn
INVARIANTS
  RaSyncTypeOK
  FoldIsCurrent
  DrainMissesNothing
  FeedTroubleSparesFixtures
  GreenSetLoads
  GreenIsNotBlind
