SPECIFICATION Spec
CONSTANTS
  host = host
  sealed = sealed
  AgentIds = {1, 2, 3}
  Rows <- MCRows
  NoRow = NoRow
  MaxSize = 1
  MaxPage = 3
  DefaultSize = 1
  Texts = {host}
  Absent = Absent
  Baselines = {sealed}
  NoFixture = NoFixture
  Torn = Torn
  Badges <- MCBadges
  Providers = {"p"}
  PageSize = 5
  Limits = {0, 2}
  StrayPages = {1}
  MaxPagesWalk = 3
  MaxImports = 1
INVARIANTS
  SnapshotTypeOK
  WalkSkipsNobody
  QuietWalkIsTheList
  GreenSnapshotLoads
PROPERTIES
  ImplementsPromise
  SnapshotEnds
