SPECIFICATION Spec
CONSTANTS
  AgentIds = {a1, a2}
  SignalIds = {drift}
  AgentRecords = {rec1, rec2}
  Values = {v1, v2}
  Instants <- MCInstants
  Second = 2
  MaxBatch = 2
  MaxRowId = 3
  NoAgent = NoAgent
  NoObservation = NoObservation
  NoTx = NoTx
INVARIANTS
  TypeOK
  DatabaseConsistent
  TransactionFaithful
PROPERTIES
  LatestNeverRegresses
  ImplementsPromise
