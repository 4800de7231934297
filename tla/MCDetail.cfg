SPECIFICATION ServiceSpec
CONSTANTS
  a1 = a1
  rec = rec
  agentAge = agentAge
  dns = dns
  drift = drift
  good = good
  bad = bad
  AgentIds = {a1}
  SignalIds = {agentAge, dns, drift}
  AgentRecords = {rec}
  Values = {good, bad}
  Instants <- MCInstants
  Second = 1
  MaxBatch = 2
  NoAgent = NoAgent
  NoObservation = NoObservation
  NoCall = NoCall
  Requests = {r1}
  Readers = {d1}
  Bodies <- MCBodies
  RequireKey = TRUE
  Registry <- MCRegistry
  Importable = {dns, drift}
  ValidValues <- MCValidValues
  Idle = Idle
INVARIANTS
  DetailFresh
PROPERTIES
  DetailsEnd
