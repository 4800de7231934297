SPECIFICATION EngineSpec
CONSTANTS
  first = agentScore
  second = toolScore
  cert = certtype
  integrity = integrity
  identity = identity
  drift = drift
  missing = missing
  Signals = {agentScore, toolScore, certtype}
  Dimensions = {integrity, identity}
  Identity = identity
  DimensionOf <- MCDimensionOf
  SubjectOf <- MCSubjectOf
  Informative = {certtype}
  Answers <- MCAnswers
  WhenAbsent <- MCWhenAbsent
  Weights = {0, 1, 3}
  Untrusted = 20
  Transactional = 50
  Fiduciary = 80
  IdentityFiduciary = 90
  EvaluationFailed = EvaluationFailed
  NoCap = NoCap
  Uncovered = Uncovered
  Failed = Failed
PROPERTY
  SubjectsApart
