SPECIFICATION Spec
CONSTANTS
  p1 = p1
  p2 = p2
  certtype = certtype
  acme = acme
  Servers = {p1, p2}
  Ids = {certtype, acme}
  BuiltIns = {certtype}
  SegmentOf <- MCSegmentOf
  Malformed = Malformed
  Unset = Unset
  RuntimeFiles <- MCRuntimeFiles
  Environments = {Unset, "", "key"}
  SignalFiles <- MCSignalFiles
  ProfileFiles <- MCProfileFiles
INVARIANTS
  MigrationsAreWhole
  ServingIsSound
PROPERTIES
  GoodFilesServe
