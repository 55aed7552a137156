\* Record, decision and merge: safety, and convergence once disturbances end.
SPECIFICATION FairSpec
CONSTANTS
  a = a
  b = b
  z = z
  NoPayload = NoPayload
  Modules <- MCModules
  AlwaysModules <- MCAlways
  Hashes = {1, 2}
  Extras = {1, 2}
  Builds <- MCBuilds
  Commands <- MCCommands
  MaxDisturbances = 3
INVARIANTS
  TypeOK
  PublishedSound
  RecordTruthful
PROPERTIES
  SkipSound
  Converges
  RepairHappens
