\* Finding: a lost partial run, and a record that still says current.
SPECIFICATION FairSpec
CONSTANTS
  a = a
  b = b
  z = z
  NoPayload = NoPayload
  Modules <- MCModules
  AlwaysModules <- MCAlways
  Hashes = {1, 2}
  Extras = {1, 2}
  Builds <- MCBuilds
  Commands <- MCCommands
  MaxDisturbances = 3
INVARIANT
  PartialRunNotSkipped
