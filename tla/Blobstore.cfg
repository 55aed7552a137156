\* One client; gc, seed, repair and the fsck job run whenever they like.
SPECIFICATION Spec
CONSTANTS
  x = x
  y = y
  m = m
  da = da
  db = db
  build = build
  other = other
  base = base
  base2 = base2
  payload1 = payload1
  payload2 = payload2
  baseline = baseline
  None = None
  Clients = {driver}
  Hosts = {host}
  Paths = {x, y, m}
  Digests = {da, db}
  Copies = {k1, k2, k3}
  Builds = {build, other, base, base2}
  Ids = {payload1, payload2, baseline}
  Files <- MCFiles
  IdOf <- MCIdOf
  BUILD_MANIFEST = m
  Legacy = {da}
  MaxFaults = 2
SYMMETRY Symmetry
INVARIANTS
  TypeOK
  OkMeansServed
  SnapshotComplete
  LinkedTrees
PROPERTIES
  SnapshotImmutable
  RefusedForCause
