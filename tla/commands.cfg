SPECIFICATION MCSpec
CONSTANTS
  a = a
  b = b
  v0 = v0
  v1 = v1
  v2 = v2
  ReleaseName = {a, b}
  Content = {v0, v1, v2}
  Nothing = Nothing
  Torn = Torn
  MaxWorldFaults = 2
  MaxOthers = 2
  Canaried = a
  Stages <- Parts
  From = a
  To = b
  Pruned = a
  Keep = 1
  Planned = a
  Package <- Packages
  Rendered <- Manifest
  Escaping <- Outside
  Targets <- Lists
  Installed = v1
  Namespace = {"apps", "made", "default", "kept", "other", "lost"}
  Reserved = {"default"}
  Excluded = {"kept"}
  Prefixed = {"apps", "made", "default", "kept", "lost"}
  NsRelease = {"x", "y"}
  PurgeFlags <- SomeFlags
  MaxPurgeFaults = 2
  MaxTaskFaults = 1
  Claimant = {a, b}
  Nobody = Nobody
  SqlClient = {"s1", "s2", "s3"}
  MaxRevision = 2
  MaxTreeNodes = 6
  MaxRefDepth = 5
  MaxDocNesting = 8
INVARIANTS WorldTypeOK CanaryGoesBack RenameLosesNothing AllClustersOrNone PodsGoFirst ForgottenLeavesNothing
  HooksRunOnceInOrder ClientKeepsItsWord DriftCloses RecordsAreKept DependenciesHold ValuesTakeEffect ChecksCatch RenderedAsWritten
PROPERTIES PruneSparesDeployed AppliedIsPlanned PurgeStaysInScope
