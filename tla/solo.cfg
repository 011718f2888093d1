SPECIFICATION Spec
CONSTANTS
  a = a
  b = b
  bad = bad
  Absent = Absent
  NoChart = NoChart
  Client = {c1}
  Chart <- Charts
  Resource <- Resources
  Manifest <- Manifests3
  Broken = {bad}
  CRD = {1}
  Keep = {2}
  Requests <- SoloRequests
  MaxRev = 4
  MaxOps = 4
  MaxCrashes = 1
  MaxStoreFaults = 1
  MaxKubeFaults = 2
INVARIANTS TypeOK SuccessLeavesOneDeployed DeployedLastIsLive AtomicFailureRestores FailedInstallLeavesNothing PruneKeepsTheNewest
PROPERTIES RecordOutlivesItsObjects
