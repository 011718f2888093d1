SPECIFICATION MCSpec
CONSTANTS
  Name <- Names
  Graphs <- SomeGraphs
  Options <- Some
  MaxFaults = 2
  XName <- Names
  XGraphs <- AllGraphs
  MaxXFaults = 1
INVARIANTS WorkspaceTypeOK DependenciesFirst AtomicUndoesTheSuccesses EveryMemberOnce OrdersRespectDependencies ReleasesInOrder
PROPERTIES CommandReturns
