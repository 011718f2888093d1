SPECIFICATION MCSpec
CONSTANTS
  Name <- Names
  Graphs <- SomeGraphs
  Options <- DryAtomic
  MaxFaults = 1
  XName <- Names
  XGraphs <- SomeGraphs
  MaxXFaults = 0
PROPERTIES DryRunTouchesNothing
