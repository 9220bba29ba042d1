CONSTANTS
  DependsOn <- UpToThreeRules
  MaxFaults = 1
SPECIFICATION FairSpec
INVARIANTS
  RefusalsAreTrue
  EntriesAreKept
  FullyReadSetIsSorted
PROPERTIES
  SearchEnds
