CONSTANTS
  DependsOn <- FourRules
  MaxFaults = 0
SPECIFICATION Spec
INVARIANTS
  OrderRespectsDependencies
