CONSTANTS
  n1 = n1
  n2 = n2
  good = good
  rejected = rejected
  broken = broken
  goodFile = goodFile
  rejectedFile = rejectedFile
  metaFile = metaFile
  Names = {n1, n2}
  Texts = {good, rejected, broken, goodFile, rejectedFile, metaFile}
  NoRule = NoRule
  NoFile = NoFile
  Parses <- MCParses
  Verified = {good}
  Content <- MCContent
  LooksLikeDSL = {good, rejected, metaFile}
  Priorities = {0, 1, 2}
  MaxRules = 3
  MaxSetFaults = 1
SPECIFICATION SetSpec
INVARIANTS
  RulesInPriorityOrder
  RulesAreOwnedOnce
PROPERTIES
  OrderIsKept
