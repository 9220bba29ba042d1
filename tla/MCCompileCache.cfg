CONSTANTS
  t1 = t1
  t2 = t2
  t3 = t3
  good = good
  rejected = rejected
  broken = broken
  sch = sch
  Threads = {t1, t2, t3}
  Sources = {good, rejected, broken}
  Schemas = {sch}
  NoSchema = NoSchema
  Parseable = {good, rejected}
  Passes <- MCPasses
  MaxCalls = 3
  MaxFaults = 1
SPECIFICATION FairSpec
INVARIANTS
  SourcesAreCompiledOnce
  RulesHaveOwners
PROPERTIES
  OnlyRemovalEndsUse
  CallsReturn
