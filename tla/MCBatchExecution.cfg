CONSTANTS
  RuleCount = 3
  w1 = w1
  w2 = w2
  Workers = {w1, w2}
  Main = Main
  f1 = f1
  f2 = f2
  a1 = a1
  a2 = a2
  Functions = {f1, f2}
  Actions = {a1, a2}
  NoName = NoName
  Initial = {f1}
  Others = {f2}
  InitialActions = {a1}
  Calls <- MCCalls
  Triggers <- MCTriggers
  Verdict <- MCVerdict
  FnRegisters <- MCFnRegisters
  ActRegisters <- MCActRegisters
  MaxFaults = 2
  Free = Free
  NoReport = NoReport
SPECIFICATION BatchSpec
INVARIANTS
  NoRuleRunsTwice
  BatchIsComplete
  SnapshotOutlivesWorkers
  StatsAreConserved
  EarlyRegistrationsAreSeen
  EarlierRegistrationsAreSeen
PROPERTIES
  ImplementsRuleBatch
  SequentialImplementsRuleBatch
  CallReturns
