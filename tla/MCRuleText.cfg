CONSTANTS
  t1 = t1
  t2 = t2
  tpl = tpl
  plain = plain
  Threads = {t1, t2}
  Names = {tpl, plain}
  Texts <- MCTexts
  MaxLength = 2
  NoName = NoName
  NoRule = NoRule
  MaxParses = 3
  MaxFaults = 1
SPECIFICATION Spec
SYMMETRY ThreadSymmetry
INVARIANTS
  RulesAreLive
  StoresHaveOneOwner
PROPERTIES
  LeaksAreKnown
  ReturnsAreHonest
