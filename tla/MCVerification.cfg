CONSTANTS
  num = num
  flag = flag
  name = name
  big = big
  amt = amt
  due = due
  list = list
  missing = missing
  IntMin <- MCIntMin
  IntMax = 3
  LongMin <- MCLongMin
  LongMax = 15
  Parts = 2
  LowerHalf <- MCLowerHalf
  Day = 3
  EmptyText = 3
  Context <- MCContext
  Functions <- BuiltinNames
  Apply <- Builtin
  Spelling <- MCSpelling
  Upper <- MCUpper
  Lower <- MCLower
  Spaces = {" "}
  Instant <- MCInstant
  TypeName <- MCTypeName
  Now = 9
  Epsilon = 0
  MaxExprDepth = 4
  Exprs <- MCExprs
  Height <- MCHeight
  Rules <- MCRules
  Limits = {0}
  Registered = {"score", "block"}
  NoReason = NoReason
  Declarations <- MCDeclarations
  Signatures <- MCSignatures
  MaxDeclarations = 3
  MaxFaults = 1
SPECIFICATION VerifySpec
INVARIANTS
  VerifiedRulesAreTyped
  
PROPERTIES
  WarningsAreTrue
