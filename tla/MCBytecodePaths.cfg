CONSTANTS
  num = num
  flag = flag
  odd = odd
  name = name
  long = long
  missing = missing
  IntMin <- MCIntMin
  IntMax = 3
  LongMin <- MCLongMin
  LongMax = 15
  Parts = 2
  LowerHalf <- MCLowerHalf
  Day = 3
  EmptyText = 3
  Context <- MCContext
  Functions = {"abs", "max", "typeof", "contains", "uppercase", "count", "sum"}
  Apply <- Builtin
  Spelling <- MCSpelling
  Upper <- MCCase
  Lower <- MCCase
  Spaces = {}
  Instant <- MCInstant
  TypeName <- MCTypeName
  Now = 6
  Epsilon = 0
  MaxExprDepth = 4
  Exprs <- MCExprs
  Height <- MCHeight
  Rules <- MCLogicalRules
  Limits = {0, 5}
  Registered = {"score", "block"}
  NoReason = NoReason
  MaxStack = 4
  Converted <- LiteralOf
  NodesOf <- LiteralNodes
SPECIFICATION Spec
INVARIANT
  AllRulesAgree
