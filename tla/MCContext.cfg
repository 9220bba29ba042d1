CONSTANTS
  x = x
  y = y
  ro = ro
  i1 = i1
  str = str
  arr = arr
  Names = {x, y, ro}
  ReadOnly = {ro}
  Scalars = {i1}
  Strings = {str}
  Arrays = {arr}
  NoItems = NoItems
  Object = Object
  Null = Null
  Documents <- MCDocuments
  NoJob = NoJob
  MaxEntries = 5
  MaxFaults = 2
SPECIFICATION Spec
INVARIANTS
  MapFindsFirstEntry
  MemoryIsOwned
  LoadIsComplete
PROPERTIES
  ReadOnlyIsKept
