CONSTANTS
  k1 = k1
  k2 = k2
  k3 = k3
  k4 = k4
  k5 = k5
  Keys = {k1, k2, k3, k4, k5}
  Values = {v1, v2}
  NoValue = NoValue
  NoCall = NoCall
  Hash <- MCHash
  BucketCounts = {1, 2, 3}
  MaxBuckets = 6
  MaxMapFaults = 2
SPECIFICATION MapSpec
INVARIANTS
  EntriesAreFindable
PROPERTIES
  ImplementsKeyValueMap
