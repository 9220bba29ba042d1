CONSTANTS
  t1 = t1
  t2 = t2
  mine = mine
  Threads = {t1, t2}
  Configs <- MCConfigs
  Providers = {mine}
  DefaultName = DefaultName
  NoEntry = NoEntry
  OwnCache = OwnCache
  Length = 2
  MaxCalls = 2
  MaxRegistrations = 2
  MaxFaults = 1
SPECIFICATION Spec
SYMMETRY ThreadSymmetry
INVARIANTS
  EntriesInUseAreLive
  StreamsReturnWhatWasHeard
  WholeAnswersAreSaved
  ReviewsFailClosed
