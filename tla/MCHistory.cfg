\* Three messages, a cache of two, two readers, one failing call.
CONSTANTS
  MaxMessages = 3
  CacheLen = 2
  Limits = {1}
  Readers = {r1, r2}
  MaxFailures = 1
SPECIFICATION Spec
INVARIANTS TypeOK OnlyStored StoreWalkIsExact NoCursorMeansNothingOlder
