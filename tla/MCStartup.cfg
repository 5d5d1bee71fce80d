\* Two instances, two migrations, two failures (a call that fails, or the
\* connection with the lock breaking), one crash.  The system stops when every
\* instance has shut down: that none stops before is what NeverHangs says.
CONSTANTS
  Instances = {i1, i2}
  None = None
  NumFiles = 2
  PoolSize = 2
  Configs <- MCConfigs
  MaxFailures = 2
  MaxCrashes = 1
SPECIFICATION Spec
INVARIANTS TypeOK BootsTogether NothingLeaks
PROPERTY NeverHangs
CHECK_DEADLOCK FALSE
