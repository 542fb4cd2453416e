SPECIFICATION FairSpec
CONSTANTS
  Cpus = {0, 1}
  Addresses = {"a", "b"}
  MaxCalls = 3
  MaxSpurious = 1
  MaxDeaths = 1
INVARIANT KdInStep
PROPERTY KdProgress
\* Calls are bounded, and the caller may stop calling.
CHECK_DEADLOCK FALSE
