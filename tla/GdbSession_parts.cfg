SPECIFICATION SessionSpec
CONSTANTS
  Sessions <- SomeSessions
  MaxResumes = 2
  MaxConsole = 1
  MaxHalts = 1
  MaxTimeouts = 1
  MaxAttempts = 1
  MaxCommands = 3
  MaxLate = 2
  MaxFaults = 1
  MaxInterrupts = 1
  Waits = {TRUE, FALSE}
  MayClose = TRUE
  MaxAckTries = 1
  Kinds = {"code", "data"}
  Places = {"p", "q"}
  NumCores = 2
  MaxTries = 3
  MaxFailed = 1
INVARIANT TypeOK
INVARIANT EveryResumeCompletes
INVARIANT TruthfulUntilHalt
INVARIANT RunStatusTruthful
INVARIANT ReleasedLeavesNoThread
INVARIANT SessionInStep
INVARIANT ReplyMatches
INVARIANT AtMostOnce
INVARIANT SlotsKept
INVARIANT BreakpointsIntact
PROPERTY MainReturns
PROPERTY StopReported
PROPERTY ReleaseCompletes
PROPERTY CommandEnds
PROPERTY ImplementsTable
\* The engine may stop calling, the target may stop for good, and a closed
\* connection ends everything.
CHECK_DEADLOCK FALSE
