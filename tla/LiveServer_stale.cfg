SPECIFICATION Spec
CONSTANTS
  Sessions <- BreakSessions
  MaxResumes = 2
  MaxConsole = 0
  MaxHalts = 2
  MaxTimeouts = 0
  MaxAttempts = 1
INVARIANT HaltedWhenReported
\* The engine may stop calling and the target may stop for good.
CHECK_DEADLOCK FALSE
