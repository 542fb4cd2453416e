SPECIFICATION Spec
CONSTANTS
  Servers = {"plain"}
  MaxAddress = 3
  MaxBytes = 3
  ReadBytes = 2
  PacketSize = 2
  MaxCalls = 1
  MaxFaults = 0
INVARIANT WriteReported
\* Calls are bounded, and the caller may stop calling.
CHECK_DEADLOCK FALSE
