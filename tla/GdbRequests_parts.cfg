SPECIFICATION RequestsSpec
CONSTANTS
  Servers = {"trace32", "openocd", "bmc", "qemu", "plain"}
  MaxAddress = 2
  MaxBytes = 3
  ReadBytes = 2
  PacketSize = 2
  MaxCalls = 2
  MaxFaults = 1
  NumberOfThreads = 2
  MaxWrites = 2
  MaxCoreFaults = 1
  Architectures = {"ARM32", "X86", "AMD64", "ARM64"}
  NumberOfStreams = 2
  MaxEvents = 3
  NumberOfCores = 2
  MaxResumes = 2
  MaxOutputs = 1
  MaxBreaks = 1
  MaxReasons = 1
  PieceSize = 2
  MaxSessions = 2
  MaxFailures = 1
INVARIANT MemoryRead
INVARIANT MemoryWritten
INVARIANT CoresKept
PROPERTY ContextsOfCpus
PROPERTY ConnectionsWatched
INVARIANT HaltedAsReported
PROPERTY ResumesEnd
INVARIANT ConfiguredAsWritten
\* Calls are bounded, and the caller may stop calling.
CHECK_DEADLOCK FALSE
