SPECIFICATION Spec
CONSTANTS
  NumberOfStreams = 1
  MaxEvents = 3
PROPERTY SessionKept
\* Calls are bounded, and the caller may stop calling.
CHECK_DEADLOCK FALSE
