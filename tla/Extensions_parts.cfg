SPECIFICATION Spec
CONSTANTS
  MaxLines = 5
  MaxAddress = 4
  Enumerators = {"first", "second"}
  MaxFaults = 1
  MaxChanges = 2
  Generators = {1, 2}
  MaxBegun = 2
  PointerSize = 4
  Symbols = {"U"}
  InstanceAddresses = {0, 2}
  MaxCalls = 3
INVARIANT DumpAsWritten
INVARIANT TargetAsDumped
INVARIANT FlowTraced
INVARIANT HeadersAsWritten
INVARIANT LayoutAsC
\* A file ends, and calls are bounded.
CHECK_DEADLOCK FALSE
