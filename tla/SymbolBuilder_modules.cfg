SPECIFICATION BuilderSpec
CONSTANTS
  Parts = {"manager"}
  Automatic = Automatic
  BasicSizes = {2}
  Udts = 2
  Offsets = {1}
  Dims = {2}
  MaxOperations = 4
  FieldTypes <- SomeFieldTypes
  FieldOffsets = {1}
  BitLengths = {0, 1, 6}
  BitPositions = {2}
  FieldValues <- SomeFieldValues
  MaxFields = 3
  MaxFieldCalls = 1
  Names = {"x"}
  MaxOffset = 1
  Sizes = {0, 1, 3}
  MaxSymbols = 3
  MaxMoves = 1
  SearchNames = {"", "f"}
  QualifiedNames = {"N::f"}
  ModuleBase = 6
  MaxScopeSymbols = 4
  MaxChanges = 3
  Programs <- SomePrograms
  NumOrdinals = 1
  MaximumTraversalCount = 10
  MaxSteps = 6
  Types = {"int", "long"}
  RangeSizes = {0, 2, 5}
  Span = 8
  Base = 2
  FunctionSize = 3
  MaxVariables = 2
  MaxRanges = 2
  MaxCalls = 4
  MaxQueries = 2
  MaxEdits = 1
  Processes = {1, 2}
  Modules = {"m"}
  MaxEvents = 3
  MaxRequests = 3
  MaxFaults = 1
INVARIANT FoundForItself
\* Calls are bounded, and the caller may stop calling.
CHECK_DEADLOCK FALSE
