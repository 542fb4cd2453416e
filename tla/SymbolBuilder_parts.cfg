SPECIFICATION BuilderSpec
CONSTANTS
  Parts = {"layout", "fields", "indexes", "scopes", "function", "ranges", "import", "manager"}
  Automatic = Automatic
  BasicSizes = {2}
  Udts = 2
  Offsets = {1}
  Dims = {2}
  MaxOperations = 3
  FieldTypes <- SomeFieldTypes
  FieldOffsets = {1}
  BitLengths = {0, 1, 6}
  BitPositions = {2}
  FieldValues <- SomeFieldValues
  MaxFields = 3
  MaxFieldCalls = 4
  Names = {"x"}
  MaxOffset = 1
  Sizes = {0, 3}
  MaxSymbols = 3
  MaxMoves = 1
  SearchNames = {"", "f"}
  QualifiedNames = {"N::f"}
  ModuleBase = 6
  MaxScopeSymbols = 4
  MaxChanges = 3
  Programs <- SomePrograms
  NumOrdinals = 1
  MaximumTraversalCount = 10
  MaxSteps = 6
  Types = {"int", "long"}
  RangeSizes = {0, 1, 2, 5}
  Span = 8
  Base = 2
  FunctionSize = 3
  MaxVariables = 2
  MaxRanges = 2
  MaxCalls = 3
  MaxQueries = 2
  MaxEdits = 1
  Processes = {1, 2}
  Modules = {"m"}
  MaxEvents = 3
  MaxRequests = 2
  MaxFaults = 1
INVARIANT LayoutsFollow
INVARIANT IndexesFound
INVARIANT AnswersCurrent
INVARIANT RangesKept
INVARIANT FoundUnlessFlowDependent
INVARIANT RangesOfBlocks
INVARIANT Imported
INVARIANT ManagerFollows
PROPERTY ListingsFollow
PROPERTY ListsFollow
\* Calls are bounded, and the caller may stop calling.
CHECK_DEADLOCK FALSE
