CONSTANTS
  Keys = {1, 2, 3}
  Pages <- AllPages
  Sizes <- AllSizes
  Sorts <- AllSorts
  Args = {0, 1}
  Width = 4
  Vars = {"A", "B"}
  Values <- AllValues
  Parts <- AllParts
  MaxParts = 4
  Structs <- AllStructs
  Names = {"id", "h", "q", "r"}
  Incoming <- AllIncoming
  Defs <- AllDefs
  Calls <- AllCalls
  Depth = 30
  Levels = 4
SPECIFICATION InputsSpec
INVARIANTS
  WalkIsComplete
  ConfigLoadsAsWritten
  NilMeansBound
  DocsMatchBinding
  SchemasDescribeTypes
CHECK_DEADLOCK FALSE
