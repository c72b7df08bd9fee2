CONSTANTS
  Defs <- NestedDefs
  Calls <- NestedCalls
  Depth = 30
  Levels = 4
SPECIFICATION GenSpec
INVARIANT SchemasDescribeTypes
CHECK_DEADLOCK FALSE
