CONSTANTS
  Conns = {c1, c2}
  Ids = {b1}
SPECIFICATION BooksSpec
CHECK_DEADLOCK FALSE
INVARIANTS
  NilMeansDrained
  AnswersAreTrue
  LostEventsAreKnown
PROPERTIES
  CatalogueKept
  StartReturns
  GoroutineEnds
  ProcessExits
