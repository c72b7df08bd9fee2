CONSTANTS
  Middlewares <- AddedMiddlewares
  Statuses = {201, 404}
  MaxSteps = 3
SPECIFICATION Spec
INVARIANTS
  EveryRequestIsLogged
  PanicIsAnswered
