\* Three handlers of two calls each share one connection.
SPECIFICATION FairSpec
CONSTANTS
  Handlers = {h1, h2, h3}
  MaxOpen = 1
  MaxCalls = 2
CHECK_DEADLOCK FALSE
INVARIANTS
  TypeOK
  DatabaseOutlivesHandlers
PROPERTIES
  Served
  Stops
