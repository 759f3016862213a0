SPECIFICATION RequestsSpec
CONSTANTS
  Parts = {"generation", "pipeline", "breaker"}
  none = none
CHECK_DEADLOCK FALSE
PROPERTIES
  RequestsEnd
