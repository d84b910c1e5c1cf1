SPECIFICATION Spec
CONSTANTS
  Codes = {c1, c2}
  NumEndpoints = 1
  MaxWaiting = 1
  NoRetention = FALSE
INVARIANTS
  EndpointExclusive
CHECK_DEADLOCK FALSE
