SPECIFICATION ExchangeSpec
CONSTANTS
  Endpoint <- MCEndpoint
  StartSlot <- MCStartSlot
  Moment <- MCMoment
INVARIANTS
  MiscopiesAreNoticed
  CodesHoldTheirHour
\* A field with a character too few is not resolved, and after the last moment nothing happens to it.
CHECK_DEADLOCK FALSE
