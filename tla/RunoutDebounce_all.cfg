\* The debounce thread against the reactor, with the timing of the code:
\* DEBOUNCE_COUNT as in the class, events reopening after 2 Ticks (0.4 s).
CONSTANTS
  DEBOUNCE_COUNT = 5
  EventDelay = 2
  ReadyDelay = 1
  InsertGcode = TRUE
  OnDisableGcode = FALSE
  MaxCallbacks = 2
SPECIFICATION FairSpec
INVARIANT TypeOK
PROPERTY SensorRearms
PROPERTY RunoutActedOn
