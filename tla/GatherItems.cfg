\* Three items over two slots: partial failures, a pause or a stop, cancellation,
\* a retry of the boundary and a resume from the trace.
SPECIFICATION FairSpec
CONSTANTS
  Count = 3
  Body <- MCBody
  Limit = 2
  Outcomes <- MCOutcomes
  Irreversible = {"mark"}
  Commands = {"pause", "stop"}
  Cancellable = TRUE
  Retries = 1
  MaxCommands = 1
  MaxResumes = 1
INVARIANTS
  EffectsNested
  CompletedWhole
  AckEndsPass
PROPERTIES
  ItemsAreSagas
  GatherSettles
\* A gather that completed, landed or stays parked takes no further step.
CHECK_DEADLOCK FALSE
