\* Retries, partial failures, dirty unwinds, pauses of both kinds, stops, cancellation
\* and both ways of taking a run up again, as often as a host likes; no scope faults,
\* no handler that absorbs a boundary.
SPECIFICATION HostSpec
CONSTANTS
  Nodes <- MCNodes
  Subgraphs <- MCSubgraphs
  Root = "root"
  Top = "top"
  Children <- MCChildren
  Enclosing <- MCEnclosing
  Unset = Unset
  RetryPolicy <- NodeRetry
  Structural = {"outer"}
  DefaultRetry = 1
  Transitions <- PauseOnDegraded
  OnRetry = {}
  OnError = {"middle"}
  Completes = {"done"}
  Outcomes <- Failing
  Faults <- NoFaults
  Verdicts = {"truthy", "falsy"}
  Irreversible = {"left"}
  Commands = {"pause", "stop"}
  Cancellable = TRUE
  ResumeModes = {"executor", "trace"}
  PreflightMayFail = FALSE
  MaxCommands = 2
  MaxResumes = Unset
INVARIANTS
  TypeOK
  FrontierIsNewest
PROPERTIES
  ImplementsSaga
  StopLands
  RunSettles
  PausedFinishes
\* A run that has ended takes no further step.
CHECK_DEADLOCK FALSE
