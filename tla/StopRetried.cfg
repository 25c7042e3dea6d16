\* A stop acknowledged inside a boundary that is retried.
SPECIFICATION Spec
CONSTANTS
  Nodes <- MCNodes
  Subgraphs <- MCSubgraphs
  Root = "root"
  Top = "top"
  Children <- MCChildren
  Enclosing <- MCEnclosing
  Unset = Unset
  RetryPolicy <- NodeRetry
  Structural = {"outer"}
  DefaultRetry = 1
  Transitions <- None
  OnRetry = {}
  OnError = {}
  Completes = {"done"}
  Outcomes <- Reliable
  Faults <- NoFaults
  Verdicts = {}
  Irreversible = {}
  Commands = {"stop"}
  Cancellable = FALSE
  ResumeModes = {}
  PreflightMayFail = FALSE
  MaxCommands = 1
  MaxResumes = 0
PROPERTIES
  StopHonoured
\* A run that has ended takes no further step.
CHECK_DEADLOCK FALSE
