\* A boundary paused half way meets a claim that no longer holds when it is adopted.
SPECIFICATION Spec
CONSTANTS
  Nodes <- MCNodes
  Subgraphs <- MCSubgraphs
  Root = "root"
  Top = "top"
  Children <- MCChildren
  Enclosing <- MCEnclosing
  Unset = Unset
  RetryPolicy <- NodeRetry
  Structural = {"outer"}
  DefaultRetry = 1
  Transitions <- None
  OnRetry = {}
  OnError = {}
  Completes = {"done"}
  Outcomes <- Reliable
  Faults <- OuterClaims
  Verdicts = {}
  Irreversible = {}
  Commands = {"pause"}
  Cancellable = FALSE
  ResumeModes = {"trace"}
  PreflightMayFail = FALSE
  MaxCommands = 1
  MaxResumes = 1
PROPERTIES
  CleanStopRestores
\* A run that has ended takes no further step.
CHECK_DEADLOCK FALSE
