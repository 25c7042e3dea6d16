\* flow.degraded, flow.failed, unbound nodes, partial failures and a boundary whose
\* claims or action do not resolve, under policies that differ per unit, with OnRetry
\* and OnError handlers of every verdict, racing
\* a pause, a stop and a cancellation, with a preflight that may fail.
SPECIFICATION Spec
CONSTANTS
  Nodes <- MCNodes
  Subgraphs <- MCSubgraphs
  Root = "root"
  Top = "top"
  Children <- MCChildren
  Enclosing <- MCEnclosing
  Unset = Unset
  RetryPolicy <- NodeRetry
  Structural = {"outer"}
  DefaultRetry = 1
  Transitions <- MixedPolicies
  OnRetry = {"right", "outer"}
  OnError = {"left", "outer", "last", "root"}
  Completes = {"done"}
  Outcomes <- Asserting
  Faults <- InnerFaults
  Verdicts = {"truthy", "falsy", "error", "degrade"}
  Irreversible = {"left"}
  Commands = {"pause", "stop", "step"}
  Cancellable = TRUE
  ResumeModes = {"executor", "trace"}
  PreflightMayFail = TRUE
  MaxCommands = 1
  MaxResumes = 1
INVARIANTS
  EffectsJournaled
PROPERTIES
  CleanStopRestores
  ConditionOnlyWorsens
  PauseHonoured
  HardFailureEnds
\* A run that has ended takes no further step.
CHECK_DEADLOCK FALSE
