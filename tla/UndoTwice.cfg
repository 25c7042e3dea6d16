\* A dirty unwind, resumed.
SPECIFICATION Spec
CONSTANTS
  Paths <- MCPaths
  Above <- MCAbove
  Disks <- MCDisks
  Top = Top
  None = None
  Ops = {"write", "remove"}
  MaxOps = 2
  MaxFaults = 1
  MaxOutside = 0
  MaxUnwinds = 2
  MaxReloads = 0
PROPERTIES
  UndoneStaysUndone
\* A run that has landed takes no further step.
CHECK_DEADLOCK FALSE
