SPECIFICATION Spec
CONSTANTS
  Sides = {"listener"}
  Options <- AllOptions
  MaxOptions = 2
INVARIANTS PayloadSizeApplied
CHECK_DEADLOCK FALSE
