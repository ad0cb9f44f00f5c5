SPECIFICATION Spec
CONSTANTS
  Sides = {"listener"}
  Options <- AllOptions
  MaxOptions = 2
INVARIANTS CheckedIsEnough
CHECK_DEADLOCK FALSE
