SPECIFICATION Spec
CONSTANTS
  Sides = {"listener", "connector"}
  Options <- AllOptions
  MaxOptions = 2
INVARIANTS Workable SameTest BothOrNeither SanityImplied
CHECK_DEADLOCK FALSE
