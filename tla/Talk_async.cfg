SPECIFICATION Spec
CONSTANTS
  Conns = {c1, c2, c3, c4}
  ReverseConns = {c3, c4}
  Async = TRUE
  Bidirectional = TRUE
  HandshakeIter = 1
  CountDefault = 1
  CountMax = 5
  Muls = {2}
  WeakLimit = 2
  Udp = FALSE
  MaxLosses = 0
  MaxTimeouts = 0
  Crashes = FALSE
SYMMETRY Perms
INVARIANTS NoFailure FreshMarks MarksExact
PROPERTIES RefinesLockstep
