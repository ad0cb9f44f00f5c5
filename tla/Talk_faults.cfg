SPECIFICATION Spec
CONSTANTS
  Conns = {c1, c2}
  ReverseConns = {}
  Async = FALSE
  Bidirectional = TRUE
  HandshakeIter = 1
  CountDefault = 1
  CountMax = 5
  Muls = {2}
  WeakLimit = 2
  Udp = FALSE
  MaxLosses = 0
  MaxTimeouts = 2
  Crashes = TRUE
SYMMETRY Perms
INVARIANTS SameVerdict ReportAgreement
CHECK_DEADLOCK FALSE
