SPECIFICATION TimedSpec
CONSTANTS
  Conns = {c1}
  ReverseConns = {}
  Async = FALSE
  Bidirectional = TRUE
  HandshakeIter = 1
  CountDefault = 1
  CountMax = 3
  Muls = {2}
  WeakLimit = 2
  Udp = TRUE
  MaxLosses = 2
  MaxTimeouts = 6
  Crashes = FALSE
INVARIANTS ReportAgreement
PROPERTIES AlwaysEnds
