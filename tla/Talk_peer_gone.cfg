SPECIFICATION TimedSpec
CONSTANTS
  Conns = {c1}
  ReverseConns = {}
  Async = FALSE
  Bidirectional = FALSE
  HandshakeIter = 1
  CountDefault = 1
  CountMax = 5
  Muls = {2}
  WeakLimit = 3
  Udp = FALSE
  MaxLosses = 0
  MaxTimeouts = 1
  Crashes = TRUE
PROPERTIES StreamWaitBounded
CHECK_DEADLOCK FALSE
