SPECIFICATION FairSpec
CONSTANTS
  Conns = {c1, c2}
  ReverseConns = {}
  Async = FALSE
  Bidirectional = TRUE
  HandshakeIter = 2
  CountDefault = 1
  CountMax = 5
  Muls = {2}
  WeakLimit = 3
  Udp = FALSE
  MaxLosses = 0
  MaxTimeouts = 0
  Crashes = FALSE
INVARIANTS TypeOK NoFailure ReportAgreement
PROPERTIES RefinesLockstep Termination
