SPECIFICATION FairSpec
CONSTANTS
  Threads = {t1, t2, t3, t4}
  None = None
  MaxRounds = 3
  Spurious = TRUE
INVARIANTS TypeOK BarrierSafety CountsMatch NoEmbrace NoLostWakeup Inv
PROPERTIES RefinesBarrier RefinesFairBarrier
