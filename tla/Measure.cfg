SPECIFICATION FairSpec
CONSTANTS
  Second = 10
  IntMax = 31
  StreamRun = 1
  CountDefault = 10
  CountMax = 100
  Mod32 = 128
  PayloadSize = 3
  Mtu = 2
  HdrSize = 1
  SyncWorkers = 2
  AsyncWorkers = 4
  MinTimes = {1, 2, 4, 7}
  CountMuls = {0, 3}
  Rates = {2, 9, 19, 25}
  Streams <- StreamMenu
  Latency <- WorkerLatency
INVARIANTS LongEnough DurationFair OneRecount FailsOnlyAtLimit SomethingCame  LatencyMean SectionsMatch
PROPERTIES RestartRaises Settles
