SPECIFICATION AllSpec
CONSTANTS
  Bodies <- BothBodies
  Requests <- OneWindow
  Probes <- ManyWindows
  Gains = {200}
  Offsets = {0}
  MaxFaults = 1
  Unset = Unset
  Torn = Torn
  g1 = g1
  g2 = g2
INVARIANTS NoDeadMode FrameLengthAgrees CodesFollow WindowHolds FailedCallKeepsView LinesReported ExposureHolds SubscriptionHolds
