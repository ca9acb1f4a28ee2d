SPECIFICATION AllSpec
CONSTANTS
  t1 = t1
  t2 = t2
  Callers <- TwoCallers
  Ops <- LifeOps
  Backends <- HwOnly
  Attached = "hw"
  MaxLevel = 1
  RunMaxConsecFails = 1
  ForgetsFailedWrite = TRUE
  FanInFlags = TRUE
  MayFail = TRUE
  MayUnplug = FALSE
  MaxLoops = 2
INVARIANTS
  CoolerOnIsTrue OneRegulator EnabledOrFaulted DriveKept CacheIsTrue
