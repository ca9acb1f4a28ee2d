SPECIFICATION FairSpec
CONSTANTS
  Callers = {t1}
  Ops <- AllCalls
  Backends <- OneBackendOnly
  Attached = "hw"
  MaxLevel = 1
  RunMaxConsecFails = 2
  ForgetsFailedWrite = TRUE
  FanInFlags = TRUE
  MayFail = FALSE
  MayUnplug = TRUE
  MaxLoops = 2
PROPERTIES LoopsEnd
CHECK_DEADLOCK FALSE
