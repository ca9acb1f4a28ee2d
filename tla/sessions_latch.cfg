SPECIFICATION Spec
CONSTANTS
  Configs <- WinUSBOnly
  Window = 2
  MayRefuse = TRUE
  MayStall = TRUE
  MaxFrames = 2
  MaxSegments = 5
INVARIANT EveryBackendLatches
CHECK_DEADLOCK FALSE
