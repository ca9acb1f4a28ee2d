SPECIFICATION FairSpec
CONSTANTS u1 = u1
 u2 = u2
 Hosts <- AllHosts
 Users <- One
 MayBreak = FALSE
 CameraStops = FALSE
INVARIANTS HandleHeld CallsExclude
PROPERTIES CallsEnd
CHECK_DEADLOCK FALSE
