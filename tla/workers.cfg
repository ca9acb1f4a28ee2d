SPECIFICATION AllSpec
CONSTANTS
  Dies <- AllDies
  MaxCalls = 2
  MaxFaults = 1
  c1 = c1
  r1 = r1
INVARIANTS LeftAtRest ReadsGated HaltedWhenQuiet
PROPERTIES CallsReturn
