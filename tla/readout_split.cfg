SPECIFICATION Spec
CONSTANTS
  Bodies <- PlayerOne
  Requests <- OneWindow
  Probes <- ManyWindows
  Gains = {200}
  Offsets = {0}
  MaxFaults = 0
  Unset = Unset
  Torn = Torn
INVARIANTS SplitReachesDie
