SPECIFICATION Spec
CONSTANTS
  Workers = {w1}
  Pages = {p1}
  LastTick = 3
  Solutions = {1, 2}
  Wrong = {2}
  WindowSizes = {1}
  MaxFaults = 0
  MaxToggles = 1
  RemoteToggle = TRUE
  MaxSaves = 0
  MayShutDown = FALSE
  MaxPhase = 8
INVARIANT Recoverable
