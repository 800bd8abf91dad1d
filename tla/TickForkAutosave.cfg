SPECIFICATION Spec
CONSTANTS
  Workers = {w1}
  Pages = {p1}
  LastTick = 3
  Solutions = {1, 2}
  Wrong = {2}
  WindowSizes = {2}
  MaxFaults = 0
  MaxToggles = 0
  RemoteToggle = FALSE
  MaxSaves = 2
  MayShutDown = FALSE
  MaxPhase = 8
INVARIANT AutosaveAlone
