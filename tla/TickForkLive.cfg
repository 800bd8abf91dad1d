SPECIFICATION FairSpec
CONSTANTS
  Workers = {w1}
  Pages = {p1}
  LastTick = 4
  Solutions = {1, 3}
  Wrong = {1, 3}
  WindowSizes = {1, 2}
  MaxFaults = 1
  MaxToggles = 1
  RemoteToggle = TRUE
  MaxSaves = 1
  MayShutDown = FALSE
  MaxPhase = 8
PROPERTIES EpochEnds NobodyStaysParked
