SPECIFICATION Spec
CONSTANTS
  Workers = {w1, w2}
  Pages = {p1}
  LastTick = 3
  Solutions = {1, 2}
  Wrong = {2}
  WindowSizes = {1}
  MaxFaults = 1
  MaxToggles = 1
  RemoteToggle = FALSE
  MaxSaves = 1
  MayShutDown = TRUE
  MaxPhase = 8
INVARIANTS CheckpointPristine ReadsBack Recoverable ShutdownClean
CONSTRAINT FewPhases
SYMMETRY WorkerSymmetry
