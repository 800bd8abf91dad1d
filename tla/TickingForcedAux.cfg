SPECIFICATION Spec
ACTION_CONSTRAINT Prompt
CONSTANTS
  c1 = c1
  c2 = c2
  c3 = c3
  c4 = c4
  n1 = n1
  n2 = n2
  d1 = d1
  d2 = d2
  Empty = Empty
  NotDone = NotDone
  NoData = NoData
  Invalidated = Invalidated
  Unknown = Unknown
  Modulus = 16
  Nodes = {n1, n2}
  Computors = {c1}
  Quorum = 1
  Own <- OwnOneFollowed
  Leader <- AlwaysC1
  LastTick = 5
  InitialTick = 0
  Seeded <- OneSeed
  MainNodes = {n1}
  Reissuers = {}
  Commanded = {}
  Forcers = {n2}
  Switchers = {}
  Faulty = {}
  FaultyVotes = {}
  Payloads = {d1}
INVARIANT Finality
CHECK_DEADLOCK FALSE
