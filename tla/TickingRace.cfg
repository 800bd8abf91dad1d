SPECIFICATION Spec
CONSTANTS
  c1 = c1
  c2 = c2
  c3 = c3
  c4 = c4
  n1 = n1
  n2 = n2
  d1 = d1
  d2 = d2
  Empty = Empty
  NotDone = NotDone
  NoData = NoData
  Invalidated = Invalidated
  Unknown = Unknown
  Modulus = 4
  Nodes = {n1}
  Computors = {c1}
  Quorum = 1
  Own <- OwnOne
  Leader <- AlwaysC1
  LastTick = 3
  InitialTick = 1
  Seeded <- TwoSeeds
  MainNodes = {n1}
  Reissuers = {n1}
  Commanded = {n1}
  Forcers = {n1}
  Switchers = {n1}
  Faulty = {}
  FaultyVotes = {}
  Payloads = {d1, d2}
INVARIANT OneStatePerTick
PROPERTY TickDataFrozen
CHECK_DEADLOCK FALSE
