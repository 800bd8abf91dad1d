SPECIFICATION MCSpec
CONSTANTS
  c1 = c1
  c2 = c2
  c3 = c3
  c4 = c4
  n1 = n1
  n2 = n2
  d1 = d1
  d2 = d2
  Empty = Empty
  NotDone = NotDone
  NoData = NoData
  Invalidated = Invalidated
  Unknown = Unknown
  Modulus = 16
  Nodes = {n1, n2}
  Computors = {c1, c2, c3, c4}
  Quorum = 3
  Own <- OwnThreeOfFour
  Leader <- AlwaysC4
  LastTick = 3
  InitialTick = 0
  Seeded <- OneSeed
  MainNodes = {n1, n2}
  Reissuers = {}
  Commanded = {}
  Forcers = {}
  Switchers = {}
  Faulty = {c4}
  FaultyVotes <- Doubting
  Payloads = {d1, d2}
INVARIANTS UniformContent NoDeadEnd TransactionsComplete
CHECK_DEADLOCK FALSE
