SPECIFICATION MCSpec
CONSTRAINT Healthy
ACTION_CONSTRAINT Calm
CONSTANTS
  c1 = c1
  c2 = c2
  c3 = c3
  c4 = c4
  n1 = n1
  n2 = n2
  a = a
  b = b
  None = None
  Nodes = {n1, n2}
  Computors = {c1, c2, c3, c4}
  Own <- OwnThree
  Quorum = 3
  Faulty = {c4}
  Digests = {a, b}
  Views <- Disputed
  Slots = 2
  MaxQueries = 2
  Timeouts = {1, 2}
  CommitOffset = 1
  RevealOffset = 1
  EpochStarts = {5}
  MaxStarts = 1
  LastTick = 5
  Contracts = {c1, c2}
  Queries = {a}
  Periods = {1, 2}
  Minute = 2
  MaxSubscriptions = 1
  MaxSubscribers = 3
  Capacity = 2
  Steps = {1, 3}
  LastTime = 5
INVARIANTS NodesAgree DecisionExact IndexesConsistent  RevenueExact
INVARIANTS  RhythmKept 
CHECK_DEADLOCK FALSE
