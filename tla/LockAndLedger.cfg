SPECIFICATION StatesSpec
CONSTANTS
  t1 = t1
  t2 = t2
  t3 = t3
  Threads = {t1, t2, t3}
  a = a
  b = b
  c = c
  q = q
  Keys = {a, b, c, q}
  Zero = Zero
  Capacity = 4
  home <- Home
  Saved <- TwoEntities
  DirtyCapacity = 2
  Computor = b
  Arbitrator = c
  Donee = q
  Contract = q
  Shares = 2
  Categories = 4
  Bidders = {b}
  Prices = {1, 2}
  Amounts = {2}
  ISSUANCE_RATE = 1
  MAX_SUPPLY = 6
  LastTick = 2
  MaxOperations = 3
INVARIANTS MutualExclusion BoundedOvertaking
INVARIANTS EntitiesFound NeverCrowded Conserved DigestExact
PROPERTIES SomeWriterGetsIn ImplementsStateLock ImplementsLedger
