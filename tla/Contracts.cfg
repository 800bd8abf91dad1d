SPECIFICATION MCSpec
CONSTANTS
  alice = alice
  bob = bob
  carol = carol
  Zero = Zero
  Contracts = {1, 2, 3}
  Requesters = {r1}
  Processor = cp
  Stacks = {0, 1}
  Notified = {1, 3}
  Managing = {3}
  Voting = {2}
  IpoFailed = {3}
  Holders <- MCHolders
  SharesWhilePaid = FALSE
  MaxDepth = 4
  MaxCalls <- MCMaxCalls
INVARIANTS StatesProtected LocksAccountedFor CallbacksExact StacksSound
INVARIANTS RecordsAgree UniverseDigestExact
PROPERTIES LocksUsedProperly  ImplementsHoldings
