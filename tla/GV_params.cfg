CONSTANTS
  a1 = a1
  a2 = a2
  minStake = minStake
  governance_keys = governance_keys
  None = None
  CouncilKey = governance_keys
  Keys = {minStake}
  RateLimited = {minStake}
  Founders = {a1}
  Initial = 2
  CapBps = 5000
  Timelock = 2
  Accounts = {a1, a2}
  Stakers = {a1, a2}
  Ids = {p1}
  Changes <- AllChanges
  Motions <- OneMotion
  MaxEpoch = 3
  MaxChanges = 2
  Concurrent = TRUE
SPECIFICATION Spec
INVARIANTS HandledApplied
PROPERTIES GrowthBounded VotesFinal
CHECK_DEADLOCK FALSE
