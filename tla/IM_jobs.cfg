CONSTANTS
  Accounts = {1, 2, 3, 4}
  Jobs = {j1}
  Requesters = {1}
  Fees = {20}
  MinReps = {0}
  Latencies = {50}
  Terms = {1}
  BidWindow = 1
  ClaimWindow = 1
  ReviewVotes = 3
  Grace = 2
  StaleWindow = 1
  MinVerdicts = 1
  ApprovalWindow = 2
  SuspendEpochs = 1
  Late = 0
  LastPost = 0
  LastEntry = 2
  MaxEpoch = 3
  Balance0 = 20
  Stake0 = 1
  Fund0 = 20
  Limits <- JobsLimits
SPECIFICATION FairSpec
INVARIANTS FundExact VerdictFinal PaidByVerdict
PROPERTIES DepositOnce Settles
CHECK_DEADLOCK FALSE
