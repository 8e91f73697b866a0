SPECIFICATION MCFairSpec
CONSTANTS
  Users = {u1, u2}
  Actor = u2
  Saver = u1
  Pool = Pool
  MaxParticipants = 2
  CancellationDelay = 1
  DrawInterval = 2
  PrizeAmount = 1
  Modulus = 8
  WalletGrant = 2
  Amounts = {1}
  MaxNonce = 1
  MaxHandles = 5
  MaxDraws = 3
  MaxRequestTime = 4
  MaxRuns = 3
  MaxTroubles = 1
PROPERTIES
  EvidenceIsTrue
  PrintedDrawIsOwn
  InterruptedRunRecovers
CHECK_DEADLOCK FALSE
