SPECIFICATION MCFairSpec
CONSTANTS
  Users = {u1, u2}
  Accounts = {u1, u2}
  Saver = u1
  Nobody = Nobody
  Pool = Pool
  MaxParticipants = 2
  CancellationDelay = 1
  DrawInterval = 2
  PrizeAmount = 1
  Modulus = 8
  WalletGrant = 2
  Amounts = {1}
  MaxNonce = 1
  MaxHandles = 4
  MaxDraws = 2
  MaxRequestTime = 2
  MaxStarts = 2
  MaxTroubles = 1
INVARIANTS
  ClientTypeOK
PROPERTIES
  ReportedEntryIsReal
  SwitchHarmless
  InterruptedDepositRecovers
CHECK_DEADLOCK FALSE
