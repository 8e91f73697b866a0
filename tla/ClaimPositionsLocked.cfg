SPECIFICATION ClaimSpec
CONSTANTS
  Users = {u1, u2}
  Pool = Pool
  MaxParticipants = 2
  CancellationDelay = 2
  DrawInterval = 4
  PrizeAmount = 1
  Modulus = 8
  WalletGrant = 2
  Amounts = {1}
  MaxNonce = 1
  MaxHandles = 4
  MaxDraws = 2
  MaxRequestTime = 4
INVARIANTS
  PositionsLocked
