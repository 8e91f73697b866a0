SPECIFICATION AccessSpec
CONSTANTS
  Users = {u1, u2}
  Pool = Pool
  MaxParticipants = 2
  CancellationDelay = 1
  DrawInterval = 2
  PrizeAmount = 1
  Modulus = 8
  WalletGrant = 2
  Amounts = {1, 2}
  MaxNonce = 2
  MaxHandles = 5
  MaxDraws = 1
  MaxRequestTime = 0
SYMMETRY UserSymmetry
INVARIANTS
  TypeOK
  Solvent
  EligibleTotalExact
  PrizesWithinBalance
  SnapshotConsistent
  RequestsAreFresh
  MembershipConsistent
  NothingUnreadable
PROPERTIES
  OneWinner
  MembershipFollowsSavings
  PromiseKept
