SPECIFICATION AdmissionSpec
CONSTANTS
  Users = {u1, u2}
  Pool = Pool
  MaxParticipants = 1
  CancellationDelay = 1
  DrawInterval = 3
  PrizeAmount = 1
  Modulus = 4
  WalletGrant = 1
  Amounts = {1}
  MaxNonce = 2
  MaxHandles = 4
  MaxDraws = 2
  MaxRequestTime = 3
INVARIANTS
  EmissionCapped
  NoStrandedSavings
PROPERTIES
  DrawFreezes
  DrawLockReleased
  SavingsAdmitted
