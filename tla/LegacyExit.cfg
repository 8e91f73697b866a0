SPECIFICATION FairSpec
CONSTANTS
  Users = {u1, u2}
  Nobody = Nobody
  Modulus = 2
  CancellationDelay = 1
  Savings = 1
  Amounts = {1}
  MaxRequests = 2
  MaxRequestTime = 0
  MaxFinalizations = 1
  MaxTroubles = 1
INVARIANTS
  LegacyTypeOK
  FundsConserved
PROPERTIES
  FinalizedIsShown
  FollowsLifecycle
  StaleRequestReleased
CHECK_DEADLOCK FALSE
