SPECIFICATION Spec
CONSTANTS
  Accounts = {a1, a2}
  Chains = {Sepolia, Other}
  Target = Sepolia
  Nobody = Nobody
  Unknown = Unknown
  Awaited = Awaited
  Failed = Failed
  MaxCalls = 2
  MaxChanges = 2
SYMMETRY AccountSymmetry
INVARIANTS
  TypeOK
  ConnectedIsUsable
  ConnectingEnds
  ShowsWallet
PROPERTIES
  DisconnectRetained
CHECK_DEADLOCK FALSE
