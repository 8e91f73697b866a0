SPECIFICATION FairSpec
CONSTANTS
  Users = {u1}
  Pool = Pool
  Instances = {p1, p2}
  Nobody = Nobody
  BatchSize = 1
  Emitted = {"Deposited", "DrawExecuted"}
  MaxLogs = 2
  MaxBlocks = 2
  MaxFaults = 2
INVARIANTS
  TypeOK
  LiveStoreIsPrefix
  NeverAheadOfCheckpoint
PROPERTIES
  DurablePrefix
  BlocksIndexed
