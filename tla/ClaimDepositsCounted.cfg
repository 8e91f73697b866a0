SPECIFICATION Spec
CONSTANTS
  Users = {u1, u2}
  Pool = Pool
  Instances = {p1}
  Nobody = Nobody
  BatchSize = 2
  Emitted = {"Deposited"}
  MaxLogs = 2
  MaxBlocks = 2
  MaxFaults = 1
INVARIANTS
  DepositsCounted
