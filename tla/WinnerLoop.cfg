SPECIFICATION Spec
CONSTANTS
  Modulus = 16
  MaxParticipants = 4
  MaxWeight = 3
INVARIANTS
  OneIntervalWins
  TicketsEven
