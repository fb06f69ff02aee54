SPECIFICATION Spec
CONSTANTS
  MaxHeavy = 2
  ExpectedExit <- Sides
  MaxFaults = 1
  None = none0
INVARIANTS SessionsOwned CreditSound
PROPERTIES WaveEnds
ACTION_CONSTRAINTS EditsMatter
CHECK_DEADLOCK FALSE
