SPECIFICATION FairSpec
CONSTANTS
  MaxFaults = 4
  MaxTrouble = 2
INVARIANTS MotorsCared
PROPERTIES AllRevived
CHECK_DEADLOCK FALSE
