SPECIFICATION Spec
CONSTANTS
  MaxFaults = 1
  MaxTrouble = 0
PROPERTIES AppReattached
CHECK_DEADLOCK FALSE
