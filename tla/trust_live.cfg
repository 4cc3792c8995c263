SPECIFICATION TFairSpec
CONSTANTS
    MaxRev = 2
    MaxFaults = 1
PROPERTY Converges
CHECK_DEADLOCK FALSE
