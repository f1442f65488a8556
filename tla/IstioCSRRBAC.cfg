\* One disturbance of any kind, under fairness.
CONSTANTS
    Outages = {"Timeout"}
    MaxNames = 4
    MaxFaults = 1
SPECIFICATION FairSpec
INVARIANTS
    TypeOK
    ReadyMeansBound
PROPERTIES
    Settles
CHECK_DEADLOCK FALSE
