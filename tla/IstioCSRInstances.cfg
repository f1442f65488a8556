\* Two objects, perhaps of one second, one disturbance, under fairness.
CONSTANTS
    Absent = Absent
    Namespaces = {ns1, ns2}
    SameSecond = TRUE
    MaxCreates = 2
    MaxLag = 1
    MaxFaults = 1
SPECIFICATION FairSpec
INVARIANTS
    TypeOK
    AtMostOneProcessed
    OnlyOldestInstalls
PROPERTIES
    FirstServed
CHECK_DEADLOCK FALSE
