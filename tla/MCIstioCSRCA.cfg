\* A CA of the user or of the issuer, one disturbance.
CONSTANTS
    Absent = Absent
    Requests <- AllRequests
    IssuerTypes = {"ca", "caUnnamed", "acme", "selfSigned"}
    Certificates = {"ca1", "ca2"}
    Outages = {"Timeout"}
    RetrySteps = 2
    MaxFaults = 1
SPECIFICATION FairSpec
INVARIANTS
    TypeOK
    CopyFollowsConfigMap
    CopyFollowsSecret
PROPERTIES
    OnlyValidated
    Recovers
CHECK_DEADLOCK FALSE
