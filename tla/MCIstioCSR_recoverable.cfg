\* One kind; every failure is one the controller retries; under fairness.
CONSTANTS
    Absent = Absent
    service = service
    clusterrole = clusterrole
    deployment = deployment
    s1 = s1
    s2 = s2
    bad = bad
    Foreign = Foreign
    Kinds = {clusterrole}
    Pipeline <- ClusterRoleOnly
    GenWatched = {}
    RecordOnce = {}
    RecordAlways = {clusterrole}
    Specs = {s1, s2}
    InvalidSpecs = {}
    Unbuildable <- AllBuildable
    Refused = {}
    Digest <- AllDiffer
    Drifts = {"labels", "delete"}
    Outages = {"Timeout"}
    Scopes <- EverythingOrOne
    RetrySteps = 2
    MaxInstances = 1
    MaxFaults = 2
SPECIFICATION FairSpec
INVARIANTS
    ReadyIsTrue
    NoSilentRest
PROPERTIES
    Converges
    DeletionCompletes
CHECK_DEADLOCK FALSE
