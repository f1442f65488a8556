\* A user edits the spec while the controller works.
CONSTANTS
    Absent = Absent
    service = service
    clusterrole = clusterrole
    deployment = deployment
    s1 = s1
    s2 = s2
    bad = bad
    Foreign = Foreign
    Kinds = {clusterrole}
    Pipeline <- ClusterRoleOnly
    GenWatched = {}
    RecordOnce = {}
    RecordAlways = {clusterrole}
    Specs = {s1, s2}
    InvalidSpecs = {}
    Unbuildable <- AllBuildable
    Refused = {}
    Digest <- AllDiffer
    Drifts = {}
    Outages = {}
    Scopes = {}
    RetrySteps = 2
    MaxInstances = 1
    MaxFaults = 1
SPECIFICATION Spec
PROPERTIES
    SpecOwnedByUser
CHECK_DEADLOCK FALSE
