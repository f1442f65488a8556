\* Two kinds, a spec one of them cannot be built from, a spec that
\* validation rejects; drift, deletion,
\* an outage of either sort and restarts.
CONSTANTS
    Absent = Absent
    service = service
    clusterrole = clusterrole
    deployment = deployment
    s1 = s1
    s2 = s2
    bad = bad
    Foreign = Foreign
    Kinds = {clusterrole, deployment}
    Pipeline <- ClusterRoleDeployment
    GenWatched = {deployment}
    RecordOnce = {deployment}
    RecordAlways = {clusterrole}
    Specs = {s1, s2, bad}
    InvalidSpecs = {s2}
    Unbuildable <- DeploymentUnbuildable
    Refused = {}
    Digest <- AllDiffer
    Drifts = {"spec", "delete"}
    Outages = {"Timeout", "Forbidden"}
    Scopes <- Everything
    RetrySteps = 2
    MaxInstances = 1
    MaxFaults = 2
SPECIFICATION Spec
INVARIANTS
    TypeOK
    RejectedNeverApplied
    NeverReadyAndDegraded
    NoStuckDeletion
CHECK_DEADLOCK FALSE
