CONSTANTS
    Absent = Absent
    Unset = Unset
    Foreign = Foreign
    Pipeline <- DeploymentPipeline
    Specs <- ClashingOrUnschedulable
    Bundles <- OneBundle
    Profiles <- OneProfile
    Images <- OneImage
    LateNamespace = FALSE
    Drifts = {"edit", "unlabel", "delete", "extra"}
    Outages = {"Timeout"}
    Scopes <- Everything
    PromptWatches = TRUE
    RetrySteps = 2
    MaxInstances = 1
    MaxFaults = 1
SPECIFICATION FairSpec
INVARIANTS
    StaysVisible
PROPERTIES
    Converges
    DeletionCompletes
    ImplementsOperand
CHECK_DEADLOCK FALSE
