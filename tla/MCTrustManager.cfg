CONSTANTS
    Absent = Absent
    Unset = Unset
    Foreign = Foreign
    Pipeline <- PackagePipeline
    Specs <- PackageOrMislabelled
    Bundles <- ThreeBundles
    Profiles <- TwoProfiles
    Images <- TwoImages
    LateNamespace = TRUE
    Drifts = {"edit", "unlabel", "delete"}
    Outages = {"Timeout"}
    Scopes <- Everything
    PromptWatches = FALSE
    RetrySteps = 2
    MaxInstances = 1
    MaxFaults = 1
SPECIFICATION Spec
INVARIANTS
    TypeOK
    ReadyIsTrue
    NoSilentRest
    ObservedIsTrue
    FinalizerAtRest
CHECK_DEADLOCK FALSE
