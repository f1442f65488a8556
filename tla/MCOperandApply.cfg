CONSTANTS
    Absent = Absent
    Unset = Unset
    Foreign = Foreign
    TMSpecs <- SevenSpecs
    TMInputs <- FourInputs
    CSRSpecs <- SevenCSRSpecs
    CSRInputs <- ThreeCSRInputs
    MaxForeign = 1
SPECIFICATION ApplySpec
INVARIANTS
    NoticesEveryChange
    OneWriteIsEnough
    OwnMetadataWins
CHECK_DEADLOCK FALSE
