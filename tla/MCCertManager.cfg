SPECIFICATION Spec
CONSTANTS
    Absent = Absent
    Unset = Unset
    Setups <- MCSetups
INVARIANTS
    TypeOK
    AtRestAsAsked
PROPERTIES
    SpecIsTheUsers
    Converges
