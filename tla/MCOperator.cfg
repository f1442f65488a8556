SPECIFICATION Spec
CONSTANTS
    Absent = Absent
    Malformed = Malformed
    Setups <- MCSetups
    DefaultPolicies = {"deny-all", "allow-egress-to-dns"}
    ConsoleAssets = {"issuer-sample"}
    PolicyNames = {"a", "b"}
INVARIANTS
    TypeOK
    EveryReadIsCached
PROPERTIES
    ComesUp
