SPECIFICATION Spec
CONSTANTS
    Absent = Absent
    Malformed = Malformed
    Setups <- DeletingSetups
    DefaultPolicies = {"deny-all"}
    ConsoleAssets = {"issuer-sample"}
    PolicyNames = {"a", "b"}
PROPERTIES DefaultPoliciesKept
