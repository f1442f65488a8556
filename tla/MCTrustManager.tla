--------------------------- MODULE MCTrustManager ---------------------------
(***************************************************************************)
(* Instances of TrustManager for TLC.                                      *)
(***************************************************************************)
EXTENDS TrustManager

Base ==
    [labels |-> EmptyMap, annotations |-> EmptyMap, logFormat |-> "text", logLevel |-> "1",
     trustNamespace |-> Empty,
     secretTargets |-> [policy |-> "Disabled", authorizedSecrets |-> << >>],
     filterExpiredCertificates |-> "Disabled", defaultCAPackage |-> "Disabled",
     resources |-> Unset, affinity |-> Unset, tolerations |-> Unset,
     nodeSelector |-> EmptyMap]

(* A label that clashes with the managed one, the CA package, a label and  *)
(* tolerations that fail their validation.                                 *)
Clashing == [Base EXCEPT !.labels = Entry("app", "mine") ++ Entry("team", "a"), !.affinity = "near"]
Package == [Base EXCEPT !.defaultCAPackage = "Enabled"]
Mislabelled == [Base EXCEPT !.labels = Entry("team", Invalid)]
Unschedulable == [Base EXCEPT !.tolerations = Invalid]

ClashingOrUnschedulable == {Clashing, Unschedulable}
PackageOrMislabelled == {Package, Mislabelled}

PackagePipeline == <<"DefaultCAPackage", "ServiceAccount", "Deployment">>
DeploymentPipeline == <<"ServiceAccount", "Deployment">>

Bundle(ca, version) == [ca |-> ca, version |-> version]
OneBundle == {Bundle("ca1", 1)}
ThreeBundles == {Absent, Bundle("ca1", 1), Bundle("ca2", 2)}

Modern(adherence) == [adherence |-> adherence, profile |-> "Modern"]
OneProfile == {Modern("Strict")}
TwoProfiles == {Modern("Strict"), Modern("Legacy")}

OneImage == {"v1"}
TwoImages == {"v1", "v2"}

Everything == {Targets}
=============================================================================
