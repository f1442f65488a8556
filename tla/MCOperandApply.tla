--------------------------- MODULE MCOperandApply ---------------------------
(***************************************************************************)
(* Instances of OperandApply for TLC.                                      *)
(***************************************************************************)
EXTENDS OperandApply

Plain ==
    [labels |-> EmptyMap, annotations |-> EmptyMap, logFormat |-> "text", logLevel |-> "1",
     trustNamespace |-> Empty,
     secretTargets |-> [policy |-> "Disabled", authorizedSecrets |-> << >>],
     filterExpiredCertificates |-> "Disabled", defaultCAPackage |-> "Disabled",
     resources |-> Unset, affinity |-> Unset, tolerations |-> Unset,
     nodeSelector |-> EmptyMap]

Secrets(names) ==
    [Plain EXCEPT !.secretTargets = [policy |-> "Custom", authorizedSecrets |-> names]]

(* Specs that differ from Plain in every field of the spec, one after the  *)
(* other or together; the labels and annotations clash with those of the   *)
(* controller.                                                             *)
SevenSpecs ==
    {Plain,
     [Plain EXCEPT !.defaultCAPackage = "Enabled"],
     Secrets(<<"s1", "s2">>), Secrets(<<"s2", "s1">>),
     [Plain EXCEPT !.labels = Entry("app", "mine") ++ Entry("team", "a"),
                   !.annotations = Entry("inject-ca-from-secret", "mine")],
     [Plain EXCEPT !.logLevel = "5", !.filterExpiredCertificates = "Enabled"],
     [Plain EXCEPT !.resources = "small", !.affinity = "near", !.tolerations = "all",
                   !.nodeSelector = Entry("os", "other") ++ Entry("zone", "z")]}

FourInputs ==
    [bundle : {[ca |-> "ca1", version |-> 1]},
     tls : {NoAPIServer, [adherence |-> "Strict", profile |-> "Modern"],
            [adherence |-> "Strict", profile |-> ""]},
     image : {"v1"}, sauid : {1}]
    \cup
    [bundle : {[ca |-> "ca2", version |-> 2]}, tls : {NoAPIServer},
     image : {"v2"}, sauid : {2}]

PlainCSR ==
    [labels |-> EmptyMap, logLevel |-> "1", clusterID |-> Empty, selector |-> Empty,
     commonName |-> << >>, dnsNames |-> << >>, revisions |-> <<"default">>,
     trustDomain |-> "cluster.local", duration |-> "1h", renewBefore |-> "30m",
     keyAlgorithm |-> "RSA", keySize |-> 2048, port |-> 0, istioNamespace |-> "istio-ns",
     issuer |-> "ca", resources |-> Unset, affinity |-> Unset, tolerations |-> Unset,
     nodeSelector |-> Unset]

(* As above; one cannot be reached from the others by an edit.             *)
SevenCSRSpecs ==
    {PlainCSR,
     [PlainCSR EXCEPT !.revisions = << >>],
     [PlainCSR EXCEPT !.labels = Entry("app", "mine") ++ Entry("csr-namespace", "mine")],
     [PlainCSR EXCEPT !.revisions = <<"default", "r1">>, !.dnsNames = <<<<"a">>>>,
                      !.commonName = <<"cn">>],
     [PlainCSR EXCEPT !.selector = "sel", !.clusterID = "other", !.duration = "2h"],
     [PlainCSR EXCEPT !.resources = "small", !.affinity = "near", !.tolerations = "all",
                      !.nodeSelector = Entry("zone", "z")],
     [PlainCSR EXCEPT !.keyAlgorithm = "ECDSA", !.keySize = 384, !.port = 8443]}

ThreeCSRInputs ==
    [tls : {NoAPIServer, [adherence |-> "Strict", profile |-> "Modern"],
            [adherence |-> "Strict", profile |-> ""]},
     image : {"v1"}, clusterRole : {"r1"}]
    \cup [tls : {NoAPIServer}, image : {"v2"}, clusterRole : {"r2"}]
=============================================================================
