--------------------------- MODULE IstioCSRObjects ---------------------------
(***************************************************************************)
(* The objects of the istio-csr operand (pkg/controller/istiocsr): what    *)
(* each should look like for an IstioCSR spec, when the controller takes   *)
(* an existing one for modified, and what its update makes of it.  Unlike  *)
(* trust-manager, istio-csr replaces whole objects and compares whole      *)
(* sets of labels.                                                         *)
(***************************************************************************)
EXTENDS ContainerArgs, ReconcileResult, ObjectFields

(* The fields of the spec that the CRD does not let anybody change.        *)
ImmutableSpecFields == {"keyAlgorithm", "keySize", "port", "istioNamespace", "issuer"}

-----------------------------------------------------------------------------
(***************************************************************************)
(* Labels.                                                                 *)
(***************************************************************************)
ControllerDefaultResourceLabels == [app |-> "istio-csr", std |-> "default"]

(* The first lines of reconcileIstioCSRDeployment: the default labels win. *)
ResourceLabels(s) == Merge(ControllerDefaultResourceLabels, s.labels)

(* updateResourceLabelsWithIstioMapperLabels: an object outside the        *)
(* namespace of the IstioCSR names that namespace, so that its events find *)
(* their way back.                                                         *)
IstioMapperLabels(labels) == Merge(Entry("csr-namespace", "csr-ns"), labels)

-----------------------------------------------------------------------------
(***************************************************************************)
(* The desired objects.                                                    *)
(***************************************************************************)
(* UpdateResourceLabels replaces the labels of the manifest.               *)
Labelled(labels, namespace, spec) ==
    Object([label |-> labels, meta |-> [namespace |-> namespace], spec |-> spec])

GetNetworkPolicyFromAsset(s) ==
    Labelled(Merge(ResourceLabels(s), Entry("owned-by", Manifest)), "csr-ns",
             [policy |-> Manifest])

UpdateServicePort(port) == IF port = 0 THEN 443 ELSE port

GetServiceObject(s) ==
    Labelled(ResourceLabels(s), "csr-ns",
             [type |-> Manifest, selector |-> Manifest, ports |-> UpdateServicePort(s.port)])

GetMetricsServiceObject(s) ==
    Labelled(ResourceLabels(s), "csr-ns", FromManifest({"type", "selector", "ports"}))

GetServiceAccountObject(s) == Labelled(ResourceLabels(s), "csr-ns", EmptyMap)

(* The name is generated by the API server.                                *)
GetClusterRoleObject(s) ==
    Object([label |-> IstioMapperLabels(ResourceLabels(s)), spec |-> [rules |-> Manifest]])

(* updateServiceAccountNamespaceInRBACBindingObject: the subject is the    *)
(* service account in the namespace of the IstioCSR.                       *)
UpdateServiceAccountNamespace == <<"istio-csr", "csr-ns">>

Binding(role) == [roleRef |-> role, subjects |-> UpdateServiceAccountNamespace]

GetClusterRoleBindingObject(s, in) ==
    Object([label |-> IstioMapperLabels(ResourceLabels(s)), spec |-> Binding(in.clusterRole)])

GetRoleObject(s) ==
    Labelled(IstioMapperLabels(ResourceLabels(s)), s.istioNamespace, [rules |-> Manifest])

GetRoleBindingObject(s) ==
    Labelled(IstioMapperLabels(ResourceLabels(s)), s.istioNamespace, Binding("istio-csr"))

GetRoleForLeasesObject(s) ==
    Labelled(IstioMapperLabels(ResourceLabels(s)), s.istioNamespace, [rules |-> Manifest])

GetRoleBindingForLeasesObject(s) ==
    Labelled(IstioMapperLabels(ResourceLabels(s)), s.istioNamespace,
             Binding("istio-csr-leases"))

-----------------------------------------------------------------------------
(***************************************************************************)
(* The Certificate of istiod.                                              *)
(***************************************************************************)
(* A DNS name is the tuple of its parts.                                   *)
CommonName(s) ==
    IF s.commonName = << >> THEN <<"istiod", s.istioNamespace>> ELSE s.commonName

(* One name per revision after the names of the user; the default revision *)
(* goes by the plain name, an empty one is passed over.                    *)
DNSNames(s) ==
    LET named == SelectSeq(s.revisions, LAMBDA r : r # Empty)
    IN  s.dnsNames \o
        [i \in 1..Len(named) |->
            IF named[i] = "default" THEN <<"istiod", s.istioNamespace>>
            ELSE <<"istiod", named[i], s.istioNamespace>>]

PrivateKeyAlgorithm(s) == IF s.keyAlgorithm = Empty THEN "RSA" ELSE s.keyAlgorithm

PrivateKeySize(s) ==
    IF s.keySize # 0 THEN s.keySize
    ELSE IF PrivateKeyAlgorithm(s) = "RSA" THEN 2048 ELSE 384

UpdateCertificateParams(s) ==
    [commonName |-> CommonName(s), dnsNames |-> DNSNames(s),
     uris |-> <<s.trustDomain, s.istioNamespace>>,
     duration |-> IF s.duration = Unset THEN "1h" ELSE s.duration,
     renewBefore |-> IF s.renewBefore = Unset THEN "30m" ELSE s.renewBefore,
     privateKey |-> <<PrivateKeyAlgorithm(s), PrivateKeySize(s)>>,
     issuerRef |-> s.issuer]

(* Size and algorithm must fit; the error is final.                        *)
CertificateError(s) ==
    IF \/ PrivateKeyAlgorithm(s) = "RSA" /\ PrivateKeySize(s) < 2048
       \/ PrivateKeyAlgorithm(s) = "ECDSA" /\ PrivateKeySize(s) \notin {256, 384}
    THEN "Irrecoverable" ELSE "nil"

GetCertificateObject(s) ==
    Labelled(IstioMapperLabels(ResourceLabels(s)), s.istioNamespace,
             UpdateCertificateParams(s))

-----------------------------------------------------------------------------
(***************************************************************************)
(* The Deployment.                                                         *)
(***************************************************************************)
IstioCSRServingTLSArgs(spec) ==
    Entry("--serving-tls-min-version", spec.minVersion)
    ++ Entry("--serving-tls-curve-preferences", Manifest)
    ++ (IF IsTLS13(spec) THEN EmptyMap
        ELSE Entry("--serving-tls-cipher-suites", spec.ciphers))

(* clusterTLSProfileArgs; in.tls is the APIServer object as it was when    *)
(* the controller was set up.                                              *)
ClusterTLSProfileArgs(in) ==
    LET effective == ResolveHonoredTLSProfile(in.tls)
    IN  IF effective = Skip THEN EmptyMap ELSE IstioCSRServingTLSArgs(effective)

(* updateArgList; what is fixed or immutable is left out, like the issuer. *)
UpdateArgList(s, in) ==
    Entry("--log-level", s.logLevel)
    ++ Entry("--cluster-id", IF s.clusterID = Empty THEN "Kubernetes" ELSE s.clusterID)
    ++ Entry("--trust-domain", s.trustDomain)
    ++ Entry("--serving-certificate-duration", s.duration)
    ++ Entry("--istiod-cert-duration", s.duration)
    ++ Entry("--istiod-cert-renew-before", s.renewBefore)
    ++ Entry("--istiod-cert-key-algorithm", s.keyAlgorithm)
    ++ Entry("--istiod-cert-key-size", s.keySize)
    ++ Entry("--istiod-cert-additional-dns-names", s.dnsNames)
    ++ Entry("--istiod-cert-istio-revisions", s.revisions)
    ++ (IF s.selector = Empty THEN EmptyMap
        ELSE Entry("--configmap-namespace-selector", s.selector))
    ++ ClusterTLSProfileArgs(in)

(* What the spec does not give stays unset.                                *)
UpdateResourceRequirement(s) == s.resources
UpdateAffinityRules(s) == s.affinity
UpdatePodTolerations(s) == s.tolerations

(* updateNodeSelector: the selector of the user replaces that of the       *)
(* manifest.  (One that is given has entries.)                             *)
UpdateNodeSelector(s) ==
    IF s.nodeSelector = Unset THEN [os |-> "linux"] ELSE s.nodeSelector

UpdateImage(in) == in.image

(* updateVolumeWithIssuerCA: one volume and one mount, for the copy of the *)
(* CA certificate.                                                         *)
UpdateVolumeWithIssuerCA == "root-ca"

GetDeploymentObject(s, in) ==
    Object([label |-> ResourceLabels(s), meta |-> [namespace |-> "csr-ns"],
            templateLabel |-> ResourceLabels(s),
            arg |-> UpdateArgList(s, in),
            nodeSelector |-> UpdateNodeSelector(s),
            spec |-> Omit(NotGiven(s, {"affinity", "tolerations"}),
                [resources |-> UpdateResourceRequirement(s),
                 affinity |-> UpdateAffinityRules(s),
                 tolerations |-> UpdatePodTolerations(s),
                 image |-> UpdateImage(in),
                 volumes |-> UpdateVolumeWithIssuerCA, volumeMounts |-> UpdateVolumeWithIssuerCA,
                 replicas |-> Manifest, selector |-> Manifest, container |-> Manifest,
                 imagePullPolicy |-> Manifest, ports |-> Manifest,
                 readinessProbe |-> Manifest, readinessProbePort |-> Manifest,
                 securityContext |-> Manifest, serviceAccountName |-> Manifest])])

(* What is validated while the Deployment is built; validation errors are  *)
(* not wrapped and so are retried, a missing image is final.               *)
DeploymentError(s, in) ==
    IF \/ Invalid \in {s.resources, s.affinity, s.tolerations}
       \/ s.nodeSelector # Unset
          /\ \E k \in DOMAIN s.nodeSelector : s.nodeSelector[k] = Invalid
    THEN "RetryRequired"
    ELSE IF in.image = Empty THEN "Irrecoverable"
    ELSE "nil"

-----------------------------------------------------------------------------
(***************************************************************************)
(* When an existing object counts as modified.                             *)
(***************************************************************************)
ObjectMetadataModified(desired, fetched) ==
    Section(desired, "label") # Section(fetched, "label")

CertificateSpecModified(desired, fetched) ==
    Section(desired, "spec") # Section(fetched, "spec")

(* deploymentSpecModified compares neither affinity nor tolerations, and   *)
(* of the readiness probe the path and the times, but not the port.        *)
DeploymentSpecModified(desired, fetched) ==
    \/ Differ(desired, fetched,
              {"replicas", "selector", "container", "image", "imagePullPolicy", "ports",
               "readinessProbe", "resources", "securityContext", "volumeMounts",
               "serviceAccountName", "volumes"})
    \/ \E section \in {"templateLabel", "arg", "nodeSelector"} :
          Section(desired, section) # Section(fetched, section)

(* What the builder of the Deployment sets and its comparison overlooks.   *)
NeverCompared(kind) ==
    IF kind = "csr.Deployment"
    THEN {<<"spec", "affinity">>, <<"spec", "tolerations">>, <<"spec", "readinessProbePort">>}
    ELSE {}

ServiceSpecModified(desired, fetched) == Differ(desired, fetched, {"type", "ports", "selector"})

RbacRoleRulesModified(desired, fetched) == Differ(desired, fetched, {"rules"})

RbacRoleBindingRefModified(desired, fetched) == Differ(desired, fetched, {"roleRef"})

RbacRoleBindingSubjectsModified(desired, fetched) == Differ(desired, fetched, {"subjects"})

NetworkPolicySpecModified(desired, fetched) == Differ(desired, fetched, {"policy"})

HasObjectChanged(kind, desired, fetched) ==
    \/ ObjectMetadataModified(desired, fetched)
    \/ CASE kind = "csr.Certificate" -> CertificateSpecModified(desired, fetched)
         [] kind = "csr.Deployment" -> DeploymentSpecModified(desired, fetched)
         [] kind \in {"csr.Service", "csr.MetricsService"} ->
                ServiceSpecModified(desired, fetched)
         [] kind \in {"csr.ClusterRole", "csr.Role", "csr.LeasesRole"} ->
                RbacRoleRulesModified(desired, fetched)
         [] kind \in {"csr.ClusterRoleBinding", "csr.RoleBinding", "csr.LeasesRoleBinding"} ->
                \/ RbacRoleBindingRefModified(desired, fetched)
                \/ RbacRoleBindingSubjectsModified(desired, fetched)
         [] kind = "csr.NetworkPolicy" -> NetworkPolicySpecModified(desired, fetched)
         [] kind = "csr.ServiceAccount" -> FALSE

-----------------------------------------------------------------------------
(***************************************************************************)
(* The kinds, in the order of the pipeline.                                *)
(***************************************************************************)
FullPipeline ==
    <<"csr.NetworkPolicy", "csr.Service", "csr.MetricsService", "csr.ServiceAccount",
      "csr.ClusterRole", "csr.ClusterRoleBinding", "csr.Role", "csr.RoleBinding",
      "csr.LeasesRole", "csr.LeasesRoleBinding", "csr.Certificate", "csr.Deployment">>

Desired(kind, s, in) ==
    CASE kind = "csr.NetworkPolicy" -> GetNetworkPolicyFromAsset(s)
      [] kind = "csr.Service" -> GetServiceObject(s)
      [] kind = "csr.MetricsService" -> GetMetricsServiceObject(s)
      [] kind = "csr.ServiceAccount" -> GetServiceAccountObject(s)
      [] kind = "csr.ClusterRole" -> GetClusterRoleObject(s)
      [] kind = "csr.ClusterRoleBinding" -> GetClusterRoleBindingObject(s, in)
      [] kind = "csr.Role" -> GetRoleObject(s)
      [] kind = "csr.RoleBinding" -> GetRoleBindingObject(s)
      [] kind = "csr.LeasesRole" -> GetRoleForLeasesObject(s)
      [] kind = "csr.LeasesRoleBinding" -> GetRoleBindingForLeasesObject(s)
      [] kind = "csr.Certificate" -> GetCertificateObject(s)
      [] kind = "csr.Deployment" -> GetDeploymentObject(s, in)

BuildError(kind, s, in) ==
    CASE kind = "csr.Certificate" -> CertificateError(s)
      [] kind = "csr.Deployment" -> DeploymentError(s, in)
      [] OTHER -> "nil"

(* createOrApply...: create what is missing, update what has changed.      *)
NeedsUpdate(kind, s, in, fetched) ==
    fetched # Absent => HasObjectChanged(kind, Desired(kind, s, in), fetched)

(* A list without elements is not stored, and does not compare equal to    *)
(* one that is not there.                                                  *)
Stored(desired) ==
    IF Value(desired, <<"spec", "dnsNames">>) = << >>
    THEN [f \in DOMAIN desired \ {<<"spec", "dnsNames">>} |-> desired[f]]
    ELSE desired

(* UpdateWithRetry and Create: the whole object is written; nothing of     *)
(* what others had put into it remains.                                    *)
Update(o, desired, uid) ==
    [fields |-> Stored(desired), owned |-> DOMAIN Stored(desired),
     uid |-> IF o = Absent THEN uid ELSE o.uid]

=============================================================================
