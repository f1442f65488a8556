------------------------- MODULE TrustManagerObjects -------------------------
(***************************************************************************)
(* The objects of the trust-manager operand (pkg/controller/trustmanager): *)
(* what each of them should look like for a TrustManager spec and the      *)
(* inputs read from the cluster, when the controller takes an existing one *)
(* for modified, and what a server-side apply makes of it.                 *)
(***************************************************************************)
EXTENDS ContainerArgs, ReconcileResult, ObjectFields

-----------------------------------------------------------------------------
(***************************************************************************)
(* Spec, labels and annotations.                                           *)
(***************************************************************************)
SecretTargetsEnabled(s) ==
    /\ s.secretTargets.policy = "Custom"
    /\ Len(s.secretTargets.authorizedSecrets) > 0

DefaultCAPackageEnabled(s) == s.defaultCAPackage = "Enabled"

GetTrustNamespace(s) ==
    IF s.trustNamespace # Empty THEN s.trustNamespace ELSE "cert-manager"

(* validateTrustManagerConfig; the config is never empty, for the CRD      *)
(* gives its fields default values.                                        *)
ValidateTrustManagerConfig(s) ==
    /\ \A k \in DOMAIN s.labels : s.labels[k] # Invalid
    /\ \A k \in DOMAIN s.annotations : s.annotations[k] # Invalid

(* "app" is the label the caches and the watches go by; the five           *)
(* app.kubernetes.io labels are "std".                                     *)
ControllerDefaultResourceLabels == [app |-> "trust-manager", std |-> "default"]

(* Variant: the labels of the user win.                                    *)
GetResourceLabelsUserFirst(s) == s.labels ++ ControllerDefaultResourceLabels

(* getResourceLabels: the default labels win over those of the user.       *)
GetResourceLabels(s) == ControllerDefaultResourceLabels ++ s.labels

GetResourceAnnotations(s) == s.annotations

(* updateResourceAnnotations on top of the annotations of the manifest.    *)
UpdateResourceAnnotations(manifest, annotations) == annotations ++ manifest

-----------------------------------------------------------------------------
(***************************************************************************)
(* The desired objects.  in holds the inputs: the injected CA bundle, the  *)
(* APIServer object, the operand image and the uid of the ServiceAccount.  *)
(***************************************************************************)

(* readTrustedCABundle: the ConfigMap is missing, or its key is.  Neither  *)
(* error is final.                                                         *)
ReadTrustedCABundle(in) ==
    IF in.bundle = Absent THEN FromClientError("NotFound")
    ELSE IF in.bundle.ca = Empty THEN "RetryRequired"
    ELSE "nil"

(* The JSON package names the resourceVersion of the ConfigMap as version. *)
FormatCAPackage(in) == <<"package", in.bundle.ca, in.bundle.version>>

(* The hash covers the certificates only, so that a new resourceVersion    *)
(* alone does not restart the pod.                                         *)
ComputeCABundleHash(in) == <<"hash", in.bundle.ca>>

BuildDefaultCAPackageConfigMap(s, in, labels) ==
    Object([label |-> labels,
            annotation |-> UpdateResourceAnnotations(EmptyMap, GetResourceAnnotations(s)),
            spec |-> [data |-> FormatCAPackage(in)]])

GetServiceAccountObject(s, labels) ==
    Object([label |-> labels,
            annotation |-> UpdateResourceAnnotations(EmptyMap, GetResourceAnnotations(s)),
            spec |-> [automountServiceAccountToken |-> Manifest]])

(* appendSecretTargetRules; the names are sorted, so only the set counts.  *)
AppendSecretTargetRules(s) ==
    IF SecretTargetsEnabled(s)
    THEN LET names == s.secretTargets.authorizedSecrets
         IN  <<Manifest, "read", {names[i] : i \in 1..Len(names)}>>
    ELSE <<Manifest>>

Named(s, labels, spec) ==
    Object([label |-> labels, annotation |-> GetResourceAnnotations(s), spec |-> spec])

InTrustNamespace(s, labels, spec) ==
    Object([label |-> labels, annotation |-> GetResourceAnnotations(s), spec |-> spec,
            meta |-> [namespace |-> GetTrustNamespace(s)]])

GetClusterRoleObject(s, labels) == Named(s, labels, [rules |-> AppendSecretTargetRules(s)])

(* UpdateResourceLabels does not copy: the aggregation label is put into   *)
(* the map that all later steps of the same pass use.                      *)
ClusterReaderAggregateLabel == Entry("aggregate-to-cluster-reader", "true")

GetClusterViewClusterRoleObject(s, labels) ==
    Named(s, ClusterReaderAggregateLabel ++ labels, [rules |-> <<Manifest>>])

(* The subjects of a binding name the service account of the operand.      *)
UpdateBindingSubjects == {"trust-manager"}

Binding(role) == [roleRef |-> role, subjects |-> UpdateBindingSubjects]

GetClusterRoleBindingObject(s, labels) == Named(s, labels, Binding("trust-manager"))

GetTrustNamespaceRoleObject(s, labels) ==
    InTrustNamespace(s, labels, [rules |-> <<Manifest>>])

GetTrustNamespaceRoleBindingObject(s, labels) ==
    InTrustNamespace(s, labels, Binding("trust-manager"))

GetLeaderElectionRoleObject(s, labels) == Named(s, labels, [rules |-> <<Manifest>>])

GetLeaderElectionRoleBindingObject(s, labels) ==
    Named(s, labels, Binding("trust-manager:leaderelection"))

GetWebhookServiceObject(s, labels) ==
    Named(s, labels, FromManifest({"type", "selector", "ports"}))

GetMetricsServiceObject(s, labels) ==
    Named(s, labels, FromManifest({"type", "selector", "ports"}))

GetIssuerObject(s, labels) == Named(s, labels, [issuer |-> Manifest])

(* The names in the certificate follow from the names of the service, the  *)
(* secret and the issuer.                                                  *)
GetCertificateObject(s, labels) ==
    Named(s, labels, FromManifest({"commonName", "dnsNames", "secretName", "issuerRef",
                                   "revisionHistoryLimit", "secretTemplate",
                                   "rotationPolicy"}))

InjectCAFromSecret == Entry("inject-ca-from-secret", "cert-manager/trust-manager-tls")

(* Variant: the annotations of the user replace the injection annotation.  *)
UpdateWebhookAnnotationsUserFirst(annotations) ==
    annotations ++ InjectCAFromSecret

(* updateWebhookAnnotations: the CA injection annotation wins.             *)
UpdateWebhookAnnotations(annotations) ==
    InjectCAFromSecret ++ annotations

(* Rules and client configuration of the webhook.  The manifest leaves the *)
(* scope of the rules and the port of the service to the API server.       *)
WebhookRules == [rules |-> Manifest, scope |-> Unset]
UpdateWebhookClientConfig == [service |-> "cert-manager/trust-manager", port |-> Unset]

GetValidatingWebhookConfigObject(s, labels) ==
    Object([label |-> labels,
            annotation |-> UpdateWebhookAnnotations(GetResourceAnnotations(s)),
            spec |-> [webhookRules |-> WebhookRules, clientConfig |-> UpdateWebhookClientConfig]
                     ++ FromManifest({"name", "admissionReviewVersions", "failurePolicy",
                                      "sideEffects", "timeoutSeconds"})])

-----------------------------------------------------------------------------
(***************************************************************************)
(* The Deployment.                                                         *)
(***************************************************************************)

(* updateDeploymentArgs; what does not depend on the spec is left out.     *)
UpdateDeploymentArgs(s) ==
    Entry("--log-format", s.logFormat) ++ Entry("--log-level", s.logLevel)
    ++ Entry("--trust-namespace", GetTrustNamespace(s))
    ++ (IF SecretTargetsEnabled(s) THEN Entry("--secret-targets-enabled", "true") ELSE EmptyMap)
    ++ (IF s.filterExpiredCertificates = "Enabled"
        THEN Entry("--filter-expired-certificates", "true") ELSE EmptyMap)
    ++ (IF DefaultCAPackageEnabled(s)
        THEN Entry("--default-package-location", Manifest) ELSE EmptyMap)

(* applyClusterTLSProfile, applyTrustManagerWebhookTLSArgs.                *)
ApplyClusterTLSProfile(args, in) ==
    LET effective == ResolveHonoredTLSProfile(in.tls)
    IN  IF effective = Skip THEN args
        ELSE MergedTLSArgs(args, TrustManagerWebhookTLSArgs(effective), effective,
                           TrustManagerCipherSuiteArgKeys)

(* The volumes with the mode of their files, and the mounts.  The manifest *)
(* gives the mode of the TLS secret; updateDefaultCAPackageVolume leaves   *)
(* the one of the package ConfigMap to the API server.                     *)
TLSVolume == [name |-> "tls", secretName |-> "trust-manager-tls", defaultMode |-> 420]
PackageVolume == [name |-> "packages", configMap |-> "default-ca-package", defaultMode |-> Unset]

UpdateDefaultCAPackageVolume(s) ==
    IF DefaultCAPackageEnabled(s)
    THEN [volumes |-> <<TLSVolume, PackageVolume>>, mounts |-> <<"tls", "packages">>]
    ELSE [volumes |-> <<TLSVolume>>, mounts |-> <<"tls">>]

UpdatePodTemplateLabels(labels) == labels

UpdateImage(in) == in.image

(* What the spec does not give stays unset.                                *)
UpdateResourceRequirements(s) == s.resources
UpdateAffinityRules(s) == s.affinity
UpdatePodTolerations(s) == s.tolerations

(* The selectors of the user win over the one of the manifest.             *)
UpdateNodeSelector(s) == s.nodeSelector ++ [os |-> "linux"]

UpdateServiceAccountName == "trust-manager"

(* The hash of the package, with the volume, and the uid of the service    *)
(* account, so that a new one restarts the pod.                            *)
SetServiceAccountUIDAnnotation(s, in) ==
    IF DefaultCAPackageEnabled(s)
    THEN [hash |-> ComputeCABundleHash(in), uid |-> in.sauid]
    ELSE [uid |-> in.sauid]

GetDeploymentObject(s, in, labels) ==
    Object([label |-> labels, annotation |-> GetResourceAnnotations(s),
            templateLabel |-> UpdatePodTemplateLabels(labels),
            templateAnnotation |-> SetServiceAccountUIDAnnotation(s, in),
            nodeSelector |-> UpdateNodeSelector(s),
            spec |-> Omit(NotGiven(s, {"resources", "affinity", "tolerations"}),
                [args |-> ApplyClusterTLSProfile(UpdateDeploymentArgs(s), in),
                 image |-> UpdateImage(in),
                 volumes |-> UpdateDefaultCAPackageVolume(s).volumes,
                 volumeMounts |-> UpdateDefaultCAPackageVolume(s).mounts,
                 resources |-> UpdateResourceRequirements(s),
                 affinity |-> UpdateAffinityRules(s),
                 tolerations |-> UpdatePodTolerations(s),
                 serviceAccountName |-> UpdateServiceAccountName,
                 replicas |-> Manifest, selector |-> Manifest,
                 revisionHistoryLimit |-> Manifest, automountServiceAccountToken |-> Manifest,
                 container |-> Manifest, imagePullPolicy |-> Manifest,
                 securityContext |-> Manifest, ports |-> Manifest,
                 readinessProbe |-> Manifest])])

(* The errors of getDeploymentObject in the order they are met.  Only the  *)
(* missing image is final; the validation of the scheduling fields returns *)
(* plain errors, which are retried.                                        *)
DeploymentError(s, in) ==
    IF ResolveHonoredTLSProfile(in.tls) = ProfileError THEN "RetryRequired"
    ELSE IF in.image = Empty THEN "Irrecoverable"
    ELSE IF \/ s.resources = Invalid \/ s.affinity = Invalid \/ s.tolerations = Invalid
            \/ \E k \in DOMAIN s.nodeSelector : s.nodeSelector[k] = Invalid
         THEN "RetryRequired"
    ELSE IF in.sauid = Absent THEN FromClientError("NotFound")
    ELSE "nil"

-----------------------------------------------------------------------------
(***************************************************************************)
(* The comparisons.                                                        *)
(***************************************************************************)

(* Variant: the labels are compared exactly.                               *)
LabelsModifiedExactly(desired, existing) ==
    Section(desired, "label") # Section(existing, "label")

(* managedLabelsModified: only the labels the controller sets count.       *)
ManagedLabelsModified(desired, existing) ==
    \E k \in DOMAIN Section(desired, "label") :
        Value(existing, <<"label", k>>) # desired[<<"label", k>>]

ManagedAnnotationsModified(desired, existing) ==
    \E k \in DOMAIN Section(desired, "annotation") :
        Value(existing, <<"annotation", k>>) # desired[<<"annotation", k>>]

ManagedMetadataModified(desired, existing) ==
    \/ ManagedLabelsModified(desired, existing)
    \/ ManagedAnnotationsModified(desired, existing)

ConfigMapModified(desired, existing) ==
    ManagedMetadataModified(desired, existing) \/ Differ(desired, existing, {"data"})

ServiceAccountModified(desired, existing) ==
    \/ ManagedMetadataModified(desired, existing)
    \/ Differ(desired, existing, {"automountServiceAccountToken"})

ClusterRoleModified(desired, existing) ==
    ManagedMetadataModified(desired, existing) \/ Differ(desired, existing, {"rules"})

ClusterRoleBindingModified(desired, existing) ==
    \/ ManagedMetadataModified(desired, existing)
    \/ Differ(desired, existing, {"roleRef", "subjects"})

RoleModified(desired, existing) ==
    ManagedMetadataModified(desired, existing) \/ Differ(desired, existing, {"rules"})

RoleBindingModified(desired, existing) ==
    \/ ManagedMetadataModified(desired, existing)
    \/ Differ(desired, existing, {"roleRef", "subjects"})

ServiceModified(desired, existing) ==
    \/ ManagedMetadataModified(desired, existing)
    \/ Differ(desired, existing, {"type", "selector", "ports"})

IssuerModified(desired, existing) ==
    ManagedMetadataModified(desired, existing) \/ Differ(desired, existing, {"issuer"})

CertificateModified(desired, existing) ==
    \/ ManagedMetadataModified(desired, existing)
    \/ Differ(desired, existing, {"commonName", "dnsNames", "secretName",
                                  "revisionHistoryLimit", "issuerRef", "secretTemplate",
                                  "rotationPolicy"})

ValidatingWebhookModified(desired, existing) ==
    Differ(desired, existing, {"name", "webhookRules", "admissionReviewVersions",
                               "failurePolicy", "sideEffects", "timeoutSeconds",
                               "clientConfig"})

WebhookConfigModified(desired, existing) ==
    ManagedMetadataModified(desired, existing) \/ ValidatingWebhookModified(desired, existing)

(* Variant: the resources of the container are not compared.               *)
ContainerModifiedNoResources(desired, existing) ==
    Differ(desired, existing, {"container", "image", "imagePullPolicy", "args",
                               "securityContext", "volumeMounts", "ports", "readinessProbe"})

ContainerModified(desired, existing) ==
    \/ Differ(desired, existing, {"container", "image", "imagePullPolicy"})
    \/ Differ(desired, existing, {"args", "resources", "securityContext", "volumeMounts"})
    \/ Differ(desired, existing, {"ports"})
    \/ Differ(desired, existing, {"readinessProbe"})

(* The labels and annotations of the pod template and the node selector    *)
(* are compared exactly, not only the managed keys.                        *)
DeploymentModified(desired, existing) ==
    \/ ManagedMetadataModified(desired, existing)
    \/ Differ(desired, existing, {"replicas", "selector"})
    \/ \E section \in {"templateLabel", "templateAnnotation", "nodeSelector"} :
           Section(desired, section) # Section(existing, section)
    \/ Differ(desired, existing, {"serviceAccountName", "volumes", "affinity", "tolerations"})
    \/ ContainerModified(desired, existing)

(* What the manifest of the Deployment sets and deploymentModified does    *)
(* not look at.                                                            *)
NeverCompared(kind) ==
    IF kind = "Deployment"
    THEN {<<"spec", "revisionHistoryLimit">>, <<"spec", "automountServiceAccountToken">>}
    ELSE {}

-----------------------------------------------------------------------------
(***************************************************************************)
(* The steps createOrApply... of the kinds, in the order of the pipeline.  *)
(* Each is: build the desired object; look for the existing one in the     *)
(* cache; apply unless it exists unmodified.                               *)
(***************************************************************************)
FullPipeline ==
    <<"DefaultCAPackage", "ServiceAccount", "ClusterRole", "ClusterRoleBinding",
      "TrustNamespaceRole", "TrustNamespaceRoleBinding", "LeaderElectionRole",
      "LeaderElectionRoleBinding", "ClusterViewClusterRole", "WebhookService",
      "MetricsService", "Issuer", "Certificate", "Deployment", "ValidatingWebhook">>

(* The steps from the one of the ClusterViewClusterRole on.                *)
FromClusterViewOn ==
    {"ClusterViewClusterRole", "WebhookService", "MetricsService", "Issuer", "Certificate",
     "Deployment", "ValidatingWebhook"}

(* The shared label map as the step of a kind finds it.                    *)
LabelsAt(s, kind) ==
    IF kind \in FromClusterViewOn
    THEN ClusterReaderAggregateLabel ++ GetResourceLabels(s)
    ELSE GetResourceLabels(s)

CreateOrApplyDefaultCAPackageConfigMap(desired, existing) ==
    IF existing = Absent THEN TRUE ELSE ConfigMapModified(desired, existing)
CreateOrApplyServiceAccounts(desired, existing) ==
    IF existing = Absent THEN TRUE ELSE ServiceAccountModified(desired, existing)
CreateOrApplyClusterRole(desired, existing) ==
    IF existing = Absent THEN TRUE ELSE ClusterRoleModified(desired, existing)
CreateOrApplyClusterRoleBinding(desired, existing) ==
    IF existing = Absent THEN TRUE ELSE ClusterRoleBindingModified(desired, existing)
CreateOrApplyTrustNamespaceRole(desired, existing) ==
    IF existing = Absent THEN TRUE ELSE RoleModified(desired, existing)
CreateOrApplyTrustNamespaceRoleBinding(desired, existing) ==
    IF existing = Absent THEN TRUE ELSE RoleBindingModified(desired, existing)
CreateOrApplyLeaderElectionRole(desired, existing) ==
    IF existing = Absent THEN TRUE ELSE RoleModified(desired, existing)
CreateOrApplyLeaderElectionRoleBinding(desired, existing) ==
    IF existing = Absent THEN TRUE ELSE RoleBindingModified(desired, existing)
CreateOrApplyClusterViewClusterRole(desired, existing) ==
    IF existing = Absent THEN TRUE ELSE ClusterRoleModified(desired, existing)
CreateOrApplyWebhookService(desired, existing) ==
    IF existing = Absent THEN TRUE ELSE ServiceModified(desired, existing)
CreateOrApplyMetricsService(desired, existing) ==
    IF existing = Absent THEN TRUE ELSE ServiceModified(desired, existing)
CreateOrApplyIssuer(desired, existing) ==
    IF existing = Absent THEN TRUE ELSE IssuerModified(desired, existing)
CreateOrApplyCertificate(desired, existing) ==
    IF existing = Absent THEN TRUE ELSE CertificateModified(desired, existing)
CreateOrApplyDeployment(desired, existing) ==
    IF existing = Absent THEN TRUE ELSE DeploymentModified(desired, existing)
CreateOrApplyValidatingWebhookConfiguration(desired, existing) ==
    IF existing = Absent THEN TRUE ELSE WebhookConfigModified(desired, existing)

Desired(kind, s, in) ==
    LET labels == LabelsAt(s, kind)
    IN  CASE kind = "DefaultCAPackage" -> BuildDefaultCAPackageConfigMap(s, in, labels)
          [] kind = "ServiceAccount" -> GetServiceAccountObject(s, labels)
          [] kind = "ClusterRole" -> GetClusterRoleObject(s, labels)
          [] kind = "ClusterRoleBinding" -> GetClusterRoleBindingObject(s, labels)
          [] kind = "TrustNamespaceRole" -> GetTrustNamespaceRoleObject(s, labels)
          [] kind = "TrustNamespaceRoleBinding" -> GetTrustNamespaceRoleBindingObject(s, labels)
          [] kind = "LeaderElectionRole" -> GetLeaderElectionRoleObject(s, labels)
          [] kind = "LeaderElectionRoleBinding" -> GetLeaderElectionRoleBindingObject(s, labels)
          [] kind = "ClusterViewClusterRole" -> GetClusterViewClusterRoleObject(s, labels)
          [] kind = "WebhookService" -> GetWebhookServiceObject(s, labels)
          [] kind = "MetricsService" -> GetMetricsServiceObject(s, labels)
          [] kind = "Issuer" -> GetIssuerObject(s, labels)
          [] kind = "Certificate" -> GetCertificateObject(s, labels)
          [] kind = "Deployment" -> GetDeploymentObject(s, in, labels)
          [] kind = "ValidatingWebhook" -> GetValidatingWebhookConfigObject(s, labels)

CreateOrApply(kind, desired, existing) ==
    CASE kind = "DefaultCAPackage" -> CreateOrApplyDefaultCAPackageConfigMap(desired, existing)
      [] kind = "ServiceAccount" -> CreateOrApplyServiceAccounts(desired, existing)
      [] kind = "ClusterRole" -> CreateOrApplyClusterRole(desired, existing)
      [] kind = "ClusterRoleBinding" -> CreateOrApplyClusterRoleBinding(desired, existing)
      [] kind = "TrustNamespaceRole" -> CreateOrApplyTrustNamespaceRole(desired, existing)
      [] kind = "TrustNamespaceRoleBinding" -> CreateOrApplyTrustNamespaceRoleBinding(desired, existing)
      [] kind = "LeaderElectionRole" -> CreateOrApplyLeaderElectionRole(desired, existing)
      [] kind = "LeaderElectionRoleBinding" -> CreateOrApplyLeaderElectionRoleBinding(desired, existing)
      [] kind = "ClusterViewClusterRole" -> CreateOrApplyClusterViewClusterRole(desired, existing)
      [] kind = "WebhookService" -> CreateOrApplyWebhookService(desired, existing)
      [] kind = "MetricsService" -> CreateOrApplyMetricsService(desired, existing)
      [] kind = "Issuer" -> CreateOrApplyIssuer(desired, existing)
      [] kind = "Certificate" -> CreateOrApplyCertificate(desired, existing)
      [] kind = "Deployment" -> CreateOrApplyDeployment(desired, existing)
      [] kind = "ValidatingWebhook" -> CreateOrApplyValidatingWebhookConfiguration(desired, existing)

(* The step writes.  The desired object is built once.                     *)
NeedsApply(kind, s, in, existing) ==
    \E desired \in {Desired(kind, s, in)} : CreateOrApply(kind, desired, existing)

(* The error a step returns before it looks for the existing object.       *)
BuildError(kind, s, in) ==
    CASE kind = "DefaultCAPackage" -> ReadTrustedCABundle(in)
      [] kind = "Deployment" -> DeploymentError(s, in)
      [] OTHER -> "nil"

(* The package ConfigMap is left alone while the policy is Disabled.       *)
Skipped(kind, s) == kind = "DefaultCAPackage" /\ ~DefaultCAPackageEnabled(s)

-----------------------------------------------------------------------------
(***************************************************************************)
(* The API server.  An object in the server has its fields and the set of  *)
(* those this controller owns.                                             *)
(***************************************************************************)

(* The server gives a volume the mode 420, a rule of a webhook the scope   *)
(* "*" and its service the port 443 where none is given.                   *)
Defaulted(f, value) ==
    CASE f = <<"spec", "volumes">> ->
            [i \in DOMAIN value |-> [value[i] EXCEPT !.defaultMode = 420]]
      [] f = <<"spec", "webhookRules">> -> [value EXCEPT !.scope = "*"]
      [] f = <<"spec", "clientConfig">> -> [value EXCEPT !.port = 443]
      [] OTHER -> value

Stored(desired) == [f \in DOMAIN desired |-> Defaulted(f, desired[f])]

(* Patch(desired, client.Apply, ForceOwnership): the fields of desired are *)
(* set and owned, fields owned before and no longer desired are removed,   *)
(* the fields of others stay.  uid is the one a new object gets.           *)
ServerSideApply(o, desired, uid) ==
    [fields |-> IF o = Absent THEN Stored(desired)
                ELSE Stored(desired)
                     ++ [f \in DOMAIN o.fields \ o.owned |-> o.fields[f]],
     owned |-> DOMAIN desired,
     uid |-> IF o = Absent THEN uid ELSE o.uid]

=============================================================================
