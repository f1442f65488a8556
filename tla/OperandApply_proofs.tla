------------------------- MODULE OperandApply_proofs -------------------------
(***************************************************************************)
(* What the builders, the comparisons and the writes of the two operands   *)
(* do, for every spec, all inputs and every existing object: lemmas about  *)
(* the objects of trust-manager (which the proofs about TrustManager use), *)
(* lemmas about those of istio-csr, and the theorems about OperandApply.   *)
(***************************************************************************)
EXTENDS OperandApply, TLAPS

-----------------------------------------------------------------------------
(***************************************************************************)
(* Maps and objects.                                                       *)
(***************************************************************************)

(* The left map wins.                                                      *)
LEMMA UnionFacts ==
    ASSUME NEW f, NEW g
    PROVE  /\ DOMAIN (f ++ g) = DOMAIN f \cup DOMAIN g
           /\ \A x \in DOMAIN f : (f ++ g)[x] = f[x]
           /\ \A x \in DOMAIN g \ DOMAIN f : (f ++ g)[x] = g[x]
BY DEF ++, Merge

(* The map with one entry.                                                 *)
LEMMA EntryFacts ==
    ASSUME NEW key, NEW value
    PROVE  DOMAIN Entry(key, value) = {key} /\ Entry(key, value)[key] = value
BY DEF Entry

(* An object has the entries of its sections and nothing else.             *)
LEMMA ObjectFacts ==
    ASSUME NEW r
    PROVE  /\ \A s \in DOMAIN r : \A k \in DOMAIN r[s] :
                 <<s, k>> \in DOMAIN Object(r) /\ Object(r)[<<s, k>>] = r[s][k]
           /\ \A f \in DOMAIN Object(r) :
                 \E s \in DOMAIN r : \E k \in DOMAIN r[s] : f = <<s, k>>
<1> DEFINE D == UNION {{s} \X DOMAIN r[s] : s \in DOMAIN r}
<1>1. \A s \in DOMAIN r : \A k \in DOMAIN r[s] : <<s, k>> \in D
  OBVIOUS
<1>2. \A f \in D : \E s \in DOMAIN r : \E k \in DOMAIN r[s] : f = <<s, k>>
  OBVIOUS
<1>3. Object(r) = [f \in D |-> r[f[1]][f[2]]]
  BY DEF Object
<1> HIDE DEF D
<1> QED
  BY <1>1, <1>2, <1>3

(* A section of an object is the map it was made of.                       *)
LEMMA SectionFacts ==
    ASSUME NEW r, NEW s \in DOMAIN r
    PROVE  /\ DOMAIN Section(Object(r), s) = DOMAIN r[s]
           /\ \A k \in DOMAIN r[s] : Section(Object(r), s)[k] = r[s][k]
<1>1. \A k : k \in {f[2] : f \in {g \in DOMAIN Object(r) : g[1] = s}} <=> k \in DOMAIN r[s]
  <2>1. ASSUME NEW k \in DOMAIN r[s]
        PROVE  k \in {f[2] : f \in {g \in DOMAIN Object(r) : g[1] = s}}
    <3>1. <<s, k>> \in DOMAIN Object(r) /\ <<s, k>>[1] = s /\ <<s, k>>[2] = k
      BY ObjectFacts
    <3> QED
      BY <3>1
  <2>2. ASSUME NEW f \in DOMAIN Object(r), f[1] = s
        PROVE  f[2] \in DOMAIN r[s]
    BY <2>2, ObjectFacts
  <2> QED
    BY <2>1, <2>2
<1>2. {f[2] : f \in {g \in DOMAIN Object(r) : g[1] = s}} = DOMAIN r[s]
  BY <1>1
<1>3. \A k \in DOMAIN r[s] : Object(r)[<<s, k>>] = r[s][k]
  BY ObjectFacts
<1> QED
  BY <1>2, <1>3 DEF Section

-----------------------------------------------------------------------------
(***************************************************************************)
(* The comparisons.                                                        *)
(***************************************************************************)

(* The comparison of the metadata looks at every label and annotation set. *)
LEMMA MetadataNoticed ==
    ASSUME NEW r, NEW e, ~ManagedMetadataModified(Object(r), e),
           NEW s \in DOMAIN r, s \in {"label", "annotation"}, NEW k \in DOMAIN r[s]
    PROVE  Value(e, <<s, k>>) = Object(r)[<<s, k>>]
<1>1. k \in DOMAIN Section(Object(r), s)
  BY SectionFacts
<1> QED
  BY <1>1 DEF ManagedMetadataModified, ManagedLabelsModified, ManagedAnnotationsModified

(* The comparison of some keys of the spec looks at each of them.          *)
LEMMA SpecNoticed ==
    ASSUME NEW r, NEW e, NEW keys, ~Differ(Object(r), e, keys),
           "spec" \in DOMAIN r, NEW k \in keys, k \in DOMAIN r["spec"]
    PROVE  Value(e, <<"spec", k>>) = Object(r)[<<"spec", k>>]
<1>1. <<"spec", k>> \in DOMAIN Object(r)
  BY ObjectFacts
<1>2. Value(Object(r), <<"spec", k>>) = Object(r)[<<"spec", k>>]
  BY <1>1 DEF Value
<1> QED
  BY <1>2 DEF Differ


(* The namespace of an object, which no comparison looks at: an object in  *)
(* another namespace is another object.                                    *)
Namespace == <<"meta", "namespace">>

(* An object none of whose sections is left out of the comparison.         *)
LEMMA SimpleObjectNoticed ==
    ASSUME NEW r, NEW e, NEW keys,
           DOMAIN r \subseteq {"label", "annotation", "spec", "meta"},
           "spec" \in DOMAIN r, DOMAIN r["spec"] \subseteq keys,
           "meta" \in DOMAIN r => DOMAIN r["meta"] = {"namespace"},
           ~ManagedMetadataModified(Object(r), e), ~Differ(Object(r), e, keys),
           NEW f \in DOMAIN Object(r), f # Namespace
    PROVE  Value(e, f) = Object(r)[f]
<1>0. PICK s \in DOMAIN r : \E k \in DOMAIN r[s] : f = <<s, k>>
  BY ObjectFacts
<1>1. PICK k \in DOMAIN r[s] : f = <<s, k>>
  BY <1>0
<1>2. CASE s \in {"label", "annotation"}
  BY <1>1, <1>2, MetadataNoticed
<1>3. CASE s = "spec"
  BY <1>1, <1>3, SpecNoticed
<1>4. CASE s = "meta"
  BY <1>1, <1>4 DEF Namespace
<1> QED
  BY <1>2, <1>3, <1>4

SimpleKinds ==
    {"DefaultCAPackage", "ServiceAccount", "ClusterRole", "ClusterRoleBinding",
     "TrustNamespaceRole", "TrustNamespaceRoleBinding", "LeaderElectionRole",
     "LeaderElectionRoleBinding", "ClusterViewClusterRole", "WebhookService",
     "MetricsService", "Issuer", "Certificate", "ValidatingWebhook"}

AllKinds == SimpleKinds \cup {"Deployment"}

(* The kinds of trust-manager.                                             *)
LEMMA FullPipelineKinds == {FullPipeline[i] : i \in DOMAIN FullPipeline} = AllKinds
<1>1. DOMAIN FullPipeline = 1..15
  BY DEF FullPipeline
<1> QED
  BY <1>1 DEF FullPipeline, AllKinds, SimpleKinds

(* The keys the comparison of a kind looks at.                             *)
ComparedKeys(k) ==
    CASE k = "DefaultCAPackage" -> {"data"}
      [] k = "ServiceAccount" -> {"automountServiceAccountToken"}
      [] k \in {"ClusterRole", "TrustNamespaceRole", "LeaderElectionRole",
                "ClusterViewClusterRole"} -> {"rules"}
      [] k \in {"ClusterRoleBinding", "TrustNamespaceRoleBinding",
                "LeaderElectionRoleBinding"} -> {"roleRef", "subjects"}
      [] k \in {"WebhookService", "MetricsService"} -> {"type", "selector", "ports"}
      [] k = "Issuer" -> {"issuer"}
      [] k = "Certificate" ->
            {"commonName", "dnsNames", "secretName", "revisionHistoryLimit", "issuerRef",
             "secretTemplate", "rotationPolicy"}
      [] k = "ValidatingWebhook" ->
            {"name", "webhookRules", "admissionReviewVersions", "failurePolicy",
             "sideEffects", "timeoutSeconds", "clientConfig"}

(* An object that exists and is left alone has passed the comparison of    *)
(* its metadata and of the keys above.                                     *)
LEMMA LeftAlone ==
    ASSUME NEW k \in SimpleKinds, NEW d, NEW e, e # Absent, ~CreateOrApply(k, d, e)
    PROVE  ~ManagedMetadataModified(d, e) /\ ~Differ(d, e, ComparedKeys(k))
<1>1. CASE k = "DefaultCAPackage"
  BY <1>1 DEF CreateOrApply, CreateOrApplyDefaultCAPackageConfigMap,
     ConfigMapModified, ComparedKeys
<1>2. CASE k = "ServiceAccount"
  BY <1>2 DEF CreateOrApply, CreateOrApplyServiceAccounts,
     ServiceAccountModified, ComparedKeys
<1>3. CASE k = "ClusterRole"
  BY <1>3 DEF CreateOrApply, CreateOrApplyClusterRole,
     ClusterRoleModified, ComparedKeys
<1>4. CASE k = "ClusterRoleBinding"
  BY <1>4 DEF CreateOrApply, CreateOrApplyClusterRoleBinding,
     ClusterRoleBindingModified, ComparedKeys
<1>5. CASE k = "TrustNamespaceRole"
  BY <1>5 DEF CreateOrApply, CreateOrApplyTrustNamespaceRole,
     RoleModified, ComparedKeys
<1>6. CASE k = "TrustNamespaceRoleBinding"
  BY <1>6 DEF CreateOrApply, CreateOrApplyTrustNamespaceRoleBinding,
     RoleBindingModified, ComparedKeys
<1>7. CASE k = "LeaderElectionRole"
  BY <1>7 DEF CreateOrApply, CreateOrApplyLeaderElectionRole,
     RoleModified, ComparedKeys
<1>8. CASE k = "LeaderElectionRoleBinding"
  BY <1>8 DEF CreateOrApply, CreateOrApplyLeaderElectionRoleBinding,
     RoleBindingModified, ComparedKeys
<1>9. CASE k = "ClusterViewClusterRole"
  BY <1>9 DEF CreateOrApply, CreateOrApplyClusterViewClusterRole,
     ClusterRoleModified, ComparedKeys
<1>10. CASE k = "WebhookService"
  BY <1>10 DEF CreateOrApply, CreateOrApplyWebhookService,
     ServiceModified, ComparedKeys
<1>11. CASE k = "MetricsService"
  BY <1>11 DEF CreateOrApply, CreateOrApplyMetricsService,
     ServiceModified, ComparedKeys
<1>12. CASE k = "Issuer"
  BY <1>12 DEF CreateOrApply, CreateOrApplyIssuer,
     IssuerModified, ComparedKeys
<1>13. CASE k = "Certificate"
  BY <1>13 DEF CreateOrApply, CreateOrApplyCertificate,
     CertificateModified, ComparedKeys
<1>14. CASE k = "ValidatingWebhook"
  BY <1>14 DEF CreateOrApply, CreateOrApplyValidatingWebhookConfiguration,
     WebhookConfigModified, ValidatingWebhookModified, ComparedKeys
<1> QED
  BY <1>1, <1>2, <1>3, <1>4, <1>5, <1>6, <1>7, <1>8, <1>9, <1>10, <1>11, <1>12, <1>13, <1>14 DEF SimpleKinds

-----------------------------------------------------------------------------
(***************************************************************************)
(* The builders.                                                           *)
(***************************************************************************)

(* Whatever labels the user asks for.                                      *)
LEMMA OwnLabelWins ==
    ASSUME NEW s, NEW k
    PROVE  "app" \in DOMAIN LabelsAt(s, k) /\ LabelsAt(s, k)["app"] = "trust-manager"
<1>1. /\ "app" \in DOMAIN GetResourceLabels(s)
      /\ GetResourceLabels(s)["app"] = "trust-manager"
  BY DEF GetResourceLabels, ControllerDefaultResourceLabels, ++, Merge
<1>2. DOMAIN ClusterReaderAggregateLabel = {"aggregate-to-cluster-reader"}
  BY EntryFacts DEF ClusterReaderAggregateLabel
<1> QED
  BY <1>1, <1>2 DEF LabelsAt, ++, Merge

(* The labels of an object: those of the pass, and one more for the role   *)
(* that cluster readers aggregate.                                         *)
LabelSection(k, s) ==
    IF k = "ClusterViewClusterRole" THEN ClusterReaderAggregateLabel ++ LabelsAt(s, k)
    ELSE LabelsAt(s, k)

(* The label of the caches is among the labels of every kind.              *)
LEMMA LabelSectionFacts ==
    ASSUME NEW s, NEW k
    PROVE  "app" \in DOMAIN LabelSection(k, s) /\ LabelSection(k, s)["app"] = "trust-manager"
<1>1. DOMAIN ClusterReaderAggregateLabel = {"aggregate-to-cluster-reader"}
  BY EntryFacts DEF ClusterReaderAggregateLabel
<1> QED
  BY <1>1, OwnLabelWins DEF LabelSection, ++, Merge

(* The shape of the object a builder makes, by its sections.               *)
Shaped(r, k, s) ==
    /\ DOMAIN r \in {{"label", "annotation", "spec"}, {"label", "annotation", "spec", "meta"}}
    /\ r["label"] = LabelSection(k, s)
    /\ DOMAIN r["spec"] = ComparedKeys(k)
    /\ "meta" \in DOMAIN r <=> k \in {"TrustNamespaceRole", "TrustNamespaceRoleBinding"}
    /\ "meta" \in DOMAIN r => r["meta"] = [namespace |-> GetTrustNamespace(s)]

(* The sections of the webhook configuration.                              *)
WebhookSections(s) ==
    [label |-> LabelSection("ValidatingWebhook", s),
     annotation |-> UpdateWebhookAnnotations(GetResourceAnnotations(s)),
     spec |-> [webhookRules |-> WebhookRules, clientConfig |-> UpdateWebhookClientConfig]
              ++ FromManifest({"name", "admissionReviewVersions", "failurePolicy",
                               "sideEffects", "timeoutSeconds"})]

(* Every builder but that of the Deployment makes an object of that shape. *)
LEMMA BuildersShape ==
    ASSUME NEW k \in SimpleKinds, NEW s, NEW in
    PROVE  \E r : Desired(k, s, in) = Object(r) /\ Shaped(r, k, s)
<1> DEFINE labels == LabelSection(k, s)
           annotations == GetResourceAnnotations(s)
<1>1. CASE k = "DefaultCAPackage"
  <2> DEFINE r == [label |-> labels, annotation |-> UpdateResourceAnnotations(EmptyMap, annotations),
              spec |-> [data |-> FormatCAPackage(in)]]
  <2>1. Desired(k, s, in) = Object(r)
    BY <1>1 DEF Desired, BuildDefaultCAPackageConfigMap, LabelSection
  <2>2. Shaped(r, k, s)
    BY <1>1 DEF Shaped, ComparedKeys, Binding, FromManifest
  <2> QED
    BY <2>1, <2>2
<1>2. CASE k = "ServiceAccount"
  <2> DEFINE r == [label |-> labels, annotation |-> UpdateResourceAnnotations(EmptyMap, annotations),
              spec |-> [automountServiceAccountToken |-> Manifest]]
  <2>1. Desired(k, s, in) = Object(r)
    BY <1>2 DEF Desired, GetServiceAccountObject, LabelSection
  <2>2. Shaped(r, k, s)
    BY <1>2 DEF Shaped, ComparedKeys, Binding, FromManifest
  <2> QED
    BY <2>1, <2>2
<1>3. CASE k = "ClusterRole"
  <2> DEFINE r == [label |-> labels, annotation |-> annotations,
              spec |-> [rules |-> AppendSecretTargetRules(s)]]
  <2>1. Desired(k, s, in) = Object(r)
    BY <1>3 DEF Desired, GetClusterRoleObject, Named, LabelSection
  <2>2. Shaped(r, k, s)
    BY <1>3 DEF Shaped, ComparedKeys, Binding, FromManifest
  <2> QED
    BY <2>1, <2>2
<1>4. CASE k = "ClusterRoleBinding"
  <2> DEFINE r == [label |-> labels, annotation |-> annotations,
              spec |-> Binding("trust-manager")]
  <2>1. Desired(k, s, in) = Object(r)
    BY <1>4 DEF Desired, GetClusterRoleBindingObject, Named, Binding, LabelSection
  <2>2. Shaped(r, k, s)
    BY <1>4 DEF Shaped, ComparedKeys, Binding, FromManifest
  <2> QED
    BY <2>1, <2>2
<1>5. CASE k = "TrustNamespaceRole"
  <2> DEFINE r == [label |-> labels, annotation |-> annotations,
              spec |-> [rules |-> <<Manifest>>],
               meta |-> [namespace |-> GetTrustNamespace(s)]]
  <2>1. Desired(k, s, in) = Object(r)
    BY <1>5 DEF Desired, GetTrustNamespaceRoleObject, InTrustNamespace, LabelSection
  <2>2. Shaped(r, k, s)
    BY <1>5 DEF Shaped, ComparedKeys, Binding, FromManifest
  <2> QED
    BY <2>1, <2>2
<1>6. CASE k = "TrustNamespaceRoleBinding"
  <2> DEFINE r == [label |-> labels, annotation |-> annotations,
              spec |-> Binding("trust-manager"),
               meta |-> [namespace |-> GetTrustNamespace(s)]]
  <2>1. Desired(k, s, in) = Object(r)
    BY <1>6 DEF Desired, GetTrustNamespaceRoleBindingObject, InTrustNamespace, Binding, LabelSection
  <2>2. Shaped(r, k, s)
    BY <1>6 DEF Shaped, ComparedKeys, Binding, FromManifest
  <2> QED
    BY <2>1, <2>2
<1>7. CASE k = "LeaderElectionRole"
  <2> DEFINE r == [label |-> labels, annotation |-> annotations,
              spec |-> [rules |-> <<Manifest>>]]
  <2>1. Desired(k, s, in) = Object(r)
    BY <1>7 DEF Desired, GetLeaderElectionRoleObject, Named, LabelSection
  <2>2. Shaped(r, k, s)
    BY <1>7 DEF Shaped, ComparedKeys, Binding, FromManifest
  <2> QED
    BY <2>1, <2>2
<1>8. CASE k = "LeaderElectionRoleBinding"
  <2> DEFINE r == [label |-> labels, annotation |-> annotations,
              spec |-> Binding("trust-manager:leaderelection")]
  <2>1. Desired(k, s, in) = Object(r)
    BY <1>8 DEF Desired, GetLeaderElectionRoleBindingObject, Named, Binding, LabelSection
  <2>2. Shaped(r, k, s)
    BY <1>8 DEF Shaped, ComparedKeys, Binding, FromManifest
  <2> QED
    BY <2>1, <2>2
<1>9. CASE k = "ClusterViewClusterRole"
  <2> DEFINE r == [label |-> labels, annotation |-> annotations,
              spec |-> [rules |-> <<Manifest>>]]
  <2>1. Desired(k, s, in) = Object(r)
    BY <1>9 DEF Desired, GetClusterViewClusterRoleObject, Named, LabelSection
  <2>2. Shaped(r, k, s)
    BY <1>9 DEF Shaped, ComparedKeys, Binding, FromManifest
  <2> QED
    BY <2>1, <2>2
<1>10. CASE k = "WebhookService"
  <2> DEFINE r == [label |-> labels, annotation |-> annotations,
              spec |-> FromManifest({"type", "selector", "ports"})]
  <2>1. Desired(k, s, in) = Object(r)
    BY <1>10 DEF Desired, GetWebhookServiceObject, Named, FromManifest, LabelSection
  <2>2. Shaped(r, k, s)
    BY <1>10 DEF Shaped, ComparedKeys, Binding, FromManifest
  <2> QED
    BY <2>1, <2>2
<1>11. CASE k = "MetricsService"
  <2> DEFINE r == [label |-> labels, annotation |-> annotations,
              spec |-> FromManifest({"type", "selector", "ports"})]
  <2>1. Desired(k, s, in) = Object(r)
    BY <1>11 DEF Desired, GetMetricsServiceObject, Named, FromManifest, LabelSection
  <2>2. Shaped(r, k, s)
    BY <1>11 DEF Shaped, ComparedKeys, Binding, FromManifest
  <2> QED
    BY <2>1, <2>2
<1>12. CASE k = "Issuer"
  <2> DEFINE r == [label |-> labels, annotation |-> annotations,
              spec |-> [issuer |-> Manifest]]
  <2>1. Desired(k, s, in) = Object(r)
    BY <1>12 DEF Desired, GetIssuerObject, Named, LabelSection
  <2>2. Shaped(r, k, s)
    BY <1>12 DEF Shaped, ComparedKeys, Binding, FromManifest
  <2> QED
    BY <2>1, <2>2
<1>13. CASE k = "Certificate"
  <2> DEFINE r == [label |-> labels, annotation |-> annotations,
              spec |-> FromManifest({"commonName", "dnsNames", "secretName", "issuerRef",
                                 "revisionHistoryLimit", "secretTemplate",
                                 "rotationPolicy"})]
  <2>1. Desired(k, s, in) = Object(r)
    BY <1>13 DEF Desired, GetCertificateObject, Named, FromManifest, LabelSection
  <2>2. Shaped(r, k, s)
    BY <1>13 DEF Shaped, ComparedKeys, Binding, FromManifest
  <2> QED
    BY <2>1, <2>2
<1>14. CASE k = "ValidatingWebhook"
  <2> DEFINE r == WebhookSections(s)
  <2>1. Desired(k, s, in) = Object(r)
    BY <1>14 DEF Desired, GetValidatingWebhookConfigObject, WebhookSections, LabelSection
  <2>2. Shaped(r, k, s)
    BY <1>14 DEF ++, Merge, Shaped, ComparedKeys, WebhookSections, FromManifest
  <2> QED
    BY <2>1, <2>2
<1> QED
  BY <1>1, <1>2, <1>3, <1>4, <1>5, <1>6, <1>7, <1>8, <1>9, <1>10, <1>11, <1>12, <1>13, <1>14 DEF SimpleKinds

(* The webhook configuration is made of those sections.                    *)
LEMMA WebhookFacts ==
    ASSUME NEW s, NEW in
    PROVE  LET d == Desired("ValidatingWebhook", s, in)
           IN  /\ d = Object(WebhookSections(s))
               /\ d[<<"spec", "webhookRules">>] = WebhookRules
               /\ d[<<"spec", "clientConfig">>] = UpdateWebhookClientConfig
<1> DEFINE r == WebhookSections(s)
<1>1. Desired("ValidatingWebhook", s, in) = Object(r)
  BY DEF Desired, GetValidatingWebhookConfigObject, WebhookSections, LabelSection
<1>2. /\ "spec" \in DOMAIN r
      /\ {"webhookRules", "clientConfig"} \subseteq DOMAIN r["spec"]
      /\ r["spec"]["webhookRules"] = WebhookRules
      /\ r["spec"]["clientConfig"] = UpdateWebhookClientConfig
  BY DEF WebhookSections, ++, Merge
<1> HIDE DEF r
<1> QED
  BY <1>1, <1>2, ObjectFacts DEF r

(* The Deployment has three more sections, which are compared exactly.     *)
DeploymentSections(s, in) ==
    [label |-> LabelSection("Deployment", s), annotation |-> GetResourceAnnotations(s),
     templateLabel |-> LabelSection("Deployment", s),
     templateAnnotation |-> SetServiceAccountUIDAnnotation(s, in),
     nodeSelector |-> UpdateNodeSelector(s),
     spec |-> Omit(NotGiven(s, {"resources", "affinity", "tolerations"}),
         [args |-> ApplyClusterTLSProfile(UpdateDeploymentArgs(s), in),
          image |-> UpdateImage(in),
          volumes |-> UpdateDefaultCAPackageVolume(s).volumes,
          volumeMounts |-> UpdateDefaultCAPackageVolume(s).mounts,
          resources |-> UpdateResourceRequirements(s),
          affinity |-> UpdateAffinityRules(s),
          tolerations |-> UpdatePodTolerations(s),
          serviceAccountName |-> UpdateServiceAccountName,
          replicas |-> Manifest, selector |-> Manifest,
          revisionHistoryLimit |-> Manifest, automountServiceAccountToken |-> Manifest,
          container |-> Manifest, imagePullPolicy |-> Manifest,
          securityContext |-> Manifest, ports |-> Manifest,
          readinessProbe |-> Manifest])]

ExactSections == {"templateLabel", "templateAnnotation", "nodeSelector"}

DeploymentKeys ==
    {"replicas", "selector", "serviceAccountName", "volumes", "affinity", "tolerations",
     "container", "image", "imagePullPolicy", "args", "resources", "securityContext",
     "volumeMounts", "ports", "readinessProbe"}

OverlookedKeys == {"revisionHistoryLimit", "automountServiceAccountToken"}

(* The Deployment is made of those sections, and its spec of those keys.   *)
LEMMA DeploymentShape ==
    ASSUME NEW s, NEW in
    PROVE  LET r == DeploymentSections(s, in)
           IN  /\ Desired("Deployment", s, in) = Object(r)
               /\ DOMAIN r = {"label", "annotation", "spec"} \cup ExactSections
               /\ r["label"] = LabelSection("Deployment", s)
               /\ DOMAIN r["spec"] \subseteq DeploymentKeys \cup OverlookedKeys
               /\ "volumes" \in DOMAIN r["spec"]
               /\ r["spec"]["volumes"] = UpdateDefaultCAPackageVolume(s).volumes
<1> DEFINE r == DeploymentSections(s, in)
<1>1. Desired("Deployment", s, in) = GetDeploymentObject(s, in, LabelsAt(s, "Deployment"))
  BY DEF Desired
<1>2. LabelsAt(s, "Deployment") = LabelSection("Deployment", s)
  BY DEF LabelSection
<1>3. GetDeploymentObject(s, in, LabelSection("Deployment", s)) = Object(r)
  BY DEF GetDeploymentObject, DeploymentSections, UpdatePodTemplateLabels
<1>4. DOMAIN r = {"label", "annotation", "spec"} \cup ExactSections
  BY DEF DeploymentSections, ExactSections
<1>5. r["label"] = LabelSection("Deployment", s)
  BY DEF DeploymentSections
<1>6. /\ DOMAIN r["spec"] \subseteq DeploymentKeys \cup OverlookedKeys
      /\ "volumes" \in DOMAIN r["spec"]
      /\ r["spec"]["volumes"] = UpdateDefaultCAPackageVolume(s).volumes
  BY DEF DeploymentSections, DeploymentKeys, OverlookedKeys, Omit, NotGiven
<1> QED
  BY <1>1, <1>2, <1>3, <1>4, <1>5, <1>6

(* The fields of an object are pairs of a section and a key.               *)
Fields(e) == \A f \in DOMAIN e : f = <<f[1], f[2]>>

(* The comparison of Deployments overlooks those two keys and no other     *)
(* field of the builder.                                                   *)
LEMMA DeploymentNoticed ==
    ASSUME NEW s, NEW in, NEW e, e # Absent, Fields(e),
           ~CreateOrApply("Deployment", Desired("Deployment", s, in), e),
           NEW f \in DOMAIN Desired("Deployment", s, in) \ NeverCompared("Deployment")
    PROVE  Value(e, f) = Desired("Deployment", s, in)[f]
<1> DEFINE r == DeploymentSections(s, in)
           d == Object(r)
<1>1. /\ Desired("Deployment", s, in) = d
      /\ DOMAIN r = {"label", "annotation", "spec"} \cup ExactSections
      /\ DOMAIN r["spec"] \subseteq DeploymentKeys \cup OverlookedKeys
  BY DeploymentShape
<1>2. ~DeploymentModified(d, e)
  BY <1>1 DEF CreateOrApply, CreateOrApplyDeployment
<1>3. PICK t \in DOMAIN r : \E k \in DOMAIN r[t] : f = <<t, k>>
  BY <1>1, ObjectFacts
<1>4. PICK k \in DOMAIN r[t] : f = <<t, k>>
  BY <1>3
<1> HIDE DEF r
<1>5. CASE t \in {"label", "annotation"}
  BY <1>1, <1>2, <1>4, <1>5, MetadataNoticed DEF DeploymentModified
<1>6. CASE t = "spec"
  <2>1. \A keys : k \in keys /\ ~Differ(d, e, keys) => Value(e, f) = d[f]
    BY <1>4, <1>6, SpecNoticed
  <2>2. k \in DeploymentKeys
    BY <1>1, <1>4, <1>6 DEF OverlookedKeys, NeverCompared
  <2>3. /\ ~Differ(d, e, {"replicas", "selector"})
        /\ ~Differ(d, e, {"serviceAccountName", "volumes", "affinity", "tolerations"})
        /\ ~Differ(d, e, {"container", "image", "imagePullPolicy"})
        /\ ~Differ(d, e, {"args", "resources", "securityContext", "volumeMounts"})
        /\ ~Differ(d, e, {"ports"})
        /\ ~Differ(d, e, {"readinessProbe"})
    BY <1>2 DEF DeploymentModified, ContainerModified
  <2> HIDE DEF d
  <2> QED
    BY <1>1, <2>1, <2>2, <2>3 DEF DeploymentKeys
<1>7. CASE t \in ExactSections
  <2>1. Section(d, t) = Section(e, t)
    BY <1>2, <1>7 DEF DeploymentModified, ExactSections
  <2>2. k \in DOMAIN Section(d, t) /\ Section(d, t)[k] = r[t][k] /\ d[f] = r[t][k]
    BY <1>4, SectionFacts, ObjectFacts
  <2>3. k \in {g[2] : g \in {g \in DOMAIN e : g[1] = t}}
    BY <2>1, <2>2 DEF Section
  <2>4. <<t, k>> \in DOMAIN e
    BY <2>3 DEF Fields
  <2>5. Section(e, t)[k] = e[<<t, k>>]
    BY <2>3 DEF Section
  <2> QED
    BY <1>1, <1>4, <2>1, <2>2, <2>4, <2>5 DEF Value
<1> QED
  BY <1>1, <1>5, <1>6, <1>7

-----------------------------------------------------------------------------
(***************************************************************************)
(* What holds of the objects of every kind.                                *)
(***************************************************************************)
AppLabel == <<"label", "app">>
Volumes == <<"spec", "volumes">>
Rules == <<"spec", "webhookRules">>
ClientConfig == <<"spec", "clientConfig">>
Extra == <<"templateAnnotation", "extra">>

(* The fields in which the server fills something in.                      *)
ServerFills(k) ==
    CASE k = "Deployment" -> {Volumes}
      [] k = "ValidatingWebhook" -> {Rules, ClientConfig}
      [] OTHER -> {}

(* What holds of the desired object of every kind.                         *)
LEMMA DesiredFacts ==
    ASSUME NEW k \in AllKinds, NEW s, NEW in
    PROVE  LET d == Desired(k, s, in)
           IN  /\ Fields(d)
               /\ AppLabel \in DOMAIN d /\ d[AppLabel] = "trust-manager"
               /\ DOMAIN d \cap {Volumes, Rules, ClientConfig} = ServerFills(k)
               /\ Volumes \in DOMAIN d => d[Volumes] = UpdateDefaultCAPackageVolume(s).volumes
               /\ Rules \in DOMAIN d => d[Rules] = WebhookRules
               /\ ClientConfig \in DOMAIN d => d[ClientConfig] = UpdateWebhookClientConfig
               /\ Namespace \in DOMAIN d <=>
                     k \in {"TrustNamespaceRole", "TrustNamespaceRoleBinding"}
               /\ Namespace \in DOMAIN d => d[Namespace] = GetTrustNamespace(s)
               /\ Extra \notin DOMAIN d
<1> DEFINE d == Desired(k, s, in)
<1>1. CASE k \in SimpleKinds
  <2>1. PICK r : d = Object(r) /\ Shaped(r, k, s)
    BY <1>1, BuildersShape
  <2>2. Fields(d)
    BY <2>1, ObjectFacts DEF Fields
  <2>3. AppLabel \in DOMAIN d /\ d[AppLabel] = "trust-manager"
    BY <2>1, ObjectFacts, LabelSectionFacts DEF Shaped, AppLabel
  <2>4. /\ Volumes \notin DOMAIN d
        /\ Rules \in DOMAIN d <=> k = "ValidatingWebhook"
        /\ ClientConfig \in DOMAIN d <=> k = "ValidatingWebhook"
    <3>1. /\ "spec" \in DOMAIN r /\ "volumes" \notin DOMAIN r["spec"]
          /\ "webhookRules" \in DOMAIN r["spec"] <=> k = "ValidatingWebhook"
          /\ "clientConfig" \in DOMAIN r["spec"] <=> k = "ValidatingWebhook"
      <4>1. "spec" \in DOMAIN r /\ DOMAIN r["spec"] = ComparedKeys(k)
        BY <2>1 DEF Shaped
      <4>2. /\ "volumes" \notin ComparedKeys(k)
            /\ "webhookRules" \in ComparedKeys(k) <=> k = "ValidatingWebhook"
            /\ "clientConfig" \in ComparedKeys(k) <=> k = "ValidatingWebhook"
        BY <1>1 DEF ComparedKeys, SimpleKinds
      <4> QED
        BY <4>1, <4>2
    <3>2. \A key : <<"spec", key>> \in DOMAIN d <=> key \in DOMAIN r["spec"]
      BY <2>1, <3>1, ObjectFacts
    <3> QED
      BY <3>1, <3>2 DEF Volumes, Rules, ClientConfig
  <2>8. k = "ValidatingWebhook" => d[Rules] = WebhookRules
                                   /\ d[ClientConfig] = UpdateWebhookClientConfig
    BY WebhookFacts DEF Rules, ClientConfig
  <2>5. /\ Namespace \in DOMAIN d <=> "meta" \in DOMAIN r
        /\ Namespace \in DOMAIN d => d[Namespace] = GetTrustNamespace(s)
    <3>1. ASSUME "meta" \in DOMAIN r
          PROVE  Namespace \in DOMAIN d /\ d[Namespace] = GetTrustNamespace(s)
      BY <2>1, <3>1, ObjectFacts DEF Shaped, Namespace
    <3>2. Namespace \in DOMAIN d => "meta" \in DOMAIN r
      BY <2>1, ObjectFacts DEF Namespace
    <3> QED
      BY <3>1, <3>2
  <2>6. k # "Deployment"
    BY <1>1 DEF SimpleKinds
  <2>7. Extra \notin DOMAIN d
    BY <2>1, ObjectFacts DEF Shaped, Extra
  <2>9. DOMAIN d \cap {Volumes, Rules, ClientConfig} = ServerFills(k)
    BY <2>4, <2>6 DEF ServerFills
  <2> QED
    BY <2>1, <2>2, <2>3, <2>4, <2>5, <2>7, <2>8, <2>9 DEF Shaped
<1>2. CASE k = "Deployment"
  <2> DEFINE r == DeploymentSections(s, in)
  <2>1. /\ d = Object(r)
        /\ DOMAIN r = {"label", "annotation", "spec"} \cup ExactSections
        /\ r["label"] = LabelSection("Deployment", s)
        /\ "volumes" \in DOMAIN r["spec"]
        /\ r["spec"]["volumes"] = UpdateDefaultCAPackageVolume(s).volumes
        /\ DOMAIN r["spec"] \subseteq DeploymentKeys \cup OverlookedKeys
    BY <1>2, DeploymentShape
  <2>6. "extra" \notin DOMAIN r["templateAnnotation"]
    BY DEF DeploymentSections, SetServiceAccountUIDAnnotation
  <2> HIDE DEF r
  <2>2. Fields(d)
    BY <2>1, ObjectFacts DEF Fields
  <2>3. AppLabel \in DOMAIN d /\ d[AppLabel] = "trust-manager"
    BY <2>1, ObjectFacts, LabelSectionFacts DEF AppLabel
  <2>4. Volumes \in DOMAIN d /\ d[Volumes] = UpdateDefaultCAPackageVolume(s).volumes
    BY <2>1, ObjectFacts DEF Volumes
  <2>5. Namespace \notin DOMAIN d
    BY <2>1, ObjectFacts DEF Namespace, ExactSections
  <2>7. Extra \notin DOMAIN d
    BY <2>1, <2>6, ObjectFacts DEF Extra
  <2>8. Rules \notin DOMAIN d /\ ClientConfig \notin DOMAIN d
    <3>1. "webhookRules" \notin DOMAIN r["spec"] /\ "clientConfig" \notin DOMAIN r["spec"]
      BY <2>1 DEF DeploymentKeys, OverlookedKeys
    <3> QED
      BY <2>1, <3>1, ObjectFacts DEF Rules, ClientConfig
  <2>9. DOMAIN d \cap {Volumes, Rules, ClientConfig} = ServerFills(k)
    BY <1>2, <2>4, <2>8 DEF ServerFills
  <2> QED
    BY <1>2, <2>2, <2>3, <2>4, <2>5, <2>7, <2>8, <2>9
<1> QED
  BY <1>1, <1>2 DEF AllKinds

(* A comparison that finds no difference has looked at every field the     *)
(* builder sets, but for the namespace of the object and the two keys.     *)
LEMMA Noticed ==
    ASSUME NEW k \in AllKinds, NEW s, NEW in, NEW e, e # Absent, Fields(e),
           ~NeedsApply(k, s, in, e),
           NEW f \in DOMAIN Desired(k, s, in) \ NeverCompared(k), f # Namespace
    PROVE  Value(e, f) = Desired(k, s, in)[f]
<1> DEFINE d == Desired(k, s, in)
<1>1. ~CreateOrApply(k, d, e)
  BY DEF NeedsApply
<1>2. CASE k \in SimpleKinds
  <2>1. PICK r : d = Object(r) /\ Shaped(r, k, s)
    BY <1>2, BuildersShape
  <2>2. ~ManagedMetadataModified(d, e) /\ ~Differ(d, e, ComparedKeys(k))
    BY <1>1, <1>2, LeftAlone
  <2>3. /\ DOMAIN r \subseteq {"label", "annotation", "spec", "meta"} /\ "spec" \in DOMAIN r
        /\ DOMAIN r["spec"] \subseteq ComparedKeys(k)
        /\ "meta" \in DOMAIN r => DOMAIN r["meta"] = {"namespace"}
    BY <2>1 DEF Shaped
  <2> QED
    BY <2>1, <2>2, <2>3, SimpleObjectNoticed
<1>3. CASE k = "Deployment"
  BY <1>1, <1>3, DeploymentNoticed
<1> QED
  BY <1>2, <1>3 DEF AllKinds

-----------------------------------------------------------------------------
(***************************************************************************)
(* The API server.                                                         *)
(***************************************************************************)

(* The server has nothing to fill in.                                      *)
Filled(f, value) == Defaulted(f, value) = value

(* What the server has filled in once it does not fill in again.           *)
LEMMA FilledOnce ==
    ASSUME NEW k \in AllKinds, NEW s, NEW in, NEW f \in DOMAIN Desired(k, s, in)
    PROVE  Filled(f, Defaulted(f, Desired(k, s, in)[f]))
<1> DEFINE d == Desired(k, s, in)
<1>1. CASE f = Volumes
  <2> DEFINE v == UpdateDefaultCAPackageVolume(s).volumes
             filled(w) == [i \in DOMAIN w |-> [w[i] EXCEPT !.defaultMode = 420]]
  <2>1. d[f] = v
    BY <1>1, DesiredFacts
  <2>2. \A w : Defaulted(f, w) = filled(w)
    BY <1>1 DEF Defaulted, Volumes
  <2>3. \A i \in DOMAIN v : [[v[i] EXCEPT !.defaultMode = 420] EXCEPT !.defaultMode = 420]
                            = [v[i] EXCEPT !.defaultMode = 420]
    <3>1. v = <<TLSVolume>> \/ v = <<TLSVolume, PackageVolume>>
      BY DEF UpdateDefaultCAPackageVolume
    <3>2. \A i \in DOMAIN v : v[i] = TLSVolume \/ v[i] = PackageVolume
      BY <3>1
    <3> QED
      BY <3>2 DEF TLSVolume, PackageVolume
  <2> HIDE DEF v
  <2>4. filled(filled(v)) = filled(v)
    <3>1. DOMAIN filled(v) = DOMAIN v
      OBVIOUS
    <3>2. \A i \in DOMAIN v : filled(v)[i] = [v[i] EXCEPT !.defaultMode = 420]
      OBVIOUS
    <3>3. filled(filled(v)) = [i \in DOMAIN v |-> [filled(v)[i] EXCEPT !.defaultMode = 420]]
      BY <3>1
    <3>4. \A i \in DOMAIN v : [filled(v)[i] EXCEPT !.defaultMode = 420] = filled(v)[i]
      BY <2>3, <3>2
    <3>5. filled(v) = [i \in DOMAIN v |-> filled(v)[i]]
      OBVIOUS
    <3> HIDE DEF filled
    <3> QED
      BY <3>3, <3>4, <3>5
  <2> HIDE DEF filled
  <2> QED
    BY <2>1, <2>2, <2>4 DEF Filled
<1>2. CASE f = Rules
  <2>1. d[f] = WebhookRules
    BY <1>2, DesiredFacts
  <2>2. \A w : Defaulted(f, w) = [w EXCEPT !.scope = "*"]
    BY <1>2 DEF Defaulted, Rules
  <2> QED
    BY <2>1, <2>2 DEF Filled, WebhookRules
<1>3. CASE f = ClientConfig
  <2>1. d[f] = UpdateWebhookClientConfig
    BY <1>3, DesiredFacts
  <2>2. \A w : Defaulted(f, w) = [w EXCEPT !.port = 443]
    BY <1>3 DEF Defaulted, ClientConfig
  <2> QED
    BY <2>1, <2>2 DEF Filled, UpdateWebhookClientConfig
<1>4. CASE f \notin {Volumes, Rules, ClientConfig}
  BY <1>4 DEF Filled, Defaulted, Volumes, Rules, ClientConfig
<1> QED
  BY <1>1, <1>2, <1>3, <1>4

(* The server stores what was sent, but for what it fills in.              *)
LEMMA StoredFacts ==
    ASSUME NEW k \in AllKinds, NEW s, NEW in
    PROVE  LET d == Desired(k, s, in)
           IN  /\ DOMAIN Stored(d) = DOMAIN d
               /\ \A f \in DOMAIN d \ ServerFills(k) : Stored(d)[f] = d[f]
               /\ \A f \in DOMAIN d : /\ Filled(f, Stored(d)[f])
                                      /\ Filled(f, d[f]) => Stored(d)[f] = d[f]
<1> DEFINE d == Desired(k, s, in)
<1>1. /\ DOMAIN Stored(d) = DOMAIN d
      /\ \A f \in DOMAIN d : Stored(d)[f] = Defaulted(f, d[f])
  BY DEF Stored
<1>2. \A f \in DOMAIN d : Filled(f, Defaulted(f, d[f]))
  BY FilledOnce
<1>3. \A f \in DOMAIN d \ ServerFills(k) : Defaulted(f, d[f]) = d[f]
  <2>1. \A f \in DOMAIN d \ ServerFills(k) : f \notin {Volumes, Rules, ClientConfig}
    BY DesiredFacts
  <2> HIDE DEF d
  <2> QED
    BY <2>1 DEF Defaulted, Volumes, Rules, ClientConfig
<1> HIDE DEF d
<1> QED
  BY <1>1, <1>2, <1>3 DEF Filled, d

(* The object holds everything that the spec and the inputs ask for and    *)
(* the comparisons look at.                                                *)
Holds(e, k, s, in) ==
    LET wanted == Stored(Desired(k, s, in))
    IN  \A f \in DOMAIN wanted \ NeverCompared(k) : Value(e, f) = wanted[f]

(* What the comparisons rely on: fields nobody changes behind their back.  *)
Sound(e, k, namespace) ==
    /\ Fields(e)
    /\ k \in {"TrustNamespaceRole", "TrustNamespaceRoleBinding"} =>
          Namespace \in DOMAIN e /\ e[Namespace] = namespace
    /\ \A f \in ServerFills(k) : f \in DOMAIN e /\ Filled(f, e[f])

(* An object that is left alone holds everything that it should.           *)
LEMMA NoticesEverything ==
    ASSUME NEW k \in AllKinds, NEW s, NEW in, NEW e, e # Absent,
           Sound(e, k, GetTrustNamespace(s)), ~NeedsApply(k, s, in, e)
    PROVE  Holds(e, k, s, in)
<1> DEFINE d == Desired(k, s, in)
<1>1. ASSUME NEW f \in DOMAIN d \ NeverCompared(k)
      PROVE  Value(e, f) = d[f]
  <2>1. CASE f # Namespace
    BY <2>1, Noticed DEF Sound
  <2>2. CASE f = Namespace
    BY <2>2, DesiredFacts DEF Sound, Value
  <2> QED
    BY <2>1, <2>2
<1>2. ASSUME NEW f \in ServerFills(k)
      PROVE  Stored(d)[f] = d[f]
  <2>1. f \in DOMAIN d /\ f \notin NeverCompared(k)
    <3>1. f \in DOMAIN d
      BY DesiredFacts
    <3> QED
      BY <3>1 DEF ServerFills, NeverCompared, Volumes, Rules, ClientConfig
  <2>2. d[f] = e[f] /\ Filled(f, e[f])
    BY <1>1, <1>2, <2>1 DEF Sound, Value
  <2> QED
    BY <2>1, <2>2, StoredFacts
<1>3. \A f \in DOMAIN Stored(d) : f \in DOMAIN d /\ Stored(d)[f] = d[f]
  BY <1>2, StoredFacts
<1> QED
  BY <1>1, <1>3 DEF Holds

(* An apply leaves every field of the desired object in place and keeps    *)
(* what the comparisons rely on.                                           *)
LEMMA ApplyFacts ==
    ASSUME NEW k \in AllKinds, NEW s, NEW in, NEW o, NEW uid,
           o # Absent => Fields(o.fields)
    PROVE  LET new == ServerSideApply(o, Desired(k, s, in), uid)
           IN  /\ new = [fields |-> new.fields, owned |-> new.owned, uid |-> new.uid]
               /\ Holds(new.fields, k, s, in)
               /\ Sound(new.fields, k, GetTrustNamespace(s))
               /\ new.owned = DOMAIN Desired(k, s, in)
               /\ new.owned \subseteq DOMAIN new.fields /\ Extra \notin new.owned
               /\ new.fields = [f \in DOMAIN new.fields |-> new.fields[f]]
               /\ \A f \in new.owned : new.fields[f] = Stored(Desired(k, s, in))[f]
               /\ AppLabel \in DOMAIN new.fields
               /\ new.fields[AppLabel] = "trust-manager"
               /\ new.uid = IF o = Absent THEN uid ELSE o.uid
<1> DEFINE d == Desired(k, s, in)
           st == Stored(d)
           others == [f \in DOMAIN o.fields \ o.owned |-> o.fields[f]]
           fs == IF o = Absent THEN st ELSE st ++ others
           new == ServerSideApply(o, d, uid)
<1>1. new = [fields |-> fs, owned |-> DOMAIN d, uid |-> IF o = Absent THEN uid ELSE o.uid]
  BY DEF ServerSideApply
<1>2. /\ DOMAIN st = DOMAIN d
      /\ \A f \in DOMAIN d \ ServerFills(k) : st[f] = d[f]
      /\ \A f \in DOMAIN d : Filled(f, st[f])
  BY StoredFacts
<1>3. /\ Fields(d)
      /\ AppLabel \in DOMAIN d /\ d[AppLabel] = "trust-manager"
      /\ ServerFills(k) \subseteq DOMAIN d
      /\ Namespace \in DOMAIN d <=> k \in {"TrustNamespaceRole", "TrustNamespaceRoleBinding"}
      /\ Namespace \in DOMAIN d => d[Namespace] = GetTrustNamespace(s)
      /\ Extra \notin DOMAIN d
  BY DesiredFacts
<1>4. AppLabel \notin ServerFills(k) /\ Namespace \notin ServerFills(k)
  BY DEF ServerFills, AppLabel, Volumes, Rules, ClientConfig, Namespace
<1>12. st = [f \in DOMAIN st |-> st[f]]
  BY DEF Stored
<1> HIDE DEF d, st
<1>13. fs = [f \in DOMAIN fs |-> fs[f]]
  BY <1>12 DEF ++, Merge
<1>5. /\ \A f \in DOMAIN st : f \in DOMAIN fs /\ fs[f] = st[f]
      /\ \A f \in DOMAIN fs : f \in DOMAIN st \/ (o # Absent /\ f \in DOMAIN o.fields)
  BY DEF ++, Merge
<1> HIDE DEF fs
<1>6. Fields(fs)
  BY <1>2, <1>3, <1>5 DEF Fields
<1>7. Sound(fs, k, GetTrustNamespace(s))
  BY <1>2, <1>3, <1>4, <1>5, <1>6 DEF Sound
<1>8. Holds(fs, k, s, in)
  BY <1>5 DEF Holds, Value, st, d
<1>9. new.fields = fs /\ new.owned = DOMAIN d /\ new.uid = IF o = Absent THEN uid ELSE o.uid
  BY <1>1
<1>10. new = [fields |-> new.fields, owned |-> new.owned, uid |-> new.uid]
  BY <1>1, <1>9
<1> HIDE DEF new
<1>11. AppLabel \in DOMAIN fs /\ fs[AppLabel] = "trust-manager"
  BY <1>2, <1>3, <1>4, <1>5
<1> QED
  BY <1>2, <1>3, <1>5, <1>7, <1>8, <1>9, <1>10, <1>11, <1>13 DEF new, d, st

(* Only the Deployment depends on the profile, the image and the service   *)
(* account, and with the package alone, if the spec asks for it, on the    *)
(* bundle.                                                                 *)
LEMMA SameInputs ==
    ASSUME NEW k \in AllKinds, NEW s, NEW i, NEW j,
           k = "Deployment" => i.tls = j.tls /\ i.image = j.image /\ i.sauid = j.sauid,
           k \in {"DefaultCAPackage", "Deployment"} /\ DefaultCAPackageEnabled(s) =>
               i.bundle = j.bundle,
           ~Skipped(k, s)
    PROVE  Desired(k, s, i) = Desired(k, s, j) /\ BuildError(k, s, i) = BuildError(k, s, j)
<1>1. CASE k = "DefaultCAPackage"
  BY <1>1 DEF Skipped, Desired, BuildDefaultCAPackageConfigMap, FormatCAPackage, BuildError,
              ReadTrustedCABundle
<1>2. CASE k = "Deployment"
  <2>1. GetDeploymentObject(s, i, LabelsAt(s, k)) = GetDeploymentObject(s, j, LabelsAt(s, k))
    BY <1>2 DEF GetDeploymentObject, SetServiceAccountUIDAnnotation, ComputeCABundleHash,
                ApplyClusterTLSProfile, UpdateImage
  <2>2. DeploymentError(s, i) = DeploymentError(s, j)
    BY <1>2 DEF DeploymentError
  <2> QED
    BY <1>2, <2>1, <2>2 DEF Desired, BuildError
<1>3. CASE k \notin {"DefaultCAPackage", "Deployment"}
  BY <1>3 DEF Desired, BuildError, AllKinds, SimpleKinds
<1> QED
  BY <1>1, <1>2, <1>3

(* A missing object is created.                                            *)
LEMMA MissingIsApplied ==
    ASSUME NEW k \in AllKinds, NEW s, NEW in
    PROVE  NeedsApply(k, s, in, Absent)
<1> DEFINE d == Desired(k, s, in)
<1> HIDE DEF d
<1>1. CreateOrApply(k, d, Absent)
  BY DEF CreateOrApply, AllKinds, SimpleKinds,
         CreateOrApplyDefaultCAPackageConfigMap, CreateOrApplyServiceAccounts,
         CreateOrApplyClusterRole, CreateOrApplyClusterRoleBinding,
         CreateOrApplyTrustNamespaceRole, CreateOrApplyTrustNamespaceRoleBinding,
         CreateOrApplyLeaderElectionRole, CreateOrApplyLeaderElectionRoleBinding,
         CreateOrApplyClusterViewClusterRole, CreateOrApplyWebhookService,
         CreateOrApplyMetricsService, CreateOrApplyIssuer, CreateOrApplyCertificate,
         CreateOrApplyDeployment, CreateOrApplyValidatingWebhookConfiguration
<1> QED
  BY <1>1 DEF NeedsApply, d

(* What is desired, and what the server makes of it, is a map.             *)
LEMMA DesiredIsMap ==
    ASSUME NEW k \in AllKinds, NEW s, NEW in
    PROVE  LET d == Desired(k, s, in)
           IN  /\ d = [f \in DOMAIN d |-> d[f]]
               /\ Stored(d) = [f \in DOMAIN d |-> Stored(d)[f]]
<1> DEFINE d == Desired(k, s, in)
<1>1. PICK r : d = Object(r)
  BY BuildersShape, DeploymentShape DEF AllKinds
<1>2. d = [f \in DOMAIN d |-> d[f]]
  BY <1>1 DEF Object
<1>3. DOMAIN Stored(d) = DOMAIN d
  BY StoredFacts
<1> HIDE DEF d
<1>4. Stored(d) = [f \in DOMAIN Stored(d) |-> Stored(d)[f]]
  BY <1>2 DEF Stored
<1> QED
  BY <1>2, <1>3, <1>4 DEF d

(* An object that holds what it should carries the label of the caches.    *)
LEMMA HeldIsManaged ==
    ASSUME NEW k \in AllKinds, NEW s, NEW in, NEW e, Holds(e, k, s, in)
    PROVE  Value(e, AppLabel) = "trust-manager"
<1> DEFINE d == Desired(k, s, in)
<1>1. AppLabel \in DOMAIN d /\ d[AppLabel] = "trust-manager"
  BY DesiredFacts
<1>2. AppLabel \notin ServerFills(k) /\ AppLabel \notin NeverCompared(k)
  BY DEF ServerFills, NeverCompared, AppLabel, Volumes, Rules, ClientConfig
<1>3. AppLabel \in DOMAIN Stored(d) /\ Stored(d)[AppLabel] = d[AppLabel]
  BY <1>1, <1>2, StoredFacts
<1> QED
  BY <1>1, <1>2, <1>3 DEF Holds

-----------------------------------------------------------------------------
(***************************************************************************)
(* The objects of istio-csr.                                               *)
(***************************************************************************)

(* Both operands mean the same by objects, sections and differences.       *)
LEMMA CSRSame ==
    /\ \A r : CSR!Object(r) = Object(r)
    /\ \A o, t : CSR!Section(o, t) = Section(o, t)
    /\ \A o, f : CSR!Value(o, f) = Value(o, f)
    /\ \A d, e, keys : CSR!Differ(d, e, keys) = Differ(d, e, keys)
    /\ \A f, g : CSR!Merge(f, g) = f ++ g
    /\ \A k, v : CSR!Entry(k, v) = Entry(k, v)
<1>1. \A o, f : CSR!Value(o, f) = Value(o, f)
  BY DEF CSR!Value, Value
<1>2. \A r : CSR!Object(r) = Object(r)
  BY DEF CSR!Object, Object
<1>3. \A o, t : CSR!Section(o, t) = Section(o, t)
  BY DEF CSR!Section, Section
<1>4. \A d, e, keys : CSR!Differ(d, e, keys) = Differ(d, e, keys)
  BY <1>1 DEF CSR!Differ, Differ
<1>5. \A f, g : CSR!Merge(f, g) = f ++ g
  BY DEF CSR!Merge, ++, Merge
<1>6. \A k, v : CSR!Entry(k, v) = Entry(k, v)
  BY DEF CSR!Entry, Entry
<1> QED
  BY <1>1, <1>2, <1>3, <1>4, <1>5, <1>6

AllCSRKinds ==
    {"csr.NetworkPolicy", "csr.Service", "csr.MetricsService", "csr.ServiceAccount",
     "csr.Deployment"} \cup ElsewhereKinds

(* The kinds of istio-csr.                                                 *)
LEMMA CSRPipelineKinds == IstioCSRKinds = AllCSRKinds
<1>1. DOMAIN CSR!FullPipeline = 1..12
  BY DEF CSR!FullPipeline
<1> QED
  BY <1>1 DEF CSR!FullPipeline, IstioCSRKinds, AllCSRKinds, ElsewhereKinds

NamespaceLabel == <<"label", "csr-namespace">>

(* The labels of an object, and its namespace.                             *)
CSRLabels(k, s) ==
    IF k \in ElsewhereKinds THEN CSR!IstioMapperLabels(CSR!ResourceLabels(s))
    ELSE IF k = "csr.NetworkPolicy"
         THEN CSR!ResourceLabels(s) ++ Entry("owned-by", CSR!Manifest)
         ELSE CSR!ResourceLabels(s)

CSRNamespace(k, s) == IF k \in ElsewhereKinds THEN s.istioNamespace ELSE "csr-ns"

ClusterScoped == {"csr.ClusterRole", "csr.ClusterRoleBinding"}

(* Whatever labels the user asks for.                                      *)
LEMMA CSRLabelsFacts ==
    ASSUME NEW k, NEW s
    PROVE  /\ "app" \in DOMAIN CSRLabels(k, s) /\ CSRLabels(k, s)["app"] = "istio-csr"
           /\ k \in ElsewhereKinds => /\ "csr-namespace" \in DOMAIN CSRLabels(k, s)
                                      /\ CSRLabels(k, s)["csr-namespace"] = "csr-ns"
<1> DEFINE own == CSR!ResourceLabels(s)
<1>1. "app" \in DOMAIN own /\ own["app"] = "istio-csr"
  BY DEF CSR!ResourceLabels, CSR!ControllerDefaultResourceLabels, CSR!Merge
<1> HIDE DEF own
<1>2. LET m == CSR!IstioMapperLabels(own)
      IN  /\ "app" \in DOMAIN m /\ m["app"] = "istio-csr"
          /\ "csr-namespace" \in DOMAIN m /\ m["csr-namespace"] = "csr-ns"
  BY <1>1 DEF CSR!IstioMapperLabels, CSR!Merge, CSR!Entry
<1>3. LET m == own ++ Entry("owned-by", CSR!Manifest)
      IN  "app" \in DOMAIN m /\ m["app"] = "istio-csr"
  BY <1>1, UnionFacts
<1> QED
  BY <1>1, <1>2, <1>3 DEF CSRLabels, own

(* The keys of the spec that a builder sets and a comparison looks at.     *)
CSRKeys(k) ==
    CASE k = "csr.NetworkPolicy" -> {"policy"}
      [] k \in {"csr.Service", "csr.MetricsService"} -> {"type", "selector", "ports"}
      [] k = "csr.ServiceAccount" -> {}
      [] k \in {"csr.ClusterRole", "csr.Role", "csr.LeasesRole"} -> {"rules"}
      [] k \in {"csr.ClusterRoleBinding", "csr.RoleBinding", "csr.LeasesRoleBinding"} ->
            {"roleRef", "subjects"}
      [] k = "csr.Certificate" ->
            {"commonName", "dnsNames", "uris", "duration", "renewBefore", "privateKey",
             "issuerRef"}

(* The shape of the object a builder makes, by its sections.               *)
CSRShaped(r, k, s) ==
    /\ DOMAIN r = IF k \in ClusterScoped THEN {"label", "spec"} ELSE {"label", "meta", "spec"}
    /\ r["label"] = CSRLabels(k, s)
    /\ k \notin ClusterScoped => r["meta"] = [namespace |-> CSRNamespace(k, s)]
    /\ DOMAIN r["spec"] = CSRKeys(k)

(* Every builder but that of the Deployment makes an object of that shape. *)
LEMMA CSRBuildersShape ==
    ASSUME NEW k \in AllCSRKinds \ {"csr.Deployment"}, NEW s, NEW in
    PROVE  \E r : CSR!Desired(k, s, in) = Object(r) /\ CSRShaped(r, k, s)
<1> DEFINE Made(spec0) == IF k \in ClusterScoped THEN [label |-> CSRLabels(k, s), spec |-> spec0]
                          ELSE [label |-> CSRLabels(k, s),
                                meta |-> [namespace |-> CSRNamespace(k, s)], spec |-> spec0]
<1>1. ASSUME NEW spec0, DOMAIN spec0 = CSRKeys(k)
      PROVE  CSRShaped(Made(spec0), k, s)
  BY <1>1 DEF CSRShaped
<1>2. ASSUME NEW spec0, k \notin ClusterScoped
      PROVE  CSR!Labelled(CSRLabels(k, s), CSRNamespace(k, s), spec0) = Object(Made(spec0))
  BY <1>2, CSRSame DEF CSR!Labelled
<1>3. ASSUME NEW spec0, k \in ClusterScoped
      PROVE  CSR!Object([label |-> CSRLabels(k, s), spec |-> spec0]) = Object(Made(spec0))
  BY <1>3, CSRSame
<1> HIDE DEF Made
<1>4. CASE k = "csr.NetworkPolicy"
  <2> DEFINE spec0 == [policy |-> CSR!Manifest]
  <2>1. CSR!Desired(k, s, in) = CSR!Labelled(CSRLabels(k, s), CSRNamespace(k, s), spec0)
    BY <1>4, CSRSame DEF CSR!Desired, CSR!GetNetworkPolicyFromAsset, CSRLabels, CSRNamespace,
       ElsewhereKinds
  <2>2. DOMAIN spec0 = CSRKeys(k) /\ k \notin ClusterScoped
    BY <1>4 DEF CSRKeys, ClusterScoped
  <2> QED
    BY <1>1, <1>2, <2>1, <2>2
<1>5. CASE k = "csr.Service"
  <2> DEFINE spec0 == [type |-> CSR!Manifest, selector |-> CSR!Manifest,
                       ports |-> CSR!UpdateServicePort(s.port)]
  <2>1. CSR!Desired(k, s, in) = CSR!Labelled(CSRLabels(k, s), CSRNamespace(k, s), spec0)
    BY <1>5 DEF CSR!Desired, CSR!GetServiceObject, CSRLabels, CSRNamespace, ElsewhereKinds
  <2>2. DOMAIN spec0 = CSRKeys(k) /\ k \notin ClusterScoped
    BY <1>5 DEF CSRKeys, ClusterScoped
  <2> QED
    BY <1>1, <1>2, <2>1, <2>2
<1>6. CASE k = "csr.MetricsService"
  <2> DEFINE spec0 == CSR!FromManifest({"type", "selector", "ports"})
  <2>1. CSR!Desired(k, s, in) = CSR!Labelled(CSRLabels(k, s), CSRNamespace(k, s), spec0)
    BY <1>6 DEF CSR!Desired, CSR!GetMetricsServiceObject, CSRLabels, CSRNamespace, ElsewhereKinds
  <2>2. DOMAIN spec0 = CSRKeys(k) /\ k \notin ClusterScoped
    BY <1>6 DEF CSRKeys, ClusterScoped, CSR!FromManifest
  <2> QED
    BY <1>1, <1>2, <2>1, <2>2
<1>7. CASE k = "csr.ServiceAccount"
  <2> DEFINE spec0 == CSR!EmptyMap
  <2>1. CSR!Desired(k, s, in) = CSR!Labelled(CSRLabels(k, s), CSRNamespace(k, s), spec0)
    BY <1>7 DEF CSR!Desired, CSR!GetServiceAccountObject, CSRLabels, CSRNamespace, ElsewhereKinds
  <2>2. DOMAIN spec0 = CSRKeys(k) /\ k \notin ClusterScoped
    BY <1>7 DEF CSRKeys, ClusterScoped, CSR!EmptyMap
  <2> QED
    BY <1>1, <1>2, <2>1, <2>2
<1>8. CASE k = "csr.ClusterRole"
  <2> DEFINE spec0 == [rules |-> CSR!Manifest]
  <2>1. CSR!Desired(k, s, in) = CSR!Object([label |-> CSRLabels(k, s), spec |-> spec0])
    BY <1>8 DEF CSR!Desired, CSR!GetClusterRoleObject, CSRLabels, ElsewhereKinds
  <2>2. DOMAIN spec0 = CSRKeys(k) /\ k \in ClusterScoped
    BY <1>8 DEF CSRKeys, ClusterScoped
  <2> QED
    BY <1>1, <1>3, <2>1, <2>2
<1>9. CASE k = "csr.ClusterRoleBinding"
  <2> DEFINE spec0 == CSR!Binding(in.clusterRole)
  <2>1. CSR!Desired(k, s, in) = CSR!Object([label |-> CSRLabels(k, s), spec |-> spec0])
    BY <1>9 DEF CSR!Desired, CSR!GetClusterRoleBindingObject, CSRLabels, ElsewhereKinds
  <2>2. DOMAIN spec0 = CSRKeys(k) /\ k \in ClusterScoped
    BY <1>9 DEF CSRKeys, ClusterScoped, CSR!Binding
  <2> QED
    BY <1>1, <1>3, <2>1, <2>2
<1>10. CASE k \in {"csr.Role", "csr.LeasesRole"}
  <2> DEFINE spec0 == [rules |-> CSR!Manifest]
  <2>1. CSR!Desired(k, s, in) = CSR!Labelled(CSRLabels(k, s), CSRNamespace(k, s), spec0)
    BY <1>10 DEF CSR!Desired, CSR!GetRoleObject, CSR!GetRoleForLeasesObject, CSRLabels,
       CSRNamespace, ElsewhereKinds
  <2>2. DOMAIN spec0 = CSRKeys(k) /\ k \notin ClusterScoped
    BY <1>10 DEF CSRKeys, ClusterScoped
  <2> QED
    BY <1>1, <1>2, <2>1, <2>2
<1>11. ASSUME NEW role, k \in {"csr.RoleBinding", "csr.LeasesRoleBinding"},
              role = IF k = "csr.RoleBinding" THEN "istio-csr" ELSE "istio-csr-leases"
       PROVE  \E r : CSR!Desired(k, s, in) = Object(r) /\ CSRShaped(r, k, s)
  <2> DEFINE spec0 == CSR!Binding(role)
  <2>1. CSR!Desired(k, s, in) = CSR!Labelled(CSRLabels(k, s), CSRNamespace(k, s), spec0)
    BY <1>11 DEF CSR!Desired, CSR!GetRoleBindingObject, CSR!GetRoleBindingForLeasesObject,
       CSRLabels, CSRNamespace, ElsewhereKinds
  <2>2. DOMAIN spec0 = CSRKeys(k) /\ k \notin ClusterScoped
    BY <1>11 DEF CSRKeys, ClusterScoped, CSR!Binding
  <2> QED
    BY <1>1, <1>2, <2>1, <2>2
<1>12. CASE k = "csr.Certificate"
  <2> DEFINE spec0 == CSR!UpdateCertificateParams(s)
  <2>1. CSR!Desired(k, s, in) = CSR!Labelled(CSRLabels(k, s), CSRNamespace(k, s), spec0)
    BY <1>12 DEF CSR!Desired, CSR!GetCertificateObject, CSRLabels, CSRNamespace, ElsewhereKinds
  <2>2. DOMAIN spec0 = CSRKeys(k) /\ k \notin ClusterScoped
    BY <1>12 DEF CSRKeys, ClusterScoped, CSR!UpdateCertificateParams
  <2> QED
    BY <1>1, <1>2, <2>1, <2>2
<1> QED
  BY <1>4, <1>5, <1>6, <1>7, <1>8, <1>9, <1>10, <1>11, <1>12 DEF AllCSRKinds, ElsewhereKinds

(* The Deployment has three more sections; affinity and tolerations are    *)
(* there if the spec gives them.                                           *)
CSRDeploymentSections(s, in) ==
    [label |-> CSR!ResourceLabels(s), meta |-> [namespace |-> "csr-ns"],
     templateLabel |-> CSR!ResourceLabels(s),
     arg |-> CSR!UpdateArgList(s, in),
     nodeSelector |-> CSR!UpdateNodeSelector(s),
     spec |-> CSR!Omit(CSR!NotGiven(s, {"affinity", "tolerations"}),
         [resources |-> CSR!UpdateResourceRequirement(s),
          affinity |-> CSR!UpdateAffinityRules(s),
          tolerations |-> CSR!UpdatePodTolerations(s),
          image |-> CSR!UpdateImage(in),
          volumes |-> CSR!UpdateVolumeWithIssuerCA,
          volumeMounts |-> CSR!UpdateVolumeWithIssuerCA,
          replicas |-> CSR!Manifest, selector |-> CSR!Manifest, container |-> CSR!Manifest,
          imagePullPolicy |-> CSR!Manifest, ports |-> CSR!Manifest,
          readinessProbe |-> CSR!Manifest, readinessProbePort |-> CSR!Manifest,
          securityContext |-> CSR!Manifest, serviceAccountName |-> CSR!Manifest])]

CSRExactSections == {"templateLabel", "arg", "nodeSelector"}

CSRDeploymentKeys ==
    {"replicas", "selector", "container", "image", "imagePullPolicy", "ports",
     "readinessProbe", "resources", "securityContext", "volumeMounts",
     "serviceAccountName", "volumes"}

CSROverlookedKeys == {"affinity", "tolerations", "readinessProbePort"}

(* The Deployment is made of those sections, and its spec of those keys.   *)
LEMMA CSRDeploymentShape ==
    ASSUME NEW s, NEW in
    PROVE  LET r == CSRDeploymentSections(s, in)
           IN  /\ CSR!Desired("csr.Deployment", s, in) = Object(r)
               /\ DOMAIN r = {"label", "meta", "spec"} \cup CSRExactSections
               /\ r["label"] = CSRLabels("csr.Deployment", s)
               /\ r["meta"] = [namespace |-> CSRNamespace("csr.Deployment", s)]
               /\ DOMAIN r["spec"] \subseteq CSRDeploymentKeys \cup CSROverlookedKeys
<1> DEFINE r == CSRDeploymentSections(s, in)
<1>1. CSR!Desired("csr.Deployment", s, in) = CSR!GetDeploymentObject(s, in)
  BY DEF CSR!Desired
<1>2. CSR!GetDeploymentObject(s, in) = CSR!Object(r)
  BY DEF CSR!GetDeploymentObject, CSRDeploymentSections
<1>3. CSR!Object(r) = Object(r)
  BY CSRSame
<1>4. DOMAIN r = {"label", "meta", "spec"} \cup CSRExactSections
  BY DEF CSRDeploymentSections, CSRExactSections
<1>5. /\ r["label"] = CSRLabels("csr.Deployment", s)
      /\ r["meta"] = [namespace |-> CSRNamespace("csr.Deployment", s)]
  BY DEF CSRDeploymentSections, CSRLabels, CSRNamespace, ElsewhereKinds
<1>6. DOMAIN r["spec"] \subseteq CSRDeploymentKeys \cup CSROverlookedKeys
  BY DEF CSRDeploymentSections, CSRDeploymentKeys, CSROverlookedKeys, CSR!Omit
<1> QED
  BY <1>1, <1>2, <1>3, <1>4, <1>5, <1>6

(* The comparison of whole sections sees every key of them.                *)
LEMMA SectionNoticed ==
    ASSUME NEW r, NEW e, Fields(e), NEW t \in DOMAIN r, NEW k \in DOMAIN r[t],
           Section(Object(r), t) = Section(e, t)
    PROVE  Value(e, <<t, k>>) = Object(r)[<<t, k>>]
<1> DEFINE d == Object(r)
<1>1. k \in DOMAIN Section(d, t) /\ Section(d, t)[k] = r[t][k] /\ d[<<t, k>>] = r[t][k]
  BY SectionFacts, ObjectFacts
<1> HIDE DEF d
<1>2. k \in {g[2] : g \in {g \in DOMAIN e : g[1] = t}}
  BY <1>1 DEF Section, d
<1>3. <<t, k>> \in DOMAIN e
  BY <1>2 DEF Fields
<1>4. Section(e, t)[k] = e[<<t, k>>]
  BY <1>2 DEF Section
<1> QED
  BY <1>1, <1>3, <1>4 DEF Value, d

(* What holds of the desired object of every kind of istio-csr.            *)
LEMMA CSRDesiredFacts ==
    ASSUME NEW k \in AllCSRKinds, NEW s, NEW in
    PROVE  LET d == CSR!Desired(k, s, in)
           IN  /\ Fields(d) /\ d = [f \in DOMAIN d |-> d[f]]
               /\ AppLabel \in DOMAIN d /\ d[AppLabel] = "istio-csr"
               /\ k \in ElsewhereKinds => /\ NamespaceLabel \in DOMAIN d
                                          /\ d[NamespaceLabel] = "csr-ns"
               /\ Namespace \in DOMAIN d <=> k \notin ClusterScoped
               /\ Namespace \in DOMAIN d => d[Namespace] = CSRNamespace(k, s)
<1> DEFINE d == CSR!Desired(k, s, in)
<1>1. \E r : /\ d = Object(r) /\ "label" \in DOMAIN r /\ r["label"] = CSRLabels(k, s)
             /\ "meta" \in DOMAIN r <=> k \notin ClusterScoped
             /\ "meta" \in DOMAIN r => r["meta"] = [namespace |-> CSRNamespace(k, s)]
  <2>1. CASE k = "csr.Deployment"
    <3> DEFINE r == CSRDeploymentSections(s, in)
    <3>1. /\ d = Object(r) /\ DOMAIN r = {"label", "meta", "spec"} \cup CSRExactSections
          /\ r["label"] = CSRLabels(k, s)
          /\ r["meta"] = [namespace |-> CSRNamespace(k, s)]
      BY <2>1, CSRDeploymentShape
    <3>2. k \notin ClusterScoped
      BY <2>1 DEF ClusterScoped
    <3> HIDE DEF r, d
    <3> QED
      BY <3>1, <3>2
  <2>2. CASE k # "csr.Deployment"
    <3>1. PICK r : d = Object(r) /\ CSRShaped(r, k, s)
      BY <2>2, CSRBuildersShape
    <3> HIDE DEF d
    <3>2. CASE k \in ClusterScoped
      BY <3>1, <3>2 DEF CSRShaped
    <3>3. CASE k \notin ClusterScoped
      BY <3>1, <3>3 DEF CSRShaped
    <3> QED
      BY <3>2, <3>3
  <2> QED
    BY <2>1, <2>2
<1> HIDE DEF d
<1>2. PICK r : /\ d = Object(r) /\ "label" \in DOMAIN r /\ r["label"] = CSRLabels(k, s)
               /\ "meta" \in DOMAIN r <=> k \notin ClusterScoped
               /\ "meta" \in DOMAIN r => r["meta"] = [namespace |-> CSRNamespace(k, s)]
  BY <1>1
<1>3. Fields(d)
  BY <1>2, ObjectFacts DEF Fields
<1>4. d = [f \in DOMAIN d |-> d[f]]
  BY <1>2 DEF Object
<1>5. AppLabel \in DOMAIN d /\ d[AppLabel] = "istio-csr"
  BY <1>2, ObjectFacts, CSRLabelsFacts DEF AppLabel
<1>6. k \in ElsewhereKinds => NamespaceLabel \in DOMAIN d /\ d[NamespaceLabel] = "csr-ns"
  BY <1>2, ObjectFacts, CSRLabelsFacts DEF NamespaceLabel
<1>7. ASSUME "meta" \in DOMAIN r
      PROVE  Namespace \in DOMAIN d /\ d[Namespace] = CSRNamespace(k, s)
  BY <1>2, <1>7, ObjectFacts DEF Namespace
<1>8. Namespace \in DOMAIN d => "meta" \in DOMAIN r
  BY <1>2, ObjectFacts DEF Namespace
<1> QED
  BY <1>2, <1>3, <1>4, <1>5, <1>6, <1>7, <1>8 DEF d

(* A comparison that finds no difference has looked at every field the     *)
(* builder sets, but for the namespace of the object and those three keys. *)
LEMMA CSRNoticed ==
    ASSUME NEW k \in AllCSRKinds, NEW s, NEW in, NEW e, e # Absent, Fields(e),
           ~CSR!NeedsUpdate(k, s, in, e),
           NEW f \in DOMAIN CSR!Desired(k, s, in), f # Namespace,
           f \notin CSR!NeverCompared(k)
    PROVE  Value(e, f) = CSR!Desired(k, s, in)[f]
<1> DEFINE d == CSR!Desired(k, s, in)
<1>1. ~CSR!HasObjectChanged(k, d, e)
  BY DEF CSR!NeedsUpdate
<1>2. Section(d, "label") = Section(e, "label")
  BY <1>1, CSRSame DEF CSR!HasObjectChanged, CSR!ObjectMetadataModified
<1>3. CASE k = "csr.Deployment"
  <2> DEFINE r == CSRDeploymentSections(s, in)
  <2>1. /\ d = Object(r) /\ DOMAIN r = {"label", "meta", "spec"} \cup CSRExactSections
        /\ r["meta"] = [namespace |-> CSRNamespace(k, s)]
        /\ DOMAIN r["spec"] \subseteq CSRDeploymentKeys \cup CSROverlookedKeys
    BY <1>3, CSRDeploymentShape
  <2>2. ~CSR!DeploymentSpecModified(d, e)
    BY <1>1, <1>3 DEF CSR!HasObjectChanged
  <2>3. /\ ~Differ(d, e, CSRDeploymentKeys)
        /\ \A t \in CSRExactSections : Section(d, t) = Section(e, t)
    BY <2>2, CSRSame DEF CSR!DeploymentSpecModified, CSRDeploymentKeys, CSRExactSections
  <2> HIDE DEF r, d
  <2>4. PICK t \in DOMAIN r : \E key \in DOMAIN r[t] : f = <<t, key>>
    BY <2>1, ObjectFacts DEF d
  <2>5. PICK key \in DOMAIN r[t] : f = <<t, key>>
    BY <2>4
  <2>6. CASE t \in {"label"} \cup CSRExactSections
    <3>1. Section(Object(r), t) = Section(e, t)
      BY <1>2, <2>1, <2>3, <2>6
    <3> QED
      BY <2>1, <2>5, <3>1, SectionNoticed DEF d
  <2>7. CASE t = "spec"
    <3>1. key \in CSRDeploymentKeys
      BY <1>3, <2>1, <2>5, <2>7 DEF CSROverlookedKeys, CSR!NeverCompared
    <3> QED
      BY <2>1, <2>3, <2>5, <2>7, <3>1, SpecNoticed DEF d
  <2>8. CASE t = "meta"
    BY <2>1, <2>5, <2>8 DEF Namespace
  <2> QED
    BY <2>1, <2>6, <2>7, <2>8
<1>4. CASE k # "csr.Deployment"
  <2>1. PICK r : d = Object(r) /\ CSRShaped(r, k, s)
    BY <1>4, CSRBuildersShape
  <2>2. k = "csr.Certificate" => Section(d, "spec") = Section(e, "spec")
    BY <1>1, CSRSame DEF CSR!HasObjectChanged, CSR!CertificateSpecModified
  <2>3. k # "csr.Certificate" => ~Differ(d, e, CSRKeys(k))
    <3> HIDE DEF d
    <3>1. CASE k = "csr.NetworkPolicy"
      BY <1>1, <3>1, CSRSame DEF CSR!HasObjectChanged, CSR!NetworkPolicySpecModified, CSRKeys
    <3>2. CASE k \in {"csr.Service", "csr.MetricsService"}
      BY <1>1, <3>2, CSRSame DEF CSR!HasObjectChanged, CSR!ServiceSpecModified, CSRKeys, Differ
    <3>3. CASE k = "csr.ServiceAccount"
      BY <3>3 DEF CSRKeys, Differ
    <3>4. CASE k \in {"csr.ClusterRole", "csr.Role", "csr.LeasesRole"}
      BY <1>1, <3>4, CSRSame DEF CSR!HasObjectChanged, CSR!RbacRoleRulesModified, CSRKeys
    <3>5. CASE k \in {"csr.ClusterRoleBinding", "csr.RoleBinding", "csr.LeasesRoleBinding"}
      <4>1. ~Differ(d, e, {"roleRef"}) /\ ~Differ(d, e, {"subjects"})
        BY <1>1, <3>5, CSRSame DEF CSR!HasObjectChanged, CSR!RbacRoleBindingRefModified,
           CSR!RbacRoleBindingSubjectsModified
      <4>2. CSRKeys(k) = {"roleRef", "subjects"}
        BY <3>5 DEF CSRKeys
      <4> QED
        BY <4>1, <4>2 DEF Differ
    <3> QED
      BY <1>4, <3>1, <3>2, <3>3, <3>4, <3>5 DEF AllCSRKinds, ElsewhereKinds
  <2> HIDE DEF d
  <2>4. PICK t \in DOMAIN r : \E key \in DOMAIN r[t] : f = <<t, key>>
    BY <2>1, ObjectFacts DEF d
  <2>5. PICK key \in DOMAIN r[t] : f = <<t, key>>
    BY <2>4
  <2>6. t \in {"label", "meta", "spec"}
    BY <2>1 DEF CSRShaped
  <2>7. CASE t = "label"
    BY <1>2, <2>1, <2>5, <2>7, SectionNoticed DEF d
  <2>8. CASE t = "spec"
    <3>1. CASE k = "csr.Certificate"
      BY <2>1, <2>2, <2>5, <2>8, <3>1, SectionNoticed DEF d
    <3>2. CASE k # "csr.Certificate"
      <4>1. key \in CSRKeys(k)
        BY <2>1, <2>5, <2>8 DEF CSRShaped
      <4> QED
        BY <2>1, <2>3, <2>5, <2>8, <3>2, <4>1, SpecNoticed DEF d
    <3> QED
      BY <3>1, <3>2
  <2>9. CASE t = "meta"
    <3>1. k \notin ClusterScoped
      BY <2>1, <2>9 DEF CSRShaped
    <3> QED
      BY <2>1, <2>5, <2>9, <3>1 DEF CSRShaped, Namespace
  <2> QED
    BY <2>6, <2>7, <2>8, <2>9
<1> QED
  BY <1>3, <1>4

(* The names in the certificate.                                           *)
Names == <<"spec", "dnsNames">>

(* The server stores what was sent, but for an empty list of names.        *)
LEMMA CSRStoredFacts ==
    ASSUME NEW k \in AllCSRKinds, NEW s, NEW in
    PROVE  LET d == CSR!Desired(k, s, in)
               st == CSR!Stored(d)
           IN  /\ DOMAIN d \ {Names} \subseteq DOMAIN st /\ DOMAIN st \subseteq DOMAIN d
               /\ \A f \in DOMAIN st : st[f] = d[f]
               /\ st = [f \in DOMAIN st |-> st[f]]
               /\ ~(k = "csr.Certificate" /\ CSR!DNSNames(s) = << >>) => st = d
<1> DEFINE d == CSR!Desired(k, s, in)
           st == CSR!Stored(d)
<1>1. d = [f \in DOMAIN d |-> d[f]]
  BY CSRDesiredFacts
<1>2. ASSUME Names \in DOMAIN d
      PROVE  k = "csr.Certificate" /\ d[Names] = CSR!DNSNames(s)
  <2>1. CASE k = "csr.Deployment"
    <3> DEFINE r == CSRDeploymentSections(s, in)
    <3>1. /\ d = Object(r)
          /\ DOMAIN r["spec"] \subseteq CSRDeploymentKeys \cup CSROverlookedKeys
      BY <2>1, CSRDeploymentShape
    <3>2. "dnsNames" \notin DOMAIN r["spec"]
      BY <3>1 DEF CSRDeploymentKeys, CSROverlookedKeys
    <3> HIDE DEF r, d
    <3> QED
      BY <1>2, <3>1, <3>2, ObjectFacts DEF Names
  <2>2. CASE k \notin {"csr.Deployment", "csr.Certificate"}
    <3>1. PICK r : d = Object(r) /\ CSRShaped(r, k, s)
      BY <2>2, CSRBuildersShape
    <3>2. "dnsNames" \notin DOMAIN r["spec"]
      BY <2>2, <3>1 DEF CSRShaped, CSRKeys, AllCSRKinds, ElsewhereKinds
    <3> HIDE DEF d
    <3> QED
      BY <1>2, <3>1, <3>2, ObjectFacts DEF Names
  <2>3. CASE k = "csr.Certificate"
    <3> DEFINE r == [label |-> CSR!IstioMapperLabels(CSR!ResourceLabels(s)),
                     meta |-> [namespace |-> s.istioNamespace],
                     spec |-> CSR!UpdateCertificateParams(s)]
    <3>1. d = Object(r)
      BY <2>3, CSRSame DEF CSR!Desired, CSR!GetCertificateObject, CSR!Labelled
    <3>2. /\ "spec" \in DOMAIN r /\ "dnsNames" \in DOMAIN r["spec"]
          /\ r["spec"]["dnsNames"] = CSR!DNSNames(s)
      BY DEF CSR!UpdateCertificateParams
    <3> HIDE DEF r, d
    <3> QED
      BY <2>3, <3>1, <3>2, ObjectFacts DEF Names
  <2> QED
    BY <2>1, <2>2, <2>3
<1> HIDE DEF d
<1>3. CASE st = d
  BY <1>1, <1>3 DEF d
<1>4. CASE st # d
  <2>1. /\ CSR!Value(d, Names) = << >>
        /\ st = [f \in DOMAIN d \ {Names} |-> d[f]]
    BY <1>4 DEF CSR!Stored, Names
  <2>2. Names \in DOMAIN d
    BY <1>1, <1>4, <2>1
  <2>3. d[Names] = << >>
    BY <2>1, <2>2 DEF CSR!Value
  <2> HIDE DEF st
  <2>4. k = "csr.Certificate" /\ CSR!DNSNames(s) = << >>
    BY <1>2, <2>2, <2>3
  <2>5. DOMAIN st = DOMAIN d \ {Names} /\ \A f \in DOMAIN st : st[f] = d[f]
    BY <2>1
  <2>6. st = [f \in DOMAIN st |-> st[f]]
    BY <2>1, <2>5
  <2> QED
    BY <2>4, <2>5, <2>6 DEF d, st
<1> QED
  BY <1>3, <1>4

(* An object is no different from itself.                                  *)
LEMMA CSRUnchanged ==
    ASSUME NEW k \in AllCSRKinds, NEW d
    PROVE  ~CSR!HasObjectChanged(k, d, d)
BY DEF CSR!HasObjectChanged, CSR!ObjectMetadataModified, CSR!CertificateSpecModified,
       CSR!DeploymentSpecModified, CSR!ServiceSpecModified, CSR!RbacRoleRulesModified,
       CSR!RbacRoleBindingRefModified, CSR!RbacRoleBindingSubjectsModified,
       CSR!NetworkPolicySpecModified, CSR!Differ, AllCSRKinds, ElsewhereKinds

-----------------------------------------------------------------------------
(***************************************************************************)
(* One object under repeated passes.                                       *)
(***************************************************************************)
(* The annotation of the webhook that names the secret of the CA bundle.   *)
InjectKey == <<"annotation", "inject-ca-from-secret">>

(* The metadata that is this controller's own, where it still owns it.     *)
OwnMetadata(o, k) ==
    /\ AppLabel \in o.owned =>
          o.fields[AppLabel] = IF k \in AllCSRKinds THEN "istio-csr" ELSE "trust-manager"
    /\ k \in ElsewhereKinds /\ NamespaceLabel \in o.owned =>
          o.fields[NamespaceLabel] = "csr-ns"
    /\ k = "ValidatingWebhook" /\ InjectKey \in o.owned =>
          o.fields[InjectKey] = "cert-manager/trust-manager-tls"

(* The object is in the namespace that the spec asks for.                  *)
InNamespace(e, k, s) ==
    /\ k \in {"TrustNamespaceRole", "TrustNamespaceRoleBinding"} =>
          Namespace \in DOMAIN e /\ e[Namespace] = GetTrustNamespace(s)
    /\ k \in AllCSRKinds \ ClusterScoped =>
          Namespace \in DOMAIN e /\ e[Namespace] = CSRNamespace(k, s)

(* The server has filled in what it holds, unless somebody has replaced it. *)
FilledHeld(e, k) ==
    \A f \in ServerFills(k) : f \in DOMAIN e /\ (e[f] = Foreign \/ Filled(f, e[f]))

(* An object of the kind k, as it may be in the server.                    *)
Proper(o, k, s) ==
    /\ o = [fields |-> o.fields, owned |-> o.owned, uid |-> o.uid]
    /\ o.fields = [f \in DOMAIN o.fields |-> o.fields[f]]
    /\ Fields(o.fields)
    /\ o.owned \subseteq DOMAIN o.fields
    /\ InNamespace(o.fields, k, s)
    /\ FilledHeld(o.fields, k)
    /\ OwnMetadata(o, k)

(* The inductive invariant.                                                *)
ApplyInv ==
    /\ \/ kind \in AllKinds /\ spec \in TMSpecs /\ inputs \in TMInputs
       \/ kind \in AllCSRKinds
    /\ object # Absent => Proper(object, kind, spec)

(* A kind is a kind of one operand.                                        *)
LEMMA KindsApart ==
    /\ TrustManagerKinds = AllKinds /\ IstioCSRKinds = AllCSRKinds
    /\ AllKinds \cap AllCSRKinds = {}
<1>1. TrustManagerKinds = AllKinds
  BY FullPipelineKinds DEF TrustManagerKinds
<1>2. AllKinds \cap AllCSRKinds = {}
  BY DEF AllKinds, SimpleKinds, AllCSRKinds, ElsewhereKinds
<1> QED
  BY <1>1, <1>2, CSRPipelineKinds

(* Whatever annotations the user asks for, the one by which the CA         *)
(* injector finds the secret of the webhook is there.                      *)
LEMMA InjectionWins ==
    ASSUME NEW s, NEW in
    PROVE  LET d == Desired("ValidatingWebhook", s, in)
           IN  InjectKey \in DOMAIN d => d[InjectKey] = "cert-manager/trust-manager-tls"
<1> DEFINE annotations == UpdateWebhookAnnotations(GetResourceAnnotations(s))
           r == WebhookSections(s)
<1>1. Desired("ValidatingWebhook", s, in) = Object(r)
  BY WebhookFacts
<1>2. /\ "inject-ca-from-secret" \in DOMAIN annotations
      /\ annotations["inject-ca-from-secret"] = "cert-manager/trust-manager-tls"
  BY DEF UpdateWebhookAnnotations, InjectCAFromSecret, ++, Merge, Entry
<1> HIDE DEF annotations
<1>3. "annotation" \in DOMAIN r /\ r["annotation"] = annotations
  BY DEF WebhookSections, annotations
<1> HIDE DEF r
<1> QED
  BY <1>1, <1>2, <1>3, ObjectFacts DEF InjectKey

(* What an apply of trust-manager leaves is such an object.                *)
LEMMA AppliedIsProper ==
    ASSUME NEW k \in AllKinds, NEW s, NEW in, NEW o, NEW uid,
           o # Absent => Fields(o.fields)
    PROVE  Proper(ServerSideApply(o, Desired(k, s, in), uid), k, s)
<1> DEFINE d == Desired(k, s, in)
           new == ServerSideApply(o, d, uid)
<1>1. /\ new = [fields |-> new.fields, owned |-> new.owned, uid |-> new.uid]
      /\ Sound(new.fields, k, GetTrustNamespace(s))
      /\ new.owned = DOMAIN d
      /\ new.owned \subseteq DOMAIN new.fields
      /\ new.fields = [f \in DOMAIN new.fields |-> new.fields[f]]
      /\ \A f \in new.owned : new.fields[f] = Stored(d)[f]
      /\ new.fields[AppLabel] = "trust-manager"
  BY ApplyFacts
<1>2. \A f \in DOMAIN d \ ServerFills(k) : Stored(d)[f] = d[f]
  BY StoredFacts
<1>3. k = "ValidatingWebhook" /\ InjectKey \in DOMAIN d =>
         d[InjectKey] = "cert-manager/trust-manager-tls"
  BY InjectionWins
<1>4. k \notin AllCSRKinds /\ k \notin ElsewhereKinds
  BY KindsApart DEF AllCSRKinds
<1> HIDE DEF new, d
<1>5. InjectKey \notin ServerFills(k)
  BY DEF ServerFills, InjectKey, Volumes, Rules, ClientConfig
<1>6. OwnMetadata(new, k)
  BY <1>1, <1>2, <1>3, <1>4, <1>5 DEF OwnMetadata
<1>7. Fields(new.fields) /\ InNamespace(new.fields, k, s) /\ FilledHeld(new.fields, k)
  BY <1>1, <1>4 DEF Sound, InNamespace, FilledHeld
<1> QED
  BY <1>1, <1>6, <1>7 DEF Proper, new, d

(* What an update of istio-csr leaves is such an object.                   *)
LEMMA UpdatedIsProper ==
    ASSUME NEW k \in AllCSRKinds, NEW s, NEW in, NEW o, NEW uid
    PROVE  Proper(CSR!Update(o, CSR!Desired(k, s, in), uid), k, s)
<1> DEFINE d == CSR!Desired(k, s, in)
           st == CSR!Stored(d)
           new == CSR!Update(o, d, uid)
<1>1. new = [fields |-> st, owned |-> DOMAIN st, uid |-> IF o = Absent THEN uid ELSE o.uid]
  BY DEF CSR!Update
<1>2. /\ Fields(d)
      /\ AppLabel \in DOMAIN d /\ d[AppLabel] = "istio-csr"
      /\ k \in ElsewhereKinds => NamespaceLabel \in DOMAIN d /\ d[NamespaceLabel] = "csr-ns"
      /\ Namespace \in DOMAIN d <=> k \notin ClusterScoped
      /\ Namespace \in DOMAIN d => d[Namespace] = CSRNamespace(k, s)
  BY CSRDesiredFacts
<1>3. /\ DOMAIN d \ {Names} \subseteq DOMAIN st /\ DOMAIN st \subseteq DOMAIN d
      /\ \A f \in DOMAIN st : st[f] = d[f]
      /\ st = [f \in DOMAIN st |-> st[f]]
  BY CSRStoredFacts
<1>4. k \notin AllKinds
  BY KindsApart
<1>5. Namespace # Names
  BY DEF Namespace, Names
<1> HIDE DEF new, st, d
<1>6. new.fields = st /\ new.owned = DOMAIN st
  BY <1>1
<1>7. new = [fields |-> new.fields, owned |-> new.owned, uid |-> new.uid]
  BY <1>1
<1>8. Fields(st)
  BY <1>2, <1>3 DEF Fields
<1>9. k \notin {"TrustNamespaceRole", "TrustNamespaceRoleBinding", "Deployment",
                "ValidatingWebhook"}
  BY <1>4 DEF AllKinds, SimpleKinds
<1>10. InNamespace(st, k, s) /\ FilledHeld(st, k)
  BY <1>2, <1>3, <1>5, <1>9 DEF InNamespace, FilledHeld, ServerFills
<1>11. OwnMetadata(new, k)
  BY <1>2, <1>3, <1>6, <1>9 DEF OwnMetadata
<1> QED
  BY <1>3, <1>6, <1>7, <1>8, <1>10, <1>11 DEF Proper, new, d

(* Somebody else takes over a field, but for the namespace, or adds a      *)
(* label: the object remains such an object.                               *)
LEMMA DriftedIsProper ==
    ASSUME NEW o, NEW k, NEW s, Proper(o, k, s)
    PROVE  /\ \A f \in o.owned \ {Namespace} :
                 Proper([o EXCEPT !.fields[f] = Foreign, !.owned = @ \ {f}], k, s)
           /\ <<"label", "theirs">> \notin DOMAIN o.fields =>
                 Proper([o EXCEPT !.fields = Entry(<<"label", "theirs">>, Foreign) ++ @], k, s)
<1>0. /\ o = [fields |-> o.fields, owned |-> o.owned, uid |-> o.uid]
      /\ o.fields = [f \in DOMAIN o.fields |-> o.fields[f]]
      /\ Fields(o.fields)
      /\ o.owned \subseteq DOMAIN o.fields
      /\ InNamespace(o.fields, k, s) /\ FilledHeld(o.fields, k) /\ OwnMetadata(o, k)
  BY DEF Proper
<1>1. ASSUME NEW f \in o.owned \ {Namespace}
      PROVE  Proper([o EXCEPT !.fields[f] = Foreign, !.owned = @ \ {f}], k, s)
  <2> DEFINE fs == o.fields
             e == [fs EXCEPT ![f] = Foreign]
             new == [o EXCEPT !.fields[f] = Foreign, !.owned = @ \ {f}]
  <2>1. /\ o = [fields |-> fs, owned |-> o.owned, uid |-> o.uid]
        /\ fs = [g \in DOMAIN fs |-> fs[g]]
        /\ f \in DOMAIN fs
    BY <1>0
  <2>2. new = [o EXCEPT !.fields[f] = Foreign, !.owned = @ \ {f}]
    OBVIOUS
  <2> HIDE DEF fs, new
  <2>3. new = [fields |-> e, owned |-> o.owned \ {f}, uid |-> o.uid]
    BY <2>1, <2>2 DEF fs
  <2>4. /\ DOMAIN e = DOMAIN o.fields /\ e[f] = Foreign
        /\ \A g \in DOMAIN o.fields \ {f} : e[g] = o.fields[g]
        /\ e = [g \in DOMAIN e |-> e[g]]
    BY <1>0 DEF fs
  <2> HIDE DEF e
  <2>5. new.fields = e /\ new.owned = o.owned \ {f}
    BY <2>3
  <2>6. new = [fields |-> new.fields, owned |-> new.owned, uid |-> new.uid]
    BY <2>3
  <2>7. Fields(e) /\ InNamespace(e, k, s) /\ FilledHeld(e, k)
    BY <1>0, <2>4 DEF Fields, InNamespace, FilledHeld
  <2>8. OwnMetadata(new, k)
    BY <1>0, <2>4, <2>5 DEF OwnMetadata
  <2> QED
    BY <1>0, <2>4, <2>5, <2>6, <2>7, <2>8 DEF Proper, new
<1>2. ASSUME <<"label", "theirs">> \notin DOMAIN o.fields
      PROVE  Proper([o EXCEPT !.fields = Entry(<<"label", "theirs">>, Foreign) ++ @], k, s)
  <2> DEFINE theirs == <<"label", "theirs">>
             e == Entry(theirs, Foreign) ++ o.fields
             new == [o EXCEPT !.fields = Entry(<<"label", "theirs">>, Foreign) ++ @]
  <2>1. new = [fields |-> e, owned |-> o.owned, uid |-> o.uid]
    BY <1>0
  <2>2. /\ DOMAIN e = DOMAIN o.fields \cup {theirs}
        /\ \A g \in DOMAIN o.fields : e[g] = o.fields[g]
    BY <1>2 DEF ++, Merge, Entry
  <2>3. e = [g \in DOMAIN e |-> e[g]]
    BY DEF ++, Merge
  <2>4. theirs = <<theirs[1], theirs[2]>>
    OBVIOUS
  <2> HIDE DEF new, e, theirs
  <2>5. new.fields = e /\ new.owned = o.owned
    BY <2>1
  <2>6. new = [fields |-> new.fields, owned |-> new.owned, uid |-> new.uid]
    BY <2>1
  <2>7. Fields(e) /\ InNamespace(e, k, s) /\ FilledHeld(e, k)
    BY <1>0, <2>2, <2>4 DEF Fields, InNamespace, FilledHeld
  <2>8. OwnMetadata(new, k)
    BY <1>0, <2>2, <2>5 DEF OwnMetadata
  <2> QED
    BY <1>0, <2>2, <2>3, <2>5, <2>6, <2>7, <2>8 DEF Proper, new
<1> QED
  BY <1>1, <1>2

(* The invariant holds, whatever the specs, the inputs and the bound.      *)
LEMMA ApplyInvariant == ApplySpec => []ApplyInv
<1>1. ApplyInit => ApplyInv
  BY KindsApart DEF ApplyInit, ApplyInv
<1>2. ApplyInv /\ [ApplyNext]_applyVars => ApplyInv'
  <2> SUFFICES ASSUME ApplyInv, [ApplyNext]_applyVars
               PROVE  ApplyInv'
    OBVIOUS
  <2>0. /\ \/ kind \in AllKinds /\ spec \in TMSpecs /\ inputs \in TMInputs
           \/ kind \in AllCSRKinds
        /\ OfIstioCSR <=> kind \in AllCSRKinds
        /\ kind \in AllKinds => kind \notin AllCSRKinds
    BY KindsApart DEF ApplyInv, OfIstioCSR
  <2>1. CASE Pass
    <3>1. object' = Written(1) /\ kind' = kind /\ spec' = spec /\ inputs' = inputs
      BY <2>1 DEF Pass
    <3>2. object # Absent => Fields(object.fields)
      BY DEF ApplyInv, Proper
    <3>3. CASE OfIstioCSR
      BY <2>0, <3>1, <3>3, UpdatedIsProper DEF Written, ApplyInv
    <3>4. CASE ~OfIstioCSR
      BY <2>0, <3>1, <3>2, <3>4, AppliedIsProper DEF Written, ApplyInv
    <3> QED
      BY <3>3, <3>4
  <2>2. CASE SpecEdited
    <3>1. kind' = kind /\ object' = object /\ inputs' = inputs
      BY <2>2 DEF SpecEdited
    <3>2. ASSUME NEW e, InNamespace(e, kind, spec)
          PROVE  InNamespace(e, kind, spec')
      <4>1. CASE OfIstioCSR
        <5>1. spec'.istioNamespace = spec.istioNamespace
          BY <2>2, <4>1 DEF SpecEdited, CSR!ImmutableSpecFields
        <5>2. kind \notin {"TrustNamespaceRole", "TrustNamespaceRoleBinding"}
          BY <2>0, <4>1 DEF AllKinds, SimpleKinds
        <5> QED
          BY <3>2, <5>1, <5>2 DEF InNamespace, CSRNamespace
      <4>2. CASE ~OfIstioCSR
        <5>1. spec'.trustNamespace = spec.trustNamespace
          BY <2>2, <4>2 DEF SpecEdited
        <5> QED
          BY <2>0, <3>2, <4>2, <5>1 DEF InNamespace, GetTrustNamespace
      <4> QED
        BY <4>1, <4>2
    <3>3. kind \in AllKinds => spec' \in TMSpecs
      BY <2>0, <2>2 DEF SpecEdited
    <3> QED
      BY <2>0, <3>1, <3>2, <3>3 DEF ApplyInv, Proper
  <2>3. CASE InputsChange
    BY <2>0, <2>3 DEF InputsChange, ApplyInv
  <2>4. CASE ObjectDrifts
    <3>1. /\ kind' = kind /\ spec' = spec /\ inputs' = inputs
          /\ object # Absent
          /\ \/ \E f \in object.owned \ Immutable :
                   object' = [object EXCEPT !.fields[f] = Foreign, !.owned = @ \ {f}]
             \/ /\ <<"label", "theirs">> \notin DOMAIN object.fields
                /\ object' = [object EXCEPT !.fields = Entry(<<"label", "theirs">>, Foreign) ++ @]
      BY <2>4 DEF ObjectDrifts
    <3>2. Namespace \in Immutable
      BY DEF Namespace, Immutable
    <3>3. Proper(object, kind, spec)
      BY <3>1 DEF ApplyInv
    <3>4. Proper(object', kind, spec)
      <4>1. CASE \E f \in object.owned \ Immutable :
                    object' = [object EXCEPT !.fields[f] = Foreign, !.owned = @ \ {f}]
        <5>1. PICK f \in object.owned \ Immutable :
                 object' = [object EXCEPT !.fields[f] = Foreign, !.owned = @ \ {f}]
          BY <4>1
        <5>2. f \in object.owned \ {Namespace}
          BY <3>2
        <5>3. Proper([object EXCEPT !.fields[f] = Foreign, !.owned = @ \ {f}], kind, spec)
          BY <3>3, <5>2, DriftedIsProper
        <5> QED
          BY <5>1, <5>3
      <4>2. CASE /\ <<"label", "theirs">> \notin DOMAIN object.fields
                 /\ object' = [object EXCEPT !.fields =
                                  Entry(<<"label", "theirs">>, Foreign) ++ @]
        BY <3>3, <4>2, DriftedIsProper
      <4> QED
        BY <3>1, <4>1, <4>2
    <3> QED
      BY <2>0, <3>1, <3>4 DEF ApplyInv
  <2>5. CASE UNCHANGED applyVars
    BY <2>5 DEF applyVars, ApplyInv
  <2> QED
    BY <2>1, <2>2, <2>3, <2>4, <2>5 DEF ApplyNext
<1> QED
  BY <1>1, <1>2, PTL DEF ApplySpec

(* An object that has every field of the desired one, and besides them     *)
(* labels only, is not taken for modified by the comparison of any kind.   *)
LEMMA SettledIsLeftAlone ==
    ASSUME NEW k \in AllKinds, NEW d, NEW e, e # Absent, Fields(d), Fields(e),
           \A f \in DOMAIN d : f \in DOMAIN e /\ e[f] = d[f],
           \A f \in DOMAIN e \ DOMAIN d : f[1] = "label"
    PROVE  ~CreateOrApply(k, d, e)
<1>1. ~ManagedMetadataModified(d, e)
  <2>1. ASSUME NEW t, NEW key \in DOMAIN Section(d, t)
        PROVE  Value(e, <<t, key>>) = d[<<t, key>>]
    <3>1. <<t, key>> \in DOMAIN d
      BY DEF Section, Fields
    <3> QED
      BY <3>1 DEF Value
  <2> QED
    BY <2>1 DEF ManagedMetadataModified, ManagedLabelsModified, ManagedAnnotationsModified
<1>2. ASSUME NEW t, t # "label", NEW key
      PROVE  <<t, key>> \in DOMAIN e <=> <<t, key>> \in DOMAIN d
  <2>1. <<t, key>>[1] # "label"
    BY <1>2
  <2> QED
    BY <2>1
<1>3. ASSUME NEW keys
      PROVE  ~Differ(d, e, keys)
  <2>1. ASSUME NEW key \in keys
        PROVE  Value(d, <<"spec", key>>) = Value(e, <<"spec", key>>)
    <3>1. <<"spec", key>> \in DOMAIN e <=> <<"spec", key>> \in DOMAIN d
      BY <1>2
    <3> QED
      BY <3>1 DEF Value
  <2> QED
    BY <2>1 DEF Differ
<1>4. ASSUME NEW t, t # "label"
      PROVE  Section(d, t) = Section(e, t)
  <2> DEFINE Keys(o) == {f[2] : f \in {g \in DOMAIN o : g[1] = t}}
  <2>1. \A key : key \in Keys(d) <=> <<t, key>> \in DOMAIN d
    BY DEF Fields
  <2>2. \A key : key \in Keys(e) <=> <<t, key>> \in DOMAIN e
    BY DEF Fields
  <2>3. Section(d, t) = [key \in Keys(d) |-> d[<<t, key>>]]
        /\ Section(e, t) = [key \in Keys(e) |-> e[<<t, key>>]]
    BY DEF Section
  <2> HIDE DEF Keys
  <2>4. Keys(d) = Keys(e)
    BY <1>2, <1>4, <2>1, <2>2
  <2>5. \A key \in Keys(d) : d[<<t, key>>] = e[<<t, key>>]
    BY <2>1
  <2> QED
    BY <2>3, <2>4, <2>5
<1>5. CASE k = "Deployment"
  <2>1. \A t \in {"templateLabel", "templateAnnotation", "nodeSelector"} :
           Section(d, t) = Section(e, t)
    BY <1>4
  <2> QED
    BY <1>1, <1>3, <1>5, <2>1 DEF CreateOrApply, CreateOrApplyDeployment, DeploymentModified,
       ContainerModified
<1>6. CASE k \in SimpleKinds
  BY <1>1, <1>3, <1>6 DEF SimpleKinds, CreateOrApply,
     CreateOrApplyDefaultCAPackageConfigMap, ConfigMapModified,
     CreateOrApplyServiceAccounts, ServiceAccountModified,
     CreateOrApplyClusterRole, CreateOrApplyClusterViewClusterRole, ClusterRoleModified,
     CreateOrApplyClusterRoleBinding, ClusterRoleBindingModified,
     CreateOrApplyTrustNamespaceRole, CreateOrApplyLeaderElectionRole, RoleModified,
     CreateOrApplyTrustNamespaceRoleBinding, CreateOrApplyLeaderElectionRoleBinding,
     RoleBindingModified,
     CreateOrApplyWebhookService, CreateOrApplyMetricsService, ServiceModified,
     CreateOrApplyIssuer, IssuerModified, CreateOrApplyCertificate, CertificateModified,
     CreateOrApplyValidatingWebhookConfiguration, WebhookConfigModified,
     ValidatingWebhookModified
<1> QED
  BY <1>5, <1>6 DEF AllKinds

(* An object that the controller leaves alone holds, for every kind of     *)
(* both operands and for every spec and all inputs, each field that the    *)
(* builder of its kind sets: the comparisons (hasObjectChanged, ...Modified) *)
(* overlook nothing but revisionHistoryLimit and                           *)
(* automountServiceAccountToken of trust-manager's Deployment and the      *)
(* affinity, the tolerations and the probe's port of istio-csr's.          *)
THEOREM ChangesNoticed == ApplySpec => []NoticesEveryChange
<1>1. ApplyInv => NoticesEveryChange
  <2> SUFFICES ASSUME ApplyInv, Existing # Absent, ~(~OfIstioCSR /\ Skipped(kind, spec)),
                      ~Modified,
                      NEW f \in DOMAIN Written(1).fields \ NotCompared
               PROVE  Value(object.fields, f) = Written(1).fields[f]
    BY DEF NoticesEveryChange
  <2> DEFINE e == object.fields
  <2>1. /\ object # Absent /\ Existing = e /\ e # Absent
        /\ Fields(e) /\ InNamespace(e, kind, spec) /\ FilledHeld(e, kind)
    BY DEF Existing, ApplyInv, Proper
  <2>2. /\ \/ kind \in AllKinds /\ spec \in TMSpecs /\ inputs \in TMInputs
           \/ kind \in AllCSRKinds
        /\ OfIstioCSR <=> kind \in AllCSRKinds
    BY KindsApart DEF ApplyInv, OfIstioCSR
  <2>3. CASE OfIstioCSR
    <3> DEFINE d == CSR!Desired(kind, spec, inputs)
               st == CSR!Stored(d)
    <3>1. Written(1).fields = st
      BY <2>3 DEF Written, CSR!Update
    <3>2. DOMAIN st \subseteq DOMAIN d /\ \A g \in DOMAIN st : st[g] = d[g]
      BY <2>2, <2>3, CSRStoredFacts
    <3>3. ~CSR!NeedsUpdate(kind, spec, inputs, e)
      BY <2>1, <2>3 DEF Modified
    <3>4. f \in DOMAIN d /\ Written(1).fields[f] = d[f] /\ f \notin CSR!NeverCompared(kind)
      BY <3>1, <3>2 DEF NotCompared
    <3>5. CASE f = Namespace
      <4>1. kind \notin ClusterScoped /\ d[Namespace] = CSRNamespace(kind, spec)
        BY <2>2, <2>3, <3>4, <3>5, CSRDesiredFacts
      <4> QED
        BY <2>1, <2>2, <2>3, <3>4, <3>5, <4>1 DEF InNamespace, Value
    <3>6. CASE f # Namespace
      BY <2>1, <2>2, <2>3, <3>3, <3>4, <3>6, CSRNoticed
    <3> QED
      BY <3>5, <3>6
  <2>4. CASE ~OfIstioCSR
    <3> DEFINE d == Desired(kind, spec, inputs)
               st == Stored(d)
               others == [g \in DOMAIN e \ object.owned |-> e[g]]
    <3>1. Written(1).fields = st ++ others
      BY <2>1, <2>4 DEF Written, ServerSideApply
    <3>2. ~NeedsApply(kind, spec, inputs, e)
      BY <2>1, <2>4 DEF Modified
    <3>3. ASSUME NEW g \in ServerFills(kind)
          PROVE  e[g] # Foreign
      <4>1. g \in DOMAIN d /\ g \in DOMAIN e
        BY <2>1, <2>2, <2>4, DesiredFacts DEF FilledHeld
      <4>2. g # Namespace /\ g \notin NeverCompared(kind)
        BY DEF ServerFills, NeverCompared, Volumes, Rules, ClientConfig, Namespace
      <4>3. Value(e, g) = d[g]
        BY <2>1, <2>2, <2>4, <3>2, <4>1, <4>2, Noticed
      <4>4. d[g] # Foreign
        BY <2>2, <2>4, <4>1, KindsApart, ForeignAssumption
      <4> QED
        BY <4>1, <4>3, <4>4 DEF Value
    <3>4. Sound(e, kind, GetTrustNamespace(spec))
      BY <2>1, <3>3 DEF Sound, InNamespace, FilledHeld
    <3>5. Holds(e, kind, spec, inputs)
      BY <2>1, <2>2, <2>4, <3>2, <3>4, NoticesEverything
    <3>6. \A g \in DOMAIN st \ NeverCompared(kind) : Value(e, g) = st[g]
      BY <3>5 DEF Holds
    <3> HIDE DEF d, st
    <3>7. \A g \in DOMAIN (st ++ others) \ NeverCompared(kind) :
             Value(e, g) = (st ++ others)[g]
      <4>1. \A g \in DOMAIN others : others[g] = e[g] /\ g \in DOMAIN e
        OBVIOUS
      <4> HIDE DEF others
      <4> QED
        BY <3>6, <4>1 DEF ++, Merge, Value
    <3> QED
      BY <3>1, <3>7 DEF NotCompared
  <2> QED
    BY <2>3, <2>4
<1> QED
  BY <1>1, ApplyInvariant, PTL

(* An object just as an apply or an update leaves it is not taken for      *)
(* modified by the next pass, whatever the spec and the inputs and         *)
(* whatever labels others have added to an applied one, but where the      *)
(* server stores something else than what was sent (StoredOtherwise): a    *)
(* pass without a cause writes nothing.                                    *)
THEOREM OneWriteSuffices == ApplySpec => []OneWriteIsEnough
<1>1. ApplyInv => OneWriteIsEnough
  <2> SUFFICES ASSUME ApplyInv, Existing # Absent,
                      \A f \in DOMAIN object.fields \ object.owned : f[1] = "label",
                      ~StoredOtherwise, object = Written(object.uid)
               PROVE  ~Modified
    BY DEF OneWriteIsEnough
  <2> DEFINE e == object.fields
  <2>1. object # Absent /\ Existing = e /\ e # Absent /\ Fields(e)
    BY DEF Existing, ApplyInv, Proper
  <2>2. /\ kind \in AllKinds \/ kind \in AllCSRKinds
        /\ OfIstioCSR <=> kind \in AllCSRKinds
    BY KindsApart DEF ApplyInv, OfIstioCSR
  <2>3. CASE OfIstioCSR
    <3> DEFINE d == CSR!Desired(kind, spec, inputs)
    <3>1. CSR!Stored(d) = d
      BY <2>2, <2>3, CSRStoredFacts DEF StoredOtherwise
    <3>2. Written(object.uid).fields = CSR!Stored(d)
      BY <2>3 DEF Written, CSR!Update
    <3>3. e = d
      BY <3>1, <3>2
    <3>4. ~CSR!HasObjectChanged(kind, d, d)
      BY <2>2, <2>3, CSRUnchanged
    <3> HIDE DEF d
    <3> QED
      BY <2>1, <2>3, <3>3, <3>4 DEF Modified, CSR!NeedsUpdate, d
  <2>4. CASE ~OfIstioCSR
    <3> DEFINE d == Desired(kind, spec, inputs)
               st == Stored(d)
               others == [g \in DOMAIN e \ object.owned |-> e[g]]
    <3>1. /\ Written(object.uid).fields = st ++ others
          /\ Written(object.uid).owned = DOMAIN d
      BY <2>1, <2>4 DEF Written, ServerSideApply
    <3>2. e = st ++ others /\ object.owned = DOMAIN d
      BY <3>1
    <3>3. DOMAIN st = DOMAIN d /\ \A f \in DOMAIN d \ ServerFills(kind) : st[f] = d[f]
      BY <2>2, <2>4, StoredFacts
    <3>4. \A f \in ServerFills(kind) : st[f] = d[f]
      <4>1. kind # "Deployment" => ServerFills(kind) = {}
        BY DEF StoredOtherwise, ServerFills
      <4>2. SUFFICES ASSUME kind = "Deployment"
                     PROVE  st[Volumes] = d[Volumes]
        BY <4>1 DEF ServerFills
      <4>3. Volumes \in DOMAIN d /\ d[Volumes] = UpdateDefaultCAPackageVolume(spec).volumes
        BY <2>2, <2>4, <4>2, DesiredFacts DEF ServerFills
      <4>4. d[Volumes] = <<TLSVolume>>
        BY <4>2, <4>3 DEF StoredOtherwise, UpdateDefaultCAPackageVolume
      <4>5. Filled(Volumes, <<TLSVolume>>)
        <5>1. Defaulted(Volumes, <<TLSVolume>>)
                 = [i \in {1} |-> [TLSVolume EXCEPT !.defaultMode = 420]]
          BY DEF Defaulted, Volumes
        <5>2. [TLSVolume EXCEPT !.defaultMode = 420] = TLSVolume
          BY DEF TLSVolume
        <5> QED
          BY <5>1, <5>2 DEF Filled
      <4> QED
        BY <2>2, <2>4, <4>3, <4>4, <4>5, StoredFacts
    <3>5. Fields(d)
      BY <2>2, <2>4, DesiredFacts
    <3> HIDE DEF st, d
    <3>6. \A f \in DOMAIN d : st[f] = d[f]
      BY <3>3, <3>4
    <3>7. \A f \in DOMAIN d : f \in DOMAIN e /\ e[f] = d[f]
      <4>1. \A f \in DOMAIN st : f \in DOMAIN (st ++ others) /\ (st ++ others)[f] = st[f]
        BY DEF ++, Merge
      <4> HIDE DEF others
      <4> QED
        BY <3>2, <3>3, <3>6, <4>1
    <3>8. \A f \in DOMAIN e \ DOMAIN d : f[1] = "label"
      BY <3>2
    <3>9. ~CreateOrApply(kind, d, e)
      BY <2>1, <2>2, <2>4, <3>5, <3>7, <3>8, SettledIsLeftAlone
    <3> QED
      BY <2>1, <2>4, <3>9 DEF Modified, NeedsApply, d
  <2> QED
    BY <2>3, <2>4
<1> QED
  BY <1>1, ApplyInvariant, PTL

(* Whatever labels and annotations users ask for, and whatever others do   *)
(* to the object, the metadata by which the caches, the events of objects  *)
(* elsewhere and the CA injector find it is what the controller wants it   *)
(* to be for as long as the controller owns it.                            *)
THEOREM OwnMetadataKept == ApplySpec => []OwnMetadataWins
<1>1. ApplyInv => OwnMetadataWins
  <2> SUFFICES ASSUME ApplyInv, object # Absent
               PROVE  OwnMetadata(object, kind) => OwnMetadataWins
    BY DEF ApplyInv, Proper, OwnMetadataWins
  <2>1. OfIstioCSR <=> kind \in AllCSRKinds
    BY KindsApart DEF OfIstioCSR
  <2> QED
    BY <2>1 DEF OwnMetadata, OwnMetadataWins, AppLabel, NamespaceLabel, InjectKey
<1> QED
  BY <1>1, ApplyInvariant, PTL

=============================================================================
