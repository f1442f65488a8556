------------------------ MODULE CertManagerDeployment ------------------------
(***************************************************************************)
(* The Deployments of cert-manager (controller, webhook, cainjector) as    *)
(* the hooks of pkg/controller/certmanager build them from the manifest,   *)
(* the CertManager object, the objects of the cluster and the environment  *)
(* of the operator process.                                                *)
(*                                                                         *)
(* A Deployment is a record of the fields the hooks touch.  Arguments are  *)
(* represented as in ContainerArgs; the value of a tuning argument, which  *)
(* is parsed as a number, is a pair of its shape and a number: "int" n,    *)
(* "half" n (for n + 0.5), "nan", or "text" for anything else.             *)
(***************************************************************************)
EXTENDS ContainerArgs, FiniteSets

CONSTANTS Unset      \* a field, or a whole configuration, that is not set

Controller == "cert-manager"
Webhook == "cert-manager-webhook"
CAInjector == "cert-manager-cainjector"
DeploymentNames == {Controller, Webhook, CAInjector}

EmptyMap == [k \in {} |-> Unset]
NoResources == [limits |-> EmptyMap, requests |-> EmptyMap]

(* The Deployment of the manifest; the arguments that no hook can replace  *)
(* are one key, "--manifest".                                              *)
Manifest(name) ==
    [image |-> "upstream",
     args |-> Entry("--v", "2") ++ Entry("--manifest", name)
              ++ (IF name = Controller
                  THEN Entry("--acme-http01-solver-image", "upstream")
                       ++ Entry("--max-concurrent-challenges", <<"int", 60>>)
                  ELSE EmptyMap),
     env |-> Entry("POD_NAMESPACE", "fieldRef"),
     labels |-> Entry("app", name),
     scheme |-> Unset,
     replicas |-> 1,
     resources |-> NoResources,
     nodeSelector |-> Entry("kubernetes.io/os", "linux"),
     tolerations |-> {},
     volumes |-> {}]

(* A DeploymentConfig that sets nothing.                                   *)
EmptyConfig ==
    [overrideArgs |-> << >>, overrideEnv |-> EmptyMap,
     overrideLabels |-> EmptyMap, overrideReplicas |-> Unset,
     overrideResources |-> NoResources,
     overrideScheduling |-> [nodeSelector |-> EmptyMap, tolerations |-> {}]]

(* The configuration the hooks of one Deployment read; the getters return  *)
(* empty values when there is none.                                        *)
ConfigOf(spec) == IF spec.config = Unset THEN EmptyConfig ELSE spec.config

-----------------------------------------------------------------------------
(* The image of a container or of the ACME solver: the one the RELATED_    *)
(* IMAGE variables of the operator name, if they do.                       *)
CertManagerImage(env) == IF env.images THEN "related" ELSE "upstream"

WithOperandImage(d, name, env) ==
    [d EXCEPT
        !.image = CertManagerImage(env),
        !.args = IF name = Controller
                 THEN MergeContainerArgs(@,
                        Entry("--acme-http01-solver-image", CertManagerImage(env)))
                 ELSE @]

LogLevels == [Normal |-> "2", Debug |-> "4", Trace |-> "6", TraceAll |-> "8"]

WithLogLevel(d, opSpec) ==
    IF opSpec.logLevel \in DOMAIN LogLevels
    THEN [d EXCEPT !.args =
            MergeContainerArgs(@, Entry("--v", LogLevels[opSpec.logLevel]))]
    ELSE d

WithPodLabels(d, c) == [d EXCEPT !.labels = c.overrideLabels ++ @]

SupportedLabelKeys(name) ==
    IF name = Controller THEN {"azure.workload.identity/use"} ELSE {}

WithContainerArgs(d, c) ==
    [d EXCEPT !.args = MergeContainerArgs(@, ParseArgMap(c.overrideArgs))]

IntegerArgs == {"--concurrent-workers", "--max-concurrent-challenges",
                "--kube-api-burst"}

(* The arguments of the controller a user may set.  The address of the     *)
(* nameservers stands for all those whose value is not looked at.          *)
SupportedArgs(name) ==
    {"--v", "-V"} \cup
    (IF name = Controller
     THEN IntegerArgs \cup {"--kube-api-qps", "--dns01-recursive-nameservers"}
     ELSE {})

IsInteger(v) == v[1] = "int"
IsNumber(v) == v[1] \in {"int", "half", "nan"}

(* Twice the number.  NaN is not below, at or above anything.              *)
Twice(v) == IF v[1] = "half" THEN 2 * v[2] + 1 ELSE 2 * v[2]
Positive(v) == v[1] = "nan" \/ Twice(v) > 0

ValidPerformanceArgs(args) ==
    /\ \A k \in IntegerArgs \cap DOMAIN args :
            IsInteger(args[k]) /\ Positive(args[k])
    /\ "--kube-api-qps" \in DOMAIN args =>
            IsNumber(args["--kube-api-qps"]) /\ Positive(args["--kube-api-qps"])
    /\ {"--kube-api-qps", "--kube-api-burst"} \subseteq DOMAIN args =>
            \/ args["--kube-api-qps"][1] = "nan"
            \/ Twice(args["--kube-api-burst"]) >= Twice(args["--kube-api-qps"])

ValidContainerArgs(name, c) ==
    /\ DOMAIN ParseArgMap(c.overrideArgs) \subseteq SupportedArgs(name)
    /\ name = Controller => ValidPerformanceArgs(ParseArgMap(c.overrideArgs))

(* Environment variables are merged by name, the override wins.            *)
MergeContainerEnvs(source, override) == override ++ source

(* proxy.ReadProxyVarsFromEnv: each proxy variable of the operator process *)
(* under its own name and in lower case.                                   *)
ToLower == [HTTP_PROXY |-> "http_proxy", HTTPS_PROXY |-> "https_proxy", NO_PROXY |-> "no_proxy"]

ReadProxyVarsFromEnv(vars) ==
    LET found == DOMAIN ToLower \cap DOMAIN vars
        Of(k) == CHOOSE v \in found : k \in {v, ToLower[v]}
    IN  [k \in found \cup {ToLower[v] : v \in found} |-> vars[Of(k)]]

WithProxyEnv(d, env) ==
    [d EXCEPT !.env = MergeContainerEnvs(@, ReadProxyVarsFromEnv(env.vars))]
WithContainerEnv(d, c) == [d EXCEPT !.env = MergeContainerEnvs(@, c.overrideEnv)]

SupportedEnv(name) ==
    IF name = Controller THEN {"HTTP_PROXY", "HTTPS_PROXY", "NO_PROXY"} ELSE {}

WithReplicas(d, c) ==
    IF c.overrideReplicas = Unset THEN d
    ELSE [d EXCEPT !.replicas = c.overrideReplicas]

SupportedResourceNames == {"cpu", "memory"}

(* mergeContainerResourceList: only cpu and memory, and only what is not   *)
(* zero.                                                                   *)
MergeContainerResourceList(source, override) ==
    [r \in {q \in SupportedResourceNames \cap DOMAIN override : override[q] # "0"}
        |-> override[r]] ++ source

MergeContainerResources(source, override) ==
    [limits |-> MergeContainerResourceList(source.limits, override.limits),
     requests |-> MergeContainerResourceList(source.requests, override.requests)]

WithContainerResources(d, c) ==
    [d EXCEPT !.resources = MergeContainerResources(@, c.overrideResources)]

ValidResources(r) ==
    DOMAIN r.limits \cup DOMAIN r.requests \subseteq SupportedResourceNames

(* A toleration, with operator Exists, covers another of the same key and  *)
(* effect; an empty key or effect stands for all of them.                  *)
IsSuperset(t, u) ==
    (t.key = u.key \/ t.key = Empty) /\ (t.effect = u.effect \/ t.effect = Empty)

MergeTolerations(first, second) ==
    LET all == first \cup second
    IN  {t \in all : ~\E u \in all \ {t} : IsSuperset(u, t)}

MergePodScheduling(d, c) ==
    [d EXCEPT !.nodeSelector = c.overrideScheduling.nodeSelector ++ @,
              !.tolerations = MergeTolerations(@, c.overrideScheduling.tolerations)]

(* A selector or a toleration the Kubernetes validation refuses has the    *)
(* key "invalid".                                                          *)
ValidScheduling(s) ==
    /\ "invalid" \notin DOMAIN s.nodeSelector
    /\ \A t \in s.tolerations : t.key # "invalid"

(* The volumes of the trusted CA ConfigMap, of the bound token and of the  *)
(* cloud credentials, with their mounts.                                   *)
WithCAConfigMap(d, env) ==
    IF env.ca THEN [d EXCEPT !.volumes = @ \cup {"trusted-ca"}] ELSE d

WithSABoundToken(d) == [d EXCEPT !.volumes = @ \cup {"bound-sa-token"}]

NeedsCloudCredentials(name, env) == name = Controller /\ env.secret

(* The platform, as the hook reads it from the Infrastructure object.      *)
WithCloudCredentials(d, name, env, in) ==
    IF NeedsCloudCredentials(name, env)
    THEN [d EXCEPT !.volumes = @ \cup {"cloud-credentials"},
                   !.env = IF in.platform = "AWS"
                           THEN Entry("AWS_SDK_LOAD_CONFIG", "1") ++ @ ELSE @]
    ELSE d

CloudCredentialsFail(name, env, in) ==
    /\ NeedsCloudCredentials(name, env)
    /\ ~in.secret \/ in.platform \notin {"AWS", "GCP"}

OperandTLSArgs(name, spec) ==
    IF name = Webhook THEN CertManagerWebhookTLSArgs(spec)
    ELSE CertManagerOperandMetricsTLSArgs(spec)

WithClusterTLSProfile(d, name, in) ==
    LET spec == ResolveHonoredTLSProfile(in.api)
    IN  IF spec = Skip THEN d
        ELSE [d EXCEPT !.args = MergedTLSArgs(@, OperandTLSArgs(name, spec), spec,
                                              CertManagerCipherSuiteArgKeys)]

(* Without the APIServer object, or with a custom profile that must be     *)
(* honored and is empty, there is no Deployment.                           *)
ClusterTLSProfileFails(in) ==
    in.api = NoAPIServer \/ ResolveHonoredTLSProfile(in.api) = ProfileError

OperandMetricsTLSArgs(name) ==
    Entry("--metrics-dynamic-serving-ca-secret-name", "cert-manager-metrics-ca")
    ++ Entry("--metrics-dynamic-serving-dns-names", name)

WithOperandMetricsTLS(d, name) ==
    [d EXCEPT !.args = MergeContainerArgs(@, OperandMetricsTLSArgs(name)),
              !.scheme = "https"]

(* The arguments of unsupportedConfigOverrides for this Deployment; the    *)
(* raw field may hold something that is not JSON.                          *)
WithUnsupportedArgs(d, opSpec) ==
    [d EXCEPT !.args = MergeContainerArgs(@, ParseArgMap(opSpec.unsupported))]

NotJSON == << <<"not", "json">> >>

-----------------------------------------------------------------------------
(***************************************************************************)
(* newGenericDeploymentController: the hooks in their order.  The last two *)
(* groups of the cluster are there when the config API is.                 *)
(***************************************************************************)
GenericDeploymentHooks(env) ==
    <<"image", "logLevel", "labels", "validLabels", "args", "validArgs",
      "proxy", "env", "validEnv", "replicas", "resources", "validResources",
      "scheduling", "validScheduling", "caConfigMap", "boundToken">>
    \o (IF env.infra THEN <<"cloudCredentials", "clusterTLS">> ELSE << >>)
    \o <<"metricsTLS", "unsupportedArgs">>

(* The hooks that look the CertManager "cluster" up in the lister.         *)
ReadingHooks ==
    {"labels", "validLabels", "args", "validArgs", "env", "validEnv",
     "replicas", "resources", "validResources", "scheduling", "validScheduling"}

(* Whether hook h returns an error, with spec the spec it finds in the     *)
(* lister and in the objects of the cluster it finds in theirs.            *)
HookFails(h, name, env, opSpec, spec, in) ==
    LET c == ConfigOf(spec)
    IN  CASE h = "validLabels" ->
                ~(DOMAIN c.overrideLabels \subseteq SupportedLabelKeys(name))
          [] h = "validArgs" -> ~ValidContainerArgs(name, c)
          [] h = "validEnv" -> ~(DOMAIN c.overrideEnv \subseteq SupportedEnv(name))
          [] h = "validResources" -> ~ValidResources(c.overrideResources)
          [] h = "validScheduling" -> ~ValidScheduling(c.overrideScheduling)
          [] h = "caConfigMap" -> env.ca /\ ~in.ca
          [] h = "cloudCredentials" -> CloudCredentialsFail(name, env, in)
          [] h = "clusterTLS" -> ClusterTLSProfileFails(in)
          [] h = "unsupportedArgs" -> opSpec.unsupported = NotJSON
          [] OTHER -> FALSE

(* What hook h makes of the Deployment.                                    *)
Hooked(h, d, name, env, opSpec, spec, in) ==
    LET c == ConfigOf(spec)
    IN  CASE h = "image" -> WithOperandImage(d, name, env)
          [] h = "logLevel" -> WithLogLevel(d, opSpec)
          [] h = "labels" -> WithPodLabels(d, c)
          [] h = "args" -> WithContainerArgs(d, c)
          [] h = "proxy" -> WithProxyEnv(d, env)
          [] h = "env" -> WithContainerEnv(d, c)
          [] h = "replicas" -> WithReplicas(d, c)
          [] h = "resources" -> WithContainerResources(d, c)
          [] h = "scheduling" -> MergePodScheduling(d, c)
          [] h = "caConfigMap" -> WithCAConfigMap(d, env)
          [] h = "boundToken" -> WithSABoundToken(d)
          [] h = "cloudCredentials" -> WithCloudCredentials(d, name, env, in)
          [] h = "clusterTLS" -> WithClusterTLSProfile(d, name, in)
          [] h = "metricsTLS" -> WithOperandMetricsTLS(d, name)
          [] h = "unsupportedArgs" -> WithUnsupportedArgs(d, opSpec)
          [] OTHER -> d

=============================================================================
