-------------------------- MODULE CertManager_proofs --------------------------
(***************************************************************************)
(* Proofs about the Deployment controllers of cert-manager, for every      *)
(* installation: any specs and inputs, any number of disturbances, any     *)
(* delay of the lister between the reads of a sync.                        *)
(***************************************************************************)
EXTENDS CertManager, SequenceTheorems, TLAPS

(* Absent is a value that no map or record is equal to.                    *)
AbsentIsNoObject == \A map : Absent # [x \in DOMAIN map |-> map[x]]

-----------------------------------------------------------------------------
(***************************************************************************)
(* The hooks.                                                              *)
(***************************************************************************)
FirstHooks ==
    <<"image", "logLevel", "labels", "validLabels", "args", "validArgs",
      "proxy", "env", "validEnv", "replicas", "resources", "validResources",
      "scheduling", "validScheduling", "caConfigMap", "boundToken">>

HookNames ==
    {"image", "logLevel", "labels", "validLabels", "args", "validArgs",
     "proxy", "env", "validEnv", "replicas", "resources", "validResources",
     "scheduling", "validScheduling", "caConfigMap", "boundToken",
     "cloudCredentials", "clusterTLS", "metricsTLS", "unsupportedArgs"}

LEMMA HookPositions ==
    ASSUME NEW e
    PROVE  LET h == GenericDeploymentHooks(e)
               n == IF e.infra THEN 18 ELSE 16
           IN  /\ Len(h) = n + 2
               /\ h[1] = "image" /\ h[2] = "logLevel" /\ h[3] = "labels"
               /\ h[4] = "validLabels" /\ h[5] = "args" /\ h[6] = "validArgs"
               /\ h[7] = "proxy" /\ h[8] = "env" /\ h[9] = "validEnv"
               /\ h[10] = "replicas" /\ h[11] = "resources" /\ h[12] = "validResources"
               /\ h[13] = "scheduling" /\ h[14] = "validScheduling"
               /\ h[15] = "caConfigMap" /\ h[16] = "boundToken"
               /\ e.infra => h[17] = "cloudCredentials" /\ h[18] = "clusterTLS"
               /\ h[n + 1] = "metricsTLS" /\ h[n + 2] = "unsupportedArgs"
<1> DEFINE cluster == IF e.infra THEN <<"cloudCredentials", "clusterTLS">> ELSE << >>
           last == <<"metricsTLS", "unsupportedArgs">>
           c == IF e.infra THEN 2 ELSE 0
<1>1. GenericDeploymentHooks(e) = (FirstHooks \o cluster) \o last
  BY DEF GenericDeploymentHooks, FirstHooks
<1>0. FirstHooks \in Seq(HookNames)
  <2> DEFINE S == HookNames
  <2>1. /\ "image" \in S /\ "logLevel" \in S /\ "labels" \in S /\ "validLabels" \in S
        /\ "args" \in S /\ "validArgs" \in S /\ "proxy" \in S /\ "env" \in S
        /\ "validEnv" \in S /\ "replicas" \in S /\ "resources" \in S
        /\ "validResources" \in S /\ "scheduling" \in S /\ "validScheduling" \in S
        /\ "caConfigMap" \in S /\ "boundToken" \in S
    BY DEF HookNames
  <2> HIDE DEF S
  <2>2. FirstHooks \in Seq(S)
    BY <2>1 DEF FirstHooks
  <2> QED
    BY <2>2 DEF S
<1>2. /\ Len(FirstHooks) = 16
      /\ FirstHooks[1] = "image" /\ FirstHooks[2] = "logLevel" /\ FirstHooks[3] = "labels"
      /\ FirstHooks[4] = "validLabels" /\ FirstHooks[5] = "args" /\ FirstHooks[6] = "validArgs"
      /\ FirstHooks[7] = "proxy" /\ FirstHooks[8] = "env" /\ FirstHooks[9] = "validEnv"
      /\ FirstHooks[10] = "replicas" /\ FirstHooks[11] = "resources"
      /\ FirstHooks[12] = "validResources" /\ FirstHooks[13] = "scheduling"
      /\ FirstHooks[14] = "validScheduling" /\ FirstHooks[15] = "caConfigMap"
      /\ FirstHooks[16] = "boundToken"
  <2>1. FirstHooks[1] = "image" /\ FirstHooks[2] = "logLevel" /\ FirstHooks[3] = "labels"
    BY DEF FirstHooks
  <2>2. FirstHooks[4] = "validLabels" /\ FirstHooks[5] = "args" /\ FirstHooks[6] = "validArgs"
    BY DEF FirstHooks
  <2>3. FirstHooks[7] = "proxy" /\ FirstHooks[8] = "env" /\ FirstHooks[9] = "validEnv"
    BY DEF FirstHooks
  <2>4. /\ FirstHooks[10] = "replicas" /\ FirstHooks[11] = "resources"
        /\ FirstHooks[12] = "validResources" /\ FirstHooks[13] = "scheduling"
    BY DEF FirstHooks
  <2>5. /\ FirstHooks[14] = "validScheduling" /\ FirstHooks[15] = "caConfigMap"
        /\ FirstHooks[16] = "boundToken"
    BY DEF FirstHooks
  <2>6. Len(FirstHooks) = 16
    BY DEF FirstHooks
  <2> QED
    BY <2>1, <2>2, <2>3, <2>4, <2>5, <2>6
<1>3. /\ cluster \in Seq(HookNames) /\ Len(cluster) = c /\ c \in {0, 2}
      /\ e.infra => c = 2 /\ cluster[1] = "cloudCredentials" /\ cluster[2] = "clusterTLS"
  <2>1. "cloudCredentials" \in HookNames /\ "clusterTLS" \in HookNames
    BY DEF HookNames
  <2>2. CASE e.infra
    BY <2>1, <2>2
  <2>3. CASE ~e.infra
    <3>1. cluster = << >> /\ c = 0
      BY <2>3
    <3> QED
      BY <2>3, <3>1
  <2> QED
    BY <2>2, <2>3
<1>4. /\ last \in Seq(HookNames) /\ Len(last) = 2
      /\ last[1] = "metricsTLS" /\ last[2] = "unsupportedArgs"
  BY DEF HookNames
<1>10. (IF e.infra THEN 18 ELSE 16) = 16 + c
  OBVIOUS
<1> HIDE DEF cluster, last, c
<1> DEFINE front == FirstHooks \o cluster
<1>5. /\ front \in Seq(HookNames) /\ Len(front) = 16 + c
      /\ \A i \in 1..(16 + c) : front[i] = IF i <= 16 THEN FirstHooks[i] ELSE cluster[i - 16]
  <2>1. /\ front \in Seq(HookNames) /\ Len(front) = Len(FirstHooks) + Len(cluster)
        /\ \A i \in 1..(Len(FirstHooks) + Len(cluster)) :
              front[i] = IF i <= Len(FirstHooks) THEN FirstHooks[i]
                         ELSE cluster[i - Len(FirstHooks)]
    BY <1>0, <1>3, ConcatProperties
  <2> QED
    BY <1>2, <1>3, <2>1
<1> HIDE DEF front
<1>6. /\ Len(front \o last) = 18 + c
      /\ \A i \in 1..(18 + c) :
            (front \o last)[i] = IF i <= 16 + c THEN front[i] ELSE last[i - (16 + c)]
  <2>1. /\ Len(front \o last) = Len(front) + Len(last)
        /\ \A i \in 1..(Len(front) + Len(last)) :
              (front \o last)[i] = IF i <= Len(front) THEN front[i] ELSE last[i - Len(front)]
    BY <1>4, <1>5, ConcatProperties
  <2>2. Len(front) + Len(last) = 18 + c
    BY <1>3, <1>4, <1>5
  <2> QED
    BY <1>5, <2>1, <2>2
<1>7. GenericDeploymentHooks(e) = front \o last
  BY <1>1 DEF front
<1>8. \A i \in 1..16 : GenericDeploymentHooks(e)[i] = FirstHooks[i]
  BY <1>3, <1>5, <1>6, <1>7
<1>9. e.infra => /\ GenericDeploymentHooks(e)[17] = "cloudCredentials"
                 /\ GenericDeploymentHooks(e)[18] = "clusterTLS"
  BY <1>3, <1>5, <1>6, <1>7
<1>11. /\ GenericDeploymentHooks(e)[(16 + c) + 1] = "metricsTLS"
       /\ GenericDeploymentHooks(e)[(16 + c) + 2] = "unsupportedArgs"
       /\ Len(GenericDeploymentHooks(e)) = (16 + c) + 2
  BY <1>3, <1>4, <1>6, <1>7
<1> QED
  BY <1>2, <1>8, <1>9, <1>10, <1>11


(* What each of them does, and when it fails.                              *)
LEMMA HookedFacts ==
    ASSUME NEW d, NEW n, NEW e, NEW o, NEW s, NEW i
    PROVE  LET c == ConfigOf(s)
               H(h) == Hooked(h, d, n, e, o, s, i)
           IN  /\ H("image") = WithOperandImage(d, n, e)
               /\ H("logLevel") = WithLogLevel(d, o)
               /\ H("labels") = WithPodLabels(d, c)
               /\ H("args") = WithContainerArgs(d, c)
               /\ H("proxy") = WithProxyEnv(d, e)
               /\ H("env") = WithContainerEnv(d, c)
               /\ H("replicas") = WithReplicas(d, c)
               /\ H("resources") = WithContainerResources(d, c)
               /\ H("scheduling") = MergePodScheduling(d, c)
               /\ H("caConfigMap") = WithCAConfigMap(d, e)
               /\ H("boundToken") = WithSABoundToken(d)
               /\ H("cloudCredentials") = WithCloudCredentials(d, n, e, i)
               /\ H("clusterTLS") = WithClusterTLSProfile(d, n, i)
               /\ H("metricsTLS") = WithOperandMetricsTLS(d, n)
               /\ H("unsupportedArgs") = WithUnsupportedArgs(d, o)
               /\ \A h \in {"validLabels", "validArgs", "validEnv", "validResources",
                            "validScheduling"} : H(h) = d
BY DEF Hooked

LEMMA HookFailsFacts ==
    ASSUME NEW n, NEW e, NEW o, NEW s, NEW i
    PROVE  LET c == ConfigOf(s)
               F(h) == HookFails(h, n, e, o, s, i)
           IN  /\ F("validLabels") <=> ~(DOMAIN c.overrideLabels \subseteq SupportedLabelKeys(n))
               /\ F("validArgs") <=> ~ValidContainerArgs(n, c)
               /\ F("validEnv") <=> ~(DOMAIN c.overrideEnv \subseteq SupportedEnv(n))
               /\ F("validResources") <=> ~ValidResources(c.overrideResources)
               /\ F("validScheduling") <=> ~ValidScheduling(c.overrideScheduling)
               /\ F("caConfigMap") <=> e.ca /\ ~i.ca
               /\ F("cloudCredentials") <=> CloudCredentialsFail(n, e, i)
               /\ F("clusterTLS") <=> ClusterTLSProfileFails(i)
               /\ F("unsupportedArgs") <=> o.unsupported = NotJSON
BY DEF HookFails

-----------------------------------------------------------------------------
(***************************************************************************)
(* Maps.                                                                   *)
(***************************************************************************)
LEMMA MergeFacts ==
    ASSUME NEW f, NEW g
    PROVE  /\ DOMAIN (f ++ g) = DOMAIN f \cup DOMAIN g
           /\ \A x \in DOMAIN f : (f ++ g)[x] = f[x]
           /\ \A x \in DOMAIN g : x \notin DOMAIN f => (f ++ g)[x] = g[x]
           /\ f ++ g = [x \in DOMAIN (f ++ g) |-> (f ++ g)[x]]
BY DEF ++, Merge

LEMMA EmptyMerged ==
    ASSUME NEW f, f = [x \in DOMAIN f |-> f[x]]
    PROVE  f ++ EmptyMap = f
BY DEF EmptyMap, ++, Merge

(* Every toleration has one that covers it and that the merge keeps: one   *)
(* for all keys and effects, for its effect, for its key, or itself.       *)
LEMMA TolerationsCovered ==
    ASSUME NEW T, \A t \in T : t \in [key : STRING, effect : STRING], NEW t \in T
    PROVE  \E u \in MergeTolerations({}, T) : IsSuperset(u, t)
<1> DEFINE Tol(k, e) == [key |-> k, effect |-> e]
           Kept(u) == u \in T /\ \A v \in T \ {u} : ~IsSuperset(v, u)
<1>1. t = Tol(t.key, t.effect) /\ t.key \in STRING /\ t.effect \in STRING
  OBVIOUS
<1>2. ASSUME NEW v \in T PROVE v = Tol(v.key, v.effect)
  OBVIOUS
<1>3. SUFFICES \E u \in T : Kept(u) /\ IsSuperset(u, t)
  BY DEF MergeTolerations
<1>4. ASSUME NEW v \in T, NEW u \in T, IsSuperset(v, u)
      PROVE  v \in {Tol(u.key, u.effect), Tol(Empty, u.effect), Tol(u.key, Empty), Tol(Empty, Empty)}
  BY <1>2, <1>4 DEF IsSuperset
<1>5. CASE Tol(Empty, Empty) \in T
  <2>1. Kept(Tol(Empty, Empty))
    BY <1>4, <1>5
  <2> QED
    BY <1>5, <2>1 DEF IsSuperset
<1>6. CASE Tol(Empty, Empty) \notin T /\ Tol(Empty, t.effect) \in T
  <2>1. Kept(Tol(Empty, t.effect))
    BY <1>4, <1>6
  <2> QED
    BY <1>6, <2>1 DEF IsSuperset
<1>7. CASE Tol(Empty, Empty) \notin T /\ Tol(Empty, t.effect) \notin T /\ Tol(t.key, Empty) \in T
  <2>1. Kept(Tol(t.key, Empty))
    BY <1>4, <1>7
  <2> QED
    BY <1>7, <2>1 DEF IsSuperset
<1>8. CASE /\ Tol(Empty, Empty) \notin T /\ Tol(Empty, t.effect) \notin T
           /\ Tol(t.key, Empty) \notin T
  <2>1. Kept(t)
    BY <1>1, <1>4, <1>8
  <2> QED
    BY <2>1 DEF IsSuperset
<1> QED
  BY <1>5, <1>6, <1>7, <1>8

-----------------------------------------------------------------------------
(***************************************************************************)
(* The Deployment before hook k runs, for name n, environment e, spec s    *)
(* and inputs i, all of which are the same for every hook.                 *)
(***************************************************************************)
SpecFields == {"image", "args", "env", "labels", "scheme", "replicas", "resources",
               "nodeSelector", "tolerations", "volumes"}

LastOf(e) == IF e.infra THEN 18 ELSE 16

ArgsOfImage(k, n, e) ==
    IF k > 1 /\ n = Controller
    THEN Entry("--acme-http01-solver-image", CertManagerImage(e)) ++ Manifest(n).args
    ELSE Manifest(n).args
ArgsOfLevel(k, n, e, s) ==
    IF k > 2 /\ s.logLevel \in DOMAIN LogLevels
    THEN Entry("--v", LogLevels[s.logLevel]) ++ ArgsOfImage(k, n, e)
    ELSE ArgsOfImage(k, n, e)
ArgsOfUser(k, n, e, s) ==
    IF k > 5 THEN ParseArgMap(ConfigOf(s).overrideArgs) ++ ArgsOfLevel(k, n, e, s)
    ELSE ArgsOfLevel(k, n, e, s)
ArgsOfTLS(k, n, e, s, i) ==
    IF e.infra /\ k > 18 /\ ResolveHonoredTLSProfile(i.api) # Skip
    THEN OperandTLSArgs(n, ResolveHonoredTLSProfile(i.api)) ++ ArgsOfUser(k, n, e, s)
    ELSE ArgsOfUser(k, n, e, s)
ArgsOfMetrics(k, n, e, s, i) ==
    IF k > LastOf(e) + 1 THEN OperandMetricsTLSArgs(n) ++ ArgsOfTLS(k, n, e, s, i)
    ELSE ArgsOfTLS(k, n, e, s, i)
Args(k, n, e, s, i) ==
    IF k > LastOf(e) + 2 THEN ParseArgMap(s.unsupported) ++ ArgsOfMetrics(k, n, e, s, i)
    ELSE ArgsOfMetrics(k, n, e, s, i)

Volumes(k, n, e) ==
    (IF k > 15 /\ e.ca THEN {"trusted-ca"} ELSE {})
    \cup (IF k > 16 THEN {"bound-sa-token"} ELSE {})
    \cup (IF e.infra /\ k > 17 /\ NeedsCloudCredentials(n, e) THEN {"cloud-credentials"} ELSE {})

EnvOfProxy(k, n, e) ==
    IF k > 7 THEN ReadProxyVarsFromEnv(e.vars) ++ Manifest(n).env ELSE Manifest(n).env
EnvOfUser(k, n, e, s) ==
    IF k > 8 THEN ConfigOf(s).overrideEnv ++ EnvOfProxy(k, n, e) ELSE EnvOfProxy(k, n, e)
Env(k, n, e, s, i) ==
    IF e.infra /\ k > 17 /\ NeedsCloudCredentials(n, e) /\ i.platform = "AWS"
    THEN Entry("AWS_SDK_LOAD_CONFIG", "1") ++ EnvOfUser(k, n, e, s)
    ELSE EnvOfUser(k, n, e, s)

OtherFields(k, d, n, e, s, i) ==
    LET c == ConfigOf(s)
    IN  /\ k > 1 => d.image = CertManagerImage(e)
        /\ d.labels = IF k > 3 THEN c.overrideLabels ++ Manifest(n).labels
                      ELSE Manifest(n).labels
        /\ d.env = Env(k, n, e, s, i)
        /\ d.replicas = IF k > 10 /\ c.overrideReplicas # Unset THEN c.overrideReplicas ELSE 1
        /\ d.resources = IF k > 11 THEN MergeContainerResources(NoResources, c.overrideResources)
                         ELSE NoResources
        /\ d.tolerations = IF k > 13 THEN MergeTolerations({}, c.overrideScheduling.tolerations)
                           ELSE {}
        /\ d.nodeSelector = IF k > 13
                            THEN c.overrideScheduling.nodeSelector ++ Manifest(n).nodeSelector
                            ELSE Manifest(n).nodeSelector
        /\ k > LastOf(e) + 1 => d.scheme = "https"

BuiltSoFar(k, d, n, e, s, i) ==
    /\ DOMAIN d = SpecFields
    /\ d.args = Args(k, n, e, s, i)
    /\ d.volumes = Volumes(k, n, e)
    /\ OtherFields(k, d, n, e, s, i)

(* The hooks before hook k have not failed.                                *)
PassedSoFar(k, n, e, s, i) ==
    \A j \in 1..(k - 1) : ~HookFails(GenericDeploymentHooks(e)[j], n, e, s, s, i)

LEMMA ManifestBuilt ==
    ASSUME NEW n, NEW e, NEW s, NEW i
    PROVE  BuiltSoFar(1, Manifest(n), n, e, s, i) /\ PassedSoFar(1, n, e, s, i)
<1> DEFINE m == Manifest(n)
<1>1. /\ DOMAIN m = SpecFields /\ m.replicas = 1 /\ m.tolerations = {} /\ m.volumes = {}
      /\ m.resources = NoResources
  BY DEF Manifest, SpecFields
<1> HIDE DEF m
<1>2. LastOf(e) \in {16, 18}
  BY DEF LastOf
<1>3. Args(1, n, e, s, i) = m.args
  BY <1>2 DEF m, Args, ArgsOfMetrics, ArgsOfTLS, ArgsOfUser, ArgsOfLevel, ArgsOfImage
<1>4. Volumes(1, n, e) = {}
  BY DEF Volumes
<1>5. OtherFields(1, m, n, e, s, i)
  BY <1>1, <1>2 DEF OtherFields, Env, EnvOfUser, EnvOfProxy, m
<1>6. PassedSoFar(1, n, e, s, i)
  BY DEF PassedSoFar
<1> QED
  BY <1>1, <1>3, <1>4, <1>5, <1>6 DEF BuiltSoFar, m

(* A hook that writes one field leaves the others alone.                   *)
LEMMA OneField ==
    ASSUME NEW d, DOMAIN d = SpecFields, NEW f \in SpecFields, NEW x, NEW r, r = [d EXCEPT ![f] = x]
    PROVE  DOMAIN r = SpecFields /\ r[f] = x /\ \A g \in SpecFields \ {f} : r[g] = d[g]
OBVIOUS

LEMMA SameArgs ==
    ASSUME NEW k \in 1..20, NEW n, NEW e, NEW s, NEW i,
           k \notin {1, 2, 5, LastOf(e) + 1, LastOf(e) + 2}, e.infra => k # 18
    PROVE  Args(k + 1, n, e, s, i) = Args(k, n, e, s, i)
<1>1. LastOf(e) \in {16, 18}
  BY DEF LastOf
<1>2. ArgsOfImage(k + 1, n, e) = ArgsOfImage(k, n, e)
  BY DEF ArgsOfImage
<1>3. ArgsOfLevel(k + 1, n, e, s) = ArgsOfLevel(k, n, e, s)
  BY <1>2 DEF ArgsOfLevel
<1>4. ArgsOfUser(k + 1, n, e, s) = ArgsOfUser(k, n, e, s)
  BY <1>3 DEF ArgsOfUser
<1>5. ArgsOfTLS(k + 1, n, e, s, i) = ArgsOfTLS(k, n, e, s, i)
  BY <1>4 DEF ArgsOfTLS
<1>6. ArgsOfMetrics(k + 1, n, e, s, i) = ArgsOfMetrics(k, n, e, s, i)
  BY <1>1, <1>5 DEF ArgsOfMetrics
<1> QED
  BY <1>1, <1>6 DEF Args

LEMMA SameVolumes ==
    ASSUME NEW k \in 1..20, NEW n, NEW e, k \notin {15, 16}, e.infra => k # 17
    PROVE  Volumes(k + 1, n, e) = Volumes(k, n, e)
BY DEF Volumes

LEMMA SameEnv ==
    ASSUME NEW k \in 1..20, NEW n, NEW e, NEW s, NEW i, k \notin {7, 8}, e.infra => k # 17
    PROVE  Env(k + 1, n, e, s, i) = Env(k, n, e, s, i)
<1>1. EnvOfProxy(k + 1, n, e) = EnvOfProxy(k, n, e)
  BY DEF EnvOfProxy
<1>2. EnvOfUser(k + 1, n, e, s) = EnvOfUser(k, n, e, s)
  BY <1>1 DEF EnvOfUser
<1> QED
  BY <1>2 DEF Env

LEMMA SameOthers ==
    ASSUME NEW k \in 1..20, NEW d, NEW r, NEW n, NEW e, NEW s, NEW i,
           k \notin {1, 3, 7, 8, 10, 11, 13, LastOf(e) + 1}, e.infra => k # 17,
           OtherFields(k, d, n, e, s, i),
           /\ r.image = d.image /\ r.labels = d.labels /\ r.env = d.env
           /\ r.replicas = d.replicas /\ r.tolerations = d.tolerations
           /\ r.nodeSelector = d.nodeSelector /\ r.resources = d.resources
           /\ r.scheme = d.scheme
    PROVE  OtherFields(k + 1, r, n, e, s, i)
<1>1. LastOf(e) \in {16, 18}
  BY DEF LastOf
<1> QED
  BY <1>1, SameEnv DEF OtherFields

(* Hook k does to the Deployment what it is there for.                     *)
LEMMA HookBuilds ==
    ASSUME NEW n, NEW e, NEW s, NEW i, NEW d, NEW k \in 1..(LastOf(e) + 2),
           s.logLevel \in DOMAIN LogLevels \cup {Unset}, Unset \notin DOMAIN LogLevels,
           n \in DeploymentNames,
           BuiltSoFar(k, d, n, e, s, i), PassedSoFar(k, n, e, s, i)
    PROVE  BuiltSoFar(k + 1, Hooked(GenericDeploymentHooks(e)[k], d, n, e, s, s, i), n, e, s, i)
<1> DEFINE c == ConfigOf(s)
           h == GenericDeploymentHooks(e)[k]
           r == Hooked(h, d, n, e, s, s, i)
           last == LastOf(e)
<1>0. last \in {16, 18} /\ (e.infra => last = 18) /\ (~e.infra => last = 16)
  BY DEF LastOf
<1>1. /\ DOMAIN d = SpecFields /\ d.args = Args(k, n, e, s, i) /\ d.volumes = Volumes(k, n, e)
      /\ OtherFields(k, d, n, e, s, i)
  BY DEF BuiltSoFar
<1>2. k \in 1..20
  BY <1>0
<1>3. /\ DOMAIN r = SpecFields /\ r.args = Args(k + 1, n, e, s, i)
      /\ r.volumes = Volumes(k + 1, n, e) /\ OtherFields(k + 1, r, n, e, s, i)
      => BuiltSoFar(k + 1, r, n, e, s, i)
  BY DEF BuiltSoFar
<1> HIDE DEF last, r, h
<1>4. CASE k \in {4, 6, 9, 12, 14}
  <2>1. h \in {"validLabels", "validArgs", "validEnv", "validResources", "validScheduling"}
    BY <1>4, HookPositions DEF h
  <2>2. r = d
    BY <2>1, HookedFacts DEF r
  <2>3. /\ Args(k + 1, n, e, s, i) = Args(k, n, e, s, i)
        /\ Volumes(k + 1, n, e) = Volumes(k, n, e)
    BY <1>0, <1>2, <1>4, SameArgs, SameVolumes DEF last
  <2>4. OtherFields(k + 1, d, n, e, s, i)
    BY <1>0, <1>1, <1>2, <1>4, SameOthers DEF last
  <2> QED
    BY <1>1, <1>3, <2>2, <2>3, <2>4 DEF r, h
<1>5. CASE k = 1
  <2>1. r = WithOperandImage(d, n, e)
    BY <1>5, HookPositions, HookedFacts DEF r, h
  <2>2. /\ DOMAIN r = SpecFields /\ r.image = CertManagerImage(e)
        /\ r.args = IF n = Controller
                    THEN Entry("--acme-http01-solver-image", CertManagerImage(e)) ++ d.args
                    ELSE d.args
        /\ \A g \in SpecFields \ {"image", "args"} : r[g] = d[g]
    BY <1>1, <2>1 DEF WithOperandImage, MergeContainerArgs, SpecFields
  <2>3. Args(1, n, e, s, i) = Manifest(n).args
    BY <1>0 DEF Args, ArgsOfMetrics, ArgsOfTLS, ArgsOfUser, ArgsOfLevel, ArgsOfImage, last
  <2>4. r.args = Args(2, n, e, s, i)
    BY <1>0, <1>1, <1>5, <2>2, <2>3
       DEF Args, ArgsOfMetrics, ArgsOfTLS, ArgsOfUser, ArgsOfLevel, ArgsOfImage, last
  <2>5. Volumes(2, n, e) = Volumes(1, n, e)
    BY SameVolumes
  <2>6. OtherFields(2, r, n, e, s, i)
    BY <1>0, <1>1, <1>2, <1>5, <2>2, SameEnv DEF OtherFields, SpecFields, last
  <2> QED
    BY <1>1, <1>3, <1>5, <2>2, <2>4, <2>5, <2>6 DEF r, h, SpecFields
<1>6. CASE k = 2
  <2>1. r = WithLogLevel(d, s)
    BY <1>6, HookPositions, HookedFacts DEF r, h
  <2>2. /\ DOMAIN r = SpecFields
        /\ r.args = IF s.logLevel \in DOMAIN LogLevels
                    THEN Entry("--v", LogLevels[s.logLevel]) ++ d.args ELSE d.args
        /\ \A g \in SpecFields \ {"args"} : r[g] = d[g]
    BY <1>1, <2>1 DEF WithLogLevel, MergeContainerArgs, SpecFields
  <2>3. Args(2, n, e, s, i) = ArgsOfImage(2, n, e) /\ ArgsOfImage(3, n, e) = ArgsOfImage(2, n, e)
    BY <1>0 DEF Args, ArgsOfMetrics, ArgsOfTLS, ArgsOfUser, ArgsOfLevel, ArgsOfImage, last
  <2>4. r.args = Args(3, n, e, s, i)
    BY <1>0, <1>1, <1>6, <2>2, <2>3 DEF Args, ArgsOfMetrics, ArgsOfTLS, ArgsOfUser, ArgsOfLevel, last
  <2>5. Volumes(3, n, e) = Volumes(2, n, e)
    BY SameVolumes
  <2>6. OtherFields(k + 1, r, n, e, s, i)
    BY <1>0, <1>1, <1>2, <1>6, <2>2, SameOthers DEF SpecFields, last
  <2> QED
    BY <1>1, <1>3, <1>6, <2>2, <2>4, <2>5, <2>6 DEF r, h, SpecFields
<1>7. CASE k = 3
  <2>1. r = WithPodLabels(d, c)
    BY <1>7, HookPositions, HookedFacts DEF r, h
  <2>2. /\ DOMAIN r = SpecFields /\ r.labels = c.overrideLabels ++ d.labels
        /\ \A g \in SpecFields \ {"labels"} : r[g] = d[g]
    BY <1>1, <2>1 DEF WithPodLabels, SpecFields
  <2>3. Args(4, n, e, s, i) = Args(3, n, e, s, i) /\ Volumes(4, n, e) = Volumes(3, n, e)
    BY <1>0, SameArgs, SameVolumes DEF last
  <2>4. OtherFields(4, r, n, e, s, i)
    BY <1>0, <1>1, <1>2, <1>7, <2>2, SameEnv DEF OtherFields, SpecFields, last
  <2> QED
    BY <1>1, <1>3, <1>7, <2>2, <2>3, <2>4 DEF r, h, SpecFields
<1>8. CASE k = 5
  <2>1. r = WithContainerArgs(d, c)
    BY <1>8, HookPositions, HookedFacts DEF r, h
  <2>2. /\ DOMAIN r = SpecFields /\ r.args = ParseArgMap(c.overrideArgs) ++ d.args
        /\ \A g \in SpecFields \ {"args"} : r[g] = d[g]
    BY <1>1, <2>1 DEF WithContainerArgs, MergeContainerArgs, SpecFields
  <2>3. /\ Args(5, n, e, s, i) = ArgsOfLevel(5, n, e, s)
        /\ ArgsOfLevel(6, n, e, s) = ArgsOfLevel(5, n, e, s)
    BY <1>0 DEF Args, ArgsOfMetrics, ArgsOfTLS, ArgsOfUser, ArgsOfLevel, ArgsOfImage, last
  <2>4. r.args = Args(6, n, e, s, i)
    BY <1>0, <1>1, <1>8, <2>2, <2>3 DEF Args, ArgsOfMetrics, ArgsOfTLS, ArgsOfUser, last
  <2>5. Volumes(6, n, e) = Volumes(5, n, e)
    BY SameVolumes
  <2>6. OtherFields(k + 1, r, n, e, s, i)
    BY <1>0, <1>1, <1>2, <1>8, <2>2, SameOthers DEF SpecFields, last
  <2> QED
    BY <1>1, <1>3, <1>8, <2>2, <2>4, <2>5, <2>6 DEF r, h, SpecFields
<1>9. CASE k \in {7, 8}
  <2>1. r = IF k = 7 THEN WithProxyEnv(d, e) ELSE WithContainerEnv(d, c)
    BY <1>9, HookPositions, HookedFacts DEF r, h
  <2>2. /\ DOMAIN r = SpecFields
        /\ r.env = IF k = 7 THEN ReadProxyVarsFromEnv(e.vars) ++ d.env ELSE c.overrideEnv ++ d.env
        /\ \A g \in SpecFields \ {"env"} : r[g] = d[g]
    BY <1>1, <2>1 DEF WithProxyEnv, WithContainerEnv, MergeContainerEnvs, SpecFields
  <2>3. /\ Args(k + 1, n, e, s, i) = Args(k, n, e, s, i)
        /\ Volumes(k + 1, n, e) = Volumes(k, n, e)
    BY <1>0, <1>2, <1>9, SameArgs, SameVolumes DEF last
  <2>4. d.env = Env(k, n, e, s, i)
    BY <1>1 DEF OtherFields
  <2>5. r.env = Env(k + 1, n, e, s, i)
    BY <1>9, <2>2, <2>4 DEF Env, EnvOfUser, EnvOfProxy
  <2>6. OtherFields(k + 1, r, n, e, s, i)
    BY <1>0, <1>1, <1>9, <2>2, <2>5 DEF OtherFields, SpecFields, last
  <2> QED
    BY <1>1, <1>3, <2>2, <2>3, <2>6 DEF r, h, SpecFields
<1>10. CASE k \in {10, 11, 13}
  <2>1. r = IF k = 10 THEN WithReplicas(d, c)
            ELSE IF k = 11 THEN WithContainerResources(d, c) ELSE MergePodScheduling(d, c)
    BY <1>10, HookPositions, HookedFacts DEF r, h
  <2>2. /\ Args(k + 1, n, e, s, i) = Args(k, n, e, s, i)
        /\ Volumes(k + 1, n, e) = Volumes(k, n, e)
    BY <1>0, <1>2, <1>10, SameArgs, SameVolumes DEF last
  <2>3. CASE k = 10
    <3>1. /\ DOMAIN r = SpecFields
          /\ r.replicas = IF c.overrideReplicas = Unset THEN d.replicas ELSE c.overrideReplicas
          /\ \A g \in SpecFields \ {"replicas"} : r[g] = d[g]
      BY <1>1, <2>1, <2>3 DEF WithReplicas, SpecFields
    <3>2. OtherFields(11, r, n, e, s, i)
      BY <1>0, <1>1, <1>2, <2>3, <3>1, SameEnv DEF OtherFields, SpecFields, last
    <3> QED
      BY <1>1, <1>3, <2>2, <2>3, <3>1, <3>2 DEF r, h, SpecFields
  <2>4. CASE k = 11
    <3>1. /\ DOMAIN r = SpecFields
          /\ r.resources = MergeContainerResources(d.resources, c.overrideResources)
          /\ \A g \in SpecFields \ {"resources"} : r[g] = d[g]
      BY <1>1, <2>1, <2>4 DEF WithContainerResources, SpecFields
    <3>2. OtherFields(12, r, n, e, s, i)
      BY <1>0, <1>1, <1>2, <2>4, <3>1, SameEnv DEF OtherFields, SpecFields, last
    <3> QED
      BY <1>1, <1>3, <2>2, <2>4, <3>1, <3>2 DEF r, h, SpecFields
  <2>5. CASE k = 13
    <3>1. /\ DOMAIN r = SpecFields
          /\ r.nodeSelector = c.overrideScheduling.nodeSelector ++ d.nodeSelector
          /\ r.tolerations = MergeTolerations(d.tolerations, c.overrideScheduling.tolerations)
          /\ \A g \in SpecFields \ {"nodeSelector", "tolerations"} : r[g] = d[g]
      <4> DEFINE select == c.overrideScheduling.nodeSelector ++ d.nodeSelector
                 tolerate == MergeTolerations(d.tolerations, c.overrideScheduling.tolerations)
      <4>1. r = [d EXCEPT !.nodeSelector = select, !.tolerations = tolerate]
        BY <2>1, <2>5 DEF MergePodScheduling
      <4> HIDE DEF select, tolerate
      <4>2. /\ DOMAIN r = SpecFields /\ r.nodeSelector = select /\ r.tolerations = tolerate
            /\ \A g \in SpecFields \ {"nodeSelector", "tolerations"} : r[g] = d[g]
        BY <1>1, <4>1 DEF SpecFields
      <4> QED
        BY <4>2 DEF select, tolerate
    <3>2. OtherFields(14, r, n, e, s, i)
      BY <1>0, <1>1, <1>2, <2>5, <3>1, SameEnv DEF OtherFields, SpecFields, last
    <3> QED
      BY <1>1, <1>3, <2>2, <2>5, <3>1, <3>2 DEF r, h, SpecFields
  <2> QED
    BY <1>10, <2>3, <2>4, <2>5
<1>11. CASE k \in {15, 16}
  <2>1. r = IF k = 15 THEN WithCAConfigMap(d, e) ELSE WithSABoundToken(d)
    BY <1>11, HookPositions, HookedFacts DEF r, h
  <2>2. Args(k + 1, n, e, s, i) = Args(k, n, e, s, i)
    BY <1>0, <1>2, <1>11, SameArgs DEF last
  <2>3. /\ DOMAIN r = SpecFields
        /\ r.volumes = d.volumes \cup (IF k = 16 THEN {"bound-sa-token"}
                                       ELSE IF e.ca THEN {"trusted-ca"} ELSE {})
        /\ \A g \in SpecFields \ {"volumes"} : r[g] = d[g]
    BY <1>1, <1>11, <2>1 DEF WithCAConfigMap, WithSABoundToken, SpecFields
  <2>4. r.volumes = Volumes(k + 1, n, e)
    BY <1>1, <1>11, <2>3 DEF Volumes
  <2>5. OtherFields(k + 1, r, n, e, s, i)
    BY <1>0, <1>1, <1>2, <1>11, <2>3, SameOthers DEF SpecFields, last
  <2> QED
    BY <1>1, <1>3, <2>2, <2>3, <2>4, <2>5 DEF r, h, SpecFields
<1>12. CASE e.infra /\ k = 17
  <2>1. r = WithCloudCredentials(d, n, e, i)
    BY <1>12, HookPositions, HookedFacts DEF r, h
  <2>2. Args(k + 1, n, e, s, i) = Args(k, n, e, s, i)
    BY <1>0, <1>2, <1>12, SameArgs DEF last
  <2>3. /\ DOMAIN r = SpecFields
        /\ r.volumes = d.volumes \cup (IF NeedsCloudCredentials(n, e)
                                       THEN {"cloud-credentials"} ELSE {})
        /\ r.env = IF NeedsCloudCredentials(n, e) /\ i.platform = "AWS"
                   THEN Entry("AWS_SDK_LOAD_CONFIG", "1") ++ d.env ELSE d.env
        /\ \A g \in SpecFields \ {"volumes", "env"} : r[g] = d[g]
    BY <1>1, <2>1 DEF WithCloudCredentials, SpecFields
  <2>4. r.volumes = Volumes(k + 1, n, e)
    BY <1>1, <1>12, <2>3 DEF Volumes
  <2>5. d.env = Env(k, n, e, s, i)
    BY <1>1 DEF OtherFields
  <2>6. r.env = Env(18, n, e, s, i)
    BY <1>12, <2>3, <2>5 DEF Env, EnvOfUser, EnvOfProxy
  <2>7. OtherFields(18, r, n, e, s, i)
    BY <1>0, <1>1, <1>12, <2>3, <2>6 DEF OtherFields, SpecFields, last
  <2> QED
    BY <1>1, <1>3, <1>12, <2>2, <2>3, <2>4, <2>7 DEF r, h, SpecFields
<1>13. CASE e.infra /\ k = 18
  <2> DEFINE p == ResolveHonoredTLSProfile(i.api)
             extra == OperandTLSArgs(n, p)
  <2>1. r = WithClusterTLSProfile(d, n, i)
    BY <1>13, HookPositions, HookedFacts DEF r, h
  <2>2. d.args = ArgsOfUser(18, n, e, s)
    BY <1>0, <1>1, <1>13 DEF Args, ArgsOfMetrics, ArgsOfTLS, last
  <2>3. StripArgsByKeys(d.args, CertManagerCipherSuiteArgKeys) = d.args
    <3>1. DOMAIN ParseArgMap(c.overrideArgs) \subseteq SupportedArgs(n)
      <4>1. 6 \in 1..(k - 1)
        BY <1>13
      <4>2. ~HookFails("validArgs", n, e, s, s, i)
        BY <4>1, HookPositions DEF PassedSoFar
      <4> QED
        BY <4>2, HookFailsFacts DEF ValidContainerArgs
    <3> DEFINE user == ParseArgMap(c.overrideArgs)
               image == ArgsOfImage(18, n, e)
               level == ArgsOfLevel(18, n, e, s)
               Own == {"--v", "--manifest", "--acme-http01-solver-image",
                       "--max-concurrent-challenges"}
    <3>2. DOMAIN Manifest(n).args \subseteq Own
      BY DEF Manifest, ++, Merge, Entry, EmptyMap
    <3>3. DOMAIN image \subseteq Own
      BY <3>2 DEF ArgsOfImage, Entry, ++, Merge
    <3>4. DOMAIN level \subseteq Own
      <4> HIDE DEF image
      <4>1. level \in {image, Entry("--v", LogLevels[s.logLevel]) ++ image}
        BY DEF ArgsOfLevel, image
      <4> QED
        BY <3>3, <4>1 DEF Entry, ++, Merge
    <3> HIDE DEF user, level
    <3>5. d.args = user ++ level
      BY <2>2 DEF ArgsOfUser, user, level
    <3>6. d.args = [x \in DOMAIN d.args |-> d.args[x]] /\ DOMAIN d.args = DOMAIN user \cup DOMAIN level
      BY <3>5 DEF ++, Merge
    <3>7. DOMAIN d.args \cap CertManagerCipherSuiteArgKeys = {}
      BY <3>1, <3>4, <3>6 DEF user, SupportedArgs, IntegerArgs, CertManagerCipherSuiteArgKeys
    <3>8. DOMAIN d.args \ CertManagerCipherSuiteArgKeys = DOMAIN d.args
      BY <3>7
    <3> QED
      BY <3>6, <3>8 DEF StripArgsByKeys
  <2>4. /\ DOMAIN r = SpecFields
        /\ r.args = IF p = Skip THEN d.args ELSE extra ++ d.args
        /\ \A g \in SpecFields \ {"args"} : r[g] = d[g]
    BY <1>1, <2>1, <2>3 DEF WithClusterTLSProfile, MergedTLSArgs, MergeContainerArgs, SpecFields
  <2>5. ArgsOfUser(19, n, e, s) = ArgsOfUser(18, n, e, s)
    BY DEF ArgsOfUser, ArgsOfLevel, ArgsOfImage
  <2>6. r.args = Args(19, n, e, s, i)
    BY <1>0, <1>13, <2>2, <2>4, <2>5 DEF Args, ArgsOfMetrics, ArgsOfTLS, last
  <2>7. Volumes(k + 1, n, e) = Volumes(k, n, e)
    BY <1>2, <1>13, SameVolumes
  <2>8. OtherFields(k + 1, r, n, e, s, i)
    BY <1>0, <1>1, <1>2, <1>13, <2>4, SameOthers DEF SpecFields, last
  <2> QED
    BY <1>1, <1>3, <1>13, <2>4, <2>6, <2>7, <2>8 DEF r, h, SpecFields
<1>14. CASE k = last + 1
  <2>1. r = WithOperandMetricsTLS(d, n)
    BY <1>14, HookPositions, HookedFacts DEF r, h, last, LastOf
  <2>2. /\ DOMAIN r = SpecFields
        /\ r.args = OperandMetricsTLSArgs(n) ++ d.args /\ r.scheme = "https"
        /\ \A g \in SpecFields \ {"args", "scheme"} : r[g] = d[g]
    BY <1>1, <2>1 DEF WithOperandMetricsTLS, MergeContainerArgs, SpecFields
  <2>3. /\ d.args = ArgsOfTLS(k, n, e, s, i)
        /\ Args(k + 1, n, e, s, i) = OperandMetricsTLSArgs(n) ++ ArgsOfTLS(k + 1, n, e, s, i)
    BY <1>0, <1>1, <1>14 DEF Args, ArgsOfMetrics, last
  <2>4. ArgsOfTLS(k + 1, n, e, s, i) = ArgsOfTLS(k, n, e, s, i)
    BY <1>0, <1>14 DEF ArgsOfTLS, ArgsOfUser, ArgsOfLevel, ArgsOfImage
  <2>5. Volumes(k + 1, n, e) = Volumes(k, n, e)
    BY <1>0, <1>14, SameVolumes
  <2>6. OtherFields(k + 1, r, n, e, s, i)
    BY <1>0, <1>1, <1>2, <1>14, <2>2, SameEnv DEF OtherFields, SpecFields, last
  <2> QED
    BY <1>1, <1>3, <2>2, <2>3, <2>4, <2>5, <2>6 DEF r, h, SpecFields
<1>15. CASE k = last + 2
  <2>1. r = WithUnsupportedArgs(d, s)
    BY <1>15, HookPositions, HookedFacts DEF r, h, last, LastOf
  <2>2. /\ DOMAIN r = SpecFields
        /\ r.args = ParseArgMap(s.unsupported) ++ d.args
        /\ \A g \in SpecFields \ {"args"} : r[g] = d[g]
    BY <1>1, <2>1 DEF WithUnsupportedArgs, MergeContainerArgs, SpecFields
  <2>3. /\ d.args = ArgsOfMetrics(k, n, e, s, i)
        /\ Args(k + 1, n, e, s, i) = ParseArgMap(s.unsupported) ++ ArgsOfMetrics(k + 1, n, e, s, i)
    BY <1>0, <1>1, <1>15 DEF Args, last
  <2>4. ArgsOfMetrics(k + 1, n, e, s, i) = ArgsOfMetrics(k, n, e, s, i)
    BY <1>0, <1>15 DEF ArgsOfMetrics, ArgsOfTLS, ArgsOfUser, ArgsOfLevel, ArgsOfImage, last
  <2>5. Volumes(k + 1, n, e) = Volumes(k, n, e)
    BY <1>0, <1>15, SameVolumes
  <2>6. OtherFields(k + 1, r, n, e, s, i)
    BY <1>0, <1>1, <1>2, <1>15, <2>2, SameOthers DEF SpecFields, last
  <2> QED
    BY <1>1, <1>3, <2>2, <2>3, <2>4, <2>5, <2>6 DEF r, h, SpecFields
<1>16. \/ k \in {1, 2, 3, 4, 5, 6, 7, 8, 9, 10, 11, 12, 13, 14, 15, 16}
       \/ e.infra /\ k \in {17, 18}
       \/ k \in {last + 1, last + 2}
  BY <1>0 DEF last
<1> QED
  BY <1>4, <1>5, <1>6, <1>7, <1>8, <1>9, <1>10, <1>11, <1>12, <1>13, <1>14, <1>15, <1>16 DEF r, h

(***************************************************************************)
(* Merging one layer of arguments after the other, which is what the hooks *)
(* do, takes every argument from the first layer that names it.            *)
(***************************************************************************)
LEMMA LeastIsChosen ==
    ASSUME NEW N, N \subseteq Int, NEW m \in N, \A j \in N : m <= j
    PROVE  (CHOOSE i \in N : \A j \in N : i <= j) = m
<1> DEFINE P(i) == i \in N /\ \A j \in N : i <= j
<1>1. P(m)
  OBVIOUS
<1>2. P(CHOOSE i : P(i))
  BY <1>1
<1>3. \A i : P(i) => i = m
  OBVIOUS
<1>4. (CHOOSE i \in N : \A j \in N : i <= j) = CHOOSE i : P(i)
  OBVIOUS
<1> QED
  BY <1>2, <1>3, <1>4

LEMMA LayersMerged ==
    ASSUME NEW layers, Len(layers) = 7
    PROVE  LET Naming(k) == {i \in 1..Len(layers) : k \in DOMAIN layers[i]}
               First(k) == CHOOSE i \in Naming(k) : \A j \in Naming(k) : i <= j
           IN  [k \in UNION {DOMAIN layers[i] : i \in 1..Len(layers)} |-> layers[First(k)][k]]
               = layers[1] ++ (layers[2] ++ (layers[3] ++ (layers[4] ++
                    (layers[5] ++ (layers[6] ++ layers[7])))))
<1> DEFINE L(i) == layers[i]
           Naming(k) == {i \in 1..7 : k \in DOMAIN L(i)}
           First(k) == CHOOSE i \in Naming(k) : \A j \in Naming(k) : i <= j
           U == UNION {DOMAIN L(i) : i \in 1..7}
           w == [k \in U |-> L(First(k))[k]]
           r6 == L(6) ++ L(7)
           r5 == L(5) ++ r6
           r4 == L(4) ++ r5
           r3 == L(3) ++ r4
           r2 == L(2) ++ r3
           r1 == L(1) ++ r2
<1>0. SUFFICES w = r1
  OBVIOUS
<1> HIDE DEF L
<1>1. /\ DOMAIN r6 = DOMAIN L(6) \cup DOMAIN L(7)
      /\ \A x \in DOMAIN r6 : r6[x] = IF x \in DOMAIN L(6) THEN L(6)[x] ELSE L(7)[x]
  BY DEF ++, Merge
<1> HIDE DEF r6
<1>2. /\ DOMAIN r5 = DOMAIN L(5) \cup DOMAIN r6
      /\ \A x \in DOMAIN r5 : r5[x] = IF x \in DOMAIN L(5) THEN L(5)[x] ELSE r6[x]
  BY DEF ++, Merge
<1> HIDE DEF r5
<1>3. /\ DOMAIN r4 = DOMAIN L(4) \cup DOMAIN r5
      /\ \A x \in DOMAIN r4 : r4[x] = IF x \in DOMAIN L(4) THEN L(4)[x] ELSE r5[x]
  BY DEF ++, Merge
<1> HIDE DEF r4
<1>4. /\ DOMAIN r3 = DOMAIN L(3) \cup DOMAIN r4
      /\ \A x \in DOMAIN r3 : r3[x] = IF x \in DOMAIN L(3) THEN L(3)[x] ELSE r4[x]
  BY DEF ++, Merge
<1> HIDE DEF r3
<1>5. /\ DOMAIN r2 = DOMAIN L(2) \cup DOMAIN r3
      /\ \A x \in DOMAIN r2 : r2[x] = IF x \in DOMAIN L(2) THEN L(2)[x] ELSE r3[x]
  BY DEF ++, Merge
<1> HIDE DEF r2
<1>6. /\ DOMAIN r1 = DOMAIN L(1) \cup DOMAIN r2
      /\ \A x \in DOMAIN r1 : r1[x] = IF x \in DOMAIN L(1) THEN L(1)[x] ELSE r2[x]
      /\ r1 = [x \in DOMAIN r1 |-> r1[x]]
  BY DEF ++, Merge
<1> HIDE DEF r1
<1>7. U = DOMAIN r1
  <2>1. \A i \in 1..7 : i \in {1, 2, 3, 4, 5, 6, 7}
    OBVIOUS
  <2>2. \A x : x \in U <=> \E i \in 1..7 : x \in DOMAIN L(i)
    OBVIOUS
  <2>3. U = DOMAIN L(1) \cup DOMAIN L(2) \cup DOMAIN L(3) \cup DOMAIN L(4) \cup DOMAIN L(5)
            \cup DOMAIN L(6) \cup DOMAIN L(7)
    <3> HIDE DEF U
    <3> QED
      BY <2>1, <2>2
  <2> QED
    BY <1>1, <1>2, <1>3, <1>4, <1>5, <1>6, <2>3
<1>8. ASSUME NEW x \in U, NEW m \in 1..7, x \in DOMAIN L(m),
             \A j \in 1..7 : x \in DOMAIN L(j) => m <= j
      PROVE  w[x] = L(m)[x]
  <2>1. Naming(x) \subseteq Int /\ m \in Naming(x) /\ \A j \in Naming(x) : m <= j
    BY <1>8
  <2>2. First(x) = m
    <3> HIDE DEF Naming
    <3> QED
      BY <2>1, LeastIsChosen
  <2> QED
    BY <2>2
<1>9. DOMAIN w = U
  OBVIOUS
<1>10. w = [x \in U |-> w[x]]
  OBVIOUS
<1> HIDE DEF w, U
<1>11. ASSUME NEW x \in U PROVE w[x] = r1[x]
  <2> DEFINE In(i) == x \in DOMAIN L(i)
  <2>1. CASE In(1)
    BY <1>6, <1>7, <1>8, <2>1
  <2>2. CASE ~In(1) /\ In(2)
    <3>1. w[x] = L(2)[x]
      BY <1>8, <2>2
    <3> QED
      BY <1>5, <1>6, <1>7, <2>2, <3>1
  <2>3. CASE ~In(1) /\ ~In(2) /\ In(3)
    <3>1. w[x] = L(3)[x]
      BY <1>8, <2>3
    <3> QED
      BY <1>4, <1>5, <1>6, <1>7, <2>3, <3>1
  <2>4. CASE ~In(1) /\ ~In(2) /\ ~In(3) /\ In(4)
    <3>1. w[x] = L(4)[x]
      BY <1>8, <2>4
    <3> QED
      BY <1>3, <1>4, <1>5, <1>6, <1>7, <2>4, <3>1
  <2>5. CASE ~In(1) /\ ~In(2) /\ ~In(3) /\ ~In(4) /\ In(5)
    <3>1. w[x] = L(5)[x]
      BY <1>8, <2>5
    <3> QED
      BY <1>2, <1>3, <1>4, <1>5, <1>6, <1>7, <2>5, <3>1
  <2>6. CASE ~In(1) /\ ~In(2) /\ ~In(3) /\ ~In(4) /\ ~In(5) /\ In(6)
    <3>1. w[x] = L(6)[x]
      BY <1>8, <2>6
    <3> QED
      BY <1>1, <1>2, <1>3, <1>4, <1>5, <1>6, <1>7, <2>6, <3>1
  <2>7. CASE ~In(1) /\ ~In(2) /\ ~In(3) /\ ~In(4) /\ ~In(5) /\ ~In(6)
    <3>1. In(7)
      BY <1>1, <1>2, <1>3, <1>4, <1>5, <1>6, <1>7, <2>7
    <3>2. w[x] = L(7)[x]
      BY <1>8, <2>7, <3>1
    <3> QED
      BY <1>1, <1>2, <1>3, <1>4, <1>5, <1>6, <1>7, <2>7, <3>2
  <2> QED
    BY <2>1, <2>2, <2>3, <2>4, <2>5, <2>6, <2>7
<1> QED
  BY <1>6, <1>7, <1>9, <1>10, <1>11

(* All hooks have run, with the specs and inputs that there are: the       *)
(* Deployment is the one that is asked for.                                *)
LEMMA BuiltAsAsked ==
    ASSUME NEW s, NEW d,
           s.logLevel \in DOMAIN LogLevels \cup {Unset}, Unset \notin DOMAIN LogLevels,
           \A t \in ConfigOf(s).overrideScheduling.tolerations :
                t \in [key : STRING, effect : STRING],
           BuiltSoFar(LastOf(env) + 3, d, name, env, s, in), ~Refused(s)
    PROVE  AsAsked(d, s)
<1> DEFINE c == ConfigOf(s)
           last == LastOf(env)
           k == last + 3
           L == ArgLayers(s)
<1>0. last \in {16, 18} /\ (env.infra => last = 18) /\ (~env.infra => last = 16)
  BY DEF LastOf
<1>1. /\ d.args = Args(k, name, env, s, in) /\ d.volumes = Volumes(k, name, env)
      /\ OtherFields(k, d, name, env, s, in)
  BY DEF BuiltSoFar
<1>2. d.args = WantedArgs(s)
  <2>1. Len(L) = 7
    BY DEF ArgLayers
  <2>2. /\ L[1] = ParseArgMap(s.unsupported)
        /\ L[2] = OperandMetricsTLSArgs(name)
        /\ L[3] = IF TLSSpec = Skip THEN EmptyMap ELSE OperandTLSArgs(name, TLSSpec)
        /\ L[4] = ParseArgMap(c.overrideArgs)
    BY DEF ArgLayers
  <2>3. /\ L[5] = IF s.logLevel = Unset THEN EmptyMap ELSE Entry("--v", LogLevels[s.logLevel])
        /\ L[6] = IF name = Controller
                  THEN Entry("--acme-http01-solver-image", CertManagerImage(env)) ELSE EmptyMap
        /\ L[7] = Manifest(name).args
    BY DEF ArgLayers
  <2> HIDE DEF L
  <2> DEFINE r6 == L[6] ++ L[7]
             r5 == L[5] ++ r6
             r4 == L[4] ++ r5
             r3 == L[3] ++ r4
             r2 == L[2] ++ r3
  <2>4. WantedArgs(s) = L[1] ++ r2
    BY <2>1, LayersMerged DEF WantedArgs, L
  <2>5. \A m : m = [x \in DOMAIN m |-> m[x]] => EmptyMap ++ m = m
    BY DEF EmptyMap, ++, Merge
  <2>6. Manifest(name).args = [x \in DOMAIN Manifest(name).args |-> Manifest(name).args[x]]
    BY DEF Manifest, ++, Merge
  <2>7. ArgsOfImage(k, name, env) = r6
    BY <1>0, <2>3, <2>5, <2>6 DEF ArgsOfImage
  <2>8. r6 = [x \in DOMAIN r6 |-> r6[x]]
    BY DEF ++, Merge
  <2> HIDE DEF r6
  <2>9. ArgsOfLevel(k, name, env, s) = r5
    BY <1>0, <2>3, <2>5, <2>7, <2>8 DEF ArgsOfLevel
  <2> HIDE DEF r5
  <2>10. ArgsOfUser(k, name, env, s) = r4
    BY <1>0, <2>2, <2>9 DEF ArgsOfUser
  <2>11. r4 = [x \in DOMAIN r4 |-> r4[x]]
    BY DEF ++, Merge
  <2> HIDE DEF r4
  <2>12. ArgsOfTLS(k, name, env, s, in) = r3
    BY <1>0, <2>2, <2>5, <2>10, <2>11 DEF ArgsOfTLS, TLSSpec
  <2> HIDE DEF r3
  <2>13. ArgsOfMetrics(k, name, env, s, in) = r2
    BY <1>0, <2>2, <2>12 DEF ArgsOfMetrics
  <2> HIDE DEF r2
  <2>14. Args(k, name, env, s, in) = L[1] ++ r2
    BY <1>0, <2>2, <2>13 DEF Args
  <2> QED
    BY <1>1, <2>4, <2>14
<1>3. d.volumes = WantedVolumes
  BY <1>0, <1>1 DEF Volumes, WantedVolumes, NeedsCloudCredentials
<1>4. /\ d.image = CertManagerImage(env)
      /\ d.labels = c.overrideLabels ++ Manifest(name).labels
      /\ d.scheme = "https"
      /\ d.replicas = IF c.overrideReplicas = Unset THEN 1 ELSE c.overrideReplicas
      /\ d.resources = MergeContainerResources(NoResources, c.overrideResources)
      /\ d.tolerations = MergeTolerations({}, c.overrideScheduling.tolerations)
      /\ d.nodeSelector = c.overrideScheduling.nodeSelector ++ Manifest(name).nodeSelector
  BY <1>0, <1>1 DEF OtherFields, last
<1>5. d.env = WantedEnv(c)
  <2>1. d.env = Env(k, name, env, s, in)
    BY <1>1 DEF OtherFields
  <2>2. EnvOfUser(k, name, env, s) =
            c.overrideEnv ++ (ReadProxyVarsFromEnv(env.vars) ++ Manifest(name).env)
    BY <1>0 DEF EnvOfUser, EnvOfProxy
  <2>3. "cloud-credentials" \in WantedVolumes <=> env.infra /\ NeedsCloudCredentials(name, env)
    BY DEF WantedVolumes, NeedsCloudCredentials
  <2> QED
    BY <1>0, <2>1, <2>2, <2>3 DEF Env, WantedEnv
<1>6. /\ d.resources.limits = WantedQuantities(c.overrideResources.limits)
      /\ d.resources.requests = WantedQuantities(c.overrideResources.requests)
  <2>1. ASSUME NEW q, DOMAIN q \subseteq SupportedResourceNames
        PROVE  MergeContainerResourceList(EmptyMap, q) = WantedQuantities(q)
    <3> DEFINE w == WantedQuantities(q)
    <3>1. MergeContainerResourceList(EmptyMap, q) = w ++ EmptyMap
      <4>1. SupportedResourceNames \cap DOMAIN q = DOMAIN q
        BY <2>1
      <4> QED
        BY <4>1 DEF MergeContainerResourceList, WantedQuantities
    <3>2. w = [x \in DOMAIN w |-> w[x]]
      BY DEF WantedQuantities
    <3> QED
      BY <3>1, <3>2, EmptyMerged
  <2>2. /\ DOMAIN c.overrideResources.limits \subseteq SupportedResourceNames
        /\ DOMAIN c.overrideResources.requests \subseteq SupportedResourceNames
    BY DEF Refused, ValidResources
  <2>3. /\ d.resources.limits = MergeContainerResourceList(EmptyMap, c.overrideResources.limits)
        /\ d.resources.requests = MergeContainerResourceList(EmptyMap, c.overrideResources.requests)
    BY <1>4 DEF MergeContainerResources, NoResources
  <2> QED
    BY <2>1, <2>2, <2>3
<1>7. /\ d.tolerations \subseteq c.overrideScheduling.tolerations
      /\ \A t \in c.overrideScheduling.tolerations : \E u \in d.tolerations : IsSuperset(u, t)
  BY <1>4, TolerationsCovered DEF MergeTolerations
<1> QED
  BY <1>2, <1>3, <1>4, <1>5, <1>6, <1>7 DEF AsAsked

(* None of them has failed: the configuration is not refused.              *)
LEMMA PassedNotRefused ==
    ASSUME NEW s, PassedSoFar(LastOf(env) + 3, name, env, s, in)
    PROVE  ~Refused(s)
<1> DEFINE c == ConfigOf(s)
           last == LastOf(env)
           F(h) == HookFails(h, name, env, s, s, in)
<1>0. last \in {16, 18} /\ (env.infra => last = 18) /\ (~env.infra => last = 16)
  BY DEF LastOf
<1>1. \A j \in 1..(last + 2) : ~F(GenericDeploymentHooks(env)[j])
  BY <1>0 DEF PassedSoFar
<1>2. /\ ~F("validLabels") /\ ~F("validArgs") /\ ~F("validEnv") /\ ~F("validResources")
      /\ ~F("validScheduling") /\ ~F("caConfigMap") /\ ~F("unsupportedArgs")
  <2>1. \A j \in {4, 6, 9, 12, 14, 15, last + 2} : j \in 1..(last + 2)
    BY <1>0
  <2> HIDE DEF F
  <2> QED
    BY <1>1, <2>1, HookPositions DEF LastOf
<1>3. env.infra => ~F("cloudCredentials") /\ ~F("clusterTLS")
  <2> HIDE DEF F
  <2> QED
    BY <1>0, <1>1, HookPositions
<1>4. ~Refused(s)
  <2>1. /\ s.unsupported # NotJSON /\ ValidContainerArgs(name, c)
        /\ DOMAIN c.overrideEnv \subseteq SupportedEnv(name)
        /\ DOMAIN c.overrideLabels \subseteq SupportedLabelKeys(name)
        /\ ValidResources(c.overrideResources) /\ ValidScheduling(c.overrideScheduling)
        /\ ~(env.ca /\ ~in.ca)
    BY <1>2, HookFailsFacts
  <2>2. env.infra => ~CloudCredentialsFail(name, env, in) /\ ~ClusterTLSProfileFails(in)
    BY <1>3, HookFailsFacts
  <2>3. env.infra => /\ in.api # NoAPIServer /\ TLSSpec # ProfileError
                     /\ "cloud-credentials" \in WantedVolumes
                           => in.secret /\ in.platform \in {"AWS", "GCP"}
    BY <2>2 DEF CloudCredentialsFail, ClusterTLSProfileFails, TLSSpec, WantedVolumes,
                NeedsCloudCredentials
  <2> QED
    BY <2>1, <2>3 DEF Refused
<1> QED
  BY <1>4

-----------------------------------------------------------------------------
(***************************************************************************)
(* The inductive invariant.  First the types, those of the variables that  *)
(* TypeOK does not speak of included.                                      *)
(***************************************************************************)
SyncFields == {"pc", "opSpec", "opStatus", "removing", "hook", "required", "applied", "err"}

DeploymentFields == {"spec", "specHash", "generation", "rolledOut", "available"}

IsDeployment(d) ==
    /\ DOMAIN d = DeploymentFields /\ d = [f \in DeploymentFields |-> d[f]]
    /\ d.generation \in Nat \ {0}

SyncOK ==
    /\ DOMAIN sync = SyncFields
    /\ sync.opStatus \in Statuses
    /\ sync.err \in BOOLEAN
    /\ sync.pc \in {"meta", "finalizer", "hooks"} => sync.hook \in 1..Len(Hooks)
    /\ sync.pc = "status" => IsDeployment(sync.applied)

TypeInv ==
    /\ setup \in Setups /\ disturb \in Nat /\ cmBehind \in BOOLEAN
    /\ TypeOK
    /\ deployment # Absent => IsDeployment(deployment)
    /\ SyncOK

(* A lister that is not behind has the CertManager that is there.          *)
ListerInv == ~cmBehind => cmLister = cm

(***************************************************************************)
(* As long as no Deployment was lost, a generation that was recorded is    *)
(* not one of the future, and with the generation that it records the      *)
(* Deployment has the contents its hash stands for.                        *)
(***************************************************************************)
Recorded(d, g) ==
    IF d = Absent THEN g = 0
    ELSE g <= d.generation /\ (g = d.generation => d.spec = d.specHash)

GenerationInv ==
    /\ deceived => lost
    /\ ~lost =>
        /\ cm # Absent => Recorded(deployment, cm.status.generation)
        /\ cmLister # Absent => Recorded(deployment, cmLister.status.generation)
        /\ Recorded(deployment, sync.opStatus.generation)
        /\ sync.pc = "status" => Recorded(deployment, sync.applied.generation)

(***************************************************************************)
(* Calm: nothing waits in the queue and the CertManager in the lister is   *)
(* up to date.  A sync that has been in the calm since it began has seen   *)
(* one CertManager and one set of inputs, those of the listers.            *)
(***************************************************************************)
Calm == ~queue /\ ~cmBehind

Serving(c) == c # Absent /\ ~LeftAlone(c.spec) /\ ~Removing(c)
Parting(c) == c # Absent /\ ~LeftAlone(c.spec) /\ Removing(c)

AllHooks == LastOf(env) + 3

(* The Deployment under construction, before hook k runs.                  *)
Prepared(required, k) ==
    /\ BuiltSoFar(k, required, name, env, cmLister.spec, inLister)
    /\ PassedSoFar(k, name, env, cmLister.spec, inLister)

(* The Deployment is there, as the hooks built it or an edit not noticed.  *)
Deployed(unnoticed) ==
    /\ deployment # Absent
    /\ \/ BuiltSoFar(AllHooks, deployment.spec, name, env, cmLister.spec, inLister)
       \/ unnoticed
    /\ PassedSoFar(AllHooks, name, env, cmLister.spec, inLister)

Reported ==
    /\ cmLister.status.generation = deployment.generation
    /\ cmLister.status.available = Truth(deployment.available)
    /\ cmLister.status.progressing = Truth(~deployment.rolledOut)

(* What a sync that returns no error leaves.                               *)
Done(unnoticed) ==
    /\ Serving(cmLister) => cmLister.finalizer /\ Deployed(unnoticed) /\ Reported
    /\ Parting(cmLister) => deployment = Absent /\ ~cmLister.finalizer

(* What sync x has achieved, by its next call.                             *)
Achieved(x, unnoticed) ==
    /\ x.pc \in {"meta", "finalizer"} =>
        /\ cmLister # Absent /\ ~LeftAlone(cmLister.spec) /\ ~IsRemoved(cmLister.spec)
        /\ x.opSpec = cmLister.spec /\ ~x.removing
        /\ x.hook = 1 /\ x.required = Manifest(name)
    /\ x.pc = "finalizer" => ~cmLister.deleting
    /\ x.pc = "hooks" =>
        /\ x.opSpec = cmLister.spec /\ Prepared(x.required, x.hook)
        /\ IF x.removing THEN Parting(cmLister)
           ELSE Serving(cmLister) /\ cmLister.finalizer
    /\ x.pc = "apply" =>
        Serving(cmLister) /\ cmLister.finalizer /\ Prepared(x.required, AllHooks)
    /\ x.pc = "status" =>
        /\ Serving(cmLister) /\ cmLister.finalizer
        /\ Deployed(unnoticed) /\ x.applied = deployment
    /\ x.pc \in {"delete", "unfinalize"} => Parting(cmLister)
    /\ x.pc = "unfinalize" => deployment = Absent
    /\ x.pc = "degraded" /\ ~x.err => Done(unnoticed)
    /\ x.pc = "idle" =>
        Done(unnoticed) /\ (cmLister # Absent => cmLister.status.degraded = "False")

PassInv == Achieved(sync, deceived)

CalmInv == Calm => PassInv

Inv == TypeInv /\ ListerInv /\ GenerationInv /\ CalmInv

-----------------------------------------------------------------------------
(***************************************************************************)
(* The types.                                                              *)
(***************************************************************************)
LEMMA StatusTypes ==
    /\ NoStatus \in Statuses
    /\ \A b : Truth(b) \in {"True", "False"}
    /\ \A st \in Statuses : st.generation \in Nat
    /\ \A st \in Statuses : \A b : [st EXCEPT !.degraded = Truth(b)] \in Statuses
    /\ \A st \in Statuses : \A d : d.generation \in Nat => DeploymentStatus(d, st) \in Statuses
BY DEF NoStatus, Statuses, Truth, DeploymentStatus

LEMMA CertManagerTypes ==
    /\ \A s \in Specs \cup {DefaultSpec} :
            NewCertManager(s) \in CertManagers /\ ~NewCertManager(s).deleting
    /\ \A c \in CertManagers :
        /\ c.spec \in Specs \cup {DefaultSpec} /\ c.status \in Statuses
        /\ c.deleting \in BOOLEAN /\ c.finalizer \in BOOLEAN
        /\ \A b \in BOOLEAN :
            LET x == [c EXCEPT !.finalizer = b]
            IN  x \in CertManagers /\ x.finalizer = b /\ x.deleting = c.deleting
        /\ LET x == [c EXCEPT !.deleting = TRUE]
           IN  x \in CertManagers /\ x.finalizer = c.finalizer
        /\ \A s \in Specs :
            LET x == [c EXCEPT !.spec = s]
            IN  x \in CertManagers /\ x.finalizer = c.finalizer /\ x.deleting = c.deleting
        /\ \A st \in Statuses :
            LET x == [c EXCEPT !.status = st]
            IN  x \in CertManagers /\ x.finalizer = c.finalizer /\ x.deleting = c.deleting
<1>1. NoStatus \in Statuses
  BY StatusTypes
<1> QED
  BY <1>1 DEF CertManagers, NewCertManager

LEMMA HooksLength == Len(Hooks) = LastOf(env) + 2 /\ LastOf(env) \in {16, 18}
BY HookPositions DEF Hooks, LastOf

(* What a sync may become.                                                 *)
LEMMA IdleFacts ==
    /\ DOMAIN Idle = SyncFields /\ Idle.pc = "idle" /\ Idle.opStatus = NoStatus
    /\ Idle.err = FALSE /\ Idle.removing = FALSE /\ Idle.applied = Absent
BY DEF Idle, SyncFields

LEMMA ReturnFacts ==
    ASSUME NEW err \in BOOLEAN, Return(err)
    PROVE  /\ DOMAIN sync' = SyncFields /\ sync'.pc = "degraded" /\ sync'.err = err
           /\ sync'.opStatus = NoStatus
BY IdleFacts DEF Return, SyncFields

LEMMA GotoFacts ==
    ASSUME DOMAIN sync = SyncFields, NEW pc, Goto(pc)
    PROVE  /\ DOMAIN sync' = SyncFields /\ sync'.pc = pc
           /\ \A f \in SyncFields \ {"pc"} : sync'[f] = sync[f]
BY DEF Goto, SyncFields

LEMMA StartedFacts ==
    ASSUME NEW c
    PROVE  LET x == Started(c)
           IN  /\ DOMAIN x = SyncFields /\ x.pc \in {"hooks", "meta"}
               /\ x.pc = "hooks" <=> IsRemoved(c.spec)
               /\ x.opSpec = c.spec /\ x.opStatus = c.status
               /\ x.removing = IsRemoved(c.spec) /\ x.err = FALSE
               /\ x.hook = 1 /\ x.required = Manifest(name)
<1>1. IsRemoved(c.spec) \in BOOLEAN
  BY DEF IsRemoved
<1> QED
  BY <1>1, IdleFacts DEF Started, SyncFields

LEMMA ExceptIsMap ==
    ASSUME NEW d, NEW f, NEW v, NEW x, x = [d EXCEPT ![f] = v]
    PROVE  DOMAIN x = DOMAIN d /\ x = [g \in DOMAIN d |-> x[g]]
OBVIOUS

LEMMA RolledOut ==
    ASSUME NEW d, IsDeployment(d)
    PROVE  LET x == [d EXCEPT !.rolledOut = TRUE, !.available = TRUE]
           IN  /\ IsDeployment(x) /\ x.spec = d.spec /\ x.specHash = d.specHash
               /\ x.generation = d.generation
<1> DEFINE y == [d EXCEPT !.rolledOut = TRUE]
           x == [y EXCEPT !.available = TRUE]
<1>1. /\ DOMAIN y = DeploymentFields /\ y.spec = d.spec /\ y.specHash = d.specHash
      /\ y.generation = d.generation
  BY DEF IsDeployment, DeploymentFields
<1> HIDE DEF y
<1>2. DOMAIN x = DOMAIN y /\ x = [f \in DOMAIN y |-> x[f]]
  BY ExceptIsMap
<1>3. x.spec = y.spec /\ x.specHash = y.specHash /\ x.generation = y.generation
  BY <1>1 DEF DeploymentFields
<1> HIDE DEF x
<1>4. IsDeployment(x)
  BY <1>1, <1>2, <1>3 DEF IsDeployment
<1>5. x = [d EXCEPT !.rolledOut = TRUE, !.available = TRUE]
  BY DEF x, y
<1> QED
  BY <1>1, <1>3, <1>4, <1>5

(* An edit that is noticed by the generation.                              *)
LEMMA Edited ==
    ASSUME NEW d, IsDeployment(d), NEW sp
    PROVE  LET x == [d EXCEPT !.spec = sp, !.generation = @ + 1]
           IN  IsDeployment(x) /\ x.generation = d.generation + 1
<1> DEFINE y == [d EXCEPT !.spec = sp]
           x == [y EXCEPT !.generation = d.generation + 1]
<1>1. DOMAIN y = DeploymentFields /\ y.generation = d.generation
  BY DEF IsDeployment, DeploymentFields
<1>2. x = [d EXCEPT !.spec = sp, !.generation = @ + 1]
  BY <1>1
<1> HIDE DEF y
<1>3. DOMAIN x = DOMAIN y /\ x = [f \in DOMAIN y |-> x[f]]
  BY ExceptIsMap
<1>4. x.generation = d.generation + 1
  BY <1>1 DEF DeploymentFields
<1> HIDE DEF x
<1>5. IsDeployment(x)
  BY <1>1, <1>3, <1>4 DEF IsDeployment
<1> QED
  BY <1>2, <1>4, <1>5

LEMMA AppliedFacts ==
    ASSUME deployment # Absent => IsDeployment(deployment)
    PROVE  /\ IsDeployment(Applied)
           /\ deployment = Absent =>
                /\ Applied.generation = 1 /\ Applied.spec = sync.required
                /\ Applied.specHash = sync.required
           /\ deployment # Absent =>
                \/ UpToDate(deployment) /\ Applied = deployment
                \/ /\ Applied.spec = sync.required /\ Applied.specHash = sync.required
                   /\ Applied.generation = IF deployment.spec = sync.required
                                           THEN deployment.generation
                                           ELSE deployment.generation + 1
<1>1. CASE deployment = Absent
  BY <1>1 DEF Applied, IsDeployment, DeploymentFields
<1>2. CASE deployment # Absent
  <2>1. CASE UpToDate(deployment)
    BY <1>2, <2>1 DEF Applied
  <2>2. CASE ~UpToDate(deployment) /\ deployment.spec = sync.required
    <3>1. Applied = [deployment EXCEPT !.specHash = sync.required]
      BY <1>2, <2>2 DEF Applied, Replaced
    <3>2. DOMAIN Applied = DOMAIN deployment /\ Applied = [f \in DOMAIN deployment |-> Applied[f]]
      BY <3>1, ExceptIsMap
    <3>3. /\ Applied.specHash = sync.required /\ Applied.spec = deployment.spec
          /\ Applied.generation = deployment.generation
      BY <1>2, <3>1 DEF IsDeployment, DeploymentFields
    <3> HIDE DEF Applied
    <3> QED
      BY <1>2, <2>2, <3>2, <3>3 DEF IsDeployment
  <2>3. CASE ~UpToDate(deployment) /\ deployment.spec # sync.required
    <3> DEFINE x == [deployment EXCEPT !.spec = sync.required, !.specHash = sync.required,
                                       !.generation = @ + 1]
    <3>1. Applied = [x EXCEPT !.rolledOut = FALSE]
      BY <1>2, <2>3 DEF Applied, Replaced
    <3>2. /\ DOMAIN x = DeploymentFields /\ x.spec = sync.required
          /\ x.specHash = sync.required /\ x.generation = deployment.generation + 1
      BY <1>2 DEF IsDeployment, DeploymentFields
    <3> HIDE DEF x
    <3>3. DOMAIN Applied = DOMAIN x /\ Applied = [f \in DOMAIN x |-> Applied[f]]
      BY <3>1, ExceptIsMap
    <3>4. /\ Applied.spec = x.spec /\ Applied.specHash = x.specHash
          /\ Applied.generation = x.generation
      BY <3>1, <3>2 DEF DeploymentFields
    <3> QED
      BY <1>2, <2>3, <3>2, <3>3, <3>4 DEF IsDeployment
  <2> QED
    BY <2>1, <2>2, <2>3
<1> QED
  BY <1>1, <1>2

LEMMA TypeInit == Init => TypeInv
<1> SUFFICES ASSUME Init PROVE TypeInv
  OBVIOUS
<1>1. setup \in Setups /\ disturb \in Nat /\ cmBehind \in BOOLEAN
  BY DEF Init
<1>2. SyncOK
  BY IdleFacts, StatusTypes DEF Init, SyncOK
<1>3. cm # Absent => cm \in CertManagers /\ ~cm.deleting
  BY CertManagerTypes DEF Init
<1>4. TypeOK
  BY <1>3, IdleFacts DEF Init, TypeOK
<1> QED
  BY <1>1, <1>2, <1>4 DEF TypeInv, Init

LEMMA TypeStep == TypeInv /\ [Next]_vars => TypeInv'
<1> SUFFICES ASSUME TypeInv, [Next]_vars PROVE TypeInv'
  OBVIOUS
<1> DEFINE CMOK(c) == c # Absent => c \in CertManagers /\ (c.deleting => c.finalizer)
           SOK(x) == /\ DOMAIN x = SyncFields /\ x.opStatus \in Statuses /\ x.err \in BOOLEAN
                     /\ x.pc \in {"meta", "finalizer", "hooks"} => x.hook \in 1..Len(Hooks)
                     /\ x.pc = "status" => IsDeployment(x.applied)
           DOK(d) == d # Absent => IsDeployment(d)
<1>1. /\ setup \in Setups /\ CMOK(cm) /\ (cmLister # Absent => cmLister \in CertManagers)
      /\ in \in Inputs /\ inLister \in Inputs
      /\ queue \in BOOLEAN /\ lost \in BOOLEAN /\ deceived \in BOOLEAN /\ cmBehind \in BOOLEAN
      /\ disturb \in Nat /\ DOK(deployment) /\ SOK(sync)
  BY DEF TypeInv, TypeOK, SyncOK
<1>2. ASSUME setup' = setup, CMOK(cm'), cmLister' # Absent => cmLister' \in CertManagers,
             in' \in Inputs, inLister' \in Inputs,
             queue' \in BOOLEAN, lost' \in BOOLEAN, deceived' \in BOOLEAN, cmBehind' \in BOOLEAN,
             disturb' \in Nat, DOK(deployment'), SOK(sync')
      PROVE  TypeInv'
  <2>1. /\ CertManagers' = CertManagers /\ Inputs' = Inputs /\ Hooks' = Hooks
        /\ Statuses' = Statuses
    BY <1>2 DEF CertManagers, Statuses, Inputs, Hooks, Specs, env, DefaultSpec
  <2>2. SyncOK'
    BY <1>2, <2>1 DEF SyncOK, IsDeployment
  <2>3. deployment' # Absent => deployment'.generation >= 1
    BY <1>2 DEF IsDeployment
  <2>4. TypeOK'
    BY <1>2, <2>1, <2>3 DEF TypeOK
  <2> QED
    BY <1>2, <2>2, <2>4 DEF TypeInv, IsDeployment
<1> HIDE DEF CMOK, SOK, DOK
<1>3. SOK(Idle)
  BY IdleFacts, StatusTypes DEF SOK
<1>4. ASSUME NEW err \in BOOLEAN, Return(err) PROVE SOK(sync')
  BY <1>4, ReturnFacts, StatusTypes DEF SOK
<1>5. ASSUME NEW c, WriteCertManager(c) PROVE cm' = c /\ cmBehind' \in BOOLEAN
  BY <1>1, <1>5 DEF WriteCertManager
<1>6. \A b : Truth(b) \in {"True", "False"}
  BY StatusTypes
<1>7. ASSUME cm # Absent PROVE cm \in CertManagers /\ cm.status \in Statuses /\ (cm.deleting => cm.finalizer)
  BY <1>1, <1>7, CertManagerTypes DEF CMOK
<1>8. CASE DeliverCertManager
  BY <1>1, <1>2, <1>7, <1>8 DEF DeliverCertManager, history
<1>9. CASE DeliverInputs
  BY <1>1, <1>2, <1>9 DEF DeliverInputs, history
<1>10. CASE Resync
  BY <1>1, <1>2, <1>10 DEF Resync, history
<1>11. CASE GetOperatorState
  <2>1. SOK(sync')
    <3>1. CASE cmLister = Absent \/ LeftAlone(cmLister.spec)
      BY <1>4, <1>11, <3>1 DEF GetOperatorState
    <3>2. CASE ~(cmLister = Absent \/ LeftAlone(cmLister.spec))
      <4>1. sync' = Started(cmLister)
        BY <1>11, <3>2 DEF GetOperatorState
      <4>2. cmLister.status \in Statuses
        BY <1>1, <3>2, CertManagerTypes
      <4>3. 1 \in 1..Len(Hooks)
        BY HooksLength
      <4> QED
        BY <4>1, <4>2, <4>3, StartedFacts DEF SOK
    <3> QED
      BY <3>1, <3>2
  <2> QED
    BY <1>1, <1>2, <1>11, <2>1 DEF GetOperatorState, Outside, history
<1>12. CASE GetObjectMeta
  <2>1. SOK(sync')
    <3>1. CASE cmLister = Absent
      BY <1>4, <1>12, <3>1 DEF GetObjectMeta
    <3>2. CASE cmLister # Absent /\ cmLister.deleting
      BY <1>1, <1>12, <3>2 DEF GetObjectMeta, SOK, SyncFields
    <3>3. CASE cmLister # Absent /\ ~cmLister.deleting
      BY <1>1, <1>12, <3>3 DEF GetObjectMeta, Goto, SOK, SyncFields
    <3> QED
      BY <3>1, <3>2, <3>3
  <2> QED
    BY <1>1, <1>2, <1>12, <2>1 DEF GetObjectMeta, Outside, history
<1>13. CASE EnsureFinalizer
  <2>1. SOK(sync')
    <3>1. CASE Return(TRUE)
      BY <1>4, <3>1
    <3>2. CASE Goto("hooks")
      BY <1>1, <1>13, <3>2 DEF EnsureFinalizer, Goto, SOK, SyncFields
    <3> QED
      BY <1>13, <3>1, <3>2 DEF EnsureFinalizer
  <2>2. CMOK(cm') /\ cmBehind' \in BOOLEAN
    <3>1. CASE KeepCertManager
      BY <1>1, <3>1 DEF KeepCertManager
    <3>2. CASE cmLister # Absent /\ SaveFinalizer(TRUE)
      <4> DEFINE x == [cmLister EXCEPT !.finalizer = TRUE]
      <4>1. cm' = x /\ cmBehind' \in BOOLEAN
        BY <1>5, <3>2 DEF SaveFinalizer
      <4>2. x \in CertManagers /\ x.finalizer = TRUE
        BY <1>1, <3>2, CertManagerTypes
      <4> HIDE DEF x
      <4> QED
        BY <4>1, <4>2 DEF CMOK
    <3> QED
      BY <1>13, <3>1, <3>2 DEF EnsureFinalizer
  <2> QED
    BY <1>1, <1>2, <1>13, <2>1, <2>2 DEF EnsureFinalizer, Outside, history
<1>14. CASE FinalizerConflict
  BY <1>1, <1>2, <1>4, <1>14 DEF FinalizerConflict, Outside, history
<1>15. CASE RunHook
  <2>1. SOK(sync')
    <3>1. CASE Return(TRUE)
      BY <1>4, <3>1
    <3>2. CASE ~Return(TRUE)
      <4>1. PICK r : sync' = [sync EXCEPT !.required = r, !.hook = @ + 1, !.pc = AfterHook(sync.hook)]
        BY <1>15, <3>2 DEF RunHook
      <4>2. /\ DOMAIN sync' = SyncFields /\ sync'.hook = sync.hook + 1
            /\ sync'.pc = AfterHook(sync.hook)
            /\ sync'.opStatus = sync.opStatus /\ sync'.err = sync.err
        BY <1>1, <4>1 DEF SOK, SyncFields
      <4>3. sync.hook \in 1..Len(Hooks) /\ Len(Hooks) \in Nat
        BY <1>1, <1>15, HooksLength DEF RunHook, SOK
      <4>4. /\ AfterHook(sync.hook) \in {"hooks", "delete", "apply"}
            /\ AfterHook(sync.hook) = "hooks" => sync.hook + 1 \in 1..Len(Hooks)
        BY <4>3 DEF AfterHook
      <4> QED
        BY <1>1, <4>2, <4>4 DEF SOK
    <3> QED
      BY <3>1, <3>2
  <2> QED
    BY <1>1, <1>2, <1>15, <2>1 DEF RunHook, Outside, history
<1>16. CASE ApplyDeployment
  <2>1. IsDeployment(Applied)
    BY <1>1, AppliedFacts DEF DOK
  <2>2. SOK(sync')
    <3>1. sync' = [Idle EXCEPT !.pc = "status", !.opStatus = sync.opStatus, !.applied = Applied]
      BY <1>16 DEF ApplyDeployment
    <3>2. /\ DOMAIN sync' = SyncFields /\ sync'.pc = "status" /\ sync'.opStatus = sync.opStatus
          /\ sync'.applied = Applied /\ sync'.err = FALSE
      BY <3>1, IdleFacts DEF SyncFields
    <3> QED
      BY <1>1, <2>1, <3>2 DEF SOK
  <2>3. DOK(deployment')
    BY <1>16, <2>1 DEF ApplyDeployment, DOK
  <2>4. queue' \in BOOLEAN /\ deceived' \in BOOLEAN
    BY <1>1, <1>16 DEF ApplyDeployment, Deceived
  <2> QED
    BY <1>1, <1>2, <1>16, <2>2, <2>3, <2>4 DEF ApplyDeployment, Outside, history
<1>17. CASE ApplyStatus
  <2>1. SOK(sync')
    BY <1>4, <1>17 DEF ApplyStatus
  <2>2. CMOK(cm') /\ cmBehind' \in BOOLEAN
    <3>1. CASE cm = Absent
      BY <1>1, <1>17, <3>1 DEF ApplyStatus, KeepCertManager
    <3>2. CASE cm # Absent
      <4> DEFINE st == DeploymentStatus(sync.applied, cm.status)
                 x == [cm EXCEPT !.status = st]
      <4>1. cm' = x /\ cmBehind' \in BOOLEAN
        BY <1>5, <1>17, <3>2 DEF ApplyStatus
      <4>2. sync.applied.generation \in Nat
        BY <1>1, <1>17 DEF ApplyStatus, SOK, IsDeployment
      <4>3. st \in Statuses
        BY <1>7, <3>2, <4>2, StatusTypes
      <4> HIDE DEF st
      <4>4. x \in CertManagers /\ x.finalizer = cm.finalizer /\ x.deleting = cm.deleting
        BY <1>7, <3>2, <4>3, CertManagerTypes
      <4> HIDE DEF x
      <4> QED
        BY <1>7, <3>2, <4>1, <4>4 DEF CMOK
    <3> QED
      BY <3>1, <3>2
  <2> QED
    BY <1>1, <1>2, <1>17, <2>1, <2>2 DEF ApplyStatus, Outside, history
<1>18. CASE DeleteDeployment
  <2>1. SOK(sync')
    BY <1>1, <1>18, GotoFacts DEF DeleteDeployment, SOK, SyncFields
  <2>2. DOK(deployment') /\ queue' \in BOOLEAN /\ lost' \in BOOLEAN
    BY <1>1, <1>18 DEF DeleteDeployment, DOK
  <2> QED
    BY <1>1, <1>2, <1>18, <2>1, <2>2 DEF DeleteDeployment, Outside
<1>19. CASE RemoveFinalizer
  <2>1. SOK(sync')
    BY <1>4, <1>19 DEF RemoveFinalizer
  <2>2. CMOK(cm') /\ cmBehind' \in BOOLEAN
    <3>1. CASE KeepCertManager
      BY <1>1, <3>1 DEF KeepCertManager
    <3>2. CASE cmLister # Absent /\ SaveFinalizer(FALSE)
      <4> DEFINE x == [cmLister EXCEPT !.finalizer = FALSE]
      <4>1. cm' = (IF cmLister.deleting THEN Absent ELSE x) /\ cmBehind' \in BOOLEAN
        BY <1>5, <3>2 DEF SaveFinalizer
      <4>2. x \in CertManagers /\ x.deleting = cmLister.deleting
        BY <1>1, <3>2, CertManagerTypes
      <4> HIDE DEF x
      <4> QED
        BY <4>1, <4>2 DEF CMOK
    <3> QED
      BY <1>19, <3>1, <3>2 DEF RemoveFinalizer
  <2> QED
    BY <1>1, <1>2, <1>19, <2>1, <2>2 DEF RemoveFinalizer, Outside, history
<1>20. CASE ReportDegraded
  <2>1. CMOK(cm') /\ cmBehind' \in BOOLEAN
    <3>1. CASE cm = Absent
      BY <1>5, <1>20, <3>1 DEF ReportDegraded, CMOK
    <3>2. CASE cm # Absent
      <4> DEFINE st == [cm.status EXCEPT !.degraded = Truth(sync.err)]
                 x == [cm EXCEPT !.status = st]
      <4>1. cm' = x /\ cmBehind' \in BOOLEAN
        BY <1>5, <1>20, <3>2 DEF ReportDegraded
      <4>2. st \in Statuses
        BY <1>7, <3>2, StatusTypes
      <4> HIDE DEF st
      <4>3. x \in CertManagers /\ x.finalizer = cm.finalizer /\ x.deleting = cm.deleting
        BY <1>7, <3>2, <4>2, CertManagerTypes
      <4> HIDE DEF x
      <4> QED
        BY <1>7, <3>2, <4>1, <4>3 DEF CMOK
    <3> QED
      BY <3>1, <3>2
  <2>2. SOK(sync') /\ queue' \in BOOLEAN
    BY <1>1, <1>3, <1>20 DEF ReportDegraded, Retries, SOK
  <2> QED
    BY <1>1, <1>2, <1>20, <2>1, <2>2 DEF ReportDegraded, Outside, history
<1>21. CASE ProgressingTooLong
  <2>1. disturb' \in Nat
    BY <1>1, <1>21 DEF ProgressingTooLong
  <2> QED
    BY <1>1, <1>2, <1>4, <1>21, <2>1 DEF ProgressingTooLong, Outside, history
<1>22. CASE CallFails
  <2>1. disturb' \in Nat
    BY <1>1, <1>22 DEF CallFails
  <2>2. SOK(sync') /\ queue' \in BOOLEAN
    BY <1>1, <1>3, <1>4, <1>22 DEF CallFails
  <2> QED
    BY <1>1, <1>2, <1>22, <2>1, <2>2 DEF CallFails, Outside, history
<1>23. CASE CreateDefaultCertManager
  <2>1. CMOK(NewCertManager(DefaultSpec))
    BY CertManagerTypes DEF CMOK
  <2>2. CMOK(cm') /\ cmBehind' \in BOOLEAN
    BY <1>1, <1>5, <1>23, <2>1 DEF CreateDefaultCertManager, Created
  <2> QED
    BY <1>1, <1>2, <1>23, <2>2 DEF CreateDefaultCertManager, Outside, history
<1>24. CASE Rollout
  <2>1. DOK(deployment')
    BY <1>1, <1>24, RolledOut DEF Rollout, DOK
  <2> QED
    BY <1>1, <1>2, <1>24, <2>1 DEF Rollout, Outside, history
<1>25. CASE UserWrites
  <2>1. CMOK(cm') /\ cmBehind' \in BOOLEAN
    <3>1. PICK s \in Specs : WriteCertManager(IF cm = Absent THEN NewCertManager(s)
                                              ELSE [cm EXCEPT !.spec = s])
      BY <1>25 DEF UserWrites
    <3>2. CASE cm = Absent
      <4>1. NewCertManager(s) \in CertManagers /\ ~NewCertManager(s).deleting
        BY CertManagerTypes
      <4> QED
        BY <1>5, <3>1, <3>2, <4>1 DEF CMOK
    <3>3. CASE cm # Absent
      <4> DEFINE x == [cm EXCEPT !.spec = s]
      <4>1. cm' = x /\ cmBehind' \in BOOLEAN
        BY <1>5, <3>1, <3>3
      <4>2. x \in CertManagers /\ x.finalizer = cm.finalizer /\ x.deleting = cm.deleting
        BY <1>7, <3>3, CertManagerTypes
      <4> HIDE DEF x
      <4> QED
        BY <1>7, <3>3, <4>1, <4>2 DEF CMOK
    <3> QED
      BY <3>2, <3>3
  <2>2. disturb' \in Nat
    BY <1>1, <1>25 DEF UserWrites, Disturb
  <2> QED
    BY <1>1, <1>2, <1>25, <2>1, <2>2 DEF UserWrites, Outside, history
<1>26. CASE UserDeletes
  <2>1. CMOK(cm') /\ cmBehind' \in BOOLEAN
    <3> DEFINE x == [cm EXCEPT !.deleting = TRUE]
    <3>1. cm # Absent /\ cm' = (IF cm.finalizer THEN x ELSE Absent) /\ cmBehind' \in BOOLEAN
      BY <1>5, <1>26 DEF UserDeletes
    <3>2. x \in CertManagers /\ x.finalizer = cm.finalizer
      BY <1>7, <3>1, CertManagerTypes
    <3> HIDE DEF x
    <3> QED
      BY <3>1, <3>2 DEF CMOK
  <2>2. disturb' \in Nat
    BY <1>1, <1>26 DEF UserDeletes, Disturb
  <2> QED
    BY <1>1, <1>2, <1>26, <2>1, <2>2 DEF UserDeletes, Outside, history
<1>27. CASE InputsChange
  <2>1. disturb' \in Nat
    BY <1>1, <1>27 DEF InputsChange, Disturb
  <2> QED
    BY <1>1, <1>2, <1>27, <2>1 DEF InputsChange, history
<1>28. CASE Drift
  <2>1. disturb' \in Nat /\ lost' \in BOOLEAN
    BY <1>1, <1>28 DEF Drift, Disturb
  <2>2. DOK(deployment')
    <3>1. CASE deployment' = Absent
      BY <3>1 DEF DOK
    <3>2. CASE deployment' # Absent
      <4>1. PICK sp : deployment' = [deployment EXCEPT !.spec = sp, !.generation = @ + 1]
        BY <1>28, <3>2 DEF Drift
      <4>2. IsDeployment(deployment)
        BY <1>1, <1>28 DEF Drift, DOK
      <4> QED
        BY <4>1, <4>2, Edited DEF DOK
    <3> QED
      BY <3>1, <3>2
  <2> QED
    BY <1>1, <1>2, <1>28, <2>1, <2>2 DEF Drift, Outside
<1>29. CASE Restart
  <2>1. disturb' \in Nat
    BY <1>1, <1>29 DEF Restart, Disturb
  <2> QED
    BY <1>1, <1>2, <1>3, <1>7, <1>29, <2>1 DEF Restart, history
<1>30. CASE UNCHANGED vars
  BY <1>1, <1>2, <1>30 DEF vars, history
<1> QED
  BY <1>8, <1>9, <1>10, <1>11, <1>12, <1>13, <1>14, <1>15, <1>16, <1>17, <1>18, <1>19, <1>20,
     <1>21, <1>22, <1>23, <1>24, <1>25, <1>26, <1>27, <1>28, <1>29, <1>30 DEF Next, Sync

(***************************************************************************)
(* The type invariant holds for every installation, whatever the delays of *)
(* the listers and the number of disturbances: the next hook of a sync     *)
(* exists, and a CertManager being deleted has its finalizer.              *)
(***************************************************************************)
THEOREM TypeCorrect == Spec => []TypeOK
<1>1. Spec => []TypeInv
  BY TypeInit, TypeStep, PTL DEF Spec
<1>2. TypeInv => TypeOK
  BY DEF TypeInv
<1> QED
  BY <1>1, <1>2, PTL

-----------------------------------------------------------------------------
(***************************************************************************)
(* The CertManager and its copy in the lister.                             *)
(***************************************************************************)
LEMMA NoObjectIsAbsent ==
    ASSUME AbsentIsNoObject
    PROVE  /\ \A d : IsDeployment(d) => d # Absent
           /\ Absent \notin CertManagers
<1>1. ASSUME NEW d, IsDeployment(d) PROVE d # Absent
  BY <1>1 DEF AbsentIsNoObject, IsDeployment
<1>2. ASSUME Absent \in CertManagers PROVE FALSE
  <2>1. Absent = [f \in DOMAIN Absent |-> Absent[f]]
    BY <1>2 DEF CertManagers
  <2> QED
    BY <2>1 DEF AbsentIsNoObject
<1> QED
  BY <1>1, <1>2

LEMMA ListerStep == ListerInv /\ [Next]_vars => ListerInv'
<1> SUFFICES ASSUME ListerInv, [Next]_vars PROVE ListerInv'
  OBVIOUS
<1>1. ASSUME NEW c, WriteCertManager(c), cmLister' = cmLister PROVE ListerInv'
  BY <1>1 DEF ListerInv, WriteCertManager
<1>2. ASSUME UNCHANGED <<cm, cmBehind, cmLister>> PROVE ListerInv'
  BY <1>2 DEF ListerInv
<1>3. CASE DeliverCertManager \/ Restart
  BY <1>3 DEF DeliverCertManager, Restart, ListerInv
<1>4. CASE \/ DeliverInputs \/ Resync \/ GetOperatorState \/ GetObjectMeta
           \/ FinalizerConflict \/ RunHook \/ ApplyDeployment \/ DeleteDeployment
  BY <1>2, <1>4 DEF DeliverInputs, Resync, GetOperatorState, GetObjectMeta, FinalizerConflict,
                    RunHook, ApplyDeployment, DeleteDeployment, Outside
<1>5. CASE ProgressingTooLong \/ CallFails \/ Rollout \/ InputsChange \/ Drift \/ UNCHANGED vars
  BY <1>2, <1>5 DEF ProgressingTooLong, CallFails, Rollout, InputsChange, Drift, vars, Outside
<1>6. CASE EnsureFinalizer \/ RemoveFinalizer \/ ApplyStatus
  BY <1>1, <1>2, <1>6 DEF EnsureFinalizer, RemoveFinalizer, ApplyStatus, KeepCertManager,
                          SaveFinalizer, Outside
<1>7. CASE ReportDegraded \/ CreateDefaultCertManager \/ UserWrites \/ UserDeletes
  <2>1. CASE ReportDegraded
    BY <1>1, <2>1 DEF ReportDegraded, Outside
  <2>2. CASE CreateDefaultCertManager
    BY <1>1, <2>2 DEF CreateDefaultCertManager, Outside
  <2>3. CASE UserWrites
    <3>1. PICK c : WriteCertManager(c)
      BY <2>3 DEF UserWrites
    <3> QED
      BY <1>1, <2>3, <3>1 DEF UserWrites, Outside
  <2>4. CASE UserDeletes
    BY <1>1, <2>4 DEF UserDeletes, Outside
  <2> QED
    BY <1>7, <2>1, <2>2, <2>3, <2>4
<1> QED
  BY <1>3, <1>4, <1>5, <1>6, <1>7 DEF Next, Sync

LEMMA ListerInit == Init => ListerInv
BY DEF Init, ListerInv

(***************************************************************************)
(* Only a user changes the spec of a CertManager: the finalizer updates    *)
(* send the object of the lister, but only when it is the object that is   *)
(* there, and the status updates send the spec they found.                 *)
(***************************************************************************)
LEMMA SpecStep ==
    ASSUME TypeInv, ListerInv, [Next]_vars, cm # Absent, cm' # Absent, disturb' = disturb
    PROVE  cm'.spec = cm.spec
<1>1. cm \in CertManagers /\ disturb \in Nat
  BY DEF TypeInv, TypeOK
<1>2. "spec" \in DOMAIN cm
  BY <1>1 DEF CertManagers
<1>3. ASSUME NEW c, WriteCertManager(c) PROVE cm' = c
  BY <1>3 DEF WriteCertManager
<1>4. CASE \/ DeliverCertManager \/ DeliverInputs \/ Resync \/ GetOperatorState \/ GetObjectMeta
           \/ FinalizerConflict \/ RunHook \/ ApplyDeployment \/ DeleteDeployment \/ Rollout
           \/ UNCHANGED vars
  <2>1. DeliverCertManager \/ DeliverInputs \/ Resync \/ Rollout => cm' = cm
    BY DEF DeliverCertManager, DeliverInputs, Resync, Rollout
  <2>2. GetOperatorState \/ GetObjectMeta \/ FinalizerConflict => cm' = cm
    BY DEF GetOperatorState, GetObjectMeta, FinalizerConflict
  <2>3. RunHook => cm' = cm
    BY DEF RunHook
  <2>4. ApplyDeployment \/ DeleteDeployment \/ UNCHANGED vars => cm' = cm
    BY DEF ApplyDeployment, DeleteDeployment, vars
  <2> QED
    BY <1>4, <2>1, <2>2, <2>3, <2>4
<1>5. CASE \/ ProgressingTooLong \/ CallFails \/ UserWrites \/ UserDeletes \/ InputsChange
           \/ Drift \/ Restart
  <2>1. disturb' = disturb + 1
    BY <1>5 DEF ProgressingTooLong, CallFails, UserWrites, UserDeletes, InputsChange,
                Drift, Restart, Disturb
  <2> QED
    BY <1>1, <2>1
<1>6. CASE EnsureFinalizer \/ RemoveFinalizer
  <2>1. CASE KeepCertManager
    BY <2>1 DEF KeepCertManager
  <2>2. CASE ~cmBehind /\ \E on \in BOOLEAN : SaveFinalizer(on)
    <3>1. PICK on \in BOOLEAN : SaveFinalizer(on)
      BY <2>2
    <3>2. cmLister = cm
      BY <2>2 DEF ListerInv
    <3>3. cm' = [cm EXCEPT !.finalizer = on]
      BY <1>3, <3>1, <3>2 DEF SaveFinalizer
    <3> QED
      BY <1>2, <3>3
  <2> QED
    BY <1>6, <2>1, <2>2 DEF EnsureFinalizer, RemoveFinalizer, Conflicts
<1>7. CASE ApplyStatus
  <2>1. PICK st : cm' = [cm EXCEPT !.status = st]
    BY <1>3, <1>7 DEF ApplyStatus
  <2> QED
    BY <1>2, <2>1
<1>8. CASE ReportDegraded
  <2>1. PICK st : cm' = [cm EXCEPT !.status = st]
    BY <1>3, <1>8 DEF ReportDegraded
  <2> QED
    BY <1>2, <2>1
<1>9. CASE CreateDefaultCertManager
  BY <1>3, <1>9 DEF CreateDefaultCertManager, Created
<1> QED
  BY <1>4, <1>5, <1>6, <1>7, <1>8, <1>9 DEF Next, Sync

(***************************************************************************)
(* SpecIsTheUsers, for every installation: no step of a controller, and    *)
(* none of the one that creates the default CertManager, changes the spec  *)
(* of a CertManager (saveFinalizers sends the whole object).               *)
(***************************************************************************)
THEOREM SpecKept == Spec => SpecIsTheUsers
<1>1. Spec => [](TypeInv /\ ListerInv)
  BY TypeInit, TypeStep, ListerInit, ListerStep, PTL DEF Spec
<1>2. TypeInv /\ ListerInv /\ [Next]_vars =>
        [ cm # Absent /\ cm' # Absent /\ cm'.spec # cm.spec => disturb' # disturb ]_vars
  BY SpecStep
<1>3. Spec => [][Next]_vars
  BY PTL DEF Spec
<1> QED
  BY <1>1, <1>2, <1>3, PTL DEF SpecIsTheUsers

-----------------------------------------------------------------------------
(***************************************************************************)
(* The Deployment and the generations recorded of it.                      *)
(***************************************************************************)
Same(d, e) ==
    e.generation = d.generation /\ e.spec = d.spec /\ e.specHash \in {d.specHash, d.spec}

LEMMA DeploymentSteps ==
    ASSUME AbsentIsNoObject, TypeInv, [Next]_vars
    PROVE  /\ lost => lost'
           /\ \/ deployment' = deployment
              \/ deployment # Absent /\ deployment' = Absent /\ lost'
              \/ /\ deployment # Absent /\ deployment' # Absent
                 /\ \/ deployment'.generation = deployment.generation + 1
                    \/ Same(deployment, deployment')
              \/ /\ deployment = Absent /\ deployment' # Absent
                 /\ deployment'.generation = 1 /\ deployment'.spec = deployment'.specHash
<1>1. deployment # Absent => IsDeployment(deployment)
  BY DEF TypeInv
<1>2. CASE ApplyDeployment
  <2>1. deployment' = Applied /\ lost' = lost
    BY <1>2 DEF ApplyDeployment
  <2>2. Applied # Absent
    BY <1>1, AppliedFacts, NoObjectIsAbsent
  <2> HIDE DEF Applied
  <2>3. CASE deployment = Absent
    BY <1>1, <2>1, <2>2, <2>3, AppliedFacts
  <2>4. CASE deployment # Absent
    BY <1>1, <2>1, <2>2, <2>4, AppliedFacts DEF Same
  <2> QED
    BY <2>3, <2>4
<1>3. CASE DeleteDeployment
  BY <1>3 DEF DeleteDeployment
<1>4. CASE Rollout
  <2>1. /\ IsDeployment(deployment') /\ deployment'.spec = deployment.spec
        /\ deployment'.specHash = deployment.specHash
        /\ deployment'.generation = deployment.generation
        /\ deployment # Absent /\ lost' = lost
    BY <1>1, <1>4, RolledOut DEF Rollout, history
  <2>2. deployment' # Absent
    BY <2>1, NoObjectIsAbsent
  <2> QED
    BY <2>1, <2>2 DEF Same
<1>5. CASE Drift
  <2>1. deployment # Absent /\ (lost => lost') /\ (deployment' = Absent => lost')
    BY <1>5 DEF Drift
  <2>2. CASE deployment' # Absent
    <3>1. PICK sp : deployment' = [deployment EXCEPT !.spec = sp, !.generation = @ + 1]
      BY <1>5, <2>2 DEF Drift
    <3>2. deployment'.generation = deployment.generation + 1
      BY <1>1, <2>1, <3>1, Edited
    <3> QED
      BY <2>1, <2>2, <3>2
  <2> QED
    BY <2>1, <2>2
<1>6. DeliverCertManager \/ DeliverInputs \/ Resync => UNCHANGED <<deployment, lost>>
  BY DEF DeliverCertManager, DeliverInputs, Resync, history
<1>7. GetOperatorState \/ GetObjectMeta \/ FinalizerConflict => UNCHANGED <<deployment, lost>>
  BY DEF GetOperatorState, GetObjectMeta, FinalizerConflict, history
<1>8. EnsureFinalizer \/ RemoveFinalizer => UNCHANGED <<deployment, lost>>
  BY DEF EnsureFinalizer, RemoveFinalizer, history
<1>9. RunHook => UNCHANGED <<deployment, lost>>
  BY DEF RunHook, history
<1>10. ApplyStatus \/ ReportDegraded \/ CreateDefaultCertManager => UNCHANGED <<deployment, lost>>
  BY DEF ApplyStatus, ReportDegraded, CreateDefaultCertManager, history
<1>11. ProgressingTooLong \/ CallFails \/ UserWrites => UNCHANGED <<deployment, lost>>
  BY DEF ProgressingTooLong, CallFails, UserWrites, history
<1>12. UserDeletes \/ InputsChange \/ Restart \/ UNCHANGED vars => UNCHANGED <<deployment, lost>>
  BY DEF UserDeletes, InputsChange, Restart, history, vars
<1> QED
  BY <1>2, <1>3, <1>4, <1>5, <1>6, <1>7, <1>8, <1>9, <1>10, <1>11, <1>12 DEF Next, Sync

LEMMA RecordedKept ==
    ASSUME AbsentIsNoObject, TypeInv, [Next]_vars, ~lost', NEW g \in Nat, Recorded(deployment, g)
    PROVE  Recorded(deployment', g)
<1>1. deployment # Absent => deployment.generation \in Nat
  BY DEF TypeInv, IsDeployment
<1>2. CASE deployment = Absent
  BY <1>2, DeploymentSteps DEF Recorded
<1>3. CASE deployment # Absent
  BY <1>1, <1>3, DeploymentSteps DEF Recorded, Same
<1> QED
  BY <1>2, <1>3

LEMMA RecordedZero == (deployment # Absent => IsDeployment(deployment)) => Recorded(deployment, 0)
BY DEF Recorded, IsDeployment

(* Without a loss, the controller notices an edit.                         *)
LEMMA NotDeceived ==
    ASSUME GenerationInv, Deceived
    PROVE  lost
BY DEF GenerationInv, Deceived, Recorded

LEMMA GenerationInit == Init /\ TypeInv => GenerationInv
<1> SUFFICES ASSUME Init, TypeInv PROVE GenerationInv
  OBVIOUS
<1>1. deployment = Absent /\ deceived = FALSE /\ sync = Idle /\ cmLister = cm
  BY DEF Init
<1>2. cm # Absent => cm.status = NoStatus
  BY DEF Init, NewCertManager
<1>3. NoStatus.generation = 0
  BY DEF NoStatus
<1> QED
  BY <1>1, <1>2, <1>3, IdleFacts DEF GenerationInv, Recorded

(* Which steps touch the history, the lister and the sync in progress.     *)
LEMMA DeceivedSteps == [Next]_vars => deceived' = deceived \/ ApplyDeployment
<1>1. DeliverCertManager \/ DeliverInputs \/ Resync => deceived' = deceived
  BY DEF DeliverCertManager, DeliverInputs, Resync, history
<1>2. GetOperatorState \/ GetObjectMeta \/ FinalizerConflict => deceived' = deceived
  BY DEF GetOperatorState, GetObjectMeta, FinalizerConflict, history
<1>3. EnsureFinalizer \/ RemoveFinalizer \/ DeleteDeployment => deceived' = deceived
  BY DEF EnsureFinalizer, RemoveFinalizer, DeleteDeployment, history
<1>4. RunHook => deceived' = deceived
  BY DEF RunHook, history
<1>5. ApplyStatus \/ ReportDegraded \/ CreateDefaultCertManager => deceived' = deceived
  BY DEF ApplyStatus, ReportDegraded, CreateDefaultCertManager, history
<1>6. ProgressingTooLong \/ CallFails \/ UserWrites => deceived' = deceived
  BY DEF ProgressingTooLong, CallFails, UserWrites, history
<1>7. UserDeletes \/ InputsChange \/ Restart \/ UNCHANGED vars => deceived' = deceived
  BY DEF UserDeletes, InputsChange, Restart, history, vars
<1>8. Rollout \/ Drift => deceived' = deceived
  BY DEF Rollout, Drift, history
<1> QED
  BY <1>1, <1>2, <1>3, <1>4, <1>5, <1>6, <1>7, <1>8 DEF Next, Sync

SyncSteps ==
    \/ GetOperatorState \/ GetObjectMeta \/ EnsureFinalizer \/ FinalizerConflict
    \/ RunHook \/ ApplyDeployment \/ ApplyStatus \/ DeleteDeployment
    \/ RemoveFinalizer \/ ReportDegraded \/ ProgressingTooLong \/ CallFails

LEMMA OutsideSteps ==
    ASSUME [Next]_vars
    PROVE  /\ SyncSteps \/ sync' = sync \/ Restart
           /\ cmLister' = cmLister \/ DeliverCertManager \/ Restart
<1>1. DeliverCertManager \/ DeliverInputs \/ Resync \/ CreateDefaultCertManager => sync' = sync
  BY DEF DeliverCertManager, DeliverInputs, Resync, CreateDefaultCertManager
<1>2. Rollout \/ UserWrites \/ UserDeletes \/ InputsChange \/ Drift \/ UNCHANGED vars => sync' = sync
  BY DEF Rollout, UserWrites, UserDeletes, InputsChange, Drift, vars
<1>3. \/ DeliverInputs \/ Resync \/ CreateDefaultCertManager \/ Rollout \/ UserWrites
      \/ UserDeletes \/ InputsChange \/ Drift \/ UNCHANGED vars
      => cmLister' = cmLister
  BY DEF DeliverInputs, Resync, CreateDefaultCertManager, Rollout, UserWrites, UserDeletes,
         InputsChange, Drift, vars, Outside
<1>4. SyncSteps => cmLister' = cmLister
  <2>1. GetOperatorState \/ GetObjectMeta \/ FinalizerConflict => cmLister' = cmLister
    BY DEF GetOperatorState, GetObjectMeta, FinalizerConflict, Outside
  <2>2. EnsureFinalizer \/ RemoveFinalizer \/ DeleteDeployment => cmLister' = cmLister
    BY DEF EnsureFinalizer, RemoveFinalizer, DeleteDeployment, Outside
  <2>3. RunHook => cmLister' = cmLister
    BY DEF RunHook, Outside
  <2>4. ApplyStatus \/ ReportDegraded \/ ApplyDeployment => cmLister' = cmLister
    BY DEF ApplyStatus, ReportDegraded, ApplyDeployment, Outside
  <2>5. ProgressingTooLong \/ CallFails => cmLister' = cmLister
    BY DEF ProgressingTooLong, CallFails, Outside
  <2> QED
    BY <2>1, <2>2, <2>3, <2>4, <2>5 DEF SyncSteps
<1> QED
  BY <1>1, <1>2, <1>3, <1>4 DEF Next, Sync, SyncSteps

LEMMA GenerationStep ==
    AbsentIsNoObject /\ TypeInv /\ GenerationInv /\ [Next]_vars => GenerationInv'
<1> SUFFICES ASSUME AbsentIsNoObject, TypeInv, GenerationInv, [Next]_vars PROVE GenerationInv'
  OBVIOUS
<1>1. deceived' => lost'
  <2>1. CASE ApplyDeployment
    BY <2>1, NotDeceived DEF ApplyDeployment
  <2>2. CASE deceived' = deceived
    BY <2>2, DeploymentSteps DEF GenerationInv
  <2> QED
    BY <2>1, <2>2, DeceivedSteps
<1> DEFINE R(g) == Recorded(deployment', g)
           RC(c) == c # Absent => R(c.status.generation)
           RS(x) == R(x.opStatus.generation) /\ (x.pc = "status" => R(x.applied.generation))
<1>2. SUFFICES ASSUME ~lost' PROVE RC(cm') /\ RC(cmLister') /\ RS(sync')
  BY <1>1 DEF GenerationInv
<1>3. ~lost /\ (deployment # Absent => IsDeployment(deployment))
  BY <1>2, DeploymentSteps DEF TypeInv
<1>4. TypeInv'
  BY TypeStep
<1>5. RC(cm) /\ RC(cmLister) /\ RS(sync)
  <2>1. ASSUME NEW c, c # Absent => c \in CertManagers,
               c # Absent => Recorded(deployment, c.status.generation)
        PROVE  RC(c)
    <3>1. CASE c # Absent
      <4>1. c.status.generation \in Nat
        BY <2>1, <3>1, CertManagerTypes, StatusTypes
      <4> QED
        BY <1>2, <2>1, <3>1, <4>1, RecordedKept
    <3> QED
      BY <3>1
  <2>2. RC(cm) /\ RC(cmLister)
    BY <1>3, <2>1 DEF TypeInv, TypeOK, GenerationInv
  <2>3. sync.opStatus.generation \in Nat /\ Recorded(deployment, sync.opStatus.generation)
    BY <1>3, StatusTypes DEF TypeInv, SyncOK, GenerationInv
  <2>4. sync.pc = "status" => /\ sync.applied.generation \in Nat
                              /\ Recorded(deployment, sync.applied.generation)
    BY <1>3 DEF TypeInv, SyncOK, IsDeployment, GenerationInv
  <2> QED
    BY <1>2, <2>2, <2>3, <2>4, RecordedKept
<1>6. R(0) /\ NoStatus.generation = 0
  BY <1>4 DEF TypeInv, Recorded, IsDeployment, NoStatus
<1> HIDE DEF R
<1>7. RC(cmLister')
  <2>1. cmLister' = cmLister \/ cmLister' = cm
    BY OutsideSteps DEF DeliverCertManager, Restart
  <2> HIDE DEF RC
  <2> QED
    BY <1>5, <2>1
<1>8. RS(sync')
  <2>1. ASSUME NEW err \in BOOLEAN, Return(err) PROVE RS(sync')
    BY <1>6, <2>1, ReturnFacts
  <2>2. RS(Idle)
    BY <1>6, IdleFacts
  <2>3. DOMAIN sync = SyncFields
    BY DEF TypeInv, SyncOK
  <2>4. ASSUME NEW pc, pc # "status", Goto(pc) PROVE RS(sync')
    BY <1>5, <2>3, <2>4, GotoFacts DEF SyncFields
  <2> HIDE DEF RS
  <2>5. CASE GetOperatorState
    <3>1. CASE Return(FALSE)
      BY <2>1, <3>1
    <3>2. CASE cmLister # Absent /\ sync' = Started(cmLister)
      BY <1>5, <3>2, StartedFacts DEF RS
    <3> QED
      BY <2>5, <3>1, <3>2 DEF GetOperatorState
  <2>6. CASE GetObjectMeta
    <3>1. CASE sync' = [sync EXCEPT !.pc = "hooks", !.removing = TRUE]
      <4>1. sync'.pc = "hooks" /\ sync'.opStatus = sync.opStatus
        BY <2>3, <3>1 DEF SyncFields
      <4> QED
        BY <1>5, <4>1 DEF RS
    <3> QED
      BY <2>1, <2>4, <2>6, <3>1 DEF GetObjectMeta
  <2>7. CASE EnsureFinalizer \/ DeleteDeployment
    BY <2>1, <2>4, <2>7 DEF EnsureFinalizer, DeleteDeployment
  <2>8. CASE RunHook
    <3>1. CASE ~Return(TRUE)
      <4>1. PICK r : sync' = [sync EXCEPT !.required = r, !.hook = @ + 1, !.pc = AfterHook(sync.hook)]
        BY <2>8, <3>1 DEF RunHook
      <4>2. sync'.pc = AfterHook(sync.hook) /\ sync'.opStatus = sync.opStatus
        BY <2>3, <4>1 DEF SyncFields
      <4>3. sync'.pc # "status"
        BY <4>2 DEF AfterHook
      <4> QED
        BY <1>5, <4>2, <4>3 DEF RS
    <3> QED
      BY <2>1, <3>1
  <2>9. CASE ApplyDeployment
    <3>1. deployment' = Applied
          /\ sync' = [Idle EXCEPT !.pc = "status", !.opStatus = sync.opStatus, !.applied = Applied]
      BY <2>9 DEF ApplyDeployment
    <3>2. sync'.opStatus = sync.opStatus /\ sync'.applied = deployment'
      BY <3>1, IdleFacts DEF SyncFields
    <3>3. deployment' # Absent /\ deployment'.generation \in Nat
      BY <1>3, <3>1, AppliedFacts, NoObjectIsAbsent DEF IsDeployment
    <3>4. deployment'.spec = deployment'.specHash
      <4>1. UpToDate(deployment) /\ deployment # Absent => deployment.spec = deployment.specHash
        BY <1>3 DEF UpToDate, GenerationInv, Recorded
      <4> QED
        BY <1>3, <3>1, <4>1, AppliedFacts
    <3>5. R(deployment'.generation)
      BY <3>3, <3>4 DEF R, Recorded
    <3> QED
      BY <1>5, <3>2, <3>5 DEF RS
  <2>10. CASE FinalizerConflict \/ ApplyStatus \/ RemoveFinalizer \/ ProgressingTooLong
    BY <2>1, <2>10 DEF FinalizerConflict, ApplyStatus, RemoveFinalizer, ProgressingTooLong
  <2>11. CASE ReportDegraded \/ CallFails \/ Restart
    BY <2>1, <2>2, <2>11 DEF ReportDegraded, CallFails, Restart
  <2> QED
    BY <1>5, <2>5, <2>6, <2>7, <2>8, <2>9, <2>10, <2>11, OutsideSteps DEF SyncSteps, RS
<1>9. RC(cm')
  <2>1. \A s : NewCertManager(s).status = NoStatus
    BY DEF NewCertManager
  <2>2. ASSUME NEW c, WriteCertManager(c), RC(c) PROVE RC(cm')
    BY <2>2 DEF WriteCertManager
  <2>3. \A s : RC(NewCertManager(s))
    BY <1>6, <2>1
  <2>4. \A c \in CertManagers : /\ DOMAIN c = {"spec", "deleting", "finalizer", "status"}
                                /\ DOMAIN c.status = {"generation", "available", "progressing", "degraded"}
    BY DEF CertManagers, Statuses
  <2>5. ASSUME NEW c, c = cm \/ c = cmLister, c # Absent PROVE c \in CertManagers /\ RC(c)
    BY <1>5, <2>5 DEF TypeInv, TypeOK
  <2>6. ASSUME KeepCertManager PROVE RC(cm')
    BY <1>5, <2>6 DEF KeepCertManager
  <2>7. CASE EnsureFinalizer \/ RemoveFinalizer
    <3>1. ASSUME NEW on, SaveFinalizer(on), cmLister # Absent PROVE RC(cm')
      <4> DEFINE x == [cmLister EXCEPT !.finalizer = on]
      <4>1. x.status = cmLister.status
        BY <2>4, <2>5, <3>1
      <4> HIDE DEF x
      <4>2. cm' = Absent \/ cm' = x
        BY <3>1 DEF SaveFinalizer, WriteCertManager, x
      <4> QED
        BY <2>5, <3>1, <4>1, <4>2
    <3> HIDE DEF RC
    <3>2. CASE KeepCertManager
      BY <2>6, <3>2
    <3>3. CASE ~KeepCertManager
      <4>1. cmLister # Absent /\ (SaveFinalizer(TRUE) \/ SaveFinalizer(FALSE))
        BY <2>7, <3>3 DEF EnsureFinalizer, RemoveFinalizer
      <4> QED
        BY <3>1, <4>1
    <3> QED
      BY <3>2, <3>3
  <2>8. CASE ApplyStatus
    <3>1. CASE cm # Absent
      <4> DEFINE st == DeploymentStatus(sync.applied, cm.status)
      <4>1. cm' = [cm EXCEPT !.status = st] /\ sync.pc = "status"
        BY <2>8, <3>1 DEF ApplyStatus, WriteCertManager
      <4>2. st.generation = sync.applied.generation
        BY <2>4, <2>5, <3>1 DEF DeploymentStatus
      <4> HIDE DEF st
      <4>3. cm'.status = st
        BY <2>4, <2>5, <3>1, <4>1
      <4> QED
        BY <1>5, <4>1, <4>2, <4>3
    <3> QED
      BY <2>6, <2>8, <3>1 DEF ApplyStatus
  <2>9. CASE ReportDegraded
    <3>1. CASE cm # Absent
      <4> DEFINE st == [cm.status EXCEPT !.degraded = Truth(sync.err)]
      <4>1. cm' = [cm EXCEPT !.status = st]
        BY <2>9, <3>1 DEF ReportDegraded, WriteCertManager
      <4>2. st.generation = cm.status.generation
        BY <2>4, <2>5, <3>1
      <4> HIDE DEF st
      <4>3. cm'.status = st
        BY <2>4, <2>5, <3>1, <4>1
      <4> QED
        BY <1>5, <3>1, <4>2, <4>3
    <3> QED
      BY <2>2, <2>9, <3>1 DEF ReportDegraded
  <2>10. CASE CreateDefaultCertManager
    BY <1>5, <2>2, <2>3, <2>10 DEF CreateDefaultCertManager, Created
  <2>11. CASE UserWrites
    <3>1. PICK s \in Specs : WriteCertManager(IF cm = Absent THEN NewCertManager(s)
                                              ELSE [cm EXCEPT !.spec = s])
      BY <2>11 DEF UserWrites
    <3>2. CASE cm = Absent
      BY <2>2, <2>3, <3>1, <3>2
    <3>3. CASE cm # Absent
      <4>1. cm' = [cm EXCEPT !.spec = s]
        BY <3>1, <3>3 DEF WriteCertManager
      <4>2. cm'.status = cm.status
        BY <2>4, <2>5, <3>3, <4>1
      <4> QED
        BY <1>5, <3>3, <4>2
    <3> QED
      BY <3>2, <3>3
  <2>12. CASE UserDeletes
    <3>1. cm # Absent /\ cm' \in {Absent, [cm EXCEPT !.deleting = TRUE]}
      BY <2>12 DEF UserDeletes, WriteCertManager
    <3>2. cm' # Absent => cm'.status = cm.status
      BY <2>4, <2>5, <3>1
    <3> QED
      BY <1>5, <3>1, <3>2
  <2>13. DeliverCertManager \/ DeliverInputs \/ Resync \/ Rollout => cm' = cm
    BY DEF DeliverCertManager, DeliverInputs, Resync, Rollout
  <2>14. GetOperatorState \/ GetObjectMeta \/ FinalizerConflict \/ InputsChange => cm' = cm
    BY DEF GetOperatorState, GetObjectMeta, FinalizerConflict, InputsChange
  <2>15. RunHook => cm' = cm
    BY DEF RunHook
  <2>16. ApplyDeployment \/ DeleteDeployment \/ Restart \/ UNCHANGED vars => cm' = cm
    BY DEF ApplyDeployment, DeleteDeployment, Restart, vars
  <2>17. ProgressingTooLong \/ CallFails \/ Drift => cm' = cm
    BY DEF ProgressingTooLong, CallFails, Drift
  <2> HIDE DEF RC
  <2> QED
    BY <1>5, <2>7, <2>8, <2>9, <2>10, <2>11, <2>12, <2>13, <2>14, <2>15, <2>16, <2>17
       DEF Next, Sync, RC
<1> QED
  BY <1>7, <1>8, <1>9

-----------------------------------------------------------------------------
(***************************************************************************)
(* Into the calm.  Whatever a step changes besides the sync in progress    *)
(* ends the calm, until a sync begins: so a sync that is still in the calm *)
(* has worked on what is there now.                                        *)
(***************************************************************************)
LEMMA CalmSteps ==
    ASSUME [Next]_vars, Calm', ~GetOperatorState
    PROVE  /\ Calm /\ UNCHANGED <<setup, cm, cmLister, inLister, deployment>>
           /\ SyncSteps \/ sync' = sync
<1>1. ASSUME NEW c, WriteCertManager(c) PROVE ~cmBehind /\ cm' = cm
  BY <1>1 DEF WriteCertManager, Calm
<1>2. ~DeliverCertManager /\ ~DeliverInputs /\ ~Resync /\ ~Rollout
  BY DEF DeliverCertManager, DeliverInputs, Resync, Rollout, Calm
<1>3. ~Drift /\ ~Restart
  BY DEF Drift, Restart, Calm
<1> DEFINE Kept == Calm /\ UNCHANGED <<setup, cm, cmLister, inLister, deployment>>
<1>4. UNCHANGED <<Outside, cm, cmBehind, deployment, queue>> => Kept
  <2>1. ASSUME UNCHANGED <<Outside, cm, cmBehind, deployment, queue>> PROVE Calm
    <3>1. cmBehind' = cmBehind /\ queue' = queue
      BY <2>1
    <3> QED
      BY <3>1 DEF Calm
  <2> QED
    BY <2>1 DEF Outside
<1>5. CASE GetObjectMeta \/ FinalizerConflict
  <2>1. Kept
    BY <1>5, <1>4 DEF GetObjectMeta, FinalizerConflict
  <2> QED
    BY <1>5, <2>1 DEF SyncSteps
<1>6. CASE EnsureFinalizer \/ RemoveFinalizer
  <2>1. ~queue /\ UNCHANGED <<setup, cmLister, inLister, deployment>>
    <3>1. queue' = queue /\ UNCHANGED <<Outside, deployment>>
      BY <1>6 DEF EnsureFinalizer, RemoveFinalizer
    <3> QED
      BY <3>1 DEF Outside, Calm
  <2>2. KeepCertManager => Kept
    BY <2>1 DEF KeepCertManager, Calm
  <2>3. SaveFinalizer(TRUE) \/ SaveFinalizer(FALSE) => Kept
    BY <1>1, <2>1 DEF SaveFinalizer, Calm
  <2>4. KeepCertManager \/ SaveFinalizer(TRUE) \/ SaveFinalizer(FALSE)
    BY <1>6 DEF EnsureFinalizer, RemoveFinalizer
  <2> QED
    BY <1>6, <2>2, <2>3, <2>4 DEF SyncSteps
<1>7. CASE RunHook
  <2>1. Kept
    BY <1>7, <1>4 DEF RunHook
  <2> QED
    BY <1>7, <2>1 DEF SyncSteps
<1>8. CASE ApplyDeployment \/ DeleteDeployment
  <2>1. Kept
    <3>1. CASE ApplyDeployment
      <4>1. UNCHANGED <<Outside, cm, cmBehind>> /\ deployment' = Applied
            /\ queue' = (queue \/ deployment # Applied)
        BY <3>1 DEF ApplyDeployment
      <4> QED
        BY <4>1 DEF Outside, Calm
    <3>2. CASE DeleteDeployment
      <4>1. UNCHANGED <<Outside, cm, cmBehind>> /\ deployment' = Absent
            /\ queue' = (queue \/ deployment # Absent)
        BY <3>2 DEF DeleteDeployment
      <4> QED
        BY <4>1 DEF Outside, Calm
    <3> QED
      BY <1>8, <3>1, <3>2
  <2> QED
    BY <1>8, <2>1 DEF SyncSteps
<1>9. CASE ApplyStatus
  <2>1. ~queue /\ UNCHANGED <<setup, cmLister, inLister, deployment>>
    BY <1>9 DEF ApplyStatus, Outside, Calm
  <2>2. ~cmBehind /\ cm' = cm
    BY <1>1, <1>9 DEF ApplyStatus, KeepCertManager, Calm
  <2> QED
    BY <1>9, <2>1, <2>2 DEF Calm, SyncSteps
<1>10. CASE ReportDegraded
  <2>1. ~queue /\ UNCHANGED <<setup, cmLister, inLister, deployment>>
    BY <1>10 DEF ReportDegraded, Outside, Calm
  <2>2. ~cmBehind /\ cm' = cm
    BY <1>1, <1>10 DEF ReportDegraded
  <2> QED
    BY <1>10, <2>1, <2>2 DEF Calm, SyncSteps
<1>11. CASE CreateDefaultCertManager \/ UserWrites \/ UserDeletes
  <2>1. ~queue /\ UNCHANGED <<setup, cmLister, inLister, deployment, sync>>
    BY <1>11 DEF CreateDefaultCertManager, UserWrites, UserDeletes, Outside, Calm
  <2>2. PICK c : WriteCertManager(c)
    BY <1>11 DEF CreateDefaultCertManager, UserWrites, UserDeletes
  <2> QED
    BY <1>1, <2>1, <2>2 DEF Calm
<1>12. CASE ProgressingTooLong \/ CallFails
  <2>1. CASE CallFails /\ sync.pc = "degraded"
    BY <2>1 DEF CallFails, Calm
  <2>2. ~(CallFails /\ sync.pc = "degraded") => Kept
    BY <1>12, <1>4 DEF ProgressingTooLong, CallFails
  <2> QED
    BY <1>12, <2>1, <2>2 DEF SyncSteps
<1>13. CASE InputsChange \/ UNCHANGED vars
  BY <1>13 DEF InputsChange, vars, Calm
<1> QED
  BY <1>2, <1>3, <1>5, <1>6, <1>7, <1>8, <1>9, <1>10, <1>11, <1>12, <1>13 DEF Next, Sync, SyncSteps

LEMMA PassFrame ==
    ASSUME UNCHANGED <<setup, cmLister, inLister, deployment>>
    PROVE  PassInv' <=> Achieved(sync', deceived')
<1>1. name' = name /\ env' = env
  BY DEF name, env
<1>2. AllHooks' = AllHooks
  BY <1>1 DEF AllHooks
<1> QED
  BY <1>1, <1>2 DEF PassInv, Achieved, Prepared, Deployed, Done, Reported

LEMMA SpecTypes ==
    ASSUME TypeInv
    PROVE  /\ name \in DeploymentNames
           /\ Unset \notin DOMAIN LogLevels
           /\ \A s \in Specs \cup {DefaultSpec} :
                /\ s.logLevel \in DOMAIN LogLevels \cup {Unset}
                /\ \A t \in ConfigOf(s).overrideScheduling.tolerations :
                        t \in [key : STRING, effect : STRING]
<1>1. setup \in Setups
  BY DEF TypeInv
<1>2. /\ DefaultSpec.logLevel \in DOMAIN LogLevels
      /\ ConfigOf(DefaultSpec).overrideScheduling.tolerations = {}
  BY DEF DefaultSpec, LogLevels, ConfigOf, EmptyConfig
<1> QED
  BY <1>1, <1>2, SetupsAssumption DEF name, env, Specs

(* A hook that has run in the calm has seen the CertManager of the sync.   *)
LEMMA HookStep ==
    ASSUME TypeInv, cmLister # Absent, sync.pc = "hooks", sync.opSpec = cmLister.spec,
           Prepared(sync.required, sync.hook),
           ~HookFails(Hooks[sync.hook], name, env, sync.opSpec, cmLister.spec, inLister)
    PROVE  Prepared(Hooked(Hooks[sync.hook], sync.required, name, env, sync.opSpec,
                           cmLister.spec, inLister), sync.hook + 1)
<1> DEFINE k == sync.hook
           s == cmLister.spec
<1>1. k \in 1..(LastOf(env) + 2) /\ LastOf(env) \in {16, 18}
  BY HooksLength DEF TypeInv, TypeOK
<1>2. s \in Specs \cup {DefaultSpec}
  BY CertManagerTypes DEF TypeInv, TypeOK
<1>3. /\ s.logLevel \in DOMAIN LogLevels \cup {Unset} /\ Unset \notin DOMAIN LogLevels
      /\ name \in DeploymentNames
  BY <1>2, SpecTypes
<1>4. BuiltSoFar(k, sync.required, name, env, s, inLister) /\ PassedSoFar(k, name, env, s, inLister)
  BY DEF Prepared
<1>5. Hooks = GenericDeploymentHooks(env)
  BY DEF Hooks
<1>6. ~HookFails(GenericDeploymentHooks(env)[k], name, env, s, s, inLister)
  BY <1>5
<1> HIDE DEF k, s
<1>7. BuiltSoFar(k + 1, Hooked(GenericDeploymentHooks(env)[k], sync.required, name, env, s, s,
                               inLister), name, env, s, inLister)
  BY <1>1, <1>3, <1>4, HookBuilds
<1>8. PassedSoFar(k + 1, name, env, s, inLister)
  <2>1. \A j \in 1..((k + 1) - 1) : j \in 1..(k - 1) \/ j = k
    BY <1>1
  <2> QED
    BY <1>4, <1>6, <2>1 DEF PassedSoFar
<1> QED
  BY <1>5, <1>7, <1>8 DEF Prepared, k, s

LEMMA CalmStep ==
    ASSUME AbsentIsNoObject, TypeInv, ListerInv, CalmInv, [Next]_vars
    PROVE  CalmInv'
<1> SUFFICES ASSUME Calm' PROVE PassInv'
  BY DEF CalmInv
<1>1. UNCHANGED <<setup, cmLister, inLister, deployment>>
  <2>1. CASE GetOperatorState
    BY <2>1 DEF GetOperatorState, Outside
  <2> QED
    BY <2>1, CalmSteps
<1>2. SUFFICES Achieved(sync', deceived')
  BY <1>1, PassFrame
<1>3. deceived' = deceived \/ ApplyDeployment
  BY DeceivedSteps
<1>4. DOMAIN sync = SyncFields /\ (cmLister # Absent => cmLister \in CertManagers)
  BY DEF TypeInv, SyncOK, TypeOK
<1>5. \A c \in CertManagers : /\ DOMAIN c = {"spec", "deleting", "finalizer", "status"}
                              /\ DOMAIN c.status = {"generation", "available", "progressing", "degraded"}
  BY DEF CertManagers, Statuses
<1>6. ASSUME Return(TRUE) PROVE Achieved(sync', deceived')
  BY <1>6, ReturnFacts DEF Achieved
<1>7. ASSUME Return(FALSE), Done(deceived') PROVE Achieved(sync', deceived')
  BY <1>7, ReturnFacts DEF Achieved
<1>8. CASE GetOperatorState
  <2>1. CASE cmLister = Absent \/ LeftAlone(cmLister.spec)
    <3>1. Done(deceived')
      BY <2>1 DEF Done, Serving, Parting
    <3> QED
      BY <1>7, <1>8, <2>1, <3>1 DEF GetOperatorState
  <2>2. CASE cmLister # Absent /\ ~LeftAlone(cmLister.spec)
    <3> DEFINE x == Started(cmLister)
    <3>1. sync' = x
      BY <1>8, <2>2 DEF GetOperatorState
    <3>2. /\ x.pc \in {"hooks", "meta"} /\ (x.pc = "hooks" <=> IsRemoved(cmLister.spec))
          /\ x.opSpec = cmLister.spec /\ x.removing = IsRemoved(cmLister.spec)
          /\ x.hook = 1 /\ x.required = Manifest(name)
      BY StartedFacts
    <3>3. Prepared(Manifest(name), 1)
      BY ManifestBuilt DEF Prepared
    <3> HIDE DEF x
    <3>4. Achieved(x, deceived')
      BY <2>2, <3>2, <3>3 DEF Achieved, Parting, Removing
    <3> QED
      BY <3>1, <3>4
  <2> QED
    BY <2>1, <2>2
<1>9. CASE ~GetOperatorState
  <2>1. Calm /\ cm' = cm /\ (SyncSteps \/ sync' = sync)
    BY <1>9, CalmSteps
  <2>2. Achieved(sync, deceived) /\ cmLister = cm /\ ~cmBehind /\ ~queue
    BY <2>1 DEF CalmInv, PassInv, ListerInv, Calm
  <2>3. ~queue' /\ ~cmBehind'
    BY DEF Calm
  <2>4. CASE GetObjectMeta
    <3>1. /\ cmLister # Absent /\ ~LeftAlone(cmLister.spec) /\ ~IsRemoved(cmLister.spec)
          /\ sync.opSpec = cmLister.spec /\ ~sync.removing
          /\ sync.hook = 1 /\ sync.required = Manifest(name)
      BY <2>2, <2>4 DEF Achieved, GetObjectMeta
    <3>2. CASE cmLister.deleting
      <4>1. sync' = [sync EXCEPT !.pc = "hooks", !.removing = TRUE]
        BY <2>4, <3>1, <3>2 DEF GetObjectMeta
      <4>2. /\ sync'.pc = "hooks" /\ sync'.removing = TRUE /\ sync'.opSpec = sync.opSpec
            /\ sync'.hook = 1 /\ sync'.required = Manifest(name)
        BY <1>4, <3>1, <4>1 DEF SyncFields
      <4>3. Prepared(Manifest(name), 1)
        BY ManifestBuilt DEF Prepared
      <4> QED
        BY <3>1, <3>2, <4>2, <4>3 DEF Achieved, Parting, Removing
    <3>3. CASE ~cmLister.deleting
      <4>1. Goto("finalizer")
        BY <2>4, <3>1, <3>3 DEF GetObjectMeta
      <4>2. /\ sync'.pc = "finalizer" /\ sync'.removing = sync.removing
            /\ sync'.opSpec = sync.opSpec /\ sync'.hook = 1 /\ sync'.required = Manifest(name)
        BY <1>4, <3>1, <4>1, GotoFacts DEF SyncFields
      <4> QED
        BY <3>1, <3>3, <4>2 DEF Achieved
    <3> QED
      BY <3>2, <3>3
  <2>5. CASE EnsureFinalizer
    <3>1. /\ cmLister # Absent /\ ~LeftAlone(cmLister.spec) /\ ~IsRemoved(cmLister.spec)
          /\ sync.opSpec = cmLister.spec /\ ~sync.removing
          /\ sync.hook = 1 /\ sync.required = Manifest(name) /\ ~cmLister.deleting
      BY <2>2, <2>5 DEF Achieved, EnsureFinalizer
    <3>2. cmLister.finalizer
      <4>1. ASSUME ~cmLister.finalizer PROVE FALSE
        <5>1. SaveFinalizer(TRUE)
          BY <2>5, <3>1, <4>1 DEF EnsureFinalizer
        <5>2. cm = [cm EXCEPT !.finalizer = TRUE]
          BY <2>1, <2>2, <5>1 DEF SaveFinalizer, WriteCertManager
        <5> QED
          BY <1>4, <1>5, <2>2, <3>1, <4>1, <5>2
      <4> QED
        BY <4>1
    <3>3. Goto("hooks")
      BY <2>5, <3>1, <3>2 DEF EnsureFinalizer
    <3>4. /\ sync'.pc = "hooks" /\ sync'.removing = sync.removing
          /\ sync'.opSpec = sync.opSpec /\ sync'.hook = 1 /\ sync'.required = Manifest(name)
      BY <1>4, <3>1, <3>3, GotoFacts DEF SyncFields
    <3>5. Prepared(Manifest(name), 1)
      BY ManifestBuilt DEF Prepared
    <3> QED
      BY <3>1, <3>2, <3>4, <3>5 DEF Achieved, Serving, Removing
  <2>6. CASE RunHook
    <3>1. /\ sync.opSpec = cmLister.spec /\ Prepared(sync.required, sync.hook)
          /\ IF sync.removing THEN Parting(cmLister)
             ELSE Serving(cmLister) /\ cmLister.finalizer
      BY <2>2, <2>6 DEF Achieved, RunHook
    <3>2. cmLister # Absent
      BY <3>1 DEF Parting, Serving
    <3> DEFINE h == Hooks[sync.hook]
               r == Hooked(h, sync.required, name, env, sync.opSpec, cmLister.spec, inLister)
    <3>3. CASE ~Return(TRUE)
      <4>1. /\ ~HookFails(h, name, env, sync.opSpec, cmLister.spec, inLister)
            /\ sync' = [sync EXCEPT !.required = r, !.hook = @ + 1, !.pc = AfterHook(sync.hook)]
        BY <2>6, <3>2, <3>3 DEF RunHook
      <4>2. Prepared(r, sync.hook + 1)
        BY <2>6, <3>1, <3>2, <4>1, HookStep DEF RunHook
      <4> HIDE DEF h, r
      <4>3. /\ sync'.required = r /\ sync'.hook = sync.hook + 1 /\ sync'.pc = AfterHook(sync.hook)
            /\ sync'.removing = sync.removing /\ sync'.opSpec = sync.opSpec
        BY <1>4, <4>1 DEF SyncFields
      <4>4. /\ sync.hook \in 1..Len(Hooks) /\ Len(Hooks) = LastOf(env) + 2
            /\ LastOf(env) \in {16, 18}
        BY <2>6, HooksLength DEF TypeInv, TypeOK, RunHook
      <4>5. CASE sync.hook < Len(Hooks)
        BY <3>1, <4>2, <4>3, <4>5 DEF AfterHook, Achieved
      <4>6. CASE ~(sync.hook < Len(Hooks))
        <5>1. sync.hook + 1 = AllHooks
          BY <4>4, <4>6 DEF AllHooks
        <5> QED
          BY <3>1, <4>2, <4>3, <4>6, <5>1 DEF AfterHook, Achieved
      <4> QED
        BY <4>5, <4>6
    <3> QED
      BY <1>6, <3>3
  <2>7. CASE ApplyDeployment
    <3>1. Serving(cmLister) /\ cmLister.finalizer /\ Prepared(sync.required, AllHooks)
      BY <2>2, <2>7 DEF Achieved, ApplyDeployment
    <3>2. /\ deployment' = Applied /\ deployment = Applied /\ deceived' = Deceived
          /\ sync' = [Idle EXCEPT !.pc = "status", !.opStatus = sync.opStatus, !.applied = Applied]
      BY <1>1, <2>7 DEF ApplyDeployment
    <3>3. sync'.pc = "status" /\ sync'.applied = deployment
      BY <3>2, IdleFacts DEF SyncFields
    <3>4. deployment # Absent => IsDeployment(deployment)
      BY DEF TypeInv
    <3>5. deployment # Absent /\ IsDeployment(deployment)
      BY <3>2, <3>4, AppliedFacts, NoObjectIsAbsent
    <3>6. deployment.spec = sync.required \/ Deceived
      <4>1. CASE UpToDate(deployment)
        BY <3>5, <4>1 DEF UpToDate, Deceived
      <4>2. CASE ~UpToDate(deployment)
        <5>1. Applied.spec = sync.required
          BY <3>4, <3>5, <4>2, AppliedFacts
        <5> QED
          BY <3>2, <5>1
      <4> QED
        BY <4>1, <4>2
    <3>7. Deployed(deceived')
      BY <3>1, <3>2, <3>5, <3>6 DEF Deployed, Prepared
    <3> QED
      BY <3>1, <3>3, <3>7 DEF Achieved
  <2>8. CASE ApplyStatus
    <3>1. /\ Serving(cmLister) /\ cmLister.finalizer /\ Deployed(deceived)
          /\ sync.applied = deployment
      BY <2>2, <2>8 DEF Achieved, ApplyStatus
    <3>2. cm # Absent /\ cm \in CertManagers
      BY <1>4, <2>2, <3>1 DEF Serving
    <3> DEFINE st == DeploymentStatus(sync.applied, cm.status)
    <3>3. Return(FALSE) /\ cm' = [cm EXCEPT !.status = st]
      BY <2>8, <3>2 DEF ApplyStatus, WriteCertManager
    <3>4. /\ st.generation = deployment.generation
          /\ st.available = Truth(deployment.available)
          /\ st.progressing = Truth(~deployment.rolledOut)
      BY <1>5, <3>1, <3>2 DEF DeploymentStatus
    <3> HIDE DEF st
    <3>5. cm.status = st
      BY <1>5, <2>1, <3>2, <3>3
    <3>6. Reported
      BY <2>2, <3>4, <3>5 DEF Reported
    <3>7. deceived' = deceived
      BY <2>8, <1>3 DEF ApplyDeployment, ApplyStatus
    <3>8. Done(deceived')
      BY <3>1, <3>6, <3>7 DEF Done, Serving, Parting
    <3> QED
      BY <1>7, <3>3, <3>8
  <2>9. CASE DeleteDeployment
    <3>1. Parting(cmLister)
      BY <2>2, <2>9 DEF Achieved, DeleteDeployment
    <3>2. Goto("unfinalize") /\ deployment = Absent
      BY <1>1, <2>9 DEF DeleteDeployment
    <3>3. sync'.pc = "unfinalize"
      BY <1>4, <3>2, GotoFacts
    <3> QED
      BY <3>1, <3>2, <3>3 DEF Achieved
  <2>10. CASE RemoveFinalizer
    <3>1. Parting(cmLister) /\ deployment = Absent
      BY <2>2, <2>10 DEF Achieved, RemoveFinalizer
    <3>2. cmLister # Absent /\ cmLister \in CertManagers
      BY <1>4, <3>1 DEF Parting
    <3>3. ~cmLister.finalizer
      <4>1. ASSUME cmLister.finalizer PROVE FALSE
        <5>1. SaveFinalizer(FALSE)
          BY <2>10, <3>2, <4>1 DEF RemoveFinalizer
        <5>2. cm = Absent \/ cm = [cm EXCEPT !.finalizer = FALSE]
          BY <2>1, <2>2, <5>1 DEF SaveFinalizer, WriteCertManager
        <5> QED
          BY <1>5, <2>2, <3>2, <4>1, <5>2
      <4> QED
        BY <4>1
    <3>4. Return(FALSE)
      BY <2>10, <3>2, <3>3 DEF RemoveFinalizer
    <3>5. Done(deceived')
      BY <3>1, <3>3 DEF Done, Serving, Parting
    <3> QED
      BY <1>7, <3>4, <3>5
  <2>11. CASE ReportDegraded
    <3>1. ~sync.err /\ sync' = Idle /\ sync.pc = "degraded"
      BY <2>3, <2>11 DEF ReportDegraded, Retries
    <3>2. Done(deceived)
      BY <2>2, <3>1 DEF Achieved
    <3>3. deceived' = deceived
      BY <2>11, <1>3 DEF ApplyDeployment, ReportDegraded
    <3>4. cmLister # Absent => cmLister.status.degraded = "False"
      <4>1. SUFFICES ASSUME cm # Absent PROVE cm.status.degraded = "False"
        BY <2>2
      <4>2. cm \in CertManagers
        BY <1>4, <2>2, <4>1
      <4> DEFINE st == [cm.status EXCEPT !.degraded = Truth(sync.err)]
      <4>3. cm' = [cm EXCEPT !.status = st]
        BY <2>11, <4>1 DEF ReportDegraded, WriteCertManager
      <4>4. st.degraded = "False"
        BY <1>5, <3>1, <4>2 DEF Truth
      <4> HIDE DEF st
      <4>5. cm.status = st
        BY <1>5, <2>1, <4>2, <4>3
      <4> QED
        BY <4>4, <4>5
    <3> QED
      BY <3>1, <3>2, <3>3, <3>4, IdleFacts DEF Achieved
  <2>12. CASE FinalizerConflict \/ ProgressingTooLong
    BY <1>6, <2>12 DEF FinalizerConflict, ProgressingTooLong
  <2>13. CASE CallFails
    BY <1>6, <2>3, <2>13 DEF CallFails
  <2>14. CASE sync' = sync /\ ~ApplyDeployment
    BY <1>3, <2>2, <2>14
  <2> QED
    BY <1>9, <2>1, <2>4, <2>5, <2>6, <2>7, <2>8, <2>9, <2>10, <2>11, <2>12, <2>13, <2>14
       DEF SyncSteps
<1> QED
  BY <1>8, <1>9

-----------------------------------------------------------------------------
LEMMA Inductive == AbsentIsNoObject => (Spec => []Inv)
<1> SUFFICES ASSUME AbsentIsNoObject PROVE Spec => []Inv
  OBVIOUS
<1>1. Init => Inv
  <2> SUFFICES ASSUME Init PROVE Inv
    OBVIOUS
  <2>1. CalmInv
    BY DEF Init, CalmInv, Calm
  <2> QED
    BY <2>1, TypeInit, ListerInit, GenerationInit DEF Inv
<1>2. Inv /\ [Next]_vars => Inv'
  BY TypeStep, ListerStep, GenerationStep, CalmStep DEF Inv
<1> QED
  BY <1>1, <1>2, PTL DEF Spec

LEMMA InvAtRest == Inv => AtRestAsAsked
<1> SUFFICES ASSUME Inv, Settled, cm # Absent
    PROVE  /\ cm.status.degraded = "False"
           /\ ~LeftAlone(cm.spec) =>
                IF Removing(cm) THEN deployment = Absent /\ ~cm.finalizer
                ELSE /\ ~Refused(cm.spec)
                     /\ deployment # Absent /\ InOrder
                     /\ cm.finalizer
                     /\ cm.status.generation = deployment.generation
                     /\ cm.status.available = Truth(deployment.available)
                     /\ cm.status.progressing = Truth(~deployment.rolledOut)
  BY DEF AtRestAsAsked
<1>1. cmLister = cm /\ inLister = in /\ Achieved(sync, deceived) /\ sync.pc = "idle"
  BY DEF Inv, Settled, ListerInv, CalmInv, Calm, PassInv
<1>2. cm.status.degraded = "False" /\ Done(deceived)
  BY <1>1 DEF Achieved
<1>3. ASSUME ~LeftAlone(cm.spec), Removing(cm) PROVE deployment = Absent /\ ~cm.finalizer
  BY <1>1, <1>2, <1>3 DEF Done, Parting
<1>4. ASSUME ~LeftAlone(cm.spec), ~Removing(cm)
      PROVE  /\ ~Refused(cm.spec)
             /\ deployment # Absent /\ InOrder
             /\ cm.finalizer /\ Reported
  <2>1. cm.finalizer /\ Deployed(deceived) /\ Reported
    BY <1>1, <1>2, <1>4 DEF Done, Serving
  <2>2. cm.spec \in Specs \cup {DefaultSpec}
    BY CertManagerTypes DEF Inv, TypeInv, TypeOK
  <2>3. deceived => lost
    BY DEF Inv, GenerationInv
  <2>4. ~Refused(cm.spec)
    BY <1>1, <2>1, PassedNotRefused DEF Deployed, AllHooks
  <2>5. BuiltSoFar(AllHooks, deployment.spec, name, env, cm.spec, in) =>
            AsAsked(deployment.spec, cm.spec)
    BY <2>2, <2>4, SpecTypes, BuiltAsAsked DEF AllHooks, Inv
  <2> QED
    BY <1>1, <2>1, <2>3, <2>4, <2>5 DEF InOrder, Deployed
<1> QED
  BY <1>1, <1>2, <1>3, <1>4 DEF Reported

(***************************************************************************)
(* AtRestAsAsked, for every installation: when the controller has nothing  *)
(* to do, the Deployment is as the CertManager and the cluster ask for, or *)
(* gone if it was to go, and the status tells the truth, whatever the      *)
(* listers did between the reads of a sync (deployment_controller.go sync, *)
(* and the hooks).  An edit of the Deployment goes unnoticed only if one   *)
(* of the same name was lost before.                                       *)
(***************************************************************************)
THEOREM AtRest == AbsentIsNoObject => (Spec => []AtRestAsAsked)
BY Inductive, InvAtRest, PTL
=============================================================================
