--------------------------- MODULE Operator_proofs ---------------------------
(***************************************************************************)
(* Proofs about the life of the operator process, for every installation:  *)
(* any flag, any users, any TLS profiles, any number of interferences.     *)
(***************************************************************************)
EXTENDS Operator, FiniteSetTheorems, SequenceTheorems, TLAPS

-----------------------------------------------------------------------------
(***************************************************************************)
(* The shared cache.                                                       *)
(***************************************************************************)

(* An entry that is added hides nothing that was visible with an entry of  *)
(* its own.                                                                *)
LEMMA AddControllerCacheConfigFacts ==
    ASSUME NEW list, NEW value, NEW resources
    PROVE  LET new == AddControllerCacheConfig(list, value, resources)
           IN  /\ new.kinds = list.kinds \cup resources
               /\ new.admits = list.admits \cup {<<k, value>> : k \in resources}
BY DEF AddControllerCacheConfig

LEMMA AddObjectFacts ==
    ASSUME NEW list, NEW kind
    PROVE  LET new == AddObject(list, kind)
           IN  /\ new.kinds = list.kinds \cup {kind}
               /\ new.admits = list.admits \cup {<<kind, label>> : label \in AnyValue}
BY DEF AddObject

LEMMA LabelFacts ==
    /\ LabelOf.IstioCSR \in AnyValue /\ LabelOf.TrustManager \in AnyValue
    /\ Unlabelled \in AnyValue
<1>1. LabelOf["IstioCSR"] = LabelOf.IstioCSR /\ LabelOf["TrustManager"] = LabelOf.TrustManager
  OBVIOUS
<1> QED
  BY <1>1 DEF AnyValue, Features

(* Whichever controllers are enabled, what an enabled one reads is in the  *)
(* cache: kinds that both manage admit the labels of both, and the kinds   *)
(* of users' objects have no selector.                                     *)
LEMMA CacheHidesNothing ==
    ASSUME NEW enabled \in SUBSET Features, NEW f \in enabled, NEW r \in Reads(f)
    PROVE  Cached(BuildCacheObjectList(enabled), r[1], r[2])
<1> DEFINE first == AddControllerCacheConfig(EmptyConfig, LabelOf.IstioCSR, istioCSRManagedResources)
           istio == IF "IstioCSR" \notin enabled THEN EmptyConfig ELSE AddObject(first, "IstioCSR")
           second == AddControllerCacheConfig(istio, LabelOf.TrustManager,
                                              trustManagerManagedResources)
           list == BuildCacheObjectList(enabled)
           IK == istioCSRManagedResources
           TK == trustManagerManagedResources
<1>1. list = IF "TrustManager" \notin enabled THEN istio ELSE AddObject(second, "TrustManager")
  BY DEF BuildCacheObjectList
<1>2. first.kinds = IK /\ first.admits = {<<k, LabelOf.IstioCSR>> : k \in IK}
  BY DEF AddControllerCacheConfig, EmptyConfig
<1>3. /\ "IstioCSR" \notin enabled => istio.kinds = {} /\ istio.admits = {}
      /\ "IstioCSR" \in enabled =>
            /\ istio.kinds = IK \cup {"IstioCSR"}
            /\ istio.admits = {<<k, LabelOf.IstioCSR>> : k \in IK}
                              \cup {<<"IstioCSR", label>> : label \in AnyValue}
  <2> HIDE DEF first
  <2> QED
    BY <1>2, AddObjectFacts DEF EmptyConfig
<1> HIDE DEF first, istio
<1>4. /\ second.kinds = istio.kinds \cup TK
      /\ second.admits = istio.admits \cup {<<k, LabelOf.TrustManager>> : k \in TK}
  BY AddControllerCacheConfigFacts
<1> HIDE DEF second
<1>5. /\ "TrustManager" \notin enabled => list.kinds = istio.kinds /\ list.admits = istio.admits
      /\ "TrustManager" \in enabled =>
            /\ list.kinds = istio.kinds \cup TK \cup {"TrustManager"}
            /\ list.admits = istio.admits \cup {<<k, LabelOf.TrustManager>> : k \in TK}
                             \cup {<<"TrustManager", label>> : label \in AnyValue}
  <2> HIDE DEF list
  <2> QED
    BY <1>1, <1>4, AddObjectFacts
<1> HIDE DEF list
<1>6. \A k \in {"Issuer", "ClusterIssuer", "ConfigMap", "Secret", "Namespace", "APIServer"} :
          k \notin IK /\ k \notin TK
  BY DEF istioCSRManagedResources, trustManagerManagedResources, CommonResources
<1>7. CASE f = "IstioCSR"
  <2>1. \/ \E k \in IK : r = <<k, LabelOf.IstioCSR>>
        \/ r = <<"ConfigMap", LabelOf.IstioCSR>>
        \/ \E k \in {"Issuer", "ClusterIssuer", "ConfigMap", "Secret"} : r = <<k, Unlabelled>>
        \/ r = <<"IstioCSR", Unlabelled>>
    BY <1>7 DEF Reads
  <2>2. \A k \in IK : <<k, LabelOf.IstioCSR>> \in list.admits
    BY <1>3, <1>5, <1>7
  <2>3. <<"IstioCSR", Unlabelled>> \in list.admits
    BY <1>3, <1>5, <1>7, LabelFacts
  <2>4. \A k \in {"Issuer", "ClusterIssuer", "ConfigMap", "Secret"} : k \notin list.kinds
    BY <1>3, <1>5, <1>6, <1>7
  <2> QED
    BY <2>1, <2>2, <2>3, <2>4 DEF Cached, list
<1>8. CASE f = "TrustManager"
  <2>1. \/ \E k \in TK : r = <<k, LabelOf.TrustManager>>
        \/ \E k \in {"ConfigMap", "Issuer"} : r = <<k, LabelOf.TrustManager>>
        \/ \E k \in {"ConfigMap", "Namespace", "APIServer"} : r = <<k, Unlabelled>>
        \/ r = <<"TrustManager", Unlabelled>>
    BY <1>8 DEF Reads
  <2>2. \A k \in TK : <<k, LabelOf.TrustManager>> \in list.admits
    BY <1>5, <1>8
  <2>3. <<"TrustManager", Unlabelled>> \in list.admits
    BY <1>5, <1>8, LabelFacts
  <2>4. \A k \in {"ConfigMap", "Issuer", "Namespace", "APIServer"} : k \notin list.kinds
    BY <1>3, <1>5, <1>6, <1>8
  <2> QED
    BY <2>1, <2>2, <2>3, <2>4 DEF Cached, list
<1> QED
  BY <1>7, <1>8 DEF Features

-----------------------------------------------------------------------------
(***************************************************************************)
(* The inductive invariant.                                                *)
(***************************************************************************)
Profiles == {Skip} \cup {EffectiveSpec(p) : p \in {"", "Old", "Modern", "Custom", "CustomEmpty"}}
Caches == {EmptyConfig} \cup {BuildCacheObjectList(e) : e \in SUBSET Features}
Points == {"down", "serving", "infra", "console", "controllers", "flags",
           "gates", "wait", "manager", "running"}

Processes ==
    [pc : Points, infra : BOOLEAN, console : BOOLEAN, attempt : 1..maxFeatureGateAttempts,
     serving : Profiles, istioTLS : Profiles, cache : Caches,
     manager : {"none", "starting", "started", "failed"},
     running : SUBSET Controllers]

PolicySpecs ==
    {Shipped, Foreign}
    \cup [podSelector : {"cert-manager", "cainjector", "webhook"}, egress : STRING]
Works ==
    [pc : {"idle", "create", "delete", "apply"}, queue : BOOLEAN, create : BOOLEAN,
     todo : Seq(Resources \X ({Absent} \cup PolicySpecs)), err : BOOLEAN]

(* The variables with their records.  A controller that does not run has   *)
(* nothing to do.                                                          *)
RecordsInv ==
    /\ setup \in Setups
    /\ cluster \in [console : BOOLEAN, tls : setup.profiles, outage : BOOLEAN]
    /\ cm \in {Absent, DefaultCertManager} \cup setup.specs
    /\ cmLister \in {Absent, DefaultCertManager} \cup setup.specs
    /\ proc \in Processes
    /\ work \in [Controllers -> Works]
    /\ \A c \in Controllers : c \notin proc.running => work[c] = IdleWork[c]
    /\ degraded \in BOOLEAN

(* Nothing runs before the controllers are started, there is no manager    *)
(* before it is set up, and a wait is followed by an attempt.              *)
OrderInv ==
    /\ proc.pc \in {"down", "serving", "infra", "console", "controllers"} => proc.running = {}
    /\ proc.manager # "none" => proc.pc = "running"
    /\ proc.pc = "wait" => proc.attempt < maxFeatureGateAttempts

(* The cache is the one for the flag.                                      *)
CacheInv == proc.manager # "none" => proc.cache = BuildCacheObjectList(Enabled(setup.flag))

StartInv == OrderInv /\ CacheInv

IInv == RecordsInv /\ StartInv

-----------------------------------------------------------------------------
(***************************************************************************)
(* Operators.                                                              *)
(***************************************************************************)

(* The two ways to the TLS profile agree on every APIServer object.        *)
LEMMA OneResolution ==
    ASSUME NEW apiServer
    PROVE  ResolveIstioCSRTLSConfig(apiServer) = ResolveHonoredTLSProfile(apiServer)
BY DEF ResolveIstioCSRTLSConfig, ResolveHonoredTLSProfile

LEMMA EffectiveSpecType ==
    ASSUME NEW profile
    PROVE  EffectiveSpec(profile) \in Profiles
<1>1. PICK p \in {"", "Old", "Modern", "Custom", "CustomEmpty"} :
          EffectiveSpec(profile) = EffectiveSpec(p)
  <2>1. CASE profile \in {"", "Old", "Modern", "Custom", "CustomEmpty"}
    BY <2>1
  <2>2. CASE profile = "Intermediate"
    <3>1. EffectiveSpec(profile) = EffectiveSpec("")
      BY <2>2 DEF EffectiveSpec
    <3> QED
      BY <3>1
  <2>3. CASE profile \notin {"", "Intermediate", "Old", "Modern", "Custom", "CustomEmpty"}
    <3>1. EffectiveSpec(profile) = ProfileError /\ EffectiveSpec("CustomEmpty") = ProfileError
      BY <2>3 DEF EffectiveSpec
    <3> QED
      BY <3>1
  <2> QED
    BY <2>1, <2>2, <2>3
<1> QED
  BY <1>1 DEF Profiles

LEMMA ResolutionType ==
    ASSUME NEW apiServer
    PROVE  ResolveHonoredTLSProfile(apiServer) \in Profiles
BY EffectiveSpecType DEF ResolveHonoredTLSProfile, Profiles

(* A list of a finite set of assets has its elements.                      *)
LEMMA ListedType ==
    ASSUME NEW S, IsFiniteSet(S)
    PROVE  Listed(S) \in Seq(S)
<1> DEFINE n == Cardinality(S)
           L == {seq \in [1..n -> S] : {seq[i] : i \in DOMAIN seq} = S}
<1>1. n \in Nat /\ ExistsBijection(1..n, S)
  BY FS_CardinalityType
<1>2. PICK b \in [1..n -> S] : \A s \in S : \E i \in 1..n : b[i] = s
  BY <1>1 DEF ExistsBijection, Bijection, Surjection
<1>3. {b[i] : i \in DOMAIN b} = S
  BY <1>2
<1>4. Listed(S) \in [1..n -> S]
  BY <1>2, <1>3 DEF Listed
<1> HIDE DEF n
<1> QED
  BY <1>1, <1>4, SeqDef


LEMMA ElementFacts ==
    /\ \A S : << >> \in Seq(S)
    /\ \A S : \A s \in Seq(S) : \A i \in DOMAIN s : s[i] \in S
OBVIOUS

(* A list of one item for each element of a sequence.                      *)
LEMMA ItemsType ==
    ASSUME NEW S, NEW seq \in Seq(S), NEW T, NEW items,
           DOMAIN items = DOMAIN seq, items = [i \in DOMAIN seq |-> items[i]],
           \A i \in DOMAIN seq : items[i] \in T
    PROVE  items \in Seq(T)
<1>1. PICK n \in Nat : seq \in [1..n -> S]
  BY SeqDef
<1>2. items \in [1..n -> T]
  BY <1>1
<1> QED
  BY <1>2, SeqDef

LEMMA DownType == Down \in Processes
<1>1. 1 \in 1..maxFeatureGateAttempts
  BY DEF maxFeatureGateAttempts
<1> QED
  BY <1>1 DEF Down, Processes, Points, Profiles, Caches

LEMMA IdleWorkType == IdleWork \in [Controllers -> Works]
<1>1. << >> \in Seq(Resources \X ({Absent} \cup PolicySpecs))
  OBVIOUS
<1> QED
  BY <1>1 DEF IdleWork, Works

-----------------------------------------------------------------------------
(***************************************************************************)
(* The steps of the start.                                                 *)
(***************************************************************************)

(* The process ends.                                                       *)
LEMMA ExitInv ==
    ASSUME IInv, Exit, UNCHANGED <<setup, cm, cmLister, cluster>>, degraded' = degraded
    PROVE  IInv'
<1>1. RecordsInv'
  <2>1. \A c \in Controllers : c \notin proc'.running => work'[c] = IdleWork'[c]
    BY DEF Exit, IdleWork
  <2> QED
    BY <2>1, DownType, IdleWorkType DEF Exit, IInv, RecordsInv
<1>2. StartInv'
  BY DEF Exit, Down, StartInv, OrderInv, CacheInv
<1> QED
  BY <1>1, <1>2 DEF IInv

(* The process gets on.                                                    *)
LEMMA GetsOn ==
    ASSUME IInv, NEW next \in Processes, proc' = next, next.running = proc.running,
           UNCHANGED <<setup, cm, cmLister, cluster, work, degraded>>,
           StartInv'
    PROVE  IInv'
<1>1. \A c \in Controllers : c \notin proc'.running => work'[c] = IdleWork'[c]
  BY DEF IInv, RecordsInv, IdleWork
<1> QED
  BY <1>1 DEF IInv, RecordsInv

(* Steps that leave the process alone.                                     *)
LEMMA SameStart ==
    ASSUME IInv, setup' = setup, proc' = proc
    PROVE  StartInv'
BY DEF IInv, StartInv, OrderInv, CacheInv

LEMMA AskFacts ==
    ASSUME NEW pc, NEW fails, NEW next, Ask(pc, fails, next)
    PROVE  /\ proc.pc = pc
           /\ UNCHANGED <<setup, cm, cmLister, cluster, degraded>>
           /\ Exit \/ (~fails /\ proc' = next /\ work' = work)
BY DEF Ask, Untouched

LEMMA LaunchInv ==
    ASSUME IInv, Launch
    PROVE  IInv'
<1> DEFINE next == [Down EXCEPT !.pc = "serving"]
<1>1. next \in Processes /\ next.running = {} /\ next.manager = "none" /\ next.pc = "serving"
  <2>1. Down.running = {} /\ Down.manager = "none"
    BY DEF Down
  <2> QED
    BY <2>1, DownType DEF Processes, Points
<1>2. proc.running = {}
  BY DEF Launch, IInv, StartInv, OrderInv
<1> HIDE DEF next
<1>3. proc' = next /\ UNCHANGED <<setup, cm, cmLister, cluster, work, degraded>>
  BY DEF Launch, Untouched, next
<1>4. StartInv'
  BY <1>1, <1>3 DEF StartInv, OrderInv, CacheInv
<1> QED
  BY <1>1, <1>2, <1>3, <1>4, GetsOn

LEMMA ServingInv ==
    ASSUME IInv, ApplyClusterProfileToHTTPServingInfo
    PROVE  IInv'
<1> DEFINE spec == ResolveHonoredTLSProfile(cluster.tls)
           next == [proc EXCEPT !.pc = "infra", !.serving = spec]
<1>1. spec \in Profiles
  BY ResolutionType
<1>2. /\ proc.pc = "serving"
      /\ UNCHANGED <<setup, cm, cmLister, cluster, degraded>>
      /\ Exit \/ (proc' = next /\ work' = work)
  BY AskFacts DEF ApplyClusterProfileToHTTPServingInfo
<1> HIDE DEF spec
<1>3. /\ next \in Processes /\ next.running = proc.running /\ next.pc = "infra"
      /\ next.manager = proc.manager /\ next.serving = spec
  BY <1>1 DEF IInv, RecordsInv, Processes, Points
<1>4. proc.manager = "none" /\ proc.running = {}
  BY <1>2 DEF IInv, StartInv, OrderInv
<1> HIDE DEF next
<1>5. proc' = next => StartInv'
  BY <1>2, <1>3, <1>4 DEF StartInv, OrderInv, CacheInv, spec
<1> QED
  BY <1>2, <1>3, <1>5, ExitInv, GetsOn

LEMMA InfrastructureInv ==
    ASSUME IInv, DiscoverInfrastructure
    PROVE  IInv'
<1> DEFINE next == [proc EXCEPT !.pc = "console", !.infra = setup.openshift]
<1>1. /\ proc.pc = "infra"
      /\ UNCHANGED <<setup, cm, cmLister, cluster, degraded>>
      /\ Exit \/ (proc' = next /\ work' = work)
  BY AskFacts DEF DiscoverInfrastructure
<1>2. /\ next \in Processes /\ next.running = proc.running /\ next.pc = "console"
      /\ next.manager = proc.manager
  BY SetupsAssumption DEF IInv, RecordsInv, Processes, Points
<1> HIDE DEF next
<1>3. proc' = next => StartInv'
  BY <1>1, <1>2 DEF IInv, StartInv, OrderInv, CacheInv
<1> QED
  BY <1>1, <1>2, <1>3, ExitInv, GetsOn

LEMMA ConsoleInv ==
    ASSUME IInv, DiscoverConsole
    PROVE  IInv'
<1> DEFINE next == [proc EXCEPT !.pc = "controllers", !.console = cluster.console]
<1>1. /\ proc.pc = "console"
      /\ UNCHANGED <<setup, cm, cmLister, cluster, degraded>>
      /\ Exit \/ (proc' = next /\ work' = work)
  BY AskFacts DEF DiscoverConsole
<1>2. /\ next \in Processes /\ next.running = proc.running /\ next.pc = "controllers"
      /\ next.manager = proc.manager
  BY DEF IInv, RecordsInv, Processes, Points
<1> HIDE DEF next
<1>3. proc' = next => StartInv'
  BY <1>1, <1>2 DEF IInv, StartInv, OrderInv, CacheInv
<1> QED
  BY <1>1, <1>2, <1>3, ExitInv, GetsOn

LEMMA StartControllersInv ==
    ASSUME IInv, StartControllers
    PROVE  IInv'
<1> DEFINE run == ToArray(proc.console)
<1>1. run \subseteq Controllers
  BY DEF ToArray, Controllers
<1> HIDE DEF run
<1>2. /\ proc' = [proc EXCEPT !.pc = "flags", !.running = run]
      /\ work' = [c \in Controllers |-> [work[c] EXCEPT !.queue = c \in run]]
      /\ proc.pc = "controllers" /\ cmLister' = cm
      /\ UNCHANGED <<setup, cm, cluster, degraded>>
  BY DEF StartControllers, Untouched, run
<1>3. /\ proc' \in Processes /\ proc'.running = run /\ proc'.pc = "flags"
      /\ proc'.manager = proc.manager
  BY <1>1, <1>2 DEF IInv, RecordsInv, Processes, Points
<1>4. \A c \in Controllers : work[c] = IdleWork[c] /\ work[c] \in Works
  BY <1>2 DEF IInv, RecordsInv, StartInv, OrderInv
<1>5. work' \in [Controllers -> Works]
  <2>1. \A c \in Controllers : (c \in run) \in BOOLEAN
    OBVIOUS
  <2>2. \A c \in Controllers : [work[c] EXCEPT !.queue = c \in run] \in Works
    BY <1>4, <2>1 DEF Works
  <2> QED
    BY <1>2, <2>2
<1>6. \A c \in Controllers : c \notin proc'.running => work'[c] = IdleWork'[c]
  <2> SUFFICES ASSUME NEW c \in Controllers, c \notin run
               PROVE  work'[c] = IdleWork[c]
    BY <1>3 DEF IdleWork
  <2>1. (c \in run) = FALSE
    OBVIOUS
  <2>2. work'[c] = [IdleWork[c] EXCEPT !.queue = c \in run]
    BY <1>2, <1>4
  <2>3. work'[c] = [IdleWork[c] EXCEPT !.queue = FALSE]
    BY <2>1, <2>2, Zenon
  <2> QED
    BY <2>3 DEF IdleWork
<1>7. StartInv'
  BY <1>2, <1>3 DEF IInv, StartInv, OrderInv, CacheInv
<1> QED
  BY <1>2, <1>3, <1>5, <1>6, <1>7 DEF IInv, RecordsInv

LEMMA FlagsInv ==
    ASSUME IInv, SetupWithFlagValue
    PROVE  IInv'
<1> DEFINE next == [proc EXCEPT !.pc = "gates"]
<1>1. /\ proc.pc = "flags"
      /\ UNCHANGED <<setup, cm, cmLister, cluster, degraded>>
      /\ Exit \/ (proc' = next /\ work' = work)
  BY AskFacts DEF SetupWithFlagValue
<1>2. /\ next \in Processes /\ next.running = proc.running /\ next.pc = "gates"
      /\ next.manager = proc.manager
  BY DEF IInv, RecordsInv, Processes, Points
<1> HIDE DEF next
<1>3. proc' = next => StartInv'
  BY <1>1, <1>2 DEF IInv, StartInv, OrderInv, CacheInv
<1> QED
  BY <1>1, <1>2, <1>3, ExitInv, GetsOn

LEMMA GatesInv ==
    ASSUME IInv, NewFeatureGateState
    PROVE  IInv'
<1> DEFINE wait == cluster.outage /\ ~LastAttempt(proc.attempt)
           p == IF wait THEN "wait" ELSE "manager"
           next == [proc EXCEPT !.pc = p]
<1>1. /\ proc.pc = "gates"
      /\ UNCHANGED <<setup, cm, cmLister, cluster, degraded>>
      /\ Exit \/ (proc' = next /\ work' = work)
  BY DEF NewFeatureGateState, Ask, Untouched
<1>2. p \in {"wait", "manager"} /\ (p = "wait" => proc.attempt # maxFeatureGateAttempts)
  BY DEF LastAttempt
<1> HIDE DEF p
<1>3. /\ next \in Processes /\ next.running = proc.running /\ next.pc = p
      /\ next.manager = proc.manager
      /\ next.attempt = proc.attempt
  BY <1>2 DEF IInv, RecordsInv, Processes, Points
<1>4. p = "wait" => next.attempt < maxFeatureGateAttempts
  <2>1. proc.attempt \in 1..maxFeatureGateAttempts
    BY DEF IInv, RecordsInv, Processes
  <2> QED
    BY <1>2, <1>3, <2>1 DEF maxFeatureGateAttempts
<1> HIDE DEF next
<1>5. proc' = next => StartInv'
  BY <1>1, <1>2, <1>3, <1>4 DEF IInv, StartInv, OrderInv, CacheInv
<1> QED
  BY <1>1, <1>3, <1>5, ExitInv, GetsOn

LEMMA DelayInv ==
    ASSUME IInv, FeatureGateRetryDelay
    PROVE  IInv'
<1> DEFINE next == [proc EXCEPT !.pc = "gates", !.attempt = @ + 1]
<1>1. /\ proc.pc = "wait"
      /\ UNCHANGED <<setup, cm, cmLister, cluster, degraded>>
      /\ Exit \/ (proc' = next /\ work' = work)
  BY AskFacts DEF FeatureGateRetryDelay
<1>2. proc.attempt + 1 \in 1..maxFeatureGateAttempts
  <2>1. proc.attempt \in 1..maxFeatureGateAttempts /\ proc.attempt < maxFeatureGateAttempts
    BY <1>1 DEF IInv, RecordsInv, Processes, StartInv, OrderInv
  <2> QED
    BY <2>1 DEF maxFeatureGateAttempts
<1>3. /\ next \in Processes /\ next.running = proc.running /\ next.pc = "gates"
      /\ next.manager = proc.manager
  BY <1>2 DEF IInv, RecordsInv, Processes, Points
<1> HIDE DEF next
<1>4. proc' = next => StartInv'
  BY <1>1, <1>3 DEF IInv, StartInv, OrderInv, CacheInv
<1> QED
  BY <1>1, <1>3, <1>4, ExitInv, GetsOn

LEMMA ManagerInv ==
    ASSUME IInv, NewControllerManager
    PROVE  IInv'
<1> DEFINE enabled == Enabled(setup.flag)
           istio == "IstioCSR" \in enabled
           m == IF enabled = {} THEN "none" ELSE "starting"
           tls == IF istio THEN ResolveIstioCSRTLSConfig(cluster.tls) ELSE Skip
           list == BuildCacheObjectList(enabled)
           next == [proc EXCEPT !.pc = "running", !.manager = m, !.istioTLS = tls, !.cache = list]
<1>1. /\ proc.pc = "manager"
      /\ UNCHANGED <<setup, cm, cmLister, cluster, degraded>>
      /\ Exit \/ (proc' = next /\ work' = work)
  BY AskFacts DEF NewControllerManager
<1>2. m \in {"none", "starting"} /\ tls \in Profiles /\ list \in Caches
  <2>1. enabled \in SUBSET Features
    BY DEF Enabled
  <2>2. list \in Caches
    BY <2>1 DEF Caches
  <2>3. tls \in Profiles
    BY ResolutionType, OneResolution DEF Profiles
  <2> QED
    BY <2>2, <2>3
<1> HIDE DEF m, tls, list, istio
<1>4. /\ next \in Processes /\ next.running = proc.running /\ next.pc = "running"
      /\ next.manager = m
      /\ next.cache = list
  BY <1>2 DEF IInv, RecordsInv, Processes, Points
<1> HIDE DEF next
<1>5. proc' = next => StartInv'
  <2> SUFFICES ASSUME proc' = next PROVE StartInv'
    OBVIOUS
  <2>1. OrderInv'
    BY <1>4 DEF OrderInv
  <2>2. CacheInv'
    BY <1>1, <1>4 DEF CacheInv, list
  <2> QED
    BY <2>1, <2>2 DEF StartInv
<1> QED
  BY <1>1, <1>4, <1>5, ExitInv, GetsOn

(* The manager starts, or ends with an error.                              *)
LEMMA ManagerStateInv ==
    ASSUME IInv, NEW m \in {"started", "failed"}, proc.manager # "none",
           proc' = [proc EXCEPT !.manager = m],
           UNCHANGED <<setup, cm, cmLister, cluster, work, degraded>>
    PROVE  IInv'
<1>1. /\ proc' \in Processes /\ proc'.running = proc.running /\ proc'.pc = proc.pc
      /\ proc'.manager = m
      /\ proc'.cache = proc.cache /\ proc'.istioTLS = proc.istioTLS
      /\ proc'.attempt = proc.attempt
  BY DEF IInv, RecordsInv, Processes
<1>2. StartInv'
  BY <1>1 DEF IInv, StartInv, OrderInv, CacheInv
<1> QED
  BY <1>1, <1>2, GetsOn

(* Every step of the start.                                                *)
LEMMA StartStepInv ==
    ASSUME IInv, Start
    PROVE  IInv'
<1>1. CASE StartManager
  BY <1>1, ManagerStateInv DEF StartManager, Untouched
<1> QED
  BY <1>1, LaunchInv, ServingInv, InfrastructureInv, ConsoleInv, StartControllersInv,
     FlagsInv, GatesInv, DelayInv, ManagerInv
  DEF Start

-----------------------------------------------------------------------------
(***************************************************************************)
(* The steps of the small controllers.                                     *)
(***************************************************************************)
Items == Resources \X ({Absent} \cup PolicySpecs)

(* A step of one controller.                                               *)
LEMMA WorkStepInv ==
    ASSUME IInv, NEW c \in proc.running, NEW v \in Works, work' = [work EXCEPT ![c] = v],
           UNCHANGED <<Outside, cm>>, degraded' \in BOOLEAN
    PROVE  IInv'
<1>1. c \in Controllers
  BY DEF IInv, RecordsInv, Processes
<1>2. work' \in [Controllers -> Works]
  BY <1>1 DEF IInv, RecordsInv
<1>3. \A d \in Controllers : d \notin proc'.running => work'[d] = IdleWork'[d]
  BY <1>1 DEF IInv, RecordsInv, Outside, IdleWork
<1>4. StartInv'
  BY SameStart DEF Outside
<1> QED
  BY <1>2, <1>3, <1>4 DEF IInv, RecordsInv, Outside

(* The events of a network policy reach controllers that run.              *)
LEMMA WokenFacts ==
    ASSUME IInv, NEW wk \in [Controllers -> Works], NEW r,
           \A c \in Controllers : c \notin proc.running => wk[c] = IdleWork[c]
    PROVE  /\ Woken(wk, r) \in [Controllers -> Works]
           /\ \A c \in Controllers : c \notin proc.running => Woken(wk, r)[c] = IdleWork[c]
<1>1. \A c \in Controllers : [wk[c] EXCEPT !.queue = TRUE] \in Works
  BY DEF Works
<1> QED
  BY <1>1 DEF Woken

LEMMA PolicyTypes == Shipped \in PolicySpecs /\ Foreign \in PolicySpecs
BY DEF PolicySpecs

(* The user-defined policies of a CertManager that passes the validation.  *)
LEMMA UserSyncInv ==
    ASSUME IInv, UserSync
    PROVE  IInv'
<1> DEFINE w == [work["user"] EXCEPT !.queue = FALSE]
           todo == AllOf(cmLister.networkPolicies, CreateUserNetworkPolicy)
           v == IF cmLister = Absent THEN w
                ELSE IF cmLister.defaultNetworkPolicy # "true" THEN w
                ELSE IF ~ValidateNetworkPolicyConfig(cmLister.networkPolicies)
                     THEN [w EXCEPT !.queue = TRUE]
                     ELSE [w EXCEPT !.pc = "apply", !.todo = todo]
<1>1. /\ "user" \in proc.running /\ work' = [work EXCEPT !["user"] = v]
      /\ UNCHANGED <<Outside, cm, degraded>>
  BY DEF UserSync, Syncing
<1>2. "user" \in Controllers /\ work["user"] \in Works
  BY DEF IInv, RecordsInv, Controllers
<1>3. w \in Works /\ [w EXCEPT !.queue = TRUE] \in Works
  BY <1>2 DEF Works
<1>4. ASSUME cmLister # Absent, ValidateNetworkPolicyConfig(cmLister.networkPolicies)
      PROVE  [w EXCEPT !.pc = "apply", !.todo = todo] \in Works
  <2> DEFINE P == [name : PolicyNames \cup {Empty}, componentName : STRING, egress : STRING]
             ps == cmLister.networkPolicies
  <2>1. ps \in Seq(P)
    <3>1. CASE cmLister = DefaultCertManager
      <4>1. ps = << >>
        BY <3>1 DEF DefaultCertManager
      <4> QED
        BY <4>1, ElementFacts
    <3>2. CASE cmLister \in setup.specs
      BY <3>2, SetupsAssumption DEF IInv, RecordsInv
    <3> QED
      BY <1>4, <3>1, <3>2 DEF IInv, RecordsInv
  <2>2. \A i \in DOMAIN ps : CreateUserNetworkPolicy(ps[i]) \in Items
    <3> SUFFICES ASSUME NEW i \in DOMAIN ps
                 PROVE  CreateUserNetworkPolicy(ps[i]) \in Items
      OBVIOUS
    <3>1. ps[i] \in P
      BY <2>1, ElementFacts
    <3>2. ps[i].name \in PolicyNames /\ ps[i].componentName \in {"CoreController", "CAInjector", "Webhook"}
          /\ ps[i].egress \in STRING
      BY <1>4, <3>1 DEF ValidateNetworkPolicyConfig, ValidateComponentName
    <3>3. UserPolicy(ps[i].name) \in Resources
      BY <3>2 DEF Resources, Policies
    <3>4. GetPodSelectorForComponent[ps[i].componentName] \in {"cert-manager", "cainjector", "webhook"}
      BY <3>2 DEF GetPodSelectorForComponent
    <3> QED
      BY <3>2, <3>3, <3>4 DEF CreateUserNetworkPolicy, Items, PolicySpecs
  <2>3. todo = [i \in DOMAIN ps |-> CreateUserNetworkPolicy(ps[i])]
    BY DEF AllOf
  <2> HIDE DEF ps, P, todo
  <2>4. todo \in Seq(Items)
    BY <2>1, <2>2, <2>3, ItemsType
  <2> QED
    BY <1>3, <2>4 DEF Works, Items
<1>5. v \in Works
  BY <1>3, <1>4
<1>6. degraded' \in BOOLEAN
  BY <1>1 DEF IInv, RecordsInv
<1> HIDE DEF v
<1> QED
  BY <1>1, <1>5, <1>6, WorkStepInv

LEMMA ConsoleSyncInv ==
    ASSUME IInv, ConsoleSync
    PROVE  IInv'
<1> DEFINE l == Listed(ConsoleAssets)
           todo == AllOf(l, LAMBDA a : <<Console(a), Shipped>>)
           v == [work["console"] EXCEPT !.queue = FALSE, !.pc = "apply", !.todo = todo]
<1>1. "console" \in Controllers /\ work["console"] \in Works /\ DOMAIN work = Controllers
  BY DEF IInv, RecordsInv, Controllers
<1>2. /\ "console" \in proc.running /\ work' = [work EXCEPT !["console"] = v]
      /\ UNCHANGED <<Outside, cm, degraded>>
  BY <1>1 DEF ConsoleSync, Syncing
<1>3. todo \in Seq(Items)
  <2>1. l \in Seq(ConsoleAssets)
    BY ListedType, AssetsAssumption
  <2>2. \A a \in ConsoleAssets : <<Console(a), Shipped>> \in Items
    BY PolicyTypes DEF Items, Resources
  <2>3. todo = [i \in DOMAIN l |-> <<Console(l[i]), Shipped>>]
    BY DEF AllOf
  <2> HIDE DEF l, todo
  <2>4. \A i \in DOMAIN l : l[i] \in ConsoleAssets
    BY <2>1, ElementFacts
  <2> QED
    BY <2>1, <2>2, <2>3, <2>4, ItemsType
<1> HIDE DEF todo
<1>4. v \in Works
  BY <1>1, <1>3 DEF Works, Items
<1>5. degraded' \in BOOLEAN
  BY <1>2 DEF IInv, RecordsInv
<1> HIDE DEF v
<1> QED
  BY <1>2, <1>4, <1>5, WorkStepInv

LEMMA StaticSyncInv ==
    ASSUME IInv, StaticSync
    PROVE  IInv'
<1> DEFINE w == [work["static"] EXCEPT !.queue = FALSE]
           v == IF cmLister = Absent THEN [w EXCEPT !.queue = TRUE]
                ELSE IF cmLister.managementState = "Unmanaged" THEN w
                ELSE [w EXCEPT !.pc = "create"]
<1>1. "static" \in Controllers /\ work["static"] \in Works
  BY DEF IInv, RecordsInv, Controllers
<1>2. /\ "static" \in proc.running /\ work' = [work EXCEPT !["static"] = v]
      /\ UNCHANGED <<Outside, cm, degraded>>
  BY DEF StaticSync, Syncing
<1>3. w \in Works /\ [w EXCEPT !.queue = TRUE] \in Works /\ [w EXCEPT !.pc = "create"] \in Works
  BY <1>1 DEF Works
<1>4. v \in Works
  BY <1>3
<1>5. degraded' \in BOOLEAN
  BY <1>2 DEF IInv, RecordsInv
<1> HIDE DEF v
<1> QED
  BY <1>2, <1>4, <1>5, WorkStepInv

LEMMA StaticShouldCreateInv ==
    ASSUME IInv, StaticShouldCreate
    PROVE  IInv'
<1> DEFINE v == [work["static"] EXCEPT !.pc = "delete", !.create = ShouldApplyNetworkPolicies]
<1>1. "static" \in Controllers /\ work["static"] \in Works /\ DOMAIN work = Controllers
  BY DEF IInv, RecordsInv, Controllers
<1>2. /\ "static" \in proc.running /\ work' = [work EXCEPT !["static"] = v]
      /\ UNCHANGED <<Outside, cm, degraded>>
  BY <1>1 DEF StaticShouldCreate, Syncing
<1>3. ShouldApplyNetworkPolicies \in BOOLEAN
  BY DEF ShouldApplyNetworkPolicies
<1>4. v \in Works
  BY <1>1, <1>3 DEF Works
<1>5. degraded' \in BOOLEAN
  BY <1>2 DEF IInv, RecordsInv
<1> HIDE DEF v
<1> QED
  BY <1>2, <1>4, <1>5, WorkStepInv

LEMMA StaticShouldDeleteInv ==
    ASSUME IInv, StaticShouldDelete
    PROVE  IInv'
<1> DEFINE create == work["static"].create
           delete == ~ShouldApplyNetworkPolicies
           l == Listed(DefaultPolicies)
           All(content) == AllOf(l, LAMBDA p : <<Default(p), content>>)
           todo == IF create = delete THEN << >> ELSE All(IF create THEN Shipped ELSE Absent)
           v == [work["static"] EXCEPT !.pc = "apply", !.err = create /\ delete, !.todo = todo]
<1>1. "static" \in Controllers /\ work["static"] \in Works /\ DOMAIN work = Controllers
  BY DEF IInv, RecordsInv, Controllers
<1>2. /\ "static" \in proc.running /\ work' = [work EXCEPT !["static"] = v]
      /\ UNCHANGED <<Outside, cm, degraded>>
  BY <1>1 DEF StaticShouldDelete, Syncing
<1>3. ASSUME NEW content \in {Shipped, Absent}
      PROVE  All(content) \in Seq(Items)
  <2>1. l \in Seq(DefaultPolicies)
    BY ListedType, AssetsAssumption
  <2>2. \A p \in DefaultPolicies : <<Default(p), content>> \in Items
    BY PolicyTypes DEF Items, Resources, Policies
  <2>3. All(content) = [i \in DOMAIN l |-> <<Default(l[i]), content>>]
    BY DEF AllOf
  <2> HIDE DEF l, All
  <2>4. \A i \in DOMAIN l : l[i] \in DefaultPolicies
    BY <2>1, ElementFacts
  <2> QED
    BY <2>1, <2>2, <2>3, <2>4, ItemsType
<1> HIDE DEF All
<1>4. todo \in Seq(Items)
  BY <1>3, ElementFacts
<1>5. (create /\ delete) \in BOOLEAN
  OBVIOUS
<1> HIDE DEF todo, create, delete
<1>6. v \in Works
  BY <1>1, <1>4, <1>5 DEF Works, Items
<1>7. degraded' \in BOOLEAN
  BY <1>2 DEF IInv, RecordsInv
<1> HIDE DEF v
<1> QED
  BY <1>2, <1>6, <1>7, WorkStepInv

(* One object is applied: its events may wake others.                      *)
LEMMA ApplyInv ==
    ASSUME IInv, NEW c \in Controllers, Apply(c)
    PROVE  IInv'
<1> DEFINE todo == work[c].todo
           r == Head(todo)[1]
           rest == [work EXCEPT ![c].todo = Tail(@)]
           after == [work EXCEPT ![c].todo = AfterError(c, @), ![c].err = TRUE]
<1>1. c \in proc.running /\ todo # << >> /\ UNCHANGED <<Outside, cm, degraded>>
      /\ (work' = after \/ work' = rest \/ work' = Woken(rest, r))
  BY DEF Apply, Syncing
<1>2. work[c] \in Works /\ todo \in Seq(Items) /\ work \in [Controllers -> Works]
  BY DEF IInv, RecordsInv, Works, Items
<1>3. Tail(todo) \in Seq(Items)
  BY <1>1, <1>2
<1>4. AfterError(c, todo) \in Seq(Items)
  BY <1>3, ElementFacts DEF AfterError
<1>5. [work[c] EXCEPT !.todo = Tail(todo)] \in Works
  BY <1>2, <1>3 DEF Works, Items
<1>6. [work[c] EXCEPT !.todo = AfterError(c, todo), !.err = TRUE] \in Works
  BY <1>2, <1>4 DEF Works, Items
<1>7. /\ rest = [work EXCEPT ![c] = [work[c] EXCEPT !.todo = Tail(todo)]]
      /\ after = [work EXCEPT ![c] = [work[c] EXCEPT !.todo = AfterError(c, todo), !.err = TRUE]]
  BY <1>2
<1> HIDE DEF rest, after, r, todo
<1>8. degraded' \in BOOLEAN
  BY <1>1 DEF IInv, RecordsInv
<1>9. CASE work' = after
  BY <1>1, <1>6, <1>7, <1>8, <1>9, WorkStepInv
<1>10. CASE work' = rest
  BY <1>1, <1>5, <1>7, <1>8, <1>10, WorkStepInv
<1>11. CASE work' = Woken(rest, r)
  <2>1. rest \in [Controllers -> Works]
    BY <1>2, <1>5, <1>7
  <2>2. \A d \in Controllers : d \notin proc.running => rest[d] = IdleWork[d]
    BY <1>1, <1>2, <1>7 DEF IInv, RecordsInv
  <2>3. /\ work' \in [Controllers -> Works]
        /\ \A d \in Controllers : d \notin proc.running => work'[d] = IdleWork[d]
    BY <1>11, <2>1, <2>2, WokenFacts
  <2>4. StartInv'
    BY <1>1, SameStart DEF Outside
  <2> QED
    BY <1>1, <1>8, <2>3, <2>4 DEF IInv, RecordsInv, Outside, IdleWork
<1> QED
  BY <1>1, <1>9, <1>10, <1>11

LEMMA FinishInv ==
    ASSUME IInv, NEW c \in Controllers, Finish(c)
    PROVE  IInv'
<1> DEFINE unreported == c = "static" /\ (cm = Absent \/ cluster.outage)
           v == Done(c, Failed(c) \/ unreported)
<1>1. /\ c \in proc.running /\ work' = [work EXCEPT ![c] = v]
      /\ UNCHANGED <<Outside, cm, store>>
      /\ degraded' = IF c = "static" /\ ~unreported THEN work[c].err ELSE degraded
  BY DEF Finish, Syncing
<1>2. work[c] \in Works /\ IdleWork[c] \in Works /\ degraded \in BOOLEAN
  BY IdleWorkType DEF IInv, RecordsInv
<1>3. degraded' \in BOOLEAN
  BY <1>1, <1>2 DEF Works
<1>4. (work[c].queue \/ (Failed(c) \/ unreported)) \in BOOLEAN
  OBVIOUS
<1> HIDE DEF unreported
<1>5. v \in Works
  BY <1>2, <1>4 DEF Done, Works
<1> HIDE DEF v
<1> QED
  BY <1>1, <1>3, <1>5, WorkStepInv

LEMMA ResyncInv ==
    ASSUME IInv, NEW c \in Controllers, Resync(c)
    PROVE  IInv'
<1> DEFINE v == [work[c] EXCEPT !.queue = TRUE]
<1>1. work[c] \in Works /\ DOMAIN work = Controllers
  BY DEF IInv, RecordsInv
<1>2. /\ c \in proc.running /\ work' = [work EXCEPT ![c] = v]
      /\ UNCHANGED <<Outside, cm, degraded>>
  BY <1>1 DEF Resync, Syncing
<1>3. v \in Works
  BY <1>1 DEF Works
<1>4. degraded' \in BOOLEAN
  BY <1>2 DEF IInv, RecordsInv
<1> HIDE DEF v
<1> QED
  BY <1>2, <1>3, <1>4, WorkStepInv

LEMMA StepInv ==
    ASSUME IInv, NEW c \in Controllers, Step(c)
    PROVE  IInv'
BY ApplyInv, FinishInv, StaticSyncInv, StaticShouldCreateInv, StaticShouldDeleteInv,
   UserSyncInv, ConsoleSyncInv
DEF Step

(* The lister hears of the CertManager.                                    *)
LEMMA DeliverInv ==
    ASSUME IInv, Deliver
    PROVE  IInv'
<1>1. /\ cmLister' = cm /\ UNCHANGED <<setup, cluster, cm, proc, degraded>>
      /\ work' = [c \in Controllers |-> [work[c] EXCEPT !.queue = @ \/ c \in proc.running]]
  BY DEF Deliver
<1>2. work \in [Controllers -> Works]
  BY DEF IInv, RecordsInv
<1>3. work' \in [Controllers -> Works]
  <2>1. \A c \in Controllers :
            [work[c] EXCEPT !.queue = work[c].queue \/ c \in proc.running] \in Works
    BY <1>2 DEF Works
  <2> QED
    BY <1>1, <2>1
<1>4. \A c \in Controllers : c \notin proc'.running => work'[c] = IdleWork'[c]
  <2> SUFFICES ASSUME NEW c \in Controllers, c \notin proc.running
               PROVE  work'[c] = IdleWork[c]
    BY <1>1 DEF IdleWork
  <2>1. work[c] = IdleWork[c]
    BY DEF IInv, RecordsInv
  <2>2. (IdleWork[c].queue \/ c \in proc.running) = FALSE
    BY DEF IdleWork
  <2>3. work'[c] = [IdleWork[c] EXCEPT !.queue = IdleWork[c].queue \/ c \in proc.running]
    BY <1>1, <2>1
  <2>4. work'[c] = [IdleWork[c] EXCEPT !.queue = FALSE]
    BY <2>2, <2>3, Zenon
  <2> QED
    BY <2>4 DEF IdleWork
<1>5. StartInv'
  BY <1>1, SameStart
<1> QED
  BY <1>1, <1>3, <1>4, <1>5 DEF IInv, RecordsInv

-----------------------------------------------------------------------------
(***************************************************************************)
(* The world, and the theorems.                                            *)
(***************************************************************************)

(* Steps that leave the process and its controllers alone.                 *)
LEMMA OutsideInv ==
    ASSUME IInv, UNCHANGED <<setup, cmLister, proc, work, degraded>>,
           cm' \in {Absent, DefaultCertManager} \cup setup.specs,
           cluster' \in [console : BOOLEAN, tls : setup.profiles, outage : BOOLEAN]
    PROVE  IInv'
<1>1. \A c \in Controllers : c \notin proc'.running => work'[c] = IdleWork'[c]
  BY DEF IInv, RecordsInv, IdleWork
<1> QED
  BY <1>1, SameStart DEF IInv, RecordsInv

LEMMA DriftInv ==
    ASSUME IInv, Drift
    PROVE  IInv'
<1>1. PICK r : work' = Woken(work, r)
  BY DEF Drift
<1>2. UNCHANGED <<setup, cluster, cm, cmLister, proc, degraded>>
  BY DEF Drift
<1>3. /\ work' \in [Controllers -> Works]
      /\ \A d \in Controllers : d \notin proc.running => work'[d] = IdleWork[d]
  BY <1>1, WokenFacts DEF IInv, RecordsInv
<1> QED
  BY <1>2, <1>3, SameStart DEF IInv, RecordsInv, IdleWork

(* The profile changes, or a console appears.                              *)
LEMMA ClusterChangesInv ==
    ASSUME IInv, ClusterChanges
    PROVE  IInv'
<1>1. /\ cluster' \in {[cluster EXCEPT !.tls = t] : t \in setup.profiles}
                      \cup {[cluster EXCEPT !.console = TRUE]}
      /\ UNCHANGED <<setup, cm, cmLister, proc, work, degraded>>
  BY DEF ClusterChanges
<1>2. cluster' \in [console : BOOLEAN, tls : setup.profiles, outage : BOOLEAN]
  BY <1>1 DEF IInv, RecordsInv
<1> QED
  BY <1>1, <1>2, OutsideInv DEF IInv, RecordsInv

LEMMA InitInv == Init => IInv
<1> SUFFICES ASSUME Init PROVE IInv
  OBVIOUS
<1>1. cluster \in [console : BOOLEAN, tls : setup.profiles, outage : BOOLEAN]
  <2>1. PICK t \in setup.profiles : cluster = [console |-> setup.console, tls |-> t, outage |-> FALSE]
    BY DEF Init
  <2>2. setup.console \in BOOLEAN
    BY SetupsAssumption DEF Init
  <2> QED
    BY <2>1, <2>2
<1>2. RecordsInv
  BY <1>1, DownType, IdleWorkType DEF Init, RecordsInv
<1>3. StartInv
  BY DEF Init, Down, StartInv, OrderInv, CacheInv
<1> QED
  BY <1>2, <1>3 DEF IInv

LEMMA NextInv ==
    ASSUME IInv, [Next]_vars
    PROVE  IInv'
<1>0. /\ cm \in {Absent, DefaultCertManager} \cup setup.specs
      /\ cluster \in [console : BOOLEAN, tls : setup.profiles, outage : BOOLEAN]
  BY DEF IInv, RecordsInv
<1>1. CASE Start
  BY <1>1, StartStepInv
<1>2. ASSUME NEW c \in Controllers, Step(c) \/ Resync(c)
      PROVE  IInv'
  BY <1>2, StepInv, ResyncInv
<1>3. CASE CreateDefaultCertManager
  BY <1>0, <1>3, OutsideInv DEF CreateDefaultCertManager, Outside
<1>4. CASE Deliver
  BY <1>4, DeliverInv
<1>5. CASE Outage \/ OutageEnds
  <2>1. /\ cluster' = [cluster EXCEPT !.outage = TRUE] \/ cluster' = [cluster EXCEPT !.outage = FALSE]
        /\ UNCHANGED <<setup, cm, cmLister, proc, work, degraded>>
    BY <1>5 DEF Outage, OutageEnds
  <2>2. cluster' \in [console : BOOLEAN, tls : setup.profiles, outage : BOOLEAN]
    BY <1>0, <2>1
  <2> QED
    BY <1>0, <2>1, <2>2, OutsideInv
<1>6. CASE UserWrites \/ UserDeletes
  BY <1>0, <1>6, OutsideInv DEF UserWrites, UserDeletes
<1>7. CASE Drift
  BY <1>7, DriftInv
<1>8. CASE ClusterChanges
  BY <1>8, ClusterChangesInv
<1>9. CASE Terminate
  BY <1>9, ExitInv DEF Terminate
<1>10. CASE ManagerFails
  BY <1>10, ManagerStateInv DEF ManagerFails
<1>11. CASE UNCHANGED vars
  BY <1>0, <1>11, OutsideInv DEF vars
<1> QED
  BY <1>1, <1>2, <1>3, <1>4, <1>5, <1>6, <1>7, <1>8, <1>9, <1>10, <1>11 DEF Next

LEMMA AlwaysIInv == Spec => []IInv
<1>1. Init => IInv
  BY InitInv
<1>2. IInv /\ [Next]_vars => IInv'
  BY NextInv
<1> QED
  BY <1>1, <1>2, PTL DEF Spec

(* The variables keep their types, for every installation.                 *)
THEOREM TypeCorrect == Spec => []TypeOK
<1>1. IInv => TypeOK
  <2> SUFFICES ASSUME IInv PROVE TypeOK
    OBVIOUS
  <2>1. /\ proc.pc \in Points /\ proc.attempt \in 1..maxFeatureGateAttempts
        /\ proc.running \subseteq Controllers
        /\ proc.manager \in {"none", "starting", "started", "failed"}
    BY DEF IInv, RecordsInv, Processes
  <2>2. ASSUME NEW c \in Controllers
        PROVE  /\ work[c].pc \in {"idle", "create", "delete", "apply"}
               /\ \A i \in DOMAIN work[c].todo : work[c].todo[i][1] \in Resources
    <3>1. work[c].pc \in {"idle", "create", "delete", "apply"} /\ work[c].todo \in Seq(Items)
      BY DEF IInv, RecordsInv, Works, Items
    <3>2. \A i \in DOMAIN work[c].todo : work[c].todo[i] \in Items
      BY <3>1, ElementFacts
    <3> QED
      BY <3>1, <3>2 DEF Items
  <2> QED
    BY <2>1, <2>2 DEF IInv, RecordsInv, TypeOK, Points
<1> QED
  BY <1>1, AlwaysIInv, PTL

(* Whichever controllers the flag enables, the cache that                  *)
(* buildCacheObjectList sets up hides nothing that any of them reads, from *)
(* the creation of the manager to the end of the process.                  *)
THEOREM CacheIsComplete == Spec => []EveryReadIsCached
<1>1. IInv => EveryReadIsCached
  <2>1. Enabled(setup.flag) \in SUBSET Features
    BY DEF Enabled
  <2> QED
    BY <2>1, CacheHidesNothing DEF IInv, StartInv, CacheInv, EveryReadIsCached
<1> QED
  BY <1>1, AlwaysIInv, PTL

=============================================================================
