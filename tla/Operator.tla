------------------------------ MODULE Operator ------------------------------
(***************************************************************************)
(* The life of the operator process (pkg/cmd/operator, pkg/operator/       *)
(* starter.go and setup_manager.go, pkg/features) and the small            *)
(* controllers it starts: the default CertManager, the default and the     *)
(* user-defined network policies, the console resources                    *)
(* (pkg/controller/certmanager).                                           *)
(*                                                                         *)
(* Every question the start asks the API server is a step of its own.  A   *)
(* start that fails ends the process, and the kubelet starts another one.  *)
(* The controllers already work while the start goes on.                   *)
(***************************************************************************)
EXTENDS CacheConfig, ContainerArgs, FiniteSets

CONSTANTS
    Absent,             \* an object that does not exist
    Malformed,          \* a value of --unsupported-addon-features
    Setups,             \* the installations considered: see setup
    DefaultPolicies,    \* certManagerNetworkPolicyAssetFiles
    ConsoleAssets,      \* yamlSampleAssetFiles and quickStartAssetFiles
    PolicyNames         \* names of user-defined network policies

ASSUME AssetsAssumption == IsFiniteSet(DefaultPolicies) /\ IsFiniteSet(ConsoleAssets)

(* What users may write into a CertManager: a list of named policies.      *)
ASSUME SetupsAssumption ==
    \A s \in Setups :
        /\ s.openshift \in BOOLEAN /\ s.console \in BOOLEAN
        /\ \A c \in s.specs :
            c.networkPolicies \in Seq([name : PolicyNames \cup {Empty},
                                      componentName : STRING, egress : STRING])

VARIABLES
    setup,          \* flags, specs of users, APIs and profiles, interferences
    cluster,        \* what the start asks for: APIs, APIServer, an outage
    cm, cmLister,   \* the CertManager, and its copy in the lister
    store,          \* network policies and console resources
    proc,           \* the operator process
    work,           \* its small controllers
    degraded,       \* the Degraded condition of the static controller
    disturb         \* interferences so far

vars == <<setup, cluster, cm, cmLister, store, proc, work, degraded, disturb>>

Controllers == {"static", "user", "console"}
UserPolicy(n) == <<"cert-manager-user", n>>
Default(p) == <<"default", p>>
Console(a) == <<"console", a>>
Policies == {Default(p) : p \in DefaultPolicies} \cup {UserPolicy(n) : n \in PolicyNames}
Resources == Policies \cup {Console(a) : a \in ConsoleAssets}

(* The content of a resource: as in the manifest, or as somebody else has  *)
(* it.                                                                     *)
Shipped == [podSelector |-> "shipped", egress |-> "shipped"]
Foreign == [podSelector |-> "foreign", egress |-> "foreign"]

(* createDefaultCertManager.                                               *)
DefaultCertManager ==
    [managementState |-> "Managed", defaultNetworkPolicy |-> "", networkPolicies |-> << >>]

(* OperatorFeatureGates and SetupWithFlagValue.                            *)
DefaultFeatureGate == [IstioCSR |-> TRUE, TrustManager |-> FALSE]
Enabled(flag) ==
    {f \in Features : IF f \in DOMAIN flag THEN flag[f] ELSE DefaultFeatureGate[f]}

maxFeatureGateAttempts == 3

Down ==
    [pc |-> "down", infra |-> FALSE, console |-> FALSE, attempt |-> 1,
     serving |-> Skip, istioTLS |-> Skip, cache |-> EmptyConfig, manager |-> "none",
     running |-> {}]

IdleWork == [c \in Controllers |-> [pc |-> "idle", queue |-> FALSE, create |-> FALSE,
                                    todo |-> << >>, err |-> FALSE]]

Init ==
    /\ setup \in Setups
    /\ cluster \in {[console |-> setup.console, tls |-> t, outage |-> FALSE] :
                        t \in setup.profiles}
    /\ cm \in {Absent} \cup setup.specs
    /\ cmLister = cm
    /\ store = [r \in Resources |-> Absent]
    /\ proc = Down
    /\ work = IdleWork
    /\ degraded = FALSE
    /\ disturb = 0

-----------------------------------------------------------------------------
(***************************************************************************)
(* The start.                                                              *)
(***************************************************************************)
Untouched == <<setup, cm, store, degraded, disturb>>

(* The process is gone, and its controllers with it.                       *)
Exit == proc' = Down /\ work' = IdleWork

Launch ==
    /\ proc.pc = "down"
    /\ proc' = [Down EXCEPT !.pc = "serving"]
    /\ UNCHANGED <<Untouched, cluster, cmLister, work>>

(* A step of the start asks the API server, or ends the process.           *)
Ask(pc, fails, next) ==
    /\ proc.pc = pc
    /\ IF fails THEN Exit ELSE proc' = next /\ UNCHANGED work
    /\ UNCHANGED <<Untouched, cluster, cmLister>>

(* startControllerWithClusterTLS, ApplyClusterProfileToHTTPServingInfo.    *)
ApplyClusterProfileToHTTPServingInfo ==
    LET spec == ResolveHonoredTLSProfile(cluster.tls)
    IN  Ask("serving", cluster.outage \/ spec = ProfileError,
            [proc EXCEPT !.pc = "infra", !.serving = spec])

(* RunOperator: InitInformerIfAvailable.                                   *)
DiscoverInfrastructure ==
    Ask("infra", cluster.outage, [proc EXCEPT !.pc = "console", !.infra = setup.openshift])

DiscoverConsole ==
    Ask("console", cluster.outage,
        [proc EXCEPT !.pc = "controllers", !.console = cluster.console])

(* CertManagerControllerSet.ToArray: the console controller only with a    *)
(* console.                                                                *)
ToArray(console) == {"static", "user"} \cup (IF console THEN {"console"} ELSE {})

(* The informers list, and every controller has a first sync to do.        *)
StartControllers ==
    /\ proc.pc = "controllers"
    /\ proc' = [proc EXCEPT !.pc = "flags", !.running = ToArray(proc.console)]
    /\ work' = [c \in Controllers |->
                    [work[c] EXCEPT !.queue = c \in ToArray(proc.console)]]
    /\ cmLister' = cm
    /\ UNCHANGED <<Untouched, cluster>>

SetupWithFlagValue ==
    Ask("flags", setup.flag = Malformed, [proc EXCEPT !.pc = "gates"])

(* Variant: one attempt more.                                              *)
LastAttemptLate(n) == n > maxFeatureGateAttempts

LastAttempt(n) == n = maxFeatureGateAttempts

(* setupFeatureGates: the state of the cluster's feature gates is only     *)
(* recorded, and a failure to read it delays the start.                    *)
NewFeatureGateState ==
    Ask("gates", FALSE,
        [proc EXCEPT !.pc = IF cluster.outage /\ ~LastAttempt(proc.attempt)
                            THEN "wait" ELSE "manager"])

FeatureGateRetryDelay ==
    Ask("wait", FALSE, [proc EXCEPT !.pc = "gates", !.attempt = @ + 1])

(* Skip stands for TLSConfig{Honor: false}.                                *)
ResolveIstioCSRTLSConfig(apiServer) ==
    CASE apiServer = NoAPIServer -> Skip
      [] apiServer # NoAPIServer
            /\ ~ShouldHonorClusterTLSProfile(apiServer.adherence) -> Skip
      [] OTHER -> EffectiveSpec(apiServer.profile)

(* The profile is read for istio-csr alone.                                *)
NewControllerManager ==
    LET enabled == Enabled(setup.flag)
        spec == ResolveIstioCSRTLSConfig(cluster.tls)
        istio == "IstioCSR" \in enabled
    IN  Ask("manager", istio /\ (cluster.outage \/ spec = ProfileError),
            [proc EXCEPT !.pc = "running",
                         !.manager = IF enabled = {} THEN "none" ELSE "starting",
                         !.istioTLS = IF istio THEN spec ELSE Skip,
                         !.cache = BuildCacheObjectList(enabled)])

StartManager ==
    /\ proc.manager = "starting"
    /\ proc' = [proc EXCEPT !.manager = "started"]
    /\ UNCHANGED <<Untouched, cluster, cmLister, work>>

-----------------------------------------------------------------------------
(***************************************************************************)
(* The small controllers.  A sync works off a list of pairs of a resource  *)
(* and what it is to be.                                                   *)
(***************************************************************************)
Outside == <<setup, cluster, proc, cmLister, disturb>>

Syncing(c, pc) == c \in proc.running /\ work[c].pc = pc

(* sync returns: base_controller puts the key back after an error.         *)
Done(c, err) == [IdleWork[c] EXCEPT !.queue = work[c].queue \/ err]

Working(c, todo) == [work[c] EXCEPT !.pc = "apply", !.todo = todo]

ValidateComponentName(n) == n \in {"CoreController", "CAInjector", "Webhook"}

ValidateNetworkPolicyConfig(policies) ==
    \A i \in DOMAIN policies :
        policies[i].name # Empty /\ ValidateComponentName(policies[i].componentName)

GetPodSelectorForComponent ==
    [CoreController |-> "cert-manager", CAInjector |-> "cainjector", Webhook |-> "webhook"]

CreateUserNetworkPolicy(p) ==
    <<UserPolicy(p.name),
      [podSelector |-> GetPodSelectorForComponent[p.componentName], egress |-> p.egress]>>

AllOf(seq, F(_)) == [i \in DOMAIN seq |-> F(seq[i])]

(* The order of a list of assets.                                          *)
Listed(S) == CHOOSE seq \in [1..Cardinality(S) -> S] : {seq[i] : i \in DOMAIN seq} = S

(* One read of the lister, and the whole list or nothing.                  *)
UserSync ==
    /\ Syncing("user", "idle") /\ work["user"].queue
    /\ LET w == [work["user"] EXCEPT !.queue = FALSE]
           c == cmLister
       IN  work' = [work EXCEPT !["user"] =
            IF c = Absent THEN w
            ELSE IF c.defaultNetworkPolicy # "true" THEN w
            ELSE IF ~ValidateNetworkPolicyConfig(c.networkPolicies)
                 THEN [w EXCEPT !.queue = TRUE]
                 ELSE [w EXCEPT !.pc = "apply",
                                !.todo = AllOf(c.networkPolicies, CreateUserNetworkPolicy)]]
    /\ UNCHANGED <<Outside, cm, store, degraded>>

ConsoleSync ==
    /\ Syncing("console", "idle") /\ work["console"].queue
    /\ work' = [work EXCEPT !["console"].queue = FALSE,
                            !["console"].pc = "apply",
                            !["console"].todo =
                                AllOf(Listed(ConsoleAssets), LAMBDA a : <<Console(a), Shipped>>)]
    /\ UNCHANGED <<Outside, cm, store, degraded>>

(* StaticResourceController.Sync: the state of the operator first.         *)
StaticSync ==
    /\ Syncing("static", "idle") /\ work["static"].queue
    /\ LET w == [work["static"] EXCEPT !.queue = FALSE]
       IN  work' = [work EXCEPT !["static"] =
            IF cmLister = Absent THEN [w EXCEPT !.queue = TRUE]
            ELSE IF cmLister.managementState = "Unmanaged" THEN w
            ELSE [w EXCEPT !.pc = "create"]]
    /\ UNCHANGED <<Outside, cm, store, degraded>>

(* shouldApplyNetworkPolicies: no CertManager, no policies.                *)
ShouldApplyNetworkPolicies ==
    IF cmLister = Absent THEN FALSE ELSE cmLister.defaultNetworkPolicy = "true"

StaticShouldCreate ==
    /\ Syncing("static", "create")
    /\ work' = [work EXCEPT !["static"].pc = "delete",
                            !["static"].create = ShouldApplyNetworkPolicies]
    /\ UNCHANGED <<Outside, cm, store, degraded>>

(* WithConditionalResources: without a function of its own, deletion is    *)
(* asked for whenever creation is not.  Both at once is an error.          *)
StaticShouldDelete ==
    /\ Syncing("static", "delete")
    /\ LET create == work["static"].create
           delete == ~ShouldApplyNetworkPolicies
           All(content) == AllOf(Listed(DefaultPolicies), LAMBDA p : <<Default(p), content>>)
       IN  work' = [work EXCEPT !["static"] =
            [@ EXCEPT !.pc = "apply", !.err = create /\ delete,
                      !.todo = IF create = delete THEN << >>
                               ELSE All(IF create THEN Shipped ELSE Absent)]]
    /\ UNCHANGED <<Outside, cm, store, degraded>>

(* A changed network policy wakes the two controllers that watch them.     *)
Woken(wk, r) ==
    [c \in Controllers |->
        IF r \in Policies /\ c \in proc.running \ {"console"}
        THEN [wk[c] EXCEPT !.queue = TRUE] ELSE wk[c]]

(* The user-defined policies end at the first error, the others go on.     *)
AfterError(c, todo) == IF c = "user" THEN << >> ELSE Tail(todo)

(* ApplyNetworkPolicy, applyConsoleResource and DeleteAll for one object.  *)
Apply(c) ==
    /\ Syncing(c, "apply") /\ work[c].todo # << >>
    /\ LET r == Head(work[c].todo)[1]
           content == Head(work[c].todo)[2]
           rest == [work EXCEPT ![c].todo = Tail(@)]
       IN  IF cluster.outage
           THEN /\ work' = [work EXCEPT ![c].todo = AfterError(c, @), ![c].err = TRUE]
                /\ UNCHANGED store
           ELSE /\ store' = [store EXCEPT ![r] = content]
                /\ work' = IF store[r] = content THEN rest ELSE Woken(rest, r)
    /\ UNCHANGED <<Outside, cm, degraded>>

(* Variant: errors are logged and forgotten.                               *)
FailedNever(c) == FALSE

Failed(c) == work[c].err

(* The static controller reports; without a CertManager that fails too.    *)
Finish(c) ==
    /\ Syncing(c, "apply") /\ work[c].todo = << >>
    /\ LET unreported == c = "static" /\ (cm = Absent \/ cluster.outage)
       IN  /\ work' = [work EXCEPT ![c] = Done(c, Failed(c) \/ unreported)]
           /\ degraded' = IF c = "static" /\ ~unreported THEN work[c].err ELSE degraded
    /\ UNCHANGED <<Outside, cm, store>>

(* ResyncEvery of the static and of the console controller; the            *)
(* user-defined policies have none.                                        *)
Resync(c) ==
    /\ c # "user" /\ Syncing(c, "idle") /\ ~work[c].queue
    /\ work' = [work EXCEPT ![c].queue = TRUE]
    /\ UNCHANGED <<Outside, cm, store, degraded>>

(* DefaultCertManagerController, started with the others.                  *)
CreateDefaultCertManager ==
    /\ proc.running # {} /\ cmLister = Absent /\ ~cluster.outage
    /\ cm = Absent
    /\ cm' = DefaultCertManager
    /\ UNCHANGED <<Outside, store, work, degraded>>

Deliver ==
    /\ proc.running # {} /\ cmLister # cm
    /\ cmLister' = cm
    /\ work' = [c \in Controllers |->
                    [work[c] EXCEPT !.queue = @ \/ c \in proc.running]]
    /\ UNCHANGED <<setup, cluster, cm, store, proc, degraded, disturb>>

-----------------------------------------------------------------------------
(***************************************************************************)
(* The world: users, the cluster and the process manager.                  *)
(***************************************************************************)
Disturb ==
    /\ disturb < setup.maxDisturb
    /\ disturb' = disturb + 1

(* The validation rules of the CRD: enabled policies stay enabled, named   *)
(* ones stay named.  A rule on oldSelf is evaluated only where the field   *)
(* is set: an update that leaves the field out passes.                     *)
Admitted(old, new) ==
    /\ old.defaultNetworkPolicy = "true" => new.defaultNetworkPolicy \in {"true", ""}
    /\ \/ new.networkPolicies = << >>
       \/ \A i \in DOMAIN old.networkPolicies : \E j \in DOMAIN new.networkPolicies :
            /\ new.networkPolicies[j].name = old.networkPolicies[i].name
            /\ new.networkPolicies[j].componentName = old.networkPolicies[i].componentName

UserWrites ==
    /\ Disturb
    /\ cm' \in setup.specs \ {cm}
    /\ cm # Absent => Admitted(cm, cm')
    /\ UNCHANGED <<setup, cluster, cmLister, store, proc, work, degraded>>

UserDeletes ==
    /\ Disturb
    /\ cm # Absent
    /\ cm' = Absent
    /\ UNCHANGED <<setup, cluster, cmLister, store, proc, work, degraded>>

(* Somebody edits or deletes a resource.                                   *)
Drift ==
    /\ Disturb
    /\ \E r \in Resources, content \in {Absent, Foreign} :
        /\ store[r] \notin {Absent, content}
        /\ store' = [store EXCEPT ![r] = content]
        /\ work' = Woken(work, r)
    /\ UNCHANGED <<setup, cluster, cm, cmLister, proc, degraded>>

(* The TLS profile changes, or the console is installed.  A running        *)
(* process takes no notice: setup_manager.go speaks of a watcher that      *)
(* restarts the operator, but starts none.                                 *)
ClusterChanges ==
    /\ Disturb
    /\ cluster' \in {[cluster EXCEPT !.tls = t] : t \in setup.profiles}
                    \cup {[cluster EXCEPT !.console = TRUE]}
    /\ cluster' # cluster
    /\ UNCHANGED <<setup, cm, cmLister, store, proc, work, degraded>>

Outage ==
    /\ Disturb
    /\ ~cluster.outage
    /\ cluster' = [cluster EXCEPT !.outage = TRUE]
    /\ UNCHANGED <<setup, cm, cmLister, store, proc, work, degraded>>

OutageEnds ==
    /\ cluster.outage
    /\ cluster' = [cluster EXCEPT !.outage = FALSE]
    /\ UNCHANGED <<setup, cm, cmLister, store, proc, work, degraded, disturb>>

(* A signal, a changed file or a lost lease.                               *)
Terminate ==
    /\ Disturb
    /\ proc.pc # "down"
    /\ Exit
    /\ UNCHANGED <<setup, cluster, cm, cmLister, store, degraded>>

(* manager.Start returns an error, which is only logged: the process goes  *)
(* on without the controllers of the manager.                              *)
ManagerFails ==
    /\ Disturb
    /\ proc.manager \in {"starting", "started"}
    /\ proc' = [proc EXCEPT !.manager = "failed"]
    /\ UNCHANGED <<setup, cluster, cm, cmLister, store, work, degraded>>

Start ==
    \/ Launch \/ ApplyClusterProfileToHTTPServingInfo \/ DiscoverInfrastructure
    \/ DiscoverConsole \/ StartControllers \/ SetupWithFlagValue
    \/ NewFeatureGateState \/ FeatureGateRetryDelay \/ NewControllerManager
    \/ StartManager

Step(c) ==
    \/ Apply(c) \/ Finish(c)
    \/ c = "static" /\ (StaticSync \/ StaticShouldCreate \/ StaticShouldDelete)
    \/ c = "user" /\ UserSync
    \/ c = "console" /\ ConsoleSync

Next ==
    \/ Start
    \/ \E c \in Controllers : Step(c) \/ Resync(c)
    \/ CreateDefaultCertManager \/ Deliver \/ OutageEnds
    \/ UserWrites \/ UserDeletes \/ Drift \/ ClusterChanges \/ Outage
    \/ Terminate \/ ManagerFails

(***************************************************************************)
(* The process makes progress, its goroutines run, events arrive, outages  *)
(* end, and the console controller has its resync every ten minutes.       *)
(***************************************************************************)
Fairness ==
    /\ WF_vars(Start)
    /\ \A c \in Controllers : WF_vars(Step(c))
    /\ WF_vars(Resync("console"))
    /\ WF_vars(CreateDefaultCertManager)
    /\ WF_vars(Deliver)
    /\ WF_vars(OutageEnds)

Spec == Init /\ [][Next]_vars /\ Fairness

-----------------------------------------------------------------------------
TypeOK ==
    /\ cm \in {Absent, DefaultCertManager} \cup setup.specs
    /\ cmLister \in {Absent, DefaultCertManager} \cup setup.specs
    /\ proc.pc \in {"down", "serving", "infra", "console", "controllers", "flags",
                    "gates", "wait", "manager", "running"}
    /\ proc.attempt \in 1..maxFeatureGateAttempts
    /\ proc.running \subseteq Controllers
    /\ proc.manager \in {"none", "starting", "started", "failed"}
    /\ \A c \in Controllers :
        /\ work[c].pc \in {"idle", "create", "delete", "apply"}
        /\ c \notin proc.running => work[c] = IdleWork[c]
        /\ \A i \in DOMAIN work[c].todo : work[c].todo[i][1] \in Resources
    /\ degraded \in BOOLEAN

(***************************************************************************)
(* The cache the controllers of the manager share hides nothing any of     *)
(* them reads, whichever are enabled: neither an object of the other       *)
(* controller's kind nor an object of a user.  (buildCacheObjectList and   *)
(* the watches of the two controllers.)                                    *)
(***************************************************************************)
EveryReadIsCached ==
    proc.manager # "none" =>
        \A f \in Enabled(setup.flag) : \A r \in Reads(f) : Cached(proc.cache, r[1], r[2])

(***************************************************************************)
(* In the end the process is up for good, with the enabled controllers,    *)
(* unless the flag or the TLS profile makes every start fail, or the       *)
(* manager has failed, which nobody notices; and                           *)
(* the policies the CertManager asks for and the console resources are as  *)
(* shipped, whoever changed them and whatever calls failed.  (The order of *)
(* RunOperator, the retries of base_controller.go, ResyncEvery.)           *)
(***************************************************************************)
Up ==
    /\ proc.pc = "running"
    /\ Enabled(setup.flag) # {} => proc.manager \in {"started", "failed"}

InPlace ==
    /\ cm # Absent
    /\ cm.defaultNetworkPolicy = "true" =>
        \A i \in DOMAIN cm.networkPolicies :
            LET p == CreateUserNetworkPolicy(cm.networkPolicies[i]) IN store[p[1]] = p[2]
    /\ cm.managementState = "Managed" /\ cm.defaultNetworkPolicy = "true" =>
        \A p \in DefaultPolicies : store[Default(p)] = Shipped
    /\ proc.console => \A a \in ConsoleAssets : store[Console(a)] = Shipped

Startable == setup.flag # Malformed /\ ResolveHonoredTLSProfile(cluster.tls) # ProfileError

ComesUp == <>[](Startable => Up /\ InPlace /\ ~degraded)

(***************************************************************************)
(* "Since immutable, we never delete": the operator does not take a        *)
(* default network policy away.                                            *)
(***************************************************************************)
DefaultPoliciesKept ==
    [][ \A p \in DefaultPolicies :
            store[Default(p)] # Absent /\ store'[Default(p)] = Absent => disturb' # disturb ]_vars

=============================================================================
