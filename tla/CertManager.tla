----------------------------- MODULE CertManager -----------------------------
(***************************************************************************)
(* One of the three Deployment controllers of cert-manager                 *)
(* (pkg/controller/certmanager), run by the DeploymentController of        *)
(* library-go, together with the controller that creates the default       *)
(* CertManager "cluster" and the operator client both use                  *)
(* (pkg/operator/operatorclient).                                          *)
(*                                                                         *)
(* A sync reads the CertManager from the lister again and again: for its   *)
(* state, for its metadata, for the finalizer and in eleven of the hooks.  *)
(* Every read is a step of its own, so that the lister may move between    *)
(* any two of them.  The Deployment is read from the API server.           *)
(***************************************************************************)
EXTENDS CertManagerDeployment

CONSTANTS
    Absent,         \* an object that does not exist
    Setups          \* the installations considered: see setup

(* A log level has a number.                                               *)
ASSUME SetupsAssumption ==
    /\ Unset \notin DOMAIN LogLevels
    /\ \A s \in Setups :
        /\ s.name \in DeploymentNames
        /\ s.maxDisturb \in Nat
        /\ \A c \in s.specs :
            /\ c.logLevel \in DOMAIN LogLevels \cup {Unset}
            /\ \A t \in ConfigOf(c).overrideScheduling.tolerations :
                    t \in [key : STRING, effect : STRING]

VARIABLES
    setup,          \* the installation, which does not change
    cm, cmLister,   \* the CertManager, and its copy in the lister
    cmBehind,       \* the lister has not seen the last change of it
    in, inLister,   \* ConfigMap, Secret, Infrastructure and APIServer, and copies
    deployment,     \* the Deployment
    queue,          \* the key is in the work queue
    sync,           \* the sync in progress
    lost, deceived, \* history: see Deceived
    disturb         \* interferences so far

history == <<lost, deceived>>
vars == <<setup, cm, cmLister, cmBehind, in, inLister, deployment, queue, sync,
          history, disturb>>

(***************************************************************************)
(* An installation: the Deployment of this controller, the flags and       *)
(* variables of the operator process, the specs a user may write, what may *)
(* be in the cluster besides, and how often the world may interfere.       *)
(***************************************************************************)
name == setup.name
env == setup.env
Specs == setup.specs
Inputs == setup.inputs
MaxDisturb == setup.maxDisturb

NoStatus == [generation |-> 0, available |-> Unset, progressing |-> Unset,
             degraded |-> Unset]

(* finalizer: the one of this controller.  Those of the two sibling        *)
(* controllers are left out.                                               *)
NewCertManager(spec) ==
    [spec |-> spec, deleting |-> FALSE, finalizer |-> FALSE, status |-> NoStatus]

(* createDefaultCertManager.                                               *)
DefaultSpec ==
    [managementState |-> "Managed", logLevel |-> "Normal",
     unsupported |-> << >>, config |-> Unset]

(* A sync in progress: its next call, what GetOperatorState returned,      *)
(* whether it removes, the next hook, the Deployment under construction,   *)
(* the one the API server returned and the error of the sync.              *)
Idle ==
    [pc |-> "idle", opSpec |-> Unset, opStatus |-> NoStatus, removing |-> FALSE,
     hook |-> 0, required |-> Unset, applied |-> Absent, err |-> FALSE]

(* The management states the controller acts upon, which leaves Unmanaged  *)
(* and Force.                                                              *)
LeftAlone(spec) == spec.managementState \notin {"Managed", "Removed"}
IsRemoved(spec) == spec.managementState = "Removed"

Started(c) ==
    [Idle EXCEPT !.pc = IF IsRemoved(c.spec) THEN "hooks" ELSE "meta",
                 !.opSpec = c.spec, !.opStatus = c.status,
                 !.removing = IsRemoved(c.spec),
                 !.hook = 1, !.required = Manifest(name)]

Hooks == GenericDeploymentHooks(env)

-----------------------------------------------------------------------------
Init ==
    /\ setup \in Setups
    /\ cm \in {Absent} \cup {NewCertManager(s) : s \in Specs}
    /\ cmLister = cm
    /\ cmBehind = FALSE
    /\ in \in Inputs
    /\ inLister = in
    /\ deployment = Absent
    /\ queue = TRUE
    /\ sync = Idle
    /\ lost = FALSE
    /\ deceived = FALSE
    /\ disturb = 0

(* The informers: a change of an object reaches the lister and wakes the   *)
(* controller.  The lister of Deployments is not used: a change of the     *)
(* Deployment just wakes it.                                               *)
DeliverCertManager ==
    /\ cmBehind
    /\ cmBehind' = FALSE
    /\ cmLister' = cm
    /\ queue' = TRUE
    /\ UNCHANGED <<setup, cm, in, inLister, deployment, sync, history, disturb>>

DeliverInputs ==
    /\ inLister # in
    /\ inLister' = in
    /\ queue' = TRUE
    /\ UNCHANGED <<setup, cm, cmBehind, cmLister, in, deployment, sync,
                   history, disturb>>

(* ResyncEvery(time.Minute).  During a sync it would only have the effect  *)
(* it has right after.                                                     *)
Resync ==
    /\ sync.pc = "idle"
    /\ ~queue
    /\ queue' = TRUE
    /\ UNCHANGED <<setup, cm, cmBehind, cmLister, in, inLister, deployment,
                   sync, history, disturb>>

-----------------------------------------------------------------------------
(* A write of the CertManager; one that changes nothing is not sent or has *)
(* no effect.                                                              *)
WriteCertManager(c) ==
    /\ cm' = c
    /\ cmBehind' = (cmBehind \/ c # cm)

KeepCertManager == UNCHANGED <<cm, cmBehind>>

(* What the steps of a sync leave alone.                                   *)
Outside == <<setup, cmLister, in, inLister>>

Goto(pc) == sync' = [sync EXCEPT !.pc = pc]

(* sync returns, with or without an error: reportDegraded is next.         *)
Return(err) == sync' = [Idle EXCEPT !.pc = "degraded", !.err = err]

(* DeploymentController.sync: no CertManager, or one that is not managed,  *)
(* is left alone.  A removed one has its Deployment taken away.            *)
GetOperatorState ==
    /\ sync.pc = "idle"
    /\ queue
    /\ queue' = FALSE
    /\ IF cmLister = Absent \/ LeftAlone(cmLister.spec)
       THEN Return(FALSE) ELSE sync' = Started(cmLister)
    /\ UNCHANGED <<Outside, cm, cmBehind, deployment, history, disturb>>

GetObjectMeta ==
    /\ sync.pc = "meta"
    /\ IF cmLister = Absent THEN Return(TRUE)
       ELSE IF cmLister.deleting
            THEN sync' = [sync EXCEPT !.pc = "hooks", !.removing = TRUE]
            ELSE Goto("finalizer")
    /\ UNCHANGED <<Outside, cm, cmBehind, deployment, queue, history, disturb>>

(* Update with the copy of the lister and another set of finalizers: it is *)
(* refused when the object has changed, and so is a new finalizer on an    *)
(* object that is being deleted.  The last finalizer lets it go.           *)
SaveFinalizer(on) ==
    WriteCertManager(IF cmLister.deleting /\ ~on THEN Absent
                     ELSE [cmLister EXCEPT !.finalizer = on])

(* Variant: the copy of the lister overwrites whatever is there.           *)
ConflictsNever == FALSE

Conflicts == cmBehind

EnsureFinalizer ==
    /\ sync.pc = "finalizer"
    /\ IF cmLister = Absent
       THEN Return(TRUE) /\ KeepCertManager
       ELSE IF cmLister.finalizer
            THEN Goto("hooks") /\ KeepCertManager
            ELSE /\ ~Conflicts
                 /\ IF cmLister.deleting
                    THEN Return(TRUE) /\ KeepCertManager
                    ELSE Goto("hooks") /\ SaveFinalizer(TRUE)
    /\ UNCHANGED <<Outside, deployment, queue, history, disturb>>

(* RetryOnConflict gives up before the lister has caught up.               *)
FinalizerConflict ==
    /\ sync.pc \in {"finalizer", "unfinalize"}
    /\ cmLister # Absent
    /\ cmLister.finalizer = (sync.pc = "unfinalize")
    /\ Conflicts
    /\ Return(TRUE)
    /\ UNCHANGED <<Outside, cm, cmBehind, deployment, queue, history, disturb>>

(* Variant: one hook too many is asked for.                                *)
AfterHookOneMore(i) ==
    IF i <= Len(Hooks) THEN "hooks" ELSE IF sync.removing THEN "delete" ELSE "apply"

(* syncManaged or syncDeleting goes on once the last hook has run.         *)
AfterHook(i) ==
    IF i < Len(Hooks) THEN "hooks" ELSE IF sync.removing THEN "delete" ELSE "apply"

(* getDeployment: one hook after the other, the first error ends the sync. *)
RunHook ==
    /\ sync.pc = "hooks"
    /\ LET h == Hooks[sync.hook]
           spec == IF cmLister = Absent THEN DefaultSpec ELSE cmLister.spec
       IN  IF \/ h \in ReadingHooks /\ cmLister = Absent
              \/ HookFails(h, name, env, sync.opSpec, spec, inLister)
           THEN Return(TRUE)
           ELSE sync' = [sync EXCEPT
                    !.required = Hooked(h, @, name, env, sync.opSpec, spec, inLister),
                    !.hook = @ + 1,
                    !.pc = AfterHook(sync.hook)]
    /\ UNCHANGED <<Outside, cm, cmBehind, deployment, queue, history, disturb>>

(* Variant: the generation of the Deployment is not looked at.             *)
UpToDateBySpecHash(d) == d.specHash = sync.required

(* ApplyDeploymentWithForce: nothing is written when the hash of the spec  *)
(* and the generation recorded last are those of the Deployment.           *)
UpToDate(d) ==
    /\ d.specHash = sync.required
    /\ d.generation = sync.opStatus.generation

(* A new spec is a new generation, which has to be rolled out.             *)
Replaced(d, spec) ==
    IF d.spec = spec THEN [d EXCEPT !.specHash = spec]
    ELSE [d EXCEPT !.spec = spec, !.specHash = spec,
                   !.generation = @ + 1, !.rolledOut = FALSE]

Applied ==
    IF deployment = Absent
    THEN [spec |-> sync.required, specHash |-> sync.required, generation |-> 1,
          rolledOut |-> FALSE, available |-> FALSE]
    ELSE IF UpToDate(deployment) THEN deployment
         ELSE Replaced(deployment, sync.required)

(***************************************************************************)
(* Somebody has edited the Deployment, and yet it has the generation that  *)
(* was recorded last: that of another Deployment of the same name, which   *)
(* was lost.                                                               *)
(***************************************************************************)
Deceived ==
    /\ deployment # Absent
    /\ deployment.specHash = sync.required /\ deployment.spec # sync.required
    /\ deployment.generation = sync.opStatus.generation

ApplyDeployment ==
    /\ sync.pc = "apply"
    /\ deployment' = Applied
    /\ deceived' = Deceived
    /\ queue' = (queue \/ deployment # Applied)
    /\ sync' = [Idle EXCEPT !.pc = "status", !.opStatus = sync.opStatus,
                            !.applied = Applied]
    /\ UNCHANGED <<Outside, cm, cmBehind, lost, disturb>>

Truth(b) == IF b THEN "True" ELSE "False"

(* The status of the controller: generation, Available and Progressing.    *)
DeploymentStatus(d, status) ==
    [status EXCEPT !.generation = d.generation,
                   !.available = Truth(d.available),
                   !.progressing = Truth(~d.rolledOut)]

(* ApplyOperatorStatus: the live object, whatever its version; without one *)
(* there is an error.                                                      *)
ApplyStatus ==
    /\ sync.pc = "status"
    /\ IF cm = Absent
       THEN Return(TRUE) /\ KeepCertManager
       ELSE /\ Return(FALSE)
            /\ WriteCertManager([cm EXCEPT
                    !.status = DeploymentStatus(sync.applied, @)])
    /\ UNCHANGED <<Outside, deployment, queue, history, disturb>>

(* "Deployment was progressing too long": the status is not written.       *)
ProgressingTooLong ==
    /\ sync.pc = "status"
    /\ ~sync.applied.rolledOut
    /\ sync.opStatus.progressing = "True"
    /\ disturb < MaxDisturb
    /\ disturb' = disturb + 1
    /\ Return(TRUE)
    /\ UNCHANGED <<Outside, cm, cmBehind, deployment, queue, history>>

(* syncDeleting, once the hooks have all run.                              *)
DeleteDeployment ==
    /\ sync.pc = "delete"
    /\ deployment' = Absent
    /\ lost' = (lost \/ deployment # Absent)
    /\ queue' = (queue \/ deployment # Absent)
    /\ Goto("unfinalize")
    /\ UNCHANGED <<Outside, cm, cmBehind, deceived, disturb>>

RemoveFinalizer ==
    /\ sync.pc = "unfinalize"
    /\ IF cmLister = Absent
       THEN Return(TRUE) /\ KeepCertManager
       ELSE IF ~cmLister.finalizer
            THEN Return(FALSE) /\ KeepCertManager
            ELSE /\ ~Conflicts
                 /\ Return(FALSE)
                 /\ SaveFinalizer(FALSE)
    /\ UNCHANGED <<Outside, deployment, queue, history, disturb>>

(* Variant: an error of the sync does not put the key back.                *)
RetriesNever(err) == FALSE

(* processNextWorkItem: AddRateLimited.                                    *)
Retries(err) == err

(* reconcile and reportDegraded.  A CertManager that is gone is tolerated. *)
ReportDegraded ==
    /\ sync.pc = "degraded"
    /\ WriteCertManager(IF cm = Absent THEN cm
                        ELSE [cm EXCEPT !.status.degraded = Truth(sync.err)])
    /\ sync' = Idle
    /\ queue' = (queue \/ Retries(sync.err))
    /\ UNCHANGED <<Outside, deployment, history, disturb>>

(* A call of the API server fails.                                         *)
CallFails ==
    /\ disturb < MaxDisturb
    /\ disturb' = disturb + 1
    /\ sync.pc \in {"finalizer", "apply", "status", "delete", "unfinalize",
                    "degraded"}
    /\ IF sync.pc = "degraded"
       THEN sync' = Idle /\ queue' = TRUE
       ELSE Return(TRUE) /\ UNCHANGED queue
    /\ UNCHANGED <<Outside, cm, cmBehind, deployment, history>>

(* Create leaves an object that exists alone.                              *)
Created == IF cm = Absent THEN NewCertManager(DefaultSpec) ELSE cm

(* DefaultCertManagerController.sync, by its own lister.                   *)
CreateDefaultCertManager ==
    /\ cmLister = Absent
    /\ WriteCertManager(Created)
    /\ UNCHANGED <<Outside, deployment, queue, sync, history, disturb>>

-----------------------------------------------------------------------------
(***************************************************************************)
(* The cluster: the rollout of a Deployment and, within MaxDisturb, users  *)
(* and failures.                                                           *)
(***************************************************************************)
Removing(c) == c.deleting \/ IsRemoved(c.spec)

Rollout ==
    /\ deployment # Absent
    /\ ~deployment.rolledOut
    /\ deployment' = [deployment EXCEPT !.rolledOut = TRUE, !.available = TRUE]
    /\ queue' = TRUE
    /\ UNCHANGED <<Outside, cm, cmBehind, sync, history, disturb>>

Disturb ==
    /\ disturb < MaxDisturb
    /\ disturb' = disturb + 1

UserWrites ==
    /\ Disturb
    /\ \E s \in Specs :
        /\ cm # Absent => cm.spec # s
        /\ WriteCertManager(IF cm = Absent THEN NewCertManager(s)
                            ELSE [cm EXCEPT !.spec = s])
    /\ UNCHANGED <<Outside, deployment, queue, sync, history>>

UserDeletes ==
    /\ Disturb
    /\ cm # Absent /\ ~cm.deleting
    /\ WriteCertManager(IF cm.finalizer THEN [cm EXCEPT !.deleting = TRUE]
                        ELSE Absent)
    /\ UNCHANGED <<Outside, deployment, queue, sync, history>>

InputsChange ==
    /\ Disturb
    /\ in' \in Inputs \ {in}
    /\ UNCHANGED <<setup, cm, cmBehind, cmLister, inLister, deployment,
                   queue, sync, history>>

(* Somebody else edits or deletes the Deployment.                          *)
Drift ==
    /\ Disturb
    /\ deployment # Absent
    /\ deployment' \in
        {Absent, [deployment EXCEPT !.spec.replicas = 0, !.generation = @ + 1]}
    /\ deployment' # Absent => deployment'.spec # deployment.spec
    /\ lost' = (lost \/ deployment' = Absent)
    /\ queue' = TRUE
    /\ UNCHANGED <<Outside, cm, cmBehind, sync, deceived>>

(* The operator process is replaced; its informers list afresh.            *)
Restart ==
    /\ Disturb
    /\ sync' = Idle
    /\ queue' = TRUE
    /\ cmLister' = cm
    /\ cmBehind' = FALSE
    /\ inLister' = in
    /\ UNCHANGED <<setup, cm, in, deployment, history>>

Sync ==
    \/ GetOperatorState \/ GetObjectMeta \/ EnsureFinalizer \/ FinalizerConflict
    \/ RunHook \/ ApplyDeployment \/ ApplyStatus \/ DeleteDeployment
    \/ RemoveFinalizer \/ ReportDegraded

Next ==
    \/ DeliverCertManager \/ DeliverInputs \/ Resync
    \/ Sync \/ ProgressingTooLong \/ CallFails \/ CreateDefaultCertManager
    \/ Rollout
    \/ UserWrites \/ UserDeletes \/ InputsChange \/ Drift \/ Restart

(***************************************************************************)
(* The controller runs, events arrive, the default CertManager is created  *)
(* and Deployments are rolled out.  Nothing is asked of the resync.        *)
(***************************************************************************)
Fairness ==
    /\ WF_vars(Sync)
    /\ WF_vars(DeliverCertManager)
    /\ WF_vars(DeliverInputs)
    /\ WF_vars(CreateDefaultCertManager)
    /\ WF_vars(Rollout)

Spec == Init /\ [][Next]_vars /\ Fairness

-----------------------------------------------------------------------------
(***************************************************************************)
(* What the user is promised, without hooks: every argument comes from the *)
(* first layer that names it.                                              *)
(***************************************************************************)
TLSSpec == IF env.infra THEN ResolveHonoredTLSProfile(in.api) ELSE Skip

ArgLayers(spec) ==
    <<ParseArgMap(spec.unsupported),
      OperandMetricsTLSArgs(name),
      IF TLSSpec = Skip THEN EmptyMap ELSE OperandTLSArgs(name, TLSSpec),
      ParseArgMap(ConfigOf(spec).overrideArgs),
      IF spec.logLevel = Unset THEN EmptyMap ELSE Entry("--v", LogLevels[spec.logLevel]),
      IF name = Controller
      THEN Entry("--acme-http01-solver-image", CertManagerImage(env)) ELSE EmptyMap,
      Manifest(name).args>>

WantedArgs(spec) ==
    LET layers == ArgLayers(spec)
        Naming(k) == {i \in 1..Len(layers) : k \in DOMAIN layers[i]}
        First(k) == CHOOSE i \in Naming(k) : \A j \in Naming(k) : i <= j
    IN  [k \in UNION {DOMAIN layers[i] : i \in 1..Len(layers)} |-> layers[First(k)][k]]

WantedVolumes ==
    {"bound-sa-token"}
    \cup (IF env.ca THEN {"trusted-ca"} ELSE {})
    \cup (IF env.infra /\ env.secret /\ name = Controller
          THEN {"cloud-credentials"} ELSE {})

(* A configuration for which there is no Deployment.                       *)
Refused(spec) ==
    LET c == ConfigOf(spec)
    IN  \/ spec.unsupported = NotJSON
        \/ ~ValidContainerArgs(name, c)
        \/ \E k \in DOMAIN c.overrideEnv : k \notin SupportedEnv(name)
        \/ \E k \in DOMAIN c.overrideLabels : k \notin SupportedLabelKeys(name)
        \/ ~ValidResources(c.overrideResources)
        \/ ~ValidScheduling(c.overrideScheduling)
        \/ env.ca /\ ~in.ca
        \/ /\ env.infra
           /\ \/ in.api = NoAPIServer
              \/ TLSSpec = ProfileError
              \/ "cloud-credentials" \in WantedVolumes
                    /\ (~in.secret \/ in.platform \notin {"AWS", "GCP"})

WantedEnv(c) ==
    LET own == c.overrideEnv ++ (ReadProxyVarsFromEnv(env.vars) ++ Manifest(name).env)
    IN  IF "cloud-credentials" \in WantedVolumes /\ in.platform = "AWS"
        THEN Entry("AWS_SDK_LOAD_CONFIG", "1") ++ own ELSE own

(* Limits or requests; a zero asks for nothing.                            *)
WantedQuantities(given) == [r \in {q \in DOMAIN given : given[q] # "0"} |-> given[r]]

AsAsked(d, spec) ==
    LET c == ConfigOf(spec)
    IN  /\ d.args = WantedArgs(spec)
        /\ d.volumes = WantedVolumes
        /\ d.image = CertManagerImage(env)
        /\ d.env = WantedEnv(c)
        /\ d.labels = c.overrideLabels ++ Manifest(name).labels
        /\ d.scheme = "https"
        /\ d.replicas = IF c.overrideReplicas = Unset THEN 1 ELSE c.overrideReplicas
        /\ d.resources.limits = WantedQuantities(c.overrideResources.limits)
        /\ d.resources.requests = WantedQuantities(c.overrideResources.requests)
        /\ d.tolerations \subseteq c.overrideScheduling.tolerations
        /\ \A t \in c.overrideScheduling.tolerations :
                \E u \in d.tolerations : IsSuperset(u, t)
        /\ d.nodeSelector = c.overrideScheduling.nodeSelector ++ Manifest(name).nodeSelector

Settled ==
    /\ sync.pc = "idle" /\ ~queue
    /\ ~cmBehind /\ inLister = in

Statuses ==
    [generation : Nat, available : {Unset, "True", "False"},
     progressing : {Unset, "True", "False"}, degraded : {Unset, "True", "False"}]

CertManagers ==
    [spec : Specs \cup {DefaultSpec}, deleting : BOOLEAN, finalizer : BOOLEAN,
     status : Statuses]

(***************************************************************************)
(* Type invariant.  The generation of a Deployment grows by at most one in *)
(* each sync and each edit; an object that is being deleted still has a    *)
(* finalizer, or it would be gone.                                         *)
(***************************************************************************)
TypeOK ==
    /\ \A c \in {cm, cmLister} : c # Absent => c \in CertManagers
    /\ cm # Absent => (cm.deleting => cm.finalizer)
    /\ in \in Inputs /\ inLister \in Inputs
    /\ queue \in BOOLEAN /\ lost \in BOOLEAN /\ deceived \in BOOLEAN
    /\ deployment # Absent => deployment.generation >= 1
    /\ sync.pc = "hooks" => sync.hook \in 1..Len(Hooks)

(***************************************************************************)
(* When the controller has nothing to do, the Deployment is what the       *)
(* CertManager and the cluster ask for, although a sync reads them at many *)
(* different times, a removed one has left nothing behind, and the status  *)
(* tells the truth.  An edit of the Deployment goes unnoticed only after   *)
(* another Deployment of the same name was lost: as long as none is, its   *)
(* hash and its generation tell its own contents from those of others.     *)
(* (deployment_controller.go sync, and the hooks.)                         *)
(***************************************************************************)
InOrder == AsAsked(deployment.spec, cm.spec) \/ (deceived /\ lost)

AtRestAsAsked ==
    Settled /\ cm # Absent =>
        /\ cm.status.degraded = "False"
        /\ ~LeftAlone(cm.spec) =>
            IF Removing(cm) THEN deployment = Absent /\ ~cm.finalizer
            ELSE /\ ~Refused(cm.spec)
                 /\ deployment # Absent /\ InOrder
                 /\ cm.finalizer
                 /\ cm.status.generation = deployment.generation
                 /\ cm.status.available = Truth(deployment.available)
                 /\ cm.status.progressing = Truth(~deployment.rolledOut)

(***************************************************************************)
(* Only a user changes the spec of a CertManager, or takes it away for     *)
(* another: the finalizer updates, which send the whole object of the      *)
(* lister, and the default CertManager never do.  (operatorclient.go       *)
(* saveFinalizers, default_cert_manager_controller.go.)                    *)
(***************************************************************************)
SpecIsTheUsers ==
    [][ cm # Absent /\ cm' # Absent /\ cm'.spec # cm.spec => disturb' # disturb ]_vars

(***************************************************************************)
(* Once the world lets it, the controller comes to an end and stays there: *)
(* the Deployment is rolled out as asked, or it is gone as asked, or the   *)
(* CertManager is Degraded because there is no such Deployment.  (The      *)
(* retries of base_controller.go, without the resync.)                     *)
(***************************************************************************)
Outcome ==
    /\ cm # Absent
    /\ ~LeftAlone(cm.spec) =>
        IF Refused(cm.spec) THEN cm.status.degraded = "True"
        ELSE /\ cm.status.degraded = "False"
             /\ IF Removing(cm) THEN deployment = Absent
                ELSE /\ deployment # Absent /\ InOrder
                     /\ cm.status.available = "True"
                     /\ cm.status.progressing = "False"

Converges == <>[]Outcome

(***************************************************************************)
(* "withContainerArgsValidateHook validates the container args with those  *)
(* that are supported by the operator": a Deployment has no argument of    *)
(* the user that is not supported.                                         *)
(***************************************************************************)
OnlySupportedArgs ==
    deployment # Absent =>
        DOMAIN deployment.spec.args \subseteq
            SupportedArgs(name) \cup DOMAIN Manifest(name).args
            \cup DOMAIN OperandMetricsTLSArgs(name)

=============================================================================
