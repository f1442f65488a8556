---------------------------- MODULE TrustManager ----------------------------
(***************************************************************************)
(* The TrustManager controller (pkg/controller/trustmanager): the single   *)
(* TrustManager object "cluster", the objects of the operand, the inputs   *)
(* read from the cluster (the injected CA bundle, the APIServer object,    *)
(* the trust namespace), the informer caches, the work queue and Reconcile,*)
(* next to users, outages and restarts of the operator.                    *)
(*                                                                         *)
(* As in IstioCSR, reads go to the informer caches and writes to the API   *)
(* server, and lag says what a watch still has to deliver: "none", "quiet" *)
(* (nothing that passes the predicates) or "event".  Objects are written   *)
(* by server-side apply, which carries no resourceVersion: it depends on   *)
(* the live object alone and never conflicts.  So one step of the pipeline *)
(* (read the cache, compare, apply) is one action: whatever happens        *)
(* between its read and its write could as well have happened before, with *)
(* the cache not yet up to date.                                           *)
(***************************************************************************)
EXTENDS TrustManagerObjects

CONSTANTS
    Pipeline,       \* the kinds of the instance, in the order of the pipeline
    Specs,          \* the values of TrustManager.spec
    Bundles,        \* the contents of the injected CA ConfigMap, or Absent
    Profiles,       \* the APIServer objects, or NoAPIServer
    Images,         \* the values of RELATED_IMAGE_CERT_MANAGER_TRUST_MANAGER
    LateNamespace,  \* whether the trust namespace may be created late
    Drifts,         \* how somebody else may disturb an object
    Outages,        \* the errors the API server may answer writes with
    Scopes,         \* what an outage may concern: sets of Targets
    PromptWatches,  \* whether the watches are faster than the retry timers
    RetrySteps,     \* attempts of retry.RetryOnConflict
    MaxInstances,   \* bound: how often the TrustManager object is created
    MaxFaults       \* bound: how many disturbances there are

Kinds == {Pipeline[i] : i \in DOMAIN Pipeline}
Targets == Kinds \cup {"trustmanager"}

(* reconcileTrustManagerDeployment, possibly without some of its steps.    *)
ASSUME PipelineAssumption ==
    /\ Pipeline \in Seq({FullPipeline[i] : i \in DOMAIN FullPipeline})
    /\ \A i, j \in DOMAIN Pipeline : i < j =>
          \E a, b \in DOMAIN FullPipeline :
              a < b /\ Pipeline[i] = FullPipeline[a] /\ Pipeline[j] = FullPipeline[b]
    /\ "Deployment" \in Kinds => "ServiceAccount" \in Kinds
    /\ \A s \in Specs : DefaultCAPackageEnabled(s) => "DefaultCAPackage" \in Kinds
(* The API server admits these values of the enumerations only, and the    *)
(* trust namespace is immutable: the model has one.                        *)
ASSUME SpecsAssumption ==
    /\ \A s \in Specs : /\ s.secretTargets.policy \in {"Disabled", "Custom"}
                        /\ s.defaultCAPackage \in {"Disabled", "Enabled"}
                        /\ s.filterExpiredCertificates \in {"Disabled", "Enabled"}
    /\ \A s, t \in Specs : GetTrustNamespace(s) = GetTrustNamespace(t)
ASSUME EnvironmentAssumption ==
    /\ Profiles \subseteq APIServers \cup {NoAPIServer}
    /\ Unset \notin Bundles
    /\ Drifts \subseteq {"edit", "unlabel", "extra", "delete"}
    /\ Outages \subseteq ClientErrors
    /\ Scopes \subseteq SUBSET Targets
    /\ LateNamespace \in BOOLEAN /\ PromptWatches \in BOOLEAN
ASSUME BoundsAssumption ==
    /\ RetrySteps \in Nat \ {0}
    /\ MaxInstances \in Nat
    /\ MaxFaults \in Nat

VARIABLES
    tm, tmCache, tmLag,         \* the TrustManager object, its cache
    obj, objCache, objLag,      \* the objects of the operand, their caches
    in, inCache, inLag,         \* the inputs, their caches
    image,                      \* the image the running operator was given
    api,                        \* "ok" or the error of writes, by target
    queue, delayed,             \* the request waits, or a timer will put it back
    pc,                         \* the API call Reconcile is at
    w,                          \* its working copy of the TrustManager object
    step,                       \* its position in the pipeline
    bundleRead,                 \* the CA bundle this pass has read
    attempt, err,               \* of RetryOnConflict; of the pipeline
    misled,                     \* history: see Misled
    created, accounts, faults   \* counters: objects, service accounts, faults left

tmVars == <<tm, tmCache, tmLag>>
objVars == <<obj, objCache, objLag, accounts>>
inVars == <<in, inCache, inLag>>
recVars == <<pc, w, step, bundleRead, attempt, err, misled>>
envVars == <<image, api, created, faults>>
vars == <<tmVars, objVars, inVars, recVars, envVars, queue, delayed>>

Inputs == {"bundle", "tls", "namespace"}

Kind == Pipeline[step]

(* Variant: the trust namespace as the spec has it, without its default.   *)
ObservedRawNamespace(s) ==
    [trustManagerImage |-> image, trustNamespace |-> s.trustNamespace,
     secretTargetsPolicy |-> s.secretTargets.policy,
     defaultCAPackagePolicy |-> s.defaultCAPackage,
     filterExpiredCertificatesPolicy |-> s.filterExpiredCertificates]

(* updateStatusObservedState: what the status says of the installation.    *)
Observed(s) ==
    [trustManagerImage |-> image, trustNamespace |-> GetTrustNamespace(s),
     secretTargetsPolicy |-> s.secretTargets.policy,
     defaultCAPackagePolicy |-> s.defaultCAPackage,
     filterExpiredCertificatesPolicy |-> s.filterExpiredCertificates]

Healthy == [t \in Targets |-> "ok"]
Lags == {"none", "quiet", "event"}
WritePoints == {"finalize", "unfinalize", "observe", "publish"}
Points == WritePoints \cup {"idle", "reread", "validate", "apply", "result"}

ObservedStates ==
    [trustManagerImage : Images, trustNamespace : {GetTrustNamespace(s) : s \in Specs},
     secretTargetsPolicy : {"Disabled", "Custom"},
     defaultCAPackagePolicy : {"Disabled", "Enabled"},
     filterExpiredCertificatesPolicy : {"Disabled", "Enabled"}]

TrustManagers ==
    [uid : 1..MaxInstances, spec : Specs, deleting : BOOLEAN, finalizer : BOOLEAN,
     conds : Conditions, observed : ObservedStates \cup {Unset}]

ASSUME AbsentAssumption == Absent \notin TrustManagers

WellFormed(o) == o = Absent \/ (o.owned \subseteq DOMAIN o.fields /\ o.uid \in 0..(MaxFaults + 1))

TypeOK ==
    /\ tm \in TrustManagers \cup {Absent}
    /\ tmCache \in TrustManagers \cup {Absent}
    /\ \A k \in Kinds : WellFormed(obj[k]) /\ WellFormed(objCache[k])
    /\ in["bundle"] \in Bundles /\ inCache["bundle"] \in Bundles
    /\ in["tls"] \in Profiles /\ inCache["tls"] \in Profiles
    /\ in["namespace"] \in BOOLEAN /\ inCache["namespace"] \in BOOLEAN
    /\ tmLag \in Lags /\ objLag \in [Kinds -> Lags] /\ inLag \in [Inputs -> Lags]
    /\ image \in Images
    /\ api \in [Targets -> {"ok"} \cup Outages]
    /\ queue \in BOOLEAN /\ delayed \in BOOLEAN
    /\ pc \in Points
    /\ w \in TrustManagers \cup {Absent}
    /\ bundleRead \in Bundles \cup {Unset}
    /\ step \in 1..(Len(Pipeline) + 1)
    /\ attempt \in 1..RetrySteps
    /\ err \in ReconcileErrors /\ misled \in BOOLEAN
    /\ created \in 0..MaxInstances /\ accounts \in 0..(MaxFaults + 1)
    /\ faults \in 0..MaxFaults

Init ==
    /\ tm = Absent /\ tmCache = Absent /\ tmLag = "none"
    /\ obj = [k \in Kinds |-> Absent]
    /\ objCache = [k \in Kinds |-> Absent]
    /\ objLag = [k \in Kinds |-> "none"]
    /\ \E b \in Bundles, p \in Profiles :
           in = [bundle |-> b, tls |-> p, namespace |-> ~LateNamespace]
    /\ inCache = in
    /\ inLag = [i \in Inputs |-> "none"]
    /\ image \in Images
    /\ api = Healthy /\ queue = FALSE /\ delayed = FALSE
    /\ pc = "idle" /\ w = Absent /\ step = 1 /\ bundleRead = Unset
    /\ attempt = 1 /\ err = "nil" /\ misled = FALSE
    /\ created = 0 /\ accounts = 0 /\ faults = MaxFaults

-----------------------------------------------------------------------------
(***************************************************************************)
(* Caches and watches (SetupWithManager and setup_manager.go).             *)
(***************************************************************************)
Behind(lag, passes) == IF passes \/ lag = "event" THEN "event" ELSE "quiet"

IsManagedResource(o) ==
    o # Absent /\ Value(o.fields, <<"label", "app">>) = "trust-manager"

(* The caches of ConfigMaps and Issuers are not filtered by label.         *)
Filtered(k, o) ==
    IF k \in {"DefaultCAPackage", "Issuer"} \/ IsManagedResource(o) THEN o ELSE Absent

(* controllerManagedResources: the old or the new object carries the label.*)
(* The other predicates filter changes of the status only, which are not   *)
(* part of the model.                                                      *)
PassesPredicates(old, new) == IsManagedResource(old) \/ IsManagedResource(new)

DeliverTM ==
    /\ tmLag # "none"
    /\ tmCache' = tm /\ tmLag' = "none"
    /\ queue' = (queue \/ tmLag = "event")
    /\ UNCHANGED <<tm, objVars, inVars, recVars, envVars, delayed>>

DeliverObj(k) ==
    /\ objLag[k] # "none"
    /\ objCache' = [objCache EXCEPT ![k] = Filtered(k, obj[k])]
    /\ objLag' = [objLag EXCEPT ![k] = "none"]
    /\ queue' = (queue \/ objLag[k] = "event")
    /\ UNCHANGED <<obj, accounts, tmVars, inVars, recVars, envVars, delayed>>

DeliverInput(i) ==
    /\ inLag[i] # "none"
    /\ inCache' = [inCache EXCEPT ![i] = in[i]]
    /\ inLag' = [inLag EXCEPT ![i] = "none"]
    /\ queue' = (queue \/ inLag[i] = "event")
    /\ UNCHANGED <<in, tmVars, objVars, recVars, envVars, delayed>>

Synced ==
    /\ tmLag = "none"
    /\ \A k \in Kinds : objLag[k] = "none"
    /\ \A i \in Inputs : inLag[i] = "none"

(* The rate limiter, at first after 5 milliseconds, or RequeueAfter after  *)
(* 30 seconds puts the request back.                                       *)
Requeue ==
    /\ delayed
    /\ PromptWatches => Synced
    /\ queue' = TRUE /\ delayed' = FALSE
    /\ UNCHANGED <<tmVars, objVars, inVars, recVars, envVars>>

GenerationChanged(old, new) ==
    \/ old = Absent \/ new = Absent
    \/ new.spec # old.spec \/ new.deleting # old.deleting

WriteTM(new) ==
    /\ tm' = new
    /\ tmLag' = IF new = tm THEN tmLag ELSE Behind(tmLag, GenerationChanged(tm, new))
    /\ UNCHANGED tmCache

(* An apply that changes nothing makes no new version and no event.        *)
WriteObj(k, new) ==
    /\ obj' = [obj EXCEPT ![k] = new]
    /\ objLag' = [objLag EXCEPT ![k] =
          LET old == Filtered(k, obj[k])
              now == Filtered(k, obj'[k])
          IN  IF now = old THEN objLag[k]
              ELSE Behind(objLag[k], PassesPredicates(old, now))]
    /\ UNCHANGED objCache

(* The injected ConfigMap is watched whatever changes, the APIServer for   *)
(* its TLS settings; nobody watches namespaces.                            *)
WriteInput(i, new) ==
    /\ new # in[i]
    /\ in' = [in EXCEPT ![i] = new]
    /\ inLag' = [inLag EXCEPT ![i] = Behind(inLag[i],
          \/ i = "bundle"
          \/ i = "tls" /\ ClusterAPIServerTLSConfigChanged(in[i], new))]
    /\ UNCHANGED inCache

-----------------------------------------------------------------------------
(***************************************************************************)
(* Writes of the TrustManager object and their retries.                    *)
(***************************************************************************)
WriteError ==
    LET uid == IF pc \in {"observe", "publish"} /\ tmCache # Absent THEN tmCache.uid
               ELSE w.uid
    IN  IF tmCache = Absent THEN "NotFound"
        ELSE IF api["trustmanager"] # "ok" THEN api["trustmanager"]
        ELSE IF tm = Absent THEN "NotFound"
        ELSE IF tmLag # "none" \/ uid # tm.uid THEN "Conflict"
        ELSE "none"

RetryOnConflict ==
    /\ pc \in WritePoints
    /\ WriteError = "Conflict"
    /\ attempt < RetrySteps
    /\ attempt' = attempt + 1
    /\ UNCHANGED <<tmVars, objVars, inVars, envVars, queue, delayed,
                   pc, w, step, bundleRead, err, misled>>

Succeeds == pc \in WritePoints /\ WriteError = "none"
Fails == /\ pc \in WritePoints
         /\ WriteError # "none"
         /\ WriteError = "Conflict" => attempt = RetrySteps

(* UpdateWithRetry(trustManager).                                          *)
Replaced == [tm EXCEPT !.spec = w.spec, !.finalizer = w.finalizer]
UpdateTM ==
    WriteTM(IF Replaced.deleting /\ ~Replaced.finalizer THEN Absent ELSE Replaced)

(* updateStatus: the status of the working copy replaces the live one.     *)
UpdateStatus == WriteTM([tm EXCEPT !.conds = w.conds, !.observed = w.observed])

-----------------------------------------------------------------------------
(***************************************************************************)
(* Reconcile.                                                              *)
(***************************************************************************)

(* The pass has found the conditions it was about to report in its working *)
(* copy and leaves the live status alone, which differs: the copy was      *)
(* fetched before the cache had the status some earlier pass wrote.  Such  *)
(* a status write makes no event either, so the live status stays.  This   *)
(* is known about the last pass until the next one has returned.           *)
Misled ==
    /\ pc = "result"
    /\ tm # Absent
    /\ \/ tm.conds # w.conds
       \/ err = "nil" /\ tm.observed # w.observed

Return(requeue) ==
    /\ pc' = "idle" /\ w' = Absent /\ step' = 1 /\ bundleRead' = Unset
    /\ attempt' = 1 /\ err' = "nil" /\ misled' = Misled
    /\ delayed' = (delayed \/ requeue)

Goto(point) == pc' = point /\ attempt' = 1 /\ UNCHANGED <<bundleRead, misled>>

(* Variant: a terminating object is left alone.                            *)
ReconcileIgnoringDeletion ==
    /\ pc = "idle" /\ queue
    /\ queue' = FALSE
    /\ \/ /\ IF tmCache = Absent THEN TRUE ELSE tmCache.deleting
          /\ Return(FALSE)
       \/ /\ tmCache # Absent
          /\ ~tmCache.deleting
          /\ w' = [tmCache EXCEPT !.finalizer = TRUE]
          /\ Goto(IF tmCache.finalizer THEN "validate" ELSE "finalize")
          /\ UNCHANGED <<delayed, step, err>>
    /\ UNCHANGED <<tmVars, objVars, inVars, envVars>>

(* Take the request, fetch the object, choose between deletion, finalizer  *)
(* and installation.  cleanUp only emits an event.                         *)
Reconcile ==
    /\ pc = "idle" /\ queue
    /\ queue' = FALSE
    /\ \/ /\ tmCache = Absent
          /\ Return(FALSE)
       \/ /\ tmCache # Absent
          /\ tmCache.deleting /\ ~tmCache.finalizer
          /\ Return(FALSE)
       \/ /\ tmCache # Absent
          /\ tmCache.deleting /\ tmCache.finalizer
          /\ w' = [tmCache EXCEPT !.finalizer = FALSE]
          /\ Goto("unfinalize")
          /\ UNCHANGED <<delayed, step, err>>
       \/ /\ tmCache # Absent
          /\ ~tmCache.deleting /\ ~tmCache.finalizer
          /\ w' = [tmCache EXCEPT !.finalizer = TRUE]
          /\ Goto("finalize")
          /\ UNCHANGED <<delayed, step, err>>
       \/ /\ tmCache # Absent
          /\ ~tmCache.deleting /\ tmCache.finalizer
          /\ w' = tmCache
          /\ Goto("validate")
          /\ UNCHANGED <<delayed, step, err>>
    /\ UNCHANGED <<tmVars, objVars, inVars, envVars>>

RemoveFinalizer ==
    /\ pc = "unfinalize"
    /\ \/ Succeeds /\ UpdateTM /\ Return(FALSE)
       \/ Fails /\ Return(TRUE) /\ UNCHANGED tmVars
    /\ UNCHANGED <<objVars, inVars, envVars, queue>>

(* Variant: the error of the update is only logged.                        *)
AddFinalizerIgnoringError ==
    /\ pc = "finalize"
    /\ \/ Succeeds /\ UpdateTM
       \/ Fails /\ UNCHANGED tmVars
    /\ Goto("reread")
    /\ UNCHANGED <<w, step, err, delayed, objVars, inVars, envVars, queue>>

AddFinalizer ==
    /\ pc = "finalize"
    /\ \/ Succeeds /\ UpdateTM /\ Goto("reread") /\ UNCHANGED <<w, step, err, delayed>>
       \/ Fails /\ Return(TRUE) /\ UNCHANGED tmVars
    /\ UNCHANGED <<objVars, inVars, envVars, queue>>

(* addFinalizer ends by fetching the object again, from the cache.         *)
RereadAfterFinalizer ==
    /\ pc = "reread"
    /\ \/ tmCache = Absent /\ Return(TRUE)
       \/ /\ tmCache # Absent
          /\ w' = tmCache
          /\ Goto("validate")
          /\ UNCHANGED <<step, err, delayed>>
    /\ UNCHANGED <<tmVars, objVars, inVars, envVars, queue>>

FailWith(e) == err' = e /\ Goto("result") /\ UNCHANGED <<w, step, delayed>>

(* validateTrustManagerConfig and validateTrustNamespace; both are final.  *)
Validate ==
    /\ pc = "validate"
    /\ \/ /\ ~ValidateTrustManagerConfig(w.spec) \/ ~inCache["namespace"]
          /\ FailWith("Irrecoverable")
       \/ /\ ValidateTrustManagerConfig(w.spec) /\ inCache["namespace"]
          /\ Goto("apply")
          /\ UNCHANGED <<w, step, err, delayed>>
    /\ UNCHANGED <<tmVars, objVars, inVars, envVars, queue>>

(***************************************************************************)
(* One step of the pipeline.                                               *)
(***************************************************************************)
CachedAccount ==
    IF "ServiceAccount" \notin Kinds THEN Absent
    ELSE IF objCache["ServiceAccount"] = Absent THEN Absent
    ELSE objCache["ServiceAccount"].uid

(* The Deployment step uses the hash of the bundle the pass has read at    *)
(* its beginning.                                                          *)
ReadInputs ==
    [bundle |-> IF Kind = "DefaultCAPackage" THEN inCache["bundle"] ELSE bundleRead,
     tls |-> inCache["tls"], image |-> image, sauid |-> CachedAccount]

CachedFields == IF objCache[Kind] = Absent THEN Absent ELSE objCache[Kind].fields

StepError == BuildError(Kind, w.spec, ReadInputs)

Applying == pc = "apply" /\ step <= Len(Pipeline)

(* The step is over; the pass remembers the bundle it has read.            *)
Advance ==
    /\ step' = step + 1
    /\ bundleRead' = IF Kind = "DefaultCAPackage" /\ ~Skipped(Kind, w.spec)
                     THEN inCache["bundle"] ELSE bundleRead
    /\ pc' = "apply" /\ attempt' = 1
    /\ UNCHANGED <<w, err, delayed, misled>>

StepFails ==
    /\ Applying /\ ~Skipped(Kind, w.spec)
    /\ StepError # "nil"
    /\ FailWith(StepError)
    /\ UNCHANGED <<tmVars, objVars, inVars, envVars, queue>>

StepUnchanged ==
    /\ Applying
    /\ \/ Skipped(Kind, w.spec)
       \/ StepError = "nil" /\ ~NeedsApply(Kind, w.spec, ReadInputs, CachedFields)
    /\ Advance
    /\ UNCHANGED <<tmVars, objVars, inVars, envVars, queue>>

(* Patch(desired, client.Apply, ForceOwnership).                           *)
StepApplies ==
    /\ Applying /\ ~Skipped(Kind, w.spec)
    /\ StepError = "nil"
    /\ NeedsApply(Kind, w.spec, ReadInputs, CachedFields)
    /\ \/ /\ api[Kind] = "ok"
          /\ accounts' = IF Kind = "ServiceAccount" /\ obj[Kind] = Absent
                         THEN accounts + 1 ELSE accounts
          /\ \E desired \in {Desired(Kind, w.spec, ReadInputs)} :
                 WriteObj(Kind, ServerSideApply(obj[Kind], desired,
                                IF Kind = "ServiceAccount" THEN accounts + 1 ELSE 0))
          /\ Advance
       \/ /\ api[Kind] # "ok"
          /\ FailWith(FromClientError(api[Kind]))
          /\ UNCHANGED objVars
    /\ UNCHANGED <<tmVars, inVars, envVars, queue>>

(* Variant: the observed state is written once and for all.                *)
PipelineDoneOnce ==
    /\ pc = "apply" /\ step = Len(Pipeline) + 1
    /\ IF w.observed = Unset
       THEN w' = [w EXCEPT !.observed = Observed(w.spec)] /\ Goto("observe")
       ELSE Goto("result") /\ UNCHANGED w
    /\ UNCHANGED <<tmVars, objVars, inVars, envVars, queue, delayed, step, err>>

(* updateStatusObservedState writes only when a field changes.             *)
PipelineDone ==
    /\ pc = "apply" /\ step = Len(Pipeline) + 1
    /\ IF w.observed # Observed(w.spec)
       THEN w' = [w EXCEPT !.observed = Observed(w.spec)] /\ Goto("observe")
       ELSE Goto("result") /\ UNCHANGED w
    /\ UNCHANGED <<tmVars, objVars, inVars, envVars, queue, delayed, step, err>>

UpdateStatusObservedState ==
    /\ pc = "observe"
    /\ \/ Succeeds /\ UpdateStatus /\ Goto("result") /\ UNCHANGED <<w, step, err, delayed>>
       \/ Fails /\ FailWith(FromClientError(WriteError)) /\ UNCHANGED tmVars
    /\ UNCHANGED <<objVars, inVars, envVars, queue>>

HandleReconcileResult ==
    /\ pc = "result"
    /\ \/ /\ ConditionsChanged(w.conds, err)
          /\ w' = [w EXCEPT !.conds = ConditionsFor(err)]
          /\ Goto("publish")
          /\ UNCHANGED <<step, err, delayed>>
       \/ /\ ~ConditionsChanged(w.conds, err)
          /\ Return(Requeues(err, TRUE))
    /\ UNCHANGED <<tmVars, objVars, inVars, envVars, queue>>

(* Variant: an update of the conditions that fails is not retried.         *)
UpdateConditionForgetting ==
    /\ pc = "publish"
    /\ \/ Succeeds /\ UpdateStatus /\ Return(Requeues(err, TRUE))
       \/ Fails /\ Return(FALSE) /\ UNCHANGED tmVars
    /\ UNCHANGED <<objVars, inVars, envVars, queue>>

UpdateCondition ==
    /\ pc = "publish"
    /\ \/ Succeeds /\ UpdateStatus /\ Return(Requeues(err, TRUE))
       \/ Fails /\ Return(Requeues(err, FALSE)) /\ UNCHANGED tmVars
    /\ UNCHANGED <<objVars, inVars, envVars, queue>>

ReconcileStep ==
    \/ Reconcile \/ RemoveFinalizer \/ AddFinalizer \/ RereadAfterFinalizer
    \/ Validate \/ StepFails \/ StepUnchanged \/ StepApplies
    \/ PipelineDone \/ UpdateStatusObservedState
    \/ HandleReconcileResult \/ UpdateCondition \/ RetryOnConflict

-----------------------------------------------------------------------------
(***************************************************************************)
(* The environment.                                                        *)
(***************************************************************************)
Disturb == faults > 0 /\ faults' = faults - 1

UserCreates(s) ==
    /\ tm = Absent /\ created < MaxInstances
    /\ created' = created + 1
    /\ WriteTM([uid |-> created + 1, spec |-> s, deleting |-> FALSE, finalizer |-> FALSE,
                conds |-> NoConditions, observed |-> Unset])
    /\ UNCHANGED <<objVars, inVars, recVars, queue, delayed, image, api, faults>>

UserEdits(s) ==
    /\ tm # Absent /\ s # tm.spec
    /\ Disturb
    /\ WriteTM([tm EXCEPT !.spec = s])
    /\ UNCHANGED <<objVars, inVars, recVars, queue, delayed, image, api, created>>

UserDeletes ==
    /\ tm # Absent /\ ~tm.deleting
    /\ Disturb
    /\ WriteTM(IF tm.finalizer THEN [tm EXCEPT !.deleting = TRUE] ELSE Absent)
    /\ UNCHANGED <<objVars, inVars, recVars, queue, delayed, image, api, created>>

(* Somebody else changes an owned field, takes the managed label off, adds *)
(* a field of his own to the pod template or the annotations, or deletes.  *)
Taken(o, f) == [o EXCEPT !.fields[f] = Foreign, !.owned = @ \ {f}]
Without(o, f) ==
    [o EXCEPT !.fields = [g \in DOMAIN o.fields \ {f} |-> o.fields[g]], !.owned = @ \ {f}]
EditedKey(k) == IF k = "DefaultCAPackage" THEN "data"
                ELSE IF k = "ServiceAccount" THEN "automountServiceAccountToken"
                ELSE IF k = "Deployment" THEN "args" ELSE "rules"

Drifted(k, d) ==
    CASE d = "edit" -> Taken(obj[k], <<"spec", EditedKey(k)>>)
      [] d = "unlabel" -> Without(obj[k], <<"label", "app">>)
      [] d = "extra" -> [obj[k] EXCEPT !.fields =
                           Entry(<<"templateAnnotation", "extra">>, Foreign) ++ @]
      [] d = "delete" -> Absent

Drift(k, d) ==
    /\ obj[k] # Absent
    /\ d = "extra" => k = "Deployment"
    /\ d = "edit" => <<"spec", EditedKey(k)>> \in DOMAIN obj[k].fields
    /\ Drifted(k, d) # obj[k]
    /\ Disturb
    /\ WriteObj(k, Drifted(k, d))
    /\ UNCHANGED <<accounts, tmVars, inVars, recVars, queue, delayed, image, api, created>>

(* The network operator rewrites the injected bundle; the administrator    *)
(* changes the APIServer object.                                           *)
BundleChanges(b) ==
    /\ Disturb
    /\ WriteInput("bundle", b)
    /\ UNCHANGED <<tmVars, objVars, recVars, queue, delayed, image, api, created>>

ProfileChanges(p) ==
    /\ Disturb
    /\ WriteInput("tls", p)
    /\ UNCHANGED <<tmVars, objVars, recVars, queue, delayed, image, api, created>>

NamespaceCreated ==
    /\ WriteInput("namespace", TRUE)
    /\ UNCHANGED <<tmVars, objVars, recVars, envVars, queue, delayed>>

APIFails(e, scope) ==
    /\ api = Healthy
    /\ Disturb
    /\ api' = [t \in Targets |-> IF t \in scope THEN e ELSE "ok"]
    /\ UNCHANGED <<tmVars, objVars, inVars, recVars, queue, delayed, image, created>>

APIRecovers ==
    /\ api # Healthy
    /\ api' = Healthy
    /\ UNCHANGED <<tmVars, objVars, inVars, recVars, queue, delayed, image, created, faults>>

(* The operator restarts, possibly upgraded to another operand image: the  *)
(* informers list everything anew and enqueue what passes their predicates.*)
Restart ==
    /\ Disturb
    /\ image' \in Images
    /\ tmCache' = tm /\ tmLag' = "none"
    /\ objCache' = [k \in Kinds |-> Filtered(k, obj[k])]
    /\ objLag' = [k \in Kinds |-> "none"]
    /\ inCache' = in /\ inLag' = [i \in Inputs |-> "none"]
    /\ queue' = (\/ tm # Absent
                 \/ in["bundle"] # Absent \/ in["tls"] # NoAPIServer
                 \/ \E k \in Kinds : IsManagedResource(obj[k]))
    /\ delayed' = FALSE
    /\ pc' = "idle" /\ w' = Absent /\ step' = 1 /\ bundleRead' = Unset
    /\ attempt' = 1 /\ err' = "nil" /\ misled' = FALSE
    /\ UNCHANGED <<tm, obj, accounts, in, api, created>>

System ==
    \/ DeliverTM
    \/ \E k \in Kinds : DeliverObj(k)
    \/ \E i \in Inputs : DeliverInput(i)
    \/ Requeue
    \/ ReconcileStep

Environment ==
    \/ \E s \in Specs : UserCreates(s) \/ UserEdits(s)
    \/ UserDeletes
    \/ \E k \in Kinds, d \in Drifts : Drift(k, d)
    \/ \E b \in Bundles : BundleChanges(b)
    \/ \E p \in Profiles : ProfileChanges(p)
    \/ NamespaceCreated
    \/ \E e \in Outages, scope \in Scopes : APIFails(e, scope)
    \/ APIRecovers
    \/ Restart

Next == System \/ Environment

Spec == Init /\ [][Next]_vars

(***************************************************************************)
(* Fairness, as for IstioCSR: watches deliver, timers fire, the worker     *)
(* runs, an outage ends.                                                   *)
(***************************************************************************)
Fairness ==
    /\ WF_vars(DeliverTM)
    /\ \A k \in Kinds : WF_vars(DeliverObj(k))
    /\ \A i \in Inputs : WF_vars(DeliverInput(i))
    /\ WF_vars(Requeue)
    /\ WF_vars(ReconcileStep)
    /\ WF_vars(APIRecovers)

FairSpec == Spec /\ Fairness

-----------------------------------------------------------------------------
(***************************************************************************)
(* Correctness.                                                            *)
(***************************************************************************)
Quiescent == pc = "idle" /\ ~queue /\ ~delayed /\ Synced

IsReady == tm.conds.ready = "Ready"
IsDegraded == tm.conds.degraded = "Failed"

LiveInputs ==
    [bundle |-> in["bundle"], tls |-> in["tls"], image |-> image,
     sauid |-> IF "ServiceAccount" \notin Kinds THEN Absent
               ELSE IF obj["ServiceAccount"] = Absent THEN Absent
               ELSE obj["ServiceAccount"].uid]

(* The object holds every field the spec and the inputs ask for, but for   *)
(* those that its comparison leaves out.                                   *)
InPlace(k) ==
    \/ Skipped(k, tm.spec)
    \/ /\ obj[k] # Absent
       /\ BuildError(k, tm.spec, LiveInputs) = "nil"
       /\ LET wanted == Stored(Desired(k, tm.spec, LiveInputs))
          IN  \A f \in DOMAIN wanted \ NeverCompared(k) : Value(obj[k].fields, f) = wanted[f]

Installed == \A k \in Kinds : InPlace(k)

(* When the controller is at rest and reports Ready, every object is that  *)
(* of the current spec and the current inputs: the pod template carries    *)
(* the uid of the live ServiceAccount and the hash of the live CA bundle,  *)
(* the arguments follow the live TLS profile, although each input was read *)
(* from its own cache at its own time (hash at the start of the pass).     *)
(* The one exception is a pass that took an old status for the live one.   *)
ReadyIsTrue ==
    (Quiescent /\ tm # Absent /\ IsReady /\ ~misled) => Installed

(* A user label never takes the place of the label by which the caches     *)
(* find the objects: what the controller itself put there stays visible.   *)
StaysVisible ==
    \A k \in Kinds :
        obj[k] # Absent /\ <<"label", "app">> \in obj[k].owned => IsManagedResource(obj[k])

(* At rest the object says Ready or Degraded, with the same exception.     *)
NoSilentRest ==
    (Quiescent /\ tm # Absent /\ ~misled) => (IsReady \/ IsDegraded)

(* Ready at rest comes with the observed state of the current spec and of  *)
(* the image in use, which a restart with another image changes too, with  *)
(* the same exception.                                                     *)
ObservedIsTrue ==
    (Quiescent /\ tm # Absent /\ IsReady /\ ~misled) => tm.observed = Observed(tm.spec)

(* At rest the finalizer is on the object.                                 *)
FinalizerAtRest ==
    (Quiescent /\ tm # Absent) => tm.finalizer

(* Once the disturbances are over, a valid spec whose inputs are there is  *)
(* installed and reported Ready, for good.                                 *)
Converges ==
    <>[](/\ tm # Absent
         /\ ValidateTrustManagerConfig(tm.spec)
         /\ in["namespace"]
         /\ DefaultCAPackageEnabled(tm.spec) => ReadTrustedCABundle(LiveInputs) = "nil"
         /\ DeploymentError(tm.spec, [LiveInputs EXCEPT !.sauid = 1]) = "nil"
         => IsReady /\ Installed)

(* A deletion the user asked for completes.                                *)
DeletionCompletes ==
    \A u \in 1..MaxInstances :
        (tm # Absent /\ tm.uid = u /\ tm.deleting) ~> (tm = Absent \/ tm.uid # u)

(***************************************************************************)
(* The controller implements the abstract specification of an operand.     *)
(***************************************************************************)
AbstractPhase ==
    IF tm = Absent THEN "none"
    ELSE IF ~tm.finalizer THEN "offered"
    ELSE IF tm.deleting THEN "leaving" ELSE "adopted"

OwnedContent ==
    [k \in Kinds |-> IF obj[k] = Absent THEN Absent
                     ELSE [f \in obj[k].owned |-> obj[k].fields[f]]]

(* Every choice of inputs the cluster can offer.                           *)
AllInputs ==
    [bundle : Bundles \cup {Unset}, tls : Profiles, image : Images,
     sauid : 0..(MaxFaults + 1)]

(* The spec is valid and the builder of the kind has what it needs.        *)
Buildable(k, s, i) ==
    /\ ValidateTrustManagerConfig(s)
    /\ ~Skipped(k, s)
    /\ DefaultCAPackageEnabled(s) => i.bundle # Unset
    /\ DefaultCAPackageEnabled(s) => ReadTrustedCABundle(i) = "nil"
    /\ BuildError(k, s, i) = "nil"

AcceptedContents ==
    UNION {{<<k, Stored(Desired(k, si[1], si[2]))>> :
                si \in {si \in Specs \X AllInputs : Buildable(k, si[1], si[2])}} :
           k \in Kinds}

TheOperand == INSTANCE Operand WITH
    phase <- AbstractPhase, content <- OwnedContent, Accepted <- AcceptedContents

(* Reconcile, with its caches, retries and the reads of one pass at        *)
(* different times, implements Operand: it writes only while its finalizer *)
(* is on the object, only whole contents of accepted specs, and it lets a  *)
(* deleted object go.                                                      *)
ImplementsOperand == TheOperand!Spec

=============================================================================
