------------------------------ MODULE IstioCSR ------------------------------
(***************************************************************************)
(* The IstioCSR controller (pkg/controller/istiocsr) working on one        *)
(* IstioCSR object: the API server, the informer cache the reconciler      *)
(* reads, the work queue, and Reconcile one API call at a time, next to a  *)
(* user who edits, deletes and recreates things, an API server that may    *)
(* refuse writes, and operator restarts.                                   *)
(*                                                                         *)
(* Every read of the reconciler goes to the informer cache; every write    *)
(* goes to the API server.  The cache holds some earlier version of every  *)
(* object; lag says what the watch still has to deliver: "none" (the cache *)
(* has the live resourceVersion), "quiet" (only changes that the predicates*)
(* of the watch ignore) or "event" (a change that enqueues the request).   *)
(* An update carries the cached resourceVersion, so it conflicts exactly   *)
(* when the lag is not "none".                                             *)
(***************************************************************************)
EXTENDS ReconcileResult, Naturals, Sequences

CONSTANTS
    Absent,         \* stands for an object that does not exist
    Kinds,          \* the resources the controller manages, one object each
    Pipeline,       \* the order reconcileIstioCSRDeployment visits them in
    GenWatched,     \* kinds watched through GenerationChangedPredicate
    RecordOnce,     \* kinds whose step writes a status field when it is new
    RecordAlways,   \* kinds whose step writes the status unconditionally
    Specs,          \* the values of IstioCSR.spec
    InvalidSpecs,   \* those validateIstioCSRConfig rejects
    Unbuildable,    \* those from which the object of a kind cannot be built
    Refused,        \* those whose objects the API server finds Invalid
    Digest,         \* the part of the content hasObjectChanged compares
    Foreign,        \* a content somebody else put into a managed object
    Drifts,         \* how somebody else may disturb a managed object
    Outages,        \* the errors the API server may answer writes with
    Scopes,         \* what an outage may concern: sets of Targets
    RetrySteps,     \* attempts of retry.RetryOnConflict
    MaxInstances,   \* bound: how often the IstioCSR object is created
    MaxFaults       \* bound: how many disturbances there are

ASSUME PipelineAssumption ==
    /\ Pipeline \in Seq(Kinds)
    /\ GenWatched \subseteq Kinds
    /\ RecordOnce \subseteq Kinds
    /\ RecordAlways \subseteq Kinds
    /\ \E i \in DOMAIN Pipeline : Pipeline[i] \in RecordAlways
ASSUME SpecsAssumption ==
    /\ InvalidSpecs \subseteq Specs
    /\ Unbuildable \in [Kinds -> SUBSET Specs]
    /\ Refused \subseteq Specs
    /\ Foreign \notin Specs

(* What is written: the IstioCSR object or an object of a managed kind.    *)
Targets == Kinds \cup {"istiocsr"}

ASSUME EnvironmentAssumption ==
    /\ Drifts \subseteq {"spec", "labels", "unlabel", "delete"}
    /\ Outages \subseteq ClientErrors
    /\ Scopes \subseteq SUBSET Targets
ASSUME BoundsAssumption ==
    /\ RetrySteps \in Nat \ {0}
    /\ MaxInstances \in Nat
    /\ MaxFaults \in Nat

VARIABLES
    cr,         \* the IstioCSR object in the API server
    crCache,    \* ... and in the informer cache
    crLag,      \* ... and how far the cache is behind
    obj,        \* the managed objects in the API server
    objCache,   \* ... in the label-filtered informer cache
    objLag,     \* ... and how far that is behind
    api,        \* "ok" or the error writes are answered with, by target
    queue,      \* the request is in the work queue
    delayed,    \* the request will be put back by a timer
    pc,         \* the API call Reconcile is at, "idle" between two requests
    w,          \* Reconcile's working copy of the IstioCSR object
    step,       \* position in Pipeline
    attempt,    \* attempt of the current RetryOnConflict
    err,        \* the error reconcileIstioCSRDeployment returned
    misled,     \* history: see Misled
    created,    \* number of IstioCSR objects created so far
    faults      \* disturbances left

crVars == <<cr, crCache, crLag>>
objVars == <<obj, objCache, objLag>>
recVars == <<pc, w, step, attempt, err, misled>>
envVars == <<api, created, faults>>
vars == <<crVars, objVars, recVars, envVars, queue, delayed>>

(***************************************************************************)
(* State spaces.                                                           *)
(***************************************************************************)
Statuses == [conds : Conditions, recorded : SUBSET Kinds]

CRs == [uid : 1..MaxInstances, spec : Specs, deleting : BOOLEAN,
        finalizer : BOOLEAN, processed : BOOLEAN, status : Statuses]

(* labels: "ok" the ones the controller sets, "other" changed but still    *)
(* carrying the managed label, "stripped" without the managed label.       *)
Objects == [content : Specs \cup {Foreign}, labels : {"ok", "other", "stripped"}]

ASSUME AbsentAssumption == Absent \notin CRs /\ Absent \notin Objects

Healthy == [t \in Targets |-> "ok"]

Lags == {"none", "quiet", "event"}

(* The points where Reconcile is about to write to the API server.         *)
WritePoints == {"finalize", "unfinalize", "update", "record", "annotate",
                "publish"}
Points == WritePoints \cup {"idle", "reread", "validate", "apply", "result"}

TypeOK ==
    /\ cr \in CRs \cup {Absent}
    /\ crCache \in CRs \cup {Absent}
    /\ crLag \in Lags
    /\ obj \in [Kinds -> Objects \cup {Absent}]
    /\ objCache \in [Kinds -> Objects \cup {Absent}]
    /\ objLag \in [Kinds -> Lags]
    /\ api \in [Targets -> {"ok"} \cup Outages]
    /\ queue \in BOOLEAN
    /\ delayed \in BOOLEAN
    /\ pc \in Points
    /\ w \in CRs \cup {Absent}
    /\ step \in 1..(Len(Pipeline) + 1)
    /\ attempt \in 1..RetrySteps
    /\ err \in ReconcileErrors /\ misled \in BOOLEAN
    /\ created \in 0..MaxInstances
    /\ faults \in 0..MaxFaults

Init ==
    /\ cr = Absent /\ crCache = Absent /\ crLag = "none"
    /\ obj = [k \in Kinds |-> Absent]
    /\ objCache = [k \in Kinds |-> Absent]
    /\ objLag = [k \in Kinds |-> "none"]
    /\ api = Healthy /\ queue = FALSE /\ delayed = FALSE
    /\ pc = "idle" /\ w = Absent /\ step = 1 /\ attempt = 1 /\ err = "nil"
    /\ misled = FALSE
    /\ created = 0 /\ faults = MaxFaults

-----------------------------------------------------------------------------
(***************************************************************************)
(* The informer cache and the watches.                                     *)
(***************************************************************************)

(* One more change is under way to the cache; it passes the predicates of  *)
(* the watch or not.                                                       *)
Behind(lag, passes) == IF passes \/ lag = "event" THEN "event" ELSE "quiet"

(* The cache entry of a managed kind is filtered by the managed label.     *)
Filtered(o) == IF o = Absent THEN Absent
               ELSE IF o.labels = "stripped" THEN Absent ELSE o

DeliverCR ==
    /\ crLag # "none"
    /\ crCache' = cr
    /\ crLag' = "none"
    /\ queue' = (queue \/ crLag = "event")
    /\ UNCHANGED <<cr, objVars, recVars, envVars, delayed>>

DeliverObj(k) ==
    /\ objLag[k] # "none"
    /\ objCache' = [objCache EXCEPT ![k] = Filtered(obj[k])]
    /\ objLag' = [objLag EXCEPT ![k] = "none"]
    /\ queue' = (queue \/ objLag[k] = "event")
    /\ UNCHANGED <<obj, crVars, recVars, envVars, delayed>>

(* The rate limiter or RequeueAfter puts the request back.                 *)
Requeue ==
    /\ delayed
    /\ queue' = TRUE
    /\ delayed' = FALSE
    /\ UNCHANGED <<crVars, objVars, recVars, envVars>>

-----------------------------------------------------------------------------
(***************************************************************************)
(* The answers of the API server to the write Reconcile is about to make.  *)
(* CRWriteError answers an update of the IstioCSR object or of its status; *)
(* the uid the request carries is checked like the resourceVersion.        *)
(***************************************************************************)
CRWriteError(uid) ==
    IF crCache = Absent THEN "NotFound"
    ELSE IF api["istiocsr"] # "ok" THEN api["istiocsr"]
    ELSE IF cr = Absent THEN "NotFound"
    ELSE IF crLag # "none" \/ uid # cr.uid THEN "Conflict"
    ELSE "none"

(* The server validates an update after the resourceVersion check, and a   *)
(* create before it looks for the name.                                    *)
ObjWriteError(k) ==
    IF objCache[k] = Absent THEN "NotFound"
    ELSE IF api[k] # "ok" THEN api[k]
    ELSE IF obj[k] = Absent THEN "NotFound"
    ELSE IF objLag[k] # "none" THEN "Conflict"
    ELSE IF w.spec \in Refused THEN "Invalid"
    ELSE "none"

(* A kind has one object of a fixed name.  ClusterRole and                 *)
(* ClusterRoleBinding have it once their generated name is in the status   *)
(* (useStableRBACNameForRecreate); what happens before that is the module  *)
(* IstioCSRRBAC.                                                           *)
CreateError(k) ==
    IF api[k] # "ok" THEN api[k]
    ELSE IF w.spec \in Refused THEN "Invalid"
    ELSE IF obj[k] # Absent THEN "AlreadyExists"
    ELSE "none"

Kind == Pipeline[step]

(* updateStatus sends the cached object back with the status of the        *)
(* working copy, so it carries the cached uid; the other updates carry the *)
(* uid of the working copy.                                                *)
WriteError ==
    IF pc = "update" THEN ObjWriteError(Kind)
    ELSE IF pc \in {"record", "publish"}
         THEN CRWriteError(IF crCache = Absent THEN 0 ELSE crCache.uid)
         ELSE CRWriteError(w.uid)

(* Variant: one attempt too many.                                          *)
RetryOnceMore ==
    /\ pc \in WritePoints
    /\ WriteError = "Conflict"
    /\ attempt <= RetrySteps
    /\ attempt' = attempt + 1
    /\ UNCHANGED <<crVars, objVars, envVars, queue, delayed, pc, w, step, err,
                   misled>>

(* retry.RetryOnConflict: read the cache again and send the update again.  *)
RetryOnConflict ==
    /\ pc \in WritePoints
    /\ WriteError = "Conflict"
    /\ attempt < RetrySteps
    /\ attempt' = attempt + 1
    /\ UNCHANGED <<crVars, objVars, envVars, queue, delayed, pc, w, step, err,
                   misled>>

Succeeds == pc \in WritePoints /\ WriteError = "none"
Fails == /\ pc \in WritePoints
         /\ WriteError # "none"
         /\ WriteError = "Conflict" => attempt = RetrySteps

(* Variant: the predicate lets only changes of the spec pass.              *)
SpecChanged(old, new) == old = Absent \/ new = Absent \/ new.spec # old.spec

(* GenerationChangedPredicate lets an update pass when the generation      *)
(* moved: a changed spec or a deletion.                                    *)
GenerationChanged(old, new) ==
    \/ old = Absent
    \/ new = Absent
    \/ new.spec # old.spec
    \/ new.deleting # old.deleting

(* The IstioCSR object becomes new.                                        *)
WriteCR(new) ==
    /\ cr' = new
    /\ crLag' = IF new = cr THEN crLag
                ELSE Behind(crLag, GenerationChanged(cr, new))
    /\ UNCHANGED crCache

(* UpdateWithRetry(istiocsr): the whole metadata and spec of the working   *)
(* copy replace those of the live object; the status is not touched, and   *)
(* an object being deleted goes away with its last finalizer.              *)
Replaced == [cr EXCEPT !.spec = w.spec, !.finalizer = w.finalizer,
                       !.processed = w.processed]
UpdateCR ==
    WriteCR(IF Replaced.deleting /\ ~Replaced.finalizer THEN Absent ELSE Replaced)

(* updateStatus: the whole status of the working copy replaces the live    *)
(* one.                                                                    *)
UpdateStatus == WriteCR([cr EXCEPT !.status = w.status])

(* Create or UpdateWithRetry(desired) of a managed object.                 *)
Desired == [content |-> w.spec, labels |-> "ok"]

(* A managed object that enters or leaves the filtered cache is a create   *)
(* or delete event; an update passes unless the kind is watched through    *)
(* GenerationChangedPredicate and only labels changed.                     *)
PassesPredicates(k, old, new) ==
    \/ old = Absent
    \/ new = Absent
    \/ k \in GenWatched => new.content # old.content

WriteObj(k, new) ==
    /\ obj' = [obj EXCEPT ![k] = new]
    /\ objLag' = [objLag EXCEPT ![k] =
          LET old == Filtered(obj[k])
              now == Filtered(new)
          IN  IF now = old THEN objLag[k]
              ELSE Behind(objLag[k], PassesPredicates(k, old, now))]
    /\ UNCHANGED objCache

-----------------------------------------------------------------------------
(***************************************************************************)
(* Reconcile.                                                              *)
(***************************************************************************)

(* A pass that has failed for good finds the conditions it was about to    *)
(* report in its working copy and leaves the live ones alone, which        *)
(* differ: the copy was fetched before the cache had the status some       *)
(* earlier pass wrote.  This is known about the last pass until the next   *)
(* one has returned.                                                       *)
Misled ==
    /\ pc = "result" /\ err = "Irrecoverable"
    /\ cr # Absent /\ cr.status.conds # w.status.conds

(* Reconcile returns; requeue is whether the request comes back.           *)
Return(requeue) ==
    /\ pc' = "idle" /\ w' = Absent /\ step' = 1 /\ attempt' = 1 /\ err' = "nil"
    /\ misled' = Misled
    /\ delayed' = (delayed \/ requeue)

Goto(point) == pc' = point /\ attempt' = 1 /\ UNCHANGED misled

(* Take the request, fetch the object and choose between deletion,         *)
(* finalizer and installation.                                             *)
Reconcile ==
    /\ pc = "idle" /\ queue
    /\ queue' = FALSE
    /\ \/ /\ crCache = Absent
          /\ Return(FALSE)
       \/ /\ crCache # Absent
          /\ crCache.deleting /\ ~crCache.finalizer
          /\ Return(FALSE)
       \/ /\ crCache # Absent
          /\ crCache.deleting /\ crCache.finalizer
          /\ w' = [crCache EXCEPT !.finalizer = FALSE]
          /\ Goto("unfinalize")
          /\ UNCHANGED <<delayed, step, err>>
       \/ /\ crCache # Absent
          /\ ~crCache.deleting /\ ~crCache.finalizer
          /\ w' = [crCache EXCEPT !.finalizer = TRUE]
          /\ Goto("finalize")
          /\ UNCHANGED <<delayed, step, err>>
       \/ /\ crCache # Absent
          /\ ~crCache.deleting /\ crCache.finalizer
          /\ w' = crCache
          /\ Goto("validate")
          /\ UNCHANGED <<delayed, step, err>>
    /\ UNCHANGED <<crVars, objVars, envVars>>

(* Variant: the error of the update is not returned.                       *)
RemoveFinalizerIgnoringError ==
    /\ pc = "unfinalize"
    /\ \/ /\ Succeeds
          /\ UpdateCR
          /\ Return(FALSE)
       \/ /\ Fails
          /\ Return(FALSE)
          /\ UNCHANGED crVars
    /\ UNCHANGED <<objVars, envVars, queue>>

RemoveFinalizer ==
    /\ pc = "unfinalize"
    /\ \/ /\ Succeeds
          /\ UpdateCR
          /\ Return(FALSE)
       \/ /\ Fails
          /\ Return(TRUE)
          /\ UNCHANGED crVars
    /\ UNCHANGED <<objVars, envVars, queue>>

AddFinalizer ==
    /\ pc = "finalize"
    /\ \/ /\ Succeeds
          /\ UpdateCR
          /\ Goto("reread")
          /\ UNCHANGED <<w, step, err, delayed>>
       \/ /\ Fails
          /\ Return(TRUE)
          /\ UNCHANGED crVars
    /\ UNCHANGED <<objVars, envVars, queue>>

(* addFinalizer ends by fetching the object again, from the cache.         *)
RereadAfterFinalizer ==
    /\ pc = "reread"
    /\ \/ /\ crCache = Absent
          /\ Return(TRUE)
       \/ /\ crCache # Absent
          /\ w' = crCache
          /\ Goto("validate")
          /\ UNCHANGED <<step, err, delayed>>
    /\ UNCHANGED <<crVars, objVars, envVars, queue>>

(* The reconciliation of the deployment ends with an error.                *)
FailWith(e) ==
    /\ err' = e
    /\ Goto("result")
    /\ UNCHANGED <<w, step, delayed>>

(* Variant: the error of the validation is not returned.                   *)
ValidateIgnoringError ==
    /\ pc = "validate"
    /\ Goto("apply")
    /\ UNCHANGED <<w, step, err, delayed>>
    /\ UNCHANGED <<crVars, objVars, envVars, queue>>

ValidateIstioCSRConfig ==
    /\ pc = "validate"
    /\ \/ /\ w.spec \in InvalidSpecs
          /\ FailWith("Irrecoverable")
       \/ /\ w.spec \notin InvalidSpecs
          /\ Goto("apply")
          /\ UNCHANGED <<w, step, err, delayed>>
    /\ UNCHANGED <<crVars, objVars, envVars, queue>>

(***************************************************************************)
(* The step of one kind: Exists in the cache; then nothing, an update to   *)
(* the desired state or a create; then, for some kinds, the status.        *)
(***************************************************************************)
(* The comparison of the content, by kind (alone, a variant in which the   *)
(* labels are not compared).                                               *)
HasSpecChanged(desired, fetched) ==
    IF fetched.content = Foreign THEN TRUE
    ELSE Digest[desired.content] # Digest[fetched.content]

HasObjectChanged(desired, fetched) ==
    desired.labels # fetched.labels \/ HasSpecChanged(desired, fetched)

(* The status fields of RecordOnce (the image, the gRPC endpoint while the *)
(* port stays) do not depend on the spec.                                  *)
RecordsStatus(k) ==
    k \in RecordAlways \/ (k \in RecordOnce /\ k \notin w.status.recorded)

(* The resource of the current step is in place.                           *)
StepApplied ==
    IF RecordsStatus(Kind)
    THEN /\ w' = [w EXCEPT !.status.recorded = @ \cup {Kind}]
         /\ Goto("record")
         /\ UNCHANGED step
    ELSE /\ step' = step + 1
         /\ Goto("apply")
         /\ UNCHANGED w

(* Variant: the error of getDeploymentObject is not returned.              *)
ApplyingRegardless == pc = "apply" /\ step <= Len(Pipeline)

(* A step whose desired object can be built.                               *)
Applying ==
    /\ pc = "apply" /\ step <= Len(Pipeline)
    /\ w.spec \notin Unbuildable[Kind]

(* getCertificateObject, getDeploymentObject: the spec cannot be turned    *)
(* into an object.  A missing CA ConfigMap, an ACME issuer or a missing    *)
(* image is final; an issuer that does not exist yet, or resources,        *)
(* affinity, tolerations or a node selector that do not validate, is tried *)
(* again.                                                                  *)
CannotBuild ==
    /\ pc = "apply" /\ step <= Len(Pipeline)
    /\ w.spec \in Unbuildable[Kind]
    /\ \E e \in {"Irrecoverable", "RetryRequired"} : FailWith(e)
    /\ UNCHANGED <<crVars, objVars, envVars, queue>>

ApplyUnchanged ==
    /\ Applying
    /\ objCache[Kind] # Absent
    /\ ~HasObjectChanged(Desired, objCache[Kind])
    /\ StepApplied
    /\ UNCHANGED <<crVars, objVars, envVars, queue, delayed, err>>

ApplyChanged ==
    /\ Applying
    /\ objCache[Kind] # Absent
    /\ HasObjectChanged(Desired, objCache[Kind])
    /\ Goto("update")
    /\ UNCHANGED <<crVars, objVars, envVars, queue, delayed, w, step, err>>

ApplyUpdate ==
    /\ pc = "update"
    /\ \/ /\ Succeeds
          /\ WriteObj(Kind, Desired)
          /\ StepApplied
          /\ UNCHANGED <<err, delayed>>
       \/ /\ Fails
          /\ FailWith(FromClientError(WriteError))
          /\ UNCHANGED objVars
    /\ UNCHANGED <<crVars, envVars, queue>>

ApplyCreate ==
    /\ Applying
    /\ objCache[Kind] = Absent
    /\ \/ /\ CreateError(Kind) = "none"
          /\ WriteObj(Kind, Desired)
          /\ StepApplied
          /\ UNCHANGED <<err, delayed>>
       \/ /\ CreateError(Kind) # "none"
          /\ FailWith(FromClientError(CreateError(Kind)))
          /\ UNCHANGED objVars
    /\ UNCHANGED <<crVars, envVars, queue>>

RecordInStatus ==
    /\ pc = "record"
    /\ \/ /\ Succeeds
          /\ UpdateStatus
          /\ step' = step + 1
          /\ Goto("apply")
          /\ UNCHANGED <<w, err, delayed>>
       \/ /\ Fails
          /\ FailWith(FromClientError(WriteError))
          /\ UNCHANGED crVars
    /\ UNCHANGED <<objVars, envVars, queue>>

(* addProcessedAnnotation after the last step.                             *)
PipelineDone ==
    /\ pc = "apply" /\ step = Len(Pipeline) + 1
    /\ IF w.processed
       THEN Goto("result") /\ UNCHANGED w
       ELSE Goto("annotate") /\ w' = [w EXCEPT !.processed = TRUE]
    /\ UNCHANGED <<crVars, objVars, envVars, queue, delayed, step, err>>

(* A failure here is not a ReconcileError, so it is retried whatever it is.*)
(* On success the working copy is overwritten by the server's answer.      *)
AnnotateProcessed ==
    /\ pc = "annotate"
    /\ \/ /\ Succeeds
          /\ UpdateCR
          /\ w' = Replaced
          /\ Goto("result")
          /\ UNCHANGED <<step, err, delayed>>
       \/ /\ Fails
          /\ FailWith("RetryRequired")
          /\ UNCHANGED crVars
    /\ UNCHANGED <<objVars, envVars, queue>>

(* Variant: success does not reset the Degraded condition.                 *)
HandleResultKeepingDegraded ==
    /\ pc = "result"
    /\ \/ /\ ConditionsChanged(w.status.conds, err)
          /\ w' = [w EXCEPT !.status.conds =
                     IF err = "nil" THEN [@ EXCEPT !.ready = "Ready"]
                                    ELSE ConditionsFor(err)]
          /\ Goto("publish")
          /\ UNCHANGED <<step, err, delayed>>
       \/ /\ ~ConditionsChanged(w.status.conds, err)
          /\ Return(Requeues(err, TRUE))
    /\ UNCHANGED <<crVars, objVars, envVars, queue>>

(* HandleReconcileResult up to the status write, which it makes only when  *)
(* a condition of the working copy changes.                                *)
HandleReconcileResult ==
    /\ pc = "result"
    /\ \/ /\ ConditionsChanged(w.status.conds, err)
          /\ w' = [w EXCEPT !.status.conds = ConditionsFor(err)]
          /\ Goto("publish")
          /\ UNCHANGED <<step, err, delayed>>
       \/ /\ ~ConditionsChanged(w.status.conds, err)
          /\ Return(Requeues(err, TRUE))
    /\ UNCHANGED <<crVars, objVars, envVars, queue>>

UpdateCondition ==
    /\ pc = "publish"
    /\ \/ /\ Succeeds
          /\ UpdateStatus
          /\ Return(Requeues(err, TRUE))
       \/ /\ Fails
          /\ Return(Requeues(err, FALSE))
          /\ UNCHANGED crVars
    /\ UNCHANGED <<objVars, envVars, queue>>

ReconcileStep ==
    \/ Reconcile \/ RemoveFinalizer \/ AddFinalizer \/ RereadAfterFinalizer
    \/ ValidateIstioCSRConfig \/ CannotBuild \/ ApplyUnchanged \/ ApplyChanged \/ ApplyUpdate
    \/ ApplyCreate \/ RecordInStatus \/ PipelineDone \/ AnnotateProcessed
    \/ HandleReconcileResult \/ UpdateCondition \/ RetryOnConflict

-----------------------------------------------------------------------------
(***************************************************************************)
(* The environment.                                                        *)
(***************************************************************************)
Disturb == faults > 0 /\ faults' = faults - 1

EmptyStatus == [conds |-> NoConditions, recorded |-> {}]

UserCreates(s) ==
    /\ cr = Absent /\ created < MaxInstances
    /\ created' = created + 1
    /\ WriteCR([uid |-> created + 1, spec |-> s, deleting |-> FALSE,
                finalizer |-> FALSE, processed |-> FALSE, status |-> EmptyStatus])
    /\ UNCHANGED <<objVars, recVars, queue, delayed, api, faults>>

UserEdits(s) ==
    /\ cr # Absent
    /\ s # cr.spec
    /\ Disturb
    /\ WriteCR([cr EXCEPT !.spec = s])
    /\ UNCHANGED <<objVars, recVars, queue, delayed, api, created>>

UserDeletes ==
    /\ cr # Absent
    /\ ~cr.deleting
    /\ Disturb
    /\ WriteCR(IF cr.finalizer THEN [cr EXCEPT !.deleting = TRUE] ELSE Absent)
    /\ UNCHANGED <<objVars, recVars, queue, delayed, api, created>>

(* Somebody else changes or deletes a managed object.                      *)
Drifted(k, d) ==
    CASE d = "spec" -> [obj[k] EXCEPT !.content = Foreign]
      [] d = "labels" -> [obj[k] EXCEPT !.labels = "other"]
      [] d = "unlabel" -> [obj[k] EXCEPT !.labels = "stripped"]
      [] d = "delete" -> Absent

Drift(k, d) ==
    /\ obj[k] # Absent
    /\ Drifted(k, d) # obj[k]
    /\ Disturb
    /\ WriteObj(k, Drifted(k, d))
    /\ UNCHANGED <<crVars, recVars, queue, delayed, api, created>>

APIFails(e, scope) ==
    /\ api = Healthy
    /\ Disturb
    /\ api' = [t \in Targets |-> IF t \in scope THEN e ELSE "ok"]
    /\ UNCHANGED <<crVars, objVars, recVars, queue, delayed, created>>

APIRecovers ==
    /\ api # Healthy
    /\ api' = Healthy
    /\ UNCHANGED <<crVars, objVars, recVars, queue, delayed, created, faults>>

(* The operator restarts: the queue and the working copy are lost, the     *)
(* informers list everything anew and enqueue what they find.              *)
Restart ==
    /\ Disturb
    /\ crCache' = cr /\ crLag' = "none"
    /\ objCache' = [k \in Kinds |-> Filtered(obj[k])]
    /\ objLag' = [k \in Kinds |-> "none"]
    /\ queue' = (cr # Absent \/ \E k \in Kinds : Filtered(obj[k]) # Absent)
    /\ delayed' = FALSE
    /\ pc' = "idle" /\ w' = Absent /\ step' = 1 /\ attempt' = 1 /\ err' = "nil"
    /\ misled' = FALSE
    /\ UNCHANGED <<cr, obj, api, created>>

System ==
    \/ DeliverCR
    \/ \E k \in Kinds : DeliverObj(k)
    \/ Requeue
    \/ ReconcileStep

Environment ==
    \/ \E s \in Specs : UserCreates(s) \/ UserEdits(s)
    \/ UserDeletes
    \/ \E k \in Kinds, d \in Drifts : Drift(k, d)
    \/ \E e \in Outages, scope \in Scopes : APIFails(e, scope)
    \/ APIRecovers
    \/ Restart

Next == System \/ Environment

Spec == Init /\ [][Next]_vars

(***************************************************************************)
(* Fairness: the watch connections deliver what happened, the timers of    *)
(* the work queue fire, the worker runs, and an outage ends.  Timely: the  *)
(* rate limiter backs off exponentially and RequeueAfter waits 30 seconds, *)
(* so from some point on a timer fires only after the worker has finished  *)
(* and the caches have caught up.                                          *)
(***************************************************************************)
Fairness ==
    /\ WF_vars(DeliverCR)
    /\ \A k \in Kinds : WF_vars(DeliverObj(k))
    /\ WF_vars(Requeue)
    /\ WF_vars(ReconcileStep)
    /\ WF_vars(APIRecovers)

Synced == crLag = "none" /\ \A k \in Kinds : objLag[k] = "none"

Timely == <>[][Requeue => pc = "idle" /\ Synced]_vars

FairSpec == Spec /\ Fairness /\ Timely

-----------------------------------------------------------------------------
(***************************************************************************)
(* Correctness.                                                            *)
(***************************************************************************)

(* Nothing is queued, timed, under way or on its way to the cache: without *)
(* a new disturbance the controller will not look at the object again.     *)
Quiescent ==
    /\ pc = "idle" /\ ~queue /\ ~delayed
    /\ Synced

InPlace(k) ==
    obj[k] # Absent /\ obj[k] = [content |-> cr.spec, labels |-> "ok"]

Installed == \A i \in 1..Len(Pipeline) : InPlace(Pipeline[i])

IsReady == cr.status.conds.ready = "Ready"
IsDegraded == cr.status.conds.degraded = "Failed"

(* What the controller itself rejects never reaches the cluster: whatever  *)
(* the interleaving of edits, stale reads, retries and restarts, no object *)
(* is written from a spec that validateIstioCSRConfig rejects or that its  *)
(* kind cannot be built from.                                              *)
RejectedNeverApplied ==
    \A k \in Kinds :
        obj[k] # Absent => obj[k].content \notin InvalidSpecs \cup Unbuildable[k]

(* HandleReconcileResult sets both conditions before the status write, so  *)
(* no reader ever sees an IstioCSR that is Ready and Degraded at once.     *)
NeverReadyAndDegraded ==
    cr # Absent => ~(IsReady /\ IsDegraded)

(* The object of kind k is that of the spec, in everything that the        *)
(* comparison looks at and that the watch tells of: a change of the labels *)
(* alone passes no GenerationChangedPredicate.                             *)
Holds(k, spec) ==
    /\ obj[k] # Absent /\ obj[k].labels # "stripped"
    /\ ~HasSpecChanged([content |-> spec, labels |-> "ok"], obj[k])
    /\ k \notin GenWatched => obj[k].labels = "ok"

(* When the controller has come to rest and reports Ready, the managed     *)
(* objects are those of the current spec, unless its last pass failed and  *)
(* took an old status for the live one.                                    *)
ReadyIsTrue ==
    (Quiescent /\ cr # Absent /\ IsReady /\ ~misled) =>
        \A i \in 1..Len(Pipeline) : Holds(Pipeline[i], cr.spec)

(* The controller never comes to rest without saying so: a live object is  *)
(* reported Ready or Degraded, never left unset or Progressing, unless the *)
(* last pass failed and took an old status for the live one.               *)
NoSilentRest ==
    (Quiescent /\ cr # Absent /\ ~misled) => (IsReady \/ IsDegraded)

(* At rest the finalizer is on the object, although addFinalizer reads the *)
(* object back from a cache that may not have it yet and a later           *)
(* UpdateWithRetry writes that copy: without it a deletion would bypass    *)
(* cleanUp.                                                                *)
FinalizerAtRest ==
    (Quiescent /\ cr # Absent) => cr.finalizer

(* A deletion is never forgotten: at rest no object is left terminating.   *)
NoStuckDeletion ==
    (Quiescent /\ cr # Absent) => ~cr.deleting

(* The spec belongs to the user: no step of the controller changes it.     *)
SpecOwnedByUser ==
    [][System /\ cr # Absent /\ cr' # Absent => cr'.spec = cr.spec]_vars

Installable(s) ==
    /\ s \notin InvalidSpecs \cup Refused
    /\ \A k \in Kinds : s \notin Unbuildable[k]

(* Once the disturbances are over, the operand of a valid spec is          *)
(* installed and reported Ready, for good.                                 *)
Converges ==
    <>[](cr # Absent /\ Installable(cr.spec) => Installed /\ IsReady)

(* A deletion the user asked for completes.                                *)
DeletionCompletes ==
    \A u \in 1..MaxInstances :
        (cr # Absent /\ cr.uid = u /\ cr.deleting) ~> (cr = Absent \/ cr.uid # u)

=============================================================================
