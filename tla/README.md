# TLA+ models of the cert-manager operator

The cert-manager operator for OpenShift installs cert-manager and two optional
operands, istio-csr and trust-manager, and keeps them as their custom resources say.
This directory holds TLA+ models of its control logic, the TLC configurations that
check them on small instances, and proofs checked by TLAPS.  Paths below are relative
to the root of the repository.

## 1. The system

| Component | Source | State it keeps | Operations |
|---|---|---|---|
| IstioCSR controller | `pkg/controller/istiocsr` | CR spec, status, finalizer, annotations; one object per managed kind | Reconcile: finalizer, validation, single-instance check, pipeline of create-or-update steps, conditions |
| TrustManager controller | `pkg/controller/trustmanager` | the same, cluster-scoped singleton | Reconcile with server-side apply, default CA bundle |
| CertManager deployment controllers | `pkg/controller/certmanager` | operator CR status, three Deployments | library-go sync: a manifest passed through a list of hooks (images, log level, overrides, credentials, TLS) |
| Default/network-policy/console controllers | `pkg/controller/certmanager` | the CertManager CR "cluster", NetworkPolicies, console resources | periodic sync |
| Common | `pkg/controller/common` | none | client wrapper with retries, error classes, conditions, argument merging, validation |
| Operator client | `pkg/operator/operatorclient` | operator status | lister reads, live writes |
| Manager and starter | `pkg/operator`, `pkg/features`, `pkg/cmd` | caches, feature gates | which controllers run, what their caches contain |
| TLS profile | `pkg/tlsprofile` | the profile read at start | flags and environment of the operands |

**How they interact.** The components do not call each other.  They share the API
server, and inside the operator process the informer caches.  A controller-runtime
controller reads every object from a cache that a watch fills some time later, and
writes to the API server.  Watch events that pass the predicates put a *request* (a
name) into a work queue; one worker takes requests one at a time.  Reconcile may ask
for the request to come back: by an error, with an exponential delay, or by
`RequeueAfter`, here 30 seconds.

**What is hard.**  Every decision is taken on data that may be old, and acted on later.
Writes go through `UpdateWithRetry`, which replaces the resourceVersion of the object
to send by the cached one and so gives up the protection the API server offers.  A
reconciliation is a sequence of some twenty API calls, any of which can fail or be the
last one before a restart; users edit, delete and recreate things in between.  Errors
are sorted into ones that are retried and ones that are not, and the latter leave the
object alone until an event comes.  `PROJECT.json` lists these hazards at their lines.

**What makes the components correct.**

* IstioCSR, one object: a spec the controller rejects is never applied; conditions are
  consistent, and true when the controller rests; the controller never rests silently;
  deletions complete; the spec belongs to the user; the operand is installed in the end.
* IstioCSR, several objects: at most one gets the operand, never while an older one
  lives; the first one does get it or says Degraded; rejected ones say so.
* IstioCSR, RBAC: one ClusterRole, one ClusterRoleBinding, and the second refers to the
  first, whichever of them disappeared and whenever the operator stopped.
* IstioCSR, CA certificate: of a user's ConfigMap only a validated certificate reaches
  the pod, and the copy follows its source, which belongs to somebody else.
* TrustManager: as IstioCSR, with a singleton instead of the arbitration; and Ready
  speaks of the inputs as they are, not as the pass read them: the CA bundle, the TLS
  profile, the uid of the ServiceAccount.
* Both operands: for every kind of object, what the builder sets the comparison sees,
  one write is enough, and user metadata cannot displace the operator's own.
* CertManager: at rest the Deployment is the manifest with every override applied, or
  the operator says Degraded; only users change the spec of the CertManager.
* Process: it comes up in the end, with every object a controller reads in the shared
  caches; the network policies asked for and the console resources are as shipped.

## 2. Modules

| Module | Models | Run by |
|---|---|---|
| `ReconcileResult` | error classes and conditions: `common/errors.go`, `common/reconcile_result.go`, `api/operator/v1alpha1/conditions.go` | all below |
| `IstioCSR` | Reconcile for one IstioCSR object; `IstioCSR_proofs`: theorems | `MCIstioCSR` |
| `IstioCSRInstances` | several IstioCSR objects competing for the operand; `IstioCSRInstances_proofs`: theorems | itself |
| `IstioCSRRBAC` | the ClusterRole and ClusterRoleBinding with generated names; `IstioCSRRBAC_proofs` | itself |
| `IstioCSRCA` | the CA certificate: issuer, user's ConfigMap, secrets, watch labels, the copy; `IstioCSRCA_proofs` | `MCIstioCSRCA` |
| `Maps` | the union of two maps in which the left one wins, and maps with one entry | |
| `ObjectFields` | objects as functions from fields to values | |
| `ContainerArgs` | command lines (`common/container_args.go`) and the cluster TLS profile (`pkg/tlsprofile`) | |
| `IstioCSRObjects` | builders and comparisons of the twelve kinds of istio-csr | `MCOperandApply` |
| `TrustManagerObjects` | builders and comparisons of the fifteen kinds of trust-manager, server-side apply | `MCOperandApply`, `MCTrustManager` |
| `OperandApply` | one object of any of these kinds under repeated passes, edits and drift; `OperandApply_proofs`: lemmas about the objects, theorems | `MCOperandApply` |
| `TrustManager` | the TrustManager controller; `TrustManager_proofs` | `MCTrustManager` |
| `Operand` | the abstract specification `TrustManager` implements | `MCTrustManager` |
| `CertManagerDeployment` | the hooks of a cert-manager Deployment, overrides and their validation | `MCCertManager` |
| `CertManager` | the Deployment controller of library-go around the hooks, the operator client, the default CertManager; `CertManager_proofs` | `MCCertManager` |
| `CacheConfig` | the label selectors of the shared cache | `MCOperator` |
| `Operator` | the start of the process; network policy, console and default controllers; `Operator_proofs` | `MCOperator` |

`TrustManager` composes `TrustManagerObjects`, `ContainerArgs` and `ReconcileResult`;
`CertManager` composes `CertManagerDeployment` and `ContainerArgs`; `Operator` composes
`CacheConfig` and `ContainerArgs`; `OperandApply` has both object modules side by side.
The controllers share only the API server and the caches, and each module has its part of
both: no controller writes an object that another one reads, but for the CertManager and
the ConfigMaps, which the modules treat as written by others at any time.
Operators marked *Variant* in a comment are not used by any specification: each is a
plausible mistake in the definition below it, kept to show that the properties would
notice it (`mutants` in `PROJECT.json`).

### IstioCSR

*State.*  `cr`, `obj` are the API server; `crCache`, `objCache` the informer caches;
`crLag`, `objLag` what the watches have yet to deliver: nothing, changes the predicates
drop ("quiet"), or at least one that puts the request into the queue ("event").
Delivery takes the cache from its state to the live one in a single step.  Passing
through the states in between would only let Reconcile read an intermediate version; a
read of an old version is already possible at any time before delivery, and an event is
never lost because the lag remembers it.  `queue` and `delayed` are the work queue and
its timers.  `pc`, `w`, `step`, `attempt`, `err` are the local variables of Reconcile:
its next API call, its working copy of the CR, its place in the pipeline, its place in
`retry.RetryOnConflict`, and the outcome so far.

An IstioCSR is its `uid`, its `spec` (a model value), whether it is being deleted, has
the finalizer and the processed annotation, its two conditions and the status fields
recorded so far.  A managed object is the spec it was built from, or `Foreign`, and the
state of its labels.  `hasObjectChanged` compares labels and a function `Digest` of the
content, so that fields it leaves out can be told from fields it compares.  `Holds` says
that an object is that of a spec as far as the comparison looks and the watch tells: a
label that somebody changes on a kind watched by generation (deviation 21) wakes nobody
and is no part of it.

*Steps.*  One action per API call of `Reconcile` (`controller.go:178`) in the order of
the code: fetch; remove or add the finalizer; reread; validate; for each kind of
`reconcileIstioCSRDeployment` build, compare, update or create, and for some kinds
record a status field; annotate; `HandleReconcileResult`; write the status.
`RetryOnConflict` is the retry loop of the call at hand.  Every failure of a call is a
disjunct of its action, with the error the API server would give: NotFound, Conflict,
Invalid, AlreadyExists or the current outage, in the order the server checks them.

*Environment.*  Users create, edit and delete the CR; somebody changes, relabels or
deletes managed objects; the API server refuses the writes of some targets for a while;
the operator restarts.  `MaxFaults` bounds how often.

*Left out.*  The CA certificate (`IstioCSRCA`) and the contents of the objects
(`IstioCSRObjects`); the ten-hour resync of the informers; managed objects of kinds with
several objects per kind are one object.  ClusterRole and ClusterRoleBinding are treated as having a fixed name, which
they have once the name is in the status; the time before that is `IstioCSRRBAC`, and
`Converges` is relative to what deviation 6 (section 6) shows there.  `InvalidSpecs`
stands for what `validateIstioCSRConfig` rejects; the CRD schema refuses most of it
earlier, so these specs need an object stored under an older schema.

### IstioCSRInstances

All IstioCSR objects share one informer, so what the controller lists is the store as
it once was.  `log` holds the states of the store from the cached to the live one;
`Deliver` drops the first.  An object is its uid, its creationTimestamp (in seconds,
so that two objects may share one), the two annotations and its Ready condition.
`Reconcile`, `DisallowMultipleInstances`, `RejectStatus`, `RejectAnnotate`, `Install`
and so on are the calls of `processReconcileRequest` and
`disallowMultipleIstioCSRInstances`.  The installation is one step, which succeeds, fails
with an error that is retried (Progressing) or with one that is not (Failed, Degraded, no
requeue), and may have written the status before it fails; the finalizer is taken to be
in place.  A conflict ends the call at once: waiting for the cache and
trying again is the same as the call happening later.

### IstioCSRRBAC

Objects have generated names.  The controller looks an object up by the name in the
status of its working copy or, without one, by label in the cache (`Fetched`).  A
missing object is created, with the recorded name if there is one; a binding with the
wrong reference is deleted and created anew; two matches are an irrecoverable error.
The name goes into the status after every pass.  Labels and rules are always right.

`misled`, here, in `IstioCSR` and in `TrustManager`, is a history variable: the last pass found the
conditions it was about to report already in its working copy, did not write them, and
the live status was another one.  That is deviation 1 of section 6; the properties about
reported conditions are stated for passes that are not misled, and hold then without any
assumption on how fast the watches are.

### IstioCSRCA

`assertIssuerRefExists` and `updateVolumes` (`istiocsr/deployments.go`) read objects that
belong to others, put a watch label on each, validate a certificate and copy it into a
ConfigMap of the controller.  `src` holds the sources (IstioCSR, issuer, ConfigMap of the
user, secret of the issuer, secret of the istiod Certificate), `copy` the ConfigMap; both
with a cache and a lag as in `IstioCSR`.  Secrets are watched by metadata only, through an
informer of its own: `note` is the event, the content comes separately.  The pass is one
action per API call: `AssertIssuerRefExists`, `UpdateWatchLabel` with its retries,
`HandleUserProvidedCA`, `HandleIssuerBasedCA`, `CreateCAConfigMapFromSecret`,
`CreateOrUpdateCAConfigMap`.  A certificate in a ConfigMap is good, or has one of the
flaws `validatePEMData` tells apart; a secret holds a certificate, nothing, or anything
else ("unvalidated"), which the code copies as it is; owners edit, replace and delete the sources (the field
`replaced` of a source is history, for `Recovers` alone).

### ObjectFields, ContainerArgs, IstioCSRObjects, TrustManagerObjects, OperandApply

An object is a function from fields, a section and a key, to values.  What the manifest
fixes for good is one value.  Each `get...Object` is an operator on the spec and the
inputs, each `...Modified` a comparison of the fields it compares, `ServerSideApply` keeps
the owner of each field and leaves those of others, `Update` replaces the object.
`Stored` is what the API server makes of an object (defaults, dropped empty lists).
`GetResourceLabels` returns one map that all steps of a pass share and extend:
`LabelsAt` follows it through the pipeline.  `ContainerArgs` has command lines as
sequences of pairs and as maps, the merge, and the way from the APIServer object over
`tlsAdherence` to the flags of each operand.  Validation of scheduling fields is modelled
by its outcome.

The Deployments have the fields of the manifests and the builders that a comparison looks
at, and those that none looks at (`NeverCompared`).  A few values are taken in the form in
which the API server returns them, which the CRD does not enforce: quantities are
canonical, and a node selector, limits or tolerations that are given are not empty.  The
comparison of istio-csr also dereferences the security context and the readiness probe of
the fetched Deployment (`istiocsr/utils.go:249,256`); a Deployment from which somebody
removed them is not enumerated.

`OperandApply` takes any one object through passes, spec edits, changed inputs and
foreign writes, with caches up to date.  Edits leave alone what the CRD makes immutable:
the trust namespace (`trustmanager_types.go:96-104`) and the five fields of
`ImmutableSpecFields`.  `NotCompared`, five fields of the two Deployments, and
`StoredOtherwise`, three cases, name the exceptions that the code makes necessary,
deviations 4 and 10.

### TrustManager and Operand

The state is laid out as in `IstioCSR`, with three inputs (CA bundle, APIServer, trust
namespace) that have caches and predicates of their own, and with the image, which only a
restart changes.  Server-side apply carries no resourceVersion, so a step of the pipeline
(read the cache, compare, apply) is one action: what happens between its read and its
write could as well have happened before, with the cache not yet up to date.
`bundleRead` is the hash of the CA bundle that the first step computes and the Deployment
step stamps on the pods much later; the ServiceAccount's uid is read in between.  The
cache of the managed kinds is filtered (`Filtered`): an object that loses its label leaves
it with a delete event, and the next apply finds it again by name.  `Pipeline` is the
list of steps of `reconcileTrustManagerDeployment` or a part of it in the same order: the
runs take three steps, the theorems any.

`Operand` says what is promised without caches, queues and retries: writes happen only
while the finalizer holds the resource, every write is the complete content of an accepted
spec for inputs the cluster had, and a deleted resource is released in the end.
`ImplementsOperand` maps the phase to the finalizer and deletion of the live object and
the content to the fields the controller owns.

### CertManagerDeployment and CertManager

A hook is an operator on an abstract Deployment (image, arguments, environment, labels,
replicas, resources, node selector, tolerations, volumes, probe scheme), with the values
that merging and validation tell apart: integers, halves and not-a-number for
`--kube-api-qps` and `--kube-api-burst`.  The proxy variables of the operator process come
in upper and in lower case (`ReadProxyVarsFromEnv`).  `GenericDeploymentHooks` is their
order.

`CertManager` is `DeploymentController.sync` of library-go as this operator configures it.
The CertManager is read from the lister for the state, the metadata, the finalizer and in
eleven hooks, and every read is an action.  The finalizer is written with the whole object
of the lister; `Conflicts` is the check of its resourceVersion.  `UpToDate` is
`ApplyDeployment`, which compares the hash of the required spec and the generation it
recorded; then comes the status, and at last the Degraded condition and the retry.  The
property compares the result with `WantedArgs` and `AsAsked`, which say what the user is
promised without going through hooks: each argument comes from the first layer, from
unsupported overrides down to the manifest, that names it; environment, labels, resources,
node selector and the scheme of the metrics are exactly what is asked for, so that nothing
of an earlier spec stays behind.  Two history variables say
what `UpToDate` cannot know: `lost`, that a Deployment of this name was deleted, and
`deceived`, that a sync took the Deployment for the one it had written although its
contents were others.  `InOrder` allows for an edit that goes unnoticed only when both are
true, and `GenerationInv` (section 4) shows that the first is needed for the second.  The
finalizers and the status of the two sibling controllers are left out.

### CacheConfig and Operator

`CacheConfig` computes, for a set of enabled controllers, the kinds that the cache is told
of and the labels it admits for each, and what each controller reads.  `Operator` is `RunOperator` as a sequence of calls any of
which may fail: serving TLS, infrastructure and console discovery, the controllers, the
flag, up to three looks at the feature gate, the manager with its caches and the TLS
profile of istio-csr.  A failure ends the process and the kubelet starts another; a
failed `manager.Start` is only logged.  The sync loops of the network policy and console
controllers run from the moment they are started, one resource at a time, with the retry
of a failed sync.  A user policy with an unknown component name is not enumerated: the
CRD does not admit it.  `Admitted` has the validation rules of the CRD.

## 3. Runs

| Run | Distinct states | Shows |
|---|---|---|
| `safety` | 1 969 789 | two kinds, a spec that validation rejects and one that cannot be built, disturbances of every sort: types, `RejectedNeverApplied`, `NeverReadyAndDegraded`, `NoStuckDeletion` |
| `recoverable` | 390 662 | when all failures are ones the controller retries: `ReadyIsTrue`, `NoSilentRest` and, under fairness, `Converges`, `DeletionCompletes` |
| `instances` | 528 901 | two objects, perhaps of the same second, failures that are retried and final ones: `AtMostOneProcessed`, `OnlyOldestInstalls` and, under fairness, `FirstServed` |
| `rbac` | 1 929 528 | one disturbance: `ReadyMeansBound` and, under fairness, `Settles` |
| `tm_safety` | 1 219 352 | CA package, ServiceAccount and Deployment; a changing CA bundle, TLS profile, image and trust namespace, drift, an outage, watches of any speed: at rest `NoSilentRest`, `ReadyIsTrue`, `ObservedIsTrue`, `FinalizerAtRest` |
| `tm_live` | 27 928 | labels that clash, a spec that cannot be built: `StaysVisible` and, under fairness, `Converges`, `DeletionCompletes`, `ImplementsOperand` |
| `operand_apply` | 49 060 | all 27 kinds, specs that differ in every field: `NoticesEveryChange`, `OneWriteIsEnough`, `OwnMetadataWins` |
| `ca` | 419 468 | all issuer types, flawed and good certificates, secrets with anything in them: `OnlyValidated`, `CopyFollowsConfigMap`, `CopyFollowsSecret` and, under fairness, `Recovers` |
| `certmanager` | 313 318 | the three Deployments, each in a setting of its own: `AtRestAsAsked`, `SpecIsTheUsers` and, under fairness, `Converges` |
| `operator` | 134 091 | five installations: `EveryReadIsCached` and, under fairness, `ComesUp` |

Two runs end in a counterexample (`findings` in `PROJECT.json`):

| Run | Property | What happens |
|---|---|---|
| `spec_overwritten` | `SpecOwnedByUser` | an old copy of the IstioCSR with a new resourceVersion replaces a user's edit |
| `default_policy_deleted` | `DefaultPoliciesKept` | "Since immutable, we never delete": library-go takes the missing `shouldDelete` for the negation of `shouldCreate` |

**Bounds.**  The pipelines of `IstioCSR` keep one kind of each behaviour: `service`
records a status field once, `clusterrole` writes the status in every pass, `deployment`
is watched by generation and can be impossible to build, for good or until tried again.  The unconditional status write
matters: it repairs a status that an older write replaced, so every passing run has it.
Two disturbances suffice for the races found, which are between the controller's own calls
and one or two events; the runs of `IstioCSR` have one object, the theorems any number.
`instances` has two objects and a cache at most one change behind; its safety part is
proved without these bounds.  `RetrySteps` is 2 where `retry.DefaultRetry` has 5: one
retry has every effect that four have.  In `IstioCSRRBAC` four generated names are enough
for one fault: with fewer, a behaviour without duplicates can run out of names and
`Settles` fails for that reason alone.  `TrustManager` has one disturbance besides the
creation of the object: every action of the environment is possible, at every point of a
pass and at any staleness of each cache.  The kinds are those that depend on each other
through inputs read at different times (package, account, Deployment); the others differ
in content only, which `operand_apply` covers for all.  `operand_apply` lets others hold
one field at a time: comparisons look at each field on its own.  Its specs, seven per
operand, differ from each other in every field, clash with the operator's labels and
annotations, and include those of deviation 10.  `CertManager` has one
disturbance where everything can be configured and two in a plain installation; the
generation of a Deployment does not need a bound, since syncs that change nothing do not
raise it.  In `Operator` two default policies, two user policies and one console resource
show a pass that ends in the middle.

Deadlock is checked for `certmanager` and `operator`, whose controllers are woken again
and again.  Elsewhere it is not: once the environment has used up its disturbances the
controller is meant to come to rest.

**Fairness.**  Watches deliver, timers fire, the worker runs, outages end (weak
fairness for each).  In `IstioCSRInstances` the queue serves every request it holds
(strong fairness of `Reconcile(n)`), as a FIFO queue does.  `Timely` (`IstioCSR`,
`IstioCSRInstances`, `IstioCSRRBAC`, `IstioCSRCA`) says that from some point on a timer
fires, or a pass begins, only when the worker is idle and the caches have caught up;
`PromptWatches` says the same of `TrustManager` from the beginning (its timers wait for
the watches) in `tm_live`; `tm_safety` and the proofs do without it.  The rate limiter's delay grows exponentially up to minutes and
`RequeueAfter` is 30 seconds (`istiocsr/constants.go:30`), a watch takes milliseconds.
Without it a controller that always looks before the cache has caught up can conflict for
ever.  `CertManager` asks
nothing of its resync: `Converges` rests on events and retries.  `Operator` needs the
ten-minute resync of the console controller, which has no watch on what it writes.

## 4. Proofs

TLC checks small instances; the theorems hold for every value of the constants that
satisfies the assumptions below: any number of kinds, specs, inputs, objects,
disturbances and retries, and watches of any speed.

| Theorem | States |
|---|---|
| `IstioCSR_proofs!TypeCorrect` | `Spec => []TypeOK` |
| `IstioCSR_proofs!RejectedSafe` | `Spec => []RejectedNeverApplied` |
| `IstioCSR_proofs!ConditionsSafe` | `Spec => []NeverReadyAndDegraded` |
| `IstioCSR_proofs!DeletionNotForgotten` | `Spec => []NoStuckDeletion` |
| `IstioCSR_proofs!NeverSilent` | `Spec => []NoSilentRest` |
| `IstioCSR_proofs!ReadyIsInstalled` | `Spec => []ReadyIsTrue` |
| `IstioCSRInstances_proofs!TypeCorrect` | `Spec => []TypeOK` |
| `IstioCSRInstances_proofs!Uniqueness` | `Spec => []AtMostOneProcessed` |
| `IstioCSRInstances_proofs!OldestInstalls` | `Spec => []OnlyOldestInstalls` |
| `IstioCSRRBAC_proofs!TypeCorrect` | `Spec => []TypeOK` |
| `IstioCSRRBAC_proofs!ReadyIsBound` | `Spec => []ReadyMeansBound` |
| `IstioCSRCA_proofs!TypeCorrect` | `Spec => []TypeOK` |
| `IstioCSRCA_proofs!NothingUnvalidated` | `Spec => OnlyValidated`: what a pass may write into the copy |
| `IstioCSRCA_proofs!ConfigMapFollowed` | `Spec => []CopyFollowsConfigMap` |
| `IstioCSRCA_proofs!SecretFollowed` | `Spec => []CopyFollowsSecret` |
| `OperandApply_proofs!ChangesNoticed` | `ApplySpec => []NoticesEveryChange` |
| `OperandApply_proofs!OneWriteSuffices` | `ApplySpec => []OneWriteIsEnough` |
| `OperandApply_proofs!OwnMetadataKept` | `ApplySpec => []OwnMetadataWins` |
| `TrustManager_proofs!TypeCorrect` | `Spec => []TypeOK` |
| `TrustManager_proofs!HeldAtRest` | `Spec => []FinalizerAtRest` |
| `TrustManager_proofs!NeverSilent` | `Spec => []NoSilentRest` |
| `TrustManager_proofs!ObservedAtRest` | `Spec => []ObservedIsTrue` |
| `TrustManager_proofs!AlwaysVisible` | `Spec => []StaysVisible` |
| `TrustManager_proofs!ReadyIsInstalled` | `Spec => []ReadyIsTrue` |
| `TrustManager_proofs!RefinesOperand` | `Spec => OperandSafety`: the initial condition and the steps of `Operand` under the mapping of `ImplementsOperand` |
| `CertManager_proofs!TypeCorrect` | `Spec => []TypeOK` |
| `CertManager_proofs!SpecKept` | `Spec => SpecIsTheUsers`: no step of the operator changes the spec |
| `CertManager_proofs!AtRest` | `Spec => []AtRestAsAsked` |
| `Operator_proofs!TypeCorrect` | `Spec => []TypeOK` |
| `Operator_proofs!CacheIsComplete` | `Spec => []EveryReadIsCached` |

*Assumptions.*  Each module names what it assumes of its constants, and TLC evaluates it
on every run: pipelines are (parts of) those of the code in their order, bounds are
natural numbers, outages are errors the client knows, `Absent` is not an object.
`IstioCSR` assumes that some step of the pipeline writes the status in every pass, as that
of the ClusterRole does (`istiocsr/rbacs.go:130,169`): without it a pass that succeeds
could be misled too.  `OperandApply` assumes that what somebody else puts into a field is not what
the operator would put there.
`TrustManager` assumes of specs what the CRD admits: the enumerations, and one trust
namespace, which is immutable.  `CertManager` assumes that the level
of a spec is one of library-go or unset, and that a toleration has a key and an effect; `Operator` that the assets are finitely many
and that user policies are a list of named ones.  The theorems of `TrustManager` and
`AtRest` have the hypothesis `AbsentIsNoObject`, that `Absent` is different from every
function: a quantifier without a bound, which TLC cannot evaluate, and true of the model
value the configurations take.

**IstioCSR.**  `TypeInv` adds to the types that Reconcile has a working copy
whenever it is not idle, and a current kind while it updates or records.  `RejectInv`
adds that past validation the working copy has a valid spec, and in the middle of an
update one the kind can be built from.  `CondInv` extends the property from the live
object to the cache and the working copy, from which it flows back.  `DelInv` follows
the wake-up of a deletion: the event is on its way, or the cache already shows the
deletion and the request is queued, timed, or being worked on; an object being deleted
has its finalizer, and the copy that removes it does not.  `ReportInv` is of the kind
described under *At rest* below: `CopyInv` and `LagInv` say that what the caches and the
working copy know is the live spec and the live objects unless an event is on its way,
`StageInv` that a pass without an error has gone through the whole pipeline, `DoneInv`
what it has established in the calm, `RestInv` what it leaves behind.  The conditions are
the hard part: they are written only if they differ from those of the working copy, which
may be old.  `DoneInv` shows that after the unconditional status write in the pipeline the
copy has the live ones, so that a pass that succeeds is never misled; one that fails before
it may be, and that is deviation 1.

**IstioCSRInstances.**  `Inv` rests on the cache being a past state of the store.
Uids are unique and ordered like the timestamps (`BoundInv`, `IdInv`).  A live object
older than one that some state of the log shows is in that state and all later ones,
and one older than the working copy is in the whole log (`OrderInv`, `WorkInv`): so the
list that arbitration works on, stale as it is, contains every live older object.
Therefore whoever is processed, or about to be, comes before every other live object
(`ProcInv`, `InstInv`), and remains so because later objects are younger.

**At rest.**  The other controllers have their properties at rest, when nothing is
queued, timed or on its way, and the proofs share an argument.  They call the world
*calm* when nothing is on its way that would start another pass.  Whoever changes
something that matters ends the calm, by an event; only the beginning of a pass, which
takes the request from the queue, restores it.  So, in the calm, whatever the pass read
is still true, however many reads at however many times it took.  The inductive
invariants say for each point of a pass what it has established in the calm, and what it
leaves behind when it returns.

* `IstioCSRRBAC`: `BoundInv`.  `PassInv`: the role that the working copy names exists
  once the pass has moved on to the binding, then the binding with the reference to it,
  then the status has both names.  `RestInv` is the property with calm instead of rest.
* `IstioCSRCA`: `FollowInv`.  Here an event exists only for objects with the watch label,
  which the pass itself puts on.  `LagInv` says that a watched source the cache lags
  behind has an event under way; `RequestFresh`, `IssuerFresh` and `HandFresh` that the
  spec, the issuer and the certificate in hand are the live ones or a trace tells; a
  label written on a stale read fails with a conflict.  `HandInv` (part of the types)
  says that what is about to be copied passed the validation, or came from a secret and
  is not empty, which gives `OnlyValidated`.
* `TrustManager`: four layers.  `TypeInv`, with the shape of objects under server-side
  apply.  `CopyInv`: what the cache and the working copy know about the finalizer and the
  deletion of the live object, both of which are never taken back, so that beyond the
  finalizer the object cannot go away under the pass.  `StatusInv` and `RestInv`: the
  conditions and the observed state, to `FinalizerAtRest`, `NoSilentRest`,
  `ObservedIsTrue`.  `InstallInv`: what the steps so far have applied is in place for the
  live inputs, and the hash read in the first step still is that of the bundle
  (`DoneInv`).  It needs, from `OperandApply_proofs`, that a comparison that finds
  nothing modified means that the object holds every field of the builder, and that a
  server-side apply establishes it, for each of the fifteen kinds.
* The refinement: a write of the status or the finalizer is a step of the phase or a
  stutter, and `AcceptInv` makes every apply an `Install` of `Operand`, for a validated
  spec and a bundle that was readable, while the finalizer is there (`Adopted`).
* `CertManager`: a part about data, without steps, and one about a sync.  `HookBuilds`
  says of each of the twenty hooks what it makes of the Deployment; `LayersMerged`,
  `TolerationsCovered` and `BuiltAsAsked` that after the last one it is what `AsAsked`
  asks for, so that the order of the hooks implements the precedence of the seven layers
  of arguments; `PassedNotRefused` that validation hooks that all pass mean that the spec
  is not one to refuse.  `CalmInv` carries this through the eleven reads of the lister, and
  `GenerationInv` says that as long as no Deployment was lost, a recorded generation is
  not one of the future, and that the Deployment with the recorded generation has the
  contents of its hash.  `SpecKept` needs `ListerInv` only: a finalizer update that
  succeeds finds lister and store equal.

**OperandApply.**  Most of the work is about data, for arbitrary specs and inputs: the
shape of what each of the 27 builders makes (`BuildersShape`, `DeploymentShape`,
`CSRBuildersShape`, `CSRDeploymentShape`), that the comparison of the kind looks at each of
its fields (`Noticed`, `CSRNoticed`), that an object with those fields and more labels is
left alone (`SettledIsLeftAlone`, `CSRUnchanged`), and what the server makes of it
(`StoredFacts`, `CSRStoredFacts`).  The invariant `ApplyInv` says what no comparison looks
at: the object is in the namespace that the spec asks for, which neither edits nor drift
can change; what the server fills in (`Filled`: the modes of the volumes, the scope
and the port of the webhook) is filled in, unless somebody replaced the field; and metadata the controller still owns is its own.

**Operator.**  `CacheHidesNothing` is a fact about `CacheConfig` for every set of enabled
controllers: kinds that both operands manage admit the labels of both, those of users have
no selector.  `StartInv` says that the cache is built for the flag.

*Only model-checked.*

* Liveness (`Converges`, `DeletionCompletes`, `FirstServed`, `Settles`, `Recovers`,
  `ComesUp`) and the fairness part of `ImplementsOperand`: the proof system does not
  reach fairness.
* The two properties of the runs that end in a counterexample.

Every invariant and every other action property that a passing run checks is stated by a
theorem.  The induction over data that the proof system does not offer is not needed:
lists are compared as values, and the hooks and kinds are finitely many.

## 5. Not modelled

Generated code (clientset, informers, listers, apply configurations, bindata, deep
copies) and the fakes of the tests, which are half of the lines of the implementation;
manifests, bundle, tests and build files; the field-by-field validation copied from
Kubernetes, but for its outcome; `tlsprofile/client_config.go`; flags other than the ones
named above.  The approver-policy types are an API without a controller in this
repository, and `certmanager_controller.go` an empty Reconciler of the scaffold.
`UpdateOperatorSpec`, `UpdateOperatorStatus` and `PatchOperatorStatus` of the operator
client have no caller.  Messages, events and logs are left out throughout.

## 6. Known deviations

Behaviour met while modelling that a reader of the code or its comments would not expect,
and how to see it.  "Set" refers to the constants of the configuration named.

| | What the code does | How to see it |
|---|---|---|
| 1 | A spec the API server refuses can stay reported Ready: the Failed conditions are already in the stale working copy and are not written again (`common/reconcile_result.go:33`). | `MCIstioCSR_recoverable.cfg` with `Specs = {s1, bad}`, `Refused = {bad}`, `Kinds = {service, clusterrole}`, `Pipeline <- ServiceClusterRole`, `RecordOnce = {service}`: `ReadyIsTrue` without its condition `~misled` |
| 2 | The read after adding the finalizer of an IstioCSR is stale and is written back without it (`istiocsr/utils.go:88`). | the same with `MaxInstances = 2`: `IstioCSR!FinalizerAtRest` |
| 3 | An object of istio-csr that lost the managed label is invisible and blocks its name (`setup_manager.go:303`). | the same with `Drifts = {"unlabel"}`: `Converges` |
| 4 | Affinity, tolerations and the port of the readiness probe of istio-csr are set and not compared (`istiocsr/utils.go:212`); `revisionHistoryLimit` and `automountServiceAccountToken` of trust-manager are in its manifest and not compared (`trustmanager/deployments.go:328`).  An edit of these fields stays. | `NotCompared` in `OperandApply`; or `Digest <- SameDigest` with the Deployment: `Converges` |
| 5 | The error of the status write of a rejected IstioCSR is dropped (`istiocsr/utils.go:404`). | `IstioCSRInstances!RejectedReported` |
| 6 | Watch delay alone lets the controller create a second ClusterRole (`istiocsr/rbacs.go:85`). | `IstioCSRRBAC.cfg` with `MaxFaults = 0`: `NoDuplicates` |
| 7 | `updateWatchLabel` writes a cached copy of an object of a user over an edit made meanwhile (`istiocsr/deployments.go:641`, `common/client.go:108`).  A ConfigMap replaced without the label wakes nobody. | `IstioCSRCA!EditSurvives`; `Recovers` without its condition on a replaced ConfigMap |
| 8 | A pass over a stale copy can leave a TrustManager Progressing, or an istio-csr Ready whose binding refers to a second ClusterRole, for good, for the same reason as 1. | `MCTrustManager.cfg`: `NoSilentRest` without its condition `~misled`; the same for `ReadyMeansBound` of `IstioCSRRBAC.cfg` |
| 9 | The trust namespace is not watched: one created late wakes nobody. | `MCTrustManager_live.cfg` with `LateNamespace = TRUE`: `Converges` |
| 10 | With the default CA package the Deployment of trust-manager always looks modified, because the API server fills in the mode of the volume (`trustmanager/deployments.go:348` against the comment at 324).  The Certificate of istio-csr does without revisions and DNS names: an empty list is not stored (`istiocsr/certificates.go:81`).  The webhook of trust-manager always does: the server fills in the scope of its rules and the port of its service, which are compared with a manifest that has neither (`trustmanager/webhooks.go:98,107`, against the comment at 76-78); it is applied in every pass, without a change and so without an event. | `OneWriteIsEnough` without its condition `~StoredOtherwise` |
| 11 | The watcher of the TLS profile that comments promise (`setup_manager.go:160-162,181-183`) does not exist: a changed profile reaches istio-csr and the operator's endpoint at the next start. | `ClusterChanges` in `Operator` leaves `proc` alone, and nothing reads the profile again after the start |
| 12 | An override hook and its validation read the lister separately: an unsupported argument is applied for a moment (`deployment_overrides_validation.go:31`). | `MCCertManager.cfg` with `Setups <- RaceSetups`: `OnlySupportedArgs` |
| 13 | `--kube-api-qps=NaN` passes the validation (`deployment_overrides_validation.go:164,173`). | `Positive` in `CertManagerDeployment` |
| 14 | A Deployment deleted and recreated can have the generation the controller recorded, which hides drift from `ApplyDeployment`. | `InOrder` without `deceived /\ lost`, and the third of `MCSetups` with `specs` of `{DefaultSpec, Tuned}` and `maxDisturb` of 3: `AtRestAsAsked` |
| 15 | While a hook fails, a deleted or Removed CertManager is not cleaned up; a deleted one that is Unmanaged never goes. | `Refused` and "Unmanaged" come first in `Outcome` |
| 16 | A CertManager changed from Removed to Managed during the removal may have its Deployment for a while without the finalizer. | `AtRestAsAsked` claims it at rest only |
| 17 | `certmanager_types.go:38-62` speaks of arguments of webhook and cainjector that the validation refuses. | `SupportedArgs` |
| 18 | User policies are never cleaned up, and are applied also when the CertManager is Unmanaged. | `UserSync` |
| 19 | A failed `manager.Start` is logged and nothing else (`starter.go:174`); an unusable custom TLS profile or a malformed flag keeps the operator from starting. | `Up` and `Startable` in `Operator` |
| 20 | A console API installed later is not noticed before a restart. | `proc.console` in `ComesUp` |
| 21 | A label that somebody changes on the Certificate or the Deployment of istio-csr stays so until something else starts a pass: the watch goes by generation (`istiocsr/controller.go:154,162`). | `Holds` in `IstioCSR` without `k \notin GenWatched`, with the Deployment and `Drifts = {"labels"}`: `ReadyIsTrue` |
| 22 | What an issuer's secret has under `ca.crt` is copied without the validation that a ConfigMap goes through; it only must not be empty (`istiocsr/deployments.go:532,553,561`). | `OnlyValidated` in `IstioCSRCA` with `Certificates` in both branches |

## 7. State of the project

Modelled: the main loop, arbitration, RBAC names, CA certificate, contents and comparison
of all objects, TrustManager and its abstract specification, CertManager with its hooks and
operator client, start of the process with caches, policies and console.

Proved: every invariant the runs check, the action properties, the lemmas about the
contents of all objects, and the safety part of the refinement.

What a continuation would take up: `IstioCSR` as an implementation of `Operand`.  It does
not hold as the code is, because the finalizer may be missing while objects are written
(deviation 2); once `addFinalizer` keeps what it wrote, the argument for `TrustManager`
carries over.
