------------------------- MODULE TrustManager_proofs -------------------------
(***************************************************************************)
(* Proofs about the TrustManager controller, for every pipeline, every set *)
(* of specs and inputs, any number of instances, faults and retries, and   *)
(* watches of any speed.                                                   *)
(***************************************************************************)
EXTENDS TrustManager, OperandApply_proofs, SequenceTheorems

-----------------------------------------------------------------------------
(***************************************************************************)
(* The inductive invariant, in four layers, each of which rests on those   *)
(* before it.                                                              *)
(***************************************************************************)

(* 1. Types.  The objects are records of a map of fields, the owned fields *)
(* and a uid, and keep what the comparisons rely on.                       *)
AbsentIsNoObject == \A map : Absent # [x \in DOMAIN map |-> map[x]]

WellShaped(o, k) ==
    o # Absent =>
        /\ o = [fields |-> o.fields, owned |-> o.owned, uid |-> o.uid]
        /\ o.fields = [f \in DOMAIN o.fields |-> o.fields[f]]
        /\ \A s \in Specs : Sound(o.fields, k, GetTrustNamespace(s))
        /\ Extra \notin o.owned

Shape ==
    /\ AbsentIsNoObject
    /\ obj = [k \in Kinds |-> obj[k]] /\ objCache = [k \in Kinds |-> objCache[k]]
    /\ \A k \in Kinds : WellShaped(obj[k], k) /\ WellShaped(objCache[k], k)
    /\ in = [bundle |-> in["bundle"], tls |-> in["tls"], namespace |-> in["namespace"]]
    /\ inCache = [bundle |-> inCache["bundle"], tls |-> inCache["tls"],
                  namespace |-> inCache["namespace"]]

(* A service account costs a fault or is the first one.                    *)
Budget ==
    IF "ServiceAccount" \in Kinds
    THEN accounts + faults + (IF obj["ServiceAccount"] = Absent THEN 1 ELSE 0) <= MaxFaults + 1
    ELSE accounts = 0

InHand == pc # "idle" => w # Absent

TypeInv == TypeOK /\ Shape /\ Budget /\ InHand

(* 2. The object and its copies.                                           *)
SameObject(a, b) ==
    /\ a = Absent <=> b = Absent
    /\ a # Absent => a.uid = b.uid /\ a.spec = b.spec /\ a.deleting = b.deleting

Uids ==
    /\ tm # Absent => tm.uid <= created
    /\ tmCache # Absent => tmCache.uid <= created
    /\ pc # "idle" => w.uid <= created

CacheInv ==
    /\ tmLag = "none" => tmCache = tm
    /\ tmLag # "event" => SameObject(tmCache, tm)

(* Deletion and finalizer are never taken back: a copy that has them knows *)
(* something about the live object.                                        *)
Finalizers ==
    /\ tm # Absent /\ tm.deleting => tm.finalizer
    /\ tmCache # Absent /\ tmCache.deleting => tmCache.finalizer
    /\ tm # Absent /\ tmCache # Absent /\ tm.uid = tmCache.uid =>
          (tmCache.deleting => tm.deleting) /\ (tmCache.finalizer => tm.finalizer)
    /\ tm # Absent /\ pc # "idle" /\ tm.uid = w.uid => (w.deleting => tm.deleting)
    /\ tmCache # Absent /\ tmCache.finalizer /\ ~tmCache.deleting =>
          tm # Absent /\ tm.uid = tmCache.uid /\ tm.finalizer
    /\ pc = "finalize" => w.finalizer
    /\ pc = "unfinalize" => w.deleting /\ ~w.finalizer

(* Beyond the finalizer the object cannot go away under the pass.          *)
Beyond == {"reread", "validate", "apply", "observe", "result", "publish"}
Adopted == pc \in Beyond => tm # Absent /\ tm.finalizer

(* A pass that no event has overtaken works on the cached object.          *)
PassInv == pc # "idle" /\ ~queue => SameObject(w, tmCache)

CopyInv == Uids /\ CacheInv /\ Finalizers /\ Adopted /\ PassInv

(* 3. The status.                                                          *)
StatusInv ==
    /\ err # "nil" => pc \in {"result", "publish"}
    /\ pc \in {"observe", "result", "publish"} /\ err = "nil" =>
          w.observed = Observed(w.spec) /\ step = Len(Pipeline) + 1
    /\ pc = "publish" => w.conds = ConditionsFor(err)

(* What a pass leaves behind.                                              *)
RestInv ==
    (pc = "idle" /\ ~queue /\ ~delayed /\ tmLag # "event" /\ tm # Absent) =>
        /\ tm.finalizer
        /\ ~misled => /\ IsReady \/ IsDegraded
                      /\ IsReady => tm.observed = Observed(tm.spec)

(* 4. The objects of the operand.                                          *)
LagInv ==
    /\ \A i \in Inputs : inLag[i] = "none" => inCache[i] = in[i]
    /\ inLag["bundle"] # "quiet" /\ inLag["tls"] # "quiet"
    /\ \A k \in Kinds :
          /\ objLag[k] = "none" => objCache[k] = Filtered(k, obj[k])
          /\ objLag[k] = "quiet" =>
                ~IsManagedResource(objCache[k]) /\ ~IsManagedResource(obj[k])

(* No event is under way that would start another pass.                    *)
Calm ==
    /\ ~queue
    /\ \A k \in Kinds : objLag[k] # "event"
    /\ inLag["bundle"] # "event" /\ inLag["tls"] # "event"

InPlaceFor(k, s) ==
    \/ Skipped(k, s)
    \/ /\ obj[k] # Absent
       /\ BuildError(k, s, LiveInputs) = "nil"
       /\ Holds(obj[k].fields, k, s, LiveInputs)

(* Every pass goes through the pipeline from its first step.               *)
AppliedPoints == {"apply", "observe", "result", "publish"}
StartInv == pc \notin AppliedPoints => step = 1

(* What the pass has been through is in place, and the bundle it has read  *)
(* is the live one, unless an event says otherwise.                        *)
Done ==
    /\ \A j \in 1..(step - 1) : InPlaceFor(Pipeline[j], w.spec)
    /\ DefaultCAPackageEnabled(w.spec)
       /\ (\E j \in 1..(step - 1) : Pipeline[j] = "DefaultCAPackage") =>
          bundleRead = in["bundle"]
DoneInv == pc \in AppliedPoints /\ err = "nil" /\ Calm => Done

AllInPlace == \A k \in Kinds : InPlaceFor(k, tm.spec)
ReadyInv ==
    (pc = "idle" /\ Calm /\ ~delayed /\ tmLag # "event" /\ tm # Absent /\ ~misled /\ IsReady) =>
        AllInPlace

InstallInv == LagInv /\ StartInv /\ DoneInv /\ ReadyInv

-----------------------------------------------------------------------------
(***************************************************************************)
(* Facts about the values.                                                 *)
(***************************************************************************)
LEMMA KindsFacts ==
    /\ Kinds \subseteq AllKinds
    /\ Len(Pipeline) \in Nat /\ DOMAIN Pipeline = 1..Len(Pipeline)
    /\ \A i \in 1..Len(Pipeline) : Pipeline[i] \in Kinds
    /\ \A k \in Kinds : \E i \in 1..Len(Pipeline) : Pipeline[i] = k
<1> DEFINE All == {FullPipeline[i] : i \in DOMAIN FullPipeline}
<1>1. Pipeline \in Seq(All)
  BY PipelineAssumption
<1> HIDE DEF All
<1>2. /\ Len(Pipeline) \in Nat /\ DOMAIN Pipeline = 1..Len(Pipeline)
      /\ \A i \in 1..Len(Pipeline) : Pipeline[i] \in All
  BY <1>1
<1>3. All = AllKinds
  BY FullPipelineKinds DEF All
<1> QED
  BY <1>2, <1>3 DEF Kinds

(* The steps of the package and of the service account come before the one *)
(* of the Deployment, and no kind comes twice.                             *)
LEMMA Order ==
    ASSUME NEW i \in 1..Len(Pipeline), NEW j \in 1..Len(Pipeline)
    PROVE  /\ Pipeline[i] = Pipeline[j] => i = j
           /\ Pipeline[i] \in {"DefaultCAPackage", "ServiceAccount"}
              /\ Pipeline[j] = "Deployment" => i < j
<1>1. \A a, b \in DOMAIN Pipeline : a < b =>
          \E x, y \in 1..15 : x < y /\ Pipeline[a] = FullPipeline[x] /\ Pipeline[b] = FullPipeline[y]
  <2>1. DOMAIN FullPipeline = 1..15
    BY DEF FullPipeline
  <2>2. \A a, b \in DOMAIN Pipeline : a < b =>
            \E x, y \in DOMAIN FullPipeline :
                x < y /\ Pipeline[a] = FullPipeline[x] /\ Pipeline[b] = FullPipeline[y]
    BY PipelineAssumption
  <2> DEFINE P(D) == \A a, b \in DOMAIN Pipeline : a < b =>
            \E x, y \in D :
                x < y /\ Pipeline[a] = FullPipeline[x] /\ Pipeline[b] = FullPipeline[y]
  <2>3. P(DOMAIN FullPipeline)
    BY <2>2
  <2> HIDE DEF P
  <2>4. P(1..15)
    BY <2>1, <2>3, Zenon
  <2> QED
    BY <2>4 DEF P
<1>2. i \in DOMAIN Pipeline /\ j \in DOMAIN Pipeline
  BY KindsFacts
<1>3. \A x, y \in 1..15 : FullPipeline[x] = FullPipeline[y] => x = y
  <2>1. SUFFICES ASSUME NEW x \in 1..15, NEW y \in 1..15, FullPipeline[x] = FullPipeline[y]
                 PROVE  x = y
    OBVIOUS
  <2>2. x \in Nat /\ y \in Nat /\ 1 <= x /\ x <= 15 /\ 1 <= y /\ y <= 15
    OBVIOUS
  <2> QED
    BY <2>1, <2>2, SMTT(60) DEF FullPipeline
<1>4. \A x \in 1..15 : /\ FullPipeline[x] = "Deployment" => x = 14
                       /\ FullPipeline[x] = "DefaultCAPackage" => x = 1
                       /\ FullPipeline[x] = "ServiceAccount" => x = 2
  BY DEF FullPipeline
<1>5. Pipeline[i] = Pipeline[j] => i = j
  <2>1. ~(i < j /\ Pipeline[i] = Pipeline[j])
    BY <1>1, <1>2, <1>3
  <2>2. ~(j < i /\ Pipeline[i] = Pipeline[j])
    BY <1>1, <1>2, <1>3
  <2>3. i \in Int /\ j \in Int
    BY KindsFacts
  <2> QED
    BY <2>1, <2>2, <2>3
<1>6. ASSUME Pipeline[i] \in {"DefaultCAPackage", "ServiceAccount"}, Pipeline[j] = "Deployment"
      PROVE  i < j
  <2>1. ~(j < i)
    BY <1>1, <1>2, <1>4, <1>6
  <2>2. i # j
    BY <1>6
  <2>3. i \in Int /\ j \in Int
    BY KindsFacts
  <2> QED
    BY <2>1, <2>2, <2>3
<1> QED
  BY <1>5, <1>6

LEMMA TrustManagerFacts ==
    ASSUME NEW c \in TrustManagers
    PROVE  /\ c # Absent
           /\ c.uid \in 1..MaxInstances /\ c.spec \in Specs
           /\ c.deleting \in BOOLEAN /\ c.finalizer \in BOOLEAN
           /\ c.conds \in Conditions /\ c.observed \in ObservedStates \cup {Unset}
           /\ \A s \in Specs : [c EXCEPT !.spec = s] \in TrustManagers
           /\ \A b \in BOOLEAN : /\ [c EXCEPT !.finalizer = b] \in TrustManagers
                                 /\ [c EXCEPT !.deleting = b] \in TrustManagers
           /\ \A s \in Specs, b \in BOOLEAN :
                 [c EXCEPT !.spec = s, !.finalizer = b] \in TrustManagers
           /\ \A q \in Conditions : [c EXCEPT !.conds = q] \in TrustManagers
           /\ \A o \in ObservedStates \cup {Unset} : [c EXCEPT !.observed = o] \in TrustManagers
           /\ \A q \in Conditions, o \in ObservedStates \cup {Unset} :
                 [c EXCEPT !.conds = q, !.observed = o] \in TrustManagers
<1>1. c # Absent
  BY AbsentAssumption
<1> QED
  BY <1>1 DEF TrustManagers

LEMMA ConditionsFacts ==
    /\ NoConditions \in Conditions
    /\ \A e \in ReconcileErrors : ConditionsFor(e) \in Conditions
    /\ \A e : FromClientError(e) \in ReconcileErrors
    /\ \A q \in Conditions : \A e \in ReconcileErrors :
          q = ConditionsFor(e) =>
              /\ q.ready = "Ready" <=> e = "nil"
              /\ q.degraded = "Failed" <=> e = "Irrecoverable"
BY DEF NoConditions, Conditions, ReadyReasons, DegradedReasons, ConditionsFor, ReconcileErrors,
       FromClientError, IsIrrecoverableError

LEMMA ObservedType ==
    ASSUME image \in Images, NEW s \in Specs
    PROVE  Observed(s) \in ObservedStates
BY SpecsAssumption DEF Observed, ObservedStates

-----------------------------------------------------------------------------
(***************************************************************************)
(* Layer 1: types.  The parts are proved one by one.                       *)
(***************************************************************************)
TMTypes ==
    /\ tm \in TrustManagers \cup {Absent} /\ tmCache \in TrustManagers \cup {Absent}
    /\ w \in TrustManagers \cup {Absent}
    /\ tmLag \in Lags /\ created \in 0..MaxInstances
    /\ InHand

ObjTypes ==
    /\ AbsentIsNoObject
    /\ obj = [k \in Kinds |-> obj[k]] /\ objCache = [k \in Kinds |-> objCache[k]]
    /\ \A k \in Kinds : /\ WellFormed(obj[k]) /\ WellFormed(objCache[k])
                        /\ WellShaped(obj[k], k) /\ WellShaped(objCache[k], k)
    /\ objLag \in [Kinds -> Lags]
    /\ accounts \in 0..(MaxFaults + 1) /\ faults \in 0..MaxFaults
    /\ Budget

InTypes ==
    /\ in["bundle"] \in Bundles /\ inCache["bundle"] \in Bundles
    /\ in["tls"] \in Profiles /\ inCache["tls"] \in Profiles
    /\ in["namespace"] \in BOOLEAN /\ inCache["namespace"] \in BOOLEAN
    /\ inLag \in [Inputs -> Lags]
    /\ in = [bundle |-> in["bundle"], tls |-> in["tls"], namespace |-> in["namespace"]]
    /\ inCache = [bundle |-> inCache["bundle"], tls |-> inCache["tls"],
                  namespace |-> inCache["namespace"]]

RecTypes ==
    /\ image \in Images
    /\ api \in [Targets -> {"ok"} \cup Outages]
    /\ queue \in BOOLEAN /\ delayed \in BOOLEAN
    /\ pc \in Points
    /\ bundleRead \in Bundles \cup {Unset}
    /\ step \in 1..(Len(Pipeline) + 1)
    /\ attempt \in 1..RetrySteps
    /\ err \in ReconcileErrors /\ misled \in BOOLEAN

LEMMA TypeInvSplit == TypeInv <=> TMTypes /\ ObjTypes /\ InTypes /\ RecTypes
BY DEF TypeInv, TypeOK, Shape, TMTypes, ObjTypes, InTypes, RecTypes

LEMMA InitTypes == AbsentIsNoObject /\ Init => TypeInv
<1> SUFFICES ASSUME AbsentIsNoObject, Init PROVE TMTypes /\ ObjTypes /\ InTypes /\ RecTypes
  BY TypeInvSplit
<1>1. TMTypes
  BY BoundsAssumption DEF Init, TMTypes, InHand, Lags
<1>2. ObjTypes
  <2>1. /\ obj = [k \in Kinds |-> obj[k]] /\ objCache = [k \in Kinds |-> objCache[k]]
        /\ \A k \in Kinds : obj[k] = Absent /\ objCache[k] = Absent
        /\ objLag \in [Kinds -> Lags]
    BY DEF Init, Lags
  <2>2. accounts \in 0..(MaxFaults + 1) /\ faults \in 0..MaxFaults /\ Budget
    BY <2>1, BoundsAssumption DEF Init, Budget
  <2> QED
    BY <2>1, <2>2 DEF ObjTypes, WellFormed, WellShaped
<1>3. InTypes
  <2>1. PICK b \in Bundles, p \in Profiles :
            in = [bundle |-> b, tls |-> p, namespace |-> ~LateNamespace]
    BY DEF Init
  <2> QED
    BY <2>1, EnvironmentAssumption DEF Init, InTypes, Inputs, Lags
<1>4. RecTypes
  <2>1. 1 \in 1..(Len(Pipeline) + 1) /\ 1 \in 1..RetrySteps
    BY KindsFacts, BoundsAssumption
  <2> QED
    BY <2>1 DEF Init, RecTypes, Healthy, Points, WritePoints, ReconcileErrors
<1> QED
  BY <1>1, <1>2, <1>3, <1>4

(* The writes.                                                             *)
LEMMA WriteTMFacts ==
    ASSUME TMTypes, NEW new, WriteTM(new)
    PROVE  /\ tm' = new /\ tmCache' = tmCache /\ tmLag' \in Lags
           /\ tmLag' # "event" =>
                 tmLag # "event" /\ (new # tm => ~GenerationChanged(tm, new))
           /\ tmLag' = "none" => tmLag = "none" /\ new = tm
BY DEF WriteTM, TMTypes, Lags, Behind

LEMMA UpdateTMFacts ==
    ASSUME TMTypes, pc # "idle", tm # Absent, UpdateTM
    PROVE  /\ tm' \in TrustManagers \cup {Absent} /\ tmCache' = tmCache /\ tmLag' \in Lags
           /\ tm.deleting /\ ~w.finalizer => tm' = Absent
           /\ ~(tm.deleting /\ ~w.finalizer) =>
                 /\ tm' = [tm EXCEPT !.spec = w.spec, !.finalizer = w.finalizer]
                 /\ tm' # Absent /\ tm'.uid = tm.uid /\ tm'.deleting = tm.deleting
                 /\ tm'.finalizer = w.finalizer /\ tm'.spec = w.spec
                 /\ tm'.conds = tm.conds /\ tm'.observed = tm.observed
           /\ tmLag' # "event" => tmLag # "event" /\ SameObject(tm, tm')
           /\ tmLag' = "none" => tmLag = "none" /\ tm' = tm
<1>1. tm \in TrustManagers /\ w \in TrustManagers
  BY DEF TMTypes, InHand
<1>2. Replaced = [tm EXCEPT !.spec = w.spec, !.finalizer = w.finalizer]
  BY DEF Replaced
<1>3. /\ Replaced \in TrustManagers /\ Replaced.uid = tm.uid /\ Replaced.deleting = tm.deleting
      /\ Replaced.finalizer = w.finalizer /\ Replaced.spec = w.spec
      /\ Replaced.conds = tm.conds /\ Replaced.observed = tm.observed
  BY <1>1, <1>2, TrustManagerFacts DEF TrustManagers
<1>4. Replaced # Absent
  BY <1>3, TrustManagerFacts
<1> DEFINE new == IF Replaced.deleting /\ ~Replaced.finalizer THEN Absent ELSE Replaced
<1>5. WriteTM(new)
  BY DEF UpdateTM
<1>6. /\ tm' = new /\ tmCache' = tmCache /\ tmLag' \in Lags
      /\ tmLag' # "event" => tmLag # "event" /\ (new # tm => ~GenerationChanged(tm, new))
      /\ tmLag' = "none" => tmLag = "none" /\ new = tm
  <2> HIDE DEF new
  <2> QED
    BY <1>5, WriteTMFacts
<1>7. tmLag' # "event" => SameObject(tm, tm')
  BY <1>1, <1>3, <1>4, <1>6 DEF GenerationChanged, SameObject
<1> QED
  BY <1>1, <1>2, <1>3, <1>4, <1>6, <1>7

LEMMA UpdateStatusFacts ==
    ASSUME TMTypes, pc # "idle", tm # Absent, UpdateStatus
    PROVE  /\ tm' = [tm EXCEPT !.conds = w.conds, !.observed = w.observed]
           /\ tm' \in TrustManagers /\ tm' # Absent /\ SameObject(tm, tm')
           /\ tm'.finalizer = tm.finalizer
           /\ tm'.conds = w.conds /\ tm'.observed = w.observed
           /\ tmCache' = tmCache /\ tmLag' \in Lags
           /\ tmLag' # "event" => tmLag # "event"
           /\ tmLag' = "none" => tmLag = "none" /\ tm' = tm
<1>1. tm \in TrustManagers /\ w \in TrustManagers
  BY DEF TMTypes, InHand
<1> DEFINE new == [tm EXCEPT !.conds = w.conds, !.observed = w.observed]
<1>2. /\ new \in TrustManagers /\ new.uid = tm.uid /\ new.spec = tm.spec
      /\ new.deleting = tm.deleting /\ new.finalizer = tm.finalizer
      /\ new.conds = w.conds /\ new.observed = w.observed
  BY <1>1, TrustManagerFacts DEF TrustManagers
<1>3. new # Absent
  BY <1>2, TrustManagerFacts
<1>4. WriteTM(new)
  BY DEF UpdateStatus
<1> HIDE DEF new
<1>5. /\ tm' = new /\ tmCache' = tmCache /\ tmLag' \in Lags
      /\ tmLag' # "event" => tmLag # "event"
      /\ tmLag' = "none" => tmLag = "none" /\ new = tm
  BY <1>4, WriteTMFacts
<1> QED
  BY <1>2, <1>3, <1>5 DEF SameObject, new

(* A write succeeds only on an object that is there, and only if the cache *)
(* has it as it is.                                                        *)
LEMMA SucceedsFacts ==
    ASSUME RecTypes, Succeeds
    PROVE  /\ tm # Absent /\ tmCache # Absent /\ tmLag = "none"
           /\ pc \in {"finalize", "unfinalize"} => w.uid = tm.uid
<1>1. api["trustmanager"] # "ok" => api["trustmanager"] \in ClientErrors
  BY EnvironmentAssumption DEF RecTypes, Targets
<1> QED
  BY <1>1 DEF Succeeds, WriteError, ClientErrors

LEMMA TMTypesStep == TypeInv /\ [Next]_vars => TMTypes'
<1> SUFFICES ASSUME TypeInv, [Next]_vars PROVE TMTypes'
  OBVIOUS
<1>0. TMTypes /\ RecTypes /\ ObjTypes
  BY TypeInvSplit
<1>1. ASSUME UNCHANGED <<tmVars, w, pc, created>> PROVE TMTypes'
  BY <1>0, <1>1 DEF TMTypes, InHand, tmVars
<1>2. ASSUME UNCHANGED <<tmVars, w, created>>, pc # "idle" PROVE TMTypes'
  BY <1>0, <1>2 DEF TMTypes, InHand, tmVars
<1>3. ASSUME UNCHANGED <<tmVars, created>>, pc' = "idle", w' = Absent PROVE TMTypes'
  BY <1>0, <1>3 DEF TMTypes, InHand, tmVars
<1>4. CASE DeliverTM
  BY <1>0, <1>4 DEF DeliverTM, TMTypes, InHand, recVars, envVars, Lags
<1>5. CASE \E k \in Kinds : DeliverObj(k)
  BY <1>1, <1>5 DEF DeliverObj, recVars, envVars
<1>6. CASE \E i \in Inputs : DeliverInput(i)
  BY <1>1, <1>6 DEF DeliverInput, recVars, envVars
<1>7. CASE Requeue \/ RetryOnConflict
  BY <1>1, <1>7 DEF Requeue, RetryOnConflict, recVars, envVars
<1>8. CASE Reconcile
  <2>1. CASE Return(FALSE) /\ UNCHANGED <<tmVars, envVars>>
    BY <1>3, <2>1 DEF Return, envVars
  <2>2. ASSUME tmCache # Absent, w' \in {tmCache, [tmCache EXCEPT !.finalizer = TRUE],
                                        [tmCache EXCEPT !.finalizer = FALSE]},
               UNCHANGED <<tmVars, envVars>>
        PROVE  TMTypes'
    <3>1. w' \in TrustManagers
      BY <1>0, <2>2, TrustManagerFacts DEF TMTypes
    <3>2. w' # Absent
      BY <3>1, TrustManagerFacts
    <3> QED
      BY <1>0, <2>2, <3>1, <3>2 DEF TMTypes, InHand, tmVars, envVars
  <2> QED
    BY <1>8, <2>1, <2>2 DEF Reconcile
<1>9. CASE RemoveFinalizer
  <2>1. CASE Succeeds /\ UpdateTM /\ Return(FALSE) /\ UNCHANGED envVars
    <3>1. tm # Absent /\ pc # "idle"
      BY <1>0, <1>9, <2>1, SucceedsFacts DEF RemoveFinalizer
    <3>2. tm' \in TrustManagers \cup {Absent} /\ tmCache' = tmCache /\ tmLag' \in Lags
      BY <1>0, <2>1, <3>1, UpdateTMFacts
    <3> QED
      BY <1>0, <2>1, <3>2 DEF TMTypes, InHand, Return, envVars
  <2>2. CASE Return(TRUE) /\ UNCHANGED <<tmVars, envVars>>
    BY <1>3, <2>2 DEF Return, envVars
  <2> QED
    BY <1>9, <2>1, <2>2 DEF RemoveFinalizer
<1>10. CASE AddFinalizer
  <2>1. CASE Succeeds /\ UpdateTM /\ UNCHANGED w /\ UNCHANGED envVars
    <3>1. tm # Absent /\ pc # "idle"
      BY <1>0, <1>10, <2>1, SucceedsFacts DEF AddFinalizer
    <3>2. tm' \in TrustManagers \cup {Absent} /\ tmCache' = tmCache /\ tmLag' \in Lags
      BY <1>0, <2>1, <3>1, UpdateTMFacts
    <3> QED
      BY <1>0, <2>1, <3>1, <3>2 DEF TMTypes, InHand, envVars
  <2>2. CASE Return(TRUE) /\ UNCHANGED <<tmVars, envVars>>
    BY <1>3, <2>2 DEF Return, envVars
  <2> QED
    BY <1>10, <2>1, <2>2 DEF AddFinalizer
<1>11. CASE RereadAfterFinalizer
  <2>1. CASE Return(TRUE) /\ UNCHANGED <<tmVars, envVars>>
    BY <1>3, <2>1 DEF Return, envVars
  <2>2. CASE tmCache # Absent /\ w' = tmCache /\ UNCHANGED <<tmVars, envVars>>
    BY <1>0, <2>2 DEF TMTypes, InHand, tmVars, envVars
  <2> QED
    BY <1>11, <2>1, <2>2 DEF RereadAfterFinalizer
<1>12. CASE Validate
  BY <1>2, <1>12 DEF Validate, FailWith, envVars
<1>13. CASE StepFails \/ StepUnchanged \/ StepApplies
  BY <1>2, <1>13 DEF StepFails, StepUnchanged, StepApplies, Applying, FailWith, Advance, envVars
<1>14. CASE PipelineDone
  <2>1. w \in TrustManagers
    BY <1>0, <1>14 DEF PipelineDone, TMTypes, InHand
  <2>2. [w EXCEPT !.observed = Observed(w.spec)] \in TrustManagers
    BY <1>0, <2>1, ObservedType, TrustManagerFacts DEF RecTypes
  <2>3. w' \in TrustManagers
    BY <1>14, <2>1, <2>2 DEF PipelineDone
  <2>4. w' # Absent
    BY <2>3, TrustManagerFacts
  <2> QED
    BY <1>0, <1>14, <2>3, <2>4 DEF PipelineDone, TMTypes, InHand, tmVars, envVars
<1>15. CASE UpdateStatusObservedState
  <2>1. CASE Succeeds /\ UpdateStatus /\ UNCHANGED <<w, envVars>>
    <3>1. tm # Absent /\ pc # "idle"
      BY <1>0, <1>15, <2>1, SucceedsFacts DEF UpdateStatusObservedState
    <3>2. tm' \in TrustManagers /\ tmCache' = tmCache /\ tmLag' \in Lags
      BY <1>0, <2>1, <3>1, UpdateStatusFacts
    <3> QED
      BY <1>0, <2>1, <3>1, <3>2 DEF TMTypes, InHand, envVars
  <2>2. CASE FailWith(FromClientError(WriteError)) /\ UNCHANGED <<tmVars, envVars>>
    BY <1>2, <1>15, <2>2 DEF UpdateStatusObservedState, FailWith, envVars
  <2> QED
    BY <1>15, <2>1, <2>2 DEF UpdateStatusObservedState
<1>16. CASE HandleReconcileResult
  <2>1. w \in TrustManagers
    BY <1>0, <1>16 DEF HandleReconcileResult, TMTypes, InHand
  <2>2. CASE w' = [w EXCEPT !.conds = ConditionsFor(err)] /\ UNCHANGED <<tmVars, envVars>>
    <3>1. w' \in TrustManagers
      BY <1>0, <2>1, <2>2, TrustManagerFacts, ConditionsFacts DEF RecTypes
    <3>2. w' # Absent
      BY <3>1, TrustManagerFacts
    <3> QED
      BY <1>0, <2>2, <3>1, <3>2 DEF TMTypes, InHand, tmVars, envVars
  <2>3. CASE Return(Requeues(err, TRUE)) /\ UNCHANGED <<tmVars, envVars>>
    BY <1>3, <2>3 DEF Return, envVars
  <2> QED
    BY <1>16, <2>2, <2>3 DEF HandleReconcileResult
<1>17. CASE UpdateCondition
  <2>1. CASE Succeeds /\ UpdateStatus /\ Return(Requeues(err, TRUE)) /\ UNCHANGED envVars
    <3>1. tm # Absent /\ pc # "idle"
      BY <1>0, <1>17, <2>1, SucceedsFacts DEF UpdateCondition
    <3>2. tm' \in TrustManagers /\ tmCache' = tmCache /\ tmLag' \in Lags
      BY <1>0, <2>1, <3>1, UpdateStatusFacts
    <3> QED
      BY <1>0, <2>1, <3>2 DEF TMTypes, InHand, Return, envVars
  <2>2. CASE Return(Requeues(err, FALSE)) /\ UNCHANGED <<tmVars, envVars>>
    BY <1>3, <2>2 DEF Return, envVars
  <2> QED
    BY <1>17, <2>1, <2>2 DEF UpdateCondition
<1>18. ASSUME NEW s \in Specs, UserCreates(s) PROVE TMTypes'
  <2> DEFINE new == [uid |-> created + 1, spec |-> s, deleting |-> FALSE, finalizer |-> FALSE,
                     conds |-> NoConditions, observed |-> Unset]
  <2>1. created + 1 \in 1..MaxInstances /\ created' \in 0..MaxInstances
    BY <1>0, <1>18, BoundsAssumption DEF UserCreates, TMTypes
  <2>2. new \in TrustManagers
    BY <2>1, ConditionsFacts DEF TrustManagers
  <2>3. WriteTM(new)
    BY <1>18 DEF UserCreates
  <2> HIDE DEF new
  <2>4. tm' = new /\ tmCache' = tmCache /\ tmLag' \in Lags
    BY <1>0, <2>3, WriteTMFacts
  <2> QED
    BY <1>0, <1>18, <2>1, <2>2, <2>4 DEF UserCreates, TMTypes, InHand, recVars
<1>19. ASSUME NEW s \in Specs, UserEdits(s) PROVE TMTypes'
  <2> DEFINE new == [tm EXCEPT !.spec = s]
  <2>1. new \in TrustManagers
    BY <1>0, <1>19, TrustManagerFacts DEF UserEdits, TMTypes
  <2>2. WriteTM(new)
    BY <1>19 DEF UserEdits
  <2> HIDE DEF new
  <2>3. tm' = new /\ tmCache' = tmCache /\ tmLag' \in Lags
    BY <1>0, <2>2, WriteTMFacts
  <2> QED
    BY <1>0, <1>19, <2>1, <2>3 DEF UserEdits, TMTypes, InHand, recVars
<1>20. CASE UserDeletes
  <2> DEFINE new == IF tm.finalizer THEN [tm EXCEPT !.deleting = TRUE] ELSE Absent
  <2>1. new \in TrustManagers \cup {Absent}
    BY <1>0, <1>20, TrustManagerFacts DEF UserDeletes, TMTypes
  <2>2. WriteTM(new)
    BY <1>20 DEF UserDeletes
  <2> HIDE DEF new
  <2>3. tm' = new /\ tmCache' = tmCache /\ tmLag' \in Lags
    BY <1>0, <2>2, WriteTMFacts
  <2> QED
    BY <1>0, <1>20, <2>1, <2>3 DEF UserDeletes, TMTypes, InHand, recVars
<1>21. CASE \E k \in Kinds, d \in Drifts : Drift(k, d)
  BY <1>1, <1>21 DEF Drift, recVars
<1>22. CASE \/ \E b \in Bundles : BundleChanges(b)
            \/ \E p \in Profiles : ProfileChanges(p)
            \/ NamespaceCreated
  BY <1>1, <1>22 DEF BundleChanges, ProfileChanges, NamespaceCreated, recVars, envVars
<1>23. CASE (\E e \in Outages, scope \in Scopes : APIFails(e, scope)) \/ APIRecovers
  BY <1>1, <1>23 DEF APIFails, APIRecovers, recVars
<1>24. CASE Restart
  BY <1>0, <1>24 DEF Restart, TMTypes, InHand, Lags
<1>25. CASE UNCHANGED vars
  BY <1>1, <1>25 DEF vars, recVars, envVars
<1> QED
  BY <1>4, <1>5, <1>6, <1>7, <1>8, <1>9, <1>10, <1>11, <1>12, <1>13, <1>14, <1>15, <1>16,
     <1>17, <1>18, <1>19, <1>20, <1>21, <1>22, <1>23, <1>24, <1>25
     DEF Next, System, Environment, ReconcileStep

(* The label decides what the caches hold, and what is filtered out has it *)
(* not.                                                                    *)
LEMMA FilteredFacts ==
    ASSUME NEW k, NEW o
    PROVE  /\ Filtered(k, o) \in {o, Absent}
           /\ IsManagedResource(Filtered(k, o)) <=> IsManagedResource(o)
           /\ IsManagedResource(o) => Filtered(k, o) = o /\ o # Absent
BY DEF Filtered, IsManagedResource

LEMMA AbsentShape == WellFormed(Absent) /\ \A k : WellShaped(Absent, k)
BY DEF WellFormed, WellShaped

LEMMA WriteObjFacts ==
    ASSUME ObjTypes, NEW k \in Kinds, NEW new, WriteObj(k, new)
    PROVE  /\ obj' = [j \in Kinds |-> obj'[j]] /\ objCache' = objCache
           /\ obj'[k] = new /\ \A j \in Kinds \ {k} : obj'[j] = obj[j]
           /\ objLag' \in [Kinds -> Lags] /\ \A j \in Kinds \ {k} : objLag'[j] = objLag[j]
           /\ \/ Filtered(k, new) = Filtered(k, obj[k]) /\ objLag'[k] = objLag[k]
              \/ objLag'[k] = "event"
              \/ /\ objLag[k] # "event" /\ objLag'[k] = "quiet"
                 /\ ~IsManagedResource(obj[k]) /\ ~IsManagedResource(new)
<1>1. obj' = [obj EXCEPT ![k] = new]
  BY DEF WriteObj
<1>2. /\ obj' = [j \in Kinds |-> obj'[j]]
      /\ obj'[k] = new /\ \A j \in Kinds \ {k} : obj'[j] = obj[j]
  BY <1>1 DEF ObjTypes
<1> DEFINE old == Filtered(k, obj[k])
           now == Filtered(k, new)
           lag == IF now = old THEN objLag[k] ELSE Behind(objLag[k], PassesPredicates(old, now))
<1>3. objLag' = [objLag EXCEPT ![k] = lag]
  BY <1>2 DEF WriteObj
<1>4. lag \in Lags
  BY DEF ObjTypes, Behind, Lags
<1>5. /\ objLag' \in [Kinds -> Lags] /\ objLag'[k] = lag
      /\ \A j \in Kinds \ {k} : objLag'[j] = objLag[j]
  <2> HIDE DEF lag
  <2> QED
    BY <1>3, <1>4 DEF ObjTypes
<1>6. \/ now = old /\ lag = objLag[k]
      \/ lag = "event"
      \/ objLag[k] # "event" /\ lag = "quiet" /\ ~PassesPredicates(old, now)
  BY DEF Behind
<1>7. ~PassesPredicates(old, now) => ~IsManagedResource(obj[k]) /\ ~IsManagedResource(new)
  BY FilteredFacts DEF PassesPredicates
<1>8. objCache' = objCache
  BY DEF WriteObj
<1> QED
  BY <1>2, <1>5, <1>6, <1>7, <1>8

LosesOne(new, old) == \E f : new = old \ {f}

(* What others do to an object keeps its shape.                            *)
LEMMA DriftedFacts ==
    ASSUME ObjTypes, NEW k \in Kinds, NEW d \in Drifts, obj[k] # Absent,
           d = "edit" => <<"spec", EditedKey(k)>> \in DOMAIN obj[k].fields
    PROVE  /\ WellFormed(Drifted(k, d)) /\ WellShaped(Drifted(k, d), k)
           /\ d # "delete" =>
                 /\ Drifted(k, d).uid = obj[k].uid
                 /\ Drifted(k, d) = [fields |-> Drifted(k, d).fields,
                                     owned |-> Drifted(k, d).owned, uid |-> Drifted(k, d).uid]
                 /\ Drifted(k, d).owned \subseteq obj[k].owned
                 /\ LosesOne(Drifted(k, d).owned, obj[k].owned)
                 /\ \A f \in Drifted(k, d).owned :
                        Drifted(k, d).fields[f] = obj[k].fields[f]
           /\ d = "delete" => Drifted(k, d) = Absent
<1> DEFINE o == obj[k]
           fs == o.fields
           edited == <<"spec", EditedKey(k)>>
<1>1. /\ o = [fields |-> fs, owned |-> o.owned, uid |-> o.uid]
      /\ fs = [f \in DOMAIN fs |-> fs[f]]
      /\ \A s \in Specs : Sound(fs, k, GetTrustNamespace(s))
      /\ o.owned \subseteq DOMAIN fs /\ o.uid \in 0..(MaxFaults + 1)
      /\ Extra \notin o.owned
  BY DEF ObjTypes, WellFormed, WellShaped
<1>2. /\ edited \notin ServerFills(k) /\ edited # Namespace /\ edited # AppLabel
      /\ edited = <<edited[1], edited[2]>>
  BY DEF EditedKey, ServerFills, Volumes, Rules, ClientConfig, Namespace, AppLabel
<1>3. AppLabel \notin ServerFills(k) /\ AppLabel # Namespace
  BY DEF ServerFills, Volumes, Rules, ClientConfig, Namespace, AppLabel
<1> HIDE DEF o, fs, edited
<1>4. CASE d = "edit"
  <2> DEFINE new == [fs EXCEPT ![edited] = Foreign]
  <2>1. Drifted(k, d) = [o EXCEPT !.fields[edited] = Foreign, !.owned = @ \ {edited}]
    BY <1>4 DEF Drifted, Taken, o, edited
  <2>2. Drifted(k, d) = [fields |-> new, owned |-> o.owned \ {edited}, uid |-> o.uid]
    BY <1>1, <2>1 DEF fs
  <2>3. /\ DOMAIN new = DOMAIN fs /\ new = [f \in DOMAIN new |-> new[f]]
        /\ \A f \in DOMAIN new \ {edited} : new[f] = fs[f]
    BY <1>1
  <2> HIDE DEF new
  <2>4. \A s \in Specs : Sound(new, k, GetTrustNamespace(s))
    BY <1>1, <1>2, <2>3 DEF Sound, Fields
  <2>5. LosesOne(o.owned \ {edited}, o.owned)
    BY DEF LosesOne
  <2> QED
    BY <1>1, <1>4, <2>2, <2>3, <2>4, <2>5 DEF WellFormed, WellShaped, o, fs
<1>5. CASE d = "unlabel"
  <2> DEFINE new == [f \in DOMAIN fs \ {AppLabel} |-> fs[f]]
  <2>1. Drifted(k, d) = [o EXCEPT !.fields = new, !.owned = @ \ {AppLabel}]
    BY <1>5 DEF Drifted, Without, o, fs, AppLabel
  <2>2. Drifted(k, d) = [fields |-> new, owned |-> o.owned \ {AppLabel}, uid |-> o.uid]
    BY <1>1, <2>1
  <2>3. /\ DOMAIN new = DOMAIN fs \ {AppLabel} /\ new = [f \in DOMAIN new |-> new[f]]
        /\ \A f \in DOMAIN new : new[f] = fs[f]
    OBVIOUS
  <2> HIDE DEF new
  <2>4. \A s \in Specs : Sound(new, k, GetTrustNamespace(s))
    BY <1>1, <1>3, <2>3 DEF Sound, Fields
  <2>5. LosesOne(o.owned \ {AppLabel}, o.owned)
    BY DEF LosesOne
  <2>6. WellFormed(Drifted(k, d)) /\ WellShaped(Drifted(k, d), k)
    BY <1>1, <2>2, <2>3, <2>4 DEF WellFormed, WellShaped, o, fs
  <2>7. /\ Drifted(k, d).fields = new /\ Drifted(k, d).owned = o.owned \ {AppLabel}
        /\ Drifted(k, d).uid = o.uid
        /\ Drifted(k, d) = [fields |-> Drifted(k, d).fields,
                            owned |-> Drifted(k, d).owned, uid |-> Drifted(k, d).uid]
    BY <2>2
  <2>8. \A f \in Drifted(k, d).owned : Drifted(k, d).fields[f] = o.fields[f]
    BY <1>1, <2>3, <2>7 DEF fs
  <2> QED
    BY <1>5, <2>5, <2>6, <2>7, <2>8 DEF o
<1>6. CASE d = "extra"
  <2> DEFINE new == [f \in {Extra} \cup DOMAIN fs |-> IF f \in {Extra} THEN Foreign ELSE fs[f]]
  <2>1. Drifted(k, d) = [o EXCEPT !.fields = Entry(Extra, Foreign) ++ @]
    BY <1>6 DEF Drifted, o, Extra
  <2>2. Entry(Extra, Foreign) ++ fs = new
    BY DEF Entry, ++, Merge
  <2>3. Drifted(k, d) = [fields |-> new, owned |-> o.owned, uid |-> o.uid]
    BY <1>1, <2>1, <2>2
  <2>4. Extra \notin ServerFills(k) /\ Extra # Namespace /\ Extra = <<Extra[1], Extra[2]>>
    BY DEF ServerFills, Volumes, Rules, ClientConfig, Namespace, Extra
  <2>5. /\ DOMAIN new = {Extra} \cup DOMAIN fs /\ new = [f \in DOMAIN new |-> new[f]]
        /\ \A f \in DOMAIN fs \ {Extra} : new[f] = fs[f]
    OBVIOUS
  <2> HIDE DEF new
  <2>6. \A s \in Specs : Sound(new, k, GetTrustNamespace(s))
    BY <1>1, <2>4, <2>5 DEF Sound, Fields
  <2>7. LosesOne(o.owned, o.owned)
    <3>1. o.owned = o.owned \ {Extra}
      BY <1>1
    <3> QED
      BY <3>1 DEF LosesOne
  <2> QED
    BY <1>1, <1>6, <2>3, <2>5, <2>6, <2>7 DEF WellFormed, WellShaped, o, fs
<1>7. CASE d = "delete"
  BY <1>7 DEF Drifted, WellFormed, WellShaped
<1> QED
  BY <1>4, <1>5, <1>6, <1>7, EnvironmentAssumption

LEMMA StepKind == Applying /\ RecTypes => step \in 1..Len(Pipeline) /\ Kind \in Kinds
<1> SUFFICES ASSUME Applying, RecTypes PROVE step \in 1..Len(Pipeline) /\ Kind \in Kinds
  OBVIOUS
<1>1. step \in 1..Len(Pipeline)
  BY KindsFacts DEF Applying, RecTypes
<1> QED
  BY <1>1, KindsFacts DEF Kind

(* The new object of a step that applies.                                  *)
LEMMA AppliedFacts ==
    ASSUME TypeInv, Applying
    PROVE  LET uid == IF Kind = "ServiceAccount" THEN accounts + 1 ELSE 0
               new == ServerSideApply(obj[Kind], Desired(Kind, w.spec, ReadInputs), uid)
           IN  /\ new = [fields |-> new.fields, owned |-> new.owned, uid |-> new.uid]
               /\ new # Absent
               /\ WellFormed(new) /\ WellShaped(new, Kind)
               /\ Holds(new.fields, Kind, w.spec, ReadInputs)
               /\ new.owned = DOMAIN Desired(Kind, w.spec, ReadInputs)
               /\ \A f \in new.owned :
                     new.fields[f] = Stored(Desired(Kind, w.spec, ReadInputs))[f]
               /\ AppLabel \in DOMAIN new.fields /\ new.fields[AppLabel] = "trust-manager"
               /\ obj[Kind] # Absent => new.uid = obj[Kind].uid
<1> DEFINE uid == IF Kind = "ServiceAccount" THEN accounts + 1 ELSE 0
           d == Desired(Kind, w.spec, ReadInputs)
           new == ServerSideApply(obj[Kind], d, uid)
<1>1. Kind \in Kinds /\ Kind \in AllKinds
  BY StepKind, TypeInvSplit, KindsFacts
<1>2. w \in TrustManagers /\ w.spec \in Specs
  <2>1. w \in TrustManagers
    BY TypeInvSplit DEF Applying, TMTypes, InHand
  <2> QED
    BY <2>1, TrustManagerFacts
<1>3. /\ obj[Kind] # Absent => Fields(obj[Kind].fields)
      /\ obj[Kind] # Absent => obj[Kind].uid \in 0..(MaxFaults + 1)
  BY <1>1, <1>2, TypeInvSplit DEF ObjTypes, WellShaped, WellFormed, Sound
<1>4. /\ new = [fields |-> new.fields, owned |-> new.owned, uid |-> new.uid]
      /\ Holds(new.fields, Kind, w.spec, ReadInputs)
      /\ Sound(new.fields, Kind, GetTrustNamespace(w.spec))
      /\ new.owned = DOMAIN Desired(Kind, w.spec, ReadInputs)
      /\ new.owned \subseteq DOMAIN new.fields /\ Extra \notin new.owned
      /\ new.fields = [f \in DOMAIN new.fields |-> new.fields[f]]
      /\ \A f \in new.owned : new.fields[f] = Stored(Desired(Kind, w.spec, ReadInputs))[f]
      /\ AppLabel \in DOMAIN new.fields
      /\ new.fields[AppLabel] = "trust-manager"
      /\ new.uid = IF obj[Kind] = Absent THEN uid ELSE obj[Kind].uid
  BY <1>1, <1>3, ApplyFacts
<1>5. obj[Kind] = Absent => uid \in 0..(MaxFaults + 1)
  <2>1. Budget /\ accounts \in Nat /\ faults \in Nat /\ MaxFaults \in Nat
    BY TypeInvSplit, BoundsAssumption DEF ObjTypes
  <2> QED
    BY <1>1, <2>1 DEF Budget
<1>6. new.uid \in 0..(MaxFaults + 1)
  BY <1>3, <1>4, <1>5
<1>7. \A s \in Specs : Sound(new.fields, Kind, GetTrustNamespace(s))
  BY <1>2, <1>4, SpecsAssumption
<1>8. new # Absent
  <2>1. new = [x \in DOMAIN new |-> new[x]]
    BY <1>4
  <2> HIDE DEF new
  <2> QED
    BY <2>1, TypeInvSplit DEF ObjTypes, AbsentIsNoObject
<1> HIDE DEF new
<1> QED
  BY <1>4, <1>6, <1>7, <1>8 DEF WellFormed, WellShaped, new

LEMMA ObjTypesStep == TypeInv /\ [Next]_vars => ObjTypes'
<1> SUFFICES ASSUME TypeInv, [Next]_vars PROVE ObjTypes'
  OBVIOUS
<1>0. TMTypes /\ RecTypes /\ ObjTypes
  BY TypeInvSplit
<1>1. ASSUME UNCHANGED objVars, UNCHANGED faults \/ Disturb PROVE ObjTypes'
  <2>1. faults' \in 0..MaxFaults /\ faults' <= faults
    BY <1>0, <1>1, BoundsAssumption DEF ObjTypes, Disturb
  <2>2. Budget'
    BY <1>0, <1>1, <2>1, BoundsAssumption DEF ObjTypes, Budget, objVars
  <2> QED
    BY <1>0, <1>1, <2>1, <2>2 DEF ObjTypes, objVars
<1>2. CASE DeliverTM \/ (\E i \in Inputs : DeliverInput(i)) \/ Requeue \/ RetryOnConflict
  BY <1>1, <1>2 DEF DeliverTM, DeliverInput, Requeue, RetryOnConflict, envVars
<1>3. ASSUME NEW k \in Kinds, DeliverObj(k) PROVE ObjTypes'
  <2> DEFINE new == Filtered(k, obj[k])
  <2>1. objCache' = [objCache EXCEPT ![k] = new] /\ objLag' = [objLag EXCEPT ![k] = "none"]
    BY <1>3 DEF DeliverObj
  <2>2. WellFormed(new) /\ WellShaped(new, k)
    BY <1>0, FilteredFacts, AbsentShape DEF ObjTypes
  <2> HIDE DEF new
  <2>3. /\ objCache' = [j \in Kinds |-> objCache'[j]] /\ objCache'[k] = new
        /\ \A j \in Kinds \ {k} : objCache'[j] = objCache[j]
        /\ objLag' \in [Kinds -> Lags]
    BY <1>0, <2>1 DEF ObjTypes, Lags
  <2>4. UNCHANGED <<obj, accounts, faults>>
    BY <1>3 DEF DeliverObj, envVars
  <2>5. Budget'
    BY <1>0, <2>4 DEF ObjTypes, Budget
  <2> QED
    BY <1>0, <2>2, <2>3, <2>4, <2>5 DEF ObjTypes
<1>4. CASE Reconcile \/ RemoveFinalizer \/ AddFinalizer \/ RereadAfterFinalizer \/ Validate
  BY <1>1, <1>4 DEF Reconcile, RemoveFinalizer, AddFinalizer, RereadAfterFinalizer, Validate,
                    envVars
<1>5. CASE StepFails \/ StepUnchanged
  BY <1>1, <1>5 DEF StepFails, StepUnchanged, envVars
<1>6. CASE StepApplies
  <2>1. CASE UNCHANGED objVars
    BY <1>1, <1>6, <2>1 DEF StepApplies, envVars
  <2>2. CASE api[Kind] = "ok"
    <3> DEFINE uid == IF Kind = "ServiceAccount" THEN accounts + 1 ELSE 0
               new == ServerSideApply(obj[Kind], Desired(Kind, w.spec, ReadInputs), uid)
    <3>1. Applying /\ Kind \in Kinds
      BY <1>0, <1>6, StepKind DEF StepApplies
    <3>2. WellFormed(new) /\ WellShaped(new, Kind)
      BY <3>1, AppliedFacts
    <3>3. WriteObj(Kind, new)
      BY <1>6, <2>2 DEF StepApplies
    <3>4. /\ accounts' = IF Kind = "ServiceAccount" /\ obj[Kind] = Absent
                         THEN accounts + 1 ELSE accounts
          /\ faults' = faults
      BY <1>6, <2>2 DEF StepApplies, envVars
    <3> HIDE DEF new
    <3>5. /\ obj' = [j \in Kinds |-> obj'[j]] /\ objCache' = objCache
          /\ obj'[Kind] = new /\ \A j \in Kinds \ {Kind} : obj'[j] = obj[j]
          /\ objLag' \in [Kinds -> Lags]
      BY <1>0, <3>1, <3>3, WriteObjFacts
    <3>6. new # Absent
      BY <3>1, AppliedFacts DEF new
    <3>7. accounts \in Nat /\ faults \in Nat /\ MaxFaults \in Nat /\ Budget
      BY <1>0, BoundsAssumption DEF ObjTypes
    <3>8. Budget' /\ accounts' \in 0..(MaxFaults + 1)
      BY <3>1, <3>4, <3>5, <3>6, <3>7 DEF Budget
    <3> QED
      BY <1>0, <3>1, <3>2, <3>4, <3>5, <3>8 DEF ObjTypes
  <2> QED
    BY <1>6, <2>1, <2>2 DEF StepApplies
<1>7. CASE PipelineDone \/ UpdateStatusObservedState \/ HandleReconcileResult \/ UpdateCondition
  BY <1>1, <1>7 DEF PipelineDone, UpdateStatusObservedState, HandleReconcileResult,
                    UpdateCondition, envVars
<1>8. CASE \/ \E s \in Specs : UserCreates(s) \/ UserEdits(s)
           \/ UserDeletes
  BY <1>1, <1>8 DEF UserCreates, UserEdits, UserDeletes
<1>9. ASSUME NEW k \in Kinds, NEW d \in Drifts, Drift(k, d) PROVE ObjTypes'
  <2> DEFINE new == Drifted(k, d)
  <2>1. /\ WellFormed(new) /\ WellShaped(new, k)
        /\ WriteObj(k, new) /\ Disturb /\ accounts' = accounts
    BY <1>0, <1>9, DriftedFacts DEF Drift
  <2> HIDE DEF new
  <2>2. /\ obj' = [j \in Kinds |-> obj'[j]] /\ objCache' = objCache
        /\ obj'[k] = new /\ \A j \in Kinds \ {k} : obj'[j] = obj[j]
        /\ objLag' \in [Kinds -> Lags]
    BY <1>0, <2>1, WriteObjFacts
  <2>3. faults' \in 0..MaxFaults /\ faults' = faults - 1
    BY <1>0, <2>1, BoundsAssumption DEF ObjTypes, Disturb
  <2>4. accounts \in Nat /\ faults \in Nat /\ MaxFaults \in Nat /\ Budget
    BY <1>0, BoundsAssumption DEF ObjTypes
  <2>5. Budget'
    BY <2>1, <2>2, <2>3, <2>4 DEF Budget
  <2> QED
    BY <1>0, <2>1, <2>2, <2>3, <2>5 DEF ObjTypes
<1>10. CASE \/ \E b \in Bundles : BundleChanges(b)
            \/ \E p \in Profiles : ProfileChanges(p)
            \/ NamespaceCreated
  BY <1>1, <1>10 DEF BundleChanges, ProfileChanges, NamespaceCreated, envVars
<1>11. CASE (\E e \in Outages, scope \in Scopes : APIFails(e, scope)) \/ APIRecovers
  BY <1>1, <1>11 DEF APIFails, APIRecovers
<1>12. CASE Restart
  <2>1. /\ objCache' = [k \in Kinds |-> Filtered(k, obj[k])]
        /\ objLag' = [k \in Kinds |-> "none"]
        /\ UNCHANGED <<obj, accounts>> /\ Disturb
    BY <1>12 DEF Restart
  <2>2. \A k \in Kinds : WellFormed(Filtered(k, obj[k])) /\ WellShaped(Filtered(k, obj[k]), k)
    BY <1>0, FilteredFacts, AbsentShape DEF ObjTypes
  <2>3. /\ objCache' = [k \in Kinds |-> objCache'[k]]
        /\ \A k \in Kinds : objCache'[k] = Filtered(k, obj[k])
        /\ objLag' \in [Kinds -> Lags]
    BY <2>1 DEF Lags
  <2>4. faults' \in 0..MaxFaults /\ faults' <= faults
    BY <1>0, <2>1, BoundsAssumption DEF ObjTypes, Disturb
  <2>5. Budget'
    BY <1>0, <2>1, <2>4, BoundsAssumption DEF ObjTypes, Budget
  <2> QED
    BY <1>0, <2>1, <2>2, <2>3, <2>4, <2>5 DEF ObjTypes
<1>13. CASE UNCHANGED vars
  BY <1>1, <1>13 DEF vars, envVars
<1> QED
  BY <1>2, <1>3, <1>4, <1>5, <1>6, <1>7, <1>8, <1>9, <1>10, <1>11, <1>12, <1>13
     DEF Next, System, Environment, ReconcileStep

LEMMA WriteInputFacts ==
    ASSUME InTypes, NEW i \in Inputs, NEW new, WriteInput(i, new)
    PROVE  /\ in'[i] = new /\ new # in[i] /\ inCache' = inCache
           /\ \A j \in Inputs \ {i} : in'[j] = in[j] /\ inLag'[j] = inLag[j]
           /\ in' = [bundle |-> in'["bundle"], tls |-> in'["tls"],
                     namespace |-> in'["namespace"]]
           /\ inLag' \in [Inputs -> Lags] /\ inLag'[i] \in {"quiet", "event"}
           /\ i = "bundle" => inLag'[i] = "event"
           /\ i = "tls" /\ ClusterAPIServerTLSConfigChanged(in[i], new) => inLag'[i] = "event"
<1> DEFINE lag == Behind(inLag[i], \/ i = "bundle"
                                   \/ i = "tls" /\ ClusterAPIServerTLSConfigChanged(in[i], new))
<1>1. /\ new # in[i] /\ in' = [in EXCEPT ![i] = new] /\ inCache' = inCache
      /\ inLag' = [inLag EXCEPT ![i] = lag]
  BY DEF WriteInput
<1>2. /\ lag \in {"quiet", "event"} /\ lag \in Lags
      /\ i = "bundle" => lag = "event"
      /\ i = "tls" /\ ClusterAPIServerTLSConfigChanged(in[i], new) => lag = "event"
  BY DEF Behind, Lags
<1> HIDE DEF lag
<1>3. inLag' \in [Inputs -> Lags] /\ inLag'[i] = lag /\ \A j \in Inputs \ {i} : inLag'[j] = inLag[j]
  BY <1>1, <1>2 DEF InTypes
<1>4. /\ in'[i] = new /\ \A j \in Inputs \ {i} : in'[j] = in[j]
      /\ in' = [bundle |-> in'["bundle"], tls |-> in'["tls"], namespace |-> in'["namespace"]]
  BY <1>1 DEF InTypes, Inputs
<1> QED
  BY <1>1, <1>2, <1>3, <1>4

LEMMA InTypesStep == TypeInv /\ [Next]_vars => InTypes'
<1> SUFFICES ASSUME TypeInv, [Next]_vars PROVE InTypes'
  OBVIOUS
<1>0. InTypes
  BY TypeInvSplit
<1>1. ASSUME UNCHANGED inVars PROVE InTypes'
  BY <1>0, <1>1 DEF InTypes, inVars
<1>2. ASSUME NEW i \in Inputs, DeliverInput(i) PROVE InTypes'
  BY <1>0, <1>2 DEF DeliverInput, InTypes, Inputs, Lags
<1>3. CASE DeliverTM \/ (\E k \in Kinds : DeliverObj(k)) \/ Requeue
  BY <1>1, <1>3 DEF DeliverTM, DeliverObj, Requeue
<1>4. CASE ReconcileStep
  BY <1>1, <1>4 DEF ReconcileStep, Reconcile, RemoveFinalizer, AddFinalizer,
                    RereadAfterFinalizer, Validate, StepFails, StepUnchanged, StepApplies,
                    PipelineDone, UpdateStatusObservedState, HandleReconcileResult,
                    UpdateCondition, RetryOnConflict
<1>5. CASE \/ \E s \in Specs : UserCreates(s) \/ UserEdits(s)
           \/ UserDeletes
           \/ \E k \in Kinds, d \in Drifts : Drift(k, d)
           \/ \E e \in Outages, scope \in Scopes : APIFails(e, scope)
           \/ APIRecovers
  BY <1>1, <1>5 DEF UserCreates, UserEdits, UserDeletes, Drift, APIFails, APIRecovers
<1>6. ASSUME NEW b \in Bundles, BundleChanges(b) PROVE InTypes'
  <2>1. WriteInput("bundle", b) /\ "bundle" \in Inputs
    BY <1>6 DEF BundleChanges, Inputs
  <2> QED
    BY <1>0, <2>1, WriteInputFacts DEF InTypes, Inputs
<1>7. ASSUME NEW p \in Profiles, ProfileChanges(p) PROVE InTypes'
  <2>1. WriteInput("tls", p) /\ "tls" \in Inputs
    BY <1>7 DEF ProfileChanges, Inputs
  <2> QED
    BY <1>0, <2>1, WriteInputFacts DEF InTypes, Inputs
<1>8. CASE NamespaceCreated
  <2>1. WriteInput("namespace", TRUE) /\ "namespace" \in Inputs
    BY <1>8 DEF NamespaceCreated, Inputs
  <2> QED
    BY <1>0, <2>1, WriteInputFacts DEF InTypes, Inputs
<1>9. CASE Restart
  BY <1>0, <1>9 DEF Restart, InTypes, Inputs, Lags
<1>10. CASE UNCHANGED vars
  BY <1>1, <1>10 DEF vars
<1> QED
  BY <1>2, <1>3, <1>4, <1>5, <1>6, <1>7, <1>8, <1>9, <1>10 DEF Next, System, Environment

LEMMA MisledType == TypeInv => Misled \in BOOLEAN
BY DEF Misled

LEMMA RecTypesStep == TypeInv /\ [Next]_vars => RecTypes'
<1> SUFFICES ASSUME TypeInv, [Next]_vars PROVE RecTypes'
  OBVIOUS
<1>0. RecTypes /\ InTypes
  BY TypeInvSplit
<1> DEFINE Env == image \in Images /\ api \in [Targets -> {"ok"} \cup Outages]
           Rec == /\ pc \in Points
                  /\ bundleRead \in Bundles \cup {Unset}
                  /\ step \in 1..(Len(Pipeline) + 1)
                  /\ attempt \in 1..RetrySteps
                  /\ err \in ReconcileErrors /\ misled \in BOOLEAN
           Que == queue \in BOOLEAN /\ delayed \in BOOLEAN
<1>1. Env /\ Rec /\ Que
  BY <1>0 DEF RecTypes
<1>2. Env' /\ Rec' /\ Que' => RecTypes'
  BY DEF RecTypes
<1>3. /\ UNCHANGED envVars => Env'
      /\ UNCHANGED <<image, api>> => Env'
      /\ UNCHANGED recVars => Rec'
      /\ UNCHANGED <<queue, delayed>> => Que'
  BY <1>1 DEF envVars, recVars
<1>4. 1 \in 1..(Len(Pipeline) + 1) /\ 1 \in 1..RetrySteps
  BY KindsFacts, BoundsAssumption
<1>5. ASSUME NEW b \in BOOLEAN, Return(b) PROVE Rec' /\ delayed' \in BOOLEAN
  BY <1>1, <1>4, <1>5, MisledType DEF Return, Points, ReconcileErrors
<1>6. ASSUME NEW p \in Points, Goto(p), UNCHANGED <<step, err>> PROVE Rec'
  BY <1>1, <1>4, <1>6 DEF Goto
<1>7. ASSUME NEW e \in ReconcileErrors, FailWith(e) PROVE Rec' /\ UNCHANGED delayed
  BY <1>1, <1>4, <1>7 DEF FailWith, Goto, Points
<1>8. ASSUME Applying, Advance PROVE Rec' /\ UNCHANGED delayed
  <2>1. step + 1 \in 1..(Len(Pipeline) + 1)
    BY <1>0, <1>8, StepKind, KindsFacts
  <2>2. inCache["bundle"] \in Bundles
    BY <1>0 DEF InTypes
  <2> QED
    BY <1>1, <1>4, <1>8, <2>1, <2>2 DEF Advance, Points
<1>9. /\ \A e \in ReconcileErrors : Requeues(e, TRUE) \in BOOLEAN /\ Requeues(e, FALSE) \in BOOLEAN
      /\ "Irrecoverable" \in ReconcileErrors
      /\ \A q : FromClientError(q) \in ReconcileErrors
      /\ {"finalize", "unfinalize", "reread", "validate", "apply", "observe", "result",
          "publish"} \subseteq Points
  BY ConditionsFacts DEF Requeues, ReconcileErrors, Points, WritePoints
<1> HIDE DEF Env, Rec, Que
<1>10. CASE DeliverTM
  BY <1>1, <1>2, <1>3, <1>10 DEF DeliverTM, Que
<1>11. CASE \E k \in Kinds : DeliverObj(k)
  BY <1>1, <1>2, <1>3, <1>11 DEF DeliverObj, Que
<1>12. CASE \E i \in Inputs : DeliverInput(i)
  BY <1>1, <1>2, <1>3, <1>12 DEF DeliverInput, Que
<1>13. CASE Requeue
  BY <1>1, <1>2, <1>3, <1>13 DEF Requeue, Que
<1>14. CASE Reconcile
  <2>1. Env' /\ queue' = FALSE
    BY <1>3, <1>14 DEF Reconcile
  <2>2. Rec' /\ delayed' \in BOOLEAN
    BY <1>1, <1>5, <1>6, <1>9, <1>14 DEF Reconcile, Que
  <2> QED
    BY <1>2, <2>1, <2>2 DEF Que
<1>15. CASE RemoveFinalizer \/ AddFinalizer
  BY <1>1, <1>2, <1>3, <1>5, <1>6, <1>9, <1>15 DEF RemoveFinalizer, AddFinalizer, Que
<1>16. CASE RereadAfterFinalizer
  BY <1>1, <1>2, <1>3, <1>5, <1>6, <1>9, <1>16 DEF RereadAfterFinalizer, Que
<1>17. CASE Validate
  BY <1>1, <1>2, <1>3, <1>6, <1>7, <1>9, <1>17 DEF Validate, Que
<1>18. CASE StepFails
  <2>1. StepError \in ReconcileErrors
    BY <1>9 DEF StepError, BuildError, ReadTrustedCABundle, DeploymentError, ReconcileErrors
  <2> QED
    BY <1>1, <1>2, <1>3, <1>7, <1>18, <2>1 DEF StepFails, Que
<1>19. CASE StepUnchanged
  BY <1>1, <1>2, <1>3, <1>8, <1>19 DEF StepUnchanged, Que
<1>20. CASE StepApplies
  BY <1>1, <1>2, <1>3, <1>7, <1>8, <1>9, <1>20 DEF StepApplies, Que
<1>21. CASE PipelineDone
  BY <1>1, <1>2, <1>3, <1>6, <1>9, <1>21 DEF PipelineDone, Que
<1>22. CASE UpdateStatusObservedState
  BY <1>1, <1>2, <1>3, <1>6, <1>7, <1>9, <1>22 DEF UpdateStatusObservedState, Que
<1>23. CASE HandleReconcileResult
  <2>1. err \in ReconcileErrors
    BY <1>1 DEF Rec
  <2> QED
    BY <1>1, <1>2, <1>3, <1>5, <1>6, <1>9, <1>23, <2>1 DEF HandleReconcileResult, Que
<1>24. CASE UpdateCondition
  <2>1. err \in ReconcileErrors
    BY <1>1 DEF Rec
  <2> QED
    BY <1>1, <1>2, <1>3, <1>5, <1>9, <1>24, <2>1 DEF UpdateCondition, Que
<1>25. CASE RetryOnConflict
  <2>1. attempt' \in 1..RetrySteps
    BY <1>1, <1>25, BoundsAssumption DEF RetryOnConflict, Rec
  <2> QED
    BY <1>1, <1>2, <1>3, <1>25, <2>1 DEF RetryOnConflict, Rec
<1>26. CASE \/ \E s \in Specs : UserCreates(s) \/ UserEdits(s)
            \/ UserDeletes
            \/ \E k \in Kinds, d \in Drifts : Drift(k, d)
            \/ \E b \in Bundles : BundleChanges(b)
            \/ \E p \in Profiles : ProfileChanges(p)
            \/ NamespaceCreated
  BY <1>1, <1>2, <1>3, <1>26 DEF UserCreates, UserEdits, UserDeletes, Drift, BundleChanges,
                                 ProfileChanges, NamespaceCreated
<1>27. CASE (\E e \in Outages, scope \in Scopes : APIFails(e, scope)) \/ APIRecovers
  <2>1. api' \in [Targets -> {"ok"} \cup Outages]
    BY <1>27 DEF APIFails, APIRecovers, Healthy
  <2>2. UNCHANGED <<recVars, queue, delayed, image>>
    BY <1>27 DEF APIFails, APIRecovers
  <2> QED
    BY <1>1, <1>2, <1>3, <2>1, <2>2 DEF Env
<1>28. CASE Restart
  <2>1. Env'
    BY <1>1, <1>28 DEF Restart, Env
  <2>2. Rec'
    BY <1>4, <1>28 DEF Restart, Rec, Points, ReconcileErrors
  <2>3. Que'
    BY <1>28 DEF Restart, Que
  <2> QED
    BY <1>2, <2>1, <2>2, <2>3
<1>29. CASE UNCHANGED vars
  BY <1>1, <1>2, <1>3, <1>29 DEF vars
<1> QED
  BY <1>10, <1>11, <1>12, <1>13, <1>14, <1>15, <1>16, <1>17, <1>18, <1>19, <1>20, <1>21,
     <1>22, <1>23, <1>24, <1>25, <1>26, <1>27, <1>28, <1>29
     DEF Next, System, Environment, ReconcileStep

LEMMA TypeInvStep == TypeInv /\ [Next]_vars => TypeInv'
<1> SUFFICES ASSUME TypeInv, [Next]_vars PROVE TypeInv'
  OBVIOUS
<1>1. TMTypes' /\ ObjTypes' /\ InTypes' /\ RecTypes'
  BY TMTypesStep, ObjTypesStep, InTypesStep, RecTypesStep
<1> QED
  BY <1>1 DEF TypeInv, TypeOK, Shape, TMTypes, ObjTypes, InTypes, RecTypes

(* Every variable has its type in every reachable state: whatever others   *)
(* do to the objects and however passes, retries and restarts interleave,  *)
(* the status holds complete conditions and observed states only, and an   *)
(* owned field of an object is a field that it has.                        *)
THEOREM TypeCorrect ==
    ASSUME AbsentIsNoObject
    PROVE  Spec => []TypeOK
<1>1. Init => TypeInv
  BY InitTypes
<1>2. TypeInv => TypeOK
  BY DEF TypeInv
<1> QED
  BY <1>1, <1>2, TypeInvStep, PTL DEF Spec

-----------------------------------------------------------------------------
(***************************************************************************)
(* Layer 2: the object and its copies.                                     *)
(***************************************************************************)
LEMMA InitCopies == Init => CopyInv
BY DEF Init, CopyInv, Uids, CacheInv, SameObject, Finalizers, Adopted, Beyond, PassInv

(* A step that writes neither the object nor the identity of the working   *)
(* copy.                                                                   *)
SameWork ==
    /\ pc # "idle" /\ w # Absent /\ w' # Absent
    /\ w'.uid = w.uid /\ w'.spec = w.spec /\ w'.deleting = w.deleting
    /\ w'.finalizer = w.finalizer
    /\ pc' = pc \/ (pc \in Beyond /\ pc' \in Beyond)

LEMMA CopiesStay ==
    ASSUME CopyInv, UNCHANGED <<tmVars, created>>, queue => queue',
           pc' = "idle" \/ SameWork
    PROVE  CopyInv'
<1>1. Uids'
  BY DEF CopyInv, Uids, SameWork, tmVars
<1>2. CacheInv'
  BY DEF CopyInv, CacheInv, SameObject, tmVars
<1>3. Finalizers'
  BY DEF CopyInv, Finalizers, SameWork, Beyond, tmVars
<1>4. Adopted'
  BY DEF CopyInv, Adopted, SameWork, Beyond, tmVars
<1>5. PassInv'
  BY DEF CopyInv, PassInv, SameObject, SameWork, tmVars
<1> QED
  BY <1>1, <1>2, <1>3, <1>4, <1>5 DEF CopyInv

(* The status is not part of what the copies must agree on.                *)
LEMMA StatusWriteKeepsCopies ==
    ASSUME TypeInv, CopyInv, Succeeds, UpdateStatus, UNCHANGED <<created, queue>>,
           pc \in Beyond, pc' = "idle" \/ (UNCHANGED w /\ pc' \in Beyond)
    PROVE  CopyInv'
<1>0. TMTypes /\ RecTypes
  BY TypeInvSplit
<1>1. tm # Absent /\ tmCache # Absent /\ tmLag = "none" /\ pc # "idle" /\ w # Absent
  BY <1>0, SucceedsFacts DEF Beyond, TMTypes, InHand
<1>2. /\ tm' # Absent /\ SameObject(tm, tm') /\ tm'.finalizer = tm.finalizer
      /\ tmCache' = tmCache /\ tmLag' # "event"
      /\ tmLag' = "none" => tm' = tm
  <2>1. WriteTM([tm EXCEPT !.conds = w.conds, !.observed = w.observed])
    BY DEF UpdateStatus
  <2>2. SameObject(tm, tm') /\ tm' # Absent
    BY <1>0, <1>1, UpdateStatusFacts
  <2>3. tmLag' # "event"
    BY <1>1, <2>1, <2>2 DEF WriteTM, Behind, GenerationChanged, SameObject
  <2> QED
    BY <1>0, <1>1, <2>2, <2>3, UpdateStatusFacts
<1>3. tmCache = tm
  BY <1>1 DEF CopyInv, CacheInv
<1>4. Uids'
  BY <1>1, <1>2 DEF CopyInv, Uids, SameObject
<1>5. CacheInv'
  BY <1>1, <1>2, <1>3 DEF CacheInv, SameObject
<1>6. Finalizers'
  BY <1>1, <1>2, <1>3 DEF CopyInv, Finalizers, SameObject, Beyond
<1>7. Adopted'
  BY <1>1, <1>2 DEF CopyInv, Adopted
<1>8. PassInv'
  BY <1>1, <1>2 DEF CopyInv, PassInv, SameObject
<1> QED
  BY <1>4, <1>5, <1>6, <1>7, <1>8 DEF CopyInv

LEMMA CopyInvStep == TypeInv /\ TypeInv' /\ CopyInv /\ [Next]_vars => CopyInv'
<1> SUFFICES ASSUME TypeInv, TypeInv', CopyInv, [Next]_vars PROVE CopyInv'
  OBVIOUS
<1>0. TMTypes /\ RecTypes /\ TMTypes'
  <2>1. TMTypes /\ RecTypes
    BY TypeInvSplit
  <2>2. TMTypes'
    BY DEF TypeInv, TypeOK, TMTypes
  <2> QED
    BY <2>1, <2>2
<1>1. ASSUME UNCHANGED <<tmVars, w, pc, created>>, queue => queue' PROVE CopyInv'
  BY <1>0, <1>1, CopiesStay DEF SameWork, TMTypes, InHand
<1>2. CASE DeliverTM
  <2>1. /\ tmCache' = tm /\ tmLag' = "none" /\ queue' = (queue \/ tmLag = "event")
        /\ UNCHANGED <<tm, w, pc, created>>
    BY <1>2 DEF DeliverTM, recVars, envVars
  <2>2. Uids'
    BY <2>1 DEF CopyInv, Uids
  <2>3. CacheInv'
    BY <2>1 DEF CacheInv, SameObject
  <2>4. Finalizers'
    BY <2>1 DEF CopyInv, Finalizers
  <2>5. Adopted'
    BY <2>1 DEF CopyInv, Adopted
  <2>6. PassInv'
    BY <2>1 DEF CopyInv, PassInv, CacheInv, SameObject
  <2> QED
    BY <2>2, <2>3, <2>4, <2>5, <2>6 DEF CopyInv
<1>3. CASE (\E k \in Kinds : DeliverObj(k)) \/ (\E i \in Inputs : DeliverInput(i))
  BY <1>0, <1>1, <1>3 DEF DeliverObj, DeliverInput, recVars, envVars
<1>4. CASE Requeue \/ RetryOnConflict
  BY <1>0, <1>1, <1>4 DEF Requeue, RetryOnConflict, recVars, envVars
<1>5. CASE Reconcile
  <2>0. UNCHANGED <<tmVars, created>> /\ pc = "idle"
    BY <1>5 DEF Reconcile, envVars
  <2>1. ASSUME tmCache # Absent, NEW f \in BOOLEAN,
               w' = [tmCache EXCEPT !.finalizer = f],
               pc' = "finalize" => f,
               pc' = "unfinalize" => ~f /\ tmCache.deleting,
               pc' \in Beyond => tmCache.finalizer /\ ~tmCache.deleting
        PROVE  CopyInv'
    <3>1. tmCache \in TrustManagers
      BY <1>0, <2>1 DEF TMTypes
    <3>2. /\ w'.uid = tmCache.uid /\ w'.spec = tmCache.spec
          /\ w'.deleting = tmCache.deleting /\ w'.finalizer = f
      BY <2>1, <3>1 DEF TrustManagers
    <3>3. w' # Absent
      BY <2>1, <3>1, TrustManagerFacts
    <3>4. Uids'
      BY <2>0, <2>1, <3>2 DEF CopyInv, Uids, tmVars
    <3>5. CacheInv'
      BY <2>0 DEF CopyInv, CacheInv, SameObject, tmVars
    <3>6. Finalizers'
      BY <2>0, <2>1, <3>2 DEF CopyInv, Finalizers, tmVars
    <3>7. Adopted'
      BY <2>0, <2>1 DEF CopyInv, Finalizers, Adopted, tmVars
    <3>8. PassInv'
      BY <2>0, <2>1, <3>2, <3>3 DEF PassInv, SameObject, tmVars
    <3> QED
      BY <3>4, <3>5, <3>6, <3>7, <3>8 DEF CopyInv
  <2>2. CASE Return(FALSE)
    <3>1. Uids' /\ CacheInv' /\ Finalizers'
      BY <2>0, <2>2 DEF Return, CopyInv, Uids, CacheInv, SameObject, Finalizers, tmVars
    <3>2. Adopted' /\ PassInv'
      BY <2>2 DEF Return, Adopted, Beyond, PassInv
    <3> QED
      BY <3>1, <3>2 DEF CopyInv
  <2>3. CASE /\ tmCache # Absent /\ tmCache.deleting
             /\ w' = [tmCache EXCEPT !.finalizer = FALSE] /\ Goto("unfinalize")
    BY <2>1, <2>3 DEF Goto, Beyond
  <2>4. CASE tmCache # Absent /\ w' = [tmCache EXCEPT !.finalizer = TRUE] /\ Goto("finalize")
    BY <2>1, <2>4 DEF Goto, Beyond
  <2>5. CASE /\ tmCache # Absent /\ ~tmCache.deleting /\ tmCache.finalizer
             /\ w' = tmCache /\ Goto("validate")
    <3>1. tmCache \in TrustManagers
      BY <1>0, <2>5 DEF TMTypes
    <3>2. tmCache = [tmCache EXCEPT !.finalizer = TRUE]
      BY <2>5, <3>1 DEF TrustManagers
    <3> QED
      BY <2>1, <2>5, <3>2 DEF Goto, Beyond
  <2> QED
    BY <1>5, <2>2, <2>3, <2>4, <2>5 DEF Reconcile
<1>6. CASE RemoveFinalizer
  <2>1. CASE Succeeds /\ UpdateTM /\ Return(FALSE)
    <3>1. /\ tm # Absent /\ tmCache # Absent /\ tmLag = "none" /\ w.uid = tm.uid
          /\ pc = "unfinalize" /\ UNCHANGED <<created, queue>>
      BY <1>0, <1>6, <2>1, SucceedsFacts DEF RemoveFinalizer, envVars
    <3>2. tm.deleting /\ ~w.finalizer
      BY <3>1 DEF CopyInv, Finalizers
    <3>3. tm' = Absent /\ tmCache' = tmCache /\ tmLag' # "none"
      BY <1>0, <2>1, <3>1, <3>2, UpdateTMFacts
    <3>4. tmLag' = "event"
      BY <1>0, <2>1, <3>1, <3>2, <3>3, UpdateTMFacts DEF SameObject
    <3>5. tmCache = tm
      BY <3>1 DEF CopyInv, CacheInv
    <3>6. Uids' /\ CacheInv' /\ Finalizers'
      BY <2>1, <3>1, <3>2, <3>3, <3>4, <3>5
         DEF CopyInv, Uids, CacheInv, SameObject, Finalizers, Return
    <3>7. Adopted' /\ PassInv'
      BY <2>1 DEF Return, Adopted, Beyond, PassInv
    <3> QED
      BY <3>6, <3>7 DEF CopyInv
  <2>2. CASE Return(TRUE) /\ UNCHANGED tmVars
    BY <1>6, <2>2, CopiesStay DEF RemoveFinalizer, Return, envVars
  <2> QED
    BY <1>6, <2>1, <2>2 DEF RemoveFinalizer
<1>7. CASE AddFinalizer
  <2>1. CASE Succeeds /\ UpdateTM /\ Goto("reread") /\ UNCHANGED w
    <3>1. /\ tm # Absent /\ tmCache # Absent /\ tmLag = "none" /\ w.uid = tm.uid
          /\ pc = "finalize" /\ UNCHANGED <<created, queue>>
      BY <1>0, <1>7, <2>1, SucceedsFacts DEF AddFinalizer, envVars
    <3>2. w.finalizer
      BY <3>1 DEF CopyInv, Finalizers
    <3>3. /\ tm' # Absent /\ tm'.uid = tm.uid /\ tm'.deleting = tm.deleting
          /\ tm'.finalizer = w.finalizer /\ tmCache' = tmCache
          /\ tmLag' # "event" => SameObject(tm, tm')
          /\ tmLag' = "none" => tm' = tm
      BY <1>0, <2>1, <3>1, <3>2, UpdateTMFacts
    <3>4. tmCache = tm
      BY <3>1 DEF CopyInv, CacheInv
    <3>5. Uids'
      BY <2>1, <3>1, <3>3 DEF CopyInv, Uids, Goto
    <3>6. CacheInv'
      BY <3>3, <3>4 DEF CacheInv, SameObject
    <3>7. Finalizers'
      BY <2>1, <3>1, <3>2, <3>3, <3>4 DEF CopyInv, Finalizers, Goto
    <3>8. Adopted'
      BY <3>2, <3>3 DEF Adopted
    <3>9. PassInv'
      BY <2>1, <3>1, <3>3 DEF CopyInv, PassInv, SameObject, Goto
    <3> QED
      BY <3>5, <3>6, <3>7, <3>8, <3>9 DEF CopyInv
  <2>2. CASE Return(TRUE) /\ UNCHANGED tmVars
    BY <1>7, <2>2, CopiesStay DEF AddFinalizer, Return, envVars
  <2> QED
    BY <1>7, <2>1, <2>2 DEF AddFinalizer
<1>8. CASE RereadAfterFinalizer
  <2>0. UNCHANGED <<tmVars, created, queue>> /\ pc = "reread"
    BY <1>8 DEF RereadAfterFinalizer, envVars
  <2>1. CASE Return(TRUE)
    BY <2>0, <2>1, CopiesStay DEF Return
  <2>2. CASE tmCache # Absent /\ w' = tmCache /\ Goto("validate")
    <3>1. Uids' /\ CacheInv'
      BY <2>0, <2>2 DEF CopyInv, Uids, CacheInv, SameObject, tmVars
    <3>2. Finalizers'
      BY <2>0, <2>2 DEF CopyInv, Finalizers, Goto, tmVars
    <3>3. Adopted'
      BY <2>0 DEF CopyInv, Adopted, Beyond, tmVars
    <3>4. PassInv'
      BY <2>0, <2>2 DEF PassInv, SameObject, tmVars
    <3> QED
      BY <3>1, <3>2, <3>3, <3>4 DEF CopyInv
  <2> QED
    BY <1>8, <2>1, <2>2 DEF RereadAfterFinalizer
<1>9. CASE Validate
  BY <1>0, <1>9, CopiesStay DEF Validate, FailWith, Goto, SameWork, Beyond, TMTypes, InHand,
                                envVars
<1>10. CASE StepFails \/ StepUnchanged \/ StepApplies
  BY <1>0, <1>10, CopiesStay DEF StepFails, StepUnchanged, StepApplies, Applying, FailWith,
     Goto, Advance, SameWork, Beyond, TMTypes, InHand, envVars
<1>11. CASE PipelineDone
  <2>1. w \in TrustManagers /\ w' \in TrustManagers /\ pc' \in Beyond /\ pc \in Beyond
    BY <1>0, <1>11 DEF PipelineDone, TMTypes, InHand, Goto, Beyond
  <2>2. /\ w'.uid = w.uid /\ w'.spec = w.spec /\ w'.deleting = w.deleting
        /\ w'.finalizer = w.finalizer
    BY <1>11, <2>1 DEF PipelineDone, TrustManagers
  <2> QED
    BY <1>11, <2>1, <2>2, TrustManagerFacts, CopiesStay DEF PipelineDone, SameWork, Beyond, envVars
<1>12. CASE UpdateStatusObservedState
  <2>1. CASE Succeeds /\ UpdateStatus /\ Goto("result") /\ UNCHANGED w
    BY <1>12, <2>1, StatusWriteKeepsCopies DEF UpdateStatusObservedState, Goto, Beyond, envVars
  <2>2. CASE FailWith(FromClientError(WriteError)) /\ UNCHANGED tmVars
    BY <1>0, <1>12, <2>2, CopiesStay DEF UpdateStatusObservedState, FailWith, Goto, SameWork,
       Beyond, TMTypes, InHand, envVars
  <2> QED
    BY <1>12, <2>1, <2>2 DEF UpdateStatusObservedState
<1>13. CASE HandleReconcileResult
  <2>1. CASE w' = [w EXCEPT !.conds = ConditionsFor(err)] /\ Goto("publish")
    <3>1. w \in TrustManagers /\ w' \in TrustManagers /\ pc' \in Beyond /\ pc \in Beyond
      BY <1>0, <1>13, <2>1 DEF HandleReconcileResult, TMTypes, InHand, Goto, Beyond
    <3>2. /\ w'.uid = w.uid /\ w'.spec = w.spec /\ w'.deleting = w.deleting
          /\ w'.finalizer = w.finalizer
      BY <2>1, <3>1 DEF TrustManagers
    <3> QED
      BY <1>13, <3>1, <3>2, TrustManagerFacts, CopiesStay DEF HandleReconcileResult, SameWork,
         Beyond, envVars
  <2>2. CASE Return(Requeues(err, TRUE))
    BY <1>13, <2>2, CopiesStay DEF HandleReconcileResult, Return, envVars
  <2> QED
    BY <1>13, <2>1, <2>2 DEF HandleReconcileResult
<1>14. CASE UpdateCondition
  <2>1. CASE Succeeds /\ UpdateStatus /\ Return(Requeues(err, TRUE))
    BY <1>14, <2>1, StatusWriteKeepsCopies DEF UpdateCondition, Return, Beyond, envVars
  <2>2. CASE Return(Requeues(err, FALSE)) /\ UNCHANGED tmVars
    BY <1>14, <2>2, CopiesStay DEF UpdateCondition, Return, envVars
  <2> QED
    BY <1>14, <2>1, <2>2 DEF UpdateCondition
<1>15. ASSUME NEW s \in Specs, UserCreates(s) PROVE CopyInv'
  <2> DEFINE new == [uid |-> created + 1, spec |-> s, deleting |-> FALSE, finalizer |-> FALSE,
                     conds |-> NoConditions, observed |-> Unset]
  <2>1. WriteTM(new) /\ tm = Absent /\ created' = created + 1 /\ UNCHANGED <<w, pc, queue>>
    BY <1>15 DEF UserCreates, recVars
  <2>2. new.uid = created + 1 /\ ~new.deleting /\ ~new.finalizer
    OBVIOUS
  <2> HIDE DEF new
  <2>3. /\ tm' = new /\ tmCache' = tmCache
        /\ tmLag' # "event" => (new # tm => ~GenerationChanged(tm, new))
    BY <1>0, <2>1, WriteTMFacts
  <2>4. tm' # Absent
    <3>1. created + 1 \in 1..MaxInstances
      BY <1>0, <1>15, BoundsAssumption DEF UserCreates, TMTypes
    <3>2. new \in TrustManagers
      BY <3>1, ConditionsFacts DEF new, TrustManagers
    <3> QED
      BY <2>3, <3>2, TrustManagerFacts
  <2>5. tmLag' = "event"
    BY <2>1, <2>3, <2>4 DEF GenerationChanged
  <2>6. created \in Nat
    BY <1>0, BoundsAssumption DEF TMTypes
  <2>7. /\ tmCache # Absent => tmCache.uid \in Nat
        /\ pc # "idle" => w.uid \in Nat
    <3>1. \A c \in TrustManagers : c.uid \in Nat
      BY BoundsAssumption DEF TrustManagers
    <3> QED
      BY <1>0, <3>1 DEF TMTypes, InHand
  <2>8. Uids'
    BY <2>1, <2>2, <2>3, <2>6, <2>7 DEF CopyInv, Uids
  <2>9. CacheInv'
    BY <2>5 DEF CacheInv
  <2>10. Finalizers'
    BY <2>1, <2>2, <2>3, <2>6, <2>7 DEF CopyInv, Finalizers, Uids
  <2>11. Adopted' /\ PassInv'
    BY <2>1, <2>3 DEF CopyInv, Adopted, PassInv, SameObject
  <2> QED
    BY <2>8, <2>9, <2>10, <2>11 DEF CopyInv
<1>16. ASSUME NEW s \in Specs, UserEdits(s) PROVE CopyInv'
  <2> DEFINE new == [tm EXCEPT !.spec = s]
  <2>1. WriteTM(new) /\ tm # Absent /\ s # tm.spec /\ UNCHANGED <<w, pc, queue, created>>
    BY <1>16 DEF UserEdits, recVars
  <2>2. tm \in TrustManagers
    BY <1>0, <2>1 DEF TMTypes
  <2>3. /\ new.uid = tm.uid /\ new.spec = s /\ new.deleting = tm.deleting
        /\ new.finalizer = tm.finalizer /\ new # Absent
    <3>1. new \in TrustManagers
      BY <2>2, TrustManagerFacts
    <3>2. new # Absent
      BY <3>1, TrustManagerFacts
    <3> QED
      BY <2>2, <3>2 DEF TrustManagers
  <2> HIDE DEF new
  <2>4. /\ tm' = new /\ tmCache' = tmCache
        /\ tmLag' # "event" => (new # tm => ~GenerationChanged(tm, new))
    BY <1>0, <2>1, WriteTMFacts
  <2>5. tmLag' = "event"
    BY <2>1, <2>3, <2>4 DEF GenerationChanged
  <2>6. Uids' /\ CacheInv'
    BY <2>1, <2>3, <2>4, <2>5 DEF CopyInv, Uids, CacheInv
  <2>7. Finalizers'
    BY <2>1, <2>3, <2>4 DEF CopyInv, Finalizers
  <2>8. Adopted' /\ PassInv'
    BY <2>1, <2>3, <2>4 DEF CopyInv, Adopted, PassInv, SameObject
  <2> QED
    BY <2>6, <2>7, <2>8 DEF CopyInv
<1>17. CASE UserDeletes
  <2> DEFINE new == IF tm.finalizer THEN [tm EXCEPT !.deleting = TRUE] ELSE Absent
  <2>1. WriteTM(new) /\ tm # Absent /\ ~tm.deleting /\ UNCHANGED <<w, pc, queue, created>>
    BY <1>17 DEF UserDeletes, recVars
  <2>2. tm \in TrustManagers
    BY <1>0, <2>1 DEF TMTypes
  <2>3. /\ tm.finalizer => /\ new.uid = tm.uid /\ new.spec = tm.spec /\ new.deleting
                           /\ new.finalizer /\ new # Absent
        /\ ~tm.finalizer => new = Absent
    BY <2>2, TrustManagerFacts DEF TrustManagers
  <2> HIDE DEF new
  <2>4. /\ tm' = new /\ tmCache' = tmCache
        /\ tmLag' # "event" => (new # tm => ~GenerationChanged(tm, new))
    BY <1>0, <2>1, WriteTMFacts
  <2>5. tmLag' = "event"
    BY <2>1, <2>3, <2>4 DEF GenerationChanged
  <2>6. Uids' /\ CacheInv'
    BY <2>1, <2>3, <2>4, <2>5 DEF CopyInv, Uids, CacheInv
  <2>7. Finalizers'
    BY <2>1, <2>3, <2>4 DEF CopyInv, Finalizers
  <2>8. Adopted' /\ PassInv'
    BY <2>1, <2>3, <2>4 DEF CopyInv, Adopted, PassInv, SameObject
  <2> QED
    BY <2>6, <2>7, <2>8 DEF CopyInv
<1>18. CASE \E k \in Kinds, d \in Drifts : Drift(k, d)
  BY <1>1, <1>18 DEF Drift, recVars
<1>19. CASE \/ \E b \in Bundles : BundleChanges(b)
            \/ \E p \in Profiles : ProfileChanges(p)
            \/ NamespaceCreated
  BY <1>1, <1>19 DEF BundleChanges, ProfileChanges, NamespaceCreated, recVars, envVars
<1>20. CASE (\E e \in Outages, scope \in Scopes : APIFails(e, scope)) \/ APIRecovers
  BY <1>1, <1>20 DEF APIFails, APIRecovers, recVars
<1>21. CASE Restart
  <2>1. tmCache' = tm /\ tmLag' = "none" /\ pc' = "idle" /\ UNCHANGED <<tm, created>>
    BY <1>21 DEF Restart
  <2> QED
    BY <2>1 DEF CopyInv, Uids, CacheInv, SameObject, Finalizers, Adopted, Beyond, PassInv
<1>22. CASE UNCHANGED vars
  BY <1>1, <1>22 DEF vars, recVars, envVars
<1> QED
  BY <1>2, <1>3, <1>4, <1>5, <1>6, <1>7, <1>8, <1>9, <1>10, <1>11, <1>12, <1>13, <1>14, <1>15,
     <1>16, <1>17, <1>18, <1>19, <1>20, <1>21, <1>22
     DEF Next, System, Environment, ReconcileStep

-----------------------------------------------------------------------------
(***************************************************************************)
(* Layer 3: the status.                                                    *)
(***************************************************************************)
LEMMA InitStatus == Init => StatusInv /\ RestInv
BY DEF Init, StatusInv, RestInv

LEMMA StatusInvStep == TypeInv /\ StatusInv /\ [Next]_vars => StatusInv'
<1> SUFFICES ASSUME TypeInv, StatusInv, [Next]_vars PROVE StatusInv'
  OBVIOUS
<1>0. TMTypes /\ RecTypes
  BY TypeInvSplit
<1>1. ASSUME UNCHANGED <<w, step, err, pc, image>> PROVE StatusInv'
  BY <1>1 DEF StatusInv, Observed
<1>2. ASSUME pc' = "idle", err' = "nil" PROVE StatusInv'
  BY <1>2 DEF StatusInv
<1>3. ASSUME pc' \in {"finalize", "unfinalize", "reread", "validate", "apply"}, err' = err,
             pc \notin {"result", "publish"}
      PROVE  StatusInv'
  BY <1>3 DEF StatusInv
<1>4. ASSUME NEW e, e # "nil", FailWith(e) PROVE StatusInv'
  BY <1>4 DEF StatusInv, FailWith, Goto
<1>5. \A q : FromClientError(q) # "nil"
  BY DEF FromClientError
<1>6. CASE DeliverTM \/ (\E k \in Kinds : DeliverObj(k)) \/ (\E i \in Inputs : DeliverInput(i))
  BY <1>1, <1>6 DEF DeliverTM, DeliverObj, DeliverInput, recVars, envVars
<1>7. CASE Requeue \/ RetryOnConflict
  BY <1>1, <1>7 DEF Requeue, RetryOnConflict, recVars, envVars
<1>8. CASE Reconcile
  BY <1>2, <1>3, <1>8 DEF Reconcile, Return, Goto
<1>9. CASE RemoveFinalizer \/ AddFinalizer \/ RereadAfterFinalizer
  BY <1>2, <1>3, <1>9 DEF RemoveFinalizer, AddFinalizer, RereadAfterFinalizer, Return, Goto
<1>10. CASE Validate
  <2>1. CASE FailWith("Irrecoverable")
    BY <1>4, <2>1
  <2>2. CASE Goto("apply") /\ UNCHANGED err
    BY <1>3, <1>10, <2>2 DEF Goto, Validate
  <2> QED
    BY <1>10, <2>1, <2>2 DEF Validate
<1>11. CASE StepFails \/ StepUnchanged \/ StepApplies
  BY <1>3, <1>4, <1>5, <1>11 DEF StepFails, StepUnchanged, StepApplies, Applying, Advance
<1>12. CASE PipelineDone
  <2>1. pc = "apply" /\ step = Len(Pipeline) + 1 /\ UNCHANGED <<step, err, image>>
    BY <1>12 DEF PipelineDone, envVars
  <2>2. w \in TrustManagers
    BY <1>0, <2>1 DEF TMTypes, InHand
  <2>3. w'.observed = Observed(w.spec) /\ w'.spec = w.spec /\ pc' \in {"observe", "result"}
    BY <1>12, <2>2 DEF PipelineDone, TrustManagers, Goto
  <2>4. w'.observed = Observed(w.spec)'
    BY <2>1, <2>3 DEF Observed
  <2> QED
    BY <2>1, <2>3, <2>4 DEF StatusInv
<1>13. CASE UpdateStatusObservedState
  <2>1. CASE Goto("result") /\ UNCHANGED <<w, step, err, image>>
    BY <1>13, <2>1 DEF UpdateStatusObservedState, Goto, StatusInv, Observed
  <2>2. CASE FailWith(FromClientError(WriteError))
    BY <1>4, <1>5, <2>2
  <2> QED
    BY <1>13, <2>1, <2>2 DEF UpdateStatusObservedState, envVars
<1>14. CASE HandleReconcileResult
  <2>1. CASE /\ w' = [w EXCEPT !.conds = ConditionsFor(err)] /\ Goto("publish")
             /\ UNCHANGED <<step, err, image>>
    <3>1. pc = "result" /\ w \in TrustManagers
      BY <1>0, <1>14 DEF HandleReconcileResult, TMTypes, InHand
    <3>2. w'.conds = ConditionsFor(err) /\ w'.observed = w.observed /\ w'.spec = w.spec
      BY <2>1, <3>1 DEF TrustManagers
    <3> QED
      BY <2>1, <3>1, <3>2 DEF StatusInv, Goto, Observed
  <2>2. CASE Return(Requeues(err, TRUE))
    BY <1>2, <2>2 DEF Return
  <2> QED
    BY <1>14, <2>1, <2>2 DEF HandleReconcileResult, envVars
<1>15. CASE UpdateCondition
  BY <1>2, <1>15 DEF UpdateCondition, Return
<1>16. CASE \/ \E s \in Specs : UserCreates(s) \/ UserEdits(s)
            \/ UserDeletes
            \/ \E k \in Kinds, d \in Drifts : Drift(k, d)
  BY <1>1, <1>16 DEF UserCreates, UserEdits, UserDeletes, Drift, recVars
<1>17. CASE \/ \E b \in Bundles : BundleChanges(b)
            \/ \E p \in Profiles : ProfileChanges(p)
            \/ NamespaceCreated
            \/ \E e \in Outages, scope \in Scopes : APIFails(e, scope)
            \/ APIRecovers
  BY <1>1, <1>17 DEF BundleChanges, ProfileChanges, NamespaceCreated, APIFails, APIRecovers,
                     recVars, envVars
<1>18. CASE Restart
  BY <1>2, <1>18 DEF Restart
<1>19. CASE UNCHANGED vars
  BY <1>1, <1>19 DEF vars, recVars, envVars
<1> QED
  BY <1>6, <1>7, <1>8, <1>9, <1>10, <1>11, <1>12, <1>13, <1>14, <1>15, <1>16, <1>17, <1>18, <1>19
     DEF Next, System, Environment, ReconcileStep

(* What a pass that ends leaves behind, when nothing else is under way.    *)
LEMMA RestInvStep ==
    ASSUME TypeInv, CopyInv, StatusInv, RestInv, [Next]_vars
    PROVE  RestInv'
<1>0. TMTypes /\ RecTypes /\ CacheInv /\ PassInv
  BY TypeInvSplit DEF CopyInv
<1>1. ASSUME UNCHANGED <<tm, pc, misled, image>>, queue => queue',
             ~delayed' => ~delayed \/ queue', tmLag' # "event" => tmLag # "event" \/ queue'
      PROVE  RestInv'
  BY <1>1 DEF RestInv, IsReady, IsDegraded, Observed
<1>2. ASSUME pc' # "idle" PROVE RestInv'
  BY <1>2 DEF RestInv
<1>3. ASSUME queue' \/ delayed' \/ tmLag' = "event" \/ tm' = Absent PROVE RestInv'
  BY <1>3 DEF RestInv
<1>4. ASSUME pc # "idle", ~queue, tmLag # "event", tm # Absent
      PROVE  w.spec = tm.spec /\ w \in TrustManagers /\ tm \in TrustManagers
  BY <1>0, <1>4 DEF TMTypes, InHand, CacheInv, PassInv, SameObject
<1>5. CASE DeliverTM
  BY <1>0, <1>1, <1>5 DEF DeliverTM, recVars, envVars, RecTypes
<1>6. CASE (\E k \in Kinds : DeliverObj(k)) \/ (\E i \in Inputs : DeliverInput(i))
  BY <1>0, <1>1, <1>6 DEF DeliverObj, DeliverInput, tmVars, recVars, envVars, RecTypes
<1>7. CASE Requeue \/ RetryOnConflict
  BY <1>2, <1>3, <1>7 DEF Requeue, RetryOnConflict, WritePoints
<1>8. CASE Reconcile
  <2>1. CASE tmCache = Absent
    BY <1>0, <1>3, <1>8, <2>1 DEF Reconcile, CacheInv, SameObject, tmVars
  <2>2. CASE tmCache # Absent /\ tmCache.deleting /\ ~tmCache.finalizer
    BY <2>2 DEF CopyInv, Finalizers
  <2>3. CASE \E point \in {"unfinalize", "finalize", "validate"} : Goto(point)
    BY <1>2, <2>3 DEF Goto
  <2> QED
    BY <1>8, <2>1, <2>2, <2>3 DEF Reconcile
<1>9. CASE RemoveFinalizer
  <2>1. CASE Succeeds /\ UpdateTM
    <3>1. tm # Absent /\ pc = "unfinalize" /\ w.uid = tm.uid
      BY <1>0, <1>9, <2>1, SucceedsFacts DEF RemoveFinalizer
    <3>2. tm.deleting /\ ~w.finalizer
      BY <3>1 DEF CopyInv, Finalizers
    <3> QED
      BY <1>0, <1>3, <2>1, <3>1, <3>2, UpdateTMFacts
  <2>2. CASE Return(TRUE)
    BY <1>3, <2>2 DEF Return
  <2> QED
    BY <1>9, <2>1, <2>2 DEF RemoveFinalizer
<1>10. CASE AddFinalizer \/ RereadAfterFinalizer
  BY <1>2, <1>3, <1>10 DEF AddFinalizer, RereadAfterFinalizer, Goto, Return
<1>11. CASE Validate \/ StepFails \/ StepUnchanged \/ StepApplies \/ PipelineDone
  BY <1>2, <1>11 DEF Validate, StepFails, StepUnchanged, StepApplies, PipelineDone, FailWith,
                     Goto, Advance
<1>12. CASE UpdateStatusObservedState
  BY <1>2, <1>12 DEF UpdateStatusObservedState, FailWith, Goto
<1>13. CASE HandleReconcileResult
  <2>1. CASE Goto("publish")
    BY <1>2, <2>1 DEF Goto
  <2>2. CASE ~ConditionsChanged(w.conds, err) /\ Return(Requeues(err, TRUE))
    <3>0. pc = "result" /\ UNCHANGED <<tmVars, queue, image>> /\ misled' = Misled
      BY <1>13, <2>2 DEF HandleReconcileResult, Return, envVars
    <3>1. SUFFICES ASSUME ~queue, ~delayed', tmLag # "event", tm # Absent
                   PROVE  RestInv'
      BY <1>3, <3>0 DEF tmVars
    <3>2. w.spec = tm.spec /\ w \in TrustManagers /\ tm \in TrustManagers
      BY <1>4, <3>0, <3>1
    <3>3. tm.finalizer
      BY <3>0 DEF CopyInv, Adopted, Beyond
    <3>4. w.conds = ConditionsFor(err) /\ err # "RetryRequired" /\ err \in ReconcileErrors
      BY <1>0, <2>2, <3>1 DEF ConditionsChanged, Return, Requeues, RecTypes
    <3>5. ASSUME ~Misled
          PROVE  /\ IsReady \/ IsDegraded
                 /\ IsReady => tm.observed = Observed(tm.spec)
      <4>1. tm.conds = w.conds /\ (err = "nil" => tm.observed = w.observed)
        BY <3>0, <3>1, <3>5 DEF Misled
      <4>2. (tm.conds.ready = "Ready" <=> err = "nil")
            /\ (tm.conds.degraded = "Failed" <=> err = "Irrecoverable")
        BY <3>2, <3>4, <4>1, ConditionsFacts, TrustManagerFacts
      <4>3. err = "nil" => tm.observed = Observed(tm.spec)
        BY <3>0, <3>2, <4>1 DEF StatusInv
      <4> QED
        BY <3>4, <4>2, <4>3 DEF IsReady, IsDegraded, ReconcileErrors
    <3> QED
      BY <3>0, <3>3, <3>5 DEF RestInv, IsReady, IsDegraded, Observed, tmVars
  <2> QED
    BY <1>13, <2>1, <2>2 DEF HandleReconcileResult
<1>14. CASE UpdateCondition
  <2>1. CASE Succeeds /\ UpdateStatus /\ Return(Requeues(err, TRUE))
    <3>0. pc = "publish" /\ UNCHANGED <<queue, image>>
      BY <1>14 DEF UpdateCondition, envVars
    <3>1. SUFFICES ASSUME ~queue, ~delayed' PROVE RestInv'
      BY <1>3, <3>0
    <3>2. tm # Absent /\ tmLag = "none"
      BY <1>0, <2>1, SucceedsFacts
    <3>3. w.spec = tm.spec /\ w \in TrustManagers /\ tm \in TrustManagers
      BY <1>4, <3>0, <3>1, <3>2
    <3>4. /\ tm'.finalizer = tm.finalizer /\ tm'.conds = w.conds /\ tm'.observed = w.observed
          /\ tm'.spec = tm.spec
      BY <1>0, <2>1, <3>0, <3>2, UpdateStatusFacts DEF SameObject
    <3>5. tm.finalizer
      BY <3>0 DEF CopyInv, Adopted, Beyond
    <3>6. w.conds = ConditionsFor(err) /\ err # "RetryRequired" /\ err \in ReconcileErrors
      BY <1>0, <2>1, <3>0, <3>1 DEF StatusInv, Return, Requeues, RecTypes
    <3>7. (w.conds.ready = "Ready" <=> err = "nil")
          /\ (w.conds.degraded = "Failed" <=> err = "Irrecoverable")
      BY <3>3, <3>6, ConditionsFacts, TrustManagerFacts
    <3>8. err = "nil" => w.observed = Observed(w.spec)
      BY <3>0 DEF StatusInv
    <3> QED
      BY <3>0, <3>3, <3>4, <3>5, <3>6, <3>7, <3>8
         DEF RestInv, IsReady, IsDegraded, Observed, ReconcileErrors
  <2>2. CASE Return(Requeues(err, FALSE))
    BY <1>3, <2>2 DEF Return, Requeues
  <2> QED
    BY <1>14, <2>1, <2>2 DEF UpdateCondition
<1>15. ASSUME NEW s \in Specs, UserCreates(s) \/ UserEdits(s) PROVE RestInv'
  <2>1. PICK new : /\ WriteTM(new)
                   /\ new = tm \/ GenerationChanged(tm, new)
                   /\ UNCHANGED <<pc, misled, image, queue, delayed>>
    <3>1. CASE UserCreates(s)
      BY <3>1 DEF UserCreates, GenerationChanged, recVars
    <3>2. CASE UserEdits(s)
      <4>1. tm \in TrustManagers
        BY <1>0, <3>2 DEF UserEdits, TMTypes
      <4>2. [tm EXCEPT !.spec = s].spec = s
        BY <4>1 DEF TrustManagers
      <4> QED
        BY <3>2, <4>2 DEF UserEdits, GenerationChanged, recVars
    <3> QED
      BY <1>15, <3>1, <3>2
  <2>2. tm' = new /\ (tmLag' # "event" => tmLag # "event" /\ new = tm)
    BY <1>0, <2>1, WriteTMFacts
  <2>3. CASE tmLag' = "event"
    BY <1>3, <2>3
  <2>4. CASE tmLag' # "event"
    BY <1>1, <2>1, <2>2, <2>4
  <2> QED
    BY <2>3, <2>4
<1>16. CASE UserDeletes
  <2>1. PICK new : /\ WriteTM(new)
                   /\ GenerationChanged(tm, new)
                   /\ UNCHANGED <<pc, misled, image, queue, delayed>>
    <3>1. tm \in TrustManagers /\ ~tm.deleting
      BY <1>0, <1>16 DEF UserDeletes, TMTypes
    <3>2. [tm EXCEPT !.deleting = TRUE].deleting
      BY <3>1 DEF TrustManagers
    <3> QED
      BY <1>16, <3>1, <3>2 DEF UserDeletes, GenerationChanged, recVars
  <2>2. tm' = new /\ (tmLag' # "event" => tmLag # "event" /\ new = tm)
    BY <1>0, <2>1, WriteTMFacts
  <2>3. CASE tmLag' = "event"
    BY <1>3, <2>3
  <2>4. CASE tmLag' # "event"
    BY <1>1, <2>1, <2>2, <2>4
  <2> QED
    BY <2>3, <2>4
<1>17. CASE \E k \in Kinds, d \in Drifts : Drift(k, d)
  BY <1>1, <1>17 DEF Drift, tmVars, recVars
<1>18. CASE \/ \E b \in Bundles : BundleChanges(b)
            \/ \E p \in Profiles : ProfileChanges(p)
            \/ NamespaceCreated
            \/ \E e \in Outages, scope \in Scopes : APIFails(e, scope)
            \/ APIRecovers
  BY <1>1, <1>18 DEF BundleChanges, ProfileChanges, NamespaceCreated, APIFails, APIRecovers,
                     tmVars, recVars, envVars
<1>19. CASE Restart
  BY <1>3, <1>19 DEF Restart
<1>20. CASE UNCHANGED vars
  BY <1>1, <1>20 DEF vars, tmVars, recVars, envVars
<1> QED
  BY <1>5, <1>6, <1>7, <1>8, <1>9, <1>10, <1>11, <1>12, <1>13, <1>14, <1>15, <1>16, <1>17, <1>18,
     <1>19, <1>20
     DEF Next, System, Environment, ReconcileStep

StatusLayer == TypeInv /\ CopyInv /\ StatusInv /\ RestInv

LEMMA StatusLayerInvariant == AbsentIsNoObject => (Spec => []StatusLayer)
<1> SUFFICES ASSUME AbsentIsNoObject PROVE Spec => []StatusLayer
  OBVIOUS
<1>1. Init => StatusLayer
  BY InitTypes, InitCopies, InitStatus DEF StatusLayer
<1>2. StatusLayer /\ [Next]_vars => StatusLayer'
  BY TypeInvStep, CopyInvStep, StatusInvStep, RestInvStep DEF StatusLayer
<1> QED
  BY <1>1, <1>2, PTL DEF Spec

(* At rest the finalizer is on the object, so that a deletion has to pass  *)
(* through the controller.                                                 *)
THEOREM HeldAtRest ==
    ASSUME AbsentIsNoObject
    PROVE  Spec => []FinalizerAtRest
<1>1. StatusLayer => FinalizerAtRest
  BY DEF StatusLayer, RestInv, FinalizerAtRest, Quiescent, Synced
<1> QED
  BY <1>1, StatusLayerInvariant, PTL

(* At rest the object is Ready or Degraded: no failed status write and no  *)
(* error is forgotten, unless the last pass took an old status for the     *)
(* live one.                                                               *)
THEOREM NeverSilent ==
    ASSUME AbsentIsNoObject
    PROVE  Spec => []NoSilentRest
<1>1. StatusLayer => NoSilentRest
  BY DEF StatusLayer, RestInv, NoSilentRest, Quiescent, Synced
<1> QED
  BY <1>1, StatusLayerInvariant, PTL

(* Ready at rest comes with the observed state of the live spec and of the *)
(* image of the running operator.                                          *)
THEOREM ObservedAtRest ==
    ASSUME AbsentIsNoObject
    PROVE  Spec => []ObservedIsTrue
<1>1. StatusLayer => ObservedIsTrue
  BY DEF StatusLayer, RestInv, ObservedIsTrue, Quiescent, Synced
<1> QED
  BY <1>1, StatusLayerInvariant, PTL

-----------------------------------------------------------------------------
(***************************************************************************)
(* The label the caches go by.                                             *)
(***************************************************************************)

(* The object a step of the pipeline makes.                                *)
AppliedObject ==
    ServerSideApply(obj[Kind], Desired(Kind, w.spec, ReadInputs),
                    IF Kind = "ServiceAccount" THEN accounts + 1 ELSE 0)

(* Who changes the objects of the operand.                                 *)
LEMMA ObjectSteps ==
    ASSUME [Next]_vars
    PROVE  \/ UNCHANGED obj
           \/ \E k \in Kinds, d \in Drifts : Drift(k, d)
           \/ StepApplies /\ api[Kind] = "ok" /\ WriteObj(Kind, AppliedObject) /\ Advance
<1>1. CASE DeliverTM \/ (\E k \in Kinds : DeliverObj(k)) \/ (\E i \in Inputs : DeliverInput(i))
           \/ Requeue
  BY <1>1 DEF DeliverTM, DeliverObj, DeliverInput, Requeue, objVars
<1>2. CASE \/ Reconcile \/ RemoveFinalizer \/ AddFinalizer \/ RereadAfterFinalizer
           \/ Validate \/ StepFails \/ StepUnchanged
  BY <1>2 DEF Reconcile, RemoveFinalizer, AddFinalizer, RereadAfterFinalizer, Validate,
              StepFails, StepUnchanged, objVars
<1>3. CASE \/ PipelineDone \/ UpdateStatusObservedState
           \/ HandleReconcileResult \/ UpdateCondition \/ RetryOnConflict
  BY <1>3 DEF PipelineDone, UpdateStatusObservedState, HandleReconcileResult, UpdateCondition,
              RetryOnConflict, objVars
<1>4. CASE StepApplies
  BY <1>4 DEF StepApplies, objVars, AppliedObject
<1>5. CASE \/ \E s \in Specs : UserCreates(s) \/ UserEdits(s)
           \/ UserDeletes
  BY <1>5 DEF UserCreates, UserEdits, UserDeletes, objVars
<1>6. CASE \/ \E b \in Bundles : BundleChanges(b)
           \/ \E p \in Profiles : ProfileChanges(p)
           \/ NamespaceCreated
           \/ \E e \in Outages, scope \in Scopes : APIFails(e, scope)
           \/ APIRecovers
           \/ Restart
  BY <1>6 DEF BundleChanges, ProfileChanges, NamespaceCreated, APIFails, APIRecovers, Restart,
              objVars
<1>7. CASE UNCHANGED vars
  BY <1>7 DEF vars, objVars
<1> QED
  BY <1>1, <1>2, <1>3, <1>4, <1>5, <1>6, <1>7 DEF Next, System, Environment, ReconcileStep

LEMMA StaysVisibleStep == TypeInv /\ StaysVisible /\ [Next]_vars => StaysVisible'
<1> SUFFICES ASSUME TypeInv, StaysVisible, [Next]_vars PROVE StaysVisible'
  OBVIOUS
<1> DEFINE Visible(o) == o # Absent /\ AppLabel \in o.owned => IsManagedResource(o)
<1>0. /\ ObjTypes
      /\ \A k \in Kinds : Visible(obj[k])
  BY TypeInvSplit DEF StaysVisible, AppLabel
<1>1. SUFFICES \A k \in Kinds : Visible(obj'[k])
  BY DEF StaysVisible, AppLabel, IsManagedResource
<1>2. CASE UNCHANGED obj
  BY <1>0, <1>2
<1>3. ASSUME NEW k \in Kinds, NEW new, WriteObj(k, new), Visible(new)
      PROVE  \A j \in Kinds : Visible(obj'[j])
  <2>1. obj'[k] = new /\ \A j \in Kinds \ {k} : obj'[j] = obj[j]
    BY <1>0, <1>3, WriteObjFacts
  <2> HIDE DEF Visible
  <2> QED
    BY <1>0, <1>3, <2>1
<1>4. ASSUME NEW k \in Kinds, NEW d \in Drifts, Drift(k, d)
      PROVE  \A j \in Kinds : Visible(obj'[j])
  <2>1. WriteObj(k, Drifted(k, d)) /\ obj[k] # Absent
        /\ (d = "edit" => <<"spec", EditedKey(k)>> \in DOMAIN obj[k].fields)
    BY <1>4 DEF Drift
  <2>2. Visible(Drifted(k, d))
    <3>1. SUFFICES ASSUME Drifted(k, d) # Absent, AppLabel \in Drifted(k, d).owned
                   PROVE  Value(Drifted(k, d).fields, AppLabel) = "trust-manager"
      BY DEF IsManagedResource, AppLabel
    <3>2. /\ AppLabel \in obj[k].owned /\ Drifted(k, d).fields[AppLabel] = obj[k].fields[AppLabel]
          /\ Drifted(k, d).owned \subseteq DOMAIN Drifted(k, d).fields
      BY <1>0, <2>1, <3>1, DriftedFacts DEF WellFormed
    <3>3. obj[k].owned \subseteq DOMAIN obj[k].fields
      BY <1>0, <2>1 DEF ObjTypes, WellFormed
    <3> QED
      BY <1>0, <2>1, <3>1, <3>2, <3>3 DEF IsManagedResource, AppLabel, Value
  <2> QED
    BY <1>3, <2>1, <2>2
<1>5. CASE StepApplies /\ WriteObj(Kind, AppliedObject)
  <2>1. Kind \in Kinds
    BY <1>5, StepKind, TypeInvSplit DEF StepApplies
  <2>2. AppLabel \in DOMAIN AppliedObject.fields /\ AppliedObject.fields[AppLabel] = "trust-manager"
    BY <1>5, AppliedFacts DEF StepApplies, AppliedObject
  <2>3. Visible(AppliedObject)
    BY <2>2 DEF IsManagedResource, Value, AppLabel
  <2> QED
    BY <1>3, <1>5, <2>1, <2>3
<1> QED
  BY <1>2, <1>4, <1>5, ObjectSteps

(* Whatever labels the users choose, an object that carries the label "app"*)
(* from the controller is found by the caches and by the watches.          *)
THEOREM AlwaysVisible ==
    ASSUME AbsentIsNoObject
    PROVE  Spec => []StaysVisible
<1>1. Init => TypeInv /\ StaysVisible
  BY InitTypes DEF Init, StaysVisible
<1>2. TypeInv /\ StaysVisible /\ [Next]_vars => TypeInv' /\ StaysVisible'
  BY TypeInvStep, StaysVisibleStep
<1> QED
  BY <1>1, <1>2, PTL DEF Spec

-----------------------------------------------------------------------------
(***************************************************************************)
(* Layer 4: the objects of the operand.                                    *)
(***************************************************************************)
LEMMA InitInstall == Init => InstallInv
<1> SUFFICES ASSUME Init PROVE InstallInv
  OBVIOUS
<1>1. \A k : Filtered(k, Absent) = Absent
  BY DEF Filtered
<1>2. LagInv
  BY <1>1 DEF Init, LagInv, Inputs
<1> QED
  BY <1>2 DEF Init, InstallInv, StartInv, AppliedPoints, DoneInv, ReadyInv

(* The predicate of the APIServer watch passes every change.               *)
LEMMA ProfileChangesAreSeen ==
    ASSUME NEW p \in Profiles, NEW q \in Profiles, p # q
    PROVE  ClusterAPIServerTLSConfigChanged(p, q)
<1>1. CASE p \in APIServers /\ q \in APIServers
  <2> DEFINE A == {"", "Legacy", "Strict"}
             P == {"", "Old", "Intermediate", "Modern", "Custom", "CustomEmpty"}
  <2>0. APIServers = [adherence : A, profile : P]
    BY DEF APIServers
  <2> HIDE DEF A, P
  <2>1. \A a \in APIServers : a = [adherence |-> a.adherence, profile |-> a.profile]
    BY <2>0
  <2>2. p.adherence # q.adherence \/ p.profile # q.profile
    BY <1>1, <2>1
  <2> QED
    BY <2>2 DEF ClusterAPIServerTLSConfigChanged
<1> QED
  BY <1>1, EnvironmentAssumption DEF ClusterAPIServerTLSConfigChanged

LEMMA LagInvStep == TypeInv /\ LagInv /\ [Next]_vars => LagInv'
<1> SUFFICES ASSUME TypeInv, LagInv, [Next]_vars PROVE LagInv'
  OBVIOUS
<1>0. ObjTypes /\ InTypes /\ RecTypes
  BY TypeInvSplit
<1> DEFINE InLag == /\ \A i \in Inputs : inLag[i] = "none" => inCache[i] = in[i]
                    /\ inLag["bundle"] # "quiet" /\ inLag["tls"] # "quiet"
           ObjLag(k) == /\ objLag[k] = "none" => objCache[k] = Filtered(k, obj[k])
                        /\ objLag[k] = "quiet" =>
                              ~IsManagedResource(objCache[k]) /\ ~IsManagedResource(obj[k])
<1>1. InLag /\ \A k \in Kinds : ObjLag(k)
  BY DEF LagInv
<1>2. SUFFICES InLag' /\ \A k \in Kinds : ObjLag(k)'
  BY DEF LagInv
<1>3. ASSUME UNCHANGED inVars PROVE InLag'
  BY <1>1, <1>3 DEF inVars
<1>4. ASSUME UNCHANGED <<obj, objCache, objLag>> PROVE \A k \in Kinds : ObjLag(k)'
  BY <1>1, <1>4 DEF Filtered, IsManagedResource
<1>5. ASSUME NEW k \in Kinds, NEW new, WriteObj(k, new) PROVE \A j \in Kinds : ObjLag(j)'
  <2>1. /\ objCache' = objCache
        /\ obj'[k] = new /\ \A j \in Kinds \ {k} : obj'[j] = obj[j]
        /\ \A j \in Kinds \ {k} : objLag'[j] = objLag[j]
        /\ \/ Filtered(k, new) = Filtered(k, obj[k]) /\ objLag'[k] = objLag[k]
           \/ objLag'[k] = "event"
           \/ /\ objLag[k] # "event" /\ objLag'[k] = "quiet"
              /\ ~IsManagedResource(obj[k]) /\ ~IsManagedResource(new)
    BY <1>0, <1>5, WriteObjFacts
  <2>2. ObjLag(k)'
    <3>1. objLag[k] \in Lags
      BY <1>0 DEF ObjTypes
    <3>2. IsManagedResource(Filtered(k, new)) <=> IsManagedResource(new)
      BY FilteredFacts
    <3>3. IsManagedResource(Filtered(k, obj[k])) <=> IsManagedResource(obj[k])
      BY FilteredFacts
    <3>4. CASE Filtered(k, new) = Filtered(k, obj[k]) /\ objLag'[k] = objLag[k]
      BY <1>1, <2>1, <3>2, <3>3, <3>4
    <3>5. CASE objLag'[k] = "event"
      BY <3>5
    <3>6. CASE /\ objLag[k] # "event" /\ objLag'[k] = "quiet"
               /\ ~IsManagedResource(obj[k]) /\ ~IsManagedResource(new)
      BY <1>1, <2>1, <3>1, <3>3, <3>6 DEF Lags
    <3> QED
      BY <2>1, <3>4, <3>5, <3>6
  <2>3. ASSUME NEW j \in Kinds \ {k} PROVE ObjLag(j)'
    BY <1>1, <2>1, <2>3
  <2> QED
    BY <2>2, <2>3
<1>6. CASE DeliverTM \/ Requeue
  BY <1>3, <1>4, <1>6 DEF DeliverTM, Requeue, objVars
<1>7. ASSUME NEW k \in Kinds, DeliverObj(k) PROVE InLag' /\ \A j \in Kinds : ObjLag(j)'
  <2>1. /\ obj' = obj
        /\ objCache'[k] = Filtered(k, obj[k]) /\ objLag'[k] = "none"
        /\ \A j \in Kinds \ {k} : objCache'[j] = objCache[j] /\ objLag'[j] = objLag[j]
    BY <1>0, <1>7 DEF DeliverObj, ObjTypes
  <2>2. ASSUME NEW j \in Kinds PROVE ObjLag(j)'
    BY <1>1, <2>1
  <2> QED
    BY <1>3, <1>7, <2>2 DEF DeliverObj
<1>8. ASSUME NEW i \in Inputs, DeliverInput(i) PROVE InLag' /\ \A j \in Kinds : ObjLag(j)'
  <2>1. /\ in' = in /\ inCache'[i] = in[i] /\ inLag'[i] = "none"
        /\ \A j \in Inputs \ {i} : inCache'[j] = inCache[j] /\ inLag'[j] = inLag[j]
    BY <1>0, <1>8 DEF DeliverInput, InTypes, Inputs
  <2>2. InLag'
    BY <1>1, <2>1 DEF Inputs
  <2> QED
    BY <1>4, <1>8, <2>2 DEF DeliverInput, objVars
<1>9. CASE \/ Reconcile \/ RemoveFinalizer \/ AddFinalizer \/ RereadAfterFinalizer
           \/ Validate \/ StepFails \/ StepUnchanged
  BY <1>3, <1>4, <1>9 DEF Reconcile, RemoveFinalizer, AddFinalizer, RereadAfterFinalizer,
                          Validate, StepFails, StepUnchanged, objVars
<1>10. CASE \/ PipelineDone \/ UpdateStatusObservedState
            \/ HandleReconcileResult \/ UpdateCondition \/ RetryOnConflict
  BY <1>3, <1>4, <1>10 DEF PipelineDone, UpdateStatusObservedState, HandleReconcileResult,
                           UpdateCondition, RetryOnConflict, objVars
<1>11. CASE StepApplies
  <2>1. Kind \in Kinds
    BY <1>0, <1>11, StepKind DEF StepApplies
  <2> QED
    BY <1>3, <1>4, <1>5, <1>11, <2>1 DEF StepApplies, objVars
<1>12. ASSUME NEW k \in Kinds, NEW d \in Drifts, Drift(k, d)
       PROVE  InLag' /\ \A j \in Kinds : ObjLag(j)'
  BY <1>3, <1>5, <1>12 DEF Drift
<1>13. ASSUME NEW i \in Inputs, NEW new, WriteInput(i, new), UNCHANGED objVars,
              i = "tls" => ClusterAPIServerTLSConfigChanged(in[i], new)
       PROVE  InLag' /\ \A j \in Kinds : ObjLag(j)'
  <2>1. /\ inCache' = inCache /\ \A j \in Inputs \ {i} : in'[j] = in[j] /\ inLag'[j] = inLag[j]
        /\ inLag'[i] # "none" /\ (i \in {"bundle", "tls"} => inLag'[i] = "event")
    BY <1>0, <1>13, WriteInputFacts
  <2>2. InLag'
    BY <1>1, <2>1 DEF Inputs
  <2> QED
    BY <1>4, <1>13, <2>2 DEF objVars
<1>14. CASE \E b \in Bundles : BundleChanges(b)
  BY <1>13, <1>14 DEF BundleChanges, Inputs
<1>15. CASE \E p \in Profiles : ProfileChanges(p)
  <2>1. PICK p \in Profiles : ProfileChanges(p)
    BY <1>15
  <2>2. ClusterAPIServerTLSConfigChanged(in["tls"], p)
    BY <1>0, <2>1, ProfileChangesAreSeen DEF ProfileChanges, WriteInput, InTypes
  <2> QED
    BY <1>13, <2>1, <2>2 DEF ProfileChanges, Inputs
<1>16. CASE NamespaceCreated
  BY <1>13, <1>16 DEF NamespaceCreated, Inputs
<1>17. CASE \/ \E s \in Specs : UserCreates(s) \/ UserEdits(s)
            \/ UserDeletes
            \/ \E e \in Outages, scope \in Scopes : APIFails(e, scope)
            \/ APIRecovers
  BY <1>3, <1>4, <1>17 DEF UserCreates, UserEdits, UserDeletes, APIFails, APIRecovers, objVars
<1>18. CASE Restart
  BY <1>18 DEF Restart, Inputs
<1>19. CASE UNCHANGED vars
  BY <1>3, <1>4, <1>19 DEF vars, objVars
<1> QED
  BY <1>6, <1>7, <1>8, <1>9, <1>10, <1>11, <1>12, <1>14, <1>15, <1>16, <1>17, <1>18, <1>19
     DEF Next, System, Environment, ReconcileStep

(* An apply or a disturbance of a managed object that makes no event has   *)
(* changed nothing.                                                        *)
LEMMA CalmWrite ==
    ASSUME TypeInv, NEW k \in Kinds, NEW new, WriteObj(k, new),
           \A j \in Kinds : objLag'[j] # "event"
    PROVE  /\ \A j \in Kinds : objLag[j] # "event"
           /\ \A j \in Kinds : IsManagedResource(obj[j]) \/ IsManagedResource(obj'[j]) =>
                                  obj'[j] = obj[j]
<1>1. /\ obj'[k] = new /\ \A j \in Kinds \ {k} : obj'[j] = obj[j]
      /\ \A j \in Kinds \ {k} : objLag'[j] = objLag[j]
      /\ \/ Filtered(k, new) = Filtered(k, obj[k]) /\ objLag'[k] = objLag[k]
         \/ objLag'[k] = "event"
         \/ /\ objLag[k] # "event" /\ objLag'[k] = "quiet"
            /\ ~IsManagedResource(obj[k]) /\ ~IsManagedResource(new)
  BY TypeInvSplit, WriteObjFacts
<1>2. /\ IsManagedResource(Filtered(k, new)) <=> IsManagedResource(new)
      /\ IsManagedResource(new) => Filtered(k, new) = new
  BY FilteredFacts
<1>3. /\ IsManagedResource(Filtered(k, obj[k])) <=> IsManagedResource(obj[k])
      /\ IsManagedResource(obj[k]) => Filtered(k, obj[k]) = obj[k]
  BY FilteredFacts
<1>4. IsManagedResource(obj[k]) \/ IsManagedResource(new) => new = obj[k]
  BY <1>1, <1>2, <1>3
<1>5. objLag[k] # "event"
  BY <1>1
<1> QED
  BY <1>1, <1>4, <1>5

(* A step after which no event is under way, other than a restart.         *)
CalmStep ==
    /\ Calm \/ Reconcile
    /\ image' = image /\ in'["bundle"] = in["bundle"] /\ in'["tls"] = in["tls"]
    /\ \A k \in Kinds : IsManagedResource(obj[k]) \/ IsManagedResource(obj'[k]) =>
                           obj'[k] = obj[k]

LEMMA CalmSteps ==
    ASSUME TypeInv, LagInv, [Next]_vars, ~Restart, Calm'
    PROVE  CalmStep
<1>0. ObjTypes /\ InTypes /\ RecTypes
  BY TypeInvSplit
<1>1. /\ ~queue' /\ \A k \in Kinds : objLag'[k] # "event"
      /\ inLag'["bundle"] # "event" /\ inLag'["tls"] # "event"
  BY DEF Calm
<1>2. ASSUME queue => Reconcile, UNCHANGED <<image, inVars, obj, objLag>>
      PROVE  CalmStep
  BY <1>1, <1>2 DEF CalmStep, Calm, inVars
<1>3. ASSUME NEW k \in Kinds, NEW new, WriteObj(k, new), UNCHANGED <<queue, image, inVars>>
      PROVE  CalmStep
  <2>1. /\ \A j \in Kinds : objLag[j] # "event"
        /\ \A j \in Kinds : IsManagedResource(obj[j]) \/ IsManagedResource(obj'[j]) =>
                               obj'[j] = obj[j]
    BY <1>1, <1>3, CalmWrite
  <2> QED
    BY <1>1, <1>3, <2>1 DEF CalmStep, Calm, inVars
<1>4. CASE DeliverTM \/ Requeue
  BY <1>1, <1>2, <1>4 DEF DeliverTM, Requeue, objVars, envVars
<1>5. ASSUME NEW k \in Kinds, DeliverObj(k) PROVE CalmStep
  <2>1. /\ ~queue /\ objLag[k] # "event"
        /\ \A j \in Kinds \ {k} : objLag'[j] = objLag[j]
    BY <1>0, <1>1, <1>5 DEF DeliverObj, ObjTypes
  <2>2. \A j \in Kinds : objLag[j] # "event"
    BY <1>1, <2>1
  <2> QED
    BY <1>1, <1>5, <2>1, <2>2 DEF CalmStep, Calm, DeliverObj, inVars, envVars
<1>6. ASSUME NEW i \in Inputs, DeliverInput(i) PROVE CalmStep
  <2>1. /\ ~queue /\ inLag[i] # "event"
        /\ \A j \in Inputs \ {i} : inLag'[j] = inLag[j]
    BY <1>0, <1>1, <1>6 DEF DeliverInput, InTypes
  <2>2. inLag["bundle"] # "event" /\ inLag["tls"] # "event"
    BY <1>1, <2>1 DEF Inputs
  <2> QED
    BY <1>1, <1>6, <2>1, <2>2 DEF CalmStep, Calm, DeliverInput, objVars, envVars
<1>7. CASE Reconcile
  BY <1>2, <1>7 DEF Reconcile, objVars, envVars
<1>8. CASE \/ RemoveFinalizer \/ AddFinalizer \/ RereadAfterFinalizer
           \/ Validate \/ StepFails \/ StepUnchanged
  BY <1>1, <1>2, <1>8 DEF RemoveFinalizer, AddFinalizer, RereadAfterFinalizer,
                          Validate, StepFails, StepUnchanged, objVars, envVars
<1>9. CASE \/ PipelineDone \/ UpdateStatusObservedState
           \/ HandleReconcileResult \/ UpdateCondition \/ RetryOnConflict
  BY <1>1, <1>2, <1>9 DEF PipelineDone, UpdateStatusObservedState, HandleReconcileResult,
                          UpdateCondition, RetryOnConflict, objVars, envVars
<1>10. CASE StepApplies
  <2>1. Kind \in Kinds
    BY <1>0, <1>10, StepKind DEF StepApplies
  <2>2. CASE UNCHANGED objVars
    BY <1>1, <1>2, <1>10, <2>2 DEF StepApplies, objVars, envVars
  <2>3. ASSUME NEW new, WriteObj(Kind, new) PROVE CalmStep
    BY <1>3, <1>10, <2>1, <2>3 DEF StepApplies, envVars
  <2> QED
    BY <1>10, <2>2, <2>3 DEF StepApplies
<1>11. CASE \E k \in Kinds, d \in Drifts : Drift(k, d)
  BY <1>3, <1>11 DEF Drift, inVars
<1>12. ASSUME NEW b \in Bundles, BundleChanges(b) PROVE CalmStep
  BY <1>0, <1>1, <1>12, WriteInputFacts DEF BundleChanges, Inputs
<1>13. ASSUME NEW p \in Profiles, ProfileChanges(p) PROVE CalmStep
  <2>1. ClusterAPIServerTLSConfigChanged(in["tls"], p)
    BY <1>0, <1>13, ProfileChangesAreSeen DEF ProfileChanges, WriteInput, InTypes
  <2> QED
    BY <1>0, <1>1, <1>13, <2>1, WriteInputFacts DEF ProfileChanges, Inputs
<1>14. CASE NamespaceCreated
  <2>1. /\ in'["bundle"] = in["bundle"] /\ in'["tls"] = in["tls"]
        /\ inLag'["bundle"] = inLag["bundle"] /\ inLag'["tls"] = inLag["tls"]
    BY <1>0, <1>14, WriteInputFacts DEF NamespaceCreated, Inputs
  <2> QED
    BY <1>1, <1>14, <2>1 DEF CalmStep, Calm, NamespaceCreated, objVars, envVars
<1>15. CASE \/ \E s \in Specs : UserCreates(s) \/ UserEdits(s)
            \/ UserDeletes
            \/ \E e \in Outages, scope \in Scopes : APIFails(e, scope)
            \/ APIRecovers
  BY <1>1, <1>2, <1>15 DEF UserCreates, UserEdits, UserDeletes, APIFails, APIRecovers, objVars
<1>16. CASE UNCHANGED vars
  BY <1>1, <1>2, <1>16 DEF vars, objVars, envVars
<1> QED
  BY <1>4, <1>5, <1>6, <1>7, <1>8, <1>9, <1>10, <1>11, <1>12, <1>13, <1>14, <1>15, <1>16
     DEF Next, System, Environment, ReconcileStep

LEMMA InPlaceIsManaged ==
    ASSUME NEW k \in Kinds, NEW s, InPlaceFor(k, s), ~Skipped(k, s)
    PROVE  obj[k] # Absent /\ IsManagedResource(obj[k])
<1>1. obj[k] # Absent /\ Holds(obj[k].fields, k, s, LiveInputs)
  BY DEF InPlaceFor
<1>2. Value(obj[k].fields, AppLabel) = "trust-manager"
  BY <1>1, HeldIsManaged, KindsFacts
<1> QED
  BY <1>1, <1>2 DEF IsManagedResource, AppLabel

LEMMA LiveInputsFields ==
    /\ LiveInputs.bundle = in["bundle"] /\ LiveInputs.tls = in["tls"] /\ LiveInputs.image = image
    /\ "ServiceAccount" \in Kinds /\ obj["ServiceAccount"] # Absent =>
          LiveInputs.sauid = obj["ServiceAccount"].uid
BY DEF LiveInputs

LEMMA AccountFirst == "Deployment" \in Kinds => "ServiceAccount" \in Kinds
BY PipelineAssumption

(* What is in place stays so in a step after which no event is under way.  *)
LEMMA StaysInPlace ==
    ASSUME CalmStep, NEW k \in Kinds, NEW s, InPlaceFor(k, s),
           k = "Deployment" => InPlaceFor("ServiceAccount", s)
    PROVE  InPlaceFor(k, s)'
<1>1. CASE Skipped(k, s)
  BY <1>1 DEF InPlaceFor
<1>2. CASE ~Skipped(k, s)
  <2>1. /\ obj[k] # Absent /\ IsManagedResource(obj[k])
        /\ Holds(obj[k].fields, k, s, LiveInputs) /\ BuildError(k, s, LiveInputs) = "nil"
    BY <1>2, InPlaceIsManaged DEF InPlaceFor
  <2>2. obj'[k] = obj[k]
    BY <2>1 DEF CalmStep
  <2>3. k = "Deployment" => LiveInputs'.sauid = LiveInputs.sauid
    <3>1. SUFFICES ASSUME k = "Deployment" PROVE LiveInputs'.sauid = LiveInputs.sauid
      OBVIOUS
    <3>2. "ServiceAccount" \in Kinds /\ ~Skipped("ServiceAccount", s)
      BY <3>1, AccountFirst DEF Skipped
    <3>3. IsManagedResource(obj["ServiceAccount"])
      BY <3>1, <3>2, InPlaceIsManaged
    <3>4. obj'["ServiceAccount"] = obj["ServiceAccount"]
      BY <3>2, <3>3 DEF CalmStep
    <3> QED
      BY <3>4 DEF LiveInputs
  <2>4. /\ LiveInputs'.bundle = LiveInputs.bundle /\ LiveInputs'.tls = LiveInputs.tls
        /\ LiveInputs'.image = LiveInputs.image
    BY DEF CalmStep, LiveInputs
  <2> DEFINE i == LiveInputs
             j == LiveInputs'
  <2>5. Desired(k, s, i) = Desired(k, s, j) /\ BuildError(k, s, i) = BuildError(k, s, j)
    <3> HIDE DEF i, j
    <3>1. k = "Deployment" => i.tls = j.tls /\ i.image = j.image /\ i.sauid = j.sauid
      BY <2>3, <2>4 DEF i, j
    <3>2. i.bundle = j.bundle
      BY <2>4 DEF i, j
    <3> QED
      BY <1>2, <3>1, <3>2, SameInputs, KindsFacts
  <2>6. Holds(obj[k].fields, k, s, j)
    <3> HIDE DEF i, j
    <3>1. Holds(obj[k].fields, k, s, i)
      BY <2>1 DEF i
    <3> QED
      BY <2>5, <3>1 DEF Holds
  <2>7. InPlaceFor(k, s)' <=> \/ Skipped(k, s)
                              \/ /\ obj'[k] # Absent
                                 /\ BuildError(k, s, j) = "nil"
                                 /\ Holds(obj'[k].fields, k, s, j)
    BY DEF InPlaceFor
  <2> HIDE DEF i, j
  <2> QED
    BY <2>1, <2>2, <2>5, <2>6, <2>7 DEF i
<1> QED
  BY <1>1, <1>2

(* A cached object that is managed is the live one if no event is under    *)
(* way.                                                                    *)
LEMMA CachedIsLive ==
    ASSUME TypeInv, LagInv, Calm, NEW k \in Kinds,
           IsManagedResource(obj[k]) \/ IsManagedResource(objCache[k])
    PROVE  objCache[k] = obj[k]
<1>1. objLag[k] = "none"
  BY TypeInvSplit DEF LagInv, Calm, ObjTypes, Lags
<1>2. objCache[k] = Filtered(k, obj[k])
  BY <1>1 DEF LagInv
<1> QED
  BY <1>2, FilteredFacts

(* The kinds before the current step.                                      *)
LEMMA BeforeTheDeployment ==
    ASSUME TypeInv, Applying, Kind = "Deployment", NEW k \in Kinds,
           k \in {"DefaultCAPackage", "ServiceAccount"}
    PROVE  \E j \in 1..(step - 1) : Pipeline[j] = k
<1>1. step \in 1..Len(Pipeline) /\ Pipeline[step] = "Deployment" /\ Len(Pipeline) \in Nat
  BY StepKind, TypeInvSplit, KindsFacts DEF Kind
<1>2. PICK j \in 1..Len(Pipeline) : Pipeline[j] = k
  BY KindsFacts
<1>3. j < step
  BY <1>1, <1>2, Order
<1> QED
  BY <1>1, <1>2, <1>3

(* The inputs of the current step are the live ones: the bundle since the  *)
(* beginning of the pass, the service account since its own step.          *)
LEMMA ReadsAreLive ==
    ASSUME TypeInv, LagInv, DoneInv, Calm, Applying, err = "nil", ~Skipped(Kind, w.spec)
    PROVE  /\ Desired(Kind, w.spec, ReadInputs) = Desired(Kind, w.spec, LiveInputs)
           /\ BuildError(Kind, w.spec, ReadInputs) = BuildError(Kind, w.spec, LiveInputs)
           /\ Kind = "Deployment" => InPlaceFor("ServiceAccount", w.spec)
<1>0. Kind \in Kinds /\ w.spec \in Specs
  <2>1. w \in TrustManagers
    BY TypeInvSplit DEF Applying, TMTypes, InHand
  <2> QED
    BY <2>1, StepKind, TypeInvSplit, TrustManagerFacts
<1>1. inCache["bundle"] = in["bundle"] /\ inCache["tls"] = in["tls"]
  <2>1. inLag["bundle"] = "none" /\ inLag["tls"] = "none"
    BY TypeInvSplit DEF LagInv, Calm, InTypes, Inputs, Lags
  <2> QED
    BY <2>1 DEF LagInv, Inputs
<1>2. /\ \A j \in 1..(step - 1) : InPlaceFor(Pipeline[j], w.spec)
      /\ DefaultCAPackageEnabled(w.spec)
         /\ (\E j \in 1..(step - 1) : Pipeline[j] = "DefaultCAPackage") =>
            bundleRead = in["bundle"]
  BY DEF DoneInv, Done, Applying, AppliedPoints
<1>3. /\ ReadInputs.tls = inCache["tls"] /\ ReadInputs.image = image
      /\ ReadInputs.sauid = CachedAccount
      /\ ReadInputs.bundle = IF Kind = "DefaultCAPackage" THEN inCache["bundle"] ELSE bundleRead
  BY DEF ReadInputs
<1>4. /\ LiveInputs.bundle = in["bundle"] /\ LiveInputs.tls = in["tls"]
      /\ LiveInputs.image = image
  BY DEF LiveInputs
<1>5. Kind = "Deployment" => InPlaceFor("ServiceAccount", w.spec)
  BY <1>2, BeforeTheDeployment, AccountFirst, <1>0
<1>6. Kind = "Deployment" => ReadInputs.sauid = LiveInputs.sauid
  <2>1. SUFFICES ASSUME Kind = "Deployment" PROVE CachedAccount = LiveInputs.sauid
    BY <1>3
  <2>2. "ServiceAccount" \in Kinds /\ ~Skipped("ServiceAccount", w.spec)
    BY <1>0, <2>1, AccountFirst DEF Skipped
  <2>3. obj["ServiceAccount"] # Absent /\ IsManagedResource(obj["ServiceAccount"])
    BY <1>5, <2>1, <2>2, InPlaceIsManaged
  <2>4. objCache["ServiceAccount"] = obj["ServiceAccount"]
    BY <2>2, <2>3, CachedIsLive
  <2> QED
    BY <2>2, <2>3, <2>4 DEF CachedAccount, LiveInputs
<1>7. Kind \in {"DefaultCAPackage", "Deployment"} /\ DefaultCAPackageEnabled(w.spec) =>
          ReadInputs.bundle = LiveInputs.bundle
  <2>1. CASE Kind = "DefaultCAPackage"
    BY <1>1, <1>3, <1>4, <2>1
  <2>2. CASE Kind = "Deployment" /\ DefaultCAPackageEnabled(w.spec)
    <3>1. "DefaultCAPackage" \in Kinds
      BY <1>0, <2>2, PipelineAssumption
    <3>2. bundleRead = in["bundle"]
      BY <1>2, <2>2, <3>1, BeforeTheDeployment
    <3> QED
      BY <1>3, <1>4, <2>2, <3>2
  <2> QED
    BY <2>1, <2>2
<1> DEFINE i == ReadInputs
           j == LiveInputs
<1>8. /\ Kind = "Deployment" => i.tls = j.tls /\ i.image = j.image /\ i.sauid = j.sauid
      /\ Kind \in {"DefaultCAPackage", "Deployment"} /\ DefaultCAPackageEnabled(w.spec) =>
             i.bundle = j.bundle
  BY <1>1, <1>3, <1>4, <1>6, <1>7
<1>9. Kind \in AllKinds
  BY <1>0, KindsFacts
<1> HIDE DEF i, j
<1>10. /\ Desired(Kind, w.spec, i) = Desired(Kind, w.spec, j)
       /\ BuildError(Kind, w.spec, i) = BuildError(Kind, w.spec, j)
  BY <1>8, <1>9, SameInputs
<1> QED
  BY <1>5, <1>10 DEF i, j

(* A step that leaves its object alone, and one whose apply makes no event,*)
(* find it in place.                                                       *)
LEMMA StepFindsInPlace ==
    ASSUME TypeInv, LagInv, DoneInv, CalmStep, err = "nil",
           StepUnchanged \/ (StepApplies /\ WriteObj(Kind, AppliedObject))
    PROVE  InPlaceFor(Kind, w.spec)
<1>0. Applying /\ Kind \in Kinds /\ Kind \in AllKinds /\ Calm
  <2>1. Applying
    BY DEF StepUnchanged, StepApplies
  <2>2. ~Reconcile
    BY <2>1 DEF Applying, Reconcile
  <2> QED
    BY <2>1, <2>2, StepKind, TypeInvSplit, KindsFacts DEF CalmStep
<1>1. SUFFICES ASSUME ~Skipped(Kind, w.spec)
               PROVE  /\ obj[Kind] # Absent /\ StepError = "nil"
                      /\ Holds(obj[Kind].fields, Kind, w.spec, ReadInputs)
  <2>1. ASSUME ~Skipped(Kind, w.spec)
        PROVE  /\ Desired(Kind, w.spec, ReadInputs) = Desired(Kind, w.spec, LiveInputs)
               /\ BuildError(Kind, w.spec, ReadInputs) = BuildError(Kind, w.spec, LiveInputs)
    BY <1>0, <2>1, ReadsAreLive
  <2> QED
    BY <2>1 DEF InPlaceFor, StepError, Holds
<1>2. w.spec \in Specs
  <2>1. w \in TrustManagers
    BY <1>0, TypeInvSplit DEF Applying, TMTypes, InHand
  <2> QED
    BY <2>1, TrustManagerFacts
<1>3. CASE StepUnchanged
  <2>1. StepError = "nil" /\ ~NeedsApply(Kind, w.spec, ReadInputs, CachedFields)
    BY <1>1, <1>3 DEF StepUnchanged
  <2>2. CachedFields # Absent
    BY <1>0, <2>1, MissingIsApplied
  <2>3. objCache[Kind] # Absent /\ CachedFields = objCache[Kind].fields
    BY <2>2 DEF CachedFields
  <2>4. Sound(CachedFields, Kind, GetTrustNamespace(w.spec))
    BY <1>0, <1>2, <2>3, TypeInvSplit DEF ObjTypes, WellShaped
  <2>5. Holds(CachedFields, Kind, w.spec, ReadInputs)
    BY <1>0, <2>1, <2>2, <2>4, NoticesEverything
  <2>6. IsManagedResource(objCache[Kind])
    BY <1>0, <2>3, <2>5, HeldIsManaged DEF IsManagedResource, AppLabel
  <2>7. obj[Kind] = objCache[Kind]
    BY <1>0, <2>6, CachedIsLive
  <2> QED
    BY <2>1, <2>3, <2>5, <2>7
<1>4. CASE StepApplies /\ WriteObj(Kind, AppliedObject)
  <2>1. /\ AppliedObject # Absent
        /\ Holds(AppliedObject.fields, Kind, w.spec, ReadInputs)
    BY <1>0, AppliedFacts DEF AppliedObject
  <2>2. IsManagedResource(AppliedObject)
    BY <1>0, <2>1, HeldIsManaged DEF IsManagedResource, AppLabel
  <2>3. obj'[Kind] = AppliedObject
    BY <1>0, <1>4, TypeInvSplit, WriteObjFacts
  <2>4. obj[Kind] = AppliedObject
    BY <1>0, <2>2, <2>3 DEF CalmStep
  <2> QED
    BY <1>4, <2>1, <2>4 DEF StepApplies
<1> QED
  BY <1>3, <1>4

LEMMA StartInvStep == TypeInv /\ StartInv /\ [Next]_vars => StartInv'
<1> SUFFICES ASSUME TypeInv, StartInv, [Next]_vars PROVE StartInv'
  OBVIOUS
<1>1. ASSUME UNCHANGED <<pc, step>> PROVE StartInv'
  BY <1>1 DEF StartInv
<1>2. ASSUME pc' \in AppliedPoints \/ step' = 1 PROVE StartInv'
  BY <1>2 DEF StartInv
<1>3. ASSUME pc \notin AppliedPoints, UNCHANGED step PROVE StartInv'
  BY <1>3 DEF StartInv
<1>4. CASE DeliverTM \/ (\E k \in Kinds : DeliverObj(k)) \/ (\E i \in Inputs : DeliverInput(i))
           \/ Requeue \/ RetryOnConflict
  BY <1>1, <1>4 DEF DeliverTM, DeliverObj, DeliverInput, Requeue, RetryOnConflict, recVars
<1>5. CASE Reconcile \/ RemoveFinalizer \/ AddFinalizer \/ RereadAfterFinalizer
  BY <1>2, <1>3, <1>5 DEF Reconcile, RemoveFinalizer, AddFinalizer, RereadAfterFinalizer, Return,
                          AppliedPoints
<1>6. CASE Validate \/ StepFails \/ StepUnchanged \/ StepApplies \/ PipelineDone
  BY <1>2, <1>6 DEF Validate, StepFails, StepUnchanged, StepApplies, PipelineDone, FailWith,
                    Goto, Advance, AppliedPoints
<1>7. CASE UpdateStatusObservedState \/ HandleReconcileResult \/ UpdateCondition
  BY <1>2, <1>7 DEF UpdateStatusObservedState, HandleReconcileResult, UpdateCondition,
                    FailWith, Goto, Return, AppliedPoints
<1>8. CASE \/ \E s \in Specs : UserCreates(s) \/ UserEdits(s)
           \/ UserDeletes
           \/ \E k \in Kinds, d \in Drifts : Drift(k, d)
           \/ \E b \in Bundles : BundleChanges(b)
           \/ \E p \in Profiles : ProfileChanges(p)
           \/ NamespaceCreated
           \/ \E e \in Outages, scope \in Scopes : APIFails(e, scope)
           \/ APIRecovers
  BY <1>1, <1>8 DEF UserCreates, UserEdits, UserDeletes, Drift, BundleChanges, ProfileChanges,
                    NamespaceCreated, APIFails, APIRecovers, recVars
<1>9. CASE Restart
  BY <1>2, <1>9 DEF Restart
<1>10. CASE UNCHANGED vars
  BY <1>1, <1>10 DEF vars, recVars
<1> QED
  BY <1>4, <1>5, <1>6, <1>7, <1>8, <1>9, <1>10 DEF Next, System, Environment, ReconcileStep

(* What the pass has done stays done, and each of its steps adds its kind. *)
LEMMA DoneInvStep ==
    ASSUME TypeInv, StatusInv, LagInv, StartInv, DoneInv, [Next]_vars
    PROVE  DoneInv'
<1>0. RecTypes /\ TMTypes
  BY TypeInvSplit
<1>1. SUFFICES ASSUME pc' \in AppliedPoints, err' = "nil", Calm'
               PROVE  Done'
  BY DEF DoneInv
<1>2. ~Restart /\ ~Reconcile
  BY <1>1 DEF Restart, Reconcile, Return, Goto, AppliedPoints
<1>3. CalmStep /\ Calm /\ in'["bundle"] = in["bundle"]
  <2>1. CalmStep
    BY <1>1, <1>2, CalmSteps
  <2> QED
    BY <1>2, <2>1 DEF CalmStep
<1> PICK s : s = w.spec
  OBVIOUS
<1>4. ASSUME pc \in AppliedPoints, err = "nil"
      PROVE  /\ \A j \in 1..(step - 1) : InPlaceFor(Pipeline[j], s)'
             /\ DefaultCAPackageEnabled(s)
                /\ (\E j \in 1..(step - 1) : Pipeline[j] = "DefaultCAPackage") =>
                   bundleRead = in["bundle"]
  <2>1. /\ \A j \in 1..(step - 1) : InPlaceFor(Pipeline[j], s)
        /\ DefaultCAPackageEnabled(s)
           /\ (\E j \in 1..(step - 1) : Pipeline[j] = "DefaultCAPackage") =>
              bundleRead = in["bundle"]
    BY <1>3, <1>4 DEF DoneInv, Done
  <2>2. ASSUME NEW j \in 1..(step - 1) PROVE InPlaceFor(Pipeline[j], s)'
    <3>1. j \in 1..Len(Pipeline) /\ Pipeline[j] \in Kinds
      BY <1>0, KindsFacts DEF RecTypes
    <3>2. Pipeline[j] = "Deployment" => InPlaceFor("ServiceAccount", s)
      <4>1. SUFFICES ASSUME Pipeline[j] = "Deployment" PROVE InPlaceFor("ServiceAccount", s)
        OBVIOUS
      <4>2. PICK i \in 1..Len(Pipeline) : Pipeline[i] = "ServiceAccount"
        BY <3>1, <4>1, AccountFirst, KindsFacts
      <4>3. i < j
        BY <3>1, <4>1, <4>2, Order
      <4>4. i \in 1..(step - 1)
        BY <1>0, <4>2, <4>3, KindsFacts DEF RecTypes
      <4> QED
        BY <2>1, <4>2, <4>4
    <3>3. InPlaceFor(Pipeline[j], s)
      BY <2>1
    <3> QED
      BY <1>3, <3>1, <3>2, <3>3, StaysInPlace
  <2> QED
    BY <2>1, <2>2
<1>5. ASSUME pc \in AppliedPoints, err = "nil", step' = step, bundleRead' = bundleRead,
             w'.spec = w.spec
      PROVE  Done'
  <2>1. w'.spec = s
    BY <1>5
  <2>2. \A j \in 1..(step' - 1) : InPlaceFor(Pipeline[j], w.spec)'
    BY <1>4, <1>5, <2>1 DEF InPlaceFor
  <2>3. DefaultCAPackageEnabled(w'.spec)
        /\ (\E j \in 1..(step' - 1) : Pipeline[j] = "DefaultCAPackage") =>
           bundleRead' = in'["bundle"]
    BY <1>3, <1>4, <1>5, <2>1
  <2> QED
    BY <2>2, <2>3 DEF Done
<1>6. ASSUME step' = 1 PROVE Done'
  BY <1>6 DEF Done
<1>7. ASSUME UNCHANGED <<pc, err, step, bundleRead, w>> PROVE Done'
  BY <1>1, <1>5, <1>7
<1>8. CASE DeliverTM \/ (\E k \in Kinds : DeliverObj(k)) \/ (\E i \in Inputs : DeliverInput(i))
           \/ Requeue \/ RetryOnConflict
  BY <1>7, <1>8 DEF DeliverTM, DeliverObj, DeliverInput, Requeue, RetryOnConflict, recVars
<1>9. CASE RemoveFinalizer \/ AddFinalizer \/ RereadAfterFinalizer
  BY <1>1, <1>9 DEF RemoveFinalizer, AddFinalizer, RereadAfterFinalizer, Return, Goto,
                    AppliedPoints
<1>10. CASE Validate
  <2>1. step = 1 /\ step' = step
    BY <1>10 DEF Validate, StartInv, AppliedPoints, FailWith
  <2> QED
    BY <1>6, <2>1
<1>11. CASE StepFails
  BY <1>1, <1>11 DEF StepFails, FailWith
<1>12. CASE StepUnchanged \/ StepApplies
  <2>1. FromClientError(api[Kind]) # "nil"
    BY DEF FromClientError
  <2>2. /\ Advance /\ Applying
        /\ StepUnchanged \/ (StepApplies /\ WriteObj(Kind, AppliedObject))
    BY <1>1, <1>12, <2>1 DEF StepUnchanged, StepApplies, FailWith, AppliedObject
  <2>3. /\ pc \in AppliedPoints /\ err = "nil" /\ step' = step + 1 /\ w' = w
        /\ bundleRead' = IF Kind = "DefaultCAPackage" /\ ~Skipped(Kind, w.spec)
                         THEN inCache["bundle"] ELSE bundleRead
    BY <1>1, <2>2 DEF Advance, Applying, AppliedPoints
  <2>4. Kind \in Kinds /\ step \in 1..Len(Pipeline)
    BY <1>0, <2>2, StepKind
  <2>5. InPlaceFor(Kind, w.spec)
    BY <1>3, <2>2, <2>3, StepFindsInPlace
  <2>6. Kind = "Deployment" => InPlaceFor("ServiceAccount", w.spec)
    <3>1. Kind = "Deployment" => ~Skipped(Kind, w.spec)
      BY DEF Skipped
    <3> QED
      BY <1>3, <2>2, <2>3, <3>1, ReadsAreLive
  <2>7. PICK k \in Kinds : k = Kind
    BY <2>4
  <2>8. InPlaceFor(k, s)'
    BY <1>3, <2>5, <2>6, <2>7, StaysInPlace
  <2>9. \A j \in 1..(step - 1) : InPlaceFor(Pipeline[j], s)'
    BY <1>4, <2>3
  <2>10. step \in Nat /\ step' - 1 = step /\ w'.spec = s
    BY <2>3, <2>4, KindsFacts
  <2>11. ASSUME NEW j \in 1..(step' - 1) PROVE InPlaceFor(Pipeline[j], w.spec)'
    <3>1. CASE j = step
      BY <2>7, <2>8, <2>10, <3>1 DEF InPlaceFor, Kind
    <3>2. CASE j # step
      <4>1. j \in 1..(step - 1)
        BY <2>10, <3>2
      <4> QED
        BY <2>9, <2>10, <4>1 DEF InPlaceFor
    <3> QED
      BY <3>1, <3>2
  <2>12. ASSUME DefaultCAPackageEnabled(w'.spec),
                NEW j \in 1..(step' - 1), Pipeline[j] = "DefaultCAPackage"
         PROVE  bundleRead' = in'["bundle"]
    <3>1. CASE Kind = "DefaultCAPackage"
      <4>1. inLag["bundle"] = "none"
        BY <1>3, TypeInvSplit DEF LagInv, Calm, InTypes, Inputs, Lags
      <4>2. inCache["bundle"] = in["bundle"]
        BY <4>1 DEF LagInv, Inputs
      <4> QED
        BY <1>3, <2>3, <2>12, <3>1, <4>2 DEF Skipped
    <3>2. CASE Kind # "DefaultCAPackage"
      <4>1. j \in 1..(step - 1)
        BY <2>10, <2>12, <3>2 DEF Kind
      <4> QED
        BY <1>3, <1>4, <2>3, <2>10, <2>12, <3>2, <4>1
    <3> QED
      BY <3>1, <3>2
  <2> QED
    BY <2>11, <2>12 DEF Done
<1>13. CASE PipelineDone
  <2>1. pc = "apply" /\ w \in TrustManagers
    BY <1>0, <1>13 DEF PipelineDone, TMTypes, InHand
  <2>2. w'.spec = w.spec
    BY <1>13, <2>1 DEF PipelineDone, TrustManagers
  <2> QED
    BY <1>1, <1>5, <1>13, <2>1, <2>2 DEF PipelineDone, Goto, AppliedPoints
<1>14. CASE UpdateStatusObservedState
  <2>1. FromClientError(WriteError) # "nil"
    BY DEF FromClientError
  <2> QED
    BY <1>1, <1>5, <1>14, <2>1 DEF UpdateStatusObservedState, FailWith, Goto, AppliedPoints
<1>15. CASE HandleReconcileResult
  <2>1. pc = "result" /\ w \in TrustManagers
    BY <1>0, <1>15 DEF HandleReconcileResult, TMTypes, InHand
  <2>2. w' = [w EXCEPT !.conds = ConditionsFor(err)] /\ UNCHANGED <<step, err, bundleRead>>
    BY <1>1, <1>15 DEF HandleReconcileResult, Return, Goto, AppliedPoints
  <2>3. w'.spec = w.spec
    BY <2>1, <2>2 DEF TrustManagers
  <2> QED
    BY <1>1, <1>5, <2>1, <2>2, <2>3 DEF AppliedPoints
<1>16. CASE UpdateCondition
  BY <1>1, <1>16 DEF UpdateCondition, Return, AppliedPoints
<1>17. CASE \/ \E t \in Specs : UserCreates(t) \/ UserEdits(t)
            \/ UserDeletes
            \/ \E k \in Kinds, d \in Drifts : Drift(k, d)
            \/ \E b \in Bundles : BundleChanges(b)
            \/ \E p \in Profiles : ProfileChanges(p)
            \/ NamespaceCreated
            \/ \E e \in Outages, scope \in Scopes : APIFails(e, scope)
            \/ APIRecovers
  BY <1>7, <1>17 DEF UserCreates, UserEdits, UserDeletes, Drift, BundleChanges, ProfileChanges,
                     NamespaceCreated, APIFails, APIRecovers, recVars
<1>18. CASE UNCHANGED vars
  BY <1>7, <1>18 DEF vars, recVars
<1> QED
  BY <1>2, <1>8, <1>9, <1>10, <1>11, <1>12, <1>13, <1>14, <1>15, <1>16, <1>17, <1>18
     DEF Next, System, Environment, ReconcileStep

(* A pass that ends with Ready, no event under way, leaves everything in   *)
(* place, and it stays so until there is an event.                         *)
LEMMA ReadyInvStep ==
    ASSUME TypeInv, CopyInv, StatusInv, LagInv, DoneInv, ReadyInv, [Next]_vars
    PROVE  ReadyInv'
<1>0. RecTypes /\ TMTypes /\ CacheInv /\ PassInv
  BY TypeInvSplit DEF CopyInv
<1>1. SUFFICES ASSUME pc' = "idle", Calm', ~delayed', tmLag' # "event", tm' # Absent, ~misled',
                      tm'.conds.ready = "Ready"
               PROVE  AllInPlace'
  BY DEF ReadyInv, IsReady
<1>2. ~queue'
  BY <1>1 DEF Calm
<1>3. ASSUME ~Restart, ~Reconcile, NEW s, tm'.spec = s, \A k \in Kinds : InPlaceFor(k, s)
      PROVE  AllInPlace'
  <2>1. CalmStep
    BY <1>1, <1>3, CalmSteps
  <2>2. ASSUME NEW k \in Kinds PROVE InPlaceFor(k, s)'
    <3>1. k = "Deployment" => InPlaceFor("ServiceAccount", s)
      BY <1>3, AccountFirst
    <3> QED
      BY <1>3, <2>1, <3>1, StaysInPlace
  <2> QED
    BY <1>3, <2>2 DEF InPlaceFor, AllInPlace
<1>4. ASSUME ~Restart, ~Reconcile PROVE Calm
  BY <1>1, <1>4, CalmSteps DEF CalmStep
<1>5. ASSUME ~Restart, ~Reconcile, UNCHANGED <<tm, pc, misled>>, ~delayed, tmLag # "event"
      PROVE  AllInPlace'
  <2>1. \A k \in Kinds : InPlaceFor(k, tm.spec)
    BY <1>1, <1>4, <1>5 DEF ReadyInv, IsReady, AllInPlace
  <2> QED
    BY <1>3, <1>5, <2>1
<1>6. ASSUME ~Restart, ~Reconcile, pc \in {"result", "publish"}, err = "nil",
             tm # Absent, tmLag # "event", tm'.spec = tm.spec
      PROVE  AllInPlace'
  <2>1. Done /\ Calm
    BY <1>4, <1>6 DEF DoneInv, AppliedPoints
  <2>2. step = Len(Pipeline) + 1
    BY <1>6 DEF StatusInv
  <2>3. w.spec = tm.spec
    BY <1>0, <1>6, <2>1 DEF CacheInv, PassInv, SameObject, Calm
  <2>4. ASSUME NEW k \in Kinds PROVE InPlaceFor(k, tm.spec)
    <3>1. PICK j \in 1..Len(Pipeline) : Pipeline[j] = k
      BY KindsFacts
    <3>2. j \in 1..(step - 1)
      BY <2>2, KindsFacts
    <3> QED
      BY <2>1, <2>3, <3>1, <3>2 DEF Done
  <2> QED
    BY <1>3, <1>6, <2>4
<1>7. CASE Restart
  BY <1>1, <1>2, <1>7 DEF Restart
<1>8. CASE Reconcile
  <2>1. CASE tmCache = Absent
    BY <1>0, <1>1, <1>8, <2>1 DEF Reconcile, CacheInv, SameObject, tmVars
  <2>2. CASE tmCache # Absent /\ tmCache.deleting /\ ~tmCache.finalizer
    BY <2>2 DEF CopyInv, Finalizers
  <2>3. CASE \E point \in {"unfinalize", "finalize", "validate"} : Goto(point)
    BY <1>1, <2>3 DEF Goto
  <2> QED
    BY <1>8, <2>1, <2>2, <2>3 DEF Reconcile
<1>9. CASE ~Restart /\ ~Reconcile
  <2>1. CASE DeliverTM
    BY <1>1, <1>2, <1>5, <1>9, <2>1 DEF DeliverTM, recVars
  <2>2. CASE (\E k \in Kinds : DeliverObj(k)) \/ (\E i \in Inputs : DeliverInput(i))
    BY <1>1, <1>5, <1>9, <2>2 DEF DeliverObj, DeliverInput, tmVars, recVars
  <2>3. CASE Requeue \/ RetryOnConflict
    BY <1>1, <1>2, <2>3 DEF Requeue, RetryOnConflict, WritePoints
  <2>4. CASE RemoveFinalizer
    <3>1. CASE Succeeds /\ UpdateTM
      <4>1. tm # Absent /\ pc = "unfinalize" /\ w.uid = tm.uid
        BY <1>0, <2>4, <3>1, SucceedsFacts DEF RemoveFinalizer
      <4>2. tm.deleting /\ ~w.finalizer
        BY <4>1 DEF CopyInv, Finalizers
      <4> QED
        BY <1>0, <1>1, <3>1, <4>1, <4>2, UpdateTMFacts
    <3>2. CASE Return(TRUE)
      BY <1>1, <3>2 DEF Return
    <3> QED
      BY <2>4, <3>1, <3>2 DEF RemoveFinalizer
  <2>5. CASE AddFinalizer \/ RereadAfterFinalizer
    BY <1>1, <2>5 DEF AddFinalizer, RereadAfterFinalizer, Goto, Return
  <2>6. CASE Validate \/ StepFails \/ StepUnchanged \/ StepApplies \/ PipelineDone
    BY <1>1, <2>6 DEF Validate, StepFails, StepUnchanged, StepApplies, PipelineDone, FailWith,
                      Goto, Advance
  <2>7. CASE UpdateStatusObservedState
    BY <1>1, <2>7 DEF UpdateStatusObservedState, FailWith, Goto
  <2>8. CASE HandleReconcileResult
    <3>1. /\ pc = "result" /\ ~ConditionsChanged(w.conds, err) /\ UNCHANGED tmVars
          /\ misled' = Misled
      BY <1>1, <2>8 DEF HandleReconcileResult, Return, Goto
    <3>2. tm \in TrustManagers /\ w.conds = tm.conds /\ w.conds = ConditionsFor(err)
      BY <1>0, <1>1, <3>1 DEF Misled, ConditionsChanged, TMTypes, tmVars
    <3>3. err = "nil"
      BY <1>0, <1>1, <3>1, <3>2, ConditionsFacts, TrustManagerFacts DEF RecTypes, tmVars
    <3> QED
      BY <1>1, <1>6, <1>9, <3>1, <3>3 DEF tmVars
  <2>9. CASE UpdateCondition
    <3>1. pc = "publish" /\ Succeeds /\ UpdateStatus
      BY <1>1, <2>9 DEF UpdateCondition, Return, Requeues
    <3>2. tm # Absent /\ tmLag = "none"
      BY <1>0, <3>1, SucceedsFacts
    <3>3. tm'.spec = tm.spec /\ tm'.conds = w.conds
      BY <1>0, <3>1, <3>2, UpdateStatusFacts DEF SameObject
    <3>4. w \in TrustManagers /\ w.conds = ConditionsFor(err)
      BY <1>0, <3>1 DEF StatusInv, TMTypes, InHand
    <3>5. err = "nil"
      BY <1>0, <1>1, <3>3, <3>4, ConditionsFacts, TrustManagerFacts DEF RecTypes
    <3> QED
      BY <1>6, <1>9, <3>1, <3>2, <3>3, <3>5
  <2>10. ASSUME NEW s \in Specs, UserCreates(s) \/ UserEdits(s) PROVE AllInPlace'
    <3>1. PICK new : /\ WriteTM(new)
                     /\ new = tm \/ GenerationChanged(tm, new)
                     /\ UNCHANGED <<pc, misled, delayed>>
      <4>1. CASE UserCreates(s)
        BY <4>1 DEF UserCreates, GenerationChanged, recVars
      <4>2. CASE UserEdits(s)
        <5>1. tm \in TrustManagers
          BY <1>0, <4>2 DEF UserEdits, TMTypes
        <5>2. [tm EXCEPT !.spec = s].spec = s
          BY <5>1 DEF TrustManagers
        <5> QED
          BY <4>2, <5>2 DEF UserEdits, GenerationChanged, recVars
      <4> QED
        BY <2>10, <4>1, <4>2
    <3>2. tm' = new /\ (tmLag' # "event" => tmLag # "event" /\ new = tm)
      BY <1>0, <3>1, WriteTMFacts
    <3> QED
      BY <1>1, <1>5, <1>9, <3>1, <3>2
  <2>11. CASE UserDeletes
    <3>1. PICK new : /\ WriteTM(new)
                     /\ GenerationChanged(tm, new)
                     /\ UNCHANGED <<pc, misled, delayed>>
      <4>1. tm \in TrustManagers /\ ~tm.deleting
        BY <1>0, <2>11 DEF UserDeletes, TMTypes
      <4>2. [tm EXCEPT !.deleting = TRUE].deleting
        BY <4>1 DEF TrustManagers
      <4> QED
        BY <2>11, <4>1, <4>2 DEF UserDeletes, GenerationChanged, recVars
    <3>2. tm' = new /\ (tmLag' # "event" => tmLag # "event" /\ new = tm)
      BY <1>0, <3>1, WriteTMFacts
    <3> QED
      BY <1>1, <1>5, <1>9, <3>1, <3>2
  <2>12. CASE \E k \in Kinds, d \in Drifts : Drift(k, d)
    BY <1>1, <1>5, <1>9, <2>12 DEF Drift, tmVars, recVars
  <2>13. CASE \/ \E b \in Bundles : BundleChanges(b)
              \/ \E p \in Profiles : ProfileChanges(p)
              \/ NamespaceCreated
              \/ \E e \in Outages, scope \in Scopes : APIFails(e, scope)
              \/ APIRecovers
    BY <1>1, <1>5, <1>9, <2>13 DEF BundleChanges, ProfileChanges, NamespaceCreated, APIFails,
                                   APIRecovers, tmVars, recVars
  <2>14. CASE UNCHANGED vars
    BY <1>1, <1>5, <1>9, <2>14 DEF vars, tmVars, recVars
  <2> QED
    BY <1>9, <2>1, <2>2, <2>3, <2>4, <2>5, <2>6, <2>7, <2>8, <2>9, <2>10, <2>11, <2>12, <2>13,
       <2>14
       DEF Next, System, Environment, ReconcileStep
<1> QED
  BY <1>7, <1>8, <1>9

InstallLayer == StatusLayer /\ InstallInv

(* At rest and Ready, with no pass misled by an old status, every object   *)
(* of the operand is that of the live spec and the live inputs.            *)
THEOREM ReadyIsInstalled ==
    ASSUME AbsentIsNoObject
    PROVE  Spec => []ReadyIsTrue
<1>1. Init => InstallLayer
  BY InitTypes, InitCopies, InitStatus, InitInstall DEF InstallLayer, StatusLayer
<1>2. InstallLayer /\ [Next]_vars => InstallLayer'
  BY TypeInvStep, CopyInvStep, StatusInvStep, RestInvStep, LagInvStep, StartInvStep,
     DoneInvStep, ReadyInvStep DEF InstallLayer, StatusLayer, InstallInv
<1>3. InstallLayer => ReadyIsTrue
  <2>1. SUFFICES ASSUME InstallLayer, Quiescent, tm # Absent, IsReady, ~misled PROVE Installed
    BY DEF ReadyIsTrue
  <2>2. Calm /\ tmLag # "event" /\ ~delayed /\ pc = "idle"
    BY <2>1 DEF Quiescent, Synced, Calm, Inputs
  <2>3. \A k \in Kinds : InPlaceFor(k, tm.spec)
    BY <2>1, <2>2 DEF InstallLayer, InstallInv, ReadyInv, AllInPlace
  <2> QED
    BY <2>3 DEF Installed, InPlace, InPlaceFor, Holds
<1> QED
  BY <1>1, <1>2, <1>3, PTL DEF Spec

-----------------------------------------------------------------------------
(***************************************************************************)
(* The controller keeps the promises of Operand.                           *)
(***************************************************************************)

(* The pass applies for a validated spec and a readable bundle only.       *)
Readable(b) == b # Unset /\ b # Absent /\ b.ca # Empty

AcceptInv ==
    /\ pc = "apply" => ValidateTrustManagerConfig(w.spec)
    /\ pc = "apply" /\ step > 1 /\ DefaultCAPackageEnabled(w.spec) => Readable(bundleRead)

LEMMA PackageFirst ==
    ASSUME "DefaultCAPackage" \in Kinds, NEW i \in 1..Len(Pipeline)
    PROVE  Pipeline[i] = "DefaultCAPackage" <=> i = 1
<1>1. /\ Len(Pipeline) \in Nat /\ DOMAIN Pipeline = 1..Len(Pipeline)
      /\ 1 \in DOMAIN Pipeline
  BY KindsFacts
<1>2. PICK j \in 1..Len(Pipeline) : Pipeline[j] = "DefaultCAPackage"
  BY KindsFacts
<1>3. \A x \in DOMAIN FullPipeline : FullPipeline[x] = "DefaultCAPackage" => x = 1
  BY DEF FullPipeline
<1>4. DOMAIN FullPipeline = 1..15
  BY DEF FullPipeline
<1>5. j = 1
  <2>1. SUFFICES ASSUME 1 < j PROVE FALSE
    BY <1>1
  <2>2. PICK a \in DOMAIN FullPipeline, b \in DOMAIN FullPipeline :
            a < b /\ Pipeline[1] = FullPipeline[a] /\ Pipeline[j] = FullPipeline[b]
    <3>1. 1 \in DOMAIN Pipeline /\ j \in DOMAIN Pipeline
      BY <1>1
    <3> QED
      BY <2>1, <3>1, PipelineAssumption, Zenon
  <2>3. b = 1
    BY <1>2, <1>3, <2>2
  <2> QED
    BY <1>4, <2>2, <2>3
<1> QED
  BY <1>1, <1>2, <1>5, Order

LEMMA AcceptInvStep == TypeInv /\ StartInv /\ AcceptInv /\ [Next]_vars => AcceptInv'
<1> SUFFICES ASSUME TypeInv, StartInv, AcceptInv, [Next]_vars PROVE AcceptInv'
  OBVIOUS
<1>0. RecTypes /\ TMTypes /\ InTypes
  BY TypeInvSplit
<1>1. ASSUME UNCHANGED <<pc, w, step, bundleRead>> PROVE AcceptInv'
  BY <1>1 DEF AcceptInv
<1>2. ASSUME pc' # "apply" PROVE AcceptInv'
  BY <1>2 DEF AcceptInv
<1>3. CASE DeliverTM \/ (\E k \in Kinds : DeliverObj(k)) \/ (\E i \in Inputs : DeliverInput(i))
           \/ Requeue \/ RetryOnConflict
  BY <1>1, <1>3 DEF DeliverTM, DeliverObj, DeliverInput, Requeue, RetryOnConflict, recVars
<1>4. CASE Reconcile \/ RemoveFinalizer \/ AddFinalizer \/ RereadAfterFinalizer
  BY <1>2, <1>4 DEF Reconcile, RemoveFinalizer, AddFinalizer, RereadAfterFinalizer, Return, Goto
<1>5. CASE Validate
  <2>1. CASE FailWith("Irrecoverable")
    BY <1>2, <2>1 DEF FailWith, Goto
  <2>2. CASE ValidateTrustManagerConfig(w.spec) /\ UNCHANGED <<w, step>>
    BY <1>5, <2>2 DEF Validate, AcceptInv, StartInv, AppliedPoints
  <2> QED
    BY <1>5, <2>1, <2>2 DEF Validate
<1>6. CASE StepFails \/ PipelineDone
  BY <1>2, <1>6 DEF StepFails, PipelineDone, FailWith, Goto
<1>7. CASE StepUnchanged \/ StepApplies
  <2>1. CASE FailWith(FromClientError(api[Kind]))
    BY <1>2, <2>1 DEF FailWith, Goto
  <2>2. CASE Advance
    <3>1. /\ pc = "apply" /\ w' = w /\ step \in 1..Len(Pipeline)
          /\ bundleRead' = IF Kind = "DefaultCAPackage" /\ ~Skipped(Kind, w.spec)
                           THEN inCache["bundle"] ELSE bundleRead
      BY <1>0, <1>7, <2>2, StepKind DEF Advance, StepUnchanged, StepApplies, Applying
    <3>2. SUFFICES ASSUME DefaultCAPackageEnabled(w.spec) PROVE Readable(bundleRead')
      BY <3>1 DEF AcceptInv
    <3>3. "DefaultCAPackage" \in Kinds
      <4>1. w \in TrustManagers
        BY <1>0, <3>1 DEF TMTypes, InHand
      <4> QED
        BY <3>2, <4>1, TrustManagerFacts, PipelineAssumption
    <3>4. CASE step = 1
      <4>1. Kind = "DefaultCAPackage" /\ ~Skipped(Kind, w.spec)
        BY <3>1, <3>2, <3>3, <3>4, PackageFirst DEF Kind, Skipped
      <4>2. ReadTrustedCABundle(ReadInputs) = "nil" /\ ReadInputs.bundle = inCache["bundle"]
        BY <1>7, <4>1 DEF StepUnchanged, StepApplies, StepError, BuildError, ReadInputs
      <4>3. inCache["bundle"] # Unset
        BY <1>0, EnvironmentAssumption DEF InTypes
      <4> QED
        BY <3>1, <4>1, <4>2, <4>3 DEF Readable, ReadTrustedCABundle, FromClientError
    <3>5. CASE step # 1
      <4>1. Kind # "DefaultCAPackage" /\ step > 1
        BY <3>1, <3>3, <3>5, PackageFirst, KindsFacts DEF Kind
      <4> QED
        BY <3>1, <3>2, <4>1 DEF AcceptInv
    <3> QED
      BY <3>4, <3>5
  <2> QED
    BY <1>7, <2>1, <2>2 DEF StepUnchanged, StepApplies
<1>8. CASE UpdateStatusObservedState \/ HandleReconcileResult \/ UpdateCondition
  BY <1>2, <1>8 DEF UpdateStatusObservedState, HandleReconcileResult, UpdateCondition,
                    FailWith, Goto, Return
<1>9. CASE \/ \E s \in Specs : UserCreates(s) \/ UserEdits(s)
           \/ UserDeletes
           \/ \E k \in Kinds, d \in Drifts : Drift(k, d)
           \/ \E b \in Bundles : BundleChanges(b)
           \/ \E p \in Profiles : ProfileChanges(p)
           \/ NamespaceCreated
           \/ \E e \in Outages, scope \in Scopes : APIFails(e, scope)
           \/ APIRecovers
  BY <1>1, <1>9 DEF UserCreates, UserEdits, UserDeletes, Drift, BundleChanges, ProfileChanges,
                    NamespaceCreated, APIFails, APIRecovers, recVars
<1>10. CASE Restart
  BY <1>2, <1>10 DEF Restart
<1>11. CASE UNCHANGED vars
  BY <1>1, <1>11 DEF vars, recVars
<1> QED
  BY <1>3, <1>4, <1>5, <1>6, <1>7, <1>8, <1>9, <1>10, <1>11
     DEF Next, System, Environment, ReconcileStep

(* What a step of the pipeline writes is the content of an accepted spec.  *)
LEMMA WritesAccepted ==
    ASSUME TypeInv, AcceptInv, StepApplies
    PROVE  <<Kind, Stored(Desired(Kind, w.spec, ReadInputs))>> \in AcceptedContents
<1>1. /\ Applying /\ Kind \in Kinds /\ Kind \in AllKinds /\ step \in 1..Len(Pipeline)
      /\ ~Skipped(Kind, w.spec) /\ StepError = "nil"
  BY StepKind, TypeInvSplit, KindsFacts DEF StepApplies
<1>2. w.spec \in Specs /\ ValidateTrustManagerConfig(w.spec)
  <2>1. w \in TrustManagers
    BY <1>1, TypeInvSplit DEF Applying, TMTypes, InHand
  <2> QED
    BY <1>1, <2>1, TrustManagerFacts DEF AcceptInv, Applying
<1> DEFINE r == ReadInputs
           i == [bundle |-> r.bundle, tls |-> r.tls, image |-> r.image,
                 sauid |-> IF Kind = "Deployment" THEN r.sauid ELSE 0]
<1>3. /\ r.bundle = IF Kind = "DefaultCAPackage" THEN inCache["bundle"] ELSE bundleRead
      /\ r.tls = inCache["tls"] /\ r.image = image /\ r.sauid = CachedAccount
  BY DEF ReadInputs
<1> HIDE DEF r
<1>4. /\ i.bundle = r.bundle /\ i.tls = r.tls /\ i.image = r.image
      /\ i.sauid = IF Kind = "Deployment" THEN r.sauid ELSE 0
  OBVIOUS
<1>5. i \in AllInputs
  <2>1. r.bundle \in Bundles \cup {Unset} /\ r.tls \in Profiles /\ r.image \in Images
    BY <1>3, TypeInvSplit DEF InTypes, RecTypes
  <2>2. Kind = "Deployment" => r.sauid \in 0..(MaxFaults + 1)
    <3>1. SUFFICES ASSUME Kind = "Deployment" PROVE CachedAccount \in 0..(MaxFaults + 1)
      BY <1>3
    <3>2. CachedAccount # Absent
      BY <1>1, <1>3, <3>1 DEF StepError, BuildError, DeploymentError, FromClientError, r
    <3>3. "ServiceAccount" \in Kinds /\ objCache["ServiceAccount"] # Absent
          /\ CachedAccount = objCache["ServiceAccount"].uid
      BY <3>2 DEF CachedAccount
    <3> QED
      BY <3>3, TypeInvSplit DEF ObjTypes, WellFormed
  <2>3. 0 \in 0..(MaxFaults + 1)
    BY BoundsAssumption
  <2> QED
    BY <2>1, <2>2, <2>3 DEF AllInputs
<1> HIDE DEF i
<1>6. Desired(Kind, w.spec, r) = Desired(Kind, w.spec, i)
      /\ BuildError(Kind, w.spec, r) = BuildError(Kind, w.spec, i)
  BY <1>1, <1>4, SameInputs
<1>7. ASSUME DefaultCAPackageEnabled(w.spec)
      PROVE  i.bundle # Unset /\ ReadTrustedCABundle(i) = "nil"
  <2>1. "DefaultCAPackage" \in Kinds
    BY <1>2, <1>7, PipelineAssumption
  <2>2. CASE Kind = "DefaultCAPackage"
    <3>1. ReadTrustedCABundle(r) = "nil"
      BY <1>1, <2>2 DEF StepError, BuildError, r
    <3>2. r.bundle # Unset
      BY <1>3, <2>2, TypeInvSplit, EnvironmentAssumption DEF InTypes
    <3> QED
      BY <1>4, <3>1, <3>2 DEF ReadTrustedCABundle
  <2>3. CASE Kind # "DefaultCAPackage"
    <3>1. step > 1
      BY <1>1, <2>1, <2>3, PackageFirst, KindsFacts DEF Kind
    <3>2. Readable(bundleRead)
      BY <1>1, <1>7, <3>1 DEF AcceptInv, Applying
    <3> QED
      BY <1>3, <1>4, <2>3, <3>2 DEF Readable, ReadTrustedCABundle
  <2> QED
    BY <2>2, <2>3
<1>8. Buildable(Kind, w.spec, i)
  BY <1>1, <1>2, <1>6, <1>7 DEF Buildable, StepError, r
<1>9. <<Kind, Stored(Desired(Kind, w.spec, i))>> \in AcceptedContents
  <2> DEFINE si == <<w.spec, i>>
  <2>1. si \in Specs \X AllInputs /\ si[1] = w.spec /\ si[2] = i
    BY <1>2, <1>5
  <2> HIDE DEF si
  <2> QED
    BY <1>1, <1>8, <2>1 DEF AcceptedContents
<1> QED
  BY <1>6, <1>9 DEF r

LEMMA SamePhase ==
    ASSUME tm # Absent, tm' # Absent, tm'.finalizer = tm.finalizer, tm'.deleting = tm.deleting
    PROVE  AbstractPhase' = AbstractPhase
BY DEF AbstractPhase

LEMMA SameContent == UNCHANGED obj => OwnedContent' = OwnedContent
BY DEF OwnedContent

(* Who changes the TrustManager object, and how.                           *)
LEMMA PhaseSteps ==
    ASSUME TypeInv, CopyInv, [Next]_vars
    PROVE  \/ AbstractPhase' = AbstractPhase
           \/ UNCHANGED obj /\ (\/ TheOperand!Offer \/ TheOperand!Adopt
                                \/ TheOperand!Withdraw \/ TheOperand!Release)
<1>0. TMTypes /\ RecTypes
  BY TypeInvSplit
<1> DEFINE Step == \/ TheOperand!Offer \/ TheOperand!Adopt
                   \/ TheOperand!Withdraw \/ TheOperand!Release
<1>1. ASSUME UNCHANGED tm PROVE AbstractPhase' = AbstractPhase
  BY <1>1 DEF AbstractPhase
<1>2. ASSUME pc # "idle", Succeeds, UpdateStatus PROVE AbstractPhase' = AbstractPhase
  <2>1. tm # Absent /\ tm' # Absent /\ SameObject(tm, tm') /\ tm'.finalizer = tm.finalizer
    BY <1>0, <1>2, SucceedsFacts, UpdateStatusFacts
  <2> QED
    BY <2>1, SamePhase DEF SameObject
<1>3. CASE DeliverTM \/ (\E k \in Kinds : DeliverObj(k)) \/ (\E i \in Inputs : DeliverInput(i))
           \/ Requeue \/ RetryOnConflict
  BY <1>1, <1>3 DEF DeliverTM, DeliverObj, DeliverInput, Requeue, RetryOnConflict, tmVars
<1>4. CASE Reconcile \/ RereadAfterFinalizer \/ Validate \/ StepFails \/ StepUnchanged
           \/ StepApplies \/ PipelineDone \/ HandleReconcileResult
  BY <1>1, <1>4 DEF Reconcile, RereadAfterFinalizer, Validate, StepFails, StepUnchanged,
                    StepApplies, PipelineDone, HandleReconcileResult, tmVars
<1>5. CASE UpdateStatusObservedState \/ UpdateCondition
  BY <1>1, <1>2, <1>5 DEF UpdateStatusObservedState, UpdateCondition, tmVars
<1>6. CASE RemoveFinalizer
  <2>1. CASE Succeeds /\ UpdateTM
    <3>1. tm # Absent /\ pc = "unfinalize" /\ w.uid = tm.uid
      BY <1>0, <1>6, <2>1, SucceedsFacts DEF RemoveFinalizer
    <3>2. tm.deleting /\ tm.finalizer /\ ~w.finalizer
      BY <3>1 DEF CopyInv, Finalizers
    <3>3. tm' = Absent
      BY <1>0, <2>1, <3>1, <3>2, UpdateTMFacts
    <3>4. AbstractPhase = "leaving" /\ AbstractPhase' = "none"
      BY <3>1, <3>2, <3>3 DEF AbstractPhase
    <3>5. UNCHANGED obj
      BY <1>6 DEF RemoveFinalizer, objVars
    <3> QED
      BY <3>4, <3>5, SameContent DEF TheOperand!Release
  <2>2. CASE UNCHANGED tmVars
    BY <1>1, <2>2 DEF tmVars
  <2> QED
    BY <1>6, <2>1, <2>2 DEF RemoveFinalizer
<1>7. CASE AddFinalizer
  <2>1. CASE Succeeds /\ UpdateTM
    <3>1. tm # Absent /\ pc = "finalize" /\ w.finalizer
      BY <1>0, <1>7, <2>1, SucceedsFacts DEF AddFinalizer, CopyInv, Finalizers
    <3>2. tm' # Absent /\ tm'.finalizer /\ tm'.deleting = tm.deleting
      <4>1. tm \in TrustManagers /\ w \in TrustManagers
        BY <1>0, <3>1 DEF TMTypes, InHand
      <4>2. /\ Replaced.finalizer = w.finalizer /\ Replaced.deleting = tm.deleting
            /\ Replaced # Absent
        <5>1. Replaced \in TrustManagers
          BY <4>1, TrustManagerFacts DEF Replaced
        <5>2. Replaced.finalizer = w.finalizer /\ Replaced.deleting = tm.deleting
          BY <4>1 DEF Replaced, TrustManagers
        <5> QED
          BY <5>1, <5>2, TrustManagerFacts
      <4> QED
        BY <2>1, <3>1, <4>2 DEF UpdateTM, WriteTM
    <3>3. UNCHANGED obj
      BY <1>7 DEF AddFinalizer, objVars
    <3>4. CASE tm.finalizer
      <4>1. tm.finalizer \in BOOLEAN /\ tm'.finalizer \in BOOLEAN
        <5>1. tm \in TrustManagers /\ tm' \in TrustManagers
          BY <1>0, <3>1, <3>2, TMTypesStep DEF TMTypes
        <5> QED
          BY <5>1, TrustManagerFacts
      <4> QED
        BY <3>1, <3>2, <3>4, <4>1, SamePhase
    <3>5. CASE ~tm.finalizer
      <4>1. ~tm.deleting
        BY <3>1, <3>5 DEF CopyInv, Finalizers
      <4>2. AbstractPhase = "offered" /\ AbstractPhase' = "adopted"
        BY <3>1, <3>2, <3>5, <4>1 DEF AbstractPhase
      <4> QED
        BY <3>3, <4>2, SameContent DEF TheOperand!Adopt
    <3> QED
      BY <3>4, <3>5
  <2>2. CASE UNCHANGED tmVars
    BY <1>1, <2>2 DEF tmVars
  <2> QED
    BY <1>7, <2>1, <2>2 DEF AddFinalizer
<1>8. ASSUME NEW s \in Specs, UserCreates(s) PROVE UNCHANGED obj /\ Step
  <2>1. tm = Absent /\ UNCHANGED obj /\ created \in 0..MaxInstances /\ created < MaxInstances
    BY <1>0, <1>8 DEF UserCreates, objVars, TMTypes
  <2> DEFINE new == [uid |-> created + 1, spec |-> s, deleting |-> FALSE, finalizer |-> FALSE,
                     conds |-> NoConditions, observed |-> Unset]
  <2>2. tm' = new
    BY <1>8 DEF UserCreates, WriteTM
  <2>3. new \in TrustManagers
    BY <2>1, ConditionsFacts, BoundsAssumption DEF TrustManagers
  <2>4. tm' # Absent /\ ~tm'.finalizer
    BY <2>2, <2>3, TrustManagerFacts
  <2>5. AbstractPhase = "none" /\ AbstractPhase' = "offered"
    BY <2>1, <2>4 DEF AbstractPhase
  <2> QED
    BY <2>1, <2>5, SameContent DEF TheOperand!Offer
<1>9. ASSUME NEW s \in Specs, UserEdits(s) PROVE AbstractPhase' = AbstractPhase
  <2>1. tm # Absent /\ tm \in TrustManagers /\ tm' = [tm EXCEPT !.spec = s]
    BY <1>0, <1>9 DEF UserEdits, WriteTM, TMTypes
  <2>2. tm' \in TrustManagers /\ tm'.finalizer = tm.finalizer /\ tm'.deleting = tm.deleting
    BY <2>1 DEF TrustManagers
  <2>3. tm' # Absent
    BY <2>2, TrustManagerFacts
  <2> QED
    BY <2>1, <2>2, <2>3, SamePhase
<1>10. CASE UserDeletes
  <2>1. tm # Absent /\ tm \in TrustManagers /\ ~tm.deleting /\ UNCHANGED obj
    BY <1>0, <1>10 DEF UserDeletes, TMTypes, objVars
  <2>2. CASE tm.finalizer
    <3>1. tm' = [tm EXCEPT !.deleting = TRUE]
      BY <1>10, <2>2 DEF UserDeletes, WriteTM
    <3>2. tm' \in TrustManagers /\ tm'.finalizer /\ tm'.deleting
      BY <2>1, <2>2, <3>1 DEF TrustManagers
    <3>3. tm' # Absent
      BY <3>2, TrustManagerFacts
    <3>4. AbstractPhase = "adopted" /\ AbstractPhase' = "leaving"
      BY <2>1, <2>2, <3>2, <3>3 DEF AbstractPhase
    <3> QED
      BY <2>1, <3>4, SameContent DEF TheOperand!Withdraw
  <2>3. CASE ~tm.finalizer
    <3>1. AbstractPhase = "offered" /\ AbstractPhase' = "none"
      BY <1>10, <2>1, <2>3 DEF UserDeletes, WriteTM, AbstractPhase
    <3> QED
      BY <2>1, <3>1, SameContent DEF TheOperand!Withdraw
  <2> QED
    BY <2>2, <2>3
<1>11. CASE \/ \E k \in Kinds, d \in Drifts : Drift(k, d)
            \/ \E b \in Bundles : BundleChanges(b)
            \/ \E p \in Profiles : ProfileChanges(p)
            \/ NamespaceCreated
            \/ \E e \in Outages, scope \in Scopes : APIFails(e, scope)
            \/ APIRecovers
            \/ Restart
  BY <1>1, <1>11 DEF Drift, BundleChanges, ProfileChanges, NamespaceCreated, APIFails,
                     APIRecovers, Restart, tmVars
<1>12. CASE UNCHANGED vars
  BY <1>1, <1>12 DEF vars, tmVars
<1> QED
  BY <1>3, <1>4, <1>5, <1>6, <1>7, <1>8, <1>9, <1>10, <1>11, <1>12
     DEF Next, System, Environment, ReconcileStep

(* The content of one object changes.                                      *)
LEMMA ContentFacts ==
    ASSUME TypeInv, NEW k \in Kinds, NEW new, WriteObj(k, new)
    PROVE  /\ OwnedContent[k] = IF obj[k] = Absent THEN Absent
                                ELSE [f \in obj[k].owned |-> obj[k].fields[f]]
           /\ OwnedContent' = [OwnedContent EXCEPT ![k] =
                 IF new = Absent THEN Absent ELSE [f \in new.owned |-> new.fields[f]]]
<1>1. obj'[k] = new /\ \A j \in Kinds \ {k} : obj'[j] = obj[j]
  BY TypeInvSplit, WriteObjFacts
<1>2. OwnedContent' = [j \in Kinds |-> IF obj'[j] = Absent THEN Absent
                                       ELSE [f \in obj'[j].owned |-> obj'[j].fields[f]]]
  BY DEF OwnedContent
<1> QED
  BY <1>1, <1>2 DEF OwnedContent

LEMMA DriftLoses ==
    ASSUME TypeInv, NEW k \in Kinds, NEW d \in Drifts, Drift(k, d)
    PROVE  OwnedContent' = OwnedContent \/ TheOperand!Lose(k)
<1>0. ObjTypes /\ AbsentIsNoObject
  BY TypeInvSplit DEF ObjTypes
<1>1. /\ WriteObj(k, Drifted(k, d)) /\ obj[k] # Absent
      /\ d = "edit" => <<"spec", EditedKey(k)>> \in DOMAIN obj[k].fields
      /\ UNCHANGED tm
  BY DEF Drift, tmVars
<1> DEFINE new == Drifted(k, d)
           old == [f \in obj[k].owned |-> obj[k].fields[f]]
<1>2. /\ OwnedContent[k] = old
      /\ OwnedContent' = [OwnedContent EXCEPT ![k] =
             IF new = Absent THEN Absent ELSE [f \in new.owned |-> new.fields[f]]]
  BY <1>1, ContentFacts
<1>3. old # Absent
  <2>1. old = [x \in DOMAIN old |-> old[x]]
    OBVIOUS
  <2> HIDE DEF old
  <2> QED
    BY <1>0, <2>1 DEF AbsentIsNoObject
<1>4. AbstractPhase' = AbstractPhase
  BY <1>1 DEF AbstractPhase
<1>5. CASE new = Absent
  BY <1>2, <1>3, <1>4, <1>5 DEF TheOperand!Lose
<1>6. CASE new # Absent
  <2>1. d # "delete"
    BY <1>0, <1>1, <1>6, DriftedFacts
  <2>2. /\ LosesOne(new.owned, obj[k].owned)
        /\ \A f \in new.owned : new.fields[f] = obj[k].fields[f]
    BY <1>0, <1>1, <2>1, DriftedFacts
  <2>3. PICK f : new.owned = obj[k].owned \ {f}
    BY <2>2 DEF LosesOne
  <2>4. [g \in new.owned |-> new.fields[g]] = [g \in DOMAIN old \ {f} |-> old[g]]
    BY <2>2, <2>3
  <2>5. CASE f \in obj[k].owned
    <3> DEFINE c == OwnedContent[k]
    <3>1. c = old
      BY <1>2
    <3>2. DOMAIN c \ {f} \in {DOMAIN c \ {g} : g \in DOMAIN c}
      BY <2>5, <3>1
    <3>3. [g \in DOMAIN old \ {f} |-> old[g]] = [g \in DOMAIN c \ {f} |-> c[g]]
      BY <3>1
    <3>4. OwnedContent' = [OwnedContent EXCEPT ![k] = [g \in DOMAIN c \ {f} |-> c[g]]]
      BY <1>2, <1>6, <2>4, <3>3
    <3>5. c # Absent
      BY <1>3, <3>1
    <3> HIDE DEF c, old, new
    <3>6. \E F \in {DOMAIN c \ {g} : g \in DOMAIN c} :
              OwnedContent' = [OwnedContent EXCEPT ![k] = [g \in F |-> c[g]]]
      BY <3>2, <3>4
    <3> QED
      BY <1>4, <3>5, <3>6 DEF TheOperand!Lose, c
  <2>6. CASE f \notin obj[k].owned
    <3>1. [g \in DOMAIN old \ {f} |-> old[g]] = old
      BY <2>6
    <3>2. OwnedContent' = [OwnedContent EXCEPT ![k] = OwnedContent[k]]
      BY <1>2, <1>6, <2>4, <3>1
    <3>3. [OwnedContent EXCEPT ![k] = OwnedContent[k]] = OwnedContent
      BY DEF OwnedContent
    <3> QED
      BY <3>2, <3>3
  <2> QED
    BY <2>5, <2>6
<1> QED
  BY <1>5, <1>6

LEMMA StepInstalls ==
    ASSUME TypeInv, CopyInv, AcceptInv, StepApplies, WriteObj(Kind, AppliedObject)
    PROVE  TheOperand!Install(Kind)
<1>0. Applying /\ Kind \in Kinds /\ Kind \in AllKinds
  BY StepKind, TypeInvSplit, KindsFacts DEF StepApplies
<1>1. AbstractPhase \in {"adopted", "leaving"} /\ AbstractPhase' = AbstractPhase
  <2>1. tm # Absent /\ tm.finalizer
    BY <1>0 DEF CopyInv, Adopted, Beyond, Applying
  <2> QED
    BY <2>1 DEF AbstractPhase, StepApplies, tmVars
<1> DEFINE d == Desired(Kind, w.spec, ReadInputs)
           new == AppliedObject
<1>2. /\ new # Absent /\ new.owned = DOMAIN d
      /\ \A f \in new.owned : new.fields[f] = Stored(d)[f]
  BY <1>0, AppliedFacts DEF AppliedObject
<1>3. OwnedContent' = [OwnedContent EXCEPT ![Kind] = [f \in new.owned |-> new.fields[f]]]
  BY <1>0, <1>2, ContentFacts
<1>4. Stored(d) = [f \in DOMAIN d |-> Stored(d)[f]]
  BY <1>0, DesiredIsMap
<1>5. <<Kind, Stored(d)>> \in AcceptedContents
  BY WritesAccepted
<1> HIDE DEF d, new
<1>6. OwnedContent' = [OwnedContent EXCEPT ![Kind] = Stored(d)]
  BY <1>2, <1>3, <1>4
<1> DEFINE a == <<Kind, Stored(d)>>
<1>7. a \in AcceptedContents /\ a[1] = Kind /\ OwnedContent' = [OwnedContent EXCEPT ![Kind] = a[2]]
  BY <1>5, <1>6
<1> HIDE DEF a
<1> QED
  BY <1>1, <1>7 DEF TheOperand!Install

LEMMA StepRefines ==
    ASSUME TypeInv, CopyInv, AcceptInv, [Next]_vars
    PROVE  [TheOperand!Next]_(TheOperand!vars)
<1>1. CASE UNCHANGED obj
  BY <1>1, PhaseSteps, SameContent DEF TheOperand!Next, TheOperand!vars
<1>2. ASSUME NEW k \in Kinds, NEW d \in Drifts, Drift(k, d)
      PROVE  [TheOperand!Next]_(TheOperand!vars)
  <2>1. AbstractPhase' = AbstractPhase
    BY <1>2 DEF Drift, tmVars, AbstractPhase
  <2> QED
    BY <1>2, <2>1, DriftLoses DEF TheOperand!Next, TheOperand!vars
<1>3. CASE StepApplies /\ WriteObj(Kind, AppliedObject)
  <2>1. Kind \in Kinds
    BY <1>3, StepKind, TypeInvSplit DEF StepApplies
  <2> QED
    BY <1>3, <2>1, StepInstalls DEF TheOperand!Next
<1> QED
  BY <1>1, <1>2, <1>3, ObjectSteps

(* The safety part of ImplementsOperand.                                   *)
OperandSafety == TheOperand!Init /\ [][TheOperand!Next]_(TheOperand!vars)

(* Seen without caches, retries and restarts, the controller does what     *)
(* Operand allows: it writes only while its finalizer holds the object,    *)
(* only the complete contents that validated specs and readable inputs ask *)
(* for, and it lets go of the object only when it is being deleted.        *)
THEOREM RefinesOperand ==
    ASSUME AbsentIsNoObject
    PROVE  Spec => OperandSafety
<1> DEFINE Inv == TypeInv /\ CopyInv /\ StartInv /\ AcceptInv
<1>1. Init => Inv
  BY InitTypes, InitCopies, InitInstall DEF InstallInv, AcceptInv, Init
<1>2. Inv /\ [Next]_vars => Inv'
  BY TypeInvStep, CopyInvStep, StartInvStep, AcceptInvStep
<1>3. Init => TheOperand!Init
  BY DEF Init, TheOperand!Init, AbstractPhase, OwnedContent
<1>4. Inv /\ [Next]_vars => [TheOperand!Next]_(TheOperand!vars)
  BY StepRefines
<1> QED
  BY <1>1, <1>2, <1>3, <1>4, PTL DEF Spec, OperandSafety

=============================================================================
