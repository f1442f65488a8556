--------------------------- MODULE IstioCSR_proofs ---------------------------
(***************************************************************************)
(* Proofs about the IstioCSR controller, for every pipeline, every set of  *)
(* specs and drifts and every bound.                                       *)
(***************************************************************************)
EXTENDS IstioCSR, TLAPS

-----------------------------------------------------------------------------
(***************************************************************************)
(* Updates of an IstioCSR object and of a managed object.                  *)
(***************************************************************************)

(* The error-to-condition table yields conditions.                         *)
LEMMA ConditionsForType ==
    ASSUME NEW e \in ReconcileErrors
    PROVE  /\ ConditionsFor(e) \in Conditions
           /\ ~(ConditionsFor(e).ready = "Ready" /\ ConditionsFor(e).degraded = "Failed")
BY DEF ConditionsFor, Conditions, ReconcileErrors, IsIrrecoverableError,
       ReadyReasons, DegradedReasons

(* Every client error becomes an error of the reconciler.                  *)
LEMMA FromClientErrorType ==
    ASSUME NEW e
    PROVE  FromClientError(e) \in ReconcileErrors
BY DEF FromClientError, ReconcileErrors

(* What UpdateWithRetry and the user do to an IstioCSR object.             *)
LEMMA MetaUpdate ==
    ASSUME NEW c \in CRs, NEW s \in Specs, NEW f \in BOOLEAN, NEW p \in BOOLEAN
    PROVE  LET new == [c EXCEPT !.spec = s, !.finalizer = f, !.processed = p]
           IN  /\ new \in CRs
               /\ new.spec = s /\ new.finalizer = f /\ new.processed = p
               /\ new.uid = c.uid /\ new.deleting = c.deleting /\ new.status = c.status
BY DEF CRs

(* Reconcile records a name in the status of its working copy.             *)
LEMMA RecordedUpdate ==
    ASSUME NEW c \in CRs, NEW k \in Kinds
    PROVE  LET new == [c EXCEPT !.status.recorded = @ \cup {k}]
           IN  /\ new \in CRs
               /\ new.spec = c.spec
               /\ new.status.conds = c.status.conds
BY DEF CRs, Statuses

(* ... and the conditions.                                                 *)
LEMMA CondsUpdate ==
    ASSUME NEW c \in CRs, NEW cd \in Conditions
    PROVE  LET new == [c EXCEPT !.status.conds = cd]
           IN  /\ new \in CRs
               /\ new.spec = c.spec
               /\ new.status.conds = cd
BY DEF CRs, Statuses

(* The object a step builds is an object.                                  *)
LEMMA DesiredType ==
    ASSUME w \in CRs
    PROVE  Desired \in Objects /\ Desired.content = w.spec
BY DEF Desired, Objects, CRs

-----------------------------------------------------------------------------
(***************************************************************************)
(* Type correctness.  The types alone are not inductive: a step may use    *)
(* the working copy and the current kind only because Reconcile is at a    *)
(* point where there is one.                                               *)
(***************************************************************************)
TypeInv ==
    /\ TypeOK
    /\ pc # "idle" => w # Absent
    /\ pc \in {"update", "record"} => step <= Len(Pipeline)

(* The current kind exists as long as the pipeline is not finished.        *)
LEMMA KindType ==
    ASSUME TypeInv, step <= Len(Pipeline)
    PROVE  Kind \in Kinds
BY PipelineAssumption DEF Kind, TypeInv, TypeOK

(* A successful write has an object to write to, the one in the cache.     *)
LEMMA SucceedsFacts ==
    ASSUME TypeInv, Succeeds
    PROVE  /\ pc = "update" => objCache[Kind] # Absent /\ obj[Kind] # Absent
                               /\ objLag[Kind] = "none"
           /\ pc # "update" => cr # Absent /\ crCache # Absent /\ crLag = "none"
<1>1. \A t \in Targets : api[t] # "none"
  BY EnvironmentAssumption DEF TypeInv, TypeOK, ClientErrors
<1>2. api["istiocsr"] # "none"
  BY <1>1 DEF Targets
<1>3. CASE pc = "update"
  <2>1. Kind \in Targets
    BY <1>3, KindType DEF TypeInv, Targets
  <2>2. ObjWriteError(Kind) = "none"
    BY <1>3 DEF Succeeds, WriteError
  <2> QED
    BY <1>1, <1>3, <2>1, <2>2 DEF ObjWriteError
<1>4. CASE pc # "update"
  <2>1. PICK u : CRWriteError(u) = "none"
    BY <1>4 DEF Succeeds, WriteError
  <2> QED
    BY <1>2, <1>4, <2>1 DEF CRWriteError
<1> QED
  BY <1>3, <1>4

(* A write of the IstioCSR object keeps the types of its variables.        *)
LEMMA WriteCRType ==
    ASSUME TypeInv, NEW new \in CRs \cup {Absent}, WriteCR(new)
    PROVE  /\ cr' \in CRs \cup {Absent}
           /\ crCache' \in CRs \cup {Absent}
           /\ crLag' \in Lags
BY DEF WriteCR, Behind, Lags, TypeInv, TypeOK

(* A write of a managed object keeps the types of its variables.           *)
LEMMA WriteObjType ==
    ASSUME TypeInv, NEW k \in Kinds, NEW new \in Objects \cup {Absent},
           WriteObj(k, new)
    PROVE  /\ obj' \in [Kinds -> Objects \cup {Absent}]
           /\ objCache' \in [Kinds -> Objects \cup {Absent}]
           /\ objLag' \in [Kinds -> Lags]
<1> DEFINE old == Filtered(obj[k])
           now == Filtered(new)
           lag == IF now = old THEN objLag[k]
                  ELSE Behind(objLag[k], PassesPredicates(k, old, now))
<1>1. lag \in Lags
  BY DEF Behind, Lags, TypeInv, TypeOK
<1>2. objLag' = [objLag EXCEPT ![k] = lag]
  BY DEF WriteObj
<1> QED
  BY <1>1, <1>2 DEF WriteObj, TypeInv, TypeOK

(* The cache filter yields an object or none.                              *)
LEMMA FilteredType ==
    ASSUME NEW o \in Objects \cup {Absent}
    PROVE  Filtered(o) \in Objects \cup {Absent}
BY DEF Filtered

(* UpdateWithRetry and updateStatus of the working copy.                   *)
LEMMA UpdateCRType ==
    ASSUME TypeInv, cr # Absent, w # Absent, UpdateCR
    PROVE  /\ Replaced \in CRs
           /\ cr' \in CRs \cup {Absent}
           /\ crCache' \in CRs \cup {Absent}
           /\ crLag' \in Lags
<1>1. cr \in CRs /\ w \in CRs
  BY DEF TypeInv, TypeOK
<1>2. w.spec \in Specs /\ w.finalizer \in BOOLEAN /\ w.processed \in BOOLEAN
  BY <1>1 DEF CRs
<1>3. Replaced \in CRs
  BY <1>1, <1>2, MetaUpdate DEF Replaced
<1> QED
  BY <1>3, WriteCRType DEF UpdateCR

(* updateStatus of the working copy keeps the types.                       *)
LEMMA UpdateStatusType ==
    ASSUME TypeInv, cr # Absent, w # Absent, UpdateStatus
    PROVE  /\ cr' \in CRs \cup {Absent}
           /\ crCache' \in CRs \cup {Absent}
           /\ crLag' \in Lags
<1>1. cr \in CRs /\ w \in CRs
  BY DEF TypeInv, TypeOK
<1>2. w.status \in Statuses
  BY <1>1 DEF CRs
<1>3. [cr EXCEPT !.status = w.status] \in CRs
  BY <1>1, <1>2 DEF CRs
<1> QED
  BY <1>3, WriteCRType DEF UpdateStatus

(* Reconcile's local variables after StepApplied.                          *)
LEMMA StepAppliedType ==
    ASSUME TypeInv, w # Absent, step <= Len(Pipeline), StepApplied
    PROVE  /\ w' \in CRs
           /\ w'.spec = w.spec
           /\ w'.status.conds = w.status.conds
           /\ pc' \in {"record", "apply"}
           /\ pc' = "record" => step' = step
           /\ step' \in 1..(Len(Pipeline) + 1)
           /\ attempt' = 1
           /\ UNCHANGED misled
<1>1. w \in CRs /\ Kind \in Kinds
  BY KindType DEF TypeInv, TypeOK
<1>2. step \in 1..(Len(Pipeline) + 1) /\ Len(Pipeline) \in Nat
  BY PipelineAssumption DEF TypeInv, TypeOK
<1>3. CASE RecordsStatus(Kind)
  BY <1>1, <1>2, <1>3, RecordedUpdate DEF StepApplied, Goto
<1>4. CASE ~RecordsStatus(Kind)
  BY <1>1, <1>2, <1>4 DEF StepApplied, Goto
<1> QED
  BY <1>3, <1>4

(* Reconcile's local variables after it returned.                          *)
LEMMA ReturnType ==
    ASSUME TypeInv, NEW r \in BOOLEAN, Return(r)
    PROVE  /\ pc' = "idle" /\ w' = Absent /\ step' = 1 /\ attempt' = 1
           /\ err' = "nil" /\ delayed' \in BOOLEAN
           /\ step' \in 1..(Len(Pipeline) + 1)
           /\ attempt' \in 1..RetrySteps
           /\ err' \in ReconcileErrors /\ misled' \in BOOLEAN
<1>1. Misled \in BOOLEAN
  BY DEF Misled
<1>2. misled' \in BOOLEAN
  BY <1>1 DEF Return
<1> QED
  BY <1>2, PipelineAssumption, BoundsAssumption DEF Return, TypeInv, TypeOK, ReconcileErrors

(* Whether the request comes back is a Boolean.                            *)
LEMMA RequeuesType ==
    ASSUME NEW e, NEW ok \in BOOLEAN
    PROVE  Requeues(e, ok) \in BOOLEAN
BY DEF Requeues

(* The initial state is well typed.                                        *)
LEMMA TypeInit == Init => TypeInv
<1> SUFFICES ASSUME Init PROVE TypeInv
  OBVIOUS
<1>1. /\ Len(Pipeline) \in Nat
      /\ 1 \in 1..(Len(Pipeline) + 1) /\ 1 \in 1..RetrySteps
      /\ 0 \in 0..MaxInstances /\ MaxFaults \in 0..MaxFaults
  BY PipelineAssumption, BoundsAssumption
<1>2. /\ obj \in [Kinds -> Objects \cup {Absent}]
      /\ objCache \in [Kinds -> Objects \cup {Absent}]
      /\ objLag \in [Kinds -> Lags]
      /\ api \in [Targets -> {"ok"} \cup Outages]
  BY DEF Init, Healthy, Lags
<1> QED
  BY <1>1, <1>2 DEF Init, TypeInv, TypeOK, Lags, Points, ReconcileErrors

(* Every step preserves the types.                                         *)
LEMMA TypeNext == TypeInv /\ [Next]_vars => TypeInv'
<1> SUFFICES ASSUME TypeInv, [Next]_vars
             PROVE  TypeInv'
  OBVIOUS
<1> USE DEF TypeInv, TypeOK, vars, crVars, objVars, recVars, envVars
<1>a. Len(Pipeline) \in Nat /\ 1 \in 1..(Len(Pipeline) + 1) /\ 1 \in 1..RetrySteps
  BY PipelineAssumption, BoundsAssumption
<1>1. CASE DeliverCR
  BY <1>1 DEF DeliverCR, Lags
<1>2. ASSUME NEW k \in Kinds, DeliverObj(k)
      PROVE  TypeInv'
  <2>1. Filtered(obj[k]) \in Objects \cup {Absent}
    BY FilteredType
  <2> QED
    BY <1>2, <2>1 DEF DeliverObj, Lags
<1>3. CASE Requeue
  BY <1>3 DEF Requeue
<1>4. CASE Reconcile
  <2>1. CASE Return(FALSE)
    BY <1>4, <2>1, ReturnType DEF Reconcile, Points
  <2>2. CASE crCache # Absent /\ \E b \in BOOLEAN, p \in Points :
                 /\ w' = [crCache EXCEPT !.finalizer = b]
                 /\ p \in {"unfinalize", "finalize"}
                 /\ Goto(p) /\ UNCHANGED <<delayed, step, err>>
    <3>1. PICK b \in BOOLEAN, p \in Points :
                 /\ w' = [crCache EXCEPT !.finalizer = b]
                 /\ p \in {"unfinalize", "finalize"}
                 /\ Goto(p) /\ UNCHANGED <<delayed, step, err>>
      BY <2>2
    <3>2. w' \in CRs
      BY <2>2, <3>1 DEF CRs
    <3> QED
      BY <1>4, <1>a, <3>1, <3>2, AbsentAssumption DEF Reconcile, Goto
  <2>3. CASE /\ crCache # Absent /\ w' = crCache /\ Goto("validate")
             /\ UNCHANGED <<delayed, step, err>>
    BY <1>4, <1>a, <2>3 DEF Reconcile, Goto, Points
  <2> QED
    BY <1>4, <2>1, <2>2, <2>3 DEF Reconcile, Points, WritePoints
<1>5. CASE RemoveFinalizer
  <2>1. CASE Succeeds /\ UpdateCR /\ Return(FALSE)
    BY <1>5, <2>1, ReturnType, UpdateCRType, SucceedsFacts DEF RemoveFinalizer, Points
  <2>2. CASE Fails /\ Return(TRUE) /\ UNCHANGED crVars
    BY <1>5, <2>2, ReturnType DEF RemoveFinalizer, Points
  <2> QED
    BY <1>5, <2>1, <2>2 DEF RemoveFinalizer
<1>6. CASE AddFinalizer
  <2>1. CASE Succeeds /\ UpdateCR /\ Goto("reread") /\ UNCHANGED <<w, step, err, delayed>>
    BY <1>6, <1>a, <2>1, UpdateCRType, SucceedsFacts DEF AddFinalizer, Goto, Points
  <2>2. CASE Fails /\ Return(TRUE) /\ UNCHANGED crVars
    BY <1>6, <2>2, ReturnType DEF AddFinalizer, Points
  <2> QED
    BY <1>6, <2>1, <2>2 DEF AddFinalizer
<1>7. CASE RereadAfterFinalizer
  <2>1. CASE Return(TRUE)
    BY <1>7, <2>1, ReturnType DEF RereadAfterFinalizer, Points
  <2>2. CASE crCache # Absent /\ w' = crCache /\ Goto("validate")
             /\ UNCHANGED <<step, err, delayed>>
    BY <1>7, <1>a, <2>2 DEF RereadAfterFinalizer, Goto, Points
  <2> QED
    BY <1>7, <2>1, <2>2 DEF RereadAfterFinalizer
<1>8. CASE ValidateIstioCSRConfig
  BY <1>8, <1>a DEF ValidateIstioCSRConfig, FailWith, Goto, Points, ReconcileErrors
<1>9. CASE CannotBuild
  BY <1>9, <1>a DEF CannotBuild, FailWith, Goto, Points, ReconcileErrors
<1>10. CASE ApplyUnchanged
  BY <1>10, <1>a, StepAppliedType, AbsentAssumption DEF ApplyUnchanged, Applying, Points, WritePoints
<1>11. CASE ApplyChanged
  BY <1>11, <1>a DEF ApplyChanged, Applying, Goto, Points, WritePoints
<1>12. CASE ApplyUpdate
  <2>1. CASE Succeeds /\ WriteObj(Kind, Desired) /\ StepApplied /\ UNCHANGED <<err, delayed>>
    <3>1. Kind \in Kinds /\ w \in CRs
      BY <1>12, KindType DEF ApplyUpdate
    <3>2. Desired \in Objects \cup {Absent}
      BY <3>1, DesiredType
    <3>3. /\ obj' \in [Kinds -> Objects \cup {Absent}]
          /\ objCache' \in [Kinds -> Objects \cup {Absent}]
          /\ objLag' \in [Kinds -> Lags]
      BY <2>1, <3>1, <3>2, WriteObjType
    <3> QED
      BY <1>12, <1>a, <2>1, <3>3, StepAppliedType, AbsentAssumption
         DEF ApplyUpdate, Points, WritePoints
  <2>2. CASE FailWith(FromClientError(WriteError)) /\ UNCHANGED objVars
    BY <1>12, <1>a, <2>2, FromClientErrorType DEF ApplyUpdate, FailWith, Goto, Points
  <2> QED
    BY <1>12, <2>1, <2>2 DEF ApplyUpdate
<1>13. CASE ApplyCreate
  <2>1. CASE WriteObj(Kind, Desired) /\ StepApplied /\ UNCHANGED <<err, delayed>>
    <3>1. Kind \in Kinds /\ w \in CRs
      BY <1>13, KindType DEF ApplyCreate, Applying
    <3>2. Desired \in Objects \cup {Absent}
      BY <3>1, DesiredType
    <3>3. /\ obj' \in [Kinds -> Objects \cup {Absent}]
          /\ objCache' \in [Kinds -> Objects \cup {Absent}]
          /\ objLag' \in [Kinds -> Lags]
      BY <2>1, <3>1, <3>2, WriteObjType
    <3> QED
      BY <1>13, <1>a, <2>1, <3>3, StepAppliedType, AbsentAssumption
         DEF ApplyCreate, Applying, Points, WritePoints
  <2>2. CASE FailWith(FromClientError(CreateError(Kind))) /\ UNCHANGED objVars
    BY <1>13, <1>a, <2>2, FromClientErrorType DEF ApplyCreate, Applying, FailWith, Goto, Points
  <2> QED
    BY <1>13, <2>1, <2>2 DEF ApplyCreate
<1>14. CASE RecordInStatus
  <2>1. CASE Succeeds /\ UpdateStatus /\ step' = step + 1 /\ Goto("apply")
             /\ UNCHANGED <<w, err, delayed>>
    BY <1>14, <1>a, <2>1, UpdateStatusType, SucceedsFacts DEF RecordInStatus, Goto, Points
  <2>2. CASE FailWith(FromClientError(WriteError)) /\ UNCHANGED crVars
    BY <1>14, <1>a, <2>2, FromClientErrorType DEF RecordInStatus, FailWith, Goto, Points
  <2> QED
    BY <1>14, <2>1, <2>2 DEF RecordInStatus
<1>15. CASE PipelineDone
  <2>1. w \in CRs /\ [w EXCEPT !.processed = TRUE] \in CRs
    BY <1>15 DEF PipelineDone, CRs
  <2> QED
    BY <1>15, <1>a, <2>1, AbsentAssumption DEF PipelineDone, Goto, Points, WritePoints
<1>16. CASE AnnotateProcessed
  <2>1. CASE Succeeds /\ UpdateCR /\ w' = Replaced /\ Goto("result")
             /\ UNCHANGED <<step, err, delayed>>
    BY <1>16, <1>a, <2>1, UpdateCRType, SucceedsFacts, AbsentAssumption
       DEF AnnotateProcessed, Goto, Points
  <2>2. CASE FailWith("RetryRequired") /\ UNCHANGED crVars
    BY <1>16, <1>a, <2>2 DEF AnnotateProcessed, FailWith, Goto, Points, ReconcileErrors
  <2> QED
    BY <1>16, <2>1, <2>2 DEF AnnotateProcessed
<1>17. CASE HandleReconcileResult
  <2>1. CASE w' = [w EXCEPT !.status.conds = ConditionsFor(err)] /\ Goto("publish")
             /\ UNCHANGED <<step, err, delayed>>
    <3>1. w' \in CRs
      BY <1>17, <2>1, ConditionsForType, CondsUpdate DEF HandleReconcileResult
    <3> QED
      BY <1>17, <1>a, <2>1, <3>1, AbsentAssumption DEF HandleReconcileResult, Goto, Points, WritePoints
  <2>2. CASE Return(Requeues(err, TRUE))
    BY <1>17, <2>2, ReturnType, RequeuesType DEF HandleReconcileResult, Points
  <2> QED
    BY <1>17, <2>1, <2>2 DEF HandleReconcileResult
<1>18. CASE UpdateCondition
  <2>1. CASE Succeeds /\ UpdateStatus /\ Return(Requeues(err, TRUE))
    BY <1>18, <2>1, ReturnType, RequeuesType, UpdateStatusType, SucceedsFacts
       DEF UpdateCondition, Points
  <2>2. CASE Return(Requeues(err, FALSE)) /\ UNCHANGED crVars
    BY <1>18, <2>2, ReturnType, RequeuesType DEF UpdateCondition, Points
  <2> QED
    BY <1>18, <2>1, <2>2 DEF UpdateCondition
<1>19. CASE RetryOnConflict
  BY <1>19, BoundsAssumption DEF RetryOnConflict
<1>20. ASSUME NEW s \in Specs, UserCreates(s)
       PROVE  TypeInv'
  <2> DEFINE new == [uid |-> created + 1, spec |-> s, deleting |-> FALSE,
                     finalizer |-> FALSE, processed |-> FALSE, status |-> EmptyStatus]
  <2>1. created + 1 \in 1..MaxInstances /\ created + 1 \in 0..MaxInstances
    BY <1>20, BoundsAssumption DEF UserCreates
  <2>2. EmptyStatus \in Statuses
    BY DEF EmptyStatus, Statuses, NoConditions, Conditions, ReadyReasons, DegradedReasons
  <2>3. new \in CRs
    BY <2>1, <2>2 DEF CRs
  <2> HIDE DEF new
  <2>4. WriteCR(new)
    BY <1>20 DEF UserCreates, new
  <2> QED
    BY <1>20, <2>1, <2>3, <2>4, WriteCRType DEF UserCreates
<1>21. ASSUME NEW s \in Specs, UserEdits(s)
       PROVE  TypeInv'
  <2>1. [cr EXCEPT !.spec = s] \in CRs
    BY <1>21 DEF UserEdits, CRs
  <2> QED
    BY <1>21, <2>1, WriteCRType, BoundsAssumption DEF UserEdits, Disturb
<1>22. CASE UserDeletes
  <2>1. [cr EXCEPT !.deleting = TRUE] \in CRs
    BY <1>22 DEF UserDeletes, CRs
  <2> QED
    BY <1>22, <2>1, WriteCRType, BoundsAssumption DEF UserDeletes, Disturb
<1>23. ASSUME NEW k \in Kinds, NEW d \in Drifts, Drift(k, d)
       PROVE  TypeInv'
  <2>1. obj[k] \in Objects
    BY <1>23 DEF Drift
  <2>2. Drifted(k, d) \in Objects \cup {Absent}
    BY <2>1, EnvironmentAssumption DEF Drifted, Objects
  <2> QED
    BY <1>23, <2>2, WriteObjType, BoundsAssumption DEF Drift, Disturb
<1>24. ASSUME NEW e \in Outages, NEW scope \in Scopes, APIFails(e, scope)
       PROVE  TypeInv'
  BY <1>24, BoundsAssumption DEF APIFails, Disturb
<1>25. CASE APIRecovers
  BY <1>25 DEF APIRecovers, Healthy
<1>26. CASE Restart
  <2>1. \A k \in Kinds : Filtered(obj[k]) \in Objects \cup {Absent}
    BY FilteredType
  <2>2. /\ objCache' \in [Kinds -> Objects \cup {Absent}]
        /\ objLag' \in [Kinds -> Lags]
    BY <1>26, <2>1 DEF Restart, Lags
  <2>3. queue' \in BOOLEAN
    BY <1>26 DEF Restart
  <2>4. faults' \in 0..MaxFaults
    BY <1>26, BoundsAssumption DEF Restart, Disturb
  <2> QED
    BY <1>26, <1>a, <2>2, <2>3, <2>4 DEF Restart, Lags, Points, ReconcileErrors
<1>27. CASE UNCHANGED vars
  BY <1>27
<1> QED
  BY <1>1, <1>2, <1>3, <1>4, <1>5, <1>6, <1>7, <1>8, <1>9, <1>10, <1>11, <1>12,
     <1>13, <1>14, <1>15, <1>16, <1>17, <1>18, <1>19, <1>20, <1>21, <1>22,
     <1>23, <1>24, <1>25, <1>26, <1>27
     DEF Next, System, Environment, ReconcileStep

(* Type correctness, of every instance.                                    *)
THEOREM TypeCorrect == Spec => []TypeOK
<1>1. TypeInv => TypeOK
  BY DEF TypeInv
<1> QED
  BY TypeInit, TypeNext, <1>1, PTL DEF Spec

(* The types hold throughout: what the other invariants build on.          *)
LEMMA TypeInvariant == Spec => []TypeInv
BY TypeInit, TypeNext, PTL DEF Spec

-----------------------------------------------------------------------------
(***************************************************************************)
(* What the controller rejects is never applied.  The spec of the working  *)
(* copy is the one that was checked: nothing between the check and the     *)
(* last write of the pipeline replaces it, whatever the live object does.  *)
(***************************************************************************)
RejectInv ==
    /\ RejectedNeverApplied
    /\ pc \in {"apply", "update", "record"} => w.spec \notin InvalidSpecs
    /\ pc = "update" => w.spec \notin Unbuildable[Kind]

(* Somebody else's write is not made from a rejected spec.                 *)
LEMMA WriteObjRejects ==
    ASSUME TypeInv, RejectedNeverApplied, NEW k \in Kinds,
           NEW new \in Objects \cup {Absent}, WriteObj(k, new),
           new # Absent => new.content \notin InvalidSpecs \cup Unbuildable[k]
    PROVE  RejectedNeverApplied'
BY DEF RejectedNeverApplied, WriteObj, TypeInv, TypeOK

(* After a step the object is in place, and the working copy is as before. *)
LEMMA StepAppliedRejects ==
    ASSUME TypeInv, RejectInv, w # Absent, step <= Len(Pipeline),
           w.spec \notin InvalidSpecs, StepApplied
    PROVE  /\ pc' \in {"record", "apply"}
           /\ w'.spec \notin InvalidSpecs
BY StepAppliedType

(* Every step preserves RejectInv.                                         *)
LEMMA RejectNext == TypeInv /\ RejectInv /\ [Next]_vars => RejectInv'
<1> SUFFICES ASSUME TypeInv, RejectInv, [Next]_vars
             PROVE  RejectInv'
  OBVIOUS
<1> USE DEF RejectInv
<1>a. ASSUME UNCHANGED obj, pc' \notin {"apply", "update", "record"}
      PROVE  RejectInv'
  BY <1>a DEF RejectedNeverApplied
<1>b. ASSUME UNCHANGED <<obj, pc, w, step>>
      PROVE  RejectInv'
  BY <1>b DEF RejectedNeverApplied, Kind
<1>1. CASE DeliverCR
  BY <1>1, <1>b DEF DeliverCR, recVars, objVars
<1>2. ASSUME NEW k \in Kinds, DeliverObj(k)
      PROVE  RejectInv'
  BY <1>2, <1>b DEF DeliverObj, recVars
<1>3. CASE Requeue
  BY <1>3, <1>b DEF Requeue, recVars, objVars
<1>4. CASE Reconcile
  BY <1>4, <1>a DEF Reconcile, Return, Goto, objVars
<1>5. CASE RemoveFinalizer
  BY <1>5, <1>a DEF RemoveFinalizer, Return, objVars
<1>6. CASE AddFinalizer
  BY <1>6, <1>a DEF AddFinalizer, Return, Goto, objVars
<1>7. CASE RereadAfterFinalizer
  BY <1>7, <1>a DEF RereadAfterFinalizer, Return, Goto, objVars
<1>8. CASE ValidateIstioCSRConfig
  BY <1>8 DEF ValidateIstioCSRConfig, FailWith, Goto, objVars, RejectedNeverApplied
<1>9. CASE CannotBuild
  BY <1>9, <1>a DEF CannotBuild, FailWith, Goto, objVars
<1>10. CASE ApplyUnchanged
  <2>1. pc' \in {"record", "apply"} /\ w'.spec \notin InvalidSpecs
    BY <1>10, StepAppliedRejects DEF ApplyUnchanged, Applying, TypeInv
  <2> QED
    BY <1>10, <2>1 DEF ApplyUnchanged, objVars, RejectedNeverApplied
<1>11. CASE ApplyChanged
  BY <1>11 DEF ApplyChanged, Applying, Goto, Kind, objVars, RejectedNeverApplied
<1>12. CASE ApplyUpdate
  <2>1. CASE WriteObj(Kind, Desired) /\ StepApplied
    <3>1. Kind \in Kinds /\ w \in CRs
      BY <1>12, KindType DEF ApplyUpdate, TypeInv, TypeOK
    <3>2. Desired \in Objects /\ Desired.content = w.spec
      BY <3>1, DesiredType
    <3>3. w.spec \notin InvalidSpecs \cup Unbuildable[Kind]
      BY <1>12 DEF ApplyUpdate
    <3>4. RejectedNeverApplied'
      BY <2>1, <3>1, <3>2, <3>3, WriteObjRejects
    <3>5. pc' \in {"record", "apply"} /\ w'.spec \notin InvalidSpecs
      BY <1>12, <2>1, <3>3, StepAppliedRejects DEF ApplyUpdate, TypeInv
    <3> QED
      BY <3>4, <3>5
  <2>2. CASE FailWith(FromClientError(WriteError)) /\ UNCHANGED objVars
    BY <1>12, <2>2, <1>a DEF FailWith, Goto, objVars
  <2> QED
    BY <1>12, <2>1, <2>2 DEF ApplyUpdate
<1>13. CASE ApplyCreate
  <2>1. CASE WriteObj(Kind, Desired) /\ StepApplied
    <3>1. Kind \in Kinds /\ w \in CRs
      BY <1>13, KindType DEF ApplyCreate, Applying, TypeInv, TypeOK
    <3>2. Desired \in Objects /\ Desired.content = w.spec
      BY <3>1, DesiredType
    <3>3. w.spec \notin InvalidSpecs \cup Unbuildable[Kind]
      BY <1>13 DEF ApplyCreate, Applying
    <3>4. RejectedNeverApplied'
      BY <2>1, <3>1, <3>2, <3>3, WriteObjRejects
    <3>5. pc' \in {"record", "apply"} /\ w'.spec \notin InvalidSpecs
      BY <1>13, <2>1, <3>3, StepAppliedRejects DEF ApplyCreate, Applying, TypeInv
    <3> QED
      BY <3>4, <3>5
  <2>2. CASE FailWith(FromClientError(CreateError(Kind))) /\ UNCHANGED objVars
    BY <1>13, <2>2, <1>a DEF FailWith, Goto, objVars
  <2> QED
    BY <1>13, <2>1, <2>2 DEF ApplyCreate
<1>14. CASE RecordInStatus
  BY <1>14, <1>a DEF RecordInStatus, FailWith, Goto, objVars, RejectedNeverApplied
<1>15. CASE PipelineDone
  BY <1>15, <1>a DEF PipelineDone, Goto, objVars
<1>16. CASE AnnotateProcessed
  BY <1>16, <1>a DEF AnnotateProcessed, FailWith, Goto, objVars
<1>17. CASE HandleReconcileResult
  BY <1>17, <1>a DEF HandleReconcileResult, Return, Goto, objVars
<1>18. CASE UpdateCondition
  BY <1>18, <1>a DEF UpdateCondition, Return, objVars
<1>19. CASE RetryOnConflict
  BY <1>19, <1>b DEF RetryOnConflict, objVars
<1>20. ASSUME NEW s \in Specs, UserCreates(s) \/ UserEdits(s)
       PROVE  RejectInv'
  BY <1>20, <1>b DEF UserCreates, UserEdits, recVars, objVars
<1>21. CASE UserDeletes
  BY <1>21, <1>b DEF UserDeletes, recVars, objVars
<1>22. ASSUME NEW k \in Kinds, NEW d \in Drifts, Drift(k, d)
       PROVE  RejectInv'
  <2>1. obj[k] \in Objects /\ WriteObj(k, Drifted(k, d)) /\ UNCHANGED <<pc, w, step>>
    BY <1>22 DEF Drift, TypeInv, TypeOK, recVars
  <2>2. Drifted(k, d) \in Objects \cup {Absent}
    BY <2>1, EnvironmentAssumption DEF Drifted, Objects
  <2>3. Unbuildable[k] \subseteq Specs
    BY SpecsAssumption
  <2>4. Drifted(k, d) # Absent => Drifted(k, d).content \in {Foreign, obj[k].content}
    BY <2>1, EnvironmentAssumption DEF Drifted, Objects
  <2>5. obj[k].content \notin InvalidSpecs \cup Unbuildable[k]
    BY <1>22 DEF RejectedNeverApplied, Drift
  <2>6. RejectedNeverApplied'
    BY <2>1, <2>2, <2>3, <2>4, <2>5, SpecsAssumption, WriteObjRejects
  <2> QED
    BY <2>1, <2>6 DEF Kind
<1>23. ASSUME NEW e \in Outages, NEW scope \in Scopes, APIFails(e, scope)
       PROVE  RejectInv'
  BY <1>23, <1>b DEF APIFails, recVars, objVars
<1>24. CASE APIRecovers
  BY <1>24, <1>b DEF APIRecovers, recVars, objVars
<1>25. CASE Restart
  BY <1>25, <1>a DEF Restart
<1>26. CASE UNCHANGED vars
  BY <1>26, <1>b DEF vars, recVars, objVars
<1> QED
  BY <1>1, <1>2, <1>3, <1>4, <1>5, <1>6, <1>7, <1>8, <1>9, <1>10, <1>11, <1>12,
     <1>13, <1>14, <1>15, <1>16, <1>17, <1>18, <1>19, <1>20, <1>21, <1>22,
     <1>23, <1>24, <1>25, <1>26
     DEF Next, System, Environment, ReconcileStep

(* No managed object is ever written from a spec that the controller's own *)
(* checks reject, under any interleaving of edits, stale reads, retries,   *)
(* outages and restarts.                                                   *)
THEOREM RejectedSafe == Spec => []RejectedNeverApplied
<1>1. Init => RejectInv
  BY DEF Init, RejectInv, RejectedNeverApplied
<1>2. RejectInv => RejectedNeverApplied
  BY DEF RejectInv
<1> QED
  BY <1>1, <1>2, TypeInvariant, RejectNext, PTL DEF Spec

-----------------------------------------------------------------------------
(***************************************************************************)
(* Ready and Degraded are never both true.  The live object alone is not   *)
(* inductive: what is published comes from the working copy, which comes   *)
(* from the cache, so all three copies have to agree.                      *)
(***************************************************************************)
Consistent(c) ==
    c # Absent => ~(/\ c.status.conds.ready = "Ready"
                    /\ c.status.conds.degraded = "Failed")

CondInv == Consistent(cr) /\ Consistent(crCache) /\ Consistent(w)

(* Changing the metadata or the spec leaves the conditions alone.          *)
LEMMA ConsistentMeta ==
    ASSUME NEW c \in CRs, Consistent(c), NEW s \in Specs, NEW f \in BOOLEAN,
           NEW p \in BOOLEAN
    PROVE  /\ Consistent([c EXCEPT !.spec = s, !.finalizer = f, !.processed = p])
           /\ Consistent([c EXCEPT !.spec = s])
           /\ Consistent([c EXCEPT !.finalizer = f])
           /\ Consistent([c EXCEPT !.processed = p])
           /\ Consistent([c EXCEPT !.deleting = f])
<1>1. c # Absent
  BY AbsentAssumption
<1> QED
  BY <1>1 DEF Consistent, CRs

(* UpdateWithRetry leaves the conditions as they are.                      *)
LEMMA UpdateCRConsistent ==
    ASSUME TypeInv, CondInv, cr # Absent, w # Absent, UpdateCR
    PROVE  Consistent(cr') /\ Consistent(Replaced) /\ UNCHANGED crCache
<1>1. cr \in CRs /\ w \in CRs
  BY DEF TypeInv, TypeOK
<1>2. w.spec \in Specs /\ w.finalizer \in BOOLEAN /\ w.processed \in BOOLEAN
  BY <1>1 DEF CRs
<1>3. Consistent(Replaced)
  BY <1>1, <1>2, ConsistentMeta DEF Replaced, CondInv
<1> QED
  BY <1>3 DEF UpdateCR, WriteCR, Consistent

(* updateStatus writes the conditions of the working copy.                 *)
LEMMA UpdateStatusConsistent ==
    ASSUME TypeInv, CondInv, cr # Absent, w # Absent, UpdateStatus
    PROVE  Consistent(cr') /\ UNCHANGED crCache
<1>1. cr \in CRs
  BY DEF TypeInv, TypeOK
<1>2. cr' = [cr EXCEPT !.status = w.status] /\ UNCHANGED crCache
  BY DEF UpdateStatus, WriteCR
<1>3. cr'.status = w.status
  BY <1>1, <1>2 DEF CRs
<1> QED
  BY <1>2, <1>3 DEF CondInv, Consistent

(* Every step preserves CondInv.                                           *)
LEMMA CondNext == TypeInv /\ CondInv /\ [Next]_vars => CondInv'
<1> SUFFICES ASSUME TypeInv, CondInv, [Next]_vars
             PROVE  CondInv'
  OBVIOUS
<1> USE DEF CondInv
<1>a. Consistent(Absent)
  BY DEF Consistent
<1>b. cr \in CRs \cup {Absent} /\ crCache \in CRs \cup {Absent}
  BY DEF TypeInv, TypeOK
<1>c. pc # "idle" => w \in CRs /\ w # Absent
  BY DEF TypeInv, TypeOK
<1>d. ASSUME UNCHANGED crVars, w' \in {w, crCache, Absent}
      PROVE  CondInv'
  BY <1>d, <1>a DEF crVars
<1>1. CASE DeliverCR
  BY <1>1 DEF DeliverCR, recVars
<1>2. ASSUME NEW k \in Kinds, DeliverObj(k)
      PROVE  CondInv'
  BY <1>2, <1>d DEF DeliverObj, recVars
<1>3. CASE Requeue
  BY <1>3, <1>d DEF Requeue, recVars
<1>4. CASE Reconcile
  <2>1. crCache # Absent => /\ Consistent([crCache EXCEPT !.finalizer = TRUE])
                            /\ Consistent([crCache EXCEPT !.finalizer = FALSE])
    <3>1. ASSUME crCache # Absent
          PROVE  crCache \in CRs /\ crCache.spec \in Specs
      BY <3>1, <1>b DEF CRs
    <3> QED
      BY <3>1, ConsistentMeta
  <2> QED
    BY <1>4, <1>a, <2>1 DEF Reconcile, Return, crVars
<1>5. CASE RemoveFinalizer
  BY <1>5, <1>a, <1>c, <1>d, SucceedsFacts, UpdateCRConsistent DEF RemoveFinalizer, Return, crVars
<1>6. CASE AddFinalizer
  BY <1>6, <1>a, <1>c, <1>d, SucceedsFacts, UpdateCRConsistent DEF AddFinalizer, Return, crVars
<1>7. CASE RereadAfterFinalizer
  BY <1>7, <1>d DEF RereadAfterFinalizer, Return
<1>8. CASE ValidateIstioCSRConfig \/ CannotBuild
  BY <1>8, <1>d DEF ValidateIstioCSRConfig, CannotBuild, FailWith
<1>9. CASE ApplyUnchanged
  <2>1. w'.status.conds = w.status.conds
    BY <1>9, <1>c, StepAppliedType DEF ApplyUnchanged, Applying
  <2> QED
    BY <1>9, <1>c, <2>1 DEF ApplyUnchanged, Applying, Consistent, crVars
<1>10. CASE ApplyChanged
  BY <1>10, <1>d DEF ApplyChanged
<1>11. CASE ApplyUpdate
  <2>1. StepApplied => w'.status.conds = w.status.conds
    BY <1>11, <1>c, StepAppliedType DEF ApplyUpdate, TypeInv
  <2> QED
    BY <1>11, <1>c, <2>1 DEF ApplyUpdate, FailWith, Consistent, crVars
<1>12. CASE ApplyCreate
  <2>1. StepApplied => w'.status.conds = w.status.conds
    BY <1>12, <1>c, StepAppliedType DEF ApplyCreate, Applying
  <2> QED
    BY <1>12, <1>c, <2>1 DEF ApplyCreate, Applying, FailWith, Consistent, crVars
<1>13. CASE RecordInStatus
  BY <1>13, <1>c, <1>d, SucceedsFacts, UpdateStatusConsistent DEF RecordInStatus, FailWith
<1>14. CASE PipelineDone
  <2>1. Consistent([w EXCEPT !.processed = TRUE])
    <3>1. w \in CRs /\ w.spec \in Specs
      BY <1>14, <1>c DEF PipelineDone, CRs
    <3> QED
      BY <3>1, ConsistentMeta
  <2> QED
    BY <1>14, <2>1 DEF PipelineDone, crVars
<1>15. CASE AnnotateProcessed
  BY <1>15, <1>c, <1>d, SucceedsFacts, UpdateCRConsistent DEF AnnotateProcessed, FailWith
<1>16. CASE HandleReconcileResult
  <2>1. w \in CRs /\ err \in ReconcileErrors
    BY <1>16, <1>c DEF HandleReconcileResult, TypeInv, TypeOK
  <2>2. Consistent([w EXCEPT !.status.conds = ConditionsFor(err)])
    BY <2>1, ConditionsForType, CondsUpdate DEF Consistent
  <2> QED
    BY <1>16, <1>d, <2>2 DEF HandleReconcileResult, Return, crVars
<1>17. CASE UpdateCondition
  BY <1>17, <1>a, <1>c, <1>d, SucceedsFacts, UpdateStatusConsistent DEF UpdateCondition, Return
<1>18. CASE RetryOnConflict
  BY <1>18, <1>d DEF RetryOnConflict
<1>19. ASSUME NEW s \in Specs, UserCreates(s)
       PROVE  CondInv'
  BY <1>19 DEF UserCreates, WriteCR, EmptyStatus, NoConditions, Consistent, recVars
<1>20. ASSUME NEW s \in Specs, UserEdits(s)
       PROVE  CondInv'
  <2>1. Consistent([cr EXCEPT !.spec = s])
    BY <1>20, <1>b, ConsistentMeta DEF UserEdits
  <2> QED
    BY <1>20, <2>1 DEF UserEdits, WriteCR, recVars
<1>21. CASE UserDeletes
  <2>1. Consistent([cr EXCEPT !.deleting = TRUE])
    <3>1. cr \in CRs /\ cr.spec \in Specs
      BY <1>21, <1>b DEF UserDeletes, CRs
    <3> QED
      BY <3>1, ConsistentMeta
  <2> QED
    BY <1>21, <1>a, <2>1 DEF UserDeletes, WriteCR, recVars
<1>22. ASSUME NEW k \in Kinds, NEW d \in Drifts, Drift(k, d)
       PROVE  CondInv'
  BY <1>22, <1>d DEF Drift, recVars
<1>23. ASSUME NEW e \in Outages, NEW scope \in Scopes, APIFails(e, scope)
       PROVE  CondInv'
  BY <1>23, <1>d DEF APIFails, recVars
<1>24. CASE APIRecovers
  BY <1>24, <1>d DEF APIRecovers, recVars
<1>25. CASE Restart
  BY <1>25, <1>a DEF Restart
<1>26. CASE UNCHANGED vars
  BY <1>26, <1>d DEF vars, recVars
<1> QED
  BY <1>1, <1>2, <1>3, <1>4, <1>5, <1>6, <1>7, <1>8, <1>9, <1>10, <1>11, <1>12,
     <1>13, <1>14, <1>15, <1>16, <1>17, <1>18, <1>19, <1>20, <1>21, <1>22,
     <1>23, <1>24, <1>25, <1>26
     DEF Next, System, Environment, ReconcileStep

(* No reader ever sees an IstioCSR that is Ready and Degraded at once: not *)
(* after a lost status write, a stale read or a write to the wrong         *)
(* instance.                                                               *)
THEOREM ConditionsSafe == Spec => []NeverReadyAndDegraded
<1>1. Init => CondInv
  BY DEF Init, CondInv, Consistent
<1>2. CondInv => NeverReadyAndDegraded
  BY DEF CondInv, Consistent, NeverReadyAndDegraded, IsReady, IsDegraded
<1> QED
  BY <1>1, <1>2, TypeInvariant, CondNext, PTL DEF Spec

-----------------------------------------------------------------------------
(***************************************************************************)
(* A deletion is never forgotten.  The argument follows the wake-up from   *)
(* the user's request to the removal of the finalizer: the change is on    *)
(* its way to the cache, or the request is queued or timed and the cache   *)
(* already shows the deletion, or Reconcile is removing the finalizer.     *)
(***************************************************************************)
Deleting == cr # Absent /\ cr.deleting

(* An object being deleted exists only because of its finalizer.           *)
Held(c) == c # Absent /\ c.deleting => c.finalizer

CacheInv ==
    /\ crLag = "none" => crCache = cr
    /\ Held(cr)
    /\ Held(crCache)
    /\ Deleting /\ crLag # "event" => crCache # Absent /\ crCache.deleting

DelInv ==
    /\ CacheInv
    /\ Deleting => crLag = "event" \/ queue \/ delayed \/ pc = "unfinalize"
    /\ pc = "unfinalize" => ~w.finalizer

(* A write keeps the cache's view of a deletion, or sends an event.        *)
LEMMA WriteCRCache ==
    ASSUME CacheInv, NEW new, Held(new), WriteCR(new)
    PROVE  /\ CacheInv'
           /\ Deleting' /\ crLag' # "event" => Deleting /\ crLag # "event"
<1>1. cr' = new /\ UNCHANGED crCache
  BY DEF WriteCR
<1>2. crLag' = "none" => new = cr /\ crLag = "none"
  BY DEF WriteCR, Behind, GenerationChanged
<1>3. crLag' # "event" => crLag # "event" /\ (new = cr \/ (/\ new # Absent /\ cr # Absent
                                                          /\ new.deleting = cr.deleting))
  BY DEF WriteCR, Behind, GenerationChanged
<1> QED
  BY <1>1, <1>2, <1>3 DEF CacheInv, Deleting, Held

(* The writes of the controller.                                           *)
LEMMA UpdateCRCache ==
    ASSUME TypeInv, CacheInv, cr # Absent, w # Absent, UpdateCR
    PROVE  /\ CacheInv'
           /\ Deleting' /\ crLag' # "event" => Deleting /\ crLag # "event"
           /\ Deleting /\ ~w.finalizer => ~Deleting'
<1>1. cr \in CRs /\ w \in CRs
  BY DEF TypeInv, TypeOK
<1>2. w.spec \in Specs /\ w.finalizer \in BOOLEAN /\ w.processed \in BOOLEAN
  BY <1>1 DEF CRs
<1>3. Replaced.finalizer = w.finalizer /\ Replaced.deleting = cr.deleting
  BY <1>1, <1>2 DEF Replaced, CRs
<1> DEFINE new == IF Replaced.deleting /\ ~Replaced.finalizer THEN Absent ELSE Replaced
<1>4. Held(new)
  BY DEF Held
<1>5. WriteCR(new)
  BY DEF UpdateCR
<1>6. cr' = new
  BY <1>5 DEF WriteCR
<1>7. Deleting /\ ~w.finalizer => ~Deleting'
  BY <1>3, <1>6 DEF Deleting
<1> HIDE DEF new
<1> QED
  BY <1>4, <1>5, <1>7, WriteCRCache

(* A status write does not lose track of a deletion.                       *)
LEMMA UpdateStatusCache ==
    ASSUME TypeInv, CacheInv, cr # Absent, UpdateStatus
    PROVE  /\ CacheInv'
           /\ Deleting' /\ crLag' # "event" => Deleting /\ crLag # "event"
<1>1. cr \in CRs
  BY DEF TypeInv, TypeOK
<1> DEFINE new == [cr EXCEPT !.status = w.status]
<1>2. Held(new)
  BY <1>1 DEF Held, CRs, CacheInv
<1>3. WriteCR(new)
  BY DEF UpdateStatus
<1> HIDE DEF new
<1> QED
  BY <1>2, <1>3, WriteCRCache

(* Every step preserves DelInv.                                            *)
LEMMA DelNext == TypeInv /\ DelInv /\ [Next]_vars => DelInv'
<1> SUFFICES ASSUME TypeInv, DelInv, [Next]_vars
             PROVE  DelInv'
  OBVIOUS
<1> USE DEF DelInv
<1>a. ASSUME UNCHANGED crVars
      PROVE  CacheInv' /\ (Deleting' <=> Deleting)
  BY <1>a DEF CacheInv, Deleting, Held, crVars
(* Nothing but Reconcile's own position changes, outside the deletion path.*)
<1>b. ASSUME UNCHANGED crVars, UNCHANGED queue, delayed => delayed',
             pc # "unfinalize", pc' # "unfinalize"
      PROVE  DelInv'
  BY <1>a, <1>b DEF crVars
(* Nothing but the objects, the API server or a retry changes.             *)
<1>c. ASSUME UNCHANGED <<crVars, queue, delayed, pc>>, pc = "unfinalize" => UNCHANGED w
      PROVE  DelInv'
  BY <1>a, <1>c DEF crVars
<1>d. pc # "idle" => w \in CRs /\ w # Absent
  BY DEF TypeInv, TypeOK
<1>1. CASE DeliverCR
  <2>1. CacheInv'
    BY <1>1 DEF DeliverCR, CacheInv, Deleting, Held
  <2>2. Deleting' => queue' \/ delayed' \/ pc' = "unfinalize"
    BY <1>1 DEF DeliverCR, Deleting, recVars
  <2> QED
    BY <1>1, <2>1, <2>2 DEF DeliverCR, recVars
<1>2. ASSUME NEW k \in Kinds, DeliverObj(k)
      PROVE  DelInv'
  BY <1>2, <1>a DEF DeliverObj, recVars, crVars
<1>3. CASE Requeue
  BY <1>3, <1>a DEF Requeue, recVars, crVars
<1>4. CASE Reconcile
  <2>1. CacheInv' /\ (Deleting' <=> Deleting) /\ crLag' = crLag
    BY <1>4, <1>a DEF Reconcile, crVars
  <2>2. CASE crLag = "event" \/ ~Deleting
    <3>1. pc' = "unfinalize" => ~w'.finalizer
      BY <1>4 DEF Reconcile, Return, Goto, TypeInv, TypeOK, CRs
    <3> QED
      BY <2>1, <2>2, <3>1
  <2>3. CASE crLag # "event" /\ Deleting
    <3>1. crCache # Absent /\ crCache.deleting /\ crCache.finalizer /\ crCache \in CRs
      BY <2>3 DEF CacheInv, Held, TypeInv, TypeOK
    <3>2. w' = [crCache EXCEPT !.finalizer = FALSE] /\ pc' = "unfinalize"
      BY <1>4, <3>1 DEF Reconcile, Goto
    <3>3. ~w'.finalizer
      BY <3>1, <3>2 DEF CRs
    <3> QED
      BY <2>1, <3>2, <3>3
  <2> QED
    BY <2>2, <2>3
<1>5. CASE RemoveFinalizer
  <2>1. CASE Succeeds /\ UpdateCR /\ Return(FALSE)
    BY <1>5, <1>d, <2>1, SucceedsFacts, UpdateCRCache DEF RemoveFinalizer, Return
  <2>2. CASE Fails /\ Return(TRUE) /\ UNCHANGED crVars
    BY <1>5, <1>a, <2>2 DEF RemoveFinalizer, Return
  <2> QED
    BY <1>5, <2>1, <2>2 DEF RemoveFinalizer
<1>6. CASE AddFinalizer
  <2>1. CASE Succeeds /\ UpdateCR /\ Goto("reread") /\ UNCHANGED <<w, step, err, delayed>>
    BY <1>6, <1>d, <2>1, SucceedsFacts, UpdateCRCache DEF AddFinalizer, Goto
  <2>2. CASE Fails /\ Return(TRUE) /\ UNCHANGED crVars
    BY <1>6, <1>b, <2>2 DEF AddFinalizer, Return
  <2> QED
    BY <1>6, <2>1, <2>2 DEF AddFinalizer
<1>7. CASE RereadAfterFinalizer
  BY <1>7, <1>b DEF RereadAfterFinalizer, Return, Goto
<1>8. CASE ValidateIstioCSRConfig \/ CannotBuild
  BY <1>8, <1>b DEF ValidateIstioCSRConfig, CannotBuild, FailWith, Goto
<1>9. CASE ApplyUnchanged
  <2>1. pc' \in {"record", "apply"}
    BY <1>9, <1>d, StepAppliedType DEF ApplyUnchanged, Applying
  <2> QED
    BY <1>9, <1>b, <2>1 DEF ApplyUnchanged, Applying
<1>10. CASE ApplyChanged
  BY <1>10, <1>b DEF ApplyChanged, Applying, Goto
<1>11. CASE ApplyUpdate
  <2>1. StepApplied => pc' \in {"record", "apply"}
    BY <1>11, <1>d, StepAppliedType DEF ApplyUpdate, TypeInv
  <2> QED
    BY <1>11, <1>b, <2>1 DEF ApplyUpdate, FailWith, Goto
<1>12. CASE ApplyCreate
  <2>1. StepApplied => pc' \in {"record", "apply"}
    BY <1>12, <1>d, StepAppliedType DEF ApplyCreate, Applying
  <2> QED
    BY <1>12, <1>b, <2>1 DEF ApplyCreate, Applying, FailWith, Goto
<1>13. CASE RecordInStatus
  <2>1. CASE Succeeds /\ UpdateStatus /\ Goto("apply") /\ UNCHANGED <<w, err, delayed>>
    BY <1>13, <1>d, <2>1, SucceedsFacts, UpdateStatusCache DEF RecordInStatus, Goto
  <2>2. CASE FailWith(FromClientError(WriteError)) /\ UNCHANGED crVars
    BY <1>13, <1>b, <2>2 DEF RecordInStatus, FailWith, Goto
  <2> QED
    BY <1>13, <2>1, <2>2 DEF RecordInStatus
<1>14. CASE PipelineDone
  BY <1>14, <1>b DEF PipelineDone, Goto
<1>15. CASE AnnotateProcessed
  <2>1. CASE Succeeds /\ UpdateCR /\ Goto("result") /\ UNCHANGED <<step, err, delayed>>
    BY <1>15, <1>d, <2>1, SucceedsFacts, UpdateCRCache DEF AnnotateProcessed, Goto
  <2>2. CASE FailWith("RetryRequired") /\ UNCHANGED crVars
    BY <1>15, <1>b, <2>2 DEF AnnotateProcessed, FailWith, Goto
  <2> QED
    BY <1>15, <2>1, <2>2 DEF AnnotateProcessed
<1>16. CASE HandleReconcileResult
  BY <1>16, <1>b DEF HandleReconcileResult, Return, Goto
<1>17. CASE UpdateCondition
  <2>1. CASE Succeeds /\ UpdateStatus /\ Return(Requeues(err, TRUE))
    BY <1>17, <1>d, <2>1, SucceedsFacts, UpdateStatusCache DEF UpdateCondition, Return
  <2>2. CASE Return(Requeues(err, FALSE)) /\ UNCHANGED crVars
    BY <1>17, <1>b, <2>2 DEF UpdateCondition, Return
  <2> QED
    BY <1>17, <2>1, <2>2 DEF UpdateCondition
<1>18. CASE RetryOnConflict
  BY <1>18, <1>c DEF RetryOnConflict
<1>19. ASSUME NEW s \in Specs, UserCreates(s)
       PROVE  DelInv'
  <2> DEFINE new == [uid |-> created + 1, spec |-> s, deleting |-> FALSE,
                     finalizer |-> FALSE, processed |-> FALSE, status |-> EmptyStatus]
  <2>1. Held(new) /\ WriteCR(new)
    BY <1>19 DEF UserCreates, Held
  <2> HIDE DEF new
  <2> QED
    BY <1>19, <2>1, WriteCRCache DEF UserCreates, recVars
<1>20. ASSUME NEW s \in Specs, UserEdits(s)
       PROVE  DelInv'
  <2> DEFINE new == [cr EXCEPT !.spec = s]
  <2>1. Held(new) /\ WriteCR(new)
    BY <1>20 DEF UserEdits, Held, CacheInv, TypeInv, TypeOK, CRs
  <2> HIDE DEF new
  <2> QED
    BY <1>20, <2>1, WriteCRCache DEF UserEdits, recVars
<1>21. CASE UserDeletes
  <2> DEFINE new == IF cr.finalizer THEN [cr EXCEPT !.deleting = TRUE] ELSE Absent
  <2>1. Held(new) /\ WriteCR(new)
    BY <1>21 DEF UserDeletes, Held, CacheInv, TypeInv, TypeOK, CRs
  <2> HIDE DEF new
  <2> QED
    BY <1>21, <2>1, WriteCRCache DEF UserDeletes, recVars
<1>22. ASSUME NEW k \in Kinds, NEW d \in Drifts, Drift(k, d)
       PROVE  DelInv'
  BY <1>22, <1>c DEF Drift, recVars
<1>23. ASSUME NEW e \in Outages, NEW scope \in Scopes, APIFails(e, scope)
       PROVE  DelInv'
  BY <1>23, <1>c DEF APIFails, recVars
<1>24. CASE APIRecovers
  BY <1>24, <1>c DEF APIRecovers, recVars
<1>25. CASE Restart
  <2>1. crCache' = cr' /\ cr' = cr /\ crLag' = "none" /\ pc' = "idle"
    BY <1>25 DEF Restart
  <2>2. Deleting' => queue'
    BY <1>25 DEF Restart, Deleting
  <2>3. Held(cr)
    BY DEF CacheInv
  <2> QED
    BY <2>1, <2>2, <2>3 DEF CacheInv, Deleting, Held
<1>26. CASE UNCHANGED vars
  BY <1>26, <1>c DEF vars, recVars
<1> QED
  BY <1>1, <1>2, <1>3, <1>4, <1>5, <1>6, <1>7, <1>8, <1>9, <1>10, <1>11, <1>12,
     <1>13, <1>14, <1>15, <1>16, <1>17, <1>18, <1>19, <1>20, <1>21, <1>22,
     <1>23, <1>24, <1>25, <1>26
     DEF Next, System, Environment, ReconcileStep

(* The controller never comes to rest beside an object that waits to be    *)
(* deleted: no lost event, swallowed error or restart strands a deletion.  *)
THEOREM DeletionNotForgotten == Spec => []NoStuckDeletion
<1>1. Init => DelInv
  BY DEF Init, DelInv, CacheInv, Deleting, Held
<1>2. DelInv => NoStuckDeletion
  BY DEF DelInv, NoStuckDeletion, Quiescent, Synced, Deleting
<1> QED
  BY <1>1, <1>2, TypeInvariant, DelNext, PTL DEF Spec

-----------------------------------------------------------------------------
(***************************************************************************)
(* What the controller reports at rest.  The world is calm when nothing is *)
(* on its way that would start another pass.  A write that matters ends    *)
(* the calm, and only the beginning of a pass restores it; so what a pass  *)
(* has read from the caches in the calm still is the state of the cluster. *)
(***************************************************************************)
Calm == ~queue /\ crLag # "event" /\ \A k \in Kinds : objLag[k] # "event"

SameObject(a, b) ==
    /\ a = Absent <=> b = Absent
    /\ a # Absent => a.spec = b.spec /\ a.deleting = b.deleting

(* Unless an event tells otherwise, cache and working copy have the spec   *)
(* of the live object.                                                     *)
CopyInv ==
    /\ crLag # "event" => SameObject(crCache, cr)
    /\ pc # "idle" /\ ~queue => SameObject(w, crCache)

SimilarObject(k, a, b) ==
    /\ a = Absent <=> b = Absent
    /\ a # Absent => a.content = b.content /\ (k \notin GenWatched => a.labels = b.labels)

(* So has the cache the managed objects, as far as the watch tells of them. *)
LagInv ==
    \A k \in Kinds :
        /\ objLag[k] = "none" => objCache[k] = Filtered(obj[k])
        /\ objLag[k] # "event" => SimilarObject(k, objCache[k], Filtered(obj[k]))

(* Every pass goes through the whole pipeline or ends with an error.       *)
StageInv ==
    /\ pc \in {"idle", "finalize", "unfinalize", "reread", "validate"} => step = 1
    /\ err # "nil" => pc \in {"result", "publish"}
    /\ pc \in {"annotate", "result", "publish"} /\ err = "nil" => step = Len(Pipeline) + 1
    /\ pc = "publish" => w.status.conds = ConditionsFor(err)
    /\ pc = "unfinalize" => w.deleting

(* What a pass has established, in the calm: the objects of the steps it   *)
(* has done, and, after the first unconditional write of the status, the   *)
(* conditions of its working copy, old as they may have been before.       *)
Recorded == \E i \in 1..(step - 1) : Pipeline[i] \in RecordAlways
DoneInv ==
    (pc # "idle" /\ err = "nil" /\ Calm) =>
        /\ \A i \in 1..(step - 1) : Holds(Pipeline[i], w.spec)
        /\ pc = "record" => Holds(Kind, w.spec)
        /\ Recorded /\ pc # "publish" =>
              cr # Absent /\ cr.status.conds = w.status.conds

(* What it leaves behind.                                                  *)
RestInv ==
    (pc = "idle" /\ Calm /\ ~delayed /\ cr # Absent /\ ~misled) =>
        /\ IsReady \/ IsDegraded
        /\ IsReady => \A i \in 1..Len(Pipeline) : Holds(Pipeline[i], cr.spec)

ReportInv == CopyInv /\ LagInv /\ StageInv /\ DoneInv /\ RestInv

(* The tables of errors, conditions and requeues, as far as they matter.   *)
LEMMA ClientFacts ==
    /\ \A e \in ReconcileErrors :
          /\ ConditionsFor(e).ready = "Ready" <=> e = "nil"
          /\ e = "Irrecoverable" <=> ConditionsFor(e).degraded = "Failed"
    /\ \A e : FromClientError(e) # "nil"
    /\ \A e : Requeues(e, FALSE) /\ (e = "RetryRequired" => Requeues(e, TRUE))
BY DEF ConditionsFor, ReconcileErrors, IsIrrecoverableError, FromClientError, Requeues

(* What can happen to the managed objects.                                 *)
LEMMA ObjSteps ==
    ASSUME TypeInv, [Next]_vars
    PROVE  \/ UNCHANGED objVars
           \/ \E k \in Kinds : DeliverObj(k)
           \/ Restart
           \/ \E k \in Kinds, new \in Objects \cup {Absent} : WriteObj(k, new)
<1>1. pc # "idle" => w \in CRs
  BY DEF TypeInv, TypeOK
<1>2. CASE ApplyUpdate
  <2>1. Kind \in Kinds /\ Desired \in Objects
    BY <1>1, <1>2, KindType, DesiredType DEF ApplyUpdate, TypeInv
  <2> QED
    BY <1>2, <2>1 DEF ApplyUpdate
<1>3. CASE ApplyCreate
  <2>1. Kind \in Kinds /\ Desired \in Objects
    BY <1>1, <1>3, KindType, DesiredType DEF ApplyCreate, Applying
  <2> QED
    BY <1>3, <2>1 DEF ApplyCreate
<1>4. ASSUME NEW k \in Kinds, NEW d \in Drifts, Drift(k, d)
      PROVE  \E new \in Objects \cup {Absent} : WriteObj(k, new)
  <2>1. obj[k] \in Objects
    BY <1>4 DEF Drift, TypeInv, TypeOK
  <2>2. Drifted(k, d) \in Objects \cup {Absent}
    BY <2>1, EnvironmentAssumption DEF Drifted, Objects
  <2> QED
    BY <1>4, <2>2 DEF Drift
<1>5. CASE UNCHANGED vars
  BY <1>5 DEF vars
<1>6. CASE ReconcileStep /\ ~ApplyUpdate /\ ~ApplyCreate
  BY <1>6 DEF ReconcileStep, Reconcile, RemoveFinalizer, AddFinalizer, RereadAfterFinalizer,
     ValidateIstioCSRConfig, CannotBuild, ApplyUnchanged, ApplyChanged, RecordInStatus,
     PipelineDone, AnnotateProcessed, HandleReconcileResult, UpdateCondition, RetryOnConflict
<1>7. CASE DeliverCR \/ Requeue \/ UserDeletes \/ APIRecovers
  BY <1>7 DEF DeliverCR, Requeue, UserDeletes, APIRecovers
<1>8. ASSUME NEW s \in Specs, UserCreates(s) \/ UserEdits(s)
      PROVE  UNCHANGED objVars
  BY <1>8 DEF UserCreates, UserEdits
<1>9. ASSUME NEW e \in Outages, NEW scope \in Scopes, APIFails(e, scope)
      PROVE  UNCHANGED objVars
  BY <1>9 DEF APIFails
<1> QED
  BY <1>2, <1>3, <1>4, <1>5, <1>6, <1>7, <1>8, <1>9 DEF Next, System, Environment

(* What can happen to the IstioCSR object.                                 *)
LEMMA CRSteps ==
    ASSUME TypeInv, [Next]_vars
    PROVE  \/ UNCHANGED crVars
           \/ DeliverCR
           \/ Restart
           \/ \E new \in CRs \cup {Absent} : WriteCR(new)
<1>1. pc # "idle" => w \in CRs /\ w # Absent
  BY DEF TypeInv, TypeOK
<1>2. ASSUME pc # "idle", pc # "update", Succeeds, UpdateCR \/ UpdateStatus
      PROVE  \E new \in CRs \cup {Absent} : WriteCR(new)
  <2>1. cr # Absent
    BY <1>2, SucceedsFacts
  <2>2. cr' \in CRs \cup {Absent}
    BY <1>1, <1>2, <2>1, UpdateCRType, UpdateStatusType
  <2>3. WriteCR(cr')
    BY <1>2 DEF UpdateCR, UpdateStatus, WriteCR
  <2> QED
    BY <2>2, <2>3
<1>3. CASE RemoveFinalizer \/ AddFinalizer \/ RecordInStatus \/ AnnotateProcessed \/ UpdateCondition
  BY <1>2, <1>3 DEF RemoveFinalizer, AddFinalizer, RecordInStatus, AnnotateProcessed, UpdateCondition
<1>4. CASE /\ ReconcileStep
           /\ ~(RemoveFinalizer \/ AddFinalizer \/ RecordInStatus \/ AnnotateProcessed
                \/ UpdateCondition)
  BY <1>4 DEF ReconcileStep, Reconcile, RereadAfterFinalizer, ValidateIstioCSRConfig, CannotBuild,
     ApplyUnchanged, ApplyChanged, ApplyUpdate, ApplyCreate, PipelineDone,
     HandleReconcileResult, RetryOnConflict
<1>5. ASSUME (\E s \in Specs : UserCreates(s) \/ UserEdits(s)) \/ UserDeletes
      PROVE  \E new \in CRs \cup {Absent} : WriteCR(new)
  <2>1. TypeInv'
    BY <1>5, TypeNext DEF Next, Environment
  <2>2. cr' \in CRs \cup {Absent}
    BY <2>1 DEF TypeInv, TypeOK
  <2>3. WriteCR(cr')
    BY <1>5 DEF UserCreates, UserEdits, UserDeletes, WriteCR
  <2> QED
    BY <2>2, <2>3
<1>6. CASE Requeue \/ APIRecovers \/ UNCHANGED vars
  BY <1>6 DEF Requeue, APIRecovers, vars
<1>7. ASSUME NEW k \in Kinds, DeliverObj(k) \/ \E d \in Drifts : Drift(k, d)
      PROVE  UNCHANGED crVars
  BY <1>7 DEF DeliverObj, Drift
<1>8. ASSUME NEW e \in Outages, NEW scope \in Scopes, APIFails(e, scope)
      PROVE  UNCHANGED crVars
  BY <1>8 DEF APIFails
<1> QED
  BY <1>3, <1>4, <1>5, <1>6, <1>7, <1>8 DEF Next, System, Environment

(* A write that makes no event is one that no predicate tells of.          *)
LEMMA WriteCRCalm ==
    ASSUME NEW new, WriteCR(new), crLag' # "event"
    PROVE  crLag # "event" /\ SameObject(new, cr)
BY DEF WriteCR, Behind, GenerationChanged, SameObject

(* The same for a managed object.                                          *)
LEMMA WriteObjCalm ==
    ASSUME TypeInv, NEW k \in Kinds, NEW new \in Objects \cup {Absent}, WriteObj(k, new)
    PROVE  /\ \A j \in Kinds \ {k} : objLag'[j] = objLag[j] /\ obj'[j] = obj[j]
           /\ obj'[k] = new
           /\ objLag'[k] = "none" => objLag[k] = "none" /\ Filtered(new) = Filtered(obj[k])
           /\ objLag'[k] # "event" =>
                 objLag[k] # "event" /\ SimilarObject(k, Filtered(obj[k]), Filtered(new))
<1> DEFINE old == Filtered(obj[k])
           now == Filtered(new)
           lag == IF now = old THEN objLag[k]
                  ELSE Behind(objLag[k], PassesPredicates(k, old, now))
<1>1. obj \in [Kinds -> Objects \cup {Absent}] /\ objLag \in [Kinds -> Lags]
  BY DEF TypeInv, TypeOK
<1>2. objLag' = [objLag EXCEPT ![k] = lag] /\ obj' = [obj EXCEPT ![k] = new]
  BY DEF WriteObj
<1>3. lag = "none" => objLag[k] = "none" /\ now = old
  BY DEF Behind
<1>4. lag # "event" => objLag[k] # "event" /\ SimilarObject(k, old, now)
  BY DEF Behind, PassesPredicates, SimilarObject
<1> QED
  BY <1>1, <1>2, <1>3, <1>4

(* In the calm an object in place stays in place.                          *)
LEMMA HoldsKept ==
    ASSUME TypeInv, [Next]_vars, Calm'
    PROVE  \A j \in Kinds, s \in Specs : Holds(j, s) => Holds(j, s)'
<1> SUFFICES ASSUME NEW j \in Kinds, NEW s \in Specs, Holds(j, s)
             PROVE  Holds(j, s)'
  OBVIOUS
<1>1. CASE obj'[j] = obj[j]
  BY <1>1 DEF Holds, HasSpecChanged
<1>2. ASSUME NEW k \in Kinds, NEW new \in Objects \cup {Absent}, WriteObj(k, new)
      PROVE  Holds(j, s)'
  <2>1. CASE j # k
    BY <1>1, <1>2, <2>1, WriteObjCalm
  <2>2. CASE j = k
    <3>1. SimilarObject(k, Filtered(obj[k]), Filtered(new)) /\ obj'[k] = new
      BY <1>2, WriteObjCalm DEF Calm
    <3>2. Filtered(obj[k]) = obj[k] /\ obj[k] # Absent
      BY <2>2 DEF Holds, Filtered
    <3>3. /\ new # Absent /\ new.labels # "stripped" /\ new.content = obj[k].content
          /\ k \notin GenWatched => new.labels = obj[k].labels
      BY <3>1, <3>2 DEF SimilarObject, Filtered
    <3> QED
      BY <2>2, <3>1, <3>3 DEF Holds, HasSpecChanged
  <2> QED
    BY <2>1, <2>2
<1>3. ASSUME NEW k \in Kinds, DeliverObj(k)
      PROVE  obj' = obj
  BY <1>3 DEF DeliverObj
<1>4. CASE UNCHANGED objVars \/ Restart
  BY <1>1, <1>4 DEF objVars, Restart
<1> QED
  BY <1>1, <1>2, <1>3, <1>4, ObjSteps

(* Every step preserves LagInv.                                            *)
LEMMA LagNext == TypeInv /\ LagInv /\ [Next]_vars => LagInv'
<1> SUFFICES ASSUME TypeInv, LagInv, [Next]_vars, NEW j \in Kinds
             PROVE  /\ objLag'[j] = "none" => objCache'[j] = Filtered(obj'[j])
                    /\ objLag'[j] # "event" => SimilarObject(j, objCache'[j], Filtered(obj'[j]))
  BY DEF LagInv, SimilarObject, Filtered
<1>1. /\ objLag[j] = "none" => objCache[j] = Filtered(obj[j])
      /\ objLag[j] # "event" => SimilarObject(j, objCache[j], Filtered(obj[j]))
  BY DEF LagInv
<1>2. \A o : SimilarObject(j, o, o)
  BY DEF SimilarObject
<1>3. CASE UNCHANGED objVars
  BY <1>1, <1>3 DEF objVars
<1>4. ASSUME NEW k \in Kinds, DeliverObj(k)
      PROVE  /\ objLag'[j] = "none" => objCache'[j] = Filtered(obj'[j])
             /\ objLag'[j] # "event" => SimilarObject(j, objCache'[j], Filtered(obj'[j]))
  BY <1>1, <1>2, <1>4 DEF DeliverObj, TypeInv, TypeOK
<1>5. CASE Restart
  BY <1>2, <1>5 DEF Restart
<1>6. ASSUME NEW k \in Kinds, NEW new \in Objects \cup {Absent}, WriteObj(k, new)
      PROVE  /\ objLag'[j] = "none" => objCache'[j] = Filtered(obj'[j])
             /\ objLag'[j] # "event" => SimilarObject(j, objCache'[j], Filtered(obj'[j]))
  <2>1. objCache' = objCache
    BY <1>6 DEF WriteObj
  <2>2. CASE j # k
    BY <1>1, <1>6, <2>1, <2>2, WriteObjCalm
  <2>3. CASE j = k
    <3>1. /\ obj'[j] = new
          /\ objLag'[j] = "none" => objLag[j] = "none" /\ Filtered(new) = Filtered(obj[j])
          /\ objLag'[j] # "event" =>
                 objLag[j] # "event" /\ SimilarObject(j, Filtered(obj[j]), Filtered(new))
      BY <1>6, <2>3, WriteObjCalm
    <3>2. ASSUME NEW a, NEW b, NEW c, SimilarObject(j, a, b), SimilarObject(j, b, c)
          PROVE  SimilarObject(j, a, c)
      BY <3>2 DEF SimilarObject
    <3> QED
      BY <1>1, <2>1, <3>1, <3>2
  <2> QED
    BY <2>2, <2>3
<1> QED
  BY <1>3, <1>4, <1>5, <1>6, ObjSteps

(* Only Reconcile and a restart touch Reconcile's local variables.         *)
LEMMA LocalSteps ==
    ASSUME [Next]_vars, ~ReconcileStep
    PROVE  Restart \/ UNCHANGED recVars
BY DEF Next, System, Environment, DeliverCR, DeliverObj, Requeue, UserCreates, UserEdits,
       UserDeletes, Drift, APIFails, APIRecovers, vars

(* The working copy is of the object the pass has fetched.                 *)
LEMMA WorkingCopy ==
    ASSUME TypeInv, CacheInv, ReconcileStep, pc' # "idle"
    PROVE  /\ UNCHANGED crCache
           /\ pc = "idle" => SameObject(w', crCache)
           /\ pc # "idle" /\ SameObject(w, crCache) => SameObject(w', crCache)
           /\ pc # "idle" => UNCHANGED queue
<1>a. crCache \in CRs \cup {Absent} /\ cr \in CRs \cup {Absent}
  BY DEF TypeInv, TypeOK
<1>b. pc # "idle" => w \in CRs /\ w # Absent
  BY DEF TypeInv, TypeOK
<1>c. \A a : SameObject(a, a)
  BY DEF SameObject
<1>d. ASSUME NEW a \in CRs, NEW b \in CRs, a.spec = b.spec, a.deleting = b.deleting
      PROVE  SameObject(a, crCache) <=> SameObject(b, crCache)
  BY <1>d, AbsentAssumption DEF SameObject
<1>1. CASE Reconcile
  <2>1. /\ crCache # Absent /\ UNCHANGED crCache /\ pc = "idle"
        /\ \/ w' = crCache
           \/ \E f \in BOOLEAN : w' = [crCache EXCEPT !.finalizer = f]
    BY <1>1 DEF Reconcile, Return, crVars
  <2>2. crCache \in CRs
    BY <1>a, <2>1
  <2>3. w' \in CRs /\ w'.spec = crCache.spec /\ w'.deleting = crCache.deleting
    BY <2>1, <2>2 DEF CRs
  <2> QED
    BY <1>c, <1>d, <2>1, <2>2, <2>3
<1>2. CASE RemoveFinalizer \/ AddFinalizer \/ RereadAfterFinalizer
  BY <1>2, <1>c DEF RemoveFinalizer, AddFinalizer, RereadAfterFinalizer, UpdateCR, WriteCR,
     Return, crVars
<1>3. CASE ValidateIstioCSRConfig \/ CannotBuild \/ ApplyChanged \/ RecordInStatus \/ RetryOnConflict
           \/ UpdateCondition
  BY <1>3 DEF ValidateIstioCSRConfig, CannotBuild, ApplyChanged, Applying, RecordInStatus,
     RetryOnConflict, UpdateCondition, WritePoints, FailWith, Return, UpdateStatus, WriteCR, crVars
<1>4. ASSUME StepApplied, pc # "idle", step <= Len(Pipeline)
      PROVE  SameObject(w, crCache) => SameObject(w', crCache)
  <2>1. w' \in CRs /\ w'.spec = w.spec
    BY <1>b, <1>4, StepAppliedType
  <2>2. w'.deleting = w.deleting
    BY <1>b, <1>4 DEF StepApplied, CRs
  <2> QED
    BY <1>b, <1>d, <1>4, <2>1, <2>2
<1>5. CASE ApplyUnchanged \/ ApplyUpdate \/ ApplyCreate
  BY <1>4, <1>5 DEF ApplyUnchanged, ApplyUpdate, ApplyCreate, Applying, FailWith, TypeInv, crVars
<1>6. CASE PipelineDone
  <2>1. w' = w \/ w' = [w EXCEPT !.processed = TRUE]
    BY <1>6 DEF PipelineDone
  <2>2. pc = "apply" /\ UNCHANGED <<crCache, queue>>
    BY <1>6 DEF PipelineDone, crVars
  <2>3. w' \in CRs /\ w'.spec = w.spec /\ w'.deleting = w.deleting
    BY <1>b, <2>1, <2>2 DEF CRs
  <2> QED
    BY <1>b, <1>d, <2>2, <2>3
<1>7. CASE AnnotateProcessed
  <2>1. pc = "annotate" /\ UNCHANGED <<crCache, queue>>
    BY <1>7 DEF AnnotateProcessed, UpdateCR, WriteCR, crVars
  <2>2. CASE Succeeds /\ w' = Replaced
    <3>1. cr # Absent /\ crLag = "none"
      BY <2>1, <2>2, SucceedsFacts
    <3>2. cr \in CRs /\ crCache = cr
      BY <1>a, <3>1 DEF CacheInv
    <3>3. w' \in CRs /\ w'.spec = w.spec /\ w'.deleting = cr.deleting
      BY <1>b, <2>1, <2>2, <3>2 DEF Replaced, CRs
    <3> QED
      BY <2>1, <3>2, <3>3, AbsentAssumption DEF SameObject
  <2>3. CASE FailWith("RetryRequired")
    BY <2>1, <2>3 DEF FailWith
  <2> QED
    BY <1>7, <2>2, <2>3 DEF AnnotateProcessed
<1>8. CASE HandleReconcileResult
  <2>1. w' = [w EXCEPT !.status.conds = ConditionsFor(err)]
    BY <1>8 DEF HandleReconcileResult, Return
  <2>2. pc = "result" /\ UNCHANGED <<crCache, queue>>
    BY <1>8 DEF HandleReconcileResult, crVars
  <2>3. w' \in CRs /\ w'.spec = w.spec /\ w'.deleting = w.deleting
    <3>1. ConditionsFor(err) \in Conditions
      BY ConditionsForType DEF TypeInv, TypeOK
    <3> QED
      BY <1>b, <2>1, <2>2, <3>1 DEF CRs, Statuses
  <2> QED
    BY <1>b, <1>d, <2>2, <2>3
<1> QED
  BY <1>1, <1>2, <1>3, <1>5, <1>6, <1>7, <1>8 DEF ReconcileStep

(* A queued request stays queued until Reconcile takes it, and an event    *)
(* that is delivered queues it.                                            *)
LEMMA QueueKept ==
    ASSUME TypeInv, [Next]_vars, ~Reconcile, ~Restart, ~queue'
    PROVE  /\ ~queue /\ ~Requeue
           /\ DeliverCR => crLag # "event"
           /\ \A k \in Kinds : DeliverObj(k) => objLag[k] # "event"
<1>1. ~Requeue
  BY DEF Requeue
<1>2. DeliverCR => ~queue /\ crLag # "event"
  BY Zenon DEF DeliverCR
<1>3. \A k \in Kinds : DeliverObj(k) => ~queue /\ objLag[k] # "event"
  BY Zenon DEF DeliverObj
<1>4. CASE UNCHANGED queue
  BY <1>1, <1>2, <1>3, <1>4
<1>5. ReconcileStep => UNCHANGED queue
  BY DEF ReconcileStep, RemoveFinalizer, AddFinalizer, RereadAfterFinalizer,
     ValidateIstioCSRConfig, CannotBuild, ApplyUnchanged, ApplyChanged, ApplyUpdate, ApplyCreate,
     RecordInStatus, PipelineDone, AnnotateProcessed, HandleReconcileResult, UpdateCondition,
     RetryOnConflict
<1>6. Environment => UNCHANGED queue
  BY DEF Environment, UserCreates, UserEdits, UserDeletes, Drift, APIFails, APIRecovers
<1>7. CASE UNCHANGED vars
  BY <1>4, <1>7 DEF vars
<1> QED
  BY <1>1, <1>2, <1>3, <1>4, <1>5, <1>6, <1>7 DEF Next, System

(* Every step preserves CopyInv.                                           *)
LEMMA CopyNext == TypeInv /\ CacheInv /\ CopyInv /\ [Next]_vars => CopyInv'
<1> SUFFICES ASSUME TypeInv, CacheInv, CopyInv, [Next]_vars
             PROVE  /\ crLag' # "event" => SameObject(crCache', cr')
                    /\ pc' # "idle" /\ ~queue' => SameObject(w', crCache')
  BY DEF CopyInv, SameObject
<1>a. \A a : SameObject(a, a)
  BY DEF SameObject
<1>b. ASSUME NEW a, NEW b, NEW c, SameObject(a, b), SameObject(b, c)
      PROVE  SameObject(a, c)
  BY <1>b DEF SameObject
<1>c. \A a, b : SameObject(a, b) => SameObject(b, a)
  BY DEF SameObject
<1>d. crLag # "event" => SameObject(crCache, cr)
  BY DEF CopyInv
<1>e. pc # "idle" /\ ~queue => SameObject(w, crCache)
  BY DEF CopyInv
<1>1. crLag' # "event" => SameObject(crCache', cr')
  <2>1. CASE UNCHANGED crVars
    BY <1>d, <2>1 DEF crVars
  <2>2. CASE DeliverCR \/ Restart
    BY <1>a, <2>2 DEF DeliverCR, Restart
  <2>3. ASSUME NEW new, WriteCR(new), crLag' # "event"
        PROVE  SameObject(crCache', cr')
    <3>1. crLag # "event" /\ SameObject(new, cr)
      BY <2>3, WriteCRCalm
    <3>2. SameObject(crCache, new)
      BY <1>b, <1>c, <1>d, <3>1
    <3> QED
      BY <2>3, <3>2 DEF WriteCR
  <2> QED
    BY <2>1, <2>2, <2>3, CRSteps
<1>2. ASSUME pc' # "idle", ~queue'
      PROVE  SameObject(w', crCache')
  <2>1. CASE ReconcileStep
    BY <1>2, <1>e, <2>1, WorkingCopy
  <2>2. CASE ~ReconcileStep
    <3>1. UNCHANGED <<pc, w>>
      BY <1>2, <2>2, LocalSteps DEF Restart, recVars
    <3>2. ~queue /\ (DeliverCR => crLag # "event")
      BY <1>2, <2>2, QueueKept DEF ReconcileStep, Restart
    <3>3. SameObject(w, crCache)
      BY <1>2, <1>e, <3>1, <3>2
    <3>4. CASE DeliverCR
      <4>1. SameObject(crCache, cr) /\ crCache' = cr
        BY <1>d, <3>2, <3>4 DEF DeliverCR
      <4> QED
        BY <1>b, <3>1, <3>3, <4>1
    <3>5. CASE UNCHANGED crCache
      BY <3>1, <3>3, <3>5
    <3>6. UNCHANGED crCache \/ DeliverCR
      BY <1>2, CRSteps DEF crVars, WriteCR, Restart
    <3> QED
      BY <3>4, <3>5, <3>6
  <2> QED
    BY <2>1, <2>2
<1> QED
  BY <1>1, <1>2

(* Every step preserves StageInv.                                          *)
LEMMA StageNext == TypeInv /\ StageInv /\ [Next]_vars => StageInv'
<1> SUFFICES ASSUME TypeInv, StageInv, [Next]_vars
             PROVE  StageInv'
  OBVIOUS
<1> USE DEF StageInv
<1>a. pc # "idle" => w \in CRs /\ w # Absent
  BY DEF TypeInv, TypeOK
<1>b. CASE UNCHANGED recVars
  BY <1>b DEF recVars
<1>c. \A e : FromClientError(e) # "nil"
  BY ClientFacts
<1>1. CASE Reconcile
  BY <1>1 DEF Reconcile, Return, Goto, TypeInv, TypeOK, CRs
<1>2. CASE RemoveFinalizer \/ AddFinalizer \/ RereadAfterFinalizer
  BY <1>2 DEF RemoveFinalizer, AddFinalizer, RereadAfterFinalizer, Return, Goto
<1>3. CASE ValidateIstioCSRConfig \/ CannotBuild \/ ApplyChanged
  BY <1>3 DEF ValidateIstioCSRConfig, CannotBuild, ApplyChanged, Applying, FailWith, Goto
<1>4. ASSUME StepApplied, pc \in {"apply", "update"}, step <= Len(Pipeline), UNCHANGED err
      PROVE  StageInv'
  BY <1>a, <1>4, StepAppliedType
<1>5. CASE ApplyUnchanged
  BY <1>4, <1>5 DEF ApplyUnchanged, Applying
<1>6. CASE ApplyUpdate
  BY <1>c, <1>4, <1>6 DEF ApplyUpdate, FailWith, Goto, TypeInv
<1>7. CASE ApplyCreate
  BY <1>c, <1>4, <1>7 DEF ApplyCreate, Applying, FailWith, Goto
<1>8. CASE RecordInStatus
  BY <1>c, <1>8 DEF RecordInStatus, FailWith, Goto
<1>9. CASE PipelineDone
  BY <1>9 DEF PipelineDone, Goto
<1>10. CASE AnnotateProcessed
  BY <1>10 DEF AnnotateProcessed, FailWith, Goto
<1>11. CASE HandleReconcileResult
  <2>1. ConditionsFor(err) \in Conditions
    BY ConditionsForType DEF TypeInv, TypeOK
  <2>2. [w EXCEPT !.status.conds = ConditionsFor(err)].status.conds = ConditionsFor(err)
    BY <1>a, <1>11, <2>1, CondsUpdate DEF HandleReconcileResult
  <2> QED
    BY <1>11, <2>2 DEF HandleReconcileResult, Return, Goto
<1>12. CASE UpdateCondition
  BY <1>12 DEF UpdateCondition, Return
<1>13. CASE RetryOnConflict
  BY <1>13 DEF RetryOnConflict
<1>14. CASE Restart
  BY <1>14 DEF Restart
<1> QED
  BY <1>b, <1>1, <1>2, <1>3, <1>5, <1>6, <1>7, <1>8, <1>9, <1>10, <1>11, <1>12, <1>13, <1>14,
     LocalSteps DEF ReconcileStep

(* Only a pass that begins, or a restart, brings the calm back.            *)
LEMMA CalmKept ==
    ASSUME TypeInv, [Next]_vars, ~Reconcile, ~Restart, Calm'
    PROVE  Calm
<1>1. ~queue
  BY QueueKept DEF Calm
<1>2. crLag # "event"
  <2>1. CASE UNCHANGED crVars
    BY <2>1 DEF crVars, Calm
  <2>2. CASE DeliverCR
    BY <2>2, QueueKept DEF Calm
  <2>3. ASSUME NEW new, WriteCR(new)
        PROVE  crLag # "event"
    BY <2>3, WriteCRCalm DEF Calm
  <2> QED
    BY <2>1, <2>2, <2>3, CRSteps
<1>3. ASSUME NEW j \in Kinds
      PROVE  objLag[j] # "event"
  <2>1. objLag'[j] # "event"
    BY DEF Calm
  <2>2. CASE UNCHANGED objVars
    BY <2>1, <2>2 DEF objVars
  <2>3. ASSUME NEW k \in Kinds, DeliverObj(k)
        PROVE  objLag[j] # "event"
    <3>1. objLag[k] # "event"
      BY <2>3, QueueKept DEF Calm
    <3> QED
      BY <2>1, <2>3, <3>1 DEF DeliverObj, TypeInv, TypeOK
  <2>4. ASSUME NEW k \in Kinds, NEW new \in Objects \cup {Absent}, WriteObj(k, new)
        PROVE  objLag[j] # "event"
    BY <2>1, <2>4, WriteObjCalm
  <2> QED
    BY <2>2, <2>3, <2>4, ObjSteps
<1> QED
  BY <1>1, <1>2, <1>3 DEF Calm

(* In the calm nobody but Reconcile writes the IstioCSR object: whatever a *)
(* user does to it makes an event.                                         *)
LEMMA CalmOutside ==
    ASSUME TypeInv, [Next]_vars, ~ReconcileStep, Calm'
    PROVE  UNCHANGED cr
<1>1. crLag' # "event"
  BY DEF Calm
<1>2. ASSUME NEW s \in Specs
      PROVE  ~UserCreates(s) /\ ~UserEdits(s)
  <2>1. CASE UserCreates(s)
    <3>1. cr = Absent /\ crLag' # "event"
      BY <1>1, <2>1 DEF UserCreates
    <3>2. PICK new : WriteCR(new) /\ new # Absent
      <4> DEFINE new == [uid |-> created + 1, spec |-> s, deleting |-> FALSE,
                         finalizer |-> FALSE, processed |-> FALSE, status |-> EmptyStatus]
      <4>1. WriteCR(new)
        BY <2>1 DEF UserCreates
      <4>2. new \in CRs
        <5>1. created \in 0..MaxInstances /\ created < MaxInstances
          BY <2>1 DEF UserCreates, TypeInv, TypeOK
        <5>2. created + 1 \in 1..MaxInstances
          BY <5>1, BoundsAssumption
        <5>3. EmptyStatus \in Statuses
          BY DEF EmptyStatus, Statuses, NoConditions, Conditions, ReadyReasons, DegradedReasons
        <5> QED
          BY <5>2, <5>3 DEF CRs
      <4> QED
        BY <4>1, <4>2, AbsentAssumption
    <3> QED
      BY <3>1, <3>2, WriteCRCalm DEF SameObject
  <2>2. CASE UserEdits(s)
    <3>1. WriteCR([cr EXCEPT !.spec = s]) /\ cr \in CRs /\ s # cr.spec
      BY <2>2 DEF UserEdits, TypeInv, TypeOK
    <3>2. SameObject([cr EXCEPT !.spec = s], cr)
      BY <1>1, <3>1, WriteCRCalm
    <3>3. [cr EXCEPT !.spec = s] \in CRs /\ [cr EXCEPT !.spec = s].spec = s
      BY <3>1 DEF CRs
    <3> QED
      BY <3>1, <3>2, <3>3, AbsentAssumption DEF SameObject
  <2> QED
    BY <2>1, <2>2
<1>3. CASE UserDeletes
  <2> DEFINE new == IF cr.finalizer THEN [cr EXCEPT !.deleting = TRUE] ELSE Absent
  <2>1. WriteCR(new) /\ cr \in CRs /\ ~cr.deleting
    BY <1>3 DEF UserDeletes, TypeInv, TypeOK
  <2>2. SameObject(new, cr)
    BY <1>1, <2>1, WriteCRCalm
  <2>3. [cr EXCEPT !.deleting = TRUE].deleting
    BY <2>1 DEF CRs
  <2> QED
    BY <2>1, <2>2, <2>3, AbsentAssumption DEF SameObject
<1> QED
  BY <1>2, <1>3 DEF Next, System, Environment, DeliverCR, DeliverObj, Requeue,
     Drift, APIFails, APIRecovers, Restart, vars, crVars

(* Holds as a predicate of the object alone.                               *)
Good(o, k, s) ==
    /\ o # Absent /\ o.labels # "stripped"
    /\ ~HasSpecChanged([content |-> s, labels |-> "ok"], o)
    /\ k \notin GenWatched => o.labels = "ok"

(* In the calm an object that is as it should be stays so.                 *)
LEMMA GoodKept ==
    ASSUME TypeInv, [Next]_vars, Calm'
    PROVE  \A j \in Kinds, s \in Specs : Good(obj[j], j, s) => Good(obj'[j], j, s)
BY HoldsKept DEF Holds, Good, HasSpecChanged

(* An object the controller has just written is as it should be.           *)
LEMMA DesiredGood ==
    ASSUME w \in CRs, NEW k
    PROVE  Good(Desired, k, w.spec)
<1>1. w.spec \in Specs /\ Desired \in Objects /\ Desired.content = w.spec /\ Desired.labels = "ok"
  BY DesiredType DEF CRs, Desired
<1> QED
  BY <1>1, SpecsAssumption, AbsentAssumption DEF Good, HasSpecChanged

(* So is, in the calm, an object that the comparison with the cache finds  *)
(* unchanged.                                                              *)
LEMMA UnchangedGood ==
    ASSUME LagInv, Calm, NEW k \in Kinds, objCache[k] # Absent,
           ~HasObjectChanged(Desired, objCache[k])
    PROVE  Good(obj[k], k, w.spec)
<1>1. SimilarObject(k, objCache[k], Filtered(obj[k]))
  BY DEF LagInv, Calm
<1>2. obj[k] # Absent /\ obj[k].labels # "stripped" /\ Filtered(obj[k]) = obj[k]
  BY <1>1 DEF SimilarObject, Filtered
<1>3. objCache[k].content = obj[k].content /\ (k \notin GenWatched => objCache[k].labels = obj[k].labels)
  BY <1>1, <1>2 DEF SimilarObject
<1>4. objCache[k].labels = "ok" /\ ~HasSpecChanged(Desired, objCache[k])
  BY DEF HasObjectChanged, Desired
<1> QED
  BY <1>2, <1>3, <1>4 DEF Good, HasSpecChanged, Desired

(* What StepApplied makes of the work of the steps before it.              *)
LEMMA StepAppliedDone ==
    ASSUME TypeInv, [Next]_vars, DoneInv, Calm, Calm', pc \in {"apply", "update"}, err = "nil",
           step <= Len(Pipeline), Good(obj'[Kind], Kind, w.spec), StepApplied, UNCHANGED cr
    PROVE  DoneInv'
<1>1. w \in CRs /\ w.spec \in Specs /\ Kind \in Kinds /\ Pipeline \in Seq(Kinds)
  BY KindType, PipelineAssumption DEF TypeInv, TypeOK, CRs
<1>2. step \in 1..(Len(Pipeline) + 1) /\ Len(Pipeline) \in Nat
  BY <1>1 DEF TypeInv, TypeOK
<1>3. w'.spec = w.spec /\ w'.status.conds = w.status.conds
  BY <1>1, StepAppliedType DEF TypeInv
<1>4. ASSUME NEW i \in 1..(step - 1)
      PROVE  Good(obj'[Pipeline[i]], Pipeline[i], w.spec)
  <2>1. Pipeline[i] \in Kinds
    BY <1>1, <1>2
  <2>2. Good(obj[Pipeline[i]], Pipeline[i], w.spec)
    BY DEF DoneInv, Holds, Good
  <2> QED
    BY <1>1, <2>1, <2>2, GoodKept
<1>5. Recorded => cr # Absent /\ cr.status.conds = w.status.conds
  BY DEF DoneInv
<1>6. CASE RecordsStatus(Kind)
  <2>1. pc' = "record" /\ step' = step
    BY <1>6 DEF StepApplied, Goto
  <2> QED
    BY <1>3, <1>4, <1>5, <2>1 DEF DoneInv, Holds, Good, Recorded, Kind
<1>7. CASE ~RecordsStatus(Kind)
  <2>1. pc' = "apply" /\ step' = step + 1 /\ Pipeline[step] \notin RecordAlways
    BY <1>7 DEF StepApplied, Goto, RecordsStatus, Kind
  <2>2. \A i \in 1..(step' - 1) : i \in 1..(step - 1) \/ i = step
    BY <1>2, <2>1
  <2>3. Recorded' => Recorded
    BY <2>1, <2>2 DEF Recorded
  <2>4. \A i \in 1..(step' - 1) : Good(obj'[Pipeline[i]], Pipeline[i], w.spec)
    BY <1>4, <2>2 DEF Kind
  <2> QED
    BY <1>3, <1>5, <2>1, <2>3, <2>4 DEF DoneInv, Holds, Good
<1> QED
  BY <1>6, <1>7

(* A step of the pass that leaves the position in the pipeline, the spec   *)
(* of the working copy and its agreement with the live status alone.       *)
LEMMA SamePlaceDone ==
    ASSUME TypeInv, [Next]_vars, DoneInv, Calm' => Calm, pc # "idle", err' = "nil" => err = "nil",
           UNCHANGED step, w'.spec = w.spec, pc' = "record" => pc = "record",
           (Calm' /\ pc' # "publish" /\ Recorded) =>
               \/ cr' # Absent /\ cr'.status.conds = w'.status.conds
               \/ UNCHANGED cr /\ w'.status.conds = w.status.conds /\ pc # "publish"
    PROVE  DoneInv'
<1> SUFFICES ASSUME pc' # "idle", err' = "nil", Calm'
             PROVE  /\ \A i \in 1..(step' - 1) : Good(obj'[Pipeline[i]], Pipeline[i], w'.spec)
                    /\ pc' = "record" => Good(obj'[Pipeline[step']], Pipeline[step'], w'.spec)
                    /\ (\E i \in 1..(step' - 1) : Pipeline[i] \in RecordAlways) /\ pc' # "publish" =>
                          cr' # Absent /\ cr'.status.conds = w'.status.conds
  BY DEF DoneInv, Holds, Good, Recorded, Kind
<1>1. w \in CRs /\ w.spec \in Specs /\ Pipeline \in Seq(Kinds)
  BY PipelineAssumption DEF TypeInv, TypeOK, CRs
<1>2. step \in 1..(Len(Pipeline) + 1) /\ Len(Pipeline) \in Nat
  BY <1>1 DEF TypeInv, TypeOK
<1>3. /\ \A i \in 1..(step - 1) : Good(obj[Pipeline[i]], Pipeline[i], w.spec)
      /\ pc = "record" => Good(obj[Pipeline[step]], Pipeline[step], w.spec)
      /\ Recorded /\ pc # "publish" => cr # Absent /\ cr.status.conds = w.status.conds
  BY DEF DoneInv, Holds, Good, Kind
<1>4. \A i \in 1..(step - 1) : Pipeline[i] \in Kinds
  BY <1>1, <1>2
<1>5. \A i \in 1..(step - 1) : Good(obj'[Pipeline[i]], Pipeline[i], w.spec)
  BY <1>1, <1>3, <1>4, GoodKept
<1>6. pc = "record" => Good(obj'[Pipeline[step]], Pipeline[step], w.spec)
  <2>1. pc = "record" => Pipeline[step] \in Kinds
    BY <1>1, <1>2 DEF TypeInv
  <2> QED
    BY <1>1, <1>3, <2>1, GoodKept
<1> QED
  BY <1>3, <1>5, <1>6 DEF Recorded

(* Every step preserves DoneInv.                                           *)
LEMMA DoneNext ==
    TypeInv /\ CacheInv /\ CopyInv /\ LagInv /\ StageInv /\ DoneInv /\ [Next]_vars => DoneInv'
<1> SUFFICES ASSUME TypeInv, CacheInv, CopyInv, LagInv, StageInv, DoneInv, [Next]_vars,
                    pc' # "idle", err' = "nil", Calm'
             PROVE  DoneInv'
  BY DEF DoneInv
<1>a. pc # "idle" => w \in CRs /\ w # Absent
  BY DEF TypeInv, TypeOK
<1>b. ~Restart
  BY DEF Restart
<1>c. ~Reconcile => Calm
  BY <1>b, CalmKept
<1>d. \A e : FromClientError(e) # "nil"
  BY ClientFacts
<1>e. ASSUME step' = 1, pc' # "record"
      PROVE  DoneInv'
  BY <1>e DEF DoneInv, Recorded
<1>1. CASE Reconcile
  BY <1>1, <1>e DEF Reconcile, Return, Goto, StageInv
<1>2. CASE RemoveFinalizer \/ AddFinalizer \/ RereadAfterFinalizer \/ ValidateIstioCSRConfig
  BY <1>2, <1>e DEF RemoveFinalizer, AddFinalizer, RereadAfterFinalizer, ValidateIstioCSRConfig,
     Return, Goto, FailWith, StageInv
<1>3. CASE CannotBuild \/ UpdateCondition
  BY <1>3 DEF CannotBuild, UpdateCondition, FailWith, Return
<1>4. CASE ApplyUnchanged
  <2>1. pc = "apply" /\ err = "nil" /\ step <= Len(Pipeline) /\ StepApplied /\ UNCHANGED <<cr, obj>>
    BY <1>4 DEF ApplyUnchanged, Applying, crVars, objVars
  <2>2. Calm /\ Kind \in Kinds
    BY <1>c, <2>1, KindType DEF Reconcile
  <2>3. Good(obj[Kind], Kind, w.spec)
    BY <1>4, <2>2, UnchangedGood DEF ApplyUnchanged
  <2>4. Good(obj'[Kind], Kind, w.spec)
    BY <2>1, <2>3
  <2> QED
    BY <2>1, <2>2, <2>4, StepAppliedDone
<1>5. CASE ApplyChanged
  <2>1. pc = "apply" /\ pc' = "update" /\ UNCHANGED <<cr, w, step, err>>
    BY <1>5 DEF ApplyChanged, Applying, Goto, crVars
  <2> QED
    BY <1>c, <2>1, SamePlaceDone DEF Reconcile
<1>6. ASSUME WriteObj(Kind, Desired), StepApplied, UNCHANGED <<cr, err>>, step <= Len(Pipeline),
             pc \in {"apply", "update"}
      PROVE  DoneInv'
  <2>1. Calm /\ Kind \in Kinds
    BY <1>c, <1>6, KindType DEF Reconcile
  <2>2. obj'[Kind] = Desired
    BY <1>6, <2>1 DEF WriteObj, TypeInv, TypeOK
  <2>3. Good(obj'[Kind], Kind, w.spec)
    BY <1>a, <1>6, <2>2, DesiredGood
  <2> QED
    BY <1>6, <2>1, <2>3, StepAppliedDone
<1>7. CASE ApplyUpdate
  BY <1>7, <1>6, <1>d DEF ApplyUpdate, FailWith, TypeInv, crVars
<1>8. CASE ApplyCreate
  BY <1>8, <1>6, <1>d DEF ApplyCreate, Applying, FailWith, crVars
<1>9. CASE RecordInStatus
  <2>1. /\ pc = "record" /\ pc' = "apply" /\ Succeeds /\ UpdateStatus /\ step' = step + 1
        /\ UNCHANGED <<w, err, obj>>
    BY <1>9, <1>d DEF RecordInStatus, FailWith, Goto, objVars
  <2>2. w \in CRs /\ w.spec \in Specs /\ Kind \in Kinds /\ step <= Len(Pipeline) /\ Calm
    BY <1>a, <1>c, <2>1, KindType DEF TypeInv, CRs, Reconcile
  <2>3. step \in 1..(Len(Pipeline) + 1) /\ Len(Pipeline) \in Nat
    BY PipelineAssumption DEF TypeInv, TypeOK
  <2>4. /\ \A i \in 1..(step - 1) : Good(obj[Pipeline[i]], Pipeline[i], w.spec)
        /\ Good(obj[Pipeline[step]], Pipeline[step], w.spec)
    BY <2>1, <2>2 DEF DoneInv, Holds, Good, Kind
  <2>5. \A i \in 1..(step' - 1) : i \in 1..(step - 1) \/ i = step
    BY <2>1, <2>3
  <2>6. \A i \in 1..(step' - 1) : Good(obj'[Pipeline[i]], Pipeline[i], w'.spec)
    BY <2>1, <2>4, <2>5
  <2>7. cr' # Absent /\ cr'.status = w'.status
    <3>1. cr # Absent /\ cr \in CRs
      BY <2>1, SucceedsFacts DEF TypeInv, TypeOK
    <3>2. cr' = [cr EXCEPT !.status = w.status]
      BY <2>1 DEF UpdateStatus, WriteCR
    <3>3. w.status \in Statuses
      BY <2>2 DEF CRs
    <3>4. cr' \in CRs /\ cr'.status = w.status
      BY <3>1, <3>2, <3>3 DEF CRs
    <3> QED
      BY <2>1, <3>4, AbsentAssumption
  <2> QED
    BY <2>1, <2>6, <2>7 DEF DoneInv, Holds, Good
<1>10. CASE PipelineDone
  <2>1. pc = "apply" /\ pc' \in {"result", "annotate"} /\ UNCHANGED <<cr, step, err>>
    BY <1>10 DEF PipelineDone, Goto, crVars
  <2>2. w' = w \/ w' = [w EXCEPT !.processed = TRUE]
    BY <1>10 DEF PipelineDone
  <2>3. w'.spec = w.spec /\ w'.status = w.status
    BY <1>a, <2>1, <2>2 DEF CRs
  <2> QED
    BY <1>c, <2>1, <2>3, SamePlaceDone DEF Reconcile
<1>11. CASE AnnotateProcessed
  <2>1. /\ pc = "annotate" /\ pc' = "result" /\ Succeeds /\ UpdateCR /\ w' = Replaced
        /\ UNCHANGED <<step, err>>
    BY <1>11 DEF AnnotateProcessed, FailWith, Goto
  <2>2. cr # Absent /\ cr \in CRs /\ w \in CRs
    BY <1>a, <2>1, SucceedsFacts DEF TypeInv, TypeOK
  <2>3. w' \in CRs /\ w'.spec = w.spec /\ w' # Absent
    BY <2>1, <2>2, AbsentAssumption DEF Replaced, CRs
  <2>4. PICK new : WriteCR(new) /\ (new = Absent \/ new = Replaced)
    BY <2>1 DEF UpdateCR
  <2>5. SameObject(new, cr)
    BY <2>4, WriteCRCalm DEF Calm
  <2>6. cr' = w'
    BY <2>1, <2>2, <2>4, <2>5 DEF SameObject, WriteCR
  <2> QED
    BY <1>c, <2>1, <2>3, <2>6, SamePlaceDone DEF Reconcile
<1>12. CASE HandleReconcileResult
  <2>1. /\ pc = "result" /\ pc' = "publish" /\ UNCHANGED <<step, err>>
        /\ w' = [w EXCEPT !.status.conds = ConditionsFor(err)]
    BY <1>12 DEF HandleReconcileResult, Return, Goto
  <2>2. w'.spec = w.spec
    BY <1>a, <2>1 DEF CRs
  <2> QED
    BY <1>c, <2>1, <2>2, SamePlaceDone DEF Reconcile
<1>13. CASE RetryOnConflict
  <2>1. pc # "idle" /\ UNCHANGED <<pc, w, step, err, cr>>
    BY <1>13 DEF RetryOnConflict, WritePoints, crVars
  <2> QED
    BY <1>c, <2>1, SamePlaceDone DEF Reconcile
<1>14. CASE ~ReconcileStep
  <2>1. UNCHANGED <<pc, w, step, err>>
    BY <1>14, <1>b, LocalSteps DEF recVars
  <2>2. UNCHANGED cr
    BY <1>14, CalmOutside
  <2> QED
    BY <1>c, <2>1, <2>2, SamePlaceDone DEF Reconcile
<1> QED
  BY <1>1, <1>2, <1>3, <1>4, <1>5, <1>7, <1>8, <1>9, <1>10, <1>11, <1>12, <1>13, <1>14
     DEF ReconcileStep

(* Every step preserves RestInv.                                           *)
LEMMA RestNext ==
    TypeInv /\ DelInv /\ ReportInv /\ [Next]_vars => RestInv'
<1> SUFFICES ASSUME TypeInv, DelInv, CopyInv, LagInv, StageInv, DoneInv, RestInv, [Next]_vars,
                    pc' = "idle", Calm', ~delayed', cr' # Absent, ~misled'
             PROVE  /\ cr'.status.conds.ready = "Ready" \/ cr'.status.conds.degraded = "Failed"
                    /\ cr'.status.conds.ready = "Ready" =>
                          \A i \in 1..Len(Pipeline) : Good(obj'[Pipeline[i]], Pipeline[i], cr'.spec)
  BY DEF ReportInv, RestInv, IsReady, IsDegraded, Holds, Good
<1> DEFINE Goal == /\ cr'.status.conds.ready = "Ready" \/ cr'.status.conds.degraded = "Failed"
                   /\ cr'.status.conds.ready = "Ready" =>
                         \A i \in 1..Len(Pipeline) : Good(obj'[Pipeline[i]], Pipeline[i], cr'.spec)
<1>a. pc # "idle" => w \in CRs /\ w # Absent
  BY DEF TypeInv, TypeOK
<1>b. CacheInv
  BY DEF DelInv
<1>c. \A i \in 1..Len(Pipeline) : Pipeline[i] \in Kinds
  BY PipelineAssumption
<1>d. Len(Pipeline) \in Nat /\ ((Len(Pipeline) + 1) - 1) = Len(Pipeline)
  BY PipelineAssumption
<1>1. ~Restart
  BY Zenon DEF Restart, Calm
<1>2. CASE Reconcile
  <2>1. crLag # "event" /\ UNCHANGED <<cr, crCache>>
    BY <1>2 DEF Reconcile, crVars, Calm
  <2>2. crCache # Absent
    BY <2>1 DEF CopyInv, SameObject
  <2> QED
    BY <1>2, <1>b, <2>2 DEF Reconcile, Goto, CacheInv, Held
<1>3. CASE RemoveFinalizer
  <2>1. pc = "unfinalize" /\ Succeeds /\ UpdateCR /\ ~queue
    BY <1>3 DEF RemoveFinalizer, Return, Calm
  <2>2. cr # Absent /\ cr \in CRs /\ crCache = cr /\ w \in CRs
    BY <1>a, <1>b, <2>1, SucceedsFacts DEF CacheInv, TypeInv, TypeOK
  <2>3. SameObject(w, cr) /\ w.deleting /\ ~w.finalizer
    BY <2>1, <2>2 DEF CopyInv, StageInv, DelInv
  <2>4. Replaced.deleting /\ ~Replaced.finalizer
    BY <2>2, <2>3, AbsentAssumption DEF SameObject, Replaced, CRs
  <2> QED
    BY <2>1, <2>4 DEF UpdateCR, WriteCR
<1>4. CASE AddFinalizer \/ RereadAfterFinalizer
  BY <1>4 DEF AddFinalizer, RereadAfterFinalizer, Return, Goto
(* A pass that ends without a retry: what it found and what it reports.    *)
<1>5. ASSUME ~Reconcile, pc \in {"result", "publish"}, err # "RetryRequired",
             cr'.status.conds = ConditionsFor(err), cr'.spec = w.spec
      PROVE  Goal
  <2>1. Calm /\ err \in {"nil", "Irrecoverable"}
    BY <1>1, <1>5, CalmKept DEF TypeInv, TypeOK, ReconcileErrors
  <2>2. CASE err = "Irrecoverable"
    BY <1>5, <2>2 DEF ConditionsFor, IsIrrecoverableError
  <2>3. CASE err = "nil"
    <3>1. step = Len(Pipeline) + 1
      BY <1>5, <2>3 DEF StageInv
    <3>2. \A i \in 1..Len(Pipeline) : Good(obj[Pipeline[i]], Pipeline[i], w.spec)
      BY <1>5, <1>d, <2>1, <2>3, <3>1 DEF DoneInv, Holds, Good
    <3>3. w.spec \in Specs
      BY <1>a, <1>5 DEF CRs
    <3>4. \A i \in 1..Len(Pipeline) : Good(obj'[Pipeline[i]], Pipeline[i], w.spec)
      BY <1>c, <3>2, <3>3, GoodKept
    <3> QED
      BY <1>5, <2>3, <3>4 DEF ConditionsFor
  <2> QED
    BY <2>1, <2>2, <2>3
(* In the calm the working copy has the live spec.                         *)
<1>6. ASSUME pc # "idle", Calm, cr # Absent
      PROVE  cr.spec = w.spec
  BY <1>6 DEF CopyInv, SameObject, Calm
<1>7. CASE HandleReconcileResult
  <2>1. /\ pc = "result" /\ ~ConditionsChanged(w.status.conds, err)
        /\ Return(Requeues(err, TRUE)) /\ UNCHANGED cr
    BY <1>7 DEF HandleReconcileResult, Goto, crVars
  <2>2. ~Reconcile /\ Calm /\ cr # Absent
    BY <1>1, <2>1, CalmKept DEF Reconcile
  <2>3. err # "RetryRequired" /\ ~Misled
    BY <2>1 DEF Return, Requeues
  <2>4. cr.status.conds = w.status.conds
    <3>1. CASE err = "nil"
      <4>1. step = Len(Pipeline) + 1
        BY <2>1, <3>1 DEF StageInv
      <4>2. Recorded
        BY <1>d, <4>1, PipelineAssumption DEF Recorded
      <4> QED
        BY <2>1, <2>2, <3>1, <4>2 DEF DoneInv
    <3>2. CASE err = "Irrecoverable"
      BY <2>1, <2>2, <2>3, <3>2 DEF Misled
    <3> QED
      BY <2>3, <3>1, <3>2 DEF TypeInv, TypeOK, ReconcileErrors
  <2> QED
    BY <1>5, <1>6, <2>1, <2>2, <2>3, <2>4 DEF ConditionsChanged
<1>8. CASE UpdateCondition
  <2>1. pc = "publish" /\ Succeeds /\ UpdateStatus /\ Return(Requeues(err, TRUE))
    BY <1>8, ClientFacts DEF UpdateCondition, Return
  <2>2. ~Reconcile /\ Calm /\ cr # Absent /\ cr \in CRs /\ w \in CRs
    BY <1>a, <1>1, <2>1, CalmKept, SucceedsFacts DEF Reconcile, TypeInv, TypeOK
  <2>3. err # "RetryRequired"
    BY <2>1 DEF Return, Requeues
  <2>4. cr' = [cr EXCEPT !.status = w.status] /\ w.status \in Statuses
    BY <2>1, <2>2 DEF UpdateStatus, WriteCR, CRs
  <2>5. cr'.spec = cr.spec /\ cr'.status = w.status
    BY <2>2, <2>4 DEF CRs
  <2>6. w.status.conds = ConditionsFor(err)
    BY <2>1 DEF StageInv
  <2> QED
    BY <1>5, <1>6, <2>1, <2>2, <2>3, <2>5, <2>6
<1>9. CASE ~ReconcileStep
  <2>1. UNCHANGED <<pc, misled, cr>>
    BY <1>1, <1>9, LocalSteps, CalmOutside DEF recVars
  <2>2. Calm /\ ~Requeue
    BY <1>1, <1>9, CalmKept, QueueKept DEF ReconcileStep, Calm
  <2>3. ~delayed
    BY <1>1, <1>9, <2>2 DEF Next, System, Environment, DeliverCR, DeliverObj, UserCreates,
       UserEdits, UserDeletes, Drift, APIFails, APIRecovers, vars
  <2>4. /\ cr.status.conds.ready = "Ready" \/ cr.status.conds.degraded = "Failed"
        /\ cr.status.conds.ready = "Ready" =>
              \A i \in 1..Len(Pipeline) : Good(obj[Pipeline[i]], Pipeline[i], cr.spec)
    BY <2>1, <2>2, <2>3 DEF RestInv, IsReady, IsDegraded, Holds, Good
  <2>5. cr.spec \in Specs
    BY <2>1 DEF TypeInv, TypeOK, CRs
  <2> QED
    BY <1>c, <2>1, <2>4, <2>5, GoodKept
<1>10. CASE /\ ReconcileStep
            /\ ~(Reconcile \/ RemoveFinalizer \/ AddFinalizer \/ RereadAfterFinalizer
                 \/ HandleReconcileResult \/ UpdateCondition)
  <2>1. ASSUME StepApplied
        PROVE  pc' # "idle"
    BY <2>1 DEF StepApplied, Goto
  <2> QED
    BY <1>10, <2>1 DEF ReconcileStep, ValidateIstioCSRConfig, CannotBuild, ApplyUnchanged,
       ApplyChanged, ApplyUpdate, ApplyCreate, RecordInStatus, PipelineDone, AnnotateProcessed,
       RetryOnConflict, FailWith, Goto, WritePoints
<1> QED
  BY <1>2, <1>3, <1>4, <1>7, <1>8, <1>9, <1>10

(* What the pass has established and what it reports go together in every  *)
(* reachable state.                                                        *)
LEMMA ReportInvariant == Spec => []ReportInv
<1>1. Init => ReportInv
  BY DEF Init, ReportInv, CopyInv, SameObject, LagInv, SimilarObject, Filtered, StageInv, DoneInv,
     RestInv
<1>2. Init => DelInv
  BY DEF Init, DelInv, CacheInv, Deleting, Held
<1>3. TypeInv /\ DelInv /\ ReportInv /\ [Next]_vars => ReportInv'
  <2> SUFFICES ASSUME TypeInv, DelInv, ReportInv, [Next]_vars
               PROVE  ReportInv'
    OBVIOUS
  <2>1. CacheInv /\ CopyInv /\ LagInv /\ StageInv /\ DoneInv
    BY DEF DelInv, ReportInv
  <2> QED
    BY <2>1, CopyNext, LagNext, StageNext, DoneNext, RestNext DEF ReportInv
<1> QED
  BY <1>1, <1>2, <1>3, TypeInvariant, DelNext, PTL DEF Spec

(* The controller never comes to rest without a word: whatever was edited, *)
(* lost, refused or restarted, an IstioCSR nobody will look at again is    *)
(* reported Ready or Degraded, unless the last pass failed for good and    *)
(* took an old status for the live one.                                    *)
THEOREM NeverSilent == Spec => []NoSilentRest
<1>1. ReportInv => NoSilentRest
  BY DEF ReportInv, RestInv, NoSilentRest, Quiescent, Synced, Calm
<1> QED
  BY <1>1, ReportInvariant, PTL

(* Ready is true at rest: every managed object is there and is that of the *)
(* current spec, in what the comparison sees and the watches tell of, for  *)
(* every pipeline, digest, drift and API error.                            *)
THEOREM ReadyIsInstalled == Spec => []ReadyIsTrue
<1>1. ReportInv => ReadyIsTrue
  BY DEF ReportInv, RestInv, ReadyIsTrue, Quiescent, Synced, Calm
<1> QED
  BY <1>1, ReportInvariant, PTL

=============================================================================
