------------------------- MODULE IstioCSRRBAC_proofs -------------------------
(***************************************************************************)
(* Proofs about the ClusterRole and the ClusterRoleBinding of the IstioCSR *)
(* controller, for any number of generated names and of disturbances and   *)
(* any errors of the API server.                                           *)
(***************************************************************************)
EXTENDS IstioCSRRBAC, TLAPS

-----------------------------------------------------------------------------
(***************************************************************************)
(* Types.                                                                  *)
(***************************************************************************)
LEMMA StatusFacts ==
    ASSUME NEW s \in Statuses
    PROVE  /\ s.name \in [Kinds -> AnyName] /\ s.conds \in Conditions
           /\ \A k \in Kinds : s.name[k] \in AnyName
           /\ \A k \in Kinds, n \in AnyName :
                 /\ [s EXCEPT !.name[k] = n] \in Statuses
                 /\ [s EXCEPT !.name[k] = n].conds = s.conds
                 /\ [s EXCEPT !.name[k] = n].name[k] = n
                 /\ \A j \in Kinds \ {k} : [s EXCEPT !.name[k] = n].name[j] = s.name[j]
           /\ \A c \in Conditions : /\ [s EXCEPT !.conds = c] \in Statuses
                                    /\ [s EXCEPT !.conds = c].name = s.name
                                    /\ [s EXCEPT !.conds = c].conds = c
BY DEF Statuses

LEMMA ConditionsFacts ==
    /\ NoConditions \in Conditions
    /\ \A e \in ReconcileErrors : /\ ConditionsFor(e) \in Conditions
                                  /\ ConditionsFor(e).ready = "Ready" <=> e = "nil"
    /\ \A e : FromClientError(e) \in ReconcileErrors \ {"nil"}
BY DEF NoConditions, Conditions, ReadyReasons, DegradedReasons, ConditionsFor, ReconcileErrors,
       FromClientError, IsIrrecoverableError

LEMMA EmptyStatusType == EmptyStatus \in Statuses
BY ConditionsFacts DEF EmptyStatus, Statuses, AnyName, NoName

LEMMA FetchedFacts ==
    ASSUME TypeOK
    PROVE  /\ Fetched \subseteq cache[kind] /\ RoleRef \in AnyName
           /\ \A o \in Fetched : o \in Objects /\ o.name \in Names /\ o.ref \in AnyName
                                 /\ o = [name |-> o.name, ref |-> o.ref]
<1>1. Fetched \subseteq cache[kind]
  BY DEF Fetched
<1>2. cache[kind] \subseteq Objects
  BY DEF TypeOK
<1>3. RoleRef \in AnyName
  BY StatusFacts DEF RoleRef, TypeOK, Kinds, AnyName
<1> QED
  BY <1>1, <1>2, <1>3 DEF Objects

LEMMA WriteObjsType ==
    ASSUME TypeOK, NEW k \in Kinds, NEW new \in SUBSET Objects, WriteObjs(k, new)
    PROVE  objs' \in [Kinds -> SUBSET Objects] /\ objLag' \in [Kinds -> BOOLEAN]
<1>1. (objLag[k] \/ new # objs[k]) \in BOOLEAN
  BY DEF TypeOK
<1>2. objs' = [objs EXCEPT ![k] = new] /\ objLag' = [objLag EXCEPT ![k] = objLag[k] \/ new # objs[k]]
  BY DEF WriteObjs
<1> QED
  BY <1>1, <1>2 DEF TypeOK

(* A write that makes no event has changed nothing.                        *)
LEMMA QuietWrite ==
    ASSUME TypeOK, NEW k \in Kinds, NEW new, WriteObjs(k, new), \A j \in Kinds : ~objLag'[j]
    PROVE  objs' = objs /\ new = objs[k] /\ \A j \in Kinds : ~objLag[j]
<1>1. objs' = [objs EXCEPT ![k] = new] /\ objLag' = [objLag EXCEPT ![k] = objLag[k] \/ new # objs[k]]
  BY DEF WriteObjs
<1>2. objLag'[k] <=> objLag[k] \/ new # objs[k]
  BY <1>1 DEF TypeOK
<1>3. new = objs[k] /\ ~objLag[k]
  BY <1>2
<1>4. objs' = objs
  BY <1>1, <1>3 DEF TypeOK
<1>5. \A j \in Kinds \ {k} : objLag'[j] = objLag[j]
  BY <1>1 DEF TypeOK
<1> QED
  BY <1>3, <1>4, <1>5

(* The types of the variables, by what the actions change together.        *)
ObjType ==
    /\ objs \in [Kinds -> SUBSET Objects]
    /\ cache \in [Kinds -> SUBSET Objects]
    /\ objLag \in [Kinds -> BOOLEAN]
StType == status \in Statuses /\ stCache \in Statuses /\ stLag \in {"none", "quiet", "event"}
QueueType == queue \in BOOLEAN /\ delayed \in BOOLEAN
RecType ==
    /\ pc \in {"idle", "apply", "create", "record", "result", "publish"}
    /\ kind \in Kinds
    /\ w \in Statuses
    /\ want \in AnyName
    /\ err \in ReconcileErrors /\ misled \in BOOLEAN
CountType == next \in [Kinds -> 1..(MaxNames + 1)] /\ faults \in 0..MaxFaults

LEMMA TypeSplit == TypeOK <=> ObjType /\ StType /\ QueueType /\ RecType /\ CountType
BY DEF TypeOK, ObjType, StType, QueueType, RecType, CountType

LEMMA InitType == Init => TypeOK
<1> SUFFICES ASSUME Init PROVE TypeOK
  OBVIOUS
<1>1. 1 \in 1..(MaxNames + 1) /\ MaxFaults \in 0..MaxFaults
  BY RBACAssumption
<1>2. ObjType
  BY DEF Init, ObjType
<1>3. CountType
  BY <1>1 DEF Init, CountType
<1>4. StType /\ QueueType
  BY EmptyStatusType DEF Init, StType, QueueType
<1>5. RecType
  BY EmptyStatusType DEF Init, RecType, Kinds, AnyName, NoName, ReconcileErrors
<1> QED
  BY <1>2, <1>3, <1>4, <1>5, TypeSplit

LEMMA TypeOKStep == TypeOK /\ [Next]_vars => TypeOK'
<1> SUFFICES ASSUME TypeOK, [Next]_vars
             PROVE  ObjType' /\ StType' /\ QueueType' /\ RecType' /\ CountType'
  BY DEF TypeOK, ObjType, StType, QueueType, RecType, CountType
<1>0. ObjType /\ StType /\ QueueType /\ RecType /\ CountType
  BY TypeSplit
<1>1. /\ UNCHANGED objVars => ObjType'
      /\ UNCHANGED stVars => StType'
      /\ UNCHANGED <<queue, delayed>> => QueueType'
      /\ UNCHANGED recVars => RecType'
      /\ UNCHANGED <<next, faults>> => CountType'
  BY <1>0 DEF ObjType, StType, QueueType, RecType, CountType, objVars, stVars, recVars
<1>2. Disturb => faults' \in 0..MaxFaults
  BY <1>0, RBACAssumption DEF Disturb, CountType
<1>3. ASSUME NEW e \in ReconcileErrors, FailWith(e) PROVE RecType'
  BY <1>0, <1>3 DEF FailWith, RecType, AnyName, NoName
<1>4. CallFails => RecType' /\ faults' \in 0..MaxFaults
  BY <1>2, <1>3, ConditionsFacts DEF CallFails
<1>5. ASSUME NEW b, b \in BOOLEAN, Return(b) PROVE RecType' /\ delayed' \in BOOLEAN
  <2>1. delayed' \in BOOLEAN /\ misled' \in BOOLEAN
    BY <1>0, <1>5 DEF Return, Misled, QueueType
  <2> QED
    BY <1>5, <2>1, EmptyStatusType DEF Return, RecType, AnyName, NoName, Kinds, ReconcileErrors
<1>6. UpdateStatus => StType'
  BY <1>0 DEF UpdateStatus, StType, RecType
<1>7. ASSUME NEW k \in Kinds, DeliverObjs(k)
      PROVE  ObjType' /\ StType' /\ QueueType' /\ RecType' /\ CountType'
  BY <1>0, <1>1, <1>7 DEF DeliverObjs, ObjType, QueueType
<1>8. CASE DeliverCR
  BY <1>0, <1>1, <1>8 DEF DeliverCR, StType, QueueType
<1>9. CASE Requeue
  BY <1>0, <1>1, <1>9 DEF Requeue, QueueType
<1>10. CASE Reconcile
  BY <1>0, <1>1, <1>10 DEF Reconcile, QueueType, RecType, StType
<1>11. CASE NotFound
  BY <1>0, <1>1, <1>11, StatusFacts DEF NotFound, RecType
<1>12. CASE Unchanged
  <2>1. PICK o \in Fetched : w' = [w EXCEPT !.name[kind] = o.name]
    BY <1>12 DEF Unchanged
  <2>2. o.name \in AnyName
    BY <2>1, FetchedFacts DEF AnyName
  <2>3. w' \in Statuses
    BY <1>0, <2>1, <2>2, StatusFacts DEF RecType
  <2> QED
    BY <1>0, <1>1, <1>12, <2>3 DEF Unchanged, RecType
<1>13. CASE DeleteToReplace
  <2>1. PICK o \in Fetched :
          \/ /\ WriteObjs(kind, {p \in objs[kind] : p.name # o.name})
             /\ want' = o.name /\ pc' = "create"
             /\ UNCHANGED <<kind, w, err, misled, faults>>
          \/ CallFails /\ UNCHANGED <<objs, objLag>>
    BY <1>13 DEF DeleteToReplace
  <2>2. UNCHANGED <<cache, stVars, queue, delayed, next>>
    BY <1>13 DEF DeleteToReplace
  <2>3. CASE /\ WriteObjs(kind, {p \in objs[kind] : p.name # o.name})
             /\ want' = o.name /\ pc' = "create"
             /\ UNCHANGED <<kind, w, err, misled, faults>>
    <3>1. {p \in objs[kind] : p.name # o.name} \in SUBSET Objects /\ kind \in Kinds
      BY <1>0 DEF ObjType, RecType
    <3>2. objs' \in [Kinds -> SUBSET Objects] /\ objLag' \in [Kinds -> BOOLEAN]
      BY <2>3, <3>1, WriteObjsType
    <3>3. want' \in AnyName
      BY <2>1, <2>3, FetchedFacts DEF AnyName
    <3> QED
      BY <1>0, <1>1, <2>2, <2>3, <3>2, <3>3 DEF ObjType, RecType, CountType
  <2>4. CASE CallFails /\ UNCHANGED <<objs, objLag>>
    BY <1>0, <1>1, <1>4, <2>2, <2>4 DEF ObjType, CountType
  <2> QED
    BY <2>1, <2>3, <2>4
<1>14. CASE DuplicateResources
  BY <1>1, <1>3, <1>14 DEF DuplicateResources, ReconcileErrors
<1>15. CASE Create
  <2>1. UNCHANGED <<cache, stVars, queue, delayed>>
    BY <1>15 DEF Create
  <2>2. CASE CallFails /\ UNCHANGED <<objs, objLag, next>>
    BY <1>0, <1>1, <1>4, <2>1, <2>2 DEF ObjType, CountType
  <2>3. CASE /\ FailWith(FromClientError("AlreadyExists"))
             /\ UNCHANGED <<objs, objLag, next, faults>>
    BY <1>0, <1>1, <1>3, <2>1, <2>3, ConditionsFacts DEF ObjType
  <2> DEFINE name == IF want = NoName THEN next[kind] ELSE want
  <2>4. CASE /\ want # NoName \/ next["role"] + next["binding"] - 2 < MaxNames
             /\ WriteObjs(kind, objs[kind] \cup {[name |-> name, ref |-> RoleRef]})
             /\ next' = [next EXCEPT ![kind] = IF want = NoName THEN @ + 1 ELSE @]
             /\ w' = [w EXCEPT !.name[kind] = name]
             /\ pc' = "record"
             /\ want' = NoName
             /\ UNCHANGED <<kind, err, misled, faults>>
    <3>1. /\ next["role"] \in 1..(MaxNames + 1) /\ next["binding"] \in 1..(MaxNames + 1)
          /\ kind \in {"role", "binding"} /\ want \in AnyName
      BY <1>0 DEF CountType, RecType, Kinds
    <3>2. want = NoName => next[kind] \in Names /\ next[kind] + 1 \in 1..(MaxNames + 1)
      BY <2>4, <3>1, RBACAssumption DEF Names
    <3>3. name \in Names /\ name \in AnyName
      BY <3>1, <3>2 DEF AnyName
    <3> HIDE DEF name
    <3>4. objs[kind] \cup {[name |-> name, ref |-> RoleRef]} \in SUBSET Objects /\ kind \in Kinds
      BY <1>0, <3>3, FetchedFacts DEF ObjType, RecType, Objects
    <3>5. objs' \in [Kinds -> SUBSET Objects] /\ objLag' \in [Kinds -> BOOLEAN]
      BY <2>4, <3>4, WriteObjsType
    <3>6. next' \in [Kinds -> 1..(MaxNames + 1)]
      BY <1>0, <2>4, <3>2 DEF CountType
    <3>7. w' \in Statuses
      BY <1>0, <2>4, <3>3, <3>4, StatusFacts DEF RecType
    <3> QED
      BY <1>0, <1>1, <2>1, <2>4, <3>5, <3>6, <3>7 DEF ObjType, RecType, CountType, AnyName
  <2> QED
    BY <1>15, <2>2, <2>3, <2>4 DEF Create
<1>16. CASE UpdateNameInStatus
  <2>1. UNCHANGED <<objVars, queue, delayed, next>>
    BY <1>16 DEF UpdateNameInStatus
  <2>2. CASE UpdateStatus /\ NextKind /\ UNCHANGED faults
    BY <1>0, <1>1, <1>6, <2>1, <2>2 DEF NextKind, RecType, Kinds
  <2>3. CASE FailWith(FromClientError("Conflict")) /\ UNCHANGED <<stVars, faults>>
    BY <1>1, <1>3, <2>1, <2>3, ConditionsFacts
  <2>4. CASE CallFails /\ UNCHANGED stVars
    BY <1>0, <1>1, <1>4, <2>1, <2>4 DEF CountType
  <2> QED
    BY <1>16, <2>2, <2>3, <2>4 DEF UpdateNameInStatus
<1>17. \A b \in BOOLEAN : Requeues(err, b) \in BOOLEAN
  BY DEF Requeues
<1>18. CASE HandleReconcileResult
  <2>1. UNCHANGED <<objVars, stVars, queue, next, faults>>
    BY <1>18 DEF HandleReconcileResult
  <2>2. CASE /\ w' = [w EXCEPT !.conds = ConditionsFor(err)]
             /\ pc' = "publish" /\ UNCHANGED <<kind, want, err, misled, delayed>>
    <3>1. w' \in Statuses
      BY <1>0, <2>2, StatusFacts, ConditionsFacts DEF RecType
    <3> QED
      BY <1>0, <1>1, <2>1, <2>2, <3>1 DEF RecType
  <2>3. CASE Return(Requeues(err, TRUE))
    BY <1>0, <1>1, <1>5, <1>17, <2>1, <2>3 DEF QueueType
  <2> QED
    BY <1>18, <2>2, <2>3 DEF HandleReconcileResult
<1>19. CASE UpdateCondition
  <2>1. UNCHANGED <<objVars, queue, next>>
    BY <1>19 DEF UpdateCondition
  <2>2. RecType' /\ delayed' \in BOOLEAN
    BY <1>5, <1>17, <1>19 DEF UpdateCondition
  <2>3. StType' /\ faults' \in 0..MaxFaults
    BY <1>0, <1>1, <1>2, <1>6, <1>19 DEF UpdateCondition, CountType
  <2> QED
    BY <1>0, <1>1, <2>1, <2>2, <2>3 DEF QueueType, CountType
<1>20. CASE OtherEvent
  BY <1>0, <1>1, <1>2, <1>20 DEF OtherEvent, QueueType, CountType
<1>21. ASSUME NEW k \in Kinds, SomebodyDeletes(k)
       PROVE  ObjType' /\ StType' /\ QueueType' /\ RecType' /\ CountType'
  <2>1. PICK o \in objs[k] : WriteObjs(k, objs[k] \ {o})
    BY <1>21 DEF SomebodyDeletes
  <2>2. objs[k] \ {o} \in SUBSET Objects
    BY <1>0 DEF ObjType
  <2>3. objs' \in [Kinds -> SUBSET Objects] /\ objLag' \in [Kinds -> BOOLEAN]
    BY <2>1, <2>2, WriteObjsType
  <2> QED
    BY <1>0, <1>1, <1>2, <1>21, <2>3 DEF SomebodyDeletes, ObjType, CountType
<1>22. CASE UserRecreates
  BY <1>0, <1>1, <1>2, <1>22, EmptyStatusType DEF UserRecreates, StType, CountType
<1>23. CASE Restart
  BY <1>0, <1>2, <1>23, EmptyStatusType
     DEF Restart, ObjType, StType, QueueType, RecType, CountType, Kinds, AnyName, NoName,
         ReconcileErrors
<1>24. CASE UNCHANGED vars
  BY <1>1, <1>24 DEF vars
<1> QED
  BY <1>7, <1>8, <1>9, <1>10, <1>11, <1>12, <1>13, <1>14, <1>15, <1>16, <1>18, <1>19, <1>20,
     <1>21, <1>22, <1>23, <1>24
     DEF Next, System, Environment, ReconcileStep

(* Every reachable state of the role, the binding, their cache and the     *)
(* status is well typed: a name in the status is one that was generated.   *)
THEOREM TypeCorrect == Spec => []TypeOK
BY InitType, TypeOKStep, PTL DEF Spec


-----------------------------------------------------------------------------
(***************************************************************************)
(* The role and the binding of a Ready instance.                           *)
(*                                                                         *)
(* The world is calm when nothing is on its way that will start another    *)
(* pass.  A step that changes an object or replaces the IstioCSR ends the  *)
(* calm, and only the beginning of a pass restores it; so what a pass has  *)
(* found in the cache is still true when it ends in the calm.              *)
(***************************************************************************)
Calm == ~queue /\ stLag # "event" /\ \A k \in Kinds : ~objLag[k]

(* A copy that the watch has nothing to add to is the live one.            *)
CacheInv ==
    /\ \A k \in Kinds : ~objLag[k] => cache[k] = objs[k]
    /\ stLag = "none" => stCache = status

(* An error ends the pass, and a pass without one goes through both kinds. *)
ErrInv ==
    /\ err # "nil" => pc \in {"result", "publish"}
    /\ pc = "idle" => kind = "role"
    /\ (pc \in {"result", "publish"} /\ err = "nil") => kind = "binding"
    /\ pc = "publish" => w.conds = ConditionsFor(err)

RoleThere == \E o \in objs["role"] : o.name = w.name["role"]
BindingThere == [name |-> w.name["binding"], ref |-> w.name["role"]] \in objs["binding"]

(* What the pass has found so far, in the calm.                            *)
PassInv ==
    (pc # "idle" /\ err = "nil" /\ Calm) =>
        /\ (kind = "binding" \/ pc = "record") => RoleThere
        /\ ((kind = "binding" /\ pc = "record") \/ pc \in {"result", "publish"}) => BindingThere
        /\ pc = "result" => status = w
        /\ pc = "publish" => status.name = w.name

RestInv ==
    (pc = "idle" /\ Calm /\ ~delayed /\ ~misled /\ status.conds.ready = "Ready") => Bound

BoundInv == CacheInv /\ ErrInv /\ PassInv /\ RestInv

-----------------------------------------------------------------------------
(* The copies.                                                             *)
LEMMA CacheStep == TypeOK /\ CacheInv /\ [Next]_vars => CacheInv'
<1> SUFFICES ASSUME TypeOK, CacheInv, [Next]_vars PROVE CacheInv'
  OBVIOUS
<1> DEFINE Objs == \A k \in Kinds : ~objLag[k] => cache[k] = objs[k]
           St == stLag = "none" => stCache = status
<1>0. Objs /\ St /\ (Objs' /\ St' => CacheInv')
  BY DEF CacheInv
<1>1. UNCHANGED objVars => Objs'
  BY <1>0 DEF objVars
<1>2. UNCHANGED stVars => St'
  BY <1>0 DEF stVars
<1>3. ASSUME NEW k \in Kinds, NEW new, WriteObjs(k, new), UNCHANGED cache PROVE Objs'
  <2> SUFFICES ASSUME NEW j \in Kinds, ~objLag'[j] PROVE cache'[j] = objs'[j]
    OBVIOUS
  <2>1. objs' = [objs EXCEPT ![k] = new] /\ objLag' = [objLag EXCEPT ![k] = objLag[k] \/ new # objs[k]]
    BY <1>3 DEF WriteObjs
  <2>2. CASE j = k
    <3>1. objLag'[k] <=> objLag[k] \/ new # objs[k]
      BY <2>1 DEF TypeOK
    <3>2. ~objLag[k] /\ new = objs[k]
      BY <2>2, <3>1
    <3> QED
      BY <1>0, <1>3, <2>1, <2>2, <3>2 DEF TypeOK
  <2>3. CASE j # k
    BY <1>0, <1>3, <2>1, <2>3 DEF TypeOK
  <2> QED
    BY <2>2, <2>3
<1>4. UpdateStatus => St'
  BY <1>0 DEF UpdateStatus
<1>5. ASSUME NEW k \in Kinds, DeliverObjs(k) PROVE Objs' /\ St'
  <2>1. St'
    BY <1>2, <1>5 DEF DeliverObjs
  <2>2. ASSUME NEW j \in Kinds, ~objLag'[j] PROVE cache'[j] = objs'[j]
    BY <1>0, <1>5, <2>2 DEF DeliverObjs, TypeOK
  <2> QED
    BY <2>1, <2>2
<1>6. CASE DeliverCR
  BY <1>0, <1>1, <1>6 DEF DeliverCR
<1>7. CASE Requeue \/ Reconcile \/ NotFound \/ Unchanged \/ DuplicateResources
           \/ HandleReconcileResult \/ OtherEvent
  BY <1>0, <1>1, <1>2, <1>7 DEF Requeue, Reconcile, NotFound, Unchanged, DuplicateResources,
     HandleReconcileResult, OtherEvent
<1>8. CASE DeleteToReplace
  <2>1. St' /\ UNCHANGED cache
    BY <1>2, <1>8 DEF DeleteToReplace
  <2>2. (\E new : WriteObjs(kind, new)) \/ UNCHANGED <<objs, objLag>>
    BY <1>8 DEF DeleteToReplace
  <2>3. Objs'
    BY <1>1, <1>3, <2>1, <2>2 DEF TypeOK, objVars
  <2> QED
    BY <1>0, <2>1, <2>3
<1>9. CASE Create
  <2>1. St' /\ UNCHANGED cache
    BY <1>2, <1>9 DEF Create
  <2>2. (\E new : WriteObjs(kind, new)) \/ UNCHANGED <<objs, objLag>>
    BY <1>9 DEF Create
  <2>3. Objs'
    BY <1>1, <1>3, <2>1, <2>2 DEF TypeOK, objVars
  <2> QED
    BY <1>0, <2>1, <2>3
<1>10. CASE UpdateNameInStatus
  BY <1>0, <1>1, <1>2, <1>4, <1>10 DEF UpdateNameInStatus
<1>11. CASE UpdateCondition
  BY <1>0, <1>1, <1>2, <1>4, <1>11 DEF UpdateCondition
<1>12. ASSUME NEW k \in Kinds, SomebodyDeletes(k) PROVE Objs' /\ St'
  <2>1. (\E new : WriteObjs(k, new)) /\ UNCHANGED cache /\ UNCHANGED stVars
    BY <1>12 DEF SomebodyDeletes
  <2> QED
    BY <1>2, <1>3, <2>1
<1>13. CASE UserRecreates
  BY <1>0, <1>1, <1>13 DEF UserRecreates
<1>14. CASE Restart
  BY <1>0, <1>14 DEF Restart
<1>15. CASE UNCHANGED vars
  BY <1>0, <1>1, <1>2, <1>15 DEF vars
<1> QED
  BY <1>0, <1>5, <1>6, <1>7, <1>8, <1>9, <1>10, <1>11, <1>12, <1>13, <1>14, <1>15
     DEF Next, System, Environment, ReconcileStep

(* The control of a pass.                                                  *)
LEMMA ErrStep == TypeOK /\ ErrInv /\ [Next]_vars => ErrInv'
<1> SUFFICES ASSUME TypeOK, ErrInv, [Next]_vars PROVE ErrInv'
  OBVIOUS
<1>1. UNCHANGED recVars => ErrInv'
  BY DEF ErrInv, recVars
<1>2. ASSUME NEW e, FailWith(e), e # "nil" PROVE ErrInv'
  BY <1>2 DEF FailWith, ErrInv
<1>3. CallFails => ErrInv'
  BY <1>2, ConditionsFacts DEF CallFails
<1>4. ASSUME NEW b, Return(b) PROVE ErrInv'
  BY <1>4 DEF Return, ErrInv
<1>5. CASE Reconcile \/ NotFound \/ Unchanged
  BY <1>5 DEF Reconcile, NotFound, Unchanged, ErrInv
<1>6. CASE DeleteToReplace
  <2>1. CallFails \/ (pc = "apply" /\ pc' = "create" /\ UNCHANGED <<kind, w, err>>)
    BY <1>6 DEF DeleteToReplace
  <2> QED
    BY <1>3, <2>1 DEF ErrInv
<1>7. CASE DuplicateResources
  BY <1>2, <1>7 DEF DuplicateResources
<1>8. CASE Create
  <2>1. \/ CallFails \/ FailWith(FromClientError("AlreadyExists"))
        \/ pc = "create" /\ pc' = "record" /\ UNCHANGED <<kind, err>>
    BY <1>8 DEF Create
  <2> QED
    BY <1>2, <1>3, <2>1, ConditionsFacts DEF ErrInv
<1>9. CASE UpdateNameInStatus
  <2>1. CallFails \/ FailWith(FromClientError("Conflict")) \/ (pc = "record" /\ NextKind)
    BY <1>9 DEF UpdateNameInStatus
  <2> QED
    BY <1>2, <1>3, <2>1, ConditionsFacts DEF ErrInv, NextKind
<1>10. CASE HandleReconcileResult
  <2>1. \/ /\ w' = [w EXCEPT !.conds = ConditionsFor(err)]
           /\ pc = "result" /\ pc' = "publish" /\ UNCHANGED <<kind, err>>
        \/ Return(Requeues(err, TRUE))
    BY <1>10 DEF HandleReconcileResult
  <2>2. [w EXCEPT !.conds = ConditionsFor(err)].conds = ConditionsFor(err)
    BY StatusFacts, ConditionsFacts DEF TypeOK
  <2> QED
    BY <1>4, <2>1, <2>2 DEF ErrInv
<1>11. CASE UpdateCondition
  BY <1>4, <1>11 DEF UpdateCondition
<1>12. CASE Restart
  BY <1>12 DEF Restart, ErrInv
<1>13. CASE Requeue \/ DeliverCR \/ OtherEvent \/ UserRecreates
            \/ (\E k \in Kinds : DeliverObjs(k) \/ SomebodyDeletes(k)) \/ UNCHANGED vars
  BY <1>1, <1>13 DEF Requeue, DeliverCR, OtherEvent, UserRecreates, DeliverObjs, SomebodyDeletes,
     vars
<1> QED
  BY <1>5, <1>6, <1>7, <1>8, <1>9, <1>10, <1>11, <1>12, <1>13
     DEF Next, System, Environment, ReconcileStep

(* The steps of a pass, apart from its beginning.                          *)
PassStep ==
    \/ NotFound \/ Unchanged \/ DeleteToReplace \/ DuplicateResources \/ Create
    \/ UpdateNameInStatus \/ HandleReconcileResult \/ UpdateCondition

(* A step into the calm has changed no object, and unless it begins a pass *)
(* it was calm before.                                                     *)
LEMMA CalmSteps ==
    ASSUME TypeOK, [Next]_vars, Calm'
    PROVE  /\ objs' = objs
           /\ Reconcile \/ (Calm /\ (DeliverCR \/ PassStep \/ UNCHANGED vars))
           /\ Create => pc' = "result" /\ err' # "nil"
<1> DEFINE NoEvents == \A k \in Kinds : ~objLag[k]
<1>1. ~queue' /\ stLag' # "event" /\ \A j \in Kinds : ~objLag'[j]
  BY DEF Calm
<1>2. ~queue /\ stLag # "event" /\ NoEvents => Calm
  BY DEF Calm
<1>3. UNCHANGED objVars => objs' = objs /\ NoEvents
  BY <1>1 DEF objVars
<1> HIDE DEF NoEvents
<1>4. ASSUME NEW k \in Kinds, NEW new, WriteObjs(k, new)
      PROVE  objs' = objs /\ NoEvents /\ new = objs[k]
  BY <1>1, <1>4, QuietWrite DEF NoEvents
<1>5. ~(\E k \in Kinds : DeliverObjs(k)) /\ ~Requeue /\ ~OtherEvent /\ ~Restart /\ ~UserRecreates
  BY <1>1 DEF DeliverObjs, Requeue, OtherEvent, Restart, UserRecreates
<1>6. ASSUME NEW k \in Kinds, SomebodyDeletes(k) PROVE FALSE
  <2>1. PICK o \in objs[k] : WriteObjs(k, objs[k] \ {o})
    BY <1>6 DEF SomebodyDeletes
  <2>2. objs[k] \ {o} = objs[k]
    BY <1>4, <2>1
  <2> QED
    BY <2>2
<1>7. CASE Reconcile
  BY <1>3, <1>7 DEF Reconcile, Create
<1>8. CASE DeliverCR
  <2>1. UNCHANGED objVars /\ ~queue /\ stLag # "event" /\ UNCHANGED pc
    BY <1>1, <1>8 DEF DeliverCR, recVars
  <2>2. ~Create
    BY <1>8 DEF DeliverCR, Create, stVars
  <2> QED
    BY <1>2, <1>3, <1>8, <2>1, <2>2
<1>9. CASE UNCHANGED vars
  <2>1. UNCHANGED <<objVars, queue, stLag, pc>>
    BY <1>9 DEF vars, stVars, recVars
  <2>2. pc = "create" => ~Create
    BY <1>9 DEF Create, vars, recVars, FailWith, CallFails
  <2>3. Create => pc = "create"
    BY DEF Create
  <2> QED
    BY <1>1, <1>2, <1>3, <1>9, <2>1, <2>2, <2>3
<1>10. CASE Create
  <2>1. UNCHANGED <<queue, stLag>>
    BY <1>10 DEF Create, stVars
  <2>2. kind \in Kinds
    BY DEF TypeOK
  <2>3. CASE \/ FailWith(FromClientError("AlreadyExists")) /\ UNCHANGED <<objs, objLag>>
             \/ CallFails /\ UNCHANGED <<objs, objLag>>
    <3>1. pc' = "result" /\ err' # "nil"
      BY <2>3, ConditionsFacts DEF CallFails, FailWith
    <3>2. objs' = objs /\ NoEvents
      BY <1>1, <2>3 DEF NoEvents
    <3> QED
      BY <1>1, <1>2, <1>10, <2>1, <3>1, <3>2 DEF PassStep
  <2> DEFINE name == IF want = NoName THEN next[kind] ELSE want
  <2>4. CASE /\ \A o \in objs[kind] : o.name # name
             /\ WriteObjs(kind, objs[kind] \cup {[name |-> name, ref |-> RoleRef]})
    <3> HIDE DEF name
    <3>1. objs[kind] = objs[kind] \cup {[name |-> name, ref |-> RoleRef]}
      BY <1>4, <2>2, <2>4
    <3>2. [name |-> name, ref |-> RoleRef] \in objs[kind]
      BY <3>1
    <3>3. [name |-> name, ref |-> RoleRef].name = name
      OBVIOUS
    <3> QED
      BY <2>4, <3>2, <3>3
  <2> QED
    BY <1>10, <2>3, <2>4 DEF Create
<1>11. CASE DeleteToReplace
  <2>1. UNCHANGED <<queue, stLag>> /\ kind \in Kinds /\ pc = "apply"
    BY <1>11 DEF DeleteToReplace, stVars, TypeOK
  <2>2. (\E new : WriteObjs(kind, new)) \/ UNCHANGED <<objs, objLag>>
    BY <1>11 DEF DeleteToReplace
  <2>3. objs' = objs /\ NoEvents
    BY <1>1, <1>4, <2>1, <2>2 DEF NoEvents
  <2>4. ~Create
    BY <2>1 DEF Create
  <2> QED
    BY <1>1, <1>2, <1>11, <2>1, <2>3, <2>4 DEF PassStep
<1>12. CASE NotFound \/ Unchanged \/ DuplicateResources
  <2>1. UNCHANGED <<objVars, queue, stLag>> /\ pc = "apply"
    BY <1>12 DEF NotFound, Unchanged, DuplicateResources, stVars
  <2>2. ~Create
    BY <2>1 DEF Create
  <2> QED
    BY <1>1, <1>2, <1>3, <1>12, <2>1, <2>2 DEF PassStep
<1>13. CASE UpdateNameInStatus \/ HandleReconcileResult \/ UpdateCondition
  <2>1. UNCHANGED <<objVars, queue>> /\ pc # "create"
    BY <1>13 DEF UpdateNameInStatus, HandleReconcileResult, UpdateCondition
  <2>2. stLag # "event"
    <3>1. CASE UpdateNameInStatus
      BY <1>1, <3>1 DEF UpdateNameInStatus, UpdateStatus, stVars
    <3>2. CASE HandleReconcileResult
      BY <1>1, <3>2 DEF HandleReconcileResult, stVars
    <3>3. CASE UpdateCondition
      BY <1>1, <3>3 DEF UpdateCondition, UpdateStatus, stVars
    <3> QED
      BY <1>13, <3>1, <3>2, <3>3
  <2>3. ~Create
    BY <2>1 DEF Create
  <2> QED
    BY <1>1, <1>2, <1>3, <1>13, <2>1, <2>2, <2>3 DEF PassStep
<1> QED
  BY <1>5, <1>6, <1>7, <1>8, <1>9, <1>10, <1>11, <1>12, <1>13
     DEF Next, System, Environment, ReconcileStep

(* What a pass finds in the calm: an object it leaves as it is is there.   *)
LEMMA FoundIsThere ==
    ASSUME TypeOK, CacheInv, Calm, Unchanged
    PROVE  /\ kind = "role" => RoleThere'
           /\ kind = "binding" => BindingThere' /\ w'.name["role"] = w.name["role"]
<1>1. PICK o \in Fetched : o.ref = RoleRef /\ w' = [w EXCEPT !.name[kind] = o.name]
  BY DEF Unchanged
<1>2. kind \in Kinds /\ w \in Statuses /\ UNCHANGED objs
  BY DEF TypeOK, Unchanged, objVars
<1>3. /\ o.name \in AnyName /\ o \in cache[kind]
      /\ o = [name |-> o.name, ref |-> o.ref]
  BY FetchedFacts DEF AnyName
<1>4. o \in objs[kind]
  BY <1>2, <1>3 DEF CacheInv, Calm
<1>5. /\ w'.name[kind] = o.name
      /\ \A j \in Kinds \ {kind} : w'.name[j] = w.name[j]
  BY <1>1, <1>2, <1>3, StatusFacts
<1>6. CASE kind = "role"
  BY <1>2, <1>4, <1>5, <1>6 DEF RoleThere
<1>7. CASE kind = "binding"
  <2>1. w'.name["role"] = w.name["role"]
    BY <1>5, <1>7 DEF Kinds
  <2>2. o.ref = w.name["role"]
    BY <1>1, <1>7 DEF RoleRef
  <2>3. [name |-> w'.name["binding"], ref |-> w'.name["role"]] = o
    BY <1>3, <1>5, <1>7, <2>1, <2>2
  <2>4. [name |-> w'.name["binding"], ref |-> w'.name["role"]] \in objs'["binding"]
    BY <1>2, <1>4, <1>7, <2>3
  <2> QED
    BY <1>7, <2>1, <2>4 DEF BindingThere
<1> QED
  BY <1>6, <1>7

LEMMA PassStepInv ==
    TypeOK /\ CacheInv /\ ErrInv /\ PassInv /\ [Next]_vars => PassInv'
<1> SUFFICES ASSUME TypeOK, CacheInv, ErrInv, PassInv, [Next]_vars,
                    pc' # "idle", err' = "nil", Calm'
             PROVE  /\ (kind' = "binding" \/ pc' = "record") => RoleThere'
                    /\ ((kind' = "binding" /\ pc' = "record") \/ pc' \in {"result", "publish"})
                          => BindingThere'
                    /\ pc' = "result" => status' = w'
                    /\ pc' = "publish" => status'.name = w'.name
  BY DEF PassInv
<1>1. /\ objs' = objs
      /\ Reconcile \/ (Calm /\ (DeliverCR \/ PassStep \/ UNCHANGED vars))
      /\ ~Create
  BY CalmSteps
<1>2. w'.name = w.name => (RoleThere' <=> RoleThere) /\ (BindingThere' <=> BindingThere)
  BY <1>1 DEF RoleThere, BindingThere
<1>3. ASSUME NEW e, FailWith(e), e # "nil" PROVE FALSE
  BY <1>3 DEF FailWith
<1>4. ~CallFails
  BY <1>3, ConditionsFacts DEF CallFails
<1>5. ASSUME NEW b, Return(b) PROVE FALSE
  BY <1>5 DEF Return
<1>6. CASE Reconcile
  BY <1>6 DEF Reconcile, ErrInv
<1>7. CASE Calm /\ (DeliverCR \/ UNCHANGED vars)
  <2>1. UNCHANGED <<pc, kind, w, err, status>>
    BY <1>7 DEF DeliverCR, vars, recVars, stVars
  <2> QED
    BY <1>2, <1>7, <2>1 DEF PassInv
<1>8. CASE Calm /\ (NotFound \/ DeleteToReplace)
  <2>1. pc = "apply" /\ pc' = "create" /\ UNCHANGED <<kind, w, err>>
    BY <1>4, <1>8 DEF NotFound, DeleteToReplace
  <2> QED
    BY <1>2, <1>8, <2>1 DEF PassInv
<1>9. CASE Calm /\ Unchanged
  <2>1. pc = "apply" /\ pc' = "record" /\ UNCHANGED <<kind, err>> /\ kind \in Kinds
    BY <1>9 DEF Unchanged, TypeOK
  <2>2. CASE kind = "role"
    BY <1>9, <2>1, <2>2, FoundIsThere
  <2>3. CASE kind = "binding"
    <3>1. BindingThere' /\ w'.name["role"] = w.name["role"]
      BY <1>9, <2>3, FoundIsThere
    <3>2. RoleThere
      BY <1>9, <2>1, <2>3 DEF PassInv
    <3>3. RoleThere'
      BY <1>1, <3>1, <3>2 DEF RoleThere
    <3> QED
      BY <2>1, <3>1, <3>3
  <2> QED
    BY <2>1, <2>2, <2>3 DEF Kinds
<1>10. ~DuplicateResources
  BY <1>3 DEF DuplicateResources
<1>11. CASE Calm /\ UpdateNameInStatus
  <2>1. pc = "record" /\ UpdateStatus /\ NextKind
    BY <1>3, <1>4, <1>11, ConditionsFacts DEF UpdateNameInStatus
  <2>2. /\ w' = w /\ status' = w' /\ err = "nil" /\ kind' = "binding"
        /\ pc' = IF kind = "role" THEN "apply" ELSE "result"
    BY <2>1 DEF UpdateStatus, NextKind
  <2>3. kind \in {"role", "binding"}
    BY DEF TypeOK, Kinds
  <2>4. RoleThere /\ (kind = "binding" => BindingThere)
    BY <1>11, <2>1, <2>2 DEF PassInv
  <2> QED
    BY <1>2, <2>2, <2>3, <2>4
<1>12. CASE Calm /\ HandleReconcileResult
  <2>1. /\ pc = "result" /\ pc' = "publish" /\ UNCHANGED <<kind, err, status>>
        /\ w' = [w EXCEPT !.conds = ConditionsFor(err)]
    BY <1>5, <1>12 DEF HandleReconcileResult, stVars
  <2>2. w'.name = w.name
    BY <2>1, StatusFacts, ConditionsFacts DEF TypeOK
  <2>3. RoleThere /\ BindingThere /\ status = w
    BY <1>12, <2>1 DEF PassInv, ErrInv
  <2> QED
    BY <1>2, <2>1, <2>2, <2>3
<1>13. ~UpdateCondition
  BY <1>5 DEF UpdateCondition
<1> QED
  BY <1>1, <1>6, <1>7, <1>8, <1>9, <1>10, <1>11, <1>12, <1>13 DEF PassStep

LEMMA RestStep ==
    TypeOK /\ ErrInv /\ PassInv /\ RestInv /\ [Next]_vars => RestInv'
<1> SUFFICES ASSUME TypeOK, ErrInv, PassInv, RestInv, [Next]_vars, pc' = "idle", Calm',
                    ~delayed', ~misled', status'.conds.ready = "Ready"
             PROVE  Bound'
  BY DEF RestInv
<1>1. /\ objs' = objs
      /\ Reconcile \/ (Calm /\ (DeliverCR \/ PassStep \/ UNCHANGED vars))
      /\ ~Create
  BY CalmSteps
<1>2. status' = status => (Bound' <=> Bound)
  BY <1>1 DEF Bound
<1>3. ~Reconcile
  BY DEF Reconcile
<1>4. CASE Calm /\ (DeliverCR \/ UNCHANGED vars)
  <2>1. UNCHANGED <<pc, delayed, misled, status>>
    BY <1>4 DEF DeliverCR, vars, recVars, stVars
  <2> QED
    BY <1>2, <1>4, <2>1 DEF RestInv
<1>5. ~CallFails /\ \A e : ~FailWith(e)
  BY DEF CallFails, FailWith
<1>6. ~(NotFound \/ Unchanged \/ DeleteToReplace \/ DuplicateResources \/ UpdateNameInStatus)
  BY <1>5 DEF NotFound, Unchanged, DeleteToReplace, DuplicateResources, UpdateNameInStatus,
     NextKind
<1>7. err \in ReconcileErrors /\ w \in Statuses
  BY DEF TypeOK
<1>8. CASE Calm /\ HandleReconcileResult
  <2>1. /\ pc = "result" /\ ~ConditionsChanged(w.conds, err) /\ Return(Requeues(err, TRUE))
        /\ status' = status
    BY <1>8 DEF HandleReconcileResult, stVars
  <2>2. status.conds = w.conds /\ w.conds = ConditionsFor(err)
    BY <2>1 DEF Return, Misled, ConditionsChanged
  <2>3. err = "nil"
    BY <1>7, <2>1, <2>2, ConditionsFacts
  <2>4. RoleThere /\ BindingThere /\ status = w
    BY <1>8, <2>1, <2>3 DEF PassInv, ErrInv
  <2> QED
    BY <1>2, <2>1, <2>4 DEF Bound, RoleThere, BindingThere
<1>9. CASE Calm /\ UpdateCondition
  <2>1. ~Return(Requeues(err, FALSE))
    BY DEF Return, Requeues
  <2>2. pc = "publish" /\ UpdateStatus
    BY <1>9, <2>1 DEF UpdateCondition
  <2>3. status' = w
    BY <2>2 DEF UpdateStatus
  <2>4. err = "nil"
    BY <1>7, <2>2, <2>3, ConditionsFacts DEF ErrInv
  <2>5. RoleThere /\ BindingThere
    BY <1>9, <2>2, <2>4 DEF PassInv, ErrInv
  <2> QED
    BY <1>1, <2>3, <2>5 DEF Bound, RoleThere, BindingThere
<1> QED
  BY <1>1, <1>3, <1>4, <1>6, <1>8, <1>9 DEF PassStep

(* When the controller rests and reports Ready, the role and the binding   *)
(* that the status names exist and the binding refers to that role, unless *)
(* its last pass took an old status for the live one.                      *)
THEOREM ReadyIsBound == Spec => []ReadyMeansBound
<1>1. Init => BoundInv
  BY DEF Init, BoundInv, CacheInv, ErrInv, PassInv, RestInv, Calm, Kinds
<1>2. TypeOK /\ BoundInv /\ [Next]_vars => BoundInv'
  BY CacheStep, ErrStep, PassStepInv, RestStep DEF BoundInv
<1>3. BoundInv => ReadyMeansBound
  BY DEF BoundInv, RestInv, ReadyMeansBound, Quiescent, Synced, Calm
<1> QED
  BY <1>1, <1>2, <1>3, TypeCorrect, PTL DEF Spec
=============================================================================
