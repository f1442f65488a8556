---------------------------- MODULE IstioCSRRBAC ----------------------------
(***************************************************************************)
(* The ClusterRole and the ClusterRoleBinding of the IstioCSR controller   *)
(* (pkg/controller/istiocsr/rbacs.go).  They are the only operands whose   *)
(* names the API server generates: the controller finds them again by the  *)
(* name it wrote into the status and, while there is none, by listing      *)
(* their labels, both in the informer cache.  The binding refers to the    *)
(* role by name, and that reference is immutable.                          *)
(*                                                                         *)
(* IstioCSR models the rest of Reconcile.  Here Reconcile consists of      *)
(* these two steps and of HandleReconcileResult; the labels and the rules  *)
(* of the objects are always the wanted ones.                              *)
(***************************************************************************)
EXTENDS ReconcileResult, Naturals, FiniteSets

CONSTANTS
    Outages,        \* the errors the API server may answer a write with
    MaxNames,       \* bound: names the API server generates
    MaxFaults       \* bound: failed writes, deletions, restarts, ...

ASSUME RBACAssumption ==
    /\ Outages \subseteq ClientErrors
    /\ MaxNames \in Nat
    /\ MaxFaults \in Nat

VARIABLES
    objs,       \* by kind, the objects with the controller's labels
    cache,      \* ... and those in the informer cache
    objLag,     \* ... and whether the watch has events to deliver
    status,     \* the status of the IstioCSR in the API server
    stCache,    \* ... and in the informer cache
    stLag,      \* what the watch of the IstioCSR has not delivered yet
    queue, delayed,     \* as in IstioCSR
    pc, kind,   \* Reconcile: its next call and the kind it is about
    w,          \* Reconcile: the status of the working copy
    want,       \* Reconcile: the name to create the object with
    err,        \* Reconcile: the error it returns
    misled,     \* history: see Misled
    next,       \* by kind, the next generated name
    faults      \* disturbances left

objVars == <<objs, cache, objLag>>
stVars == <<status, stCache, stLag>>
recVars == <<pc, kind, w, want, err, misled>>
vars == <<objVars, stVars, queue, delayed, recVars, next, faults>>

Kinds == {"role", "binding"}

(* Names are numbers; NoName is an empty field, or a name to be generated. *)
NoName == 0
Names == 1..MaxNames
AnyName == Names \cup {NoName}

(* ref is RoleRef.Name of a binding.                                       *)
Objects == [name : Names, ref : AnyName]
Statuses == [name : [Kinds -> AnyName], conds : Conditions]
EmptyStatus == [name |-> [k \in Kinds |-> NoName], conds |-> NoConditions]

TypeOK ==
    /\ objs \in [Kinds -> SUBSET Objects]
    /\ cache \in [Kinds -> SUBSET Objects]
    /\ objLag \in [Kinds -> BOOLEAN]
    /\ status \in Statuses /\ stCache \in Statuses
    /\ stLag \in {"none", "quiet", "event"}
    /\ queue \in BOOLEAN /\ delayed \in BOOLEAN
    /\ pc \in {"idle", "apply", "create", "record", "result", "publish"}
    /\ kind \in Kinds
    /\ w \in Statuses
    /\ want \in AnyName
    /\ err \in ReconcileErrors /\ misled \in BOOLEAN
    /\ next \in [Kinds -> 1..(MaxNames + 1)]
    /\ faults \in 0..MaxFaults

Init ==
    /\ objs = [k \in Kinds |-> {}] /\ cache = [k \in Kinds |-> {}]
    /\ objLag = [k \in Kinds |-> FALSE]
    /\ status = EmptyStatus /\ stCache = EmptyStatus /\ stLag = "none"
    /\ queue = TRUE /\ delayed = FALSE
    /\ pc = "idle" /\ kind = "role" /\ w = EmptyStatus /\ want = NoName
    /\ err = "nil" /\ misled = FALSE
    /\ next = [k \in Kinds |-> 1] /\ faults = MaxFaults

-----------------------------------------------------------------------------
(* The watches of the managed kinds pass every event; a change of the      *)
(* status is not one that GenerationChangedPredicate passes.               *)
DeliverObjs(k) ==
    /\ objLag[k]
    /\ cache' = [cache EXCEPT ![k] = objs[k]]
    /\ objLag' = [objLag EXCEPT ![k] = FALSE]
    /\ queue' = TRUE
    /\ UNCHANGED <<objs, stVars, delayed, recVars, next, faults>>

DeliverCR ==
    /\ stLag # "none"
    /\ stCache' = status /\ stLag' = "none"
    /\ queue' = (queue \/ stLag = "event")
    /\ UNCHANGED <<objVars, status, delayed, recVars, next, faults>>

Requeue ==
    /\ delayed
    /\ delayed' = FALSE /\ queue' = TRUE
    /\ UNCHANGED <<objVars, stVars, recVars, next, faults>>

(* The objects of kind k become new.                                       *)
WriteObjs(k, new) ==
    /\ objs' = [objs EXCEPT ![k] = new]
    /\ objLag' = [objLag EXCEPT ![k] = @ \/ new # objs[k]]

Disturb == faults > 0 /\ faults' = faults - 1

FailWith(e) ==
    /\ err' = e /\ pc' = "result" /\ want' = NoName
    /\ UNCHANGED <<kind, w, misled>>

(* The API server answers a write of a managed object with an error.       *)
CallFails == \E e \in Outages : Disturb /\ FailWith(FromClientError(e))

(* As in TrustManager: the pass has found the conditions it was about to   *)
(* report in an old copy of the status and leaves the live ones alone.     *)
Misled == pc = "result" /\ status.conds # w.conds

Return(requeue) ==
    /\ pc' = "idle" /\ kind' = "role" /\ w' = EmptyStatus /\ want' = NoName
    /\ err' = "nil" /\ misled' = Misled
    /\ delayed' = (delayed \/ requeue)

-----------------------------------------------------------------------------
Reconcile ==
    /\ pc = "idle" /\ queue
    /\ queue' = FALSE
    /\ w' = stCache /\ pc' = "apply"
    /\ UNCHANGED <<objVars, stVars, delayed, kind, want, err, misled, next, faults>>

(* The binding must refer to the role the step before found or created.    *)
RoleRef == IF kind = "role" THEN NoName ELSE w.name["role"]

(* By the name in the status or, without one, by label.                    *)
Fetched == IF w.name[kind] # NoName
           THEN {o \in cache[kind] : o.name = w.name[kind]}
           ELSE cache[kind]

NotFound ==
    /\ pc = "apply" /\ Fetched = {}
    /\ want' = w.name[kind] /\ pc' = "create"
    /\ UNCHANGED <<objVars, stVars, queue, delayed, kind, w, err, misled, next,
                   faults>>

(* Variant: the reference of the binding is not compared.                  *)
UnchangedButRef ==
    /\ pc = "apply"
    /\ \E o \in Fetched :
          /\ Fetched = {o}
          /\ w' = [w EXCEPT !.name[kind] = o.name]
    /\ pc' = "record"
    /\ UNCHANGED <<objVars, stVars, queue, delayed, kind, want, err, misled, next,
                   faults>>

Unchanged ==
    /\ pc = "apply"
    /\ \E o \in Fetched :
          /\ Fetched = {o} /\ o.ref = RoleRef
          /\ w' = [w EXCEPT !.name[kind] = o.name]
    /\ pc' = "record"
    /\ UNCHANGED <<objVars, stVars, queue, delayed, kind, want, err, misled, next,
                   faults>>

(* handleClusterRoleBindingModification: delete, then create under the     *)
(* same name.  That the object is gone already is no error.                *)
DeleteToReplace ==
    /\ pc = "apply"
    /\ \E o \in Fetched :
          /\ Fetched = {o} /\ o.ref # RoleRef
          /\ \/ /\ WriteObjs(kind, {p \in objs[kind] : p.name # o.name})
                /\ want' = o.name /\ pc' = "create"
                /\ UNCHANGED <<kind, w, err, misled, faults>>
             \/ CallFails /\ UNCHANGED <<objs, objLag>>
    /\ UNCHANGED <<cache, stVars, queue, delayed, next>>

DuplicateResources ==
    /\ pc = "apply" /\ Cardinality(Fetched) > 1
    /\ FailWith("Irrecoverable")
    /\ UNCHANGED <<objVars, stVars, queue, delayed, next, faults>>

Create ==
    /\ pc = "create"
    /\ \/ LET name == IF want = NoName THEN next[kind] ELSE want
          IN  /\ want # NoName \/ next["role"] + next["binding"] - 2 < MaxNames
              /\ \A o \in objs[kind] : o.name # name
              /\ WriteObjs(kind, objs[kind] \cup {[name |-> name, ref |-> RoleRef]})
              /\ next' = [next EXCEPT ![kind] = IF want = NoName THEN @ + 1 ELSE @]
              /\ w' = [w EXCEPT !.name[kind] = name]
              /\ pc' = "record"
              /\ want' = NoName
              /\ UNCHANGED <<kind, err, misled, faults>>
       \/ /\ \E o \in objs[kind] : o.name = want
          /\ FailWith(FromClientError("AlreadyExists"))
          /\ UNCHANGED <<objs, objLag, next, faults>>
       \/ CallFails /\ UNCHANGED <<objs, objLag, next>>
    /\ UNCHANGED <<cache, stVars, queue, delayed>>

(* updateStatus: the whole status of the working copy, sent with the       *)
(* cached resourceVersion; the retries wait for DeliverCR or give up.      *)
UpdateStatus ==
    /\ stLag = "none"
    /\ status' = w
    /\ stLag' = IF w = status THEN "none" ELSE "quiet"
    /\ UNCHANGED stCache

NextKind ==
    /\ pc' = IF kind = "role" THEN "apply" ELSE "result"
    /\ kind' = "binding"
    /\ UNCHANGED <<w, want, err, misled>>

UpdateNameInStatus ==
    /\ pc = "record"
    /\ \/ UpdateStatus /\ NextKind /\ UNCHANGED faults
       \/ /\ stLag # "none"
          /\ FailWith(FromClientError("Conflict"))
          /\ UNCHANGED <<stVars, faults>>
       \/ CallFails /\ UNCHANGED stVars
    /\ UNCHANGED <<objVars, queue, delayed, next>>

HandleReconcileResult ==
    /\ pc = "result"
    /\ \/ /\ ConditionsChanged(w.conds, err)
          /\ w' = [w EXCEPT !.conds = ConditionsFor(err)]
          /\ pc' = "publish"
          /\ UNCHANGED <<kind, want, err, misled, delayed>>
       \/ /\ ~ConditionsChanged(w.conds, err)
          /\ Return(Requeues(err, TRUE))
    /\ UNCHANGED <<objVars, stVars, queue, next, faults>>

UpdateCondition ==
    /\ pc = "publish"
    /\ \/ UpdateStatus /\ Return(Requeues(err, TRUE)) /\ UNCHANGED faults
       \/ /\ stLag # "none"
          /\ Return(Requeues(err, FALSE))
          /\ UNCHANGED <<stVars, faults>>
       \/ /\ Outages # {} /\ Disturb
          /\ Return(Requeues(err, FALSE))
          /\ UNCHANGED stVars
    /\ UNCHANGED <<objVars, queue, next>>

ReconcileStep ==
    \/ Reconcile \/ NotFound \/ Unchanged \/ DeleteToReplace
    \/ DuplicateResources \/ Create \/ UpdateNameInStatus
    \/ HandleReconcileResult \/ UpdateCondition

-----------------------------------------------------------------------------
(* An event of another managed object, the end of an outage, ...           *)
OtherEvent ==
    /\ Disturb
    /\ queue' = TRUE
    /\ UNCHANGED <<objVars, stVars, delayed, recVars, next>>

SomebodyDeletes(k) ==
    /\ Disturb
    /\ \E o \in objs[k] : WriteObjs(k, objs[k] \ {o})
    /\ UNCHANGED <<cache, stVars, queue, delayed, recVars, next>>

(* The IstioCSR is deleted and created again; its operands stay behind.    *)
UserRecreates ==
    /\ Disturb
    /\ status' = EmptyStatus /\ stLag' = "event"
    /\ UNCHANGED <<objVars, stCache, queue, delayed, recVars, next>>

Restart ==
    /\ Disturb
    /\ cache' = objs /\ objLag' = [k \in Kinds |-> FALSE]
    /\ stCache' = status /\ stLag' = "none"
    /\ queue' = TRUE /\ delayed' = FALSE
    /\ pc' = "idle" /\ kind' = "role" /\ w' = EmptyStatus /\ want' = NoName
    /\ err' = "nil" /\ misled' = FALSE
    /\ UNCHANGED <<objs, status, next>>

System ==
    \/ \E k \in Kinds : DeliverObjs(k)
    \/ DeliverCR \/ Requeue \/ ReconcileStep

Environment ==
    \/ OtherEvent \/ UserRecreates \/ Restart
    \/ \E k \in Kinds : SomebodyDeletes(k)

Next == System \/ Environment

Spec == Init /\ [][Next]_vars

(* As in IstioCSR.                                                         *)
Synced == stLag = "none" /\ \A k \in Kinds : ~objLag[k]

FairSpec ==
    /\ Spec
    /\ \A k \in Kinds : WF_vars(DeliverObjs(k))
    /\ WF_vars(DeliverCR) /\ WF_vars(Requeue) /\ WF_vars(ReconcileStep)
    /\ <>[][Requeue => pc = "idle" /\ Synced]_vars

-----------------------------------------------------------------------------
Quiescent == pc = "idle" /\ ~queue /\ ~delayed /\ Synced

(* The operand has its permissions: the binding the status names exists    *)
(* and refers to the role the status names, which exists as well.          *)
Bound ==
    /\ \E o \in objs["role"] : o.name = status.name["role"]
    /\ [name |-> status.name["binding"], ref |-> status.name["role"]] \in objs["binding"]

(* Listing by label before creating keeps the objects unique.              *)
NoDuplicates == \A k \in Kinds : Cardinality(objs[k]) <= 1

(* When the controller rests and reports Ready, the role and the binding   *)
(* are there and belong together, even if there are others besides them: a *)
(* role that came back under another name has taken the binding with it.   *)
(* The one exception is a pass that took an old status for the live one.   *)
ReadyMeansBound ==
    (Quiescent /\ status.conds.ready = "Ready" /\ ~misled) => Bound

(* Duplicates are the only thing that keeps the controller from reaching   *)
(* Ready with the permissions in place, once it is left alone.             *)
Settles ==
    <>[](Bound /\ status.conds.ready = "Ready") \/ <>~NoDuplicates
=============================================================================
