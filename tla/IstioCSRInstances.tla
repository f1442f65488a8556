-------------------------- MODULE IstioCSRInstances --------------------------
(***************************************************************************)
(* Several IstioCSR objects, one per namespace, competing for the only     *)
(* operand the cluster may have: processReconcileRequest and               *)
(* disallowMultipleIstioCSRInstances of pkg/controller/istiocsr.           *)
(*                                                                         *)
(* The installation itself is the module IstioCSR; here it is one step     *)
(* that succeeds, fails and is retried, or fails for good.  The finalizer is taken to be in place.  The    *)
(* informer keeps all IstioCSR objects in one cache fed by one watch, so   *)
(* what the reconciler lists is the store as it was a while ago: log holds *)
(* the states of the store from the cached one, its head, to the live one. *)
(***************************************************************************)
EXTENDS Naturals, Sequences

CONSTANTS
    Absent,         \* no object
    Namespaces,     \* one IstioCSR, named "default", may live in each
    SameSecond,     \* whether two objects may get one creationTimestamp
    MaxCreates,     \* bound: objects created
    MaxLag,         \* bound: events under way when a user acts
    MaxFaults       \* bound: managed events, failed calls, restarts

ASSUME InstancesAssumption ==
    /\ SameSecond \in BOOLEAN
    /\ MaxCreates \in Nat
    /\ MaxLag \in Nat
    /\ MaxFaults \in Nat

VARIABLES
    log,        \* the store: cached state first, live state last
    queue,      \* requests in the work queue
    delayed,    \* requests a timer will put back
    pc, cur, w, \* Reconcile: its next call, its request, its working copy
    failed,     \* a write of the rejection failed
    clock,      \* the second creationTimestamp counts
    created,    \* objects created so far
    faults      \* disturbances left

recVars == <<pc, cur, w, failed>>
vars == <<log, queue, delayed, recVars, clock, created, faults>>

(* uid numbers the objects in the order of their creation; created is the  *)
(* creationTimestamp, with the precision of a second.  ready is the reason *)
(* of the Ready condition, degraded the status of the other one: only with *)
(* Ready = Failed does the code leave it open.                             *)
Instances == [uid : 1..MaxCreates, created : 0..MaxCreates, deleting : BOOLEAN,
              rejected : BOOLEAN, processed : BOOLEAN,
              ready : {"unset", "Failed", "Progressing", "Ready"},
              degraded : BOOLEAN]

ASSUME AbsentInstanceAssumption == Absent \notin Instances

Stores == [Namespaces -> Instances \cup {Absent}]

cache == log[1]
live == log[Len(log)]

Points == {"idle", "unfinalize", "reportRejected", "list", "rejectStatus",
           "rejectAnnotate", "install", "annotate", "publish"}

TypeOK ==
    /\ log \in Seq(Stores) /\ log # <<>>
    /\ queue \subseteq Namespaces
    /\ delayed \subseteq Namespaces
    /\ pc \in Points
    /\ pc # "idle" => cur \in Namespaces /\ w \in Instances
    /\ failed \in BOOLEAN
    /\ clock \in 0..MaxCreates
    /\ created \in 0..MaxCreates
    /\ faults \in 0..MaxFaults

Init ==
    /\ log = <<[n \in Namespaces |-> Absent]>>
    /\ queue = {} /\ delayed = {}
    /\ pc = "idle" /\ cur = Absent /\ w = Absent /\ failed = FALSE
    /\ clock = 0 /\ created = 0 /\ faults = MaxFaults

-----------------------------------------------------------------------------
(* A write to the store; one that changes nothing makes no event.          *)
Write(n, new) ==
    log' = IF new = live[n] THEN log ELSE Append(log, [live EXCEPT ![n] = new])

(* The cached resourceVersion of n is the live one.                        *)
Fresh(n) == \A i \in 1..Len(log) : log[i][n] = log[1][n]

(* GenerationChangedPredicate on the IstioCSR watch.                       *)
Passes(old, new) ==
    /\ old # new
    /\ \/ old = Absent
       \/ new = Absent
       \/ old.uid # new.uid
       \/ old.deleting # new.deleting

(* The watch delivers the next event.                                      *)
Deliver ==
    /\ Len(log) > 1
    /\ log' = Tail(log)
    /\ queue' = queue \cup {n \in Namespaces : Passes(log[1][n], log[2][n])}
    /\ UNCHANGED <<delayed, recVars, clock, created, faults>>

Requeue(n) ==
    /\ n \in delayed
    /\ delayed' = delayed \ {n}
    /\ queue' = queue \cup {n}
    /\ UNCHANGED <<log, recVars, clock, created, faults>>

Disturb == faults > 0 /\ faults' = faults - 1

(* An event of a managed object, whose labels map it to namespace n.       *)
ManagedEvent(n) ==
    /\ Disturb
    /\ queue' = queue \cup {n}
    /\ UNCHANGED <<log, delayed, recVars, clock, created>>

-----------------------------------------------------------------------------
(* updateStatus writes to whatever object the cache has under the name;    *)
(* UpdateWithRetry sends the uid of the working copy.                      *)
StatusWritable == cache[cur] # Absent /\ live[cur] # Absent /\ Fresh(cur)
Updatable == StatusWritable /\ live[cur].uid = w.uid

(* A write fails because it must or because the API server is unwell.      *)
CallFails(possible) ==
    /\ \/ ~possible /\ UNCHANGED faults
       \/ Disturb
    /\ UNCHANGED log

PublishStatus ==
    Write(cur, [live[cur] EXCEPT !.ready = w.ready, !.degraded = w.degraded])
UpdateInstance ==
    Write(cur, [live[cur] EXCEPT !.rejected = w.rejected, !.processed = w.processed])

Return(requeue) ==
    /\ pc' = "idle" /\ cur' = Absent /\ w' = Absent /\ failed' = FALSE
    /\ delayed' = IF requeue THEN delayed \cup {cur} ELSE delayed

(* Variant: NotFound is not handled.                                       *)
ReconcileUnchecked(n) ==
    /\ pc = "idle" /\ n \in queue
    /\ queue' = queue \ {n}
    /\ pc' = "list" /\ cur' = n /\ w' = cache[n]
    /\ UNCHANGED <<failed, log, delayed, clock, created, faults>>

(* Take a request and look at the object: gone, terminating, rejected      *)
(* earlier, or to be arbitrated.                                           *)
Reconcile(n) ==
    /\ pc = "idle" /\ n \in queue
    /\ queue' = queue \ {n}
    /\ \/ /\ cache[n] = Absent
          /\ UNCHANGED recVars
       \/ /\ cache[n] # Absent
          /\ ~cache[n].deleting /\ cache[n].rejected /\ cache[n].ready = "Failed"
          /\ UNCHANGED recVars
       \/ /\ cache[n] # Absent
          /\ cur' = n
          /\ \/ /\ cache[n].deleting
                /\ pc' = "unfinalize" /\ w' = cache[n]
             \/ /\ ~cache[n].deleting /\ cache[n].rejected /\ cache[n].ready # "Failed"
                /\ pc' = "reportRejected"
                /\ w' = [cache[n] EXCEPT !.ready = "Failed"]
             \/ /\ ~cache[n].deleting /\ ~cache[n].rejected
                /\ pc' = "list" /\ w' = cache[n]
          /\ UNCHANGED failed
    /\ UNCHANGED <<log, delayed, clock, created, faults>>

(* removeFinalizer: the object goes away, or the error is retried.         *)
RemoveFinalizer ==
    /\ pc = "unfinalize"
    /\ \/ Updatable /\ Write(cur, Absent) /\ Return(FALSE) /\ UNCHANGED faults
       \/ CallFails(Updatable) /\ Return(TRUE)
    /\ UNCHANGED <<queue, clock, created>>

(* A rejected instance whose working copy does not say so yet.  The error  *)
(* of the write ends up inside the MultipleInstanceError that              *)
(* processReconcileRequest turns into nil.                                 *)
ReportRejected ==
    /\ pc = "reportRejected"
    /\ \/ StatusWritable /\ PublishStatus /\ UNCHANGED faults
       \/ CallFails(StatusWritable)
    /\ Return(FALSE)
    /\ UNCHANGED <<queue, clock, created>>

(* Variants: an equal timestamp does not count, an object being deleted    *)
(* does not count.                                                         *)
OlderOnly == {m \in Namespaces \ {cur} :
                    cache[m] # Absent /\ cache[m].created < w.created}
OlderNotDeleting == {m \in Namespaces \ {cur} :
                    /\ cache[m] # Absent /\ cache[m].created <= w.created
                    /\ ~cache[m].deleting}

(* The list comes from the cache, after the object did.                    *)
OlderOrEqual == {m \in Namespaces \ {cur} :
                    cache[m] # Absent /\ cache[m].created <= w.created}

(* A list of at most one object ends the search.  That one may be another, *)
(* older object, when the one being reconciled has left the cache since.   *)
ListsOne == \A m, n \in Namespaces : cache[m] # Absent /\ cache[n] # Absent => m = n

Allowed == ListsOne \/ OlderOrEqual = {}

DisallowMultipleInstances ==
    /\ pc = "list"
    /\ \/ /\ Allowed
          /\ pc' = "install"
          /\ UNCHANGED w
       \/ /\ ~Allowed /\ w.ready # "Failed"
          /\ pc' = "rejectStatus"
          /\ w' = [w EXCEPT !.ready = "Failed"]
       \/ /\ ~Allowed /\ w.ready = "Failed"
          /\ pc' = "rejectAnnotate"
          /\ w' = [w EXCEPT !.rejected = TRUE]
    /\ UNCHANGED <<log, queue, delayed, cur, failed, clock, created, faults>>

RejectStatus ==
    /\ pc = "rejectStatus"
    /\ \/ StatusWritable /\ PublishStatus /\ UNCHANGED <<failed, faults>>
       \/ CallFails(StatusWritable) /\ failed' = TRUE
    /\ pc' = "rejectAnnotate"
    /\ w' = [w EXCEPT !.rejected = TRUE]
    /\ UNCHANGED <<queue, delayed, cur, clock, created>>

RejectAnnotate ==
    /\ pc = "rejectAnnotate"
    /\ \/ Updatable /\ UpdateInstance /\ Return(failed) /\ UNCHANGED faults
       \/ CallFails(Updatable) /\ Return(TRUE)
    /\ UNCHANGED <<queue, clock, created>>

(* HandleReconcileResult: the conditions are written only when the object  *)
(* o, the working copy or what replaced it, does not have them.  Only a    *)
(* recoverable failure comes back by itself.                               *)
Result(o, wanted) ==
    IF o.ready = wanted /\ o.degraded = (wanted = "Failed")
    THEN Return(wanted = "Progressing")
    ELSE /\ pc' = "publish"
         /\ w' = [w EXCEPT !.ready = wanted, !.degraded = (wanted = "Failed")]
         /\ UNCHANGED <<cur, failed, delayed>>

(* A step of the installation before or after the status write of the      *)
(* cluster role step is answered with an error.  A conflict is retried,    *)
(* and so is a part of the server's errors; Forbidden, Invalid,            *)
(* ServiceUnavailable and the like are final.                              *)
InstallFails ==
    \/ CallFails(StatusWritable) /\ Result(w, "Progressing")
    \/ /\ Disturb
       /\ UNCHANGED log \/ (StatusWritable /\ PublishStatus)
       /\ \E wanted \in {"Progressing", "Failed"} : Result(w, wanted)

(* reconcileIstioCSRDeployment up to the processed annotation.  Its cluster*)
(* role step writes the status of the working copy every time.             *)
Install ==
    /\ pc = "install"
    /\ \/ /\ StatusWritable /\ PublishStatus
          /\ ~w.processed
          /\ pc' = "annotate"
          /\ w' = [w EXCEPT !.processed = TRUE]
          /\ UNCHANGED <<cur, failed, delayed, faults>>
       \/ /\ StatusWritable /\ PublishStatus
          /\ w.processed
          /\ Result(w, "Ready")
          /\ UNCHANGED faults
       \/ InstallFails
    /\ UNCHANGED <<queue, clock, created>>

(* On success the server's answer replaces the working copy.  The error of *)
(* this update is passed on unclassified, hence always retried.            *)
AnnotateProcessed ==
    /\ pc = "annotate"
    /\ \/ /\ Updatable
          /\ UpdateInstance
          /\ Result(live[cur], "Ready")
          /\ UNCHANGED faults
       \/ CallFails(Updatable) /\ Result(w, "Progressing")
    /\ UNCHANGED <<queue, clock, created>>

(* Variant: a recoverable failure is not retried once it was published.    *)
UpdateConditionFinal ==
    /\ pc = "publish"
    /\ \/ /\ StatusWritable
          /\ PublishStatus
          /\ Return(FALSE)
          /\ UNCHANGED faults
       \/ CallFails(StatusWritable) /\ Return(TRUE)
    /\ UNCHANGED <<queue, clock, created>>

UpdateCondition ==
    /\ pc = "publish"
    /\ \/ /\ StatusWritable
          /\ PublishStatus
          /\ Return(w.ready = "Progressing")
          /\ UNCHANGED faults
       \/ CallFails(StatusWritable) /\ Return(TRUE)
    /\ UNCHANGED <<queue, clock, created>>

ReconcileStep ==
    \/ \E n \in Namespaces : Reconcile(n)
    \/ RemoveFinalizer \/ ReportRejected \/ DisallowMultipleInstances
    \/ RejectStatus \/ RejectAnnotate \/ Install \/ AnnotateProcessed
    \/ UpdateCondition

-----------------------------------------------------------------------------
(* A second passes, or not, and a user creates an object; the seconds are  *)
(* counted from the first object.                                          *)
UserCreates(n) ==
    /\ live[n] = Absent /\ created < MaxCreates /\ Len(log) <= MaxLag
    /\ created' = created + 1
    /\ clock' \in {clock, clock + 1} \cap 0..MaxCreates
    /\ (SameSecond /\ created > 0) \/ clock' > clock
    /\ Write(n, [uid |-> created + 1, created |-> clock', deleting |-> FALSE,
                 rejected |-> FALSE, processed |-> FALSE, ready |-> "unset",
                 degraded |-> FALSE])
    /\ UNCHANGED <<queue, delayed, recVars, faults>>

UserDeletes(n) ==
    /\ live[n] # Absent /\ ~live[n].deleting /\ Len(log) <= MaxLag
    /\ Write(n, [live[n] EXCEPT !.deleting = TRUE])
    /\ UNCHANGED <<queue, delayed, recVars, clock, created, faults>>

Restart ==
    /\ Disturb
    /\ log' = <<live>>
    /\ queue' = {n \in Namespaces : live[n] # Absent}
    /\ delayed' = {}
    /\ pc' = "idle" /\ cur' = Absent /\ w' = Absent /\ failed' = FALSE
    /\ UNCHANGED <<clock, created>>

Next ==
    \/ Deliver
    \/ ReconcileStep
    \/ \E n \in Namespaces :
          Requeue(n) \/ ManagedEvent(n) \/ UserCreates(n) \/ UserDeletes(n)
    \/ Restart

Spec == Init /\ [][Next]_vars

(* As in IstioCSR: the watch, the timers and the worker make progress, and *)
(* from some point on a timer outlasts the watch's delay.                  *)
Synced == Len(log) = 1

FairSpec ==
    /\ Spec
    /\ WF_vars(Deliver) /\ WF_vars(ReconcileStep)
    /\ \A n \in Namespaces :
          /\ WF_vars(Requeue(n))
          /\ SF_vars(Reconcile(n))
          /\ <>[][Requeue(n) => pc = "idle" /\ Synced]_vars

-----------------------------------------------------------------------------
(* Two live objects have never both had the operand installed for them,    *)
(* although every decision is taken on a stale list and a decision is      *)
(* acted on long after it was taken.                                       *)
AtMostOneProcessed ==
    \A m, n \in Namespaces :
        (/\ live[m] # Absent /\ live[m].processed
         /\ live[n] # Absent /\ live[n].processed) => m = n

(* While the operand is being installed for an object that still exists,   *)
(* no live object is older.                                                *)
OnlyOldestInstalls ==
    \A m \in Namespaces :
        (/\ pc \in {"install", "annotate"}
         /\ live[cur] # Absent /\ live[cur].uid = w.uid
         /\ live[m] # Absent) => live[m].created >= w.created

(* At rest a rejected object says so.                                      *)
RejectedReported ==
    (pc = "idle" /\ queue = {} /\ delayed = {} /\ Synced) =>
        \A n \in Namespaces :
            (live[n] # Absent /\ live[n].rejected) => live[n].ready = "Failed"

(* Every object so far was created in a second of its own.                 *)
OwnSeconds == created = clock

(* The first object ever created gets the operand, unless it is deleted,   *)
(* objects share a second (of those none counts as older) or a step of the *)
(* installation fails for good; it then says so by Degraded, and stays so  *)
(* until something else wakes the controller.                              *)
FirstServed ==
    \A n \in Namespaces :
        (live[n] # Absent /\ live[n].uid = 1)
            ~> \/ live[n] = Absent
               \/ live[n].uid # 1 \/ live[n].deleting
               \/ ~OwnSeconds \/ live[n].degraded
               \/ live[n].processed /\ live[n].ready = "Ready"
=============================================================================
