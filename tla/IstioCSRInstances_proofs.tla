---------------------- MODULE IstioCSRInstances_proofs ----------------------
(***************************************************************************)
(* Proofs about several IstioCSR objects, for any set of namespaces, any   *)
(* delay of the watch and every bound.                                     *)
(***************************************************************************)
EXTENDS IstioCSRInstances, SequenceTheorems, TLAPS

-----------------------------------------------------------------------------
(***************************************************************************)
(* Type correctness.                                                       *)
(***************************************************************************)

(* The store before and after it, and the cached one, are stores.          *)
LEMMA StoresType ==
    ASSUME TypeOK
    PROVE  /\ Len(log) \in Nat \ {0}
           /\ \A i \in 1..Len(log) : log[i] \in Stores
           /\ live \in Stores /\ cache \in Stores
<1>1. Len(log) \in Nat /\ Len(log) # 0 /\ \A i \in 1..Len(log) : log[i] \in Stores
  BY DEF TypeOK
<1> QED
  BY <1>1 DEF live, cache

(* What a write does to the log.                                           *)
LEMMA WriteLog ==
    ASSUME TypeOK, NEW n \in Namespaces, NEW new \in Instances \cup {Absent},
           Write(n, new)
    PROVE  /\ log' \in Seq(Stores) /\ log' # <<>>
           /\ live' = [live EXCEPT ![n] = new]
           /\ \A i \in 1..(Len(log') - 1) : i \in 1..Len(log) /\ log'[i] = log[i]
<1> DEFINE new2 == [live EXCEPT ![n] = new]
<1>1. live \in Stores /\ new2 \in Stores
  BY StoresType DEF Stores
<1>2. CASE new = live[n]
  <2>1. new2 = live
    BY <1>1, <1>2 DEF Stores
  <2>2. log' = log /\ Len(log) \in Nat
    BY <1>2 DEF Write, TypeOK
  <2> QED
    BY <2>1, <2>2 DEF live, TypeOK
<1>3. CASE new # live[n]
  <2>1. log' = Append(log, new2)
    BY <1>3 DEF Write
  <2>2. log \in Seq(Stores)
    BY DEF TypeOK
  <2> HIDE DEF new2
  <2>3. /\ log' \in Seq(Stores) /\ Len(log') = Len(log) + 1
        /\ log'[Len(log) + 1] = new2
        /\ \A i \in 1..Len(log) : log'[i] = log[i]
        /\ Len(log) \in Nat
    BY <1>1, <2>1, <2>2
  <2>4. live' = new2
    BY <2>3 DEF live
  <2>5. log' # <<>>
    BY <2>3
  <2> QED
    BY <2>3, <2>4, <2>5 DEF new2
<1> QED
  BY <1>2, <1>3

(* What the watch does to the log.                                         *)
LEMMA DeliverLog ==
    ASSUME TypeOK, Deliver
    PROVE  /\ log' \in Seq(Stores) /\ log' # <<>>
           /\ live' = live
           /\ \A i \in 1..Len(log') : i + 1 \in 1..Len(log) /\ log'[i] = log[i + 1]
<1>1. log \in Seq(Stores) /\ Len(log) \in Nat /\ Len(log) > 1 /\ log' = Tail(log)
  BY DEF TypeOK, Deliver
<1>2. log # <<>>
  BY DEF TypeOK
<1>3. /\ Tail(log) \in Seq(Stores) /\ Len(Tail(log)) = Len(log) - 1
      /\ \A i \in 1..Len(Tail(log)) : Tail(log)[i] = log[i + 1]
  BY <1>1, <1>2, HeadTailProperties
<1>4. Len(log') = Len(log) - 1 /\ log' \in Seq(Stores)
      /\ \A i \in 1..Len(log') : log'[i] = log[i + 1]
  BY <1>1, <1>3
<1>5. live' = live
  <2>1. Len(log') \in 1..Len(log') /\ Len(log') + 1 = Len(log)
    BY <1>1, <1>4
  <2>2. log'[Len(log')] = log[Len(log') + 1]
    BY <1>4, <2>1
  <2> QED
    BY <2>1, <2>2 DEF live
<1>6. log' # <<>>
  <2>1. Len(log') # 0
    BY <1>1, <1>4
  <2> QED
    BY <1>4, <2>1, EmptySeq
<1> QED
  BY <1>1, <1>4, <1>5, <1>6

(* updateStatus keeps the log well typed.                                  *)
LEMMA PublishType ==
    ASSUME TypeOK, pc # "idle", StatusWritable, PublishStatus
    PROVE  log' \in Seq(Stores) /\ log' # <<>>
<1>1. cur \in Namespaces /\ w \in Instances
  BY DEF TypeOK
<1>2. live[cur] \in Instances
  BY <1>1, StoresType DEF Stores, StatusWritable
<1>3. [live[cur] EXCEPT !.ready = w.ready, !.degraded = w.degraded] \in Instances
  BY <1>1, <1>2 DEF Instances
<1> QED
  BY <1>1, <1>3, WriteLog DEF PublishStatus

(* UpdateWithRetry keeps the log well typed.                               *)
LEMMA UpdateType ==
    ASSUME TypeOK, pc # "idle", Updatable, UpdateInstance
    PROVE  log' \in Seq(Stores) /\ log' # <<>>
<1>1. cur \in Namespaces /\ w \in Instances
  BY DEF TypeOK
<1>2. live[cur] \in Instances
  BY <1>1, StoresType DEF Stores, StatusWritable, Updatable
<1>3. [live[cur] EXCEPT !.rejected = w.rejected, !.processed = w.processed] \in Instances
  BY <1>1, <1>2 DEF Instances
<1> QED
  BY <1>1, <1>3, WriteLog DEF UpdateInstance

(* The counter of disturbances stays in its range.                         *)
LEMMA FaultsType ==
    ASSUME TypeOK, Disturb \/ UNCHANGED faults
    PROVE  faults' \in 0..MaxFaults
BY InstancesAssumption DEF TypeOK, Disturb

(* A failed call keeps the types.                                          *)
LEMMA CallFailsType ==
    ASSUME TypeOK, NEW p, CallFails(p)
    PROVE  faults' \in 0..MaxFaults /\ log' \in Seq(Stores) /\ log' # <<>>
BY FaultsType DEF CallFails, TypeOK

(* Reconcile's variables after it returned, and after a result.            *)
LEMMA ReturnType ==
    ASSUME TypeOK, pc # "idle", NEW r \in BOOLEAN, Return(r)
    PROVE  pc' = "idle" /\ failed' \in BOOLEAN /\ delayed' \subseteq Namespaces
BY DEF Return, TypeOK

(* ... and after HandleReconcileResult.                                    *)
LEMMA ResultType ==
    ASSUME TypeOK, pc # "idle", NEW old, NEW wanted \in {"Failed", "Progressing", "Ready"},
           Result(old, wanted)
    PROVE  /\ pc' \in {"idle", "publish"} /\ failed' \in BOOLEAN
           /\ delayed' \subseteq Namespaces
           /\ pc' = "publish" => /\ cur' = cur /\ w' \in Instances
                                 /\ w'.uid = w.uid /\ w'.created = w.created
                                 /\ w'.processed = w.processed
<1> DEFINE same == old.ready = wanted /\ old.degraded = (wanted = "Failed")
<1>1. CASE same
  BY <1>1, ReturnType DEF Result
<1>2. CASE ~same
  <2>1. /\ w \in Instances
        /\ w' = [w EXCEPT !.ready = wanted, !.degraded = (wanted = "Failed")]
    BY <1>2 DEF Result, TypeOK
  <2> QED
    BY <1>2, <2>1 DEF Result, TypeOK, Instances
<1> QED
  BY <1>1, <1>2

(* Copies of the working copy that Reconcile makes.                        *)
LEMMA WorkType ==
    ASSUME NEW o \in Instances
    PROVE  /\ [o EXCEPT !.ready = "Failed"] \in Instances
           /\ [o EXCEPT !.rejected = TRUE] \in Instances
           /\ [o EXCEPT !.processed = TRUE] \in Instances
BY DEF Instances

(* The initial state is well typed.                                        *)
LEMMA TypeInit == Init => TypeOK
<1> SUFFICES ASSUME Init PROVE TypeOK
  OBVIOUS
<1>1. [n \in Namespaces |-> Absent] \in Stores
  BY DEF Stores
<1>2. log \in Seq(Stores) /\ log # <<>>
  BY <1>1 DEF Init
<1>3. /\ queue \subseteq Namespaces /\ delayed \subseteq Namespaces
      /\ pc = "idle" /\ failed \in BOOLEAN
  BY DEF Init
<1>4. clock \in 0..MaxCreates /\ created \in 0..MaxCreates /\ faults \in 0..MaxFaults
  BY InstancesAssumption DEF Init
<1> QED
  BY <1>2, <1>3, <1>4 DEF TypeOK, Points

(* Every step preserves the types.                                         *)
LEMMA TypeNext == TypeOK /\ [Next]_vars => TypeOK'
<1> SUFFICES ASSUME TypeOK, [Next]_vars
             PROVE  TypeOK'
  OBVIOUS
<1>1. CASE Deliver
  <2>1. log' \in Seq(Stores) /\ log' # <<>>
    BY <1>1, DeliverLog
  <2> QED
    BY <1>1, <2>1 DEF Deliver, TypeOK, recVars
<1>2. ASSUME NEW n \in Namespaces, Reconcile(n)
      PROVE  TypeOK'
  <2>1. cache[n] # Absent => /\ cache[n] \in Instances
                             /\ [cache[n] EXCEPT !.ready = "Failed"] \in Instances
    BY StoresType, WorkType DEF Stores
  <2> QED
    BY <1>2, <2>1 DEF Reconcile, TypeOK, recVars, Points
<1>3. CASE RemoveFinalizer
  <2>1. CASE Updatable /\ Write(cur, Absent) /\ Return(FALSE) /\ UNCHANGED faults
    <3>1. log' \in Seq(Stores) /\ log' # <<>>
      BY <1>3, <2>1, WriteLog DEF RemoveFinalizer, TypeOK
    <3> QED
      BY <1>3, <2>1, <3>1, ReturnType DEF RemoveFinalizer, TypeOK, Points
  <2>2. CASE CallFails(Updatable) /\ Return(TRUE)
    BY <1>3, <2>2, CallFailsType, ReturnType DEF RemoveFinalizer, TypeOK, Points
  <2> QED
    BY <1>3, <2>1, <2>2 DEF RemoveFinalizer
<1>4. CASE ReportRejected
  <2>1. log' \in Seq(Stores) /\ log' # <<>> /\ faults' \in 0..MaxFaults
    BY <1>4, PublishType, CallFailsType, FaultsType DEF ReportRejected
  <2> QED
    BY <1>4, <2>1, ReturnType DEF ReportRejected, TypeOK, Points
<1>5. CASE DisallowMultipleInstances
  BY <1>5, WorkType DEF DisallowMultipleInstances, TypeOK, Points
<1>6. CASE RejectStatus
  <2>1. log' \in Seq(Stores) /\ log' # <<>> /\ faults' \in 0..MaxFaults
    BY <1>6, PublishType, CallFailsType, FaultsType DEF RejectStatus
  <2> QED
    BY <1>6, <2>1, WorkType DEF RejectStatus, TypeOK, Points
<1>7. CASE RejectAnnotate
  <2>1. log' \in Seq(Stores) /\ log' # <<>> /\ faults' \in 0..MaxFaults
    BY <1>7, UpdateType, CallFailsType, FaultsType DEF RejectAnnotate
  <2>2. pc # "idle" /\ failed \in BOOLEAN
    BY <1>7 DEF RejectAnnotate, TypeOK
  <2>3. pc' = "idle" /\ failed' \in BOOLEAN /\ delayed' \subseteq Namespaces
    BY <1>7, <2>2, ReturnType DEF RejectAnnotate
  <2> QED
    BY <1>7, <2>1, <2>3 DEF RejectAnnotate, TypeOK, Points
<1>8. CASE Install
  <2>1. log' \in Seq(Stores) /\ log' # <<>> /\ faults' \in 0..MaxFaults
    BY <1>8, PublishType, CallFailsType, FaultsType DEF Install, InstallFails, TypeOK
  <2>2. CASE /\ pc' = "annotate" /\ w' = [w EXCEPT !.processed = TRUE]
             /\ UNCHANGED <<cur, failed, delayed, faults>>
    BY <1>8, <2>1, <2>2, WorkType DEF Install, TypeOK, Points
  <2>3. CASE \E wanted \in {"Failed", "Progressing", "Ready"} : Result(w, wanted)
    BY <1>8, <2>1, <2>3, ResultType DEF Install, TypeOK, Points
  <2> QED
    BY <1>8, <2>2, <2>3 DEF Install, InstallFails
<1>9. CASE AnnotateProcessed
  <2>1. log' \in Seq(Stores) /\ log' # <<>> /\ faults' \in 0..MaxFaults
    BY <1>9, UpdateType, CallFailsType, FaultsType DEF AnnotateProcessed
  <2> QED
    BY <1>9, <2>1, ResultType DEF AnnotateProcessed, TypeOK, Points
<1>10. CASE UpdateCondition
  <2>1. log' \in Seq(Stores) /\ log' # <<>> /\ faults' \in 0..MaxFaults
    BY <1>10, PublishType, CallFailsType, FaultsType DEF UpdateCondition
  <2> QED
    BY <1>10, <2>1, ReturnType DEF UpdateCondition, TypeOK, Points
<1>11. ASSUME NEW n \in Namespaces, Requeue(n) \/ ManagedEvent(n)
       PROVE  TypeOK'
  BY <1>11, FaultsType DEF Requeue, ManagedEvent, TypeOK, recVars
<1>12. ASSUME NEW n \in Namespaces, UserCreates(n)
       PROVE  TypeOK'
  <2> DEFINE new == [uid |-> created + 1, created |-> clock', deleting |-> FALSE,
                     rejected |-> FALSE, processed |-> FALSE, ready |-> "unset",
                     degraded |-> FALSE]
  <2>1. created + 1 \in 1..MaxCreates /\ clock' \in 0..MaxCreates /\ created' \in 0..MaxCreates
    BY <1>12, InstancesAssumption DEF UserCreates, TypeOK
  <2>2. new \in Instances
    BY <2>1 DEF Instances
  <2>3. Write(n, new)
    BY <1>12 DEF UserCreates
  <2> HIDE DEF new
  <2>4. log' \in Seq(Stores) /\ log' # <<>>
    BY <2>2, <2>3, WriteLog
  <2> QED
    BY <1>12, <2>1, <2>4 DEF UserCreates, TypeOK, recVars
<1>13. ASSUME NEW n \in Namespaces, UserDeletes(n)
       PROVE  TypeOK'
  <2>1. live[n] \in Instances
    BY <1>13, StoresType DEF UserDeletes, Stores
  <2>2. [live[n] EXCEPT !.deleting = TRUE] \in Instances
    BY <2>1 DEF Instances
  <2>3. log' \in Seq(Stores) /\ log' # <<>>
    BY <1>13, <2>2, WriteLog DEF UserDeletes
  <2> QED
    BY <1>13, <2>3 DEF UserDeletes, TypeOK, recVars
<1>14. CASE Restart
  <2>1. log' \in Seq(Stores) /\ log' # <<>>
    BY <1>14, StoresType DEF Restart
  <2> QED
    BY <1>14, <2>1, FaultsType DEF Restart, TypeOK, Points
<1>15. CASE UNCHANGED vars
  BY <1>15 DEF vars, recVars, TypeOK
<1> QED
  BY <1>1, <1>2, <1>3, <1>4, <1>5, <1>6, <1>7, <1>8, <1>9, <1>10, <1>11,
     <1>12, <1>13, <1>14, <1>15 DEF Next, ReconcileStep

(* The arbitration never uses an object that is not there: whatever the    *)
(* cache and the store, and whenever objects come and go.                  *)
THEOREM TypeCorrect == Spec => []TypeOK
BY TypeInit, TypeNext, PTL DEF Spec

-----------------------------------------------------------------------------
(***************************************************************************)
(* At most one object gets the operand.  The decision is taken on the      *)
(* cached list, for a working copy read from the cache even earlier.  It   *)
(* is right because the cache is a past state of the store: an object that *)
(* is older than one the cache has shown, and still lives, is in the cache *)
(* as well, and so is the one that was read, unless it is gone.  What was  *)
(* decided stays right because later objects are younger.                  *)
(***************************************************************************)

(* An object of namespace n with uid u and creationTimestamp t is in some  *)
(* state of the log, or in work.                                           *)
Logged(n, u, t) ==
    \E i \in 1..Len(log) :
        log[i][n] # Absent /\ log[i][n].uid = u /\ log[i][n].created = t

InWork(n, u, t) == pc # "idle" /\ cur = n /\ w.uid = u /\ w.created = t

Seen(n, u, t) == Logged(n, u, t) \/ InWork(n, u, t)

Uids == 1..MaxCreates
Times == 0..MaxCreates

(* uids are unique and in the order of the timestamps.                     *)
BoundInv ==
    \A n \in Namespaces, u \in Uids, t \in Times :
        Seen(n, u, t) => u <= created /\ t <= clock

IdInv ==
    \A m, n \in Namespaces, u, v \in Uids, t, s \in Times :
        Seen(m, u, t) /\ Seen(n, v, s) => (u = v => m = n) /\ (u <= v => t <= s)

(* The live object of namespace m is in the log from its state i on.       *)
Persists(m, i) ==
    \A j \in i..Len(log) : log[j][m] # Absent /\ log[j][m].uid = live[m].uid

(* A live object that is one a state of the log shows, or is older, is in  *)
(* that state; if it is the working copy or older, it is in all of them.   *)
OrderInv ==
    \A i \in 1..Len(log), m, n \in Namespaces :
        (/\ live[m] # Absent /\ log[i][n] # Absent
         /\ live[m].uid <= log[i][n].uid) => Persists(m, i)

WorkInv ==
    \A m \in Namespaces :
        (pc # "idle" /\ live[m] # Absent /\ live[m].uid <= w.uid) => Persists(m, 1)

(* Every other live object is younger than the one with uid u.             *)
First(n, u) == \A m \in Namespaces \ {n} : live[m] # Absent => u < live[m].uid

(* The object of namespace n with uid u is gone.                           *)
Gone(n, u) == live[n] = Absent \/ live[n].uid # u

(* Who has the operand, or is about to get it and still exists, is the     *)
(* first.                                                                  *)
ProcInv ==
    \A i \in 1..Len(log), n \in Namespaces :
        log[i][n] # Absent /\ log[i][n].processed => First(n, log[i][n].uid)

InstInv ==
    pc # "idle" /\ (w.processed \/ pc \in {"install", "annotate"})
        => Gone(cur, w.uid) \/ First(cur, w.uid)

Inv == /\ TypeOK /\ BoundInv /\ IdInv /\ OrderInv /\ WorkInv /\ ProcInv /\ InstInv

(***************************************************************************)
(* What the steps have in common.  The log loses a prefix or gains a new   *)
(* live state; objects of the live state keep their identity, vanish, or   *)
(* are new; an object that is processed afterwards existed before and is   *)
(* the first.                                                              *)
(***************************************************************************)
Shifted ==
    \E d \in Nat : \A i \in 1..(Len(log') - 1) :
        i + d \in 1..Len(log) /\ log'[i] = log[i + d]

Kept(m) ==
    /\ live[m] # Absent
    /\ live'[m].uid = live[m].uid /\ live'[m].created = live[m].created

New(m) ==
    /\ created' = created + 1
    /\ live'[m].uid = created + 1 /\ live'[m].created = clock'

StoreStep(n0) ==
    /\ Shifted
    /\ created' \in {created, created + 1} /\ clock' >= clock
    /\ \A m \in Namespaces : live'[m] # Absent => Kept(m) \/ (m = n0 /\ New(m))
    /\ \A m \in Namespaces :
          live'[m] # Absent /\ live'[m].processed => Kept(m) /\ First(m, live[m].uid)

(* Reconcile keeps the identity of its working copy or takes that of an    *)
(* object in the cache.                                                    *)
WorkStep ==
    pc' # "idle" =>
        /\ \/ pc # "idle" /\ cur' = cur /\ w'.uid = w.uid /\ w'.created = w.created
           \/ /\ log' = log /\ cur' \in Namespaces /\ cache[cur'] # Absent
              /\ w'.uid = cache[cur'].uid /\ w'.created = cache[cur'].created
        /\ w'.processed \/ pc' \in {"install", "annotate"}
              => Gone(cur', w'.uid) \/ First(cur', w'.uid)

(* The types of what the invariants talk about.                            *)
LEMMA InvTypes ==
    ASSUME TypeOK
    PROVE  /\ Len(log) \in Nat /\ 1 \in 1..Len(log) /\ Len(log) \in 1..Len(log)
           /\ created \in Nat /\ clock \in Nat
           /\ \A i \in 1..Len(log), n \in Namespaces : log[i][n] # Absent =>
                 /\ log[i][n] \in Instances
                 /\ log[i][n].uid \in Uids /\ log[i][n].created \in Times
           /\ \A n \in Namespaces : live[n] # Absent =>
                 /\ live[n] \in Instances
                 /\ live[n].uid \in Uids /\ live[n].created \in Times
           /\ pc # "idle" => /\ cur \in Namespaces /\ w \in Instances
                             /\ w.uid \in Uids /\ w.created \in Times
           /\ Uids \subseteq Nat /\ Times \subseteq Nat
<1>1. Len(log) \in Nat \ {0} /\ created \in Nat /\ clock \in Nat
  BY StoresType, InstancesAssumption DEF TypeOK
<1>2. \A o \in Instances : o.uid \in Uids /\ o.created \in Times
  BY DEF Instances, Uids, Times
<1>3. \A i \in 1..Len(log), n \in Namespaces : log[i][n] # Absent => log[i][n] \in Instances
  BY StoresType DEF Stores
<1>4. \A n \in Namespaces : live[n] # Absent => live[n] \in Instances
  BY StoresType DEF Stores
<1>5. pc # "idle" => cur \in Namespaces /\ w \in Instances
  BY DEF TypeOK
<1>6. Uids \subseteq Nat /\ Times \subseteq Nat
  BY InstancesAssumption DEF Uids, Times
<1> QED
  BY <1>1, <1>2, <1>3, <1>4, <1>5, <1>6

(* What is in the log or in work has been seen.                            *)
LEMMA SeenFacts ==
    ASSUME TypeOK
    PROVE  /\ \A i \in 1..Len(log), n \in Namespaces : log[i][n] # Absent =>
                 Seen(n, log[i][n].uid, log[i][n].created)
           /\ \A n \in Namespaces : live[n] # Absent =>
                 Seen(n, live[n].uid, live[n].created)
           /\ pc # "idle" => Seen(cur, w.uid, w.created)
<1>1. \A i \in 1..Len(log), n \in Namespaces : log[i][n] # Absent =>
                 Seen(n, log[i][n].uid, log[i][n].created)
  BY DEF Seen, Logged
<1>2. pc # "idle" => Seen(cur, w.uid, w.created)
  BY DEF Seen, InWork
<1> QED
  BY <1>1, <1>2, InvTypes DEF live

(* A step shows nothing that has not been seen, but for a new object.      *)
LEMMA SeenStep ==
    ASSUME TypeOK, TypeOK', NEW n0, StoreStep(n0), WorkStep,
           NEW n \in Namespaces, NEW u \in Uids, NEW t \in Times, Seen(n, u, t)'
    PROVE  \/ Seen(n, u, t)
           \/ n = n0 /\ created' = created + 1 /\ u = created + 1 /\ t = clock'
<1>1. CASE Logged(n, u, t)'
  <2>1. PICK i \in 1..Len(log') :
             log'[i][n] # Absent /\ log'[i][n].uid = u /\ log'[i][n].created = t
    BY <1>1 DEF Logged
  <2>2. CASE i = Len(log')
    <3>1. live'[n] # Absent /\ live'[n].uid = u /\ live'[n].created = t
      BY <2>1, <2>2 DEF live
    <3>2. Kept(n) \/ (n = n0 /\ New(n))
      BY <3>1 DEF StoreStep
    <3> QED
      BY <3>1, <3>2, SeenFacts DEF Kept, New
  <2>3. CASE i # Len(log')
    <3>1. Len(log') \in Nat
      BY DEF TypeOK
    <3>2. PICK d \in Nat : i + d \in 1..Len(log) /\ log'[i] = log[i + d]
      BY <2>3, <3>1 DEF StoreStep, Shifted
    <3> QED
      BY <2>1, <3>2, SeenFacts
  <2> QED
    BY <2>2, <2>3
<1>2. CASE InWork(n, u, t)'
  <2>1. pc' # "idle" /\ cur' = n /\ w'.uid = u /\ w'.created = t
    BY <1>2 DEF InWork
  <2>2. CASE pc # "idle" /\ cur' = cur /\ w'.uid = w.uid /\ w'.created = w.created
    BY <2>1, <2>2, SeenFacts
  <2>3. CASE /\ log' = log /\ cur' \in Namespaces /\ cache[cur'] # Absent
             /\ w'.uid = cache[cur'].uid /\ w'.created = cache[cur'].created
    BY <2>1, <2>3, SeenFacts, InvTypes DEF cache
  <2> QED
    BY <2>1, <2>2, <2>3 DEF WorkStep
<1> QED
  BY <1>1, <1>2 DEF Seen

(* uids stay bounded, unique and ordered like the timestamps.              *)
LEMMA IdStep ==
    ASSUME Inv, TypeOK', NEW n0, StoreStep(n0), WorkStep
    PROVE  BoundInv' /\ IdInv'
<1>1. /\ TypeOK /\ BoundInv /\ IdInv
      /\ created \in Nat /\ clock \in Nat /\ created' \in Nat /\ clock' \in Nat
      /\ created <= created' /\ clock <= clock'
      /\ Uids \subseteq Nat /\ Times \subseteq Nat
  BY InvTypes DEF Inv, StoreStep, TypeOK
<1>2. ASSUME NEW n \in Namespaces, NEW u \in Uids, NEW t \in Times, Seen(n, u, t)'
      PROVE  u <= created' /\ t <= clock'
  <2>1. CASE Seen(n, u, t)
    BY <1>1, <2>1 DEF BoundInv
  <2>2. CASE n = n0 /\ created' = created + 1 /\ u = created + 1 /\ t = clock'
    BY <1>1, <2>2
  <2> QED
    BY <1>1, <1>2, <2>1, <2>2, SeenStep
<1>3. ASSUME NEW m \in Namespaces, NEW n \in Namespaces, NEW u \in Uids,
             NEW v \in Uids, NEW t \in Times, NEW s \in Times,
             Seen(m, u, t)', Seen(n, v, s)'
      PROVE  (u = v => m = n) /\ (u <= v => t <= s)
  <2> DEFINE Fresh0(k, x, y) == /\ k = n0 /\ created' = created + 1
                                /\ x = created + 1 /\ y = clock'
  <2>1. /\ Seen(m, u, t) \/ Fresh0(m, u, t)
        /\ Seen(n, v, s) \/ Fresh0(n, v, s)
    BY <1>1, <1>3, SeenStep
  <2>2. CASE Seen(m, u, t) /\ Seen(n, v, s)
    BY <1>1, <2>2 DEF IdInv
  <2>3. CASE Seen(m, u, t) /\ Fresh0(n, v, s)
    <3>1. u <= created /\ t <= clock
      BY <1>1, <2>3 DEF BoundInv
    <3> QED
      BY <1>1, <2>3, <3>1
  <2>4. CASE Fresh0(m, u, t) /\ Seen(n, v, s)
    <3>1. v <= created /\ s <= clock
      BY <1>1, <2>4 DEF BoundInv
    <3> QED
      BY <1>1, <2>4, <3>1
  <2>5. CASE Fresh0(m, u, t) /\ Fresh0(n, v, s)
    BY <1>1, <2>5
  <2> QED
    BY <2>1, <2>2, <2>3, <2>4, <2>5
<1> QED
  BY <1>2, <1>3 DEF BoundInv, IdInv, Uids, Times

(* Who is the first among the objects seen so far remains it.              *)
LEMMA YoungerStep ==
    ASSUME Inv, TypeOK', NEW n0, StoreStep(n0),
           NEW n \in Namespaces, NEW u \in Uids, u <= created, First(n, u)
    PROVE  \A m \in Namespaces \ {n} : live'[m] # Absent => u < live'[m].uid
<1> SUFFICES ASSUME NEW m \in Namespaces \ {n}, live'[m] # Absent
             PROVE  u < live'[m].uid
  OBVIOUS
<1>1. u \in Nat /\ created \in Nat
  BY InvTypes DEF Inv
<1>2. Kept(m) \/ New(m)
  BY DEF StoreStep
<1> QED
  BY <1>1, <1>2 DEF Kept, New, First

(* The bounds on what is in the log and in work.                           *)
LEMMA BoundFacts ==
    ASSUME Inv
    PROVE  /\ \A i \in 1..Len(log), n \in Namespaces : log[i][n] # Absent =>
                 log[i][n].uid \in Uids \cap Nat /\ log[i][n].uid <= created
           /\ \A n \in Namespaces : live[n] # Absent =>
                 live[n].uid \in Uids \cap Nat /\ live[n].uid <= created
           /\ pc # "idle" => w.uid \in Uids \cap Nat /\ w.uid <= created
BY InvTypes, SeenFacts DEF Inv, BoundInv

(* An old live object is in the log all along.                             *)
LEMMA OrderStep ==
    ASSUME Inv, TypeOK', NEW n0, StoreStep(n0)
    PROVE  OrderInv'
<1> SUFFICES ASSUME NEW i \in 1..Len(log'), NEW m \in Namespaces, NEW n \in Namespaces,
                    live'[m] # Absent, log'[i][n] # Absent,
                    live'[m].uid <= log'[i][n].uid,
                    NEW j \in i..Len(log')
             PROVE  log'[j][m] # Absent /\ log'[j][m].uid = live'[m].uid
  BY DEF OrderInv, Persists
<1>1. Len(log) \in Nat /\ Len(log') \in Nat /\ created \in Nat /\ Uids \subseteq Nat
  BY InvTypes DEF Inv, TypeOK
<1>2. CASE j = Len(log')
  BY <1>2 DEF live
<1>3. CASE j # Len(log')
  <2>1. i \in 1..(Len(log') - 1) /\ j \in 1..(Len(log') - 1) /\ i <= j
    BY <1>1, <1>3
  <2>2. PICK d \in Nat : \A k \in 1..(Len(log') - 1) :
                              k + d \in 1..Len(log) /\ log'[k] = log[k + d]
    BY DEF StoreStep, Shifted
  <2>3. /\ i + d \in 1..Len(log) /\ log'[i] = log[i + d]
        /\ j + d \in (i + d)..Len(log) /\ log'[j] = log[j + d]
    BY <1>1, <2>1, <2>2
  <2>4. log[i + d][n].uid \in Nat /\ log[i + d][n].uid <= created
    BY <2>3, BoundFacts
  <2>5. Kept(m)
    <3>1. ~New(m)
      BY <1>1, <2>3, <2>4 DEF New
    <3> QED
      BY <3>1 DEF StoreStep
  <2>6. Persists(m, i + d)
    BY <2>3, <2>5 DEF Inv, OrderInv, Kept
  <2> QED
    BY <2>3, <2>5, <2>6 DEF Persists, Kept
<1> QED
  BY <1>2, <1>3

(* The same for the working copy.                                          *)
LEMMA WorkInvStep ==
    ASSUME Inv, TypeOK', NEW n0, StoreStep(n0), WorkStep
    PROVE  WorkInv'
<1> SUFFICES ASSUME NEW m \in Namespaces, pc' # "idle", live'[m] # Absent,
                    live'[m].uid <= w'.uid, NEW j \in 1..Len(log')
             PROVE  log'[j][m] # Absent /\ log'[j][m].uid = live'[m].uid
  BY DEF WorkInv, Persists
<1>1. Len(log) \in Nat /\ Len(log') \in Nat /\ created \in Nat /\ Uids \subseteq Nat
      /\ 1 \in 1..Len(log)
  BY InvTypes DEF Inv, TypeOK
<1>2. CASE j = Len(log')
  BY <1>2 DEF live
<1>3. CASE j # Len(log') /\ pc # "idle" /\ w'.uid = w.uid
  <2>1. w.uid \in Nat /\ w.uid <= created
    BY <1>3, BoundFacts
  <2>2. Kept(m)
    <3>1. ~New(m)
      BY <1>1, <1>3, <2>1 DEF New
    <3> QED
      BY <3>1 DEF StoreStep
  <2>3. Persists(m, 1)
    BY <1>3, <2>2 DEF Inv, WorkInv, Kept
  <2>4. PICK d \in Nat : j + d \in 1..Len(log) /\ log'[j] = log[j + d]
    BY <1>1, <1>3 DEF StoreStep, Shifted
  <2> QED
    BY <2>2, <2>3, <2>4 DEF Persists, Kept
<1>4. CASE /\ log' = log /\ cur' \in Namespaces /\ cache[cur'] # Absent
           /\ w'.uid = cache[cur'].uid
  <2>1. live' = live
    BY <1>4 DEF live
  <2>2. Persists(m, 1)
    BY <1>1, <1>4, <2>1 DEF Inv, OrderInv, cache
  <2> QED
    BY <1>4, <2>1, <2>2 DEF Persists
<1> QED
  BY <1>2, <1>3, <1>4 DEF WorkStep

(* The operand stays with the first.                                       *)
LEMMA ProcStep ==
    ASSUME Inv, TypeOK', NEW n0, StoreStep(n0), WorkStep
    PROVE  ProcInv' /\ InstInv'
<1>1. Len(log') \in Nat
  BY DEF TypeOK
<1>2. ASSUME NEW i \in 1..Len(log'), NEW n \in Namespaces,
             log'[i][n] # Absent, log'[i][n].processed
      PROVE  \A m \in Namespaces \ {n} : live'[m] # Absent => log'[i][n].uid < live'[m].uid
  <2>1. CASE i = Len(log')
    <3>1. log'[i] = live'
      BY <2>1 DEF live
    <3>2. Kept(n) /\ First(n, live[n].uid)
      BY <1>2, <3>1 DEF StoreStep
    <3> DEFINE u == live[n].uid
    <3>3. First(n, u) /\ u \in Uids /\ u <= created /\ log'[i][n].uid = u
      BY <3>1, <3>2, BoundFacts DEF Kept
    <3> HIDE DEF u
    <3>4. \A m \in Namespaces \ {n} : live'[m] # Absent => u < live'[m].uid
      BY <3>3, YoungerStep
    <3> QED
      BY <3>3, <3>4
  <2>2. CASE i # Len(log')
    <3>1. PICK d \in Nat : i + d \in 1..Len(log) /\ log'[i] = log[i + d]
      BY <1>1, <2>2 DEF StoreStep, Shifted
    <3> DEFINE u == log[i + d][n].uid
    <3>2. First(n, u) /\ u \in Uids /\ u <= created /\ log'[i][n].uid = u
      BY <1>2, <3>1, BoundFacts DEF Inv, ProcInv
    <3> HIDE DEF u
    <3>3. \A m \in Namespaces \ {n} : live'[m] # Absent => u < live'[m].uid
      BY <3>2, YoungerStep
    <3> QED
      BY <3>2, <3>3
  <2> QED
    BY <2>1, <2>2
<1>3. ASSUME pc' # "idle", w'.processed \/ pc' \in {"install", "annotate"}
      PROVE  \/ live'[cur'] = Absent \/ live'[cur'].uid # w'.uid
             \/ \A m \in Namespaces \ {cur'} : live'[m] # Absent => w'.uid < live'[m].uid
  <2> DEFINE n == cur'
             u == w'.uid
  <2>1. Gone(n, u) \/ First(n, u)
    BY <1>3 DEF WorkStep
  <2>2. n \in Namespaces /\ u \in Uids /\ u <= created
    <3>1. 1 \in 1..Len(log)
      BY InvTypes DEF Inv
    <3> QED
      BY <1>3, <3>1, BoundFacts, InvTypes DEF WorkStep, Inv, cache
  <2> HIDE DEF n, u
  <2>3. CASE First(n, u)
    <3>1. \A m \in Namespaces \ {n} : live'[m] # Absent => u < live'[m].uid
      BY <2>2, <2>3, YoungerStep
    <3> QED
      BY <3>1 DEF n, u
  <2>4. CASE Gone(n, u)
    <3>1. live'[n] = Absent \/ live'[n].uid # u
      <4>1. SUFFICES ASSUME live'[n] # Absent PROVE live'[n].uid # u
        OBVIOUS
      <4>2. Kept(n) \/ New(n)
        BY <2>2, <4>1 DEF StoreStep
      <4>3. u \in Nat /\ created \in Nat
        BY <2>2, InvTypes DEF Inv
      <4> QED
        BY <2>2, <2>4, <4>2, <4>3 DEF Kept, New, Gone
    <3> QED
      BY <3>1 DEF n, u
  <2> QED
    BY <2>1, <2>3, <2>4
<1> QED
  BY <1>2, <1>3 DEF ProcInv, InstInv, First, Gone

(* Any step of this form preserves the invariant.                          *)
LEMMA InvStep ==
    ASSUME Inv, TypeOK', NEW n0, StoreStep(n0), WorkStep
    PROVE  Inv'
BY IdStep, OrderStep, WorkInvStep, ProcStep DEF Inv

(* The live state is the last of the log.                                  *)
LEMMA LiveProcessed ==
    ASSUME Inv, NEW n \in Namespaces, live[n] # Absent, live[n].processed
    PROVE  First(n, live[n].uid)
BY InvTypes DEF Inv, ProcInv, live

(* Steps that leave the store alone.                                       *)
LEMMA SameStore ==
    ASSUME Inv, UNCHANGED <<log, created, clock>>
    PROVE  StoreStep(Absent)
<1>1. live' = live
  BY DEF live
<1>2. Shifted
  <2>1. Len(log) \in Nat
    BY InvTypes DEF Inv
  <2>2. \A i \in 1..(Len(log') - 1) : i + 0 \in 1..Len(log) /\ log'[i] = log[i + 0]
    BY <2>1
  <2> QED
    BY <2>2 DEF Shifted
<1>3. clock \in Nat
  BY InvTypes DEF Inv
<1> QED
  BY <1>1, <1>2, <1>3, LiveProcessed DEF StoreStep, Kept

(* Steps that write to an existing object, or remove it.                   *)
LEMMA WriteStore ==
    ASSUME Inv, NEW n \in Namespaces, NEW new \in Instances \cup {Absent},
           Write(n, new), UNCHANGED <<created, clock>>,
           new # Absent => /\ live[n] # Absent
                           /\ new.uid = live[n].uid /\ new.created = live[n].created
                           /\ new.processed => First(n, live[n].uid)
    PROVE  StoreStep(n)
<1>1. /\ live' = [live EXCEPT ![n] = new]
      /\ \A i \in 1..(Len(log') - 1) : i \in 1..Len(log) /\ log'[i] = log[i]
  BY WriteLog DEF Inv
<1>2. Shifted
  <2>1. Len(log) \in Nat
    BY InvTypes DEF Inv
  <2>2. \A i \in 1..(Len(log') - 1) : i + 0 \in 1..Len(log) /\ log'[i] = log[i + 0]
    BY <1>1, <2>1
  <2> QED
    BY <2>2 DEF Shifted
<1>3. clock \in Nat /\ live \in Stores
  BY InvTypes, StoresType DEF Inv
<1>4. live'[n] = new /\ \A m \in Namespaces \ {n} : live'[m] = live[m]
  BY <1>1, <1>3 DEF Stores
<1>5. \A m \in Namespaces : live'[m] # Absent => Kept(m)
  BY <1>4 DEF Kept
<1>6. \A m \in Namespaces : live'[m] # Absent /\ live'[m].processed => First(m, live[m].uid)
  BY <1>4, LiveProcessed
<1> QED
  BY <1>2, <1>3, <1>5, <1>6 DEF StoreStep

(* updateStatus is such a write.                                           *)
LEMMA PublishStore ==
    ASSUME Inv, pc # "idle", StatusWritable, PublishStatus, UNCHANGED <<created, clock>>
    PROVE  \E n0 : StoreStep(n0)
<1> DEFINE new == [live[cur] EXCEPT !.ready = w.ready, !.degraded = w.degraded]
<1>1. cur \in Namespaces /\ w \in Instances /\ live[cur] # Absent /\ live[cur] \in Instances
  BY InvTypes DEF Inv, StatusWritable
<1>2. /\ new \in Instances /\ new.uid = live[cur].uid /\ new.created = live[cur].created
      /\ new.processed = live[cur].processed
  BY <1>1 DEF Instances
<1>3. Write(cur, new)
  BY DEF PublishStatus
<1>4. new.processed => First(cur, live[cur].uid)
  BY <1>1, <1>2, LiveProcessed
<1> HIDE DEF new
<1>5. StoreStep(cur)
  BY <1>1, <1>2, <1>3, <1>4, WriteStore
<1> QED
  BY <1>5

(* UpdateWithRetry too: the working copy is processed only if it is the    *)
(* first, and the uid is checked.                                          *)
LEMMA UpdateStore ==
    ASSUME Inv, pc # "idle", Updatable, UpdateInstance, UNCHANGED <<created, clock>>
    PROVE  \E n0 : StoreStep(n0)
<1> DEFINE new == [live[cur] EXCEPT !.rejected = w.rejected, !.processed = w.processed]
<1>1. /\ cur \in Namespaces /\ w \in Instances /\ live[cur] # Absent
      /\ live[cur] \in Instances /\ live[cur].uid = w.uid
  BY InvTypes DEF Inv, StatusWritable, Updatable
<1>2. /\ new \in Instances /\ new.uid = live[cur].uid /\ new.created = live[cur].created
      /\ new.processed = w.processed
  BY <1>1 DEF Instances
<1>3. Write(cur, new)
  BY DEF UpdateInstance
<1>4. new.processed => First(cur, live[cur].uid)
  BY <1>1, <1>2 DEF Inv, InstInv, Gone
<1> HIDE DEF new
<1>5. StoreStep(cur)
  BY <1>1, <1>2, <1>3, <1>4, WriteStore
<1> QED
  BY <1>5

(* What IdInv says of two objects.                                         *)
LEMMA Distinct ==
    ASSUME Inv, NEW m \in Namespaces, NEW n \in Namespaces, NEW u \in Uids,
           NEW v \in Uids, NEW t \in Times, NEW s \in Times,
           Seen(m, u, t), Seen(n, v, s)
    PROVE  (u = v => m = n) /\ (u <= v => t <= s)
BY DEF Inv, IdInv

(* A list of one shows nobody else as long as the object is there.         *)
LEMMA ShortList ==
    ASSUME Inv, pc = "list", Allowed, ~Gone(cur, w.uid)
    PROVE  OlderOrEqual = {}
<1>1. /\ cur \in Namespaces /\ w.uid \in Nat /\ 1 \in 1..Len(log) /\ Len(log) \in Nat
  BY InvTypes, BoundFacts DEF Inv
<1>2. Persists(cur, 1)
  BY <1>1 DEF Inv, WorkInv, Gone
<1>3. cache[cur] # Absent
  BY <1>1, <1>2 DEF Persists, cache
<1> QED
  BY <1>1, <1>3 DEF Allowed, ListsOne, OlderOrEqual

(* The decision is right: an older object would be on the list.            *)
LEMMA DecisionRight ==
    ASSUME Inv, pc = "list", OlderOrEqual = {}
    PROVE  First(cur, w.uid)
<1> SUFFICES ASSUME NEW m \in Namespaces \ {cur}, live[m] # Absent
             PROVE  w.uid < live[m].uid
  BY DEF First
<1>1. /\ cur \in Namespaces /\ w.uid \in Uids /\ w.created \in Times
      /\ live[m].uid \in Uids /\ live[m].created \in Times
      /\ Uids \subseteq Nat /\ Times \subseteq Nat /\ 1 \in 1..Len(log) /\ Len(log) \in Nat
  BY InvTypes DEF Inv
<1>2. Seen(cur, w.uid, w.created) /\ Seen(m, live[m].uid, live[m].created)
  BY SeenFacts DEF Inv
<1>a. w.uid \in Nat /\ live[m].uid \in Nat
  BY <1>1
<1> DEFINE u == live[m].uid
           t == live[m].created
           v == w.uid
           s == w.created
<1>b. /\ Seen(cur, v, s) /\ Seen(m, u, t)
      /\ cur \in Namespaces /\ u \in Uids /\ v \in Uids /\ t \in Times /\ s \in Times
  BY <1>1, <1>2
<1>3. live[m].uid # w.uid
  <2>1. u # v
    <3> HIDE DEF u, v, s, t
    <3> QED
      BY <1>b, Distinct
  <2> QED
    BY <2>1
<1>4. ASSUME live[m].uid < w.uid
      PROVE  FALSE
  <2>1. Persists(m, 1)
    BY <1>a, <1>4 DEF Inv, WorkInv
  <2>2. cache[m] # Absent /\ cache[m].uid = live[m].uid
    BY <1>1, <2>1 DEF Persists, cache
  <2>3. cache[m].created \in Times /\ Seen(m, cache[m].uid, cache[m].created)
    BY <1>1, <2>2, InvTypes, SeenFacts DEF Inv, cache
  <2> DEFINE c == cache[m].created
  <2>4. c \in Times /\ Seen(m, u, c) /\ u <= v
    BY <1>a, <1>4, <2>2, <2>3
  <2>5. c <= s
    <3> HIDE DEF u, v, s, t, c
    <3> QED
      BY <1>b, <2>4, Distinct
  <2> QED
    BY <2>2, <2>5 DEF OlderOrEqual
<1> QED
  BY <1>a, <1>3, <1>4

(* HandleReconcileResult keeps the identity of the working copy.           *)
LEMMA ResultWork ==
    ASSUME Inv, pc # "idle", NEW old, NEW wanted \in {"Failed", "Progressing", "Ready"},
           Result(old, wanted)
    PROVE  WorkStep
<1>1. /\ pc' \in {"idle", "publish"}
      /\ pc' = "publish" => /\ cur' = cur /\ w'.uid = w.uid /\ w'.created = w.created
                            /\ w'.processed = w.processed
  BY ResultType DEF Inv
<1>2. w.processed => Gone(cur, w.uid) \/ First(cur, w.uid)
  BY DEF Inv, InstInv
<1> QED
  BY <1>1, <1>2 DEF WorkStep

(* Updates of the working copy keep its identity.                          *)
LEMMA SameWork ==
    ASSUME Inv, pc # "idle", cur' = cur, w' \in Instances,
           w'.uid = w.uid /\ w'.created = w.created,
           w'.processed => w.processed \/ pc \in {"install", "annotate"},
           pc' \in {"install", "annotate"} => Gone(cur, w.uid) \/ First(cur, w.uid)
    PROVE  WorkStep
<1>1. w.processed \/ pc \in {"install", "annotate"} => Gone(cur, w.uid) \/ First(cur, w.uid)
  BY DEF Inv, InstInv
<1> QED
  BY <1>1 DEF WorkStep

(* The initial state satisfies the invariant.                              *)
LEMMA InvInit == Init => Inv
<1> SUFFICES ASSUME Init PROVE Inv
  OBVIOUS
<1>1. Len(log) = 1 /\ pc = "idle" /\ \A n \in Namespaces : log[1][n] = Absent
  BY DEF Init
<1>2. \A i \in 1..Len(log), n \in Namespaces : log[i][n] = Absent
  BY <1>1
<1>3. \A n \in Namespaces : \A u, t : ~Seen(n, u, t)
  BY <1>1, <1>2 DEF Seen, Logged, InWork
<1> QED
  BY <1>1, <1>2, <1>3, TypeInit
     DEF Inv, BoundInv, IdInv, OrderInv, WorkInv, ProcInv, InstInv

(* Every step preserves the invariant.                                     *)
LEMMA InvNext == Inv /\ [Next]_vars => Inv'
<1> SUFFICES ASSUME Inv, [Next]_vars
             PROVE  Inv'
  OBVIOUS
<1>a. TypeOK /\ TypeOK'
  BY TypeNext DEF Inv
<1>s. ASSUME \E n0 : StoreStep(n0), WorkStep
      PROVE  Inv'
  BY <1>a, <1>s, InvStep
<1>w. ASSUME UNCHANGED <<pc, cur, w>>
      PROVE  WorkStep
  BY <1>w DEF Inv, InstInv, WorkStep
<1>i. ASSUME pc' = "idle"
      PROVE  WorkStep
  BY <1>i DEF WorkStep
<1>t. pc # "idle" => w \in Instances
  BY <1>a DEF TypeOK
<1>1. CASE Deliver
  <2>1. /\ live' = live
        /\ \A i \in 1..Len(log') : i + 1 \in 1..Len(log) /\ log'[i] = log[i + 1]
    BY <1>1, <1>a, DeliverLog
  <2>2. Len(log') \in Nat /\ clock \in Nat
    BY <1>a, InvTypes DEF TypeOK
  <2>3. Shifted
    <3>1. \A i \in 1..(Len(log') - 1) : i + 1 \in 1..Len(log) /\ log'[i] = log[i + 1]
      BY <2>1, <2>2
    <3> QED
      BY <3>1 DEF Shifted
  <2>4. StoreStep(Absent)
    BY <1>1, <2>1, <2>2, <2>3, LiveProcessed DEF Deliver, StoreStep, Kept
  <2> QED
    BY <1>1, <1>s, <1>w, <2>4 DEF Deliver, recVars
<1>2. ASSUME NEW n \in Namespaces, Reconcile(n)
      PROVE  Inv'
  <2>1. StoreStep(Absent)
    BY <1>2, SameStore DEF Reconcile
  <2>2. CASE UNCHANGED recVars
    BY <1>s, <1>w, <2>1, <2>2 DEF recVars
  <2>3. CASE /\ cache[n] # Absent /\ cur' = n
             /\ w' \in {cache[n], [cache[n] EXCEPT !.ready = "Failed"]}
             /\ pc' \notin {"install", "annotate"}
    <3>1. cache[n] \in Instances
      BY <1>a, <2>3, StoresType DEF Stores
    <3>2. w'.uid = cache[n].uid /\ w'.created = cache[n].created
          /\ w'.processed = cache[n].processed
      BY <2>3, <3>1 DEF Instances
    <3>3. cache[n].processed => First(n, cache[n].uid)
      BY <1>a, <2>3, InvTypes DEF Inv, ProcInv, cache
    <3>4. WorkStep
      BY <1>2, <2>3, <3>2, <3>3 DEF WorkStep, Reconcile
    <3> QED
      BY <1>s, <2>1, <3>4
  <2> QED
    BY <1>2, <2>2, <2>3 DEF Reconcile
<1>3. CASE RemoveFinalizer
  <2>1. pc' = "idle" /\ pc # "idle" /\ UNCHANGED <<created, clock>>
    BY <1>3 DEF RemoveFinalizer, Return
  <2>2. CASE Write(cur, Absent)
    <3>1. cur \in Namespaces
      BY <1>a, <2>1 DEF TypeOK
    <3>2. StoreStep(cur)
      BY <2>1, <2>2, <3>1, WriteStore
    <3> QED
      BY <1>s, <1>i, <2>1, <3>2
  <2>3. CASE UNCHANGED log
    BY <1>s, <1>i, <2>1, <2>3, SameStore
  <2> QED
    BY <1>3, <2>2, <2>3 DEF RemoveFinalizer, CallFails
<1>4. CASE ReportRejected
  <2>1. pc' = "idle" /\ pc # "idle" /\ UNCHANGED <<created, clock>>
    BY <1>4 DEF ReportRejected, Return
  <2>2. \E n0 : StoreStep(n0)
    BY <1>4, <2>1, PublishStore, SameStore DEF ReportRejected, CallFails
  <2> QED
    BY <1>s, <1>i, <2>1, <2>2
<1>5. CASE DisallowMultipleInstances
  <2>1. StoreStep(Absent)
    BY <1>5, SameStore DEF DisallowMultipleInstances
  <2>2. w' \in Instances /\ w'.uid = w.uid /\ w'.created = w.created
        /\ w'.processed = w.processed
    BY <1>5, <1>t DEF DisallowMultipleInstances, Instances
  <2>3. pc' \in {"install", "annotate"} => Gone(cur, w.uid) \/ First(cur, w.uid)
    BY <1>5, ShortList, DecisionRight DEF DisallowMultipleInstances
  <2>4. WorkStep
    BY <1>5, <2>2, <2>3, SameWork DEF DisallowMultipleInstances
  <2> QED
    BY <1>s, <2>1, <2>4
<1>6. CASE RejectStatus
  <2>1. pc # "idle" /\ UNCHANGED <<created, clock>>
    BY <1>6 DEF RejectStatus
  <2>2. \E n0 : StoreStep(n0)
    BY <1>6, <2>1, PublishStore, SameStore DEF RejectStatus, CallFails
  <2>3. w' \in Instances /\ w'.uid = w.uid /\ w'.created = w.created
        /\ w'.processed = w.processed
    BY <1>6, <1>t DEF RejectStatus, Instances
  <2>4. WorkStep
    BY <1>6, <2>3, SameWork DEF RejectStatus
  <2> QED
    BY <1>s, <2>2, <2>4
<1>7. CASE RejectAnnotate
  <2>1. pc' = "idle" /\ pc # "idle" /\ UNCHANGED <<created, clock>>
    BY <1>7 DEF RejectAnnotate, Return
  <2>2. \E n0 : StoreStep(n0)
    BY <1>7, <2>1, UpdateStore, SameStore DEF RejectAnnotate, CallFails
  <2> QED
    BY <1>s, <1>i, <2>1, <2>2
<1>8. CASE Install
  <2>1. pc # "idle" /\ UNCHANGED <<created, clock>>
    BY <1>8 DEF Install
  <2>2. \E n0 : StoreStep(n0)
    BY <1>8, <2>1, PublishStore, SameStore DEF Install, InstallFails, CallFails
  <2>3. CASE /\ pc' = "annotate" /\ w' = [w EXCEPT !.processed = TRUE]
             /\ UNCHANGED <<cur, failed, delayed, faults>>
    <3>1. w' \in Instances /\ w'.uid = w.uid /\ w'.created = w.created
      BY <1>8, <1>t, <2>3 DEF Install, Instances
    <3>2. Gone(cur, w.uid) \/ First(cur, w.uid)
      BY <1>8 DEF Install, Inv, InstInv
    <3>3. WorkStep
      BY <1>8, <2>3, <3>1, <3>2, SameWork DEF Install
    <3> QED
      BY <1>s, <2>2, <3>3
  <2>4. CASE \E wanted \in {"Failed", "Progressing", "Ready"} : Result(w, wanted)
    BY <1>s, <2>1, <2>2, <2>4, ResultWork
  <2> QED
    BY <1>8, <2>3, <2>4 DEF Install, InstallFails
<1>9. CASE AnnotateProcessed
  <2>1. pc # "idle" /\ UNCHANGED <<created, clock>>
    BY <1>9 DEF AnnotateProcessed
  <2>2. \E n0 : StoreStep(n0)
    BY <1>9, <2>1, UpdateStore, SameStore DEF AnnotateProcessed, CallFails
  <2>3. WorkStep
    BY <1>9, <2>1, ResultWork DEF AnnotateProcessed
  <2> QED
    BY <1>s, <2>2, <2>3
<1>10. CASE UpdateCondition
  <2>1. pc' = "idle" /\ pc # "idle" /\ UNCHANGED <<created, clock>>
    BY <1>10 DEF UpdateCondition, Return
  <2>2. \E n0 : StoreStep(n0)
    BY <1>10, <2>1, PublishStore, SameStore DEF UpdateCondition, CallFails
  <2> QED
    BY <1>s, <1>i, <2>1, <2>2
<1>11. ASSUME NEW n \in Namespaces, Requeue(n) \/ ManagedEvent(n)
       PROVE  Inv'
  BY <1>11, <1>s, <1>w, SameStore DEF Requeue, ManagedEvent, recVars
<1>12. ASSUME NEW n \in Namespaces, UserCreates(n)
       PROVE  Inv'
  <2> DEFINE new == [uid |-> created + 1, created |-> clock', deleting |-> FALSE,
                     rejected |-> FALSE, processed |-> FALSE, ready |-> "unset",
                     degraded |-> FALSE]
  <2>1. /\ created + 1 \in 1..MaxCreates /\ clock' \in 0..MaxCreates
        /\ clock \in Nat /\ clock' >= clock /\ created' = created + 1
    BY <1>12, <1>a, InstancesAssumption DEF UserCreates, TypeOK
  <2>2. new \in Instances
    BY <2>1 DEF Instances
  <2>3. new.uid = created + 1 /\ new.created = clock' /\ new.processed = FALSE
    OBVIOUS
  <2>4. Write(n, new)
    BY <1>12 DEF UserCreates
  <2> HIDE DEF new
  <2>5. /\ live' = [live EXCEPT ![n] = new]
        /\ \A i \in 1..(Len(log') - 1) : i \in 1..Len(log) /\ log'[i] = log[i]
    BY <1>a, <2>2, <2>4, WriteLog
  <2>6. Shifted
    <3>1. \A i \in 1..(Len(log') - 1) : i + 0 \in 1..Len(log) /\ log'[i] = log[i + 0]
      BY <1>a, <2>5, InvTypes
    <3> QED
      BY <3>1 DEF Shifted
  <2>7. live'[n] = new /\ \A m \in Namespaces \ {n} : live'[m] = live[m]
    BY <1>a, <2>5, StoresType DEF Stores
  <2>8. StoreStep(n)
    BY <2>1, <2>3, <2>6, <2>7, LiveProcessed DEF StoreStep, Kept, New
  <2> QED
    BY <1>12, <1>s, <1>w, <2>8 DEF UserCreates, recVars
<1>13. ASSUME NEW n \in Namespaces, UserDeletes(n)
       PROVE  Inv'
  <2> DEFINE new == [live[n] EXCEPT !.deleting = TRUE]
  <2>1. live[n] # Absent /\ live[n] \in Instances
    BY <1>13, <1>a, InvTypes DEF UserDeletes
  <2>2. /\ new \in Instances /\ new.uid = live[n].uid /\ new.created = live[n].created
        /\ new.processed = live[n].processed
    BY <2>1 DEF Instances
  <2>3. Write(n, new) /\ UNCHANGED <<created, clock>>
    BY <1>13 DEF UserDeletes
  <2> HIDE DEF new
  <2>4. StoreStep(n)
    BY <2>1, <2>2, <2>3, LiveProcessed, WriteStore
  <2> QED
    BY <1>13, <1>s, <1>w, <2>4 DEF UserDeletes, recVars
<1>14. CASE Restart
  <2>1. log' = <<live>> /\ pc' = "idle" /\ UNCHANGED <<created, clock>> /\ clock \in Nat
    BY <1>14, <1>a, InvTypes DEF Restart
  <2>2. Len(log') = 1 /\ live' = live
    BY <2>1 DEF live
  <2>3. Shifted
    BY <2>2 DEF Shifted
  <2>4. StoreStep(Absent)
    BY <2>1, <2>2, <2>3, LiveProcessed DEF StoreStep, Kept
  <2> QED
    BY <1>s, <1>i, <2>1, <2>4
<1>15. CASE UNCHANGED vars
  BY <1>15, <1>s, <1>w, SameStore DEF vars, recVars
<1> QED
  BY <1>1, <1>2, <1>3, <1>4, <1>5, <1>6, <1>7, <1>8, <1>9, <1>10, <1>11,
     <1>12, <1>13, <1>14, <1>15 DEF Next, ReconcileStep

(* The invariant holds in every reachable state.                           *)
LEMMA Invariance == Spec => []Inv
BY InvInit, InvNext, PTL DEF Spec

(* No two live objects have ever both got the operand, however many        *)
(* namespaces there are and however late the cache is: two processed       *)
(* objects would each be younger than the other.                           *)
THEOREM Uniqueness == Spec => []AtMostOneProcessed
<1>1. Inv => AtMostOneProcessed
  <2> SUFFICES ASSUME Inv, NEW m \in Namespaces, NEW n \in Namespaces,
                      live[m] # Absent, live[m].processed,
                      live[n] # Absent, live[n].processed, m # n
               PROVE  FALSE
    BY DEF AtMostOneProcessed
  <2>1. First(m, live[m].uid) /\ First(n, live[n].uid)
    BY LiveProcessed
  <2>2. live[m].uid < live[n].uid /\ live[n].uid < live[m].uid
    BY <2>1 DEF First
  <2>3. live[m].uid \in Nat /\ live[n].uid \in Nat
    BY BoundFacts
  <2> QED
    BY <2>2, <2>3
<1> QED
  BY <1>1, Invariance, PTL

(* While the operand is being installed for an object that still exists,   *)
(* no live object is older, although the list the decision was taken on    *)
(* may be long out of date.                                                *)
THEOREM OldestInstalls == Spec => []OnlyOldestInstalls
<1>1. Inv => OnlyOldestInstalls
  <2> SUFFICES ASSUME Inv, NEW m \in Namespaces, pc \in {"install", "annotate"},
                      live[cur] # Absent, live[cur].uid = w.uid, live[m] # Absent
               PROVE  live[m].created >= w.created
    BY DEF OnlyOldestInstalls
  <2> DEFINE u == live[m].uid
             t == live[m].created
             v == w.uid
             s == w.created
  <2>1. /\ cur \in Namespaces /\ u \in Uids /\ v \in Uids /\ t \in Times /\ s \in Times
        /\ Uids \subseteq Nat /\ Times \subseteq Nat
    BY InvTypes DEF Inv
  <2>2. Seen(m, u, t) /\ Seen(cur, v, s)
    BY SeenFacts DEF Inv
  <2>3. First(cur, v)
    BY DEF Inv, InstInv, Gone
  <2>4. v <= u
    <3>1. u \in Nat /\ v \in Nat
      BY <2>1
    <3>2. m # cur => v < u
      BY <2>3 DEF First
    <3> QED
      BY <3>1, <3>2
  <2>5. s <= t
    <3> HIDE DEF u, v, s, t
    <3> QED
      BY <2>1, <2>2, <2>4, Distinct
  <2>6. s \in Nat /\ t \in Nat
    BY <2>1
  <2> QED
    BY <2>5, <2>6
<1> QED
  BY <1>1, Invariance, PTL

=============================================================================
