-------------------------- MODULE IstioCSRCA_proofs --------------------------
(***************************************************************************)
(* Proofs about the CA certificate of istio-csr, for every set of          *)
(* certificates, requests, issuer types and outages, and for any number of *)
(* changes by others, retries and restarts.                                *)
(***************************************************************************)
EXTENDS IstioCSRCA, TLAPS

-----------------------------------------------------------------------------
(***************************************************************************)
(* Type correctness.                                                       *)
(***************************************************************************)

(* Every client error becomes an error of the reconciler.                  *)
LEMMA FromClientErrorType ==
    ASSUME NEW e
    PROVE  FromClientError(e) \in {"Irrecoverable", "RetryRequired"}
BY DEF FromClientError

(* The sources are maps over all sources; the IstioCSR object is always    *)
(* there and watched.                                                      *)
SourcesInv ==
    /\ DOMAIN src = Sources /\ src = [s \in Sources |-> src[s]]
    /\ DOMAIN srcCache = Sources /\ srcCache = [s \in Sources |-> srcCache[s]]
    /\ src["cr"] \in Objects("cr") /\ srcCache["cr"] \in Objects("cr")
    /\ src["cr"].watched

(* What the pass has in hand at each of its points: before the copy is     *)
(* written it is, from a ConfigMap, a certificate that passed the          *)
(* validation, from a secret anything but nothing; and it comes from the   *)
(* source that the spec the pass works on names.                           *)
HandInv ==
    /\ pc = "label" => w.source \in Sources \ {"cr"}
    /\ pc \in {"copy", "writeCopy"} =>
           \/ w.source = "configmap" /\ w.data \in Certificates
           \/ w.source \in Secrets /\ w.data \in SecretContents \ {"empty"}
    /\ pc \in {"label", "copy", "writeCopy"} /\ w.source = "configmap" => request.ca = "user"
    /\ pc \in {"label", "copy", "writeCopy"} /\ w.source \in Secrets => request.ca # "user"
    /\ pc = "configmap" => request.ca = "user"
    /\ pc \in {"readIssuer", "secret"} => request.ca # "user"
    /\ pc = "secret" => w.source = "issuer"

(* The controller only writes managed copies.                              *)
CopyInv ==
    /\ copy # Absent => copy \in Copies /\ copy.managed
    /\ copyLag # "quiet"
    /\ copyLag = "none" => copyCache = copy

TypeInv == TypeOK /\ SourcesInv /\ HandInv /\ CopyInv

(* A write of a source touches that source alone.                          *)
LEMMA WriteSourceFacts ==
    ASSUME TypeInv, NEW s \in Sources, NEW new \in Objects(s) \cup {Absent},
           WriteSource(s, new)
    PROVE  /\ DOMAIN src' = Sources /\ src' = [t \in Sources |-> src'[t]]
           /\ src'[s] = new
           /\ \A t \in Sources : t # s => src'[t] = src[t] /\ srcLag'[t] = srcLag[t]
           /\ srcLag' \in [Sources -> Lags] /\ note' \subseteq Secrets
           /\ note \subseteq note' /\ note' \subseteq note \cup {s}
           /\ srcCache' = srcCache
           /\ new = src[s] => srcLag' = srcLag /\ note' = note
           /\ new # src[s] => srcLag'[s] # "none"
           /\ new # src[s] /\ s \notin Secrets /\ Noticed(src[s], new) => srcLag'[s] = "event"
           /\ new # src[s] /\ s \in Secrets /\ Noticed(src[s], new) => s \in note'
           /\ srcLag[s] = "event" /\ s \notin Secrets => srcLag'[s] = "event"
BY DEF TypeInv, TypeOK, SourcesInv, WriteSource, Behind, Lags, Secrets

(* Every change of the copy makes an event.                                *)
LEMMA WriteCopyFacts ==
    ASSUME TypeInv, NEW new \in Copies \cup {Absent}, WriteCopy(new),
           new # Absent => new.managed
    PROVE  /\ copy' = new /\ copyCache' = copyCache
           /\ copyLag' \in Lags
           /\ copyLag' = IF new = copy THEN copyLag ELSE "event"
           /\ CopyInv'
<1>1. new # copy => copyLag' = "event"
  BY DEF TypeInv, CopyInv, WriteCopy, Behind
<1>2. copy' = new /\ copyCache' = copyCache /\ (new = copy => copyLag' = copyLag)
  BY DEF WriteCopy
<1> QED
  BY <1>1, <1>2 DEF TypeInv, TypeOK, CopyInv, Lags, Copies

(* A write of a source keeps the types when the rest stays as it is.       *)
LEMMA WriteSourceType ==
    ASSUME TypeInv, NEW s \in Sources, NEW new \in Objects(s) \cup {Absent},
           s = "cr" => new \in Objects("cr") /\ new.watched,
           WriteSource(s, new)
    PROVE  /\ \A t \in Sources : /\ src'[t] \in Objects(t) \cup {Absent}
                                 /\ srcCache'[t] \in Objects(t) \cup {Absent}
           /\ srcLag' \in [Sources -> Lags] /\ note' \subseteq Secrets
           /\ SourcesInv'
<1>1. "cr" \in Sources
  BY DEF Sources
<1>2. \A t \in Sources : src'[t] \in Objects(t) \cup {Absent}
  BY WriteSourceFacts DEF TypeInv, TypeOK
<1>3. src'["cr"] \in Objects("cr") /\ src'["cr"].watched
  <2>1. CASE s = "cr"
    BY <2>1, WriteSourceFacts
  <2>2. CASE s # "cr"
    BY <1>1, <2>2, WriteSourceFacts DEF TypeInv, SourcesInv
  <2> QED
    BY <2>1, <2>2
<1> QED
  BY <1>1, <1>2, <1>3, WriteSourceFacts DEF TypeInv, TypeOK, SourcesInv

(* The end of a pass.                                                      *)
LEMMA ReturnFacts ==
    ASSUME TypeInv, NEW e \in ReconcileErrors, Return(e)
    PROVE  /\ pc' = "idle" /\ w' = NoObject
           /\ attempt' \in 1..RetrySteps
           /\ reported' \in {"Progressing", "Ready", "Failed"}
           /\ delayed' \in BOOLEAN
           /\ e = "Irrecoverable" => reported' = "Failed"
           /\ e = "RetryRequired" => delayed' = TRUE
           /\ e = "nil" => reported' = "Ready"
<1>1. pc' = "idle" /\ w' = NoObject /\ attempt' \in 1..RetrySteps
  BY BoundsAssumption DEF Return
<1>2. /\ reported' \in {"Progressing", "Ready", "Failed"}
      /\ e = "Irrecoverable" => reported' = "Failed"
      /\ e = "nil" => reported' = "Ready"
  BY DEF Return, ConditionsFor, IsIrrecoverableError, ReconcileErrors
<1>3. delayed' = (delayed \/ e = "RetryRequired")
  BY DEF Return, Requeues
<1> QED
  BY <1>1, <1>2, <1>3, Zenon

(* A step to the next point of the pass.                                   *)
LEMMA GotoFacts ==
    ASSUME TypeInv, NEW p \in Points, NEW o, Goto(p, o)
    PROVE  /\ pc' = p /\ w' = o
           /\ attempt' \in 1..RetrySteps
           /\ reported' = reported /\ delayed' = delayed
           /\ reported' \in {"Progressing", "Ready", "Failed"} /\ delayed' \in BOOLEAN
BY BoundsAssumption DEF TypeInv, TypeOK, Goto

(* What the pass takes from a cache.                                       *)
LEMMA InHandFacts ==
    ASSUME TypeInv, NEW s \in Sources, srcCache[s] # Absent
    PROVE  InHand(s).source = s /\ InHand(s).data = srcCache[s].data
           /\ InHand(s).data \in Contents[s]
BY DEF TypeInv, TypeOK, InHand, Objects

(* The watch label is written to an object that is there and that the      *)
(* cache has in its current version.                                       *)
LEMMA LabelFacts ==
    ASSUME TypeInv, pc = "label", LabelError = "none"
    PROVE  /\ w.source \in Sources \ {"cr"}
           /\ w.data \in Contents[w.source]
           /\ src[w.source] # Absent /\ srcLag[w.source] = "none"
           /\ Labelled \in Objects(w.source)
           /\ Labelled.data = w.data /\ Labelled.watched
<1>1. w.source \in Sources \ {"cr"} /\ w.data \in Contents[w.source]
  BY DEF TypeInv, TypeOK, HandInv, NoObject, Sources, Secrets
<1>2. api # "none"
  BY BoundsAssumption DEF TypeInv, TypeOK, ClientErrors
<1>3. src[w.source] # Absent /\ srcLag[w.source] = "none"
  BY <1>1, <1>2 DEF LabelError
<1>4. src[w.source].replaced \in BOOLEAN
  BY <1>1, <1>3 DEF TypeInv, TypeOK, Objects
<1> QED
  BY <1>1, <1>3, <1>4 DEF Labelled, Objects

(* Nothing but the caches, the queue, the timer and the API server.        *)
LEMMA EmptyHandType ==
    ASSUME TypeInv, pc' = "idle", w' = NoObject
    PROVE  HandInv' /\ (w = NoObject \/ (w.source \in Sources /\ w.data \in Contents[w.source]))'
BY DEF HandInv

(* The point after the label.                                              *)
LEMMA AfterLabelType ==
    ASSUME TypeInv, pc = "label", LabelError = "none", AfterLabel, request' = request
    PROVE  /\ pc' \in Points /\ HandInv'
           /\ w' = NoObject \/ (w' = w /\ w.source \in Sources /\ w.data \in Contents[w.source])
           /\ attempt' \in 1..RetrySteps
           /\ reported' \in {"Progressing", "Ready", "Failed"} /\ delayed' \in BOOLEAN
<1>0. w.source \in Sources \ {"cr"} /\ w.data \in Contents[w.source]
  BY LabelFacts
<1>1. CASE w.source = "issuer"
  <2> DEFINE p == IF request.ca = "user" THEN "configmap" ELSE "readIssuer"
  <2>1. p \in Points /\ Goto(p, NoObject)
    BY <1>1 DEF AfterLabel, Points, Secrets
  <2>2. pc' = p /\ w' = NoObject
    BY <2>1, GotoFacts
  <2>3. HandInv'
    <3>1. CASE request.ca = "user"
      BY <2>2, <3>1 DEF HandInv
    <3>2. CASE request.ca # "user"
      BY <2>2, <3>2 DEF HandInv
    <3> QED
      BY <3>1, <3>2
  <2> QED
    BY <2>1, <2>2, <2>3, GotoFacts
<1>2. CASE w.source = "configmap"
  <2>1. CASE w.data = "noKey" \/ ~ValidatePEMData(w.data)
    <3>1. Return("Irrecoverable")
      BY <1>2, <2>1 DEF AfterLabel, Secrets
    <3> QED
      BY <3>1, ReturnFacts, EmptyHandType DEF ReconcileErrors, Points
  <2>2. CASE ~(w.data = "noKey" \/ ~ValidatePEMData(w.data))
    <3>1. Goto("copy", w) /\ "copy" \in Points
      BY <1>2, <2>2 DEF AfterLabel, Secrets, Points
    <3>2. pc' = "copy" /\ w' = w
      BY <3>1, GotoFacts
    <3>3. w.data \in Certificates
      BY <2>2 DEF ValidatePEMData
    <3>4. HandInv'
      BY <1>2, <3>2, <3>3 DEF HandInv, TypeInv, Secrets
    <3> QED
      BY <1>0, <3>1, <3>2, <3>4, GotoFacts
  <2> QED
    BY <2>1, <2>2
<1>3. CASE w.source \in Secrets
  <2>1. CASE w.data = "empty"
    <3>1. Return("RetryRequired")
      BY <1>3, <2>1 DEF AfterLabel, Secrets
    <3> QED
      BY <3>1, ReturnFacts, EmptyHandType DEF ReconcileErrors, Points
  <2>2. CASE w.data # "empty"
    <3>1. Goto("copy", w) /\ "copy" \in Points
      BY <1>3, <2>2 DEF AfterLabel, Secrets, Points
    <3>2. pc' = "copy" /\ w' = w
      BY <3>1, GotoFacts
    <3>3. w.data \in SecretContents \ {"empty"}
      BY <1>0, <1>3, <2>2 DEF Contents, Secrets
    <3>4. HandInv'
      BY <1>3, <3>2, <3>3 DEF HandInv, TypeInv, Secrets
    <3> QED
      BY <1>0, <3>1, <3>2, <3>4, GotoFacts
  <2> QED
    BY <2>1, <2>2
<1> QED
  BY <1>0, <1>1, <1>2, <1>3 DEF Sources

(* The types of the initial state.                                         *)
LEMMA TypeInit == Init => TypeInv
<1> SUFFICES ASSUME Init PROVE TypeInv
  OBVIOUS
<1>1. PICK r \in Requests, i \in IssuerTypes,
           d \in Contents["configmap"], c \in Contents["caSecret"] :
          src = [cr |-> [Fresh(r) EXCEPT !.watched = TRUE],
                 issuer |-> Fresh(i), configmap |-> Fresh(d),
                 caSecret |-> Fresh(c), istiodSecret |-> Fresh(c)]
  BY DEF Init
<1>2. \A s \in Sources : src[s] \in Objects(s)
  <2>1. \A s, v : v \in Contents[s] => Fresh(v) \in Objects(s)
    BY DEF Fresh, Objects
  <2>2. /\ Contents["cr"] = Requests /\ Contents["issuer"] = IssuerTypes
        /\ Contents["istiodSecret"] = Contents["caSecret"]
    BY DEF Contents
  <2>3. [Fresh(r) EXCEPT !.watched = TRUE] \in Objects("cr")
    BY <2>2 DEF Fresh, Objects
  <2>4. src["cr"] \in Objects("cr") /\ src["issuer"] \in Objects("issuer")
    BY <1>1, <2>1, <2>2, <2>3
  <2>5. /\ src["configmap"] \in Objects("configmap")
        /\ src["caSecret"] \in Objects("caSecret")
        /\ src["istiodSecret"] \in Objects("istiodSecret")
    BY <1>1, <2>1, <2>2
  <2> QED
    BY <2>4, <2>5 DEF Sources, Secrets
<1>3. src["cr"].data = r /\ src["cr"].watched
  BY <1>1 DEF Fresh
<1>4. DOMAIN src = Sources /\ src = [s \in Sources |-> src[s]]
  BY <1>1 DEF Sources, Secrets
<1>5. SourcesInv
  BY <1>2, <1>3, <1>4 DEF Init, SourcesInv, Sources
<1>6. TypeOK
  <2>1. srcLag \in [Sources -> Lags] /\ note \subseteq Secrets /\ copyLag \in Lags
    BY DEF Init, Lags
  <2>2. request \in Requests /\ attempt \in 1..RetrySteps /\ faults \in 0..MaxFaults
    BY <1>3, BoundsAssumption DEF Init
  <2> QED
    BY <1>2, <2>1, <2>2 DEF Init, TypeOK, Points
<1>7. HandInv /\ CopyInv
  BY DEF Init, HandInv, CopyInv
<1> QED
  BY <1>5, <1>6, <1>7 DEF TypeInv

(* A step that leaves the sources and the copy to themselves.              *)
LEMMA PassType ==
    ASSUME TypeInv, UNCHANGED <<srcVars, copyVars, api, faults>>,
           pc' \in Points, HandInv',
           w' = NoObject \/ (w'.source \in Sources /\ w'.data \in Contents[w'.source]),
           request' \in Requests,
           attempt' \in 1..RetrySteps,
           reported' \in {"Progressing", "Ready", "Failed"},
           queue' \in BOOLEAN, delayed' \in BOOLEAN
    PROVE  TypeInv'
BY DEF TypeInv, TypeOK, SourcesInv, CopyInv, srcVars, copyVars

(* A pass that ends.                                                       *)
LEMMA ReturnType ==
    ASSUME TypeInv, UNCHANGED <<srcVars, copyVars, api, faults>>,
           NEW e \in ReconcileErrors, Return(e),
           request' \in Requests, queue' \in BOOLEAN
    PROVE  TypeInv'
BY ReturnFacts, EmptyHandType, PassType DEF Points

(* A pass that goes to the label of a source.                              *)
LEMMA GotoLabelType ==
    ASSUME TypeInv, UNCHANGED <<srcVars, copyVars, api, faults>>,
           NEW s \in Sources \ {"cr"}, srcCache[s] # Absent, Goto("label", InHand(s)),
           request' \in Requests, queue' \in BOOLEAN,
           s = "configmap" => request'.ca = "user",
           s \in Secrets => request'.ca # "user"
    PROVE  TypeInv'
<1>1. pc' = "label" /\ w' = InHand(s) /\ w'.source = s /\ w'.data \in Contents[s]
  BY GotoFacts, InHandFacts DEF Points
<1>2. HandInv'
  BY <1>1 DEF HandInv
<1> QED
  BY <1>1, <1>2, GotoFacts, PassType DEF Points

(* The steps of the pass keep the types.                                   *)
LEMMA PassStepType ==
    ASSUME TypeInv, PassStep
    PROVE  TypeInv'
<1>0. request \in Requests /\ queue \in BOOLEAN /\ "issuer" \in Sources \ {"cr"}
      /\ "configmap" \in Sources \ {"cr"}
  BY DEF TypeInv, TypeOK, Sources
<1>1. CASE AssertIssuerRefExists
  <2>0. UNCHANGED <<srcVars, copyVars, api, faults>> /\ queue' \in BOOLEAN
    BY <1>1 DEF AssertIssuerRefExists
  <2>1. request' \in Requests
    BY <1>1 DEF AssertIssuerRefExists, TypeInv, SourcesInv, Objects, Contents
  <2>2. CASE \E e \in ReconcileErrors : Return(e)
    BY <2>0, <2>1, <2>2, ReturnType
  <2>3. CASE srcCache["issuer"] # Absent /\ Goto("label", InHand("issuer"))
    BY <1>0, <2>0, <2>1, <2>3, GotoLabelType DEF Secrets
  <2> QED
    BY <1>1, <2>2, <2>3, FromClientErrorType
    DEF AssertIssuerRefExists, GetIssuer, ReconcileErrors
<1>2. CASE UpdateWatchLabel
  <2>0. /\ pc = "label" /\ LabelError = "none" /\ WriteSource(w.source, Labelled) /\ AfterLabel
        /\ UNCHANGED <<copyVars, request, api, queue, faults>>
    BY <1>2 DEF UpdateWatchLabel
  <2>1. w.source \in Sources \ {"cr"} /\ Labelled \in Objects(w.source)
    BY <2>0, LabelFacts
  <2>2. /\ \A t \in Sources : /\ src'[t] \in Objects(t) \cup {Absent}
                              /\ srcCache'[t] \in Objects(t) \cup {Absent}
        /\ srcLag' \in [Sources -> Lags] /\ note' \subseteq Secrets
        /\ SourcesInv'
    BY <2>0, <2>1, WriteSourceType
  <2>3. /\ pc' \in Points /\ HandInv'
        /\ w' = NoObject \/ (w'.source \in Sources /\ w'.data \in Contents[w'.source])
        /\ attempt' \in 1..RetrySteps
        /\ reported' \in {"Progressing", "Ready", "Failed"} /\ delayed' \in BOOLEAN
    BY <2>0, AfterLabelType
  <2>4. CopyInv'
    BY <2>0 DEF TypeInv, CopyInv, copyVars
  <2> QED
    BY <2>0, <2>2, <2>3, <2>4 DEF TypeInv, TypeOK, copyVars
<1>3. CASE WatchLabelFails
  BY <1>0, <1>3, ReturnType, FromClientErrorType DEF WatchLabelFails, ReconcileErrors
<1>4. CASE HandleUserProvidedCA
  <2>0. UNCHANGED <<srcVars, copyVars, request, api, queue, faults>> /\ request.ca = "user"
    BY <1>4 DEF HandleUserProvidedCA, TypeInv, HandInv
  <2>1. CASE Return("Irrecoverable")
    BY <1>0, <2>0, <2>1, ReturnType DEF ReconcileErrors
  <2>2. CASE srcCache["configmap"] # Absent /\ Goto("label", InHand("configmap"))
    BY <1>0, <2>0, <2>2, GotoLabelType DEF Secrets
  <2> QED
    BY <1>4, <2>1, <2>2 DEF HandleUserProvidedCA
<1>5. CASE HandleIssuerBasedCA
  <2>0. UNCHANGED <<srcVars, copyVars, request, api, queue, faults>> /\ request.ca # "user"
    BY <1>5 DEF HandleIssuerBasedCA, TypeInv, HandInv
  <2>1. CASE \E e \in ReconcileErrors : Return(e)
    BY <1>0, <2>0, <2>1, ReturnType
  <2>2. CASE /\ srcCache["issuer"] # Absent
             /\ Goto("secret", [source |-> "issuer", data |-> srcCache["issuer"].data])
    <3>1. srcCache["issuer"].data \in Contents["issuer"]
      BY <1>0, <2>2 DEF TypeInv, TypeOK, Objects
    <3>2. /\ pc' = "secret" /\ w'.source = "issuer" /\ w'.data = srcCache["issuer"].data
      BY <2>2, GotoFacts DEF Points
    <3>3. HandInv'
      BY <2>0, <3>2 DEF HandInv
    <3> QED
      BY <1>0, <2>0, <2>2, <3>1, <3>2, <3>3, GotoFacts, PassType DEF Points
  <2> QED
    BY <1>5, <2>1, <2>2, FromClientErrorType
    DEF HandleIssuerBasedCA, GetIssuer, ReconcileErrors
<1>6. CASE CreateCAConfigMapFromSecret
  <2>0. UNCHANGED <<srcVars, copyVars, request, api, queue, faults>> /\ request.ca # "user"
    BY <1>6 DEF CreateCAConfigMapFromSecret, TypeInv, HandInv
  <2>1. CASE \E e \in ReconcileErrors : Return(e)
    BY <1>0, <2>0, <2>1, ReturnType
  <2>2. CASE \E s \in Secrets : srcCache[s] # Absent /\ Goto("label", InHand(s))
    BY <1>0, <2>0, <2>2, GotoLabelType DEF Secrets, Sources
  <2>3. SecretOf(w.data) \in Secrets
    BY DEF SecretOf, Secrets
  <2> QED
    BY <1>6, <2>1, <2>2, <2>3, FromClientErrorType
    DEF CreateCAConfigMapFromSecret, ReconcileErrors
<1>7. CASE CreateOrUpdateCAConfigMap
  <2>0. UNCHANGED <<srcVars, copyVars, request, api, queue, faults>> /\ pc = "copy"
    BY <1>7 DEF CreateOrUpdateCAConfigMap
  <2>1. CASE Return("nil")
    BY <1>0, <2>0, <2>1, ReturnType DEF ReconcileErrors
  <2>2. CASE Goto("writeCopy", w)
    <3>1. pc' = "writeCopy" /\ w' = w
      BY <2>2, GotoFacts DEF Points
    <3>2. HandInv'
      BY <2>0, <3>1 DEF TypeInv, HandInv
    <3>3. w = NoObject \/ (w.source \in Sources /\ w.data \in Contents[w.source])
      BY DEF TypeInv, TypeOK
    <3> QED
      BY <1>0, <2>0, <2>2, <3>1, <3>2, <3>3, GotoFacts, PassType DEF Points
  <2> QED
    BY <1>7, <2>1, <2>2 DEF CreateOrUpdateCAConfigMap
<1>8. CASE CopyWritten
  <2>0. /\ pc = "writeCopy" /\ WriteCopy(DesiredCopy) /\ Return("nil")
        /\ UNCHANGED <<srcVars, request, api, queue, faults>>
    BY <1>8 DEF CopyWritten
  <2>1. DesiredCopy \in Copies /\ DesiredCopy.managed
    BY <2>0 DEF TypeInv, HandInv, DesiredCopy, Copies
  <2>2. CopyInv' /\ copyLag' \in Lags /\ copy' = DesiredCopy /\ copyCache' = copyCache
    BY <2>0, <2>1, WriteCopyFacts
  <2>3. /\ pc' = "idle" /\ w' = NoObject /\ attempt' \in 1..RetrySteps
        /\ reported' \in {"Progressing", "Ready", "Failed"} /\ delayed' \in BOOLEAN
    BY <2>0, ReturnFacts DEF ReconcileErrors
  <2> QED
    BY <2>0, <2>1, <2>2, <2>3, EmptyHandType DEF TypeInv, TypeOK, SourcesInv, srcVars, Points
<1>9. CASE CopyFails
  BY <1>0, <1>9, ReturnType, FromClientErrorType DEF CopyFails, ReconcileErrors
<1>10. CASE RetryOnConflict
  <2>1. attempt' \in 1..RetrySteps
    BY <1>10, BoundsAssumption DEF RetryOnConflict, TypeInv, TypeOK
  <2> QED
    BY <1>10, <2>1 DEF RetryOnConflict, TypeInv, TypeOK, SourcesInv, HandInv, CopyInv,
                       srcVars, copyVars
<1> QED
  BY <1>1, <1>2, <1>3, <1>4, <1>5, <1>6, <1>7, <1>8, <1>9, <1>10 DEF PassStep

(* Watches, timers and others keep the types.                              *)
LEMMA SourceWriteType ==
    ASSUME TypeInv, NEW s \in Sources, NEW new \in Objects(s) \cup {Absent},
           s = "cr" => new \in Objects("cr") /\ new.watched,
           WriteSource(s, new), Disturb, Others, UNCHANGED <<copyVars, api>>
    PROVE  TypeInv'
<1>1. faults' \in 0..MaxFaults
  BY BoundsAssumption DEF TypeInv, TypeOK, Disturb
<1>2. HandInv' /\ CopyInv'
  BY DEF TypeInv, HandInv, CopyInv, Others, passVars, copyVars
<1> QED
  BY <1>1, <1>2, WriteSourceType DEF TypeInv, TypeOK, Others, passVars, copyVars

LEMMA NextType ==
    ASSUME TypeInv, [Next]_vars
    PROVE  TypeInv'
<1>0. Disturb => faults' \in 0..MaxFaults
  BY BoundsAssumption DEF TypeInv, TypeOK, Disturb
<1>1. CASE PassStep
  BY <1>1, PassStepType
<1>2. ASSUME NEW s \in Sources, DeliverSource(s)
      PROVE  TypeInv'
  <2>1. /\ srcCache' = [srcCache EXCEPT ![s] = src[s]] /\ src' = src
        /\ srcLag' = [srcLag EXCEPT ![s] = "none"]
        /\ UNCHANGED <<note, copyVars, passVars, api, delayed, faults>>
        /\ queue' \in BOOLEAN
    BY <1>2 DEF DeliverSource
  <2>2. SourcesInv'
    BY <2>1 DEF TypeInv, SourcesInv, Sources
  <2>3. /\ \A t \in Sources : srcCache'[t] \in Objects(t) \cup {Absent}
        /\ srcLag' \in [Sources -> Lags]
    BY <2>1 DEF TypeInv, TypeOK, SourcesInv, Lags
  <2>4. HandInv' /\ CopyInv'
    BY <2>1 DEF TypeInv, HandInv, CopyInv, passVars, copyVars
  <2> QED
    BY <2>1, <2>2, <2>3, <2>4 DEF TypeInv, TypeOK, passVars, copyVars
<1>3. ASSUME NEW s \in Secrets, NotifySecret(s)
      PROVE  TypeInv'
  BY <1>3 DEF NotifySecret, TypeInv, TypeOK, SourcesInv, HandInv, CopyInv, passVars, copyVars
<1>4. CASE DeliverCopy
  <2>1. queue' \in BOOLEAN
    BY <1>4 DEF DeliverCopy
  <2>2. SourcesInv' /\ HandInv' /\ CopyInv'
    BY <1>4 DEF DeliverCopy, TypeInv, SourcesInv, HandInv, CopyInv, srcVars, passVars
  <2> QED
    BY <1>4, <2>1, <2>2 DEF DeliverCopy, TypeInv, TypeOK, Lags, srcVars, passVars
<1>5. CASE Requeue
  <2>1. SourcesInv' /\ HandInv' /\ CopyInv'
    BY <1>5 DEF Requeue, TypeInv, SourcesInv, HandInv, CopyInv, srcVars, copyVars, passVars
  <2> QED
    BY <1>5, <2>1 DEF Requeue, TypeInv, TypeOK, srcVars, copyVars, passVars
<1>6. ASSUME NEW s \in Sources, NEW d \in Contents[s], SourceEdited(s, d)
      PROVE  TypeInv'
  <2> DEFINE new == [src[s] EXCEPT !.data = d]
  <2>1. src[s] \in Objects(s)
    BY <1>6 DEF SourceEdited, TypeInv, TypeOK
  <2>2. new \in Objects(s) /\ new.watched = src[s].watched
    BY <2>1 DEF Objects
  <2>3. s = "cr" => new.watched
    BY <2>2 DEF TypeInv, SourcesInv
  <2> HIDE DEF new
  <2>4. WriteSource(s, new) /\ Disturb /\ Others /\ UNCHANGED <<copyVars, api>>
    BY <1>6 DEF SourceEdited, new
  <2> QED
    BY <2>2, <2>3, <2>4, SourceWriteType
<1>7. ASSUME NEW s \in Sources, NEW d \in Contents[s], SourceReplaced(s, d)
      PROVE  TypeInv'
  <2> DEFINE new == [Fresh(d) EXCEPT !.replaced = TRUE]
  <2>1. new \in Objects(s)
    BY DEF Fresh, Objects
  <2> HIDE DEF new
  <2>2. s # "cr" /\ WriteSource(s, new) /\ Disturb /\ Others /\ UNCHANGED <<copyVars, api>>
    BY <1>7 DEF SourceReplaced, new
  <2> QED
    BY <2>1, <2>2, SourceWriteType
<1>8. ASSUME NEW s \in Sources, SourceDeleted(s)
      PROVE  TypeInv'
  BY <1>8, SourceWriteType DEF SourceDeleted
<1>9. CASE CopyDrifts
  <2>1. PICK new \in Copies \cup {Absent} :
            /\ WriteCopy(new)
            /\ new # Absent => new.managed
    <3>1. copy \in Copies /\ copy.managed
      BY <1>9 DEF CopyDrifts, TypeInv, CopyInv
    <3>2. /\ [copy EXCEPT !.data = "theirs"] \in Copies
          /\ [copy EXCEPT !.data = "theirs"].managed
          /\ [copy EXCEPT !.data = "theirs"].data = "theirs"
      BY <3>1 DEF Copies
    <3> QED
      BY <1>9, <3>2 DEF CopyDrifts
  <2>2. CopyInv' /\ copyLag' \in Lags /\ copy' = new /\ copyCache' = copyCache
    BY <2>1, WriteCopyFacts
  <2>3. SourcesInv' /\ HandInv'
    BY <1>9 DEF CopyDrifts, TypeInv, SourcesInv, HandInv, Others, passVars, srcVars
  <2> QED
    BY <1>0, <1>9, <2>2, <2>3 DEF CopyDrifts, TypeInv, TypeOK, Others, passVars, srcVars
<1>10. ASSUME NEW e \in Outages, APIFails(e)
       PROVE  TypeInv'
  BY <1>0, <1>10 DEF APIFails, TypeInv, TypeOK, SourcesInv, HandInv, CopyInv, Others,
                     srcVars, copyVars, passVars
<1>11. CASE APIRecovers
  BY <1>11 DEF APIRecovers, TypeInv, TypeOK, SourcesInv, HandInv, CopyInv, Others,
               srcVars, copyVars, passVars
<1>12. CASE Restart
  <2>1. SourcesInv' /\ HandInv' /\ CopyInv'
    BY <1>12 DEF Restart, TypeInv, SourcesInv, HandInv, CopyInv
  <2>2. srcLag' \in [Sources -> Lags] /\ attempt' \in 1..RetrySteps
    BY <1>12, BoundsAssumption DEF Restart, Lags
  <2> QED
    BY <1>0, <1>12, <2>1, <2>2 DEF Restart, TypeInv, TypeOK, Points, Lags
<1>13. CASE UNCHANGED vars
  BY <1>13 DEF vars, TypeInv, TypeOK, SourcesInv, HandInv, CopyInv, srcVars, copyVars, passVars
<1> QED
  BY <1>1, <1>2, <1>3, <1>4, <1>5, <1>6, <1>7, <1>8, <1>9, <1>10, <1>11, <1>12, <1>13
  DEF Next, System, Environment

LEMMA AlwaysTypeInv == Spec => []TypeInv
<1>1. Init => TypeInv
  BY TypeInit
<1>2. TypeInv /\ [Next]_vars => TypeInv'
  BY NextType
<1> QED
  BY <1>1, <1>2, PTL DEF Spec

(* The variables keep their types, for every instance.                     *)
THEOREM TypeCorrect == Spec => []TypeOK
<1>1. TypeInv => TypeOK
  BY DEF TypeInv
<1> QED
  BY <1>1, AlwaysTypeInv, PTL

(* A pass copies only validated certificates of a ConfigMap, and nothing   *)
(* of a ConfigMap into the copy of an issuer's secret, however edits,      *)
(* outages and restarts fall between the read of the source, its           *)
(* validation and the write.  (What a secret holds is not validated.)      *)
THEOREM NothingUnvalidated == Spec => OnlyValidated
<1> DEFINE Step == (copy' # copy /\ copy' # Absent /\ copy'.data # "theirs") =>
                      copy'.data \in IF request.ca = "user" THEN Certificates
                                     ELSE SecretContents \ {"empty"}
<1>1. TypeInv /\ [Next]_vars => [Step]_vars
  <2> SUFFICES ASSUME TypeInv, Next, copy' # copy
               PROVE  Step
    BY DEF vars, copyVars
  <2>1. CASE CopyWritten
    <3>1. pc = "writeCopy" /\ copy'.data = w.data
      BY <2>1 DEF CopyWritten, WriteCopy, DesiredCopy
    <3> QED
      BY <3>1 DEF TypeInv, HandInv
  <2>2. CASE CopyDrifts
    <3>1. copy \in Copies
      BY <2>2 DEF CopyDrifts, TypeInv, CopyInv
    <3>2. [copy EXCEPT !.data = "theirs"].data = "theirs"
      BY <3>1 DEF Copies
    <3> QED
      BY <2>2, <3>2 DEF CopyDrifts, WriteCopy
  <2>3. CASE ~CopyWritten /\ ~CopyDrifts
    BY <2>3 DEF Next, System, Environment, PassStep, AssertIssuerRefExists, UpdateWatchLabel,
       WatchLabelFails, HandleUserProvidedCA, HandleIssuerBasedCA,
       CreateCAConfigMapFromSecret, CreateOrUpdateCAConfigMap, CopyFails, RetryOnConflict,
       DeliverSource, NotifySecret, DeliverCopy, Requeue, SourceEdited, SourceReplaced,
       SourceDeleted, APIFails, APIRecovers, Restart, Others, copyVars
  <2> QED
    BY <2>1, <2>2, <2>3
<1> QED
  BY <1>1, AlwaysTypeInv, PTL DEF Spec, OnlyValidated

-----------------------------------------------------------------------------
(***************************************************************************)
(* The copy follows its source.  The pass reads the spec, the issuer and   *)
(* the source of the certificate from caches at different times.  What     *)
(* makes up for it: whatever is out of date by the time it is used has     *)
(* left a trace - an event that is under way, or a request in the queue -  *)
(* and the write of the watch label fails on a stale read.                 *)
(***************************************************************************)

(* A watched source that the cache lags behind has an event under way.     *)
LagInv ==
    \A s \in Sources :
        /\ srcLag[s] = "none" => srcCache[s] = src[s]
        /\ s \notin Secrets /\ src[s] # Absent /\ src[s].watched /\ srcLag[s] # "none"
           => srcLag[s] = "event"

Watched(s) == src[s] # Absent /\ src[s].watched

(* The spec the pass works on is the live one, or a trace tells.           *)
RequestFresh ==
    pc # "idle" /\ ~queue /\ srcLag["cr"] # "event" => request = src["cr"].data

(* So is the issuer the pass has read, and the secret it has chosen.       *)
IssuerFresh ==
    ~queue /\ srcLag["issuer"] # "event" /\ Watched("issuer") =>
        /\ pc = "secret" => w.data = src["issuer"].data
        /\ pc \in {"label", "copy", "writeCopy"} /\ w.source \in Secrets
           => w.source = SecretOf(src["issuer"].data)

(* So is the certificate the pass is about to copy.                        *)
HandFresh ==
    /\ pc \in {"copy", "writeCopy"} /\ ~queue
    /\ w.source = "configmap" => srcLag["configmap"] # "event"
    /\ w.source \notin note /\ Watched(w.source)
    => src[w.source].data = w.data

(* No pass is under way, none is due because of the spec or the copy.      *)
Settled ==
    pc = "idle" /\ ~queue /\ ~delayed /\ srcLag["cr"] # "event" /\ copyLag = "none"

RestConfigMap ==
    Settled /\ srcLag["configmap"] # "event" /\ UserCA /\ Watched("configmap") =>
        \/ reported = "Failed"
        \/ reported = "Ready" /\ copy = [data |-> src["configmap"].data, managed |-> TRUE]

RestSecret ==
    /\ Settled /\ reported = "Ready" /\ src["cr"].data.ca = "issuer"
    /\ srcLag["issuer"] # "event" /\ Watched("issuer") /\ src["issuer"].data # "caUnnamed"
    => LET s == SecretOf(src["issuer"].data)
       IN  Watched(s) /\ s \notin note => copy = [data |-> src[s].data, managed |-> TRUE]

FollowInv ==
    LagInv /\ RequestFresh /\ IssuerFresh /\ HandFresh /\ RestConfigMap /\ RestSecret

LEMMA FollowInit == ASSUME Init, TypeInv PROVE FollowInv
<1>1. srcCache = src /\ \A s \in Sources : srcLag[s] = "none"
  BY DEF Init
<1>2. queue /\ pc = "idle"
  BY DEF Init
<1>3. LagInv
  BY <1>1 DEF LagInv
<1> QED
  BY <1>2, <1>3
  DEF FollowInv, RequestFresh, IssuerFresh, HandFresh, RestConfigMap, RestSecret, Settled

(* The caches know the spec and a watched issuer, unless an event comes.   *)
LEMMA CachedFacts ==
    ASSUME TypeInv, FollowInv
    PROVE  /\ srcLag["cr"] # "event" => srcCache["cr"] = src["cr"]
           /\ srcLag["issuer"] # "event" /\ Watched("issuer")
              => srcCache["issuer"] = src["issuer"]
<1>1. "cr" \in Sources \ Secrets /\ "issuer" \in Sources \ Secrets
  BY DEF Sources, Secrets
<1>2. src["cr"] # Absent /\ src["cr"].watched
  BY <1>1, AbsentAssumption DEF TypeInv, SourcesInv
<1>3. srcLag["cr"] # "event" => srcLag["cr"] = "none"
  BY <1>1, <1>2 DEF FollowInv, LagInv
<1> QED
  BY <1>1, <1>3 DEF FollowInv, LagInv, Watched

(* A write of a source by others.  It keeps the label, or there is none.   *)
LEMMA SourceWriteFollow ==
    ASSUME TypeInv, FollowInv, NEW s \in Sources, NEW new \in Objects(s) \cup {Absent},
           s = "cr" => new \in Objects("cr") /\ new.watched,
           WriteSource(s, new), Others, UNCHANGED copyVars
    PROVE  FollowInv'
<1>0. /\ "cr" \in Sources \ Secrets /\ "issuer" \in Sources \ Secrets
      /\ "configmap" \in Sources \ Secrets /\ Secrets \subseteq Sources
  BY DEF Sources, Secrets
<1>1. /\ src'[s] = new /\ srcCache' = srcCache
      /\ \A t \in Sources : t # s => src'[t] = src[t] /\ srcLag'[t] = srcLag[t]
      /\ note \subseteq note'
      /\ new = src[s] => srcLag' = srcLag /\ note' = note
      /\ new # src[s] => srcLag'[s] # "none"
      /\ new # src[s] /\ s \notin Secrets /\ Noticed(src[s], new) => srcLag'[s] = "event"
      /\ new # src[s] /\ s \in Secrets /\ Noticed(src[s], new) => s \in note'
      /\ srcLag[s] = "event" /\ s \notin Secrets => srcLag'[s] = "event"
  BY WriteSourceFacts
<1>2. UNCHANGED <<pc, w, request, reported, queue, delayed, copy, copyLag>>
  BY DEF Others, passVars, copyVars
<1>3. \A t \in Sources : Watched(t)' /\ (t \in Secrets => t \notin note')
                         /\ (t \notin Secrets => srcLag'[t] # "event")
          => src'[t] = src[t] /\ Watched(t) /\ (t \in Secrets => t \notin note)
             /\ (t \notin Secrets => srcLag[t] # "event")
  BY <1>1 DEF Watched, Noticed, ControllerWatchResources
<1>4. srcLag'["cr"] # "event" => src'["cr"] = src["cr"] /\ srcLag["cr"] # "event"
  <2>1. Watched("cr")'
    <3>1. src'["cr"] # Absent /\ src'["cr"].watched
      BY <1>0, <1>1, AbsentAssumption DEF TypeInv, SourcesInv
    <3> QED
      BY <3>1 DEF Watched
  <2> QED
    BY <1>0, <1>3, <2>1
<1>5. LagInv'
  BY <1>1, AbsentAssumption DEF FollowInv, LagInv, Noticed, ControllerWatchResources
<1>6. RequestFresh'
  BY <1>2, <1>4 DEF FollowInv, RequestFresh
<1>7. IssuerFresh'
  BY <1>0, <1>2, <1>3 DEF FollowInv, IssuerFresh
<1>8. HandFresh'
  <2>1. pc \in {"copy", "writeCopy"} => w.source \in {"configmap"} \cup Secrets
    BY DEF TypeInv, HandInv
  <2> QED
    BY <1>0, <1>1, <1>2, <1>3, <2>1 DEF FollowInv, HandFresh
<1>9. RestConfigMap'
  BY <1>0, <1>2, <1>3, <1>4 DEF FollowInv, RestConfigMap, Settled, UserCA
<1>10. RestSecret'
  <2>1. \A d : SecretOf(d) \in Secrets
    BY DEF SecretOf, Secrets
  <2> QED
    BY <1>0, <1>2, <1>3, <1>4, <2>1 DEF FollowInv, RestSecret, Settled
<1> QED
  BY <1>5, <1>6, <1>7, <1>8, <1>9, <1>10 DEF FollowInv

(* The pass ends without having written anything.                          *)
LEMMA ReturnFollow ==
    ASSUME TypeInv, FollowInv, UNCHANGED <<srcVars, copyVars>>,
           NEW e \in {"Irrecoverable", "RetryRequired"}, Return(e)
    PROVE  FollowInv'
<1>1. e \in ReconcileErrors
  BY DEF ReconcileErrors
<1>2. /\ pc' = "idle"
      /\ e = "Irrecoverable" => reported' = "Failed"
      /\ e = "RetryRequired" => delayed' = TRUE
  BY <1>1, ReturnFacts
<1>3. LagInv'
  BY DEF FollowInv, LagInv, srcVars
<1>4. RequestFresh' /\ IssuerFresh' /\ HandFresh'
  BY <1>2 DEF RequestFresh, IssuerFresh, HandFresh
<1>5. RestConfigMap' /\ RestSecret'
  BY <1>2 DEF RestConfigMap, RestSecret, Settled
<1> QED
  BY <1>3, <1>4, <1>5 DEF FollowInv

(* The pass goes on without having written anything; it keeps the spec it  *)
(* works on.  What has to be shown is that what it takes in hand is fresh. *)
LEMMA GotoFollow ==
    ASSUME TypeInv, FollowInv, UNCHANGED <<srcVars, copyVars, request, queue>>,
           pc # "idle", NEW p \in Points \ {"idle"}, NEW o, Goto(p, o),
           IssuerFresh', HandFresh'
    PROVE  FollowInv'
<1>1. pc' = p /\ p # "idle"
  BY GotoFacts
<1>2. LagInv'
  BY DEF FollowInv, LagInv, srcVars
<1>3. RequestFresh'
  BY <1>1 DEF FollowInv, RequestFresh, srcVars
<1>4. RestConfigMap' /\ RestSecret'
  BY <1>1 DEF RestConfigMap, RestSecret, Settled
<1> QED
  BY <1>2, <1>3, <1>4 DEF FollowInv

(* A label that is written brings the source to what the pass has in hand. *)
LEMMA WatchLabelFollow ==
    ASSUME TypeInv, FollowInv, UpdateWatchLabel
    PROVE  FollowInv'
<1>0. /\ pc = "label" /\ LabelError = "none" /\ WriteSource(w.source, Labelled) /\ AfterLabel
      /\ UNCHANGED <<copyVars, request, api, queue, faults>>
  BY DEF UpdateWatchLabel
<1>1. /\ w.source \in Sources \ {"cr"} /\ srcLag[w.source] = "none"
      /\ Labelled \in Objects(w.source) /\ Labelled.data = w.data /\ Labelled.watched
  BY <1>0, LabelFacts
<1>2. /\ src'[w.source] = Labelled /\ srcCache' = srcCache
      /\ \A t \in Sources : t # w.source => src'[t] = src[t] /\ srcLag'[t] = srcLag[t]
      /\ Labelled = src[w.source] => srcLag' = srcLag /\ note' = note
      /\ Labelled # src[w.source] => srcLag'[w.source] # "none"
      /\ Labelled # src[w.source] /\ w.source \notin Secrets /\ Noticed(src[w.source], Labelled)
         => srcLag'[w.source] = "event"
  BY <1>0, <1>1, WriteSourceFacts
<1>3. LagInv'
  BY <1>1, <1>2, AbsentAssumption DEF FollowInv, LagInv, Noticed, ControllerWatchResources
<1>4. src'["cr"] = src["cr"] /\ srcLag'["cr"] = srcLag["cr"] /\ "cr" \in Sources
  BY <1>1, <1>2 DEF Sources
<1>5. CASE w.source = "issuer"
  <2> DEFINE p == IF request.ca = "user" THEN "configmap" ELSE "readIssuer"
  <2>1. p \in Points /\ Goto(p, NoObject)
    BY <1>0, <1>5 DEF AfterLabel, Points, Secrets
  <2>2. pc' = p
    BY <2>1, GotoFacts
  <2>3. pc' \in {"configmap", "readIssuer"}
    BY <2>2
  <2>4. RequestFresh'
    BY <1>0, <1>4, <2>3 DEF FollowInv, RequestFresh
  <2>5. IssuerFresh' /\ HandFresh' /\ RestConfigMap' /\ RestSecret'
    BY <2>3 DEF IssuerFresh, HandFresh, RestConfigMap, RestSecret, Settled
  <2> QED
    BY <1>3, <2>4, <2>5 DEF FollowInv
<1>6. CASE \E e \in {"Irrecoverable", "RetryRequired"} : Return(e)
  <2>1. PICK e \in {"Irrecoverable", "RetryRequired"} : Return(e)
    BY <1>6
  <2>2. /\ pc' = "idle"
        /\ e = "Irrecoverable" => reported' = "Failed"
        /\ e = "RetryRequired" => delayed' = TRUE
    BY <2>1, ReturnFacts DEF ReconcileErrors
  <2>3. RequestFresh' /\ IssuerFresh' /\ HandFresh'
    BY <2>2 DEF RequestFresh, IssuerFresh, HandFresh
  <2>4. RestConfigMap' /\ RestSecret'
    BY <2>2 DEF RestConfigMap, RestSecret, Settled
  <2> QED
    BY <1>3, <2>3, <2>4 DEF FollowInv
<1>7. CASE w.source # "issuer" /\ Goto("copy", w)
  <2>1. pc' = "copy" /\ w' = w
    BY <1>7, GotoFacts DEF Points
  <2>2. RequestFresh'
    BY <1>0, <1>4, <2>1 DEF FollowInv, RequestFresh
  <2>3. HandFresh'
    BY <1>1, <1>2, <2>1 DEF HandFresh
  <2>4. src'["issuer"] = src["issuer"] /\ srcLag'["issuer"] = srcLag["issuer"]
    BY <1>2, <1>7 DEF Sources
  <2>5. IssuerFresh'
    BY <1>0, <2>1, <2>4 DEF FollowInv, IssuerFresh, Watched
  <2>6. RestConfigMap' /\ RestSecret'
    BY <2>1 DEF RestConfigMap, RestSecret, Settled
  <2> QED
    BY <1>3, <2>2, <2>3, <2>5, <2>6 DEF FollowInv
<1> QED
  BY <1>0, <1>1, <1>5, <1>6, <1>7 DEF AfterLabel, Sources, Secrets

(* A pass that ends well, with the copy as wanted.                         *)
LEMMA ReadyFollow ==
    ASSUME TypeInv, FollowInv, pc \in {"copy", "writeCopy"},
           UNCHANGED <<srcVars, request, queue>>,
           Return("nil"), copyLag' = "none" => copy' = DesiredCopy
    PROVE  FollowInv'
<1>1. pc' = "idle" /\ reported' = "Ready"
  BY ReturnFacts DEF ReconcileErrors
<1>2. LagInv'
  BY DEF FollowInv, LagInv, srcVars
<1>3. RequestFresh' /\ IssuerFresh' /\ HandFresh'
  BY <1>1 DEF RequestFresh, IssuerFresh, HandFresh
<1>4. UNCHANGED <<src, srcLag, note>> /\ pc # "idle"
  BY DEF srcVars
<1>5. w.source = "configmap" <=> request.ca = "user"
  BY DEF TypeInv, HandInv, Secrets
<1>6. w.source \in {"configmap"} \cup Secrets
  BY DEF TypeInv, HandInv
<1>7. RestConfigMap'
  <2> SUFFICES ASSUME Settled', srcLag["configmap"] # "event", UserCA, Watched("configmap")
               PROVE  copy' = [data |-> src["configmap"].data, managed |-> TRUE]
    BY <1>1, <1>4 DEF RestConfigMap, UserCA, Watched
  <2>1. ~queue /\ copyLag' = "none" /\ request = src["cr"].data
    BY <1>4 DEF Settled, FollowInv, RequestFresh
  <2>2. w.source = "configmap"
    BY <1>5, <2>1 DEF UserCA
  <2>3. "configmap" \notin note
    BY DEF TypeInv, TypeOK, Secrets
  <2>4. src["configmap"].data = w.data
    BY <2>1, <2>2, <2>3 DEF FollowInv, HandFresh
  <2> QED
    BY <2>1, <2>4 DEF DesiredCopy
<1>8. RestSecret'
  <2> DEFINE s == SecretOf(src["issuer"].data)
  <2> SUFFICES ASSUME Settled', src["cr"].data.ca = "issuer", srcLag["issuer"] # "event",
                      Watched("issuer"), Watched(s), s \notin note
               PROVE  copy' = [data |-> src[s].data, managed |-> TRUE]
    BY <1>4 DEF RestSecret, Watched
  <2>1. ~queue /\ copyLag' = "none" /\ request = src["cr"].data
    BY <1>4 DEF Settled, FollowInv, RequestFresh
  <2>2. w.source \in Secrets
    BY <1>5, <1>6, <2>1
  <2>3. w.source = s /\ w.source # "configmap"
    BY <2>1, <2>2 DEF FollowInv, IssuerFresh, Secrets
  <2>4. src[s].data = w.data
    BY <2>1, <2>3 DEF FollowInv, HandFresh
  <2> QED
    BY <2>1, <2>4 DEF DesiredCopy
<1> QED
  BY <1>2, <1>3, <1>7, <1>8 DEF FollowInv

(* The steps of the pass.                                                  *)
LEMMA PassStepFollow ==
    ASSUME TypeInv, FollowInv, PassStep
    PROVE  FollowInv'
<1>0. "Irrecoverable" \in {"Irrecoverable", "RetryRequired"}
  OBVIOUS
<1>1. CASE AssertIssuerRefExists
  <2>0. UNCHANGED <<srcVars, copyVars>> /\ request' = srcCache["cr"].data
    BY <1>1 DEF AssertIssuerRefExists
  <2>1. CASE \E e \in {"Irrecoverable", "RetryRequired"} : Return(e)
    BY <2>0, <2>1, ReturnFollow
  <2>2. CASE srcCache["issuer"] # Absent /\ Goto("label", InHand("issuer"))
    <3>1. pc' = "label" /\ w'.source = "issuer"
      BY <2>2, GotoFacts, InHandFacts DEF Points, Sources
    <3>2. LagInv'
      BY <2>0 DEF FollowInv, LagInv, srcVars
    <3>3. RequestFresh'
      BY <2>0, CachedFacts DEF RequestFresh, srcVars
    <3>4. IssuerFresh' /\ HandFresh' /\ RestConfigMap' /\ RestSecret'
      BY <3>1 DEF IssuerFresh, HandFresh, RestConfigMap, RestSecret, Settled, Secrets
    <3> QED
      BY <3>2, <3>3, <3>4 DEF FollowInv
  <2> QED
    BY <1>1, <2>1, <2>2, FromClientErrorType DEF AssertIssuerRefExists, GetIssuer
<1>2. CASE UpdateWatchLabel
  BY <1>2, WatchLabelFollow
<1>3. CASE WatchLabelFails
  BY <1>3, ReturnFollow, FromClientErrorType DEF WatchLabelFails
<1>4. CASE HandleUserProvidedCA
  <2>0. UNCHANGED <<srcVars, copyVars, request, queue>> /\ pc = "configmap"
    BY <1>4 DEF HandleUserProvidedCA
  <2>1. CASE Return("Irrecoverable")
    BY <1>0, <2>0, <2>1, ReturnFollow
  <2>2. CASE srcCache["configmap"] # Absent /\ Goto("label", InHand("configmap"))
    <3>1. pc' = "label" /\ w'.source = "configmap"
      BY <2>2, GotoFacts, InHandFacts DEF Points, Sources
    <3>2. IssuerFresh' /\ HandFresh'
      BY <3>1 DEF IssuerFresh, HandFresh, Secrets
    <3> QED
      BY <2>0, <2>2, <3>2, GotoFollow DEF Points
  <2> QED
    BY <1>4, <2>1, <2>2 DEF HandleUserProvidedCA
<1>5. CASE HandleIssuerBasedCA
  <2>0. UNCHANGED <<srcVars, copyVars, request, queue>> /\ pc = "readIssuer"
    BY <1>5 DEF HandleIssuerBasedCA
  <2>1. CASE \E e \in {"Irrecoverable", "RetryRequired"} : Return(e)
    BY <2>0, <2>1, ReturnFollow
  <2>2. CASE srcCache["issuer"] # Absent /\ srcCache["issuer"].data = "caUnnamed" /\ Return("nil")
    <3>1. pc' = "idle" /\ reported' = "Ready"
      BY <2>2, ReturnFacts DEF ReconcileErrors
    <3>2. LagInv'
      BY <2>0 DEF FollowInv, LagInv, srcVars
    <3>3. RequestFresh' /\ IssuerFresh' /\ HandFresh'
      BY <3>1 DEF RequestFresh, IssuerFresh, HandFresh
    <3>4. request.ca # "user"
      BY <2>0 DEF TypeInv, HandInv
    <3>5. RestConfigMap'
      BY <2>0, <3>4 DEF RestConfigMap, Settled, UserCA, FollowInv, RequestFresh, srcVars
    <3>6. RestSecret'
      BY <2>0, <2>2, CachedFacts DEF RestSecret, Settled, Watched, srcVars
    <3> QED
      BY <3>2, <3>3, <3>5, <3>6 DEF FollowInv
  <2>3. CASE /\ srcCache["issuer"] # Absent
             /\ Goto("secret", [source |-> "issuer", data |-> srcCache["issuer"].data])
    <3>1. pc' = "secret" /\ w'.data = srcCache["issuer"].data
      BY <2>3, GotoFacts DEF Points
    <3>2. IssuerFresh' /\ HandFresh'
      BY <2>0, <3>1, CachedFacts DEF IssuerFresh, HandFresh, Watched, srcVars
    <3> QED
      BY <2>0, <2>3, <3>2, GotoFollow DEF Points
  <2> QED
    BY <1>5, <2>1, <2>2, <2>3, FromClientErrorType DEF HandleIssuerBasedCA, GetIssuer
<1>6. CASE CreateCAConfigMapFromSecret
  <2> DEFINE s == SecretOf(w.data)
  <2>0. UNCHANGED <<srcVars, copyVars, request, queue>> /\ pc = "secret"
    BY <1>6 DEF CreateCAConfigMapFromSecret
  <2>1. CASE \E e \in {"Irrecoverable", "RetryRequired"} : Return(e)
    BY <2>0, <2>1, ReturnFollow
  <2>2. CASE srcCache[s] # Absent /\ Goto("label", InHand(s))
    <3>0. s \in Sources
      BY DEF SecretOf, Sources, Secrets
    <3>1. pc' = "label" /\ w'.source = s
      BY <2>2, <3>0, GotoFacts, InHandFacts DEF Points
    <3>2. IssuerFresh' /\ HandFresh'
      BY <2>0, <3>1 DEF FollowInv, IssuerFresh, HandFresh, Watched, srcVars
    <3> QED
      BY <2>0, <2>2, <3>2, GotoFollow DEF Points
  <2> QED
    BY <1>6, <2>1, <2>2, FromClientErrorType DEF CreateCAConfigMapFromSecret
<1>7. CASE CreateOrUpdateCAConfigMap
  <2>0. UNCHANGED <<srcVars, copyVars, request, queue>> /\ pc = "copy"
    BY <1>7 DEF CreateOrUpdateCAConfigMap
  <2>1. CASE copyCache = DesiredCopy /\ Return("nil")
    <3>1. copyLag' = "none" => copy' = DesiredCopy
      BY <2>0, <2>1 DEF TypeInv, CopyInv, copyVars
    <3> QED
      BY <2>0, <2>1, <3>1, ReadyFollow
  <2>2. CASE Goto("writeCopy", w)
    <3>1. pc' = "writeCopy" /\ w' = w
      BY <2>2, GotoFacts DEF Points
    <3>2. IssuerFresh' /\ HandFresh'
      BY <2>0, <3>1 DEF FollowInv, IssuerFresh, HandFresh, Watched, srcVars
    <3> QED
      BY <2>0, <2>2, <3>2, GotoFollow DEF Points
  <2> QED
    BY <1>7, <2>1, <2>2 DEF CreateOrUpdateCAConfigMap
<1>8. CASE CopyWritten
  BY <1>8, ReadyFollow DEF CopyWritten, WriteCopy
<1>9. CASE CopyFails
  BY <1>9, ReturnFollow, FromClientErrorType DEF CopyFails
<1>10. CASE RetryOnConflict
  BY <1>10 DEF RetryOnConflict, FollowInv, LagInv, RequestFresh, IssuerFresh, HandFresh,
               RestConfigMap, RestSecret, Settled, UserCA, Watched, srcVars, copyVars
<1> QED
  BY <1>1, <1>2, <1>3, <1>4, <1>5, <1>6, <1>7, <1>8, <1>9, <1>10 DEF PassStep

(* A request in the queue makes up for everything the pass may have missed.*)
LEMMA QueuedFollow ==
    ASSUME LagInv', queue' = TRUE
    PROVE  FollowInv'
BY DEF FollowInv, RequestFresh, IssuerFresh, HandFresh, RestConfigMap, RestSecret, Settled

(* Watches, timers, the pass and others keep it.                           *)
LEMMA FollowNext ==
    ASSUME TypeInv, FollowInv, [Next]_vars
    PROVE  FollowInv'
<1>1. CASE PassStep
  BY <1>1, PassStepFollow
<1>2. ASSUME NEW s \in Sources, DeliverSource(s)
      PROVE  FollowInv'
  <2>1. /\ src' = src /\ note' = note
        /\ srcLag' = [srcLag EXCEPT ![s] = "none"]
        /\ srcCache' = [srcCache EXCEPT ![s] = src[s]]
        /\ UNCHANGED <<copyVars, passVars, delayed>>
    BY <1>2 DEF DeliverSource
  <2>2. LagInv'
    BY <2>1 DEF FollowInv, LagInv, TypeInv, TypeOK, SourcesInv
  <2>3. CASE srcLag[s] = "event"
    <3>1. queue' = TRUE
      BY <1>2, <2>3 DEF DeliverSource
    <3> QED
      BY <2>2, <3>1, QueuedFollow
  <2>4. CASE srcLag[s] # "event"
    <3>1. queue' = queue
      BY <1>2, <2>4 DEF DeliverSource, TypeInv, TypeOK
    <3>2. \A t \in Sources : srcLag'[t] # "event" <=> srcLag[t] # "event"
      BY <2>1, <2>4 DEF TypeInv, TypeOK
    <3>3. "cr" \in Sources /\ "issuer" \in Sources /\ "configmap" \in Sources
      BY DEF Sources
    <3>4. RequestFresh' /\ IssuerFresh' /\ HandFresh'
      BY <2>1, <3>1, <3>2, <3>3
      DEF FollowInv, RequestFresh, IssuerFresh, HandFresh, Watched, passVars
    <3>5. RestConfigMap' /\ RestSecret'
      BY <2>1, <3>1, <3>2, <3>3
      DEF FollowInv, RestConfigMap, RestSecret, Settled, UserCA, Watched, passVars, copyVars
    <3> QED
      BY <2>2, <3>4, <3>5 DEF FollowInv
  <2> QED
    BY <2>3, <2>4
<1>3. ASSUME NEW s \in Secrets, NotifySecret(s)
      PROVE  FollowInv'
  <2>1. LagInv' /\ queue' = TRUE
    BY <1>3 DEF NotifySecret, FollowInv, LagInv
  <2> QED
    BY <2>1, QueuedFollow
<1>4. CASE DeliverCopy
  <2>1. UNCHANGED <<srcVars, passVars, copy, delayed>>
    BY <1>4 DEF DeliverCopy
  <2>2. LagInv'
    BY <2>1 DEF FollowInv, LagInv, srcVars
  <2>3. copyLag = "event"
    BY <1>4 DEF DeliverCopy, TypeInv, TypeOK, CopyInv, Lags
  <2>4. queue' = TRUE
    BY <1>4, <2>3 DEF DeliverCopy
  <2> QED
    BY <2>2, <2>4, QueuedFollow
<1>5. CASE Requeue
  <2>1. LagInv' /\ queue' = TRUE
    BY <1>5 DEF Requeue, FollowInv, LagInv, srcVars
  <2> QED
    BY <2>1, QueuedFollow
<1>6. ASSUME NEW s \in Sources, NEW d \in Contents[s], SourceEdited(s, d)
      PROVE  FollowInv'
  <2> DEFINE new == [src[s] EXCEPT !.data = d]
  <2>1. src[s] \in Objects(s)
    BY <1>6 DEF SourceEdited, TypeInv, TypeOK
  <2>2. new \in Objects(s) /\ new.watched = src[s].watched
    BY <2>1 DEF Objects
  <2>3. s = "cr" => new.watched
    BY <2>2 DEF TypeInv, SourcesInv
  <2> HIDE DEF new
  <2>4. WriteSource(s, new) /\ Others /\ UNCHANGED copyVars
    BY <1>6 DEF SourceEdited, new
  <2> QED
    BY <2>2, <2>3, <2>4, SourceWriteFollow
<1>7. ASSUME NEW s \in Sources, NEW d \in Contents[s], SourceReplaced(s, d)
      PROVE  FollowInv'
  <2> DEFINE new == [Fresh(d) EXCEPT !.replaced = TRUE]
  <2>1. new \in Objects(s)
    BY DEF Fresh, Objects
  <2> HIDE DEF new
  <2>2. s # "cr" /\ WriteSource(s, new) /\ Others /\ UNCHANGED copyVars
    BY <1>7 DEF SourceReplaced, new
  <2> QED
    BY <2>1, <2>2, SourceWriteFollow
<1>8. ASSUME NEW s \in Sources, SourceDeleted(s)
      PROVE  FollowInv'
  BY <1>8, SourceWriteFollow DEF SourceDeleted
<1>9. CASE CopyDrifts
  <2>1. UNCHANGED <<srcVars, passVars, queue, delayed>>
    BY <1>9 DEF CopyDrifts, Others
  <2>2. copy' # copy /\ copyLag' = "event"
    <3>1. copy # Absent /\ copy \in Copies /\ copy.managed
      BY <1>9 DEF CopyDrifts, TypeInv, CopyInv
    <3>2. CASE WriteCopy(Absent)
      BY <3>1, <3>2 DEF WriteCopy, Behind
    <3>3. CASE copy.data # "theirs" /\ WriteCopy([copy EXCEPT !.data = "theirs"])
      <4>1. /\ [copy EXCEPT !.data = "theirs"] # copy
            /\ [copy EXCEPT !.data = "theirs"] # Absent
            /\ [copy EXCEPT !.data = "theirs"].managed
        BY <3>1, <3>3, AbsentAssumption DEF Copies
      <4> QED
        BY <3>3, <4>1 DEF WriteCopy, Behind
    <3> QED
      BY <1>9, <3>2, <3>3 DEF CopyDrifts
  <2>3. LagInv' /\ RequestFresh' /\ IssuerFresh' /\ HandFresh'
    BY <2>1 DEF FollowInv, LagInv, RequestFresh, IssuerFresh, HandFresh, Watched,
                srcVars, passVars
  <2>4. RestConfigMap' /\ RestSecret'
    BY <2>2 DEF RestConfigMap, RestSecret, Settled
  <2> QED
    BY <2>3, <2>4 DEF FollowInv
<1>10. CASE UNCHANGED <<srcVars, copyVars, passVars, queue, delayed>>
  BY <1>10 DEF FollowInv, LagInv, RequestFresh, IssuerFresh, HandFresh, RestConfigMap,
               RestSecret, Settled, UserCA, Watched, srcVars, copyVars, passVars
<1>11. CASE Restart
  <2>1. LagInv' /\ queue' = TRUE
    BY <1>11 DEF Restart, LagInv
  <2> QED
    BY <2>1, QueuedFollow
<1>12. (\E e \in Outages : APIFails(e)) \/ APIRecovers \/ UNCHANGED vars
       => UNCHANGED <<srcVars, copyVars, passVars, queue, delayed>>
  BY DEF APIFails, APIRecovers, Others, vars
<1> QED
  BY <1>1, <1>2, <1>3, <1>4, <1>5, <1>6, <1>7, <1>8, <1>9, <1>10, <1>11, <1>12
  DEF Next, System, Environment

LEMMA AlwaysFollowInv == Spec => [](TypeInv /\ FollowInv)
<1>1. Init => TypeInv /\ FollowInv
  BY TypeInit, FollowInit
<1>2. (TypeInv /\ FollowInv) /\ [Next]_vars => (TypeInv /\ FollowInv)'
  BY NextType, FollowNext
<1> QED
  BY <1>1, <1>2, PTL DEF Spec

(* At rest nothing is under way.                                           *)
LEMMA RestFacts ==
    ASSUME TypeInv, Quiescent
    PROVE  Settled /\ note = {} /\ srcLag["configmap"] = "none" /\ srcLag["issuer"] = "none"
BY DEF Quiescent, Synced, Settled, Sources

(* At rest, a ConfigMap of the user with the watch label has been acted    *)
(* upon: whatever edits, outages, restarts and retries came before, the    *)
(* copy holds its certificate or the status says Failed.                   *)
THEOREM ConfigMapFollowed == Spec => []CopyFollowsConfigMap
<1>1. TypeInv /\ FollowInv => CopyFollowsConfigMap
  BY RestFacts DEF FollowInv, RestConfigMap, CopyFollowsConfigMap, Watched
<1> QED
  BY <1>1, AlwaysFollowInv, PTL

(* At rest, with Ready reported, the copy holds the certificate of the     *)
(* secret of the issuer, in whatever order the event of the metadata       *)
(* informer and the data of the cache came.                                *)
THEOREM SecretFollowed == Spec => []CopyFollowsSecret
<1>1. TypeInv /\ FollowInv => CopyFollowsSecret
  BY RestFacts DEF FollowInv, RestSecret, CopyFollowsSecret, Watched
<1> QED
  BY <1>1, AlwaysFollowInv, PTL
=============================================================================
