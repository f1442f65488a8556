----------------------------- MODULE IstioCSRCA -----------------------------
(***************************************************************************)
(* The CA certificate of istio-csr (pkg/controller/istiocsr/deployments.go,*)
(* assertIssuerRefExists and updateVolumes): objects that belong to users  *)
(* or to cert-manager are read, given a watch label and validated, and the *)
(* certificate is copied into a ConfigMap of the controller, which the pod *)
(* mounts.                                                                 *)
(*                                                                         *)
(* A source is the IstioCSR object, the issuer, the ConfigMap with the CA  *)
(* of the user, the secret of a CA issuer or the secret of the istiod      *)
(* Certificate.  Reads go to the informer caches.  Secrets are watched by  *)
(* their metadata only: that is an informer of its own, beside the one     *)
(* that r.Get reads, so the event and the data of a change come            *)
(* separately.  IstioCSR has the rest of the pipeline and the status.      *)
(***************************************************************************)
EXTENDS ReconcileResult, Naturals

CONSTANTS
    Absent,         \* an object that does not exist
    Requests,       \* the values of spec.istioCSRConfig.certManager
    IssuerTypes,    \* the types of the issuer
    Certificates,   \* certificates that can serve as CA
    Outages,        \* the errors the API server may answer writes with
    RetrySteps,     \* attempts of retry.RetryOnConflict
    MaxFaults       \* bound: how many changes by others, outages and restarts

ASSUME RequestsAssumption ==
    Requests \subseteq [ca : {"user", "issuer"}, issuerRef : {"valid", "invalid"}]
ASSUME IssuerTypesAssumption ==
    IssuerTypes \subseteq {"ca", "caUnnamed", "acme", "selfSigned"}
ASSUME BoundsAssumption ==
    Outages \subseteq ClientErrors /\ RetrySteps \in Nat \ {0} /\ MaxFaults \in Nat

Secrets == {"caSecret", "istiodSecret"}
Sources == {"cr", "issuer", "configmap"} \cup Secrets

(* What a data key may hold besides a certificate: nothing, something that *)
(* is no CA certificate; or the key is missing.                            *)
Flaws == {"empty", "notCA", "noKey"}

(* What a secret may hold: nothing (or no such key), a certificate that    *)
(* can serve as CA, or anything else.  Nobody validates it.                *)
SecretContents == Certificates \cup {"empty", "unvalidated"}

Contents ==
    [cr |-> Requests, issuer |-> IssuerTypes, configmap |-> Certificates \cup Flaws,
     caSecret |-> SecretContents, istiodSecret |-> SecretContents]

VARIABLES
    src, srcCache, srcLag,      \* the sources and what the caches hold; "replaced"
                                \* records that the owner put it in another's place
    note,                       \* secrets whose metadata event is under way
    copy, copyCache, copyLag,   \* the ConfigMap of the controller
    api,                        \* "ok" or the error of writes
    queue, delayed,             \* the request waits, or a timer will put it back
    pc,                         \* the API call the pass is at
    w,                          \* the object the pass has in hand, and which it is
    request,                    \* the spec this pass works on
    attempt, reported, faults   \* of RetryOnConflict; in the status; faults left

srcVars == <<src, srcCache, srcLag, note>>
copyVars == <<copy, copyCache, copyLag>>
passVars == <<pc, w, request, attempt, reported>>
vars == <<srcVars, copyVars, passVars, api, queue, delayed, faults>>

Lags == {"none", "quiet", "event"}
Objects(s) == [data : Contents[s], watched : BOOLEAN, replaced : BOOLEAN]
Fresh(d) == [data |-> d, watched |-> FALSE, replaced |-> FALSE]
Copies == [data : Certificates \cup Flaws \cup SecretContents \cup {"theirs"},
           managed : BOOLEAN]
ASSUME AbsentAssumption == Absent \notin Copies /\ \A s \in Sources : Absent \notin Objects(s)

NoObject == [source |-> "none", data |-> "none"]
Points == {"idle", "label", "configmap", "readIssuer", "secret", "copy", "writeCopy"}

TypeOK ==
    /\ \A s \in Sources :
          /\ src[s] \in Objects(s) \cup {Absent}
          /\ srcCache[s] \in Objects(s) \cup {Absent}
    /\ srcLag \in [Sources -> Lags] /\ note \subseteq Secrets
    /\ copy \in Copies \cup {Absent} /\ copyCache \in Copies \cup {Absent}
    /\ copyLag \in Lags
    /\ api \in {"ok"} \cup Outages
    /\ queue \in BOOLEAN /\ delayed \in BOOLEAN
    /\ pc \in Points
    /\ w = NoObject \/ (w.source \in Sources /\ w.data \in Contents[w.source])
    /\ request \in Requests
    /\ attempt \in 1..RetrySteps
    /\ reported \in {"Progressing", "Ready", "Failed"}
    /\ faults \in 0..MaxFaults

(* The IstioCSR object is there and about to be reconciled.  The sources   *)
(* it does not use hold nothing.                                           *)
Init ==
    /\ \E r \in Requests, i \in IssuerTypes,
          d \in Contents["configmap"], c \in Contents["caSecret"] :
          /\ IF r.ca = "user" THEN c = "empty" ELSE d = "noKey"
          /\ src = [cr |-> [Fresh(r) EXCEPT !.watched = TRUE],
                 issuer |-> Fresh(i), configmap |-> Fresh(d),
                 caSecret |-> Fresh(c), istiodSecret |-> Fresh(c)]
    /\ srcCache = src /\ srcLag = [s \in Sources |-> "none"] /\ note = {}
    /\ copy = Absent /\ copyCache = Absent /\ copyLag = "none"
    /\ api = "ok" /\ queue = TRUE /\ delayed = FALSE
    /\ pc = "idle" /\ w = NoObject /\ request = src["cr"].data
    /\ attempt = 1 /\ reported = "Progressing" /\ faults = MaxFaults

-----------------------------------------------------------------------------
(***************************************************************************)
(* Watches (SetupWithManager).                                             *)
(***************************************************************************)

(* Variant: ConfigMaps are looked at for the managed label only.           *)
ControllerConfigMapPredicatesManaged(o) == FALSE

(* controllerWatchResources and controllerConfigMapPredicates of a source  *)
(* that is not managed: the watch label.                                   *)
ControllerWatchResources(o) == o.watched

(* An update is judged by the new object, a deletion by the last one.      *)
Noticed(old, new) ==
    IF new # Absent THEN ControllerWatchResources(new)
    ELSE IF old # Absent THEN ControllerWatchResources(old)
    ELSE FALSE

Behind(lag, passes) == IF passes \/ lag = "event" THEN "event" ELSE "quiet"

(* Writing what is already there makes no new version.                     *)
WriteSource(s, new) ==
    /\ src' = [src EXCEPT ![s] = new]
    /\ IF new = src[s] THEN UNCHANGED <<srcLag, note>>
       ELSE IF s \in Secrets
            THEN /\ srcLag' = [srcLag EXCEPT ![s] = "quiet"]
                 /\ note' = IF Noticed(src[s], new) THEN note \cup {s} ELSE note
            ELSE /\ srcLag' = [srcLag EXCEPT ![s] = Behind(@, Noticed(src[s], new))]
                 /\ UNCHANGED note
    /\ UNCHANGED srcCache

WriteCopy(new) ==
    /\ copy' = new
    /\ copyLag' = IF new = copy THEN copyLag
                  ELSE Behind(copyLag, IF new = Absent THEN copy.managed ELSE new.managed)
    /\ UNCHANGED copyCache

DeliverSource(s) ==
    /\ srcLag[s] # "none"
    /\ srcCache' = [srcCache EXCEPT ![s] = src[s]]
    /\ srcLag' = [srcLag EXCEPT ![s] = "none"]
    /\ queue' = (queue \/ srcLag[s] = "event")
    /\ UNCHANGED <<src, note, copyVars, passVars, api, delayed, faults>>

(* The metadata informer reports a secret (WatchesMetadata).               *)
NotifySecret(s) ==
    /\ s \in note
    /\ note' = note \ {s}
    /\ queue' = TRUE
    /\ UNCHANGED <<src, srcCache, srcLag, copyVars, passVars, api, delayed, faults>>

DeliverCopy ==
    /\ copyLag # "none"
    /\ copyCache' = copy /\ copyLag' = "none"
    /\ queue' = (queue \/ copyLag = "event")
    /\ UNCHANGED <<copy, srcVars, passVars, api, delayed, faults>>

Synced == /\ \A s \in Sources : srcLag[s] = "none"
          /\ note = {} /\ copyLag = "none"

Requeue ==
    /\ delayed
    /\ queue' = TRUE /\ delayed' = FALSE
    /\ UNCHANGED <<srcVars, copyVars, passVars, api, faults>>

-----------------------------------------------------------------------------
(***************************************************************************)
(* The pass.                                                               *)
(***************************************************************************)
Return(err) ==
    /\ pc' = "idle" /\ w' = NoObject /\ attempt' = 1
    /\ reported' = ConditionsFor(err).ready
    /\ delayed' = (delayed \/ Requeues(err, TRUE))

Goto(point, object) ==
    /\ pc' = point /\ w' = object /\ attempt' = 1
    /\ UNCHANGED <<reported, delayed>>

InHand(s) == [source |-> s, data |-> srcCache[s].data]

(* getIssuer.                                                              *)
GetIssuer == srcCache["issuer"]

(* assertIssuerRefExists, up to the write of the watch label.              *)
AssertIssuerRefExists ==
    /\ pc = "idle" /\ queue
    /\ queue' = FALSE
    /\ request' = srcCache["cr"].data
    /\ IF request'.issuerRef = "invalid" THEN Return("Irrecoverable")
       ELSE IF GetIssuer = Absent THEN Return(FromClientError("NotFound"))
       ELSE IF GetIssuer.data = "acme" THEN Return("Irrecoverable")
       ELSE Goto("label", InHand("issuer"))
    /\ UNCHANGED <<srcVars, copyVars, api, faults>>

(* The error of the write of a source: UpdateWithRetry reads the cache for *)
(* the resourceVersion it sends.                                           *)
LabelError ==
    IF srcCache[w.source] = Absent THEN "NotFound"
    ELSE IF api # "ok" THEN api
    ELSE IF src[w.source] = Absent THEN "NotFound"
    ELSE IF srcLag[w.source] # "none" THEN "Conflict"
    ELSE "none"

(* Variant: empty data alone is refused.                                   *)
ValidatePEMDataNonEmpty(data) == data # "empty"

ValidatePEMData(data) == data \in Certificates

(* What follows the label: for the issuer the ConfigMap or the issuer once *)
(* more, for a ConfigMap its validation, which fails for good.  A secret   *)
(* is not validated; one without data is retried.                          *)
AfterLabel ==
    CASE w.source = "issuer" ->
            Goto(IF request.ca = "user" THEN "configmap" ELSE "readIssuer", NoObject)
      [] w.source = "configmap" ->
            IF w.data = "noKey" \/ ~ValidatePEMData(w.data)
            THEN Return("Irrecoverable")
            ELSE Goto("copy", w)
      [] w.source \in Secrets ->
            IF w.data = "empty" THEN Return("RetryRequired") ELSE Goto("copy", w)

(* The object in hand with the watch label; "replaced" is history.         *)
Labelled == [data |-> w.data, watched |-> TRUE, replaced |-> src[w.source].replaced]

(* Variant: an object that carries the label already is not written.       *)
UpdateWatchLabelOnce ==
    /\ pc = "label"
    /\ IF (IF srcCache[w.source] = Absent THEN FALSE ELSE srcCache[w.source].watched)
       THEN UNCHANGED srcVars
       ELSE LabelError = "none" /\ WriteSource(w.source, Labelled)
    /\ AfterLabel
    /\ UNCHANGED <<copyVars, request, api, queue, faults>>

(* updateWatchLabel: the object in hand, labelled, replaces the live one.  *)
(* The write is sent even when the label is there; it fails when the cache *)
(* the object was read from is behind.                                     *)
UpdateWatchLabel ==
    /\ pc = "label"
    /\ LabelError = "none"
    /\ WriteSource(w.source, Labelled)
    /\ AfterLabel
    /\ UNCHANGED <<copyVars, request, api, queue, faults>>

WatchLabelFails ==
    /\ pc = "label"
    /\ LabelError # "none"
    /\ LabelError = "Conflict" => attempt = RetrySteps
    /\ Return(FromClientError(LabelError))
    /\ UNCHANGED <<srcVars, copyVars, request, api, queue, faults>>

(* Variant: the ConfigMap is validated before it is labelled.              *)
HandleUserProvidedCAValidatingFirst ==
    /\ pc = "configmap"
    /\ IF srcCache["configmap"] = Absent THEN Return("Irrecoverable")
       ELSE IF ~ValidatePEMData(srcCache["configmap"].data) THEN Return("Irrecoverable")
       ELSE Goto("label", InHand("configmap"))
    /\ UNCHANGED <<srcVars, copyVars, request, api, queue, faults>>

(* handleUserProvidedCA, up to the write of the watch label.               *)
HandleUserProvidedCA ==
    /\ pc = "configmap"
    /\ IF srcCache["configmap"] = Absent THEN Return("Irrecoverable")
       ELSE Goto("label", InHand("configmap"))
    /\ UNCHANGED <<srcVars, copyVars, request, api, queue, faults>>

(* handleIssuerBasedCA reads the issuer a second time; a CA issuer without *)
(* a secret leaves the certificate to the pod.                             *)
HandleIssuerBasedCA ==
    /\ pc = "readIssuer"
    /\ IF GetIssuer = Absent THEN Return(FromClientError("NotFound"))
       ELSE IF GetIssuer.data = "caUnnamed" THEN Return("nil")
       ELSE Goto("secret", [source |-> "issuer", data |-> GetIssuer.data])
    /\ UNCHANGED <<srcVars, copyVars, request, api, queue, faults>>

(* createCAConfigMapFromIssuerSecret, createCAConfigMapFromIstiodCertifi-  *)
(* cate, up to the write of the watch label.                               *)
SecretOf(issuer) == IF issuer = "ca" THEN "caSecret" ELSE "istiodSecret"

CreateCAConfigMapFromSecret ==
    /\ pc = "secret"
    /\ LET s == SecretOf(w.data)
       IN  IF srcCache[s] = Absent THEN Return(FromClientError("NotFound"))
           ELSE Goto("label", InHand(s))
    /\ UNCHANGED <<srcVars, copyVars, request, api, queue, faults>>

DesiredCopy == [data |-> w.data, managed |-> TRUE]

(* createOrUpdateCAConfigMap compares with the cache: data and labels.     *)
CreateOrUpdateCAConfigMap ==
    /\ pc = "copy"
    /\ IF copyCache = DesiredCopy THEN Return("nil") ELSE Goto("writeCopy", w)
    /\ UNCHANGED <<srcVars, copyVars, request, api, queue, faults>>

CopyError ==
    IF api # "ok" THEN api
    ELSE IF copyCache = Absent THEN (IF copy = Absent THEN "none" ELSE "AlreadyExists")
    ELSE IF copy = Absent THEN "NotFound"
    ELSE IF copyLag # "none" THEN "Conflict"
    ELSE "none"

CopyWritten ==
    /\ pc = "writeCopy"
    /\ CopyError = "none"
    /\ WriteCopy(DesiredCopy)
    /\ Return("nil")
    /\ UNCHANGED <<srcVars, request, api, queue, faults>>

CopyFails ==
    /\ pc = "writeCopy"
    /\ CopyError # "none"
    /\ CopyError = "Conflict" => attempt = RetrySteps
    /\ Return(FromClientError(CopyError))
    /\ UNCHANGED <<srcVars, copyVars, request, api, queue, faults>>

(* Variant: one attempt too many.                                          *)
RetryOnceMore ==
    /\ \/ pc = "label" /\ LabelError = "Conflict"
       \/ pc = "writeCopy" /\ CopyError = "Conflict"
    /\ attempt <= RetrySteps
    /\ attempt' = attempt + 1
    /\ UNCHANGED <<srcVars, copyVars, pc, w, request, reported, api, queue, delayed, faults>>

RetryOnConflict ==
    /\ \/ pc = "label" /\ LabelError = "Conflict"
       \/ pc = "writeCopy" /\ CopyError = "Conflict"
    /\ attempt < RetrySteps
    /\ attempt' = attempt + 1
    /\ UNCHANGED <<srcVars, copyVars, pc, w, request, reported, api, queue, delayed, faults>>

PassStep ==
    \/ AssertIssuerRefExists \/ UpdateWatchLabel \/ WatchLabelFails
    \/ HandleUserProvidedCA \/ HandleIssuerBasedCA \/ CreateCAConfigMapFromSecret
    \/ CreateOrUpdateCAConfigMap \/ CopyWritten \/ CopyFails \/ RetryOnConflict

-----------------------------------------------------------------------------
(***************************************************************************)
(* The environment.                                                        *)
(***************************************************************************)
Disturb == faults > 0 /\ faults' = faults - 1

Others == UNCHANGED <<passVars, queue, delayed>>

(* The owner of a source edits it, deletes it, or puts it (back) in place, *)
(* without the label, which he does not know of.                           *)
SourceEdited(s, d) ==
    /\ src[s] # Absent /\ src[s].data # d
    /\ Disturb
    /\ WriteSource(s, [src[s] EXCEPT !.data = d])
    /\ Others /\ UNCHANGED <<copyVars, api>>

SourceDeleted(s) ==
    /\ s # "cr" /\ src[s] # Absent
    /\ Disturb
    /\ WriteSource(s, Absent)
    /\ Others /\ UNCHANGED <<copyVars, api>>

SourceReplaced(s, d) ==
    /\ s # "cr"
    /\ IF src[s] = Absent THEN TRUE ELSE src[s].watched
    /\ Disturb
    /\ WriteSource(s, [Fresh(d) EXCEPT !.replaced = TRUE])
    /\ Others /\ UNCHANGED <<copyVars, api>>

CopyDrifts ==
    /\ copy # Absent
    /\ Disturb
    /\ \/ WriteCopy(Absent)
       \/ copy.data # "theirs" /\ WriteCopy([copy EXCEPT !.data = "theirs"])
    /\ Others /\ UNCHANGED <<srcVars, api>>

APIFails(e) ==
    /\ api = "ok" /\ Disturb
    /\ api' = e
    /\ Others /\ UNCHANGED <<srcVars, copyVars>>

APIRecovers ==
    /\ api # "ok" /\ api' = "ok"
    /\ Others /\ UNCHANGED <<srcVars, copyVars, faults>>

Restart ==
    /\ Disturb
    /\ srcCache' = src /\ srcLag' = [s \in Sources |-> "none"] /\ note' = {}
    /\ copyCache' = copy /\ copyLag' = "none"
    /\ queue' = TRUE /\ delayed' = FALSE
    /\ pc' = "idle" /\ w' = NoObject /\ attempt' = 1
    /\ UNCHANGED <<src, copy, request, reported, api>>

System ==
    \/ \E s \in Sources : DeliverSource(s)
    \/ \E s \in Secrets : NotifySecret(s)
    \/ DeliverCopy \/ Requeue \/ PassStep

Environment ==
    \/ \E s \in Sources : \E d \in Contents[s] : SourceEdited(s, d) \/ SourceReplaced(s, d)
    \/ \E s \in Sources : SourceDeleted(s)
    \/ CopyDrifts
    \/ \E e \in Outages : APIFails(e)
    \/ APIRecovers \/ Restart

Next == System \/ Environment

Spec == Init /\ [][Next]_vars

(* Watches deliver, timers fire, the worker runs, an outage ends.          *)
Fairness ==
    /\ \A s \in Sources : WF_vars(DeliverSource(s))
    /\ \A s \in Secrets : WF_vars(NotifySecret(s))
    /\ WF_vars(DeliverCopy) /\ WF_vars(Requeue) /\ WF_vars(PassStep)
    /\ WF_vars(APIRecovers)

(* In the end a pass begins only after the caches have caught up with the  *)
(* writes of the one before.  Without this, two versions of a source could *)
(* chase each other for ever: each pass would write back the one the cache *)
(* showed at its start.                                                    *)
Timely == <>[][Requeue \/ AssertIssuerRefExists => pc = "idle" /\ Synced]_vars

FairSpec == Spec /\ Fairness /\ Timely

-----------------------------------------------------------------------------
(***************************************************************************)
(* Correctness.                                                            *)
(***************************************************************************)
Quiescent == pc = "idle" /\ ~queue /\ ~delayed /\ Synced

UserCA == src["cr"].data.ca = "user" /\ src["cr"].data.issuerRef = "valid"

(* What a pass writes into the copy that the pod mounts: when the user     *)
(* names a ConfigMap, only a certificate that passed the validation,       *)
(* whatever changes between the read of the ConfigMap, the write of its    *)
(* label and the write of the copy (handleUserProvidedCA); when it comes   *)
(* from the issuer, whatever non-empty data the secret held, which is not  *)
(* validated (createOrUpdateCAConfigMap), and nothing of a ConfigMap.      *)
OnlyValidated ==
    [][(copy' # copy /\ copy' # Absent /\ copy'.data # "theirs") =>
          copy'.data \in IF request.ca = "user" THEN Certificates
                         ELSE SecretContents \ {"empty"}]_vars

(* At rest, a ConfigMap of the user that carries the watch label has been  *)
(* acted upon: the copy holds its certificate, or the status says Failed.  *)
(* An edit that updateWatchLabel overwrote, or one that came in the middle *)
(* of a pass, leaves the two in agreement.                                 *)
CopyFollowsConfigMap ==
    (Quiescent /\ UserCA /\ src["configmap"] # Absent /\ src["configmap"].watched) =>
        \/ reported = "Failed"
        \/ reported = "Ready" /\ copy = [data |-> src["configmap"].data, managed |-> TRUE]

(* Once things are quiet, a ConfigMap with a good certificate is copied    *)
(* and Ready reported: correcting a flawed ConfigMap is enough.  Its label *)
(* is a condition only for one put in the place of another, which nobody   *)
(* watches; the first one is labelled before it is validated.              *)
Recovers ==
    <>[](/\ UserCA
         /\ src["issuer"] # Absent /\ src["issuer"].data # "acme" /\ src["issuer"].watched
         /\ src["configmap"] # Absent
         /\ src["configmap"].replaced => src["configmap"].watched
         /\ ValidatePEMData(src["configmap"].data)
         => reported = "Ready" /\ copy = [data |-> src["configmap"].data, managed |-> TRUE])

(* The controller adds its label to the objects of others and changes      *)
(* nothing else: an edit of their owner survives.                          *)
EditSurvives ==
    [][UpdateWatchLabel => src'[w.source].data = src[w.source].data]_vars

(* At rest, with Ready reported, the copy holds the certificate of the     *)
(* secret of the issuer, although the event that announces a new one may   *)
(* come before the cache has it: the write of the label catches the stale  *)
(* read.                                                                   *)
CopyFollowsSecret ==
    (Quiescent /\ reported = "Ready" /\ src["cr"].data.ca = "issuer"
     /\ src["issuer"] # Absent /\ src["issuer"].watched /\ src["issuer"].data # "caUnnamed") =>
        LET s == SecretOf(src["issuer"].data)
        IN  src[s] # Absent /\ src[s].watched =>
                copy = [data |-> src[s].data, managed |-> TRUE]

=============================================================================
