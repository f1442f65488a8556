---------------------------- MODULE OperandApply ----------------------------
(***************************************************************************)
(* One object of the trust-manager or the istio-csr operand, of any kind,  *)
(* under repeated passes: does the comparison of its kind see everything   *)
(* the builder of its kind sets, and does it come to rest?  The caches are *)
(* up to date here; TrustManager and IstioCSR have the caches and the      *)
(* failures, for few kinds.  The names are this module's own, so that the  *)
(* proofs about TrustManager can use its lemmas about objects.             *)
(***************************************************************************)
EXTENDS TrustManagerObjects, FiniteSets

CSR == INSTANCE IstioCSRObjects

CONSTANTS
    TMSpecs,    \* the values of TrustManager.spec
    TMInputs,   \* its inputs: CA bundle, APIServer, image, service account
    CSRSpecs,   \* the values of IstioCSR.spec
    CSRInputs,  \* its inputs: APIServer, image, name of the cluster role
    MaxForeign  \* bound: how many fields of the object others hold at once

TrustManagerKinds == {FullPipeline[j] : j \in DOMAIN FullPipeline}
IstioCSRKinds == {CSR!FullPipeline[j] : j \in DOMAIN CSR!FullPipeline}

ASSUME InputsAssumption ==
    /\ \A s \in TMSpecs, i \in TMInputs, k \in TrustManagerKinds : BuildError(k, s, i) = "nil"
    /\ \A s \in CSRSpecs, i \in CSRInputs, k \in IstioCSRKinds :
          CSR!BuildError(k, s, i) = "nil"

(* What somebody else puts into a field is not what belongs there.         *)
ASSUME ForeignAssumption ==
    \A k \in TrustManagerKinds, s \in TMSpecs, i \in TMInputs :
        \A f \in DOMAIN Desired(k, s, i) : Desired(k, s, i)[f] # Foreign

VARIABLES
    kind,           \* the kind of the object
    spec, inputs,   \* what the controller reads
    object          \* the object in the API server

applyVars == <<kind, spec, inputs, object>>

OfIstioCSR == kind \in IstioCSRKinds

ApplyInit ==
    /\ \/ /\ kind \in TrustManagerKinds
          /\ spec \in TMSpecs /\ inputs \in TMInputs
       \/ /\ kind \in IstioCSRKinds
          /\ spec \in CSRSpecs /\ inputs \in CSRInputs
    /\ object = Absent

Existing == IF object = Absent THEN Absent ELSE object.fields

(* The pass finds the object missing or modified.                          *)
Modified ==
    IF OfIstioCSR THEN CSR!NeedsUpdate(kind, spec, inputs, Existing)
    ELSE /\ ~Skipped(kind, spec)
         /\ NeedsApply(kind, spec, inputs, Existing)

(* What the write of the pass makes of the object.  A binding whose        *)
(* reference is wrong is deleted first (handleClusterRoleBindingModification), *)
(* with the same result.                                                   *)
Written(uid) ==
    IF OfIstioCSR THEN CSR!Update(object, CSR!Desired(kind, spec, inputs), uid)
    ELSE ServerSideApply(object, Desired(kind, spec, inputs), uid)

Pass ==
    /\ Modified
    /\ object' = Written(1)
    /\ UNCHANGED <<kind, spec, inputs>>

(* A user edits the spec, within what the CRD allows: trustNamespace has a *)
(* default and is immutable once set.                                      *)
SpecEdited ==
    /\ IF OfIstioCSR
       THEN /\ spec' \in CSRSpecs \ {spec}
            /\ \A f \in CSR!ImmutableSpecFields : spec'[f] = spec[f]
       ELSE /\ spec' \in TMSpecs \ {spec}
            /\ spec'.trustNamespace = spec.trustNamespace
    /\ UNCHANGED <<kind, inputs, object>>

InputsChange ==
    /\ inputs' \in (IF OfIstioCSR THEN CSRInputs ELSE TMInputs) \ {inputs}
    /\ UNCHANGED <<kind, spec, object>>

(* What the API server does not let anybody change.                        *)
Immutable ==
    {<<"meta", "namespace">>, <<"spec", "roleRef">>}
    \cup (IF kind \in {"Deployment", "csr.Deployment"} THEN {<<"spec", "selector">>} ELSE {})

(* Somebody else takes a field over, or adds a label of his own.           *)
ObjectDrifts ==
    /\ object # Absent
    /\ Cardinality(DOMAIN object.fields \ object.owned) < MaxForeign
    /\ \/ \E f \in object.owned \ Immutable :
             object' = [object EXCEPT !.fields[f] = Foreign, !.owned = @ \ {f}]
       \/ /\ <<"label", "theirs">> \notin DOMAIN object.fields
          /\ object' = [object EXCEPT !.fields = Entry(<<"label", "theirs">>, Foreign) ++ @]
    /\ UNCHANGED <<kind, spec, inputs>>

ApplyNext == Pass \/ SpecEdited \/ InputsChange \/ ObjectDrifts

ApplySpec == ApplyInit /\ [][ApplyNext]_applyVars

-----------------------------------------------------------------------------
(* The fields of the two Deployments that their comparisons leave out      *)
(* although the manifest or the spec sets them.                            *)
NotCompared == NeverCompared(kind) \cup CSR!NeverCompared(kind)

(* An object the controller leaves alone holds every field the current     *)
(* spec and inputs ask for: there is no field that a builder sets and the  *)
(* comparison of its kind (hasObjectChanged, ...Modified) overlooks, but   *)
(* for the five in NotCompared: revisionHistoryLimit and the automounting  *)
(* of the token of trust-manager, affinity, tolerations and the port of    *)
(* the readiness probe of istio-csr.                                       *)
NoticesEveryChange ==
    (Existing # Absent /\ ~(~OfIstioCSR /\ Skipped(kind, spec)) /\ ~Modified) =>
        LET wanted == Written(1).fields
        IN  \A f \in DOMAIN wanted \ NotCompared : Value(object.fields, f) = wanted[f]

(* The server does not store what was sent: it fills in the mode of the    *)
(* package volume and the scope and the port of the webhook (which is thus *)
(* written in every pass), and keeps no empty list.                        *)
StoredOtherwise ==
    \/ kind = "Deployment" /\ DefaultCAPackageEnabled(spec)
    \/ kind = "ValidatingWebhook"
    \/ kind = "csr.Certificate" /\ CSR!DNSNames(spec) = << >>

(* One write is enough: an object just as an apply or an update leaves it  *)
(* is not taken for modified by the next pass, and neither are labels that *)
(* others have added to an applied one, but for the three cases of         *)
(* StoredOtherwise.                                                        *)
(* (Other fields held by others, such as a node selector the spec does not *)
(* name, an apply cannot remove.)                                          *)
OneWriteIsEnough ==
    (/\ Existing # Absent
     /\ \A f \in DOMAIN object.fields \ object.owned : f[1] = "label"
     /\ ~(~OfIstioCSR /\ Skipped(kind, spec)) /\ ~StoredOtherwise
     /\ object = Written(object.uid)) =>
        ~Modified

(* The kinds of istio-csr outside the namespace of the IstioCSR.           *)
ElsewhereKinds ==
    {"csr.ClusterRole", "csr.ClusterRoleBinding", "csr.Role", "csr.RoleBinding",
     "csr.LeasesRole", "csr.LeasesRoleBinding", "csr.Certificate"}

(* The label by which the caches find every object, the one by which       *)
(* events outside the namespace of an IstioCSR find it, and the annotation *)
(* by which the CA injector finds the secret of the webhook are on what    *)
(* has been written, whatever labels and annotations the user asks for.    *)
OwnMetadataWins ==
    object # Absent =>
        /\ <<"label", "app">> \in object.owned =>
               object.fields[<<"label", "app">>]
                   = IF OfIstioCSR THEN "istio-csr" ELSE "trust-manager"
        /\ kind \in ElsewhereKinds /\ <<"label", "csr-namespace">> \in object.owned =>
               object.fields[<<"label", "csr-namespace">>] = "csr-ns"
        /\ kind = "ValidatingWebhook" /\ <<"annotation", "inject-ca-from-secret">> \in object.owned
           =>
               object.fields[<<"annotation", "inject-ca-from-secret">>]
                   = "cert-manager/trust-manager-tls"

=============================================================================
