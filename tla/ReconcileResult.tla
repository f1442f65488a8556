--------------------------- MODULE ReconcileResult ---------------------------
(***************************************************************************)
(* The error classification and the status-condition bookkeeping that the  *)
(* IstioCSR and TrustManager controllers share                             *)
(* (pkg/controller/common/{errors,reconcile_result}.go and                 *)
(* api/operator/v1alpha1/conditions.go), as operators on values.           *)
(*                                                                         *)
(* A condition is represented by its reason: SetCondition compares status  *)
(* and reason only, and in this code base the reason determines the status *)
(* of each condition type (Ready is True exactly with reason Ready,        *)
(* Degraded is True exactly with reason Failed).  Messages are left out.   *)
(***************************************************************************)

ReadyReasons == {"unset", "Ready", "Failed", "Progressing"}
DegradedReasons == {"unset", "Ready", "Failed"}

(* The two conditions of a ConditionalStatus; "unset" is a condition that  *)
(* GetCondition does not find.                                             *)
Conditions == [ready : ReadyReasons, degraded : DegradedReasons]
NoConditions == [ready |-> "unset", degraded |-> "unset"]

(***************************************************************************)
(* The errors of the Kubernetes client that the code tells apart, and the  *)
(* reasons of a ReconcileError.                                            *)
(***************************************************************************)
ClientErrors == {"Unauthorized", "Forbidden", "Invalid", "BadRequest",
                 "ServiceUnavailable", "NotFound", "Conflict",
                 "AlreadyExists", "Timeout"}

ReconcileErrors == {"nil", "Irrecoverable", "RetryRequired"}

(* Variants: every client error is final; the error is not wrapped.        *)
FromClientErrorFinal(e) == "Irrecoverable"
FromClientErrorRaw(e) == e

FromClientError(e) ==
    IF e \in {"Unauthorized", "Forbidden", "Invalid", "BadRequest",
              "ServiceUnavailable"}
    THEN "Irrecoverable"
    ELSE "RetryRequired"

IsIrrecoverableError(err) == err = "Irrecoverable"

(***************************************************************************)
(* The conditions HandleReconcileResult asks for, by the outcome of the    *)
(* reconciliation.                                                         *)
(***************************************************************************)
ConditionsFor(err) ==
    IF err = "nil"
    THEN [ready |-> "Ready", degraded |-> "Ready"]
    ELSE IF IsIrrecoverableError(err)
         THEN [ready |-> "Failed", degraded |-> "Failed"]
         ELSE [ready |-> "Progressing", degraded |-> "Ready"]

(* degradedChanged || readyChanged: what SetCondition reports when it puts *)
(* the wanted conditions into the conditions c of the working copy.        *)
ConditionsChanged(c, err) == c # ConditionsFor(err)

(* Variant: the error of the status write is dropped.                      *)
RequeuesDroppingUpdateError(err, updateOK) == err = "RetryRequired"

(***************************************************************************)
(* Whether the request comes back by itself.  updateOK is the outcome of   *)
(* the status write, when there was one (ConditionsChanged).  A failed     *)
(* write and a recoverable error whose conditions changed are returned to  *)
(* the work queue as errors (rate limited), a recoverable error whose      *)
(* conditions did not change as RequeueAfter.                              *)
(***************************************************************************)
Requeues(err, updateOK) == err = "RetryRequired" \/ ~updateOK

=============================================================================
