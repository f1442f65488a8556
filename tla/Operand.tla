------------------------------- MODULE Operand -------------------------------
(***************************************************************************)
(* What a controller of this operator promises about the operand it        *)
(* installs for a custom resource, without caches, queues or retries:      *)
(*                                                                         *)
(*   - it writes only while it holds the resource by its finalizer, so     *)
(*     never for a resource that is gone or not yet adopted;               *)
(*   - what it writes is the complete content some accepted spec asks for, *)
(*     for inputs the cluster had, never a mixture or a rejected spec;     *)
(*   - the rest is up to others, who may take fields away or delete;       *)
(*   - a resource that is being deleted is released in the end.            *)
(*                                                                         *)
(* TrustManager implements this specification.                             *)
(***************************************************************************)
CONSTANTS
    Absent,     \* an object that does not exist
    Kinds,      \* the kinds of objects of the operand
    Accepted    \* the pairs of a kind and a content that accepted specs ask for

VARIABLES
    phase,      \* of the custom resource
    content     \* the part of each object that the controller owns

vars == <<phase, content>>

Phases == {"none", "offered", "adopted", "leaving"}

Init == phase = "none" /\ content = [k \in Kinds |-> Absent]

(* The user creates the resource, the controller adds its finalizer.       *)
Offer == phase = "none" /\ phase' = "offered" /\ UNCHANGED content
Adopt == phase = "offered" /\ phase' = "adopted" /\ UNCHANGED content

(* The user deletes the resource; it is gone at once, or once released.    *)
Withdraw ==
    /\ \/ phase = "offered" /\ phase' = "none"
       \/ phase = "adopted" /\ phase' = "leaving"
    /\ UNCHANGED content

Release == phase = "leaving" /\ phase' = "none" /\ UNCHANGED content

(* A pass that began before the deletion may still write.                  *)
Install(k) ==
    /\ phase \in {"adopted", "leaving"}
    /\ \E a \in Accepted : a[1] = k /\ content' = [content EXCEPT ![k] = a[2]]
    /\ UNCHANGED phase

(* Somebody else deletes the object or takes a field of it over.           *)
Lose(k) ==
    /\ content[k] # Absent
    /\ \/ content' = [content EXCEPT ![k] = Absent]
       \/ \E F \in {DOMAIN content[k] \ {f} : f \in DOMAIN content[k]} :
             content' = [content EXCEPT ![k] = [f \in F |-> content[k][f]]]
    /\ UNCHANGED phase

Next ==
    \/ Offer \/ Adopt \/ Withdraw \/ Release
    \/ \E k \in Kinds : Install(k) \/ Lose(k)

Spec == Init /\ [][Next]_vars /\ WF_vars(Release)

=============================================================================
