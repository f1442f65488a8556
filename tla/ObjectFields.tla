---------------------------- MODULE ObjectFields ----------------------------
(***************************************************************************)
(* Kubernetes objects as the operand controllers build and compare them.   *)
(*                                                                         *)
(* An object is a function from fields to values.  A field is a pair of a  *)
(* section ("label", "annotation", "spec", ...) and a key.  What the       *)
(* manifest of a kind fixes for good is one value, "manifest".             *)
(***************************************************************************)
EXTENDS Maps

CONSTANTS
    Absent,     \* an object that does not exist
    Unset,      \* the value of a field that is not set
    Foreign     \* a value somebody else put into a field

Manifest == "manifest"      \* what the manifest says
Invalid == "invalid"        \* a value that fails its validation

EmptyMap == [k \in {} |-> Unset]

(* The object made of the given sections, a record of one map per section. *)
Object(sections) ==
    [f \in UNION {{s} \X DOMAIN sections[s] : s \in DOMAIN sections} |->
        sections[f[1]][f[2]]]

(* The map without the given keys.                                         *)
Omit(keys, map) == [k \in DOMAIN map \ keys |-> map[k]]

(* The keys the spec does not give.                                        *)
NotGiven(s, keys) == {k \in keys : s[k] = Unset}

(* The keys that a manifest fixes.                                         *)
FromManifest(keys) == [k \in keys |-> Manifest]

Section(o, section) ==
    [k \in {f[2] : f \in {g \in DOMAIN o : g[1] = section}} |-> o[<<section, k>>]]

Value(o, f) == IF f \in DOMAIN o THEN o[f] ELSE Unset

Differ(desired, existing, keys) ==
    \E k \in keys : Value(desired, <<"spec", k>>) # Value(existing, <<"spec", k>>)

=============================================================================
