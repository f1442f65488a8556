-------------------------------- MODULE Maps --------------------------------
(***************************************************************************)
(* Maps, as functions with a finite domain.                                *)
(***************************************************************************)

(* The union of two maps or objects; the left one wins.                    *)
Merge(f, g) == [x \in DOMAIN f \cup DOMAIN g |-> IF x \in DOMAIN f THEN f[x] ELSE g[x]]

f ++ g == Merge(f, g)

(* The map with a single entry.                                            *)
Entry(key, value) == [x \in {key} |-> value]

=============================================================================
