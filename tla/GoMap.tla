--------------------------------- MODULE GoMap ---------------------------------
(* Go maps as functions from the keys in use. *)

(* m[k] = v *)
Put(m, k, v) == [x \in DOMAIN m \cup {k} |-> IF x = k THEN v ELSE m[x]]

(* delete(m, k) for the keys k in K *)
Delete(m, K) == [x \in DOMAIN m \ K |-> m[x]]

(* m is a map from keys in K to values in V. *)
IsMap(m, K, V) == DOMAIN m \subseteq K /\ m \in [DOMAIN m -> V]

=============================================================================
