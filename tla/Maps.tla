-------------------------------- MODULE Maps --------------------------------
(***************************************************************************)
(* Updates of a finite map, the model of the contracts' LookupMap,         *)
(* UnorderedMap and HashMap fields: a key that is not in the map is not in *)
(* the function's domain.                                                  *)
(***************************************************************************)

EmptyMap == [x \in {} |-> x]

Put(f, k, v) == [x \in DOMAIN f \cup {k} |-> IF x = k THEN v ELSE f[x]]

Drop(f, k) == [x \in DOMAIN f \ {k} |-> f[x]]

DropAll(f, S) == [x \in DOMAIN f \ S |-> f[x]]

\* LookupMap::get(k).unwrap_or(d)
GetOr(f, k, d) == IF k \in DOMAIN f THEN f[k] ELSE d

=============================================================================
