------------------------------ MODULE Storage ------------------------------
(***************************************************************************)
(* The key-value maps of cw-storage-plus (an external crate), as the       *)
(* bridge uses them: a Map is a function whose domain is the set of keys   *)
(* that have been saved and not removed since.                             *)
(***************************************************************************)

\* Map::new(..): nothing saved yet.
EmptyMap == [k \in {} |-> k]

Has(map, k) == k \in DOMAIN map

\* A Map<K, V>: some of the keys, each with a value.
IsMap(map, K, V) ==
    /\ map = [k \in DOMAIN map |-> map[k]]
    /\ DOMAIN map \subseteq K
    /\ \A k \in DOMAIN map : map[k] \in V

\* Map::save: inserts the key or overwrites what it held.
Save(map, k, v) == [x \in DOMAIN map \cup {k} |-> IF x = k THEN v ELSE map[x]]

\* Map::remove: no error when the key is absent.
Remove(map, k) == [x \in DOMAIN map \ {k} |-> map[x]]
============================================================================
