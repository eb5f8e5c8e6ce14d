------------------------------ MODULE HashMap ------------------------------
(***************************************************************************)
(* What libhashtable promises its callers (hashtable.h, the comments of    *)
(* ht_insert_key and ht_delete_key in libhashtable.c): a table created     *)
(* without duplicates is a map from keys to data pointers.  Inserting a   *)
(* key the map holds fails with EEXIST and changes nothing, deleting a key *)
(* it does not hold fails with ENOENT, and a locate changes nothing.  So   *)
(* the map changes only by adding a pair for an absent key or by dropping  *)
(* a key's pair, one key at a time.                                        *)
(***************************************************************************)
CONSTANTS Keys, Data

VARIABLE map       \* the set of <<key, data>> pairs the table holds

KeysOf(m) == {p[1] : p \in m}

Init == map = {}

Insert(k, d) ==
    /\ k \notin KeysOf(map)
    /\ map' = map \cup {<<k, d>>}

Delete(k) ==
    /\ k \in KeysOf(map)
    /\ map' = {p \in map : p[1] # k}

Next == \E k \in Keys : Delete(k) \/ \E d \in Data : Insert(k, d)

Spec == Init /\ [][Next]_map

=============================================================================
