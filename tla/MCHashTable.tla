---------------------------- MODULE MCHashTable ----------------------------
(* Model-checking instance of HashTable: threads and data pointers are    *)
(* model values, keys are one-byte keys so that the hash spreads them     *)
(* over the buckets of a two-entry table and piles them into one bucket   *)
(* of a one-entry table.                                                  *)
EXTENDS HashTable, TLC

CONSTANTS t1, t2, d1, d2

MCKeys == {<<1>>, <<2>>, <<3>>}
MCKeys1 == {<<1>>}
MCKeys2 == {<<1>>, <<2>>}
MCKeys4 == {<<1>>, <<2>>, <<3>>, <<4>>}

\* Threads and data pointers are interchangeable: no action compares them
\* other than for equality.
MCSymmetry == Permutations({t1, t2}) \cup Permutations({d1, d2})
====
