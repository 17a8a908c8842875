----------------------------- MODULE MCHashMap -----------------------------
(* Small tables for TLC: the keys, and hashes that collide and wrap around. *)
EXTENDS HashMap, TLC

CONSTANTS a, b, c, d, v1, v2

\* Cap 4: two keys in one bucket
HashTwo == (a :> 4) @@ (b :> 4)

\* Cap 4: a and b share bucket 0, c hashes into their cluster
HashThree == (a :> 4) @@ (b :> 4) @@ (c :> 5)

\* Cap 4: a cluster that wraps around the end of the array
HashFour == (a :> 6) @@ (b :> 7) @@ (c :> 7) @@ (d :> 6)

\* Cap 8: three keys share bucket 4, d hashes into their cluster
HashDeep == (a :> 4) @@ (b :> 4) @@ (c :> 4) @@ (d :> 5)

\* values are only stored and compared
ValSymmetry == Permutations({v1, v2})
=============================================================================
