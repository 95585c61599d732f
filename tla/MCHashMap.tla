----------------------------- MODULE MCHashMap -----------------------------
(* Three keys, two of them in the same bucket.                             *)
EXTENDS HashMapProperties

SmallHash == [k \in {1, 2, 3} |-> k]
=============================================================================
