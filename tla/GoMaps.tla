------------------------------- MODULE GoMaps -------------------------------
(***************************************************************************)
(* The hub keeps its state in Go maps.  A map is a function whose DOMAIN   *)
(* is the set of keys present; the two operations the code uses on it are  *)
(* the assignment m[k] = v and delete(m, k).  Both are the whole of what   *)
(* the language does, so they are external to the repository.              *)
(***************************************************************************)
EXTENDS Functions

\* make(map[K]V)
EmptyMap == [k \in {} |-> {}]

\* m[k] = v
Put(m, k, v) == [x \in DOMAIN m \union {k} |-> IF x = k THEN v ELSE m[x]]

\* delete(m, k), which does nothing when k is absent
Delete(m, k) == Restrict(m, DOMAIN m \ {k})

=============================================================================
