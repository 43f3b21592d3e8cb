-------------------------- MODULE MCQueryExchange --------------------------
(***************************************************************************)
(* Instances of QueryExchange for TLC.                                     *)
(***************************************************************************)
EXTENDS QueryExchange

Symmetry == Permutations(Streams) \union Permutations(Names)
              \union Permutations(Queries) \union Permutations(QueryIds)

=============================================================================
