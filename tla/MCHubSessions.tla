--------------------------- MODULE MCHubSessions ---------------------------
(***************************************************************************)
(* Instances of HubSessions for TLC.                                       *)
(***************************************************************************)
EXTENDS HubSessions

\* Streams are interchangeable: each is opened by whoever dials next.
Symmetry == Permutations(Streams) \union Permutations(Names)

=============================================================================
