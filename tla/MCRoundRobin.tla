---------------------------- MODULE MCRoundRobin ----------------------------
(***************************************************************************)
(* Instances of RoundRobin for TLC.                                        *)
(***************************************************************************)
EXTENDS RoundRobin

\* Names are interchangeable: the order of a label's list comes from the
\* registrations alone.
Symmetry == Permutations(Names)

=============================================================================
