-------------------------- MODULE MCExposerServer --------------------------
(***************************************************************************)
(* An instance of ExposerServer for TLC.                                   *)
(***************************************************************************)
EXTENDS ExposerServer, TLC

\* Two rules that together name every label and every operation, and leave out
\* one pair.
MCPermissions ==
    [api |-> << [label |-> "users", operations |-> {"*"}],
                [label |-> "*", operations |-> {"get"}] >>]

\* A pair that is granted by a wildcard and the one that is not.
MCWants == {<<"users", "list">>, <<"payments", "list">>}

Symmetry == Permutations(Requests)

=============================================================================
