--------------------------- MODULE TokenRotation ---------------------------
(***************************************************************************)
(* The tokens a hub accepts from its exposers, and their rotation as       *)
(* spec.md section 5.3 describes it: write the new token beside the old    *)
(* one into the environment, reload, move the exposers to the new token,   *)
(* take the old one out of the environment, reload.                        *)
(*                                                                         *)
(* The environment of a process is what it was when the process started:   *)
(* os.Environ reads the process's own copy, and nothing in the repository  *)
(* sets a variable.  What the operator writes reaches a hub with its next  *)
(* start.  The value of a variable is a set of tokens; a variable whose    *)
(* value has none counts as absent.  Sources and clients have managers of  *)
(* the same kind, with names of their own.                                 *)
(***************************************************************************)
EXTENDS GoMaps

CONSTANTS Names, Tokens

VARIABLES
    settings,   \* what the operator has written: TOKEN_EXPOSER_<name> of the hub
    environ,    \* the environment of the hub process
    tokens,     \* tokens of its exposerTokens manager
    announced,  \* name -> the tokens the hub was told to accept when it last loaded
    authToken   \* the token the exposer of that name sends

vars == <<settings, environ, tokens, announced, authToken>>

\* What LoadFromEnv, in a new process, and Reload make of an environment.
TokensOf(env) == [n \in {m \in Names : env[m] # {}} |-> env[n]]

Validate(name, token) == name \in DOMAIN tokens /\ token \in tokens[name]

Init ==
    /\ settings \in [Names -> {{t} : t \in Tokens}]
    /\ environ = settings
    /\ tokens = TokensOf(environ)
    /\ announced = settings
    /\ authToken \in [Names -> Tokens]
    /\ \A n \in Names : authToken[n] \in settings[n]

\* SIGHUP
ReloadTokens ==
    /\ tokens' = TokensOf(environ)
    /\ announced' = settings
    /\ UNCHANGED <<settings, environ, authToken>>

RestartHub ==
    /\ environ' = settings
    /\ tokens' = TokensOf(settings)
    /\ announced' = settings
    /\ UNCHANGED <<settings, authToken>>

\* The operator adds a token for the exposer.
StartRotation(n, t) ==
    /\ settings[n] = {authToken[n]}
    /\ settings' = [settings EXCEPT ![n] = @ \union {t}]
    /\ UNCHANGED <<environ, tokens, announced, authToken>>

\* The exposer reads its token once, in NewHubClient, and so is restarted.
UpdateExposer(n, t) ==
    /\ t \in announced[n] \intersect settings[n]
    /\ authToken' = [authToken EXCEPT ![n] = t]
    /\ UNCHANGED <<settings, environ, tokens, announced>>

\* The operator takes every token out that the exposer does not use.
CompleteRotation(n) ==
    /\ authToken[n] \in announced[n]
    /\ settings' = [settings EXCEPT ![n] = {authToken[n]}]
    /\ UNCHANGED <<environ, tokens, announced, authToken>>

NextWithoutReload ==
    \/ RestartHub
    \/ \E n \in Names : CompleteRotation(n)
    \/ \E n \in Names, t \in Tokens : StartRotation(n, t) \/ UpdateExposer(n, t)

Next == ReloadTokens \/ NextWithoutReload

Spec == Init /\ [][Next]_vars

\* The same procedure with a restart of the hub wherever it says reload.
RestartSpec == Init /\ [][NextWithoutReload]_vars

-----------------------------------------------------------------------------
(* What the documentation says of the hub and the code does not do. *)

\* "Zero-downtime token updates with SIGHUP" (README.md:56): an exposer that is
\* moved to the new token after the reload is accepted, as it was before.
ZeroDowntime == \A n \in Names : Validate(n, authToken[n])

=============================================================================
