------------------------ MODULE TokenRotationProofs ------------------------
(***************************************************************************)
(* The procedure of a rotation is right: with restarts of the hub in place *)
(* of reloads no exposer is refused, for any names and tokens.             *)
(***************************************************************************)
EXTENDS TokenRotation, TLAPS

RotationInv ==
    /\ settings \in [Names -> SUBSET Tokens]
    /\ announced \in [Names -> SUBSET Tokens]
    /\ authToken \in [Names -> Tokens]
    /\ tokens = TokensOf(announced)
    /\ \A n \in Names : authToken[n] \in announced[n] \intersect settings[n]

LEMMA RotationInitInv == Init => RotationInv
BY DEF Init, RotationInv

LEMMA RotationStepInv ==
    ASSUME RotationInv, [NextWithoutReload]_vars
    PROVE  RotationInv'
<1>1. CASE RestartHub
  BY <1>1 DEF RotationInv, RestartHub
<1>2. ASSUME NEW n \in Names, CompleteRotation(n)
      PROVE  RotationInv'
  BY <1>2 DEF RotationInv, CompleteRotation
<1>3. ASSUME NEW n \in Names, NEW t \in Tokens, StartRotation(n, t)
      PROVE  RotationInv'
  BY <1>3 DEF RotationInv, StartRotation
<1>4. ASSUME NEW n \in Names, NEW t \in Tokens, UpdateExposer(n, t)
      PROVE  RotationInv'
  BY <1>4 DEF RotationInv, UpdateExposer
<1>5. CASE UNCHANGED vars
  BY <1>5 DEF RotationInv, vars
<1>. QED
  BY <1>1, <1>2, <1>3, <1>4, <1>5 DEF NextWithoutReload

\* An exposer whose token is rotated as the document says, but with restarts of
\* the hub (LoadFromEnv, token.go:27), is always accepted by a hub that runs.
THEOREM RotationByRestart == RestartSpec => []ZeroDowntime
<1>1. RotationInv => ZeroDowntime
  BY DEF RotationInv, ZeroDowntime, Validate, TokensOf
<1>. QED
  BY <1>1, RotationInitInv, RotationStepInv, PTL DEF RestartSpec

=============================================================================
