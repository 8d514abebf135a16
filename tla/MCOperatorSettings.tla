-------------------------- MODULE MCOperatorSettings --------------------------
(***************************************************************************)
(* Small instances of OperatorSettings.                                    *)
(***************************************************************************)
EXTENDS OperatorSettings, TLC

Rate == "rate_limit_per_minute"
Mock == "connector_mock"

\* Production runs without the mock connector.
ProductionConfig == Rate :> 2 @@ Mock :> FALSE

\* The rate 0 is stored as 1; enabling the mock is refused.
RatePatches == {Rate :> 0, Rate :> 3, Mock :> FALSE, Mock :> TRUE}

SettingsSymmetry == Permutations(Replicas) \union Permutations(Admins)

=============================================================================
