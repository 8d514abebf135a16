------------------------- MODULE MCPaymentLifecycle -------------------------
(***************************************************************************)
(* Small instances of PaymentLifecycle.                                    *)
(***************************************************************************)
EXTENDS PaymentLifecycle, TLC

AllScenarios == {"success", "delayed", "timeout", "unavailable", "decline"}

\* The seeded policy ranks the mock connector first and falls back once, on
\* the two codes the seed names.
SeedRoutes   == {<<Mock, Manual>>}
SeedFallback == {"CONNECTOR_UNAVAILABLE", "TIMEOUT"}

\* The stub's row may be enabled while its adapter is not registered.
ManualRoutes == {<<Stub, Manual>>, <<Mock, Manual>>, << >>}
ManualOnly   == {<<Manual>>}
MockOnly     == {<<Mock>>}

RequestSymmetry == Permutations(Requests)

=============================================================================
