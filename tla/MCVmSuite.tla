----------------------------- MODULE MCVmSuite -----------------------------
(***************************************************************************)
(* Instances of VmSuite for TLC: two modules of which one or both are      *)
(* selected, two hashes, the four implemented scenarios and one stub.      *)
(***************************************************************************)
EXTENDS VmSuite

CONSTANTS h1, h2

MCHashes == {h1, h2}
MCManualPhases == {{"transfer", "verify"}, {"execute", "verify", "reset"},
                   {"execute", "verify-run"}, VALID_PHASES \ {"execute"}}
MCScenarios == <<"full-provision", "interrupted-inject-fail", "failure-recover-no-reset",
                 "idempotent-after-manifest-wipe", "stub">>
MCSelections == {{"python"}}
=============================================================================
