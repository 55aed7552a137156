------------------------------ MODULE MCFleetRun ------------------------------
(* FleetRun on three hosts: the service provisions two of them, an operator    *)
(* runs the excluded third by name.                                            *)
EXTENDS FleetRun

CONSTANTS h1, h2, h3

MCHosts == {h1, h2, h3}
MCFleet == <<h1, h2, h3>>
MCExcluded == {h3}
MCOnlyHosts == {h3}
MCWindow == (h1 :> [start |-> 10, end |-> 16]) @@ (h2 :> [start |-> 8, end |-> 8])
              @@ (h3 :> [start |-> 0, end |-> 24])
MCRecorded == {h2}
MCDrawn == {"SKIP_MAINTENANCE", "UNREACHABLE", "EXECUTE_FAIL"}

\* This instance is one the theorems of FleetRunProofs are about.
ASSUME InstanceAssumption == SelectionTyped /\ SelectsOnce /\ HourWindows
=============================================================================
