---------------------------- MODULE MCUnitDrift ----------------------------
(* Two ordinary modules and one always-module that contributes two provide *)
(* commands (the end-of-run re-assert), over builds that change a module,  *)
(* the bytes outside the modules, both, or the module list.                *)
EXTENDS UnitDrift

CONSTANTS a, b, z

MCModules == {a, b, z}
MCAlways  == {z}
MCHash(ha) == [m \in MCModules |-> IF m = a THEN ha ELSE 1]
MCBuilds ==
  { [modules |-> MCModules, hash |-> MCHash(1), extra |-> 1],
    [modules |-> MCModules, hash |-> MCHash(2), extra |-> 1],
    [modules |-> MCModules, hash |-> MCHash(2), extra |-> 2],
    [modules |-> {a, z},    hash |-> MCHash(1), extra |-> 1] }
MCCommands ==
  << [module |-> z, kind |-> "provide"],
     [module |-> a, kind |-> "provide"], [module |-> a, kind |-> "verify"],
     [module |-> b, kind |-> "provide"],
     [module |-> z, kind |-> "provide"] >>
=============================================================================
