------------------------------ MODULE VmSuite ------------------------------
(***************************************************************************)
(* vm/test-suite.py: named scenarios, each a script of sub-runs of         *)
(* run-prov-test.py (VmHarness), edits of the staged commands.json between *)
(* them and reads of the unit's manifest, judged by the exit codes.        *)
(*                                                                         *)
(* A developer may first call run-prov-test.py by hand (Manual), with any  *)
(* of the flags that resolve_phases accepts; then the suite runs once.     *)
(***************************************************************************)
EXTENDS VmHarness

CONSTANTS
    SCENARIOS,      \* the registry, in its order
    ManualPhases,   \* --phases values a developer gives by hand, None for no option
    Selections,     \* --modules values
    MaxRepeat,      \* bound: largest --repeat
    MaxManual       \* bound: processes started by hand

Active == {"full-provision", "interrupted-inject-fail", "failure-recover-no-reset",
           "idempotent-after-manifest-wipe"}

Verdicts == {"PASS", "FAIL", "ERROR", "SKIP"}

ASSUME SuiteAssumption ==
    /\ SCENARIOS \in Seq(Active \cup {"stub"})
    /\ Selections \subseteq SUBSET Modules
    /\ {MaxRepeat, MaxManual} \subseteq Nat
    /\ None \notin Verdicts /\ None # 0

VARIABLES
    suite,      \* where main is
    targets,    \* the scenarios asked for
    selected,   \* modules_override, or all modules, as every scenario names none
    todo,       \* those still to run
    step,       \* position in the scenario's script
    rcs,        \* exit codes of its sub-runs
    hashes,     \* payload_hash values it has read
    outcomes,   \* ScenarioResult list
    suite_rc,   \* exit code of the suite, None while it runs
    manual      \* history: processes started by hand

asked == <<targets, selected>>
suiteVars == <<suite, asked, todo, step, rcs, hashes, outcomes, suite_rc, manual>>
vars == <<harnessVars, suiteVars>>

TypeOK ==
    /\ HarnessTypeOK
    /\ suite \in {"idle", "preflight", "scenario", "subrun", "over"}
    /\ selected \in SUBSET Modules
    /\ targets \in Seq(Active \cup {"stub"}) /\ todo \in Seq(Active \cup {"stub"})
    /\ step \in Nat
    /\ rcs \in Seq({0, 1, 2}) /\ hashes \in Seq(Hashes \cup {None})
    /\ outcomes \in Seq([name : Active \cup {"stub"}, outcome : Verdicts])
    /\ suite_rc \in {0, 1, 2, None}
    /\ manual \in 0 .. MaxManual

Init ==
    /\ HarnessInit
    /\ suite = "idle" /\ selected = Modules /\ targets = <<>> /\ todo = <<>> /\ step = 0 /\ rcs = <<>> /\ hashes = <<>>
    /\ outcomes = <<>> /\ suite_rc = None /\ manual = 0

-----------------------------------------------------------------------------
(***************************************************************************)
(* The scripts.                                                            *)
(***************************************************************************)

Run(phases) == [op |-> "run", phases |-> phases]
Op(op) == [op |-> op, phases |-> {}]

BuildToVerify == {"build", "transfer", "execute", "verify"}
TransferToVerify == {"transfer", "execute", "verify"}

run_simple_scenario == <<Run(BuildToVerify \cup {"reset"})>>

run_interrupted_inject_fail ==
    <<Run({"build"}), Op("bomb"), Run(TransferToVerify), Run({"reset"}),
      Run(BuildToVerify \cup {"reset"})>>

run_failure_recover_no_reset ==
    <<Run({"build"}), Op("sporadic"), Run(TransferToVerify), Run(TransferToVerify),
      Run({"reset"})>>

run_idempotent_after_manifest_wipe ==
    <<Run(BuildToVerify), Op("read"), Op("delete"), Run(BuildToVerify), Op("read"),
      Run({"reset"})>>

\* SCENARIO_RUNNERS
Script(s) ==
    CASE s = "full-provision" -> run_simple_scenario
      [] s = "interrupted-inject-fail" -> run_interrupted_inject_fail
      [] s = "failure-recover-no-reset" -> run_failure_recover_no_reset
      [] s = "idempotent-after-manifest-wipe" -> run_idempotent_after_manifest_wipe

\* The result with which a sub-run's non-zero exit code ends its scenario; None
\* where the script goes on.
StopsWith(s, i) ==
    CASE s \in {"interrupted-inject-fail", "failure-recover-no-reset"} /\ i = 1 -> "ERROR"
      [] s = "idempotent-after-manifest-wipe" /\ i \in {1, 4} -> "FAIL"
      [] OTHER -> None

\* The verdict at the end of the script; sub-runs are A, B, C, D in order.
Verdict(s) ==
    CASE s = "full-provision" -> IF rcs[1] = 0 THEN "PASS" ELSE "FAIL"
      [] s = "interrupted-inject-fail" ->
            IF rcs[4] # 0 THEN "FAIL" ELSE IF rcs[2] # 0 THEN "PASS" ELSE "ERROR"
      [] s = "failure-recover-no-reset" ->
            IF rcs[2] = 0 THEN "ERROR" ELSE IF rcs[3] = 0 THEN "PASS" ELSE "FAIL"
      [] s = "idempotent-after-manifest-wipe" ->
            IF hashes[1] # None /\ hashes[1] = hashes[2] THEN "PASS" ELSE "FAIL"

scenario == Head(todo)
Here == Script(scenario)[step]

-----------------------------------------------------------------------------
(***************************************************************************)
(* By hand.                                                                *)
(***************************************************************************)

ManualJobs ==
    {[mode |-> r.mode, phases |-> r.phases, modules |-> ms, repeat |-> n,
      rebuild |-> b, no_reset |-> c] :
        r \in UNION {resolve_phases(flags, phases) : flags \in SUBSET LegacyFlags,
                                                     phases \in ManualPhases \cup {None}},
        ms \in Selections \cup {Modules}, n \in 1 .. MaxRepeat, b \in BOOLEAN, c \in BOOLEAN}

Manual ==
    /\ suite = "idle" /\ manual < MaxManual
    /\ \E j \in ManualJobs : Launch(j)
    /\ manual' = manual + 1
    /\ UNCHANGED <<suite, asked, todo, step, rcs, hashes, outcomes, suite_rc>>

-----------------------------------------------------------------------------
(***************************************************************************)
(* main and run_scenario.                                                  *)
(***************************************************************************)

\* --scenario NAME or --all, perhaps with --modules; markers found on the disk
\* from here on are old.
SuiteMain ==
    /\ suite = "idle" /\ job = None
    /\ selected' \in Selections \cup {Modules}
    /\ targets' \in {SCENARIOS} \cup {<<SCENARIOS[i]>> : i \in DOMAIN SCENARIOS}
    /\ todo' = targets' /\ suite' = "preflight"
    /\ smoke' = [m \in Modules |-> IF smoke[m] = "new" THEN "old" ELSE smoke[m]]
    /\ UNCHANGED <<staged, power, pristine, ustage, marker, manifest, busy, procVars,
                   step, rcs, hashes, outcomes, suite_rc, manual>>

\* Credentials, VBoxManage, the VM or its snapshot are missing: 2, nothing run.
check_prerequisites ==
    /\ suite = "idle" /\ job = None
    /\ suite' = "over" /\ suite_rc' = 2
    /\ UNCHANGED <<harnessVars, asked, todo, step, rcs, hashes, outcomes, manual>>

\* The scenario's result is appended and the next one begins.
Finish(outcome) ==
    /\ outcomes' = Append(outcomes, [name |-> scenario, outcome |-> outcome])
    /\ todo' = Tail(todo)
    /\ suite' = "preflight" /\ step' = 0 /\ rcs' = <<>> /\ hashes' = <<>>
    /\ UNCHANGED <<asked, suite_rc, manual>>

run_stub ==
    /\ suite = "preflight" /\ todo # <<>> /\ scenario = "stub"
    /\ Finish("SKIP")
    /\ UNCHANGED harnessVars

Begin ==
    /\ suite' = "scenario" /\ step' = 1
    /\ UNCHANGED <<asked, todo, rcs, hashes, outcomes, suite_rc, manual>>

\* Mutant: a failed reset is printed and the scenario runs all the same.
PreflightIgnored ==
    /\ suite = "preflight" /\ todo # <<>> /\ scenario # "stub"
    /\ \E ok \in BOOLEAN : ResetVm(ok) /\ Begin
    /\ UNCHANGED <<staged, procVars>>

\* Mutant: a failed reset skips the scenario without a result.
PreflightUnrecorded ==
    /\ suite = "preflight" /\ todo # <<>> /\ scenario # "stub"
    /\ \/ ResetVm(TRUE) /\ Begin
       \/ /\ ResetVm(FALSE)
          /\ todo' = Tail(todo)
          /\ UNCHANGED <<suite, asked, step, rcs, hashes, outcomes, suite_rc, manual>>
    /\ UNCHANGED <<staged, procVars>>

\* The pre-flight reset of every ACTIVE scenario: its failure is the result.
Preflight ==
    /\ suite = "preflight" /\ todo # <<>> /\ scenario # "stub"
    /\ \/ ResetVm(TRUE) /\ Begin
       \/ ResetVm(FALSE) /\ Finish("ERROR")
    /\ UNCHANGED <<staged, procVars>>

Advance ==
    /\ suite' = "scenario" /\ step' = step + 1
    /\ UNCHANGED <<asked, todo, outcomes, suite_rc, manual>>

At(op) == suite = "scenario" /\ step <= Len(Script(scenario)) /\ Here.op = op

\* _build_prov_args with the phases replaced: repeat stays 1, so no --repeat.
SubRun ==
    /\ At("run")
    /\ Launch([mode |-> "phases", phases |-> Here.phases, modules |-> selected,
               repeat |-> 1, rebuild |-> FALSE, no_reset |-> FALSE])
    /\ suite' = "subrun"
    /\ UNCHANGED <<asked, todo, step, rcs, hashes, outcomes, suite_rc, manual>>

\* An exit code of the current sub-run, and what its scenario makes of it.
SubRunCode(code) ==
    /\ IF code # 0 /\ StopsWith(scenario, step) # None
       THEN Finish(StopsWith(scenario, step))
       ELSE /\ rcs' = Append(rcs, code)
            /\ Advance /\ UNCHANGED hashes
    /\ UNCHANGED harnessVars

\* The reader saw end of file and proc.wait returned.
SubRunEnds ==
    /\ suite = "subrun" /\ job = None
    /\ SubRunCode(rc)

\* The process or its log could not be opened: 2.
SubRunOSError ==
    /\ At("run")
    /\ SubRunCode(2)

\* Mutant: the entry is appended to a copy that is never written back.
InjectNothing(kind) ==
    /\ At(kind)
    /\ \/ staged # None /\ Advance /\ UNCHANGED <<rcs, hashes>>
       \/ staged = None /\ Finish("ERROR")
    /\ UNCHANGED harnessVars

\* _inject_commands_json_entry: the staged file is rewritten, whichever build
\* it is from; a bomb that an earlier scenario left in it stays and decides.
\* Without a file the exception ends the scenario.
Inject(kind) ==
    /\ At(kind)
    /\ \/ /\ staged # None
          /\ staged' = IF staged.kind \in {"broken", "bomb"} THEN staged ELSE [staged EXCEPT !.kind = kind]
          /\ Advance /\ UNCHANGED <<rcs, hashes>>
       \/ /\ staged # None => staged.kind = "broken"
          /\ Finish("ERROR")
          /\ UNCHANGED staged
    /\ UNCHANGED <<power, diskVars, procVars>>

\* Mutant: the manifest itself is kept where its payload_hash is meant.
ReadManifestWhole ==
    /\ At("read")
    /\ \/ /\ power
          /\ IF manifest = None
             THEN Finish("FAIL")
             ELSE /\ hashes' = Append(hashes, manifest)
                  /\ Advance /\ UNCHANGED rcs
       \/ Finish("ERROR")
    /\ UNCHANGED harnessVars

\* _unit_read_installed_manifest after sub-runs A and C.
ReadManifest ==
    /\ At("read")
    /\ \/ /\ power
          /\ IF manifest = None
             THEN Finish("FAIL")
             ELSE /\ hashes' = Append(hashes, manifest.payload_hash)
                  /\ Advance /\ UNCHANGED rcs
       \/ Finish("ERROR")
    /\ UNCHANGED harnessVars

\* _unit_delete_installed_manifest; an error may hide that it was deleted.
DeleteManifest ==
    /\ At("delete")
    /\ \/ power /\ manifest' = None /\ Advance /\ UNCHANGED <<rcs, hashes>>
       \/ manifest' \in {manifest, None} /\ Finish("ERROR")
    /\ UNCHANGED <<staged, power, pristine, ustage, smoke, marker, busy, procVars>>

Judge ==
    /\ suite = "scenario" /\ step > Len(Script(scenario))
    /\ Finish(Verdict(scenario))
    /\ UNCHANGED harnessVars

Good == {"PASS", "SKIP"}

\* The exit code of main.
SuiteExit ==
    /\ suite = "preflight" /\ todo = <<>>
    /\ suite' = "over"
    /\ suite_rc' = IF \A i \in DOMAIN outcomes : outcomes[i].outcome \in Good THEN 0 ELSE 1
    /\ UNCHANGED <<harnessVars, asked, todo, step, rcs, hashes, outcomes, manual>>

Suite ==
    \/ SuiteMain \/ check_prerequisites \/ run_stub \/ Preflight \/ SubRun \/ SubRunEnds \/ SubRunOSError
    \/ Inject("bomb") \/ Inject("sporadic") \/ ReadManifest \/ DeleteManifest
    \/ Judge \/ SuiteExit

Next == Manual \/ Suite \/ (HarnessStep /\ UNCHANGED suiteVars)

Spec == Init /\ [][Next]_vars

-----------------------------------------------------------------------------
\* A cycle of a scenario passes only on smoke markers that were written since
\* the suite began: phase_verify takes a marker of any age for content, and what
\* keeps an old one from passing is the pre-flight reset alone.  Inside one
\* scenario there is no such protection: a later sub-run on the same disk may
\* pass on a marker that an earlier one wrote.
FreshVerdict ==
    [][suite = "subrun" /\ Len(results') > Len(results) /\ "verify" \in job.phases
          /\ results'[Len(results')] => \A m \in job.modules : smoke[m] = "new"]_vars

\* Asked to run all modules, failure-recover-no-reset passes its second attempt
\* only over the marker that an earlier attempt on the same disk left: it cannot
\* pass for a first failure that had nothing to do with the sporadic bomb
\* (run_failure_recover_no_reset, _patch_commands_json_inject_sporadic_bomb).
\* With fewer modules selected the injected entry is filtered out on the unit,
\* and a first failure of any cause lets the scenario pass.
RecoveryWasReal ==
    [][suite = "subrun" /\ selected = Modules /\ scenario = "failure-recover-no-reset" /\ step = 4
          /\ rcs' # rcs /\ rcs'[Len(rcs')] = 0 => marker]_vars

\* A process that is asked to build, transfer and execute runs on the unit what
\* it has built itself, or what arrived of it, without a bomb: a failed build
\* never lets an older or an injected staging tree through (main of
\* run-prov-test.py).  That all of it arrived is not looked at by the code.
CleanBuildExecuted ==
    ppc = "running" /\ {"build", "transfer"} \subseteq job.phases
        => ustage # None /\ ustage.kind \in {"clean", "broken"} /\ ustage.origin = "this"

\* A process that verifies reports on every cycle it was asked for: no cycle
\* that raised is left out of the count its exit code is made of.
EveryCycleCounted ==
    ppc = "exit" /\ "verify" \in job.phases
        => Len(results) = IF job.mode = "phases" THEN job.repeat ELSE 1

\* The suite exits with 0 only when every scenario it was asked to run has a
\* result and every one that is implemented passed (main of test-suite.py).
SuiteHonest ==
    suite_rc = 0 =>
        outcomes = [i \in DOMAIN targets |->
                       [name |-> targets[i],
                        outcome |-> IF targets[i] = "stub" THEN "SKIP" ELSE "PASS"]]

\* Claimed: the clean re-run of interrupted-inject-fail starts from the restored
\* snapshot ("after snapshot reset, clean re-run must pass").
CleanRerun ==
    suite = "subrun" /\ scenario = "interrupted-inject-fail" /\ step = 5 /\ ppc = "build" => pristine
=============================================================================
