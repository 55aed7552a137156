----------------------------- MODULE VmHarness -----------------------------
(***************************************************************************)
(* vm/run-prov-test.py: one process that drives provisioning cycles of the *)
(* VirtualBox unit through its phases, and the VM helpers of vm/vm_lib.py. *)
(*                                                                         *)
(* The process is sequential; what varies is the arguments it is given     *)
(* (phases, repetitions, resets) and what each phase meets: a build that   *)
(* fails, a unit that does not answer, a command that never exits, a VM    *)
(* that does not come back.  State that outlives the process is the staged *)
(* payload on the host and the VM's disk.  A payload is its commands.json: *)
(* "clean" as built, with a "bomb" or a "sporadic" entry injected by the   *)
(* test suite, or "broken" (missing or unreadable) where a build or a copy *)
(* stopped half-way.  What else of a tree arrived shows only in what its   *)
(* modules come to on the unit, and every outcome of theirs is allowed.    *)
(***************************************************************************)
EXTENDS Naturals, Sequences, FiniteSets

CONSTANTS
    Modules,    \* the provider modules
    Hashes,     \* the payload hashes that builds come to
    None        \* no payload, no process, no manifest, no hash

ASSUME HarnessAssumption == Modules # {} /\ Hashes # {} /\ None \notin Hashes

VARIABLES
    staged,     \* payload under staging/<hostname> on the host
    power,      \* the VM runs
    pristine,   \* history: nothing was written to the disk since the restore
    ustage,     \* payload in the newest run directory of C:\mast-staging
    smoke,      \* per module, its smoke marker: absent, or of which age
    marker,     \* the sporadic bomb's marker file
    manifest,   \* installed-manifest.json: absent, or its payload_hash, perhaps none
    busy,       \* a provisioning process the harness gave up on still runs
    job,        \* arguments of the running process
    ppc,        \* where it is
    cycle, built, session, run_rc, results,
    poller,     \* the log poller's thread
    rc          \* exit code of the last process

diskVars == <<pristine, ustage, smoke, marker, manifest, busy>>
procVars == <<job, ppc, cycle, built, session, run_rc, results, poller, rc>>
harnessVars == <<staged, power, diskVars, procVars>>

VALID_PHASES == {"build", "transfer", "execute", "verify-run", "verify", "reset"}
DEFAULT_PHASES == VALID_PHASES \ {"verify-run"}
LegacyFlags == {"build_only", "execute_only", "build_transfer_verify", "pull_repos", "rebuild_repos"}

Kinds == {"clean", "bomb", "sporadic", "broken"}
\* "this": built by the running process; "earlier": by one before it.
Payloads == [kind : Kinds, hash : Hashes, origin : {"this", "earlier"}]
Manifests == [payload_hash : Hashes \cup {None}]
Jobs == [mode : {"phases", "pull_repos", "rebuild_repos"}, phases : SUBSET VALID_PHASES,
         modules : SUBSET Modules, repeat : Nat, rebuild : BOOLEAN, no_reset : BOOLEAN]

ASSUME NoneAssumption == None \notin Payloads \cup Manifests \cup Jobs

HarnessTypeOK ==
    /\ staged \in Payloads \cup {None}
    /\ power \in BOOLEAN /\ pristine \in BOOLEAN
    /\ ustage \in Payloads \cup {None}
    /\ smoke \in [Modules -> {"absent", "old", "new"}]
    /\ marker \in BOOLEAN
    /\ manifest \in Manifests \cup {None}
    /\ busy \in BOOLEAN
    /\ job \in Jobs \cup {None}
    /\ ppc \in {"idle", "build", "connect", "transfer", "run", "running", "verify",
                "raised", "cycled", "exit", "aborted"}
    /\ cycle \in Nat /\ built \in BOOLEAN /\ session \in BOOLEAN
    /\ run_rc \in {0, 1}
    /\ results \in Seq(BOOLEAN)
    /\ poller \in {"off", "tailing", "dead"}
    /\ rc \in {0, 1}

HarnessInit ==
    /\ staged = None /\ power = TRUE /\ pristine = FALSE
    /\ ustage = None /\ smoke = [m \in Modules |-> "old"] /\ marker = FALSE
    /\ manifest = None /\ busy = FALSE
    /\ job = None /\ ppc = "idle" /\ cycle = 0 /\ built = FALSE /\ session = FALSE
    /\ run_rc = 0 /\ results = <<>> /\ poller = "off" /\ rc = 0

-----------------------------------------------------------------------------
(***************************************************************************)
(* Arguments.                                                              *)
(***************************************************************************)

\* resolve_phases for the legacy flags given and the --phases set, None when
\* the option is absent: the set of jobs, empty when the arguments are refused.
resolve_phases(flags, phases) ==
    IF Cardinality(flags) > 1 \/ (flags # {} /\ phases # None) THEN {}
    ELSE IF flags = {"build_only"} THEN {[mode |-> "phases", phases |-> {"build"}]}
    ELSE IF flags = {"execute_only"} THEN {[mode |-> "phases", phases |-> {"execute", "verify"}]}
    ELSE IF flags = {"build_transfer_verify"}
         THEN {[mode |-> "phases", phases |-> {"build", "transfer", "verify-run", "verify"}]}
    ELSE IF flags # {} THEN {[mode |-> f, phases |-> {"verify"}] : f \in flags}
    ELSE IF phases = None THEN {[mode |-> "phases", phases |-> DEFAULT_PHASES]}
    ELSE IF ~(phases \subseteq VALID_PHASES) \/ {"execute", "verify-run"} \subseteq phases THEN {}
    ELSE {[mode |-> "phases", phases |-> phases]}

Aged(p) == IF p = None THEN None ELSE [p EXCEPT !.origin = "earlier"]

\* The process starts; its first cycle begins.  --pull-repos and
\* --rebuild-repos connect before anything else.  A host that does not resolve
\* into the VirtualBox network is refused, unless allowed, and so are
\* credentials without a needed block: exit code 1, nothing touched.
Launch(j) ==
    /\ job = None
    /\ \/ /\ job' = j
          /\ ppc' = IF j.mode = "phases" THEN "build" ELSE "connect"
          /\ cycle' = 1 /\ built' = FALSE /\ session' = FALSE /\ run_rc' = 0 /\ results' = <<>>
          /\ staged' = Aged(staged) /\ ustage' = Aged(ustage)
          /\ UNCHANGED rc
       \/ /\ rc' = 1
          /\ UNCHANGED <<job, ppc, cycle, built, session, run_rc, results, staged, ustage>>
    /\ UNCHANGED <<power, pristine, smoke, marker, manifest, busy, poller>>

-----------------------------------------------------------------------------
(***************************************************************************)
(* Phases.                                                                 *)
(***************************************************************************)

Goto(l) ==
    /\ ppc' = l
    /\ UNCHANGED <<staged, power, diskVars, job, cycle, built, session, run_rc, results, poller, rc>>

\* An exception: caught by the cycle's handler, fatal to the one-shot modes.
Raised == IF job.mode = "phases" THEN "raised" ELSE "aborted"

AfterBuild == IF job.mode = "phases" THEN "connect" ELSE "transfer"

\* A tree that a build or a copy left unfinished.
Broken == [kind |-> "broken", hash |-> CHOOSE h \in Hashes : TRUE, origin |-> "this"]

Fresh == {p \in Payloads : p.kind = "clean" /\ p.origin = "this"}

BuildOk ==
    /\ staged' \in Fresh
    /\ built' = TRUE /\ ppc' = AfterBuild
    /\ UNCHANGED <<power, diskVars, job, cycle, session, run_rc, results, poller, rc>>

\* Mutant: the exit code of build-mast.ps1 is not looked at.
BuildFailsUnnoticed ==
    /\ staged' \in {staged, Broken} \cup Fresh
    /\ built' = TRUE /\ ppc' = AfterBuild
    /\ UNCHANGED <<power, diskVars, job, cycle, session, run_rc, results, poller, rc>>

\* build-mast.ps1 exits non-zero, before, while or after it rebuilt the tree.
BuildFails ==
    /\ staged' \in {staged, Broken} \cup Fresh
    /\ ppc' = Raised
    /\ UNCHANGED <<power, diskVars, job, cycle, built, session, run_rc, results, poller, rc>>

phase_build ==
    /\ ppc = "build"
    /\ \/ /\ job.mode = "rebuild_repos" \/ ("build" \in job.phases /\ (~built \/ job.rebuild))
          /\ BuildOk \/ BuildFails
       \/ /\ job.mode = "phases" /\ ~("build" \in job.phases /\ (~built \/ job.rebuild))
          /\ Goto("connect")

\* wait_for_ssh, once per process unless a reset replaced the session; with
\* only "build" selected the loop is left instead.
Connect ==
    /\ ppc = "connect"
    /\ \/ job.mode = "phases" /\ job.phases \ {"build"} = {} /\ Goto("exit")
       \/ session /\ Goto("transfer")
       \/ /\ ~session /\ (job.mode # "phases" \/ job.phases \ {"build"} # {})
          /\ \/ /\ power
                /\ session' = TRUE
                /\ ppc' = CASE job.mode = "phases" -> "transfer"
                            [] job.mode = "pull_repos" -> "run"
                            [] job.mode = "rebuild_repos" -> "build"
                /\ UNCHANGED <<staged, power, diskVars, job, cycle, built, run_rc, results, poller, rc>>
             \/ Goto(Raised)

Pulled(p) ==
    /\ ustage' = p /\ pristine' = FALSE
    /\ UNCHANGED <<staged, power, smoke, marker, manifest, busy, job, cycle, built, session,
                   run_rc, results, poller, rc>>

\* The pull script is uploaded in chunks, decoded and run.  Its outcome alone
\* is looked at, and a robocopy that was cut short comes to OK as well as to a
\* failure: a partial run directory, with its commands.json or without, may be
\* taken for the payload, and is the newest on the unit either way.
phase_transfer ==
    /\ ppc = "transfer" /\ ("transfer" \in job.phases \/ job.mode = "rebuild_repos")
    /\ \/ /\ staged # None
          /\ \E p \in {staged, Broken} : Pulled(p)
          /\ ppc' \in {"run", Raised}
       \/ Goto(Raised)

\* No transfer selected: the newest directory on the unit is used; when there
\* is none, sys.exit passes the cycle's handler by.
FindStaging ==
    /\ ppc = "transfer" /\ job.mode = "phases" /\ "transfer" \notin job.phases
    /\ \/ job.phases \cap {"execute", "verify-run"} = {} /\ Goto("run")
       \/ /\ job.phases \cap {"execute", "verify-run"} # {}
          /\ \/ ustage = None /\ Goto("aborted")
             \/ ustage # None /\ Goto("run")
             \/ Goto("raised")

\* phase_execute and phase_run_verify_only start the poller on a session of
\* its own, then the script on the unit.
StartRun ==
    /\ ppc = "run" /\ job.mode = "phases"
    /\ \/ job.phases \cap {"execute", "verify-run"} = {} /\ Goto("verify")
       \/ /\ job.phases \cap {"execute", "verify-run"} # {}
          /\ \/ /\ ppc' = "running" /\ poller' = "tailing"
                /\ UNCHANGED <<staged, power, diskVars, job, cycle, built, session, run_rc, results, rc>>
             \/ Goto("raised")

\* ExecuteLogPoller._run: after an error the session is rebuilt; when that
\* fails it is tried once more, outside the handler, and a second failure ends
\* the thread.
PollerFails ==
    /\ ppc = "running" /\ poller = "tailing"
    /\ poller' = "dead"
    /\ UNCHANGED <<staged, power, diskVars, job, ppc, cycle, built, session, run_rc, results, rc>>

\* What execute-mast-provisioning.ps1 leaves on the disk: the markers of the
\* modules that reported, and, at its end, the manifest: with the payload's
\* hash when every module is covered; a manifest that cannot be written is only
\* a warning.
Provisioned(ok) ==
    /\ smoke' = [m \in Modules |-> IF m \in ok THEN "new" ELSE smoke[m]]
    /\ manifest' \in {manifest, [payload_hash |-> None], [payload_hash |-> ustage.hash]}
    /\ pristine' = FALSE

\* An injected entry is run unless -Modules, which phase_execute passes for
\* fewer than all modules, filters it out with the others not selected.
RunsEntry(kind) == ustage.kind = kind /\ job.modules = Modules

\* The run returned an exit code: that of a script which threw before its first
\* command (a lease still held, no commands.json, a library that did not
\* arrive), or of the commands it went through.  A bomb fails the run; a
\* sporadic bomb fails it once per disk.
ExecuteReturns ==
    /\ ppc = "running" /\ "execute" \in job.phases
    /\ ppc' = "verify" /\ poller' = "off"
    /\ \/ run_rc' = 1 /\ UNCHANGED <<pristine, smoke, manifest, marker>>
       \/ /\ ~busy /\ ustage.kind # "broken"
          /\ \E ok \in SUBSET job.modules : Provisioned(ok)
          /\ marker' = (marker \/ RunsEntry("sporadic"))
          /\ run_rc' \in {0, 1}
          /\ RunsEntry("bomb") \/ (RunsEntry("sporadic") /\ ~marker) => run_rc' = 1
    /\ UNCHANGED <<staged, power, ustage, busy, job, cycle, built, session, results, rc>>

\* run-verify-only.ps1 changes nothing a cycle is judged by.
VerifyRunReturns ==
    /\ ppc = "running" /\ "execute" \notin job.phases
    /\ ppc' = "verify" /\ poller' = "off"
    /\ run_rc' \in {0, 1}
    /\ UNCHANGED <<staged, power, diskVars, job, cycle, built, session, results, rc>>

\* The call raises: timed out, or the connection stayed away.  The script may
\* have got anywhere and may still be running; run-verify-only.ps1 writes
\* nothing that matters here.
RunRaises ==
    /\ ppc = "running"
    /\ ppc' = "raised" /\ poller' = "off"
    /\ \/ /\ "execute" \in job.phases /\ ~busy /\ ustage.kind # "broken"
          /\ \E ok \in SUBSET job.modules : Provisioned(ok)
          /\ marker' \in {marker, marker \/ RunsEntry("sporadic")}
          /\ busy' \in BOOLEAN
       \/ UNCHANGED <<pristine, smoke, marker, manifest, busy>>
    /\ UNCHANGED <<staged, power, ustage, job, cycle, built, session, run_rc, results, rc>>

\* The one-shot modes: phase_clear_unit_logs, phase_pull_repos or
\* phase_run_rebuild_repos, phase_start_mast_unit, phase_wait_for_unit_health.
Repos ==
    /\ ppc = "run" /\ job.mode # "phases"
    /\ pristine' = FALSE
    /\ ppc' \in {"verify", "aborted"}
    /\ UNCHANGED <<staged, power, ustage, smoke, marker, manifest, busy, job, cycle, built,
                   session, run_rc, results, poller, rc>>

\* print_results: every check that phase_verify made.  healthy stands for the
\* python, source-root and unit-API checks; a marker of any age is content.
Passed(healthy) ==
    /\ run_rc = 0
    /\ "verify-run" \in job.phases \/ (healthy /\ \A m \in job.modules : smoke[m] # "absent")

Judged(verdict) ==
    /\ results' = Append(results, verdict) /\ ppc' = "cycled"
    /\ UNCHANGED <<staged, power, diskVars, job, cycle, built, session, run_rc, poller, rc>>

phase_verify ==
    /\ ppc = "verify"
    /\ \/ "verify" \in job.phases /\ \E healthy \in BOOLEAN : Judged(Passed(healthy))
       \/ "verify" \in job.phases /\ Goto(Raised)
       \/ "verify" \notin job.phases /\ Judged(TRUE)

\* Mutant: the handler logs the exception and goes on.
CycleErrorUncounted ==
    /\ ppc = "raised"
    /\ Goto("cycled")

\* The handler of the cycle records the failure.
CycleError ==
    /\ ppc = "raised"
    /\ Judged(FALSE)

-----------------------------------------------------------------------------
(***************************************************************************)
(* Resetting the VM, the next cycle, the end of the process.               *)
(***************************************************************************)

CleanDisk ==
    /\ pristine' = TRUE /\ ustage' = None /\ smoke' = [m \in Modules |-> "absent"]
    /\ marker' = FALSE /\ manifest' = None /\ busy' = FALSE

\* reset_to_clean_snapshot: stop, restore, start, wait for WinRM.  A VM that
\* does not stop in time fails the restore; every failure raises.
ResetVm(ok) ==
    \/ ok /\ power' = TRUE /\ CleanDisk
    \/ /\ ~ok
       /\ power' \in {power, FALSE} /\ busy' = (busy /\ power')
       /\ UNCHANGED <<pristine, ustage, smoke, marker, manifest>>
    \/ ~ok /\ power' \in BOOLEAN /\ CleanDisk

ResetDue == cycle < job.repeat /\ ~job.no_reset /\ "reset" \in job.phases

\* phase_reset sits outside the cycle's handler: its exception ends the process.
phase_reset ==
    /\ ppc = "cycled" /\ job.mode = "phases" /\ ResetDue
    /\ \/ /\ ResetVm(TRUE)
          /\ session' = TRUE /\ cycle' = cycle + 1 /\ ppc' = "build" /\ run_rc' = 0
       \/ /\ ResetVm(FALSE)
          /\ ppc' = "aborted"
          /\ UNCHANGED <<session, cycle, run_rc>>
    /\ UNCHANGED <<staged, job, built, results, poller, rc>>

NextCycle ==
    /\ ppc = "cycled"
    /\ \/ /\ job.mode = "phases" /\ cycle < job.repeat /\ ~ResetDue
          /\ ppc' = "build" /\ cycle' = cycle + 1 /\ run_rc' = 0
       \/ /\ job.mode # "phases" \/ cycle >= job.repeat
          /\ ppc' = "exit"
          /\ UNCHANGED <<cycle, run_rc>>
    /\ UNCHANGED <<staged, power, diskVars, job, built, session, results, poller, rc>>

\* SUMMARY: sys.exit(0 if all cycles passed else 1), reached only with
\* "verify" among the phases; otherwise main returns.
ExitCode ==
    IF "verify" \in job.phases
    THEN IF \A i \in DOMAIN results : results[i] THEN 0 ELSE 1
    ELSE 0

Exit ==
    /\ ppc \in {"exit", "aborted"}
    /\ rc' = IF ppc = "aborted" THEN 1 ELSE ExitCode
    /\ job' = None /\ ppc' = "idle" /\ session' = FALSE
    /\ UNCHANGED <<staged, power, diskVars, cycle, built, run_rc, results, poller>>

\* The abandoned provisioning process ends by itself.
BusyEnds ==
    /\ busy
    /\ busy' = FALSE
    /\ UNCHANGED <<staged, power, pristine, ustage, smoke, marker, manifest, procVars>>

HarnessStep ==
    \/ phase_build \/ Connect \/ phase_transfer \/ FindStaging
    \/ StartRun \/ PollerFails \/ ExecuteReturns \/ VerifyRunReturns \/ RunRaises \/ Repos
    \/ phase_verify \/ CycleError \/ phase_reset \/ NextCycle \/ Exit \/ BusyEnds
=============================================================================
