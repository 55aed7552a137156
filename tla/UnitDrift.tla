------------------------------ MODULE UnitDrift ------------------------------
(***************************************************************************)
(* One unit, seen by the provisioning loop over many cycles: what the      *)
(* repository builds for it, what the unit has recorded in                 *)
(* installed-manifest.json and validation.json, what the driver decides    *)
(* from the two (prov/driver.py phase 5, prov/drift.py) and what execute   *)
(* then runs and records (execute-mast-provisioning.ps1,                   *)
(* mast-installed-manifest.ps1).  The driver decides on what it has read   *)
(* minutes before; an execute it gave up on may merge in between.          *)
(*                                                                         *)
(* Data abstraction.  A build is a record [modules, hash, extra]: the      *)
(* module list, the per-module content hashes, and `extra`, the payload    *)
(* bytes outside every per-module boundary (client scripts, vendored       *)
(* assets).  The aggregate payload_hash covers all of it, so it is the     *)
(* build record itself.  Timestamps are compared in one place only         *)
(* (_validation_is_stale), so they are kept as the set `stale` of modules  *)
(* whose installed_at is later than the report's checked_at.               *)
(***************************************************************************)
EXTENDS Integers, Sequences, FiniteSets

CONSTANTS
  Modules,          \* names of provider modules
  AlwaysModules,    \* those declaring "always": true in module.json
  Hashes,           \* per-module content hashes
  Extras,           \* contents of the payload outside the module boundary
  Builds,           \* the builds the repository goes through
  NoPayload,        \* absent payload_hash; no execute planned or running
  Commands,         \* commands.json: sequence of [module, kind], in order
  MaxDisturbances   \* bound: faults, operator runs and repository changes

BuildType == [modules : SUBSET Modules, hash : [Modules -> Hashes], extra : Extras]

Kinds == {"provide", "verify"}

ASSUME ConstantsAssumption ==
  /\ AlwaysModules \subseteq Modules
  /\ Builds \subseteq BuildType
  /\ \A b \in Builds : b.modules # {}
  /\ NoPayload \notin BuildType
  /\ Commands \in Seq([module : Modules, kind : Kinds])
  /\ MaxDisturbances \in Nat

\* Every module.json has a "command", so every module has a provide command.
ASSUME ProvideAssumption ==
  \A m \in Modules : \E i \in 1..Len(Commands) :
                        Commands[i].module = m /\ Commands[i].kind = "provide"

VARIABLES
  build,         \* what the repository would build for this unit now
  recorded,      \* installed-manifest.json: modules with an entry
  entry,         \* their entries: [hash, provide, verify]
  payload_hash,  \* installed-manifest.json: the aggregate, or NoPayload
  failing,       \* validation.json: modules reported 'fail'
  stale,         \* modules with installed_at > checked_at
  cycle,         \* where the driver's cycle is
  seen,          \* the manifest and the report as that cycle read them
  plan,          \* the payload and targets it is about to execute
  running,       \* an execute is in progress
  payload,       \* the build that execute runs, or NoPayload
  targets,       \* the modules it runs
  todo,          \* indices of its commands not yet run
  outcome,       \* $moduleOutcomes
  applied,       \* history: last payload whose commands ran on each module
  unrecorded,    \* history: modules a run touched without recording it
  unseen,        \* history: modules a run touched that the manifest the
                 \*          driver read does not know of
  decision,      \* history: what the last step decided
  disturbances   \* history: disturbances so far

manifestVars == <<recorded, entry, payload_hash>>
reportVars   == <<failing, stale>>
cycleVars    == <<cycle, seen, plan>>
runVars      == <<running, payload, targets, todo, outcome>>
vars == <<build, manifestVars, reportVars, cycleVars, runVars, applied,
          unrecorded, unseen, decision, disturbances>>

Indices == 1..Len(Commands)
CommandsOf(m) == {i \in Indices : Commands[i].module = m}
CommandsOfKind(m, k) == {i \in CommandsOf(m) : Commands[i].kind = k}

Outcomes  == {"pass", "fail", "none", "skipped"}
Entry     == [hash : Hashes, provide : Outcomes, verify : Outcomes]
Decisions == {"none", "already_current", "no_requested_module_drift", "run"}
Cycles    == {"idle", "reading", "deciding", "launching", "polling"}

\* Modules of the current run at least one of whose commands has run.
Started == {m \in targets : ~(CommandsOf(m) \subseteq todo)}

-----------------------------------------------------------------------------
(* prov/drift.py: classify, DriftReport.targets                            *)

\* Neither outcome is 'fail' or 'skipped'.
Clean(e) == /\ e.provide \notin {"fail", "skipped"}
            /\ e.verify \notin {"fail", "skipped"}

LiveFailNoStaleCheck(m) == m \in seen.failing

\* _validation_is_stale, applied to the report's 'fail' verdict.
LiveFail(m) == m \in seen.failing /\ m \notin seen.stale

Classify(m) ==
  IF m \notin seen.recorded THEN "missing"
  ELSE IF ~Clean(seen.entry[m]) \/ seen.entry[m].hash # build.hash[m] THEN "needs-update"
  ELSE IF LiveFail(m) THEN "needs-repair"
  ELSE "up-to-date"

Drifted == {m \in build.modules : Classify(m) # "up-to-date"}

ReportTargets ==
  IF Drifted = {} THEN {} ELSE Drifted \cup (AlwaysModules \cap build.modules)

(* prov/driver.py: _filter_targets, the phase 5 decision                   *)

\* --modules restricts what executes; the always-modules close out the run.
FilterTargets(ts, named) ==
  LET real == (IF ts = {} THEN build.modules ELSE ts) \cap named
  IN  IF real = {} THEN {} ELSE real \cup AlwaysModules

HashGateFirst(force) == ~force /\ seen.payload_hash = build

\* The unit is skipped only if no module drifted and the aggregate matches.
AlreadyCurrent(force) == ~force /\ Drifted = {} /\ seen.payload_hash = build

\* target_modules after --force and --modules; named = {} is no --modules.
\* {} means "everything" unless --modules made it so.
TargetModules(force, named) ==
  LET ts == IF force THEN {} ELSE ReportTargets
  IN  IF named = {} THEN ts ELSE FilterTargets(ts, named)

\* The modules whose commands the execute will run.
ExecutedModules(force, named) ==
  LET ts == TargetModules(force, named)
  IN  IF ts = {} THEN build.modules ELSE ts \cap build.modules

-----------------------------------------------------------------------------
(* client/mast-installed-manifest.ps1                                      *)

\* New-MastModuleOutcomeMap: a declared command is 'skipped' until it runs.
OutcomeMap(ms) ==
  [m \in Modules |-> [k \in Kinds |->
     IF m \in ms /\ CommandsOfKind(m, k) # {} THEN "skipped" ELSE "none"]]

LastOutcomeCode(old, ok) == IF ok THEN "pass" ELSE "exit_1"

LastOutcome(old, ok) == IF ok THEN "pass" ELSE "fail"

\* Add-MastModuleOutcome: a failure is never overwritten by a later pass.
AddOutcome(old, ok) ==
  IF ~ok THEN "fail" ELSE IF old # "fail" THEN "pass" ELSE old

MergedEntryAllHashes ==
  [m \in Modules |->
     IF m \in targets
     THEN [hash |-> payload.hash[m], provide |-> outcome[m]["provide"],
           verify |-> outcome[m]["verify"]]
     ELSE [entry[m] EXCEPT !.hash = payload.hash[m]]]

\* Merge-MastInstalledManifest, steps 1 and 2: entries of modules this run
\* did not touch are carried forward.  The keys of the outcome map are the
\* targets, since every module has a command.
MergedEntry ==
  [m \in Modules |->
     IF m \in targets
     THEN [hash |-> payload.hash[m], provide |-> outcome[m]["provide"],
           verify |-> outcome[m]["verify"]]
     ELSE entry[m]]

\* Step 3: fully_provisioned, judged against the build's module list.
Fully(rec, ent) ==
  /\ payload.modules # {}
  /\ \A m \in payload.modules :
        /\ m \in rec
        /\ ent[m].hash = payload.hash[m]
        /\ ent[m].provide = "pass"
        /\ ent[m].verify \notin {"fail", "skipped"}

-----------------------------------------------------------------------------
SeenType == [recorded : SUBSET Modules, entry : [Modules -> Entry],
             payload_hash : Builds \cup {NoPayload},
             failing : SUBSET Modules, stale : SUBSET Modules]

PlanType == [payload : Builds \cup {NoPayload}, targets : SUBSET Modules]

TypeOK ==
  /\ build \in Builds
  /\ recorded \in SUBSET Modules
  /\ entry \in [Modules -> Entry]
  /\ payload_hash \in Builds \cup {NoPayload}
  /\ failing \in SUBSET Modules
  /\ stale \in SUBSET Modules
  /\ cycle \in Cycles
  /\ seen \in SeenType
  /\ plan \in PlanType
  /\ running \in BOOLEAN
  /\ payload \in Builds \cup {NoPayload}
  /\ targets \in SUBSET Modules
  /\ todo \in SUBSET Indices
  /\ outcome \in [Modules -> [Kinds -> Outcomes]]
  /\ applied \in [Modules -> [hash : Hashes, extra : Extras, ok : BOOLEAN]]
  /\ unrecorded \in SUBSET Modules
  /\ unseen \in SUBSET Modules
  /\ decision \in Decisions
  /\ disturbances \in 0..MaxDisturbances

NoEntry == [hash |-> CHOOSE h \in Hashes : TRUE, provide |-> "none", verify |-> "none"]
Unread  == [recorded |-> {}, entry |-> [m \in Modules |-> NoEntry],
            payload_hash |-> NoPayload, failing |-> {}, stale |-> {}]
NoPlan  == [payload |-> NoPayload, targets |-> {}]

\* A unit that has never been provisioned: no manifest, no verify report.
Init ==
  /\ build \in Builds
  /\ recorded = {}
  /\ entry = [m \in Modules |-> NoEntry]
  /\ payload_hash = NoPayload
  /\ failing = {} /\ stale = {}
  /\ cycle = "idle" /\ seen = Unread /\ plan = NoPlan
  /\ running = FALSE
  /\ payload = NoPayload
  /\ targets = {} /\ todo = {}
  /\ outcome = OutcomeMap({})
  /\ applied = [m \in Modules |-> [hash |-> build.hash[m], extra |-> build.extra,
                                   ok |-> FALSE]]
  /\ unrecorded = {} /\ unseen = {}
  /\ decision = "none"
  /\ disturbances = 0

Disturb == /\ disturbances < MaxDisturbances
           /\ disturbances' = disturbances + 1

Undisturbed == UNCHANGED disturbances

\* The execute process is gone, and its in-memory state with it.
EndRun == /\ running' = FALSE
          /\ payload' = NoPayload
          /\ targets' = {}
          /\ todo' = {}
          /\ outcome' = OutcomeMap({})

-----------------------------------------------------------------------------
(* The driver: _process_unit                                               *)

\* The cycle is over; what it had read and planned is gone.
EndCycle == cycle' = "idle" /\ seen' = Unread /\ plan' = NoPlan /\ unseen' = {}

\* The installed manifest is read.  Commands a run has carried out by now
\* without having written its record are unseen.
ReadManifest ==
  /\ cycle = "idle"
  /\ cycle' = "reading"
  /\ seen' = [recorded |-> recorded, entry |-> entry, payload_hash |-> payload_hash,
              failing |-> {}, stale |-> stale]
  /\ unseen' = unrecorded \cup (IF running THEN Started ELSE {})
  /\ decision' = "none"
  /\ Undisturbed
  /\ UNCHANGED <<build, manifestVars, reportVars, plan, runVars, applied, unrecorded>>

\* The verify report is read, by a remote command of its own.
ReadReport ==
  /\ cycle = "reading"
  /\ cycle' = "deciding"
  /\ seen' = [seen EXCEPT !.failing = failing]
  /\ decision' = "none"
  /\ Undisturbed
  /\ UNCHANGED <<build, manifestVars, reportVars, plan, runVars, applied, unrecorded, unseen>>

\* Phase 4, the build, and phase 5, the decision: from the build of this moment
\* and the record read before it, whatever the unit holds by now.
Decide(force, named) ==
  /\ cycle = "deciding"
  /\ \/ /\ AlreadyCurrent(force)
        /\ decision' = "already_current"
        /\ EndCycle
     \/ /\ ~AlreadyCurrent(force)
        /\ named # {} /\ TargetModules(force, named) = {}
        /\ decision' = "no_requested_module_drift"
        /\ EndCycle
     \/ /\ ~AlreadyCurrent(force)
        /\ named = {} \/ TargetModules(force, named) # {}
        /\ decision' = "run"
        /\ cycle' = "launching" /\ seen' = Unread /\ unseen' = {}
        /\ plan' = [payload |-> build, targets |-> ExecutedModules(force, named)]
  /\ UNCHANGED <<build, manifestVars, reportVars, runVars, applied, unrecorded>>

\* A cycle of the autonomous loop: neither --force nor --modules.
LoopDecides == Decide(FALSE, {}) /\ Undisturbed

\* The cycle is one that an operator runs by hand.
OperatorDecides == /\ \E force \in BOOLEAN, named \in SUBSET Modules :
                         (force \/ named # {}) /\ Decide(force, named)
                   /\ Disturb

\* Transfer and execute, with the target list of phase 5.
Launch ==
  /\ cycle = "launching" /\ ~running
  /\ running' = TRUE
  /\ payload' = plan.payload
  /\ targets' = plan.targets
  /\ todo' = {i \in Indices : Commands[i].module \in plan.targets}
  /\ outcome' = OutcomeMap(plan.targets)
  /\ cycle' = "polling" /\ plan' = NoPlan
  /\ decision' = "none"
  /\ Undisturbed
  /\ UNCHANGED <<build, manifestVars, reportVars, seen, applied, unrecorded, unseen>>

\* The execute of an earlier cycle still works and holds the lease: exit 10.
LaunchRefused ==
  /\ cycle = "launching" /\ running
  /\ EndCycle
  /\ decision' = "none"
  /\ Undisturbed
  /\ UNCHANGED <<build, manifestVars, reportVars, runVars, applied, unrecorded>>

\* The poll loop sees the result, or its deadline passes after the execute died.
PollEnds ==
  /\ cycle = "polling" /\ ~running
  /\ EndCycle
  /\ decision' = "none"
  /\ Undisturbed
  /\ UNCHANGED <<build, manifestVars, reportVars, runVars, applied, unrecorded>>

\* The cycle ends without its execute: a phase fails, the session or the driver
\* is lost, the poll deadline passes.  A launched execute goes on without it.
GiveUp ==
  /\ cycle # "idle"
  /\ EndCycle
  /\ decision' = "none"
  /\ Disturb
  /\ UNCHANGED <<build, manifestVars, reportVars, runVars, applied, unrecorded>>

-----------------------------------------------------------------------------
(* The execute                                                             *)

\* One iteration of execute's command loop.  Exit code 0 and, for a verify,
\* exit code 2 count as success; any other code, a missing code or an
\* exception as failure.
RunCommand(i, ok) ==
  LET m == Commands[i].module
      k == Commands[i].kind
  IN  /\ running
      /\ i \in todo /\ \A j \in todo : i <= j
      /\ todo' = todo \ {i}
      /\ outcome' = [outcome EXCEPT ![m][k] = AddOutcome(@, ok)]
      /\ applied' = [applied EXCEPT ![m] =
                       [hash  |-> payload.hash[m],
                        extra |-> payload.extra,
                        ok    |-> ok /\ (CommandsOf(m) \subseteq todo \/ @.ok)]]
      /\ unseen' = IF cycle \in {"reading", "deciding"} THEN unseen \cup {m} ELSE unseen
      /\ decision' = "none"
      /\ UNCHANGED <<build, manifestVars, reportVars, cycleVars, running, payload, targets,
                     unrecorded>>

CommandSucceeds == Undisturbed /\ \E i \in Indices : RunCommand(i, TRUE)
CommandFails    == Disturb /\ \E i \in Indices : RunCommand(i, FALSE)

KeepPublishedHash ==
  /\ running /\ todo = {}
  /\ recorded' = recorded \cup targets
  /\ entry' = MergedEntry
  /\ payload_hash' = IF Fully(recorded', MergedEntry) THEN payload ELSE payload_hash
  /\ stale' = stale \cup targets
  /\ EndRun
  /\ unrecorded' = unrecorded \ targets
  /\ decision' = "none"
  /\ Undisturbed
  /\ UNCHANGED <<build, failing, cycleVars, applied, unseen>>

\* The end of execute: merge, write the manifest, publish the aggregate hash
\* only for a fully provisioned unit.
WriteManifest ==
  /\ running /\ todo = {}
  /\ recorded' = recorded \cup targets
  /\ entry' = MergedEntry
  /\ payload_hash' = IF Fully(recorded', MergedEntry) THEN payload ELSE NoPayload
  /\ stale' = stale \cup targets
  /\ EndRun
  /\ unrecorded' = unrecorded \ targets
  /\ decision' = "none"
  /\ Undisturbed
  /\ UNCHANGED <<build, failing, cycleVars, applied, unseen>>

\* The run ends without a record: the process died, it threw before the merge,
\* or writing the file failed (only a warning in execute).
RunLost ==
  /\ running
  /\ EndRun
  /\ unrecorded' = unrecorded \cup Started
  /\ decision' = "none"
  /\ Disturb
  /\ UNCHANGED <<build, manifestVars, reportVars, cycleVars, applied, unseen>>

-----------------------------------------------------------------------------
(* Disturbances                                                            *)

\* run-verify-only.ps1, run by an operator at any time, even during a run: it
\* replaces the whole report, also when -Modules made it look at fewer.  Its
\* checked_at is later than any entry the driver has read already.
VerifyOnly ==
  /\ failing' \in SUBSET {m \in Modules : CommandsOfKind(m, "verify") # {}}
  /\ stale' = {}
  /\ seen' = IF cycle = "reading" THEN [seen EXCEPT !.stale = {}] ELSE seen
  /\ decision' = "none"
  /\ Disturb
  /\ UNCHANGED <<build, manifestVars, cycle, plan, runVars, applied, unrecorded, unseen>>

\* installed-manifest.json is unreadable: driver and execute treat it as absent.
ManifestUnreadable ==
  /\ recorded # {}
  /\ recorded' = {}
  /\ payload_hash' = NoPayload
  /\ decision' = "none"
  /\ Disturb
  /\ UNCHANGED <<build, entry, reportVars, cycleVars, runVars, applied, unrecorded, unseen>>

\* A commit, a registry edit or a re-seeded asset changes what is built.
RepositoryChanges ==
  /\ \E b \in Builds \ {build} : build' = b
  /\ decision' = "none"
  /\ Disturb
  /\ UNCHANGED <<manifestVars, reportVars, cycleVars, runVars, applied, unrecorded, unseen>>

Next ==
  \/ ReadManifest
  \/ ReadReport
  \/ LoopDecides
  \/ OperatorDecides
  \/ Launch
  \/ LaunchRefused
  \/ PollEnds
  \/ GiveUp
  \/ CommandSucceeds
  \/ CommandFails
  \/ WriteManifest
  \/ RunLost
  \/ VerifyOnly
  \/ ManifestUnreadable
  \/ RepositoryChanges

Spec == Init /\ [][Next]_vars

\* The loop service keeps cycling and a started execute keeps going; faults,
\* operators and commits are bounded by MaxDisturbances.
Fairness == /\ WF_vars(ReadManifest) /\ WF_vars(ReadReport)
            /\ WF_vars(LoopDecides)
            /\ WF_vars(Launch) /\ WF_vars(LaunchRefused) /\ WF_vars(PollEnds)
            /\ WF_vars(CommandSucceeds)
            /\ WF_vars(WriteManifest)

FairSpec == Spec /\ Fairness

-----------------------------------------------------------------------------
(* Properties                                                              *)

\* A published aggregate hash is backed by the entries beside it: every
\* module of that payload is recorded clean at that payload's hash, however
\* many partial runs were merged since (mast-installed-manifest.ps1).
PublishedSound ==
  payload_hash # NoPayload =>
    \A m \in payload_hash.modules :
       /\ m \in recorded
       /\ entry[m].hash = payload_hash.hash[m]
       /\ Clean(entry[m])

\* A clean entry tells the truth: the last commands run for the module all
\* succeeded, from the recorded hash.  Excepted are modules of a run that is
\* under way or that ended without writing its record.
RecordTruthful ==
  \A m \in recorded \ (unrecorded \cup (IF running THEN Started ELSE {})) :
     Clean(entry[m]) => applied[m].ok /\ applied[m].hash = entry[m].hash

\* 'skipped' never reaches the manifest: execute writes it only after every
\* command of the run was run and recorded.
SkippedNeverRecorded ==
  \A m \in recorded : entry[m].provide # "skipped" /\ entry[m].verify # "skipped"

\* What an already_current skip relies on is true at the moment of the skip, on
\* the machine and not only in the record read before the build: every module
\* was last run successfully from the built hash.  The one exception are modules
\* touched behind the read record's back, by a run that had not written its
\* record yet, never wrote it, or worked between read and decision.
SkipSound ==
  [][decision' = "already_current" =>
       \A m \in build.modules \ unseen :
          applied[m].ok /\ applied[m].hash = build.hash[m]]_vars

\* Whatever a run was started for, it also runs the always-modules of the
\* payload: stand-down, finalize and the reboot check (driver.py
\* _filter_targets, drift.py targets).
RunsCloseOut ==
  /\ running => AlwaysModules \cap payload.modules \subseteq targets
  /\ cycle = "launching" => AlwaysModules \cap plan.payload.modules \subseteq plan.targets

\* Once the disturbances are over the loop stops finding work: record,
\* report and build agree, and every further cycle skips the unit.
Converges == <>[](payload_hash = build /\ decision # "run")

\* A live verify failure of a shipped module is acted on: the module is
\* reinstalled, or the report or the build is replaced.
RepairHappens ==
  \A m \in Modules :
    (m \in build.modules /\ m \in failing /\ m \notin stale) ~>
      ~(m \in build.modules /\ m \in failing /\ m \notin stale)

(* What a comment of the code says, and the code does not do.              *)

\* "a partial run cannot make the fast path report 'nothing to do'": no unit is
\* skipped as already_current, with no execute under way, while a module of the
\* build was last run without success or from another payload's hash
\* (execute-mast-provisioning.ps1:359-362).
PartialRunNotSkipped ==
  decision = "already_current" /\ ~running =>
    \A m \in build.modules : applied[m].ok /\ applied[m].hash = build.hash[m]

=============================================================================
