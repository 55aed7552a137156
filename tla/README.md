# Verification of MAST_provisioning

TLA+ models of the MAST provisioning system, checked with TLC on small instances
and, their safety properties, proved with TLAPS for all instances that meet the
hypotheses of section 4. The reference is the
code under `src/`; `PROJECT.json` maps every modelling definition to the lines it
stands for, and lists runs, mutants, hazards, findings and theorems.

    tlc -workers 2 -config UnitDrift.cfg MCUnitDrift     # any run of PROJECT.json
    tlapm UnitDriftProofs.tla                            # any module *Proofs

## 1. The system

A provisioning server keeps a fleet of Windows units (telescope computers) at the
software stack its repository describes. Nothing is installed by hand: a loop
builds a payload per unit, decides from records whether the unit needs it, brings
it onto the unit and runs it there, detached from the connection.

| Component | State it keeps | Operations |
|---|---|---|
| Run loop and run (`driver.run_loop`, `Driver.run`, `_finish`, `retention.py`, `maintenance_window.py`, `registry.py`) | stop event, `unit-registry.json`, `last-run.json`, session directories, exit code | start, preflight, walk the units, record outcomes, write back a MAC, summarise, prune, stop, be restarted |
| Cycle of a unit (`Driver._process_unit`) | run id, phase, `lease_held`, the unit's `availability.json` | reach, stand down, build, decide, gate, sync, mark, transfer, execute, poll, smoke, release |
| Drift (`drift.py`, `mast-installed-manifest.ps1`, `run-verify-only.ps1`) | `installed-manifest.json`, `validation.json` | classify, target, run the commands, merge the record, publish the aggregate hash, verify |
| Detached execute (`mast-run-detached.ps1`, `execute-mast-provisioning.ps1`) | `execute-lease.json`, `execute-result.json`, the launch configuration | register, launch, check the lease, take over, work, release, report |
| Staging pull (`mast-pull-staging.ps1`) | staging directories of the unit | clean up, copy, measure |
| Relay (`relay.py`, `tools/blobstore.py`, `blobstore-fsck.sh`, `fetch-assets.sh`) | blobs, host trees and snapshots that are hard links into them | want, upload, assemble, prune, snapshot, gc, fsck, repair, seed |
| Transport (`transport.py`) | a session and its connection, the caller's watchdog, the worker's deadline, the WinRM failure window | connect, upload, run a command, reconnect and re-run, receive, time out, dispose |
| VM test harness (`vm/run-prov-test.py`, `vm/test-suite.py`, `vm/vm_lib.py`) | staged payload, snapshot and disk of the VM, results per cycle, outcomes per scenario | the phases of a cycle, repeat and reset, scenarios of sub-runs, injected failures, verdicts |
| Build (`build/*.ps1`) | staging tree, `build-manifest.json`, `payload-manifest.json` | stage, hash |
| Providers (`server/providers/*`) | Windows configuration | provide, verify |
| Bootstrap and onboarding, clone tool, fleet report, server setup | | |

**Interaction.** Server and unit share files on the unit, reached over SSH or
WinRM: the driver reads records and results, writes availability and launch
configuration, and starts a process that then lives on its own. Drivers share
the server's files with each other: nothing keeps an operator from running
`check_and_provision.py` beside the service. The relay is reached over ssh, one
short process per command. The VM harness is a second client of the same unit-side
scripts: it stages, pulls and executes like the driver, on a VirtualBox unit it
resets from a snapshot, and its scenario suite starts it as a child process and
reads exit codes.

**What is hard.** The execute outlives its driver, so every file of the unit may
change behind a driver's back. Connections break after a command was sent and
before it was answered. Drivers are killed (`TimeoutStopSec=600` is shorter than a
cycle). Records are merged from partial runs. Leases expire by the clock while
the work goes on. The relay's store is changed by several jobs without a lock.
A remote call has two threads, and the one that talks to the unit cannot be
killed: it outlives a timeout and acts on a session its caller has closed. A test
harness may pass on what an earlier run left on the disk.

**What makes it correct.** A skip leaves no work behind; a published hash is
backed by what was run; at most one execute works on a unit; only a complete
payload is executed; a unit is given back; every cycle ends and updates arrive; a
sync that reports success is served; snapshots are whole and never change; a
summary is complete and honest; the loop survives any cycle and obeys a stop; a
remote call ends, returns one process's own output, and starts a command again
only when a connection or a channel failed under it; the harness reports as passed
only what it built, ran and saw itself. The code does not keep all of this without
exception. Where it does not, the property names the exception, and what remains
of it is what the code does guarantee; section 6 lists the exceptions.

## 2. Modules

| Module | Models | State and actions against the code |
|---|---|---|
| `UnitDrift` | what the repository builds, what the unit records, what the driver decides and what execute then runs and records | `build` and `payload` are build manifests, `recorded`, `entry` and `payload_hash` the installed manifest, `failing` and `stale` the validation report, `todo` and `outcome` the command loop. A cycle reads the manifest (`ReadManifest`), then the report (`ReadReport`) into `seen`, and decides later from the build of that moment (`Decide`: phases 4 and 5); `Launch` starts what it put into `plan`, `GiveUp` leaves it running. An execute left over from an earlier cycle may work or write its record between any two of these. `RunCommand` is one command of execute, `WriteManifest` the merge at its end |
| `UnitDriftProofs` | proofs for `UnitDrift` | |
| `Provisioning` | the cycle of one unit: drivers, execute processes, availability, lease, result and staging | `drv[d].pc` is the phase of a driver, `proc[p].pc` that of an execute process; each action is a phase or a remote command with its failures; `cfg` is the launch configuration that `-Register` overwrites. A file's read and its later write are two steps: `CheckLease` and `AcquireLease`, `ReleaseLease` (read, compare) and `RemoveLease`, `SetUnavailable` (the file) and `TakeLease` (the flag), `SetAvailable` and `DropLease`. `LeaseExpires` takes a lease also from a process that works |
| `ProvisioningProofs` | proofs for `Provisioning` | |
| `Blobstore` | the relay's store, the syncs and the jobs beside them | an inode is `<<digest, copy>>`, a name is a link; loops over files are one step per file; each remote command is a process that may be broken off; gc's look at a link count and its unlink are two steps, with syncs in between; a shipped script is truncated before it is whole |
| `BlobstoreProofs` | proofs for `Blobstore` | |
| `FleetRun` | the loop, the walk over the registry, MAC write-back, summary, retention, window | `pc[p]` for the service and for an operator's run; `write_status_atomic` is two steps through one shared temporary name |
| `FleetRunProofs` | proofs for `FleetRun` | |
| `Transport` | one remote call: `connect_unit`, `upload_file`, `run_ps` with `_run_with_heartbeat`, `_resilient_run_ps`, the two receive loops, dispose | `pc` is the caller's thread with its timer `hleft`, `worker` the daemon thread with its timer `wleft`; `link` is the paramiko transport, `proc` the process of the current channel, `out`, `buf`, `got` its output on the unit, on the way and read, `status` what the channel says of the exit. The status may overtake output, and a channel may close without one (`-1`); `open_session` and `exec_command` may fail on a live connection or wait for an answer; uploads and `put_file` may wait for ever. `broken` and `starts` are history |
| `TransportProofs` | proofs for `Transport` | |
| `VmHarness` | one process of `run-prov-test.py` | `ppc` is the phase of the cycle, `job` the resolved arguments with the `-Modules` selection, `staged`, `ustage`, `smoke`, `marker` and `manifest` the files on the host and on the VM's disk; each phase is an action with its failures. A transfer that reports OK may have copied a part, and execute runs what arrived |
| `VmSuite` | `test-suite.py`, composed with `VmHarness` | a scenario is a script of sub-runs, injections and reads of the manifest; `SubRun` launches a harness process, with the suite's `--modules` (`selected`), and `SubRunEnds` takes its exit code; before the suite a developer may run the harness by hand |
| `VmSuiteProofs` | proofs for `VmHarness` and `VmSuite` | |
| `MC*` | the instances | |

A unit's whole inner life appears in `FleetRun` as the outcome `_process_unit`
recorded; `Provisioning` takes the decision of phase 5 as "the unit is current or
not", which `UnitDrift` opens up in turn.

**Abstractions.** Hashes are compared for equality only, so content is a small
value and the aggregate hash is the build itself. Time is a set of events: a
lease is fresh until it expires, a deadline may pass while a driver polls; only
their order is kept (the poll deadline of 3600 s comes before the lease's 7200 s,
so a lease does not expire under the driver that waits for it). Log
text, formats and the PowerShell quoting are left out. `Provisioning` reuses run
ids nothing refers to any more, which makes cycles unbounded in a finite model.

## 3. Runs

| Run | Question | Bounds |
|---|---|---|
| `drift` | `TypeOK`, `PublishedSound`, `RecordTruthful`, `SkipSound`, `Converges`, `RepairHappens`: do record, decision and merge stay sound over any mixture of partial, failed, lost, abandoned, forced and operator runs, and does the loop come to rest? | 2 ordinary modules and an always-module, 2 hashes, 2 values outside the modules, 3 disturbances: enough for a failure, an operator run and a revert between two merges |
| `prov_cycle` | `TypeOK`, `WorkerHoldsLease`, `OnlyCompleteIsExecuted`, `ReleasedOnEveryExit`, `TakeoverKeepsLease`, `CycleEnds`, `UpdateApplied`: one driver, with crashes, lost sessions, reboots, short copies, commands sent twice and executes that outlive their lease | 4 runs, 2 processes, 2 faults: a lost execute, the one that takes over, and a third cycle that meets both |
| `blobstore` | `TypeOK`, `OkMeansServed`, `SnapshotComplete`, `LinkedTrees`, `SnapshotImmutable`, `RefusedForCause`: syncs broken off anywhere, with gc, seed, rot, repair, cache fetches and the fsck job at any point inside them | 1 client, 1 host, 3 paths, 2 digests, 4 builds (one changes and drops a path, two name one baseline), 3 inodes per digest (symmetric), 2 faults: one to make a blob vanish under a sync and one to break the sync off |
| `fleet_run` | `TypeOK`, `CompleteSummary`, `HonestSummary`, `KeepsNewest`, `EditsSurvive`, `WindowGates`, `StopHonoured`, `ServiceStaysUp`: the service and an operator's run on one registry, status file and log tree | 3 hosts (one excluded, run by name), 2 runs, `Retain = 1` so that one driver can prune another's directory, 1 kill, 1 edit; one outcome of each class: put off, failed before and behind the gate |
| `transport` | `TypeOK`, `ResultIsOwn`, `RerunOwedToDrop`, `CallEnds`, `SshWorkerEnds`: a call against a unit whose listeners flap, whose connection goes silent, whose channels fail, and whose command writes, exits or hangs as it likes | timers of 1 tick, 2 for a call, so that caller and worker time out in either order; one reconnect (the code has two: a second repeats the first), one chunk of output, one accepted spelling of the user |
| `vm_suite` | `TypeOK`, `CleanBuildExecuted`, `EveryCycleCounted`, `SuiteHonest`, `FreshVerdict`, `RecoveryWasReal`: processes by hand, then the suite for all modules or for a selection, with failing builds, transfers that fail or copy a part, failing executes, resets and connections | 2 processes by hand with up to 2 cycles, enough to leave a disk and a staging tree in any condition; 2 modules, 2 hashes, one selection; all four implemented scenarios and a stub |
| `drift_half_changed`, `prov_slot`, `prov_stuck_unavailable`, `prov_foreign_result`, `transport_hung`, `vm_reset` | each ends in a violation: a statement of the repository that the code does not keep | section 6 |

Every property of a passing run has a mutant in `PROJECT.json`, a definition changed
as a plausible bug would change it, under which TLC finds the property violated.

Assumptions of the models and of single properties:

- `PromptStart`: a launched execute has settled its lease (taken it, or been
  refused) before the cleanup of a later cycle and before the deadline of the poll
  that waits for it. The launch takes seconds; the next cycle builds for minutes
  before it cleans up, and the poll deadline is 3600 s. It is used in `PullCleanup`
  and `PollTimeout` only. It does not keep the launches of two drivers apart:
  `prov_slot` has it too, and two executes still work at once.
- `OverlapsStop` (in `UpdateApplied`): cycles eventually stop pulling while an
  earlier execute works. Without it a cycle whose start deletes the staging of
  the running execute can repeat for ever.
- `crossed = {}` (in `OkMeansServed`, `SnapshotComplete`, `LinkedTrees`,
  `RefusedForCause`): nothing is claimed once a client has begun a sync inside
  another's. The run has one client, so there it always holds.

`CHECK_DEADLOCK FALSE` appears where the program really stops: in `FleetRun` after
a stop signal, and in `VmSuite` when the suite has returned its exit code.

**Exceptions are histories.** Several properties except a state the code really
gets into. They do it through history variables that record the event and nothing
else, so that the exception covers that event only:

| Property | Exception | History |
|---|---|---|
| `SkipSound` | a module that a run touched behind the record that was read | `unseen` |
| `RecordTruthful` | a module of a run under way, or ended without its record | `unrecorded` |
| `WorkerHoldsLease` | the lease expired, was written or removed by a process that had read it earlier, or removed by a second process of the same run | `overtaken` |
| `TakeoverKeepsLease` | the lease was written after the process looked at it | `late` |
| `ReleasedOnEveryExit` | the cycle broke off between writing `availability.json` and noting that it holds the unit | `orphaned` |
| `OkMeansServed` | the final command met a truncated script | `torn` |
| `LinkedTrees` | an inode linked after gc looked at it and before gc unlinked its name | `raced` |
| `RefusedForCause` | the causes: other content under the id, a truncated script, a blob taken by gc, a link cut off by gc's race | `torn`, `robbed`, `raced` |

**Fairness.** A driver goes on because a remote phase has a watchdog or a failure
that ends it, and the poll loop a deadline; a lease expires because clocks run. That
an execute process
ends, or dies, is an assumption: nothing in the code bounds a command's run time,
and an installer that hangs for ever is outside `UpdateApplied` (`CycleEnds` needs
only that a launched execute reaches its lease check: the driver's own deadline
then ends the cycle). In `UnitDrift` weak fairness is on the steps of the loop's
own cycle, on commands that succeed while nothing disturbs them, and on the
manifest write: once disturbances are over, a module's commands are assumed to
succeed. In `FleetRun` it is on the service's steps and on its loop with
systemd's restart; an operator's run has none. In `Transport` fairness is given only
where the code watches: to the caller from the start of the watched call on, to the
worker except inside `open_session` and `exec_command` on a connection that is up,
to the keepalive and to the clock. Nothing is assumed of the unit: a command may
never exit, a listener may flap for ever, an exec request may stay unanswered.
Connecting and uploading have no fairness and nothing is claimed of their end:
`put_file` has no timeout, and the chunks of an upload over WinRM are `run_ps`
calls without a watchdog (`transport.py:1219`) into a receive loop without an end.
In `Provisioning` this shows as a driver whose phases end: it takes such an upload
to end or to fail. `VmSuite` states no liveness.

## 4. Proofs

`UnitDriftProofs` proves `TypeOK`, `PublishedSound`, `RecordTruthful`,
`SkippedNeverRecorded`, `SkipSound` and `RunsCloseOut` (the last and
`SkippedNeverRecorded` have no run: the proof says more) for all modules, builds and
command lists, under `UnitDrift`'s assumptions on its constants. None is inductive
alone: what `WriteManifest` records is right only because of what the outcome
table says in the middle of a run. The invariant `IInv` joins them with three parts.
`RunInv`: while an execute runs, its payload is a build, the commands outstanding
belong to its targets, an outcome is "skipped" only while all commands of that kind
are outstanding, and a started module without a failed outcome was last applied
successfully from the payload's hash. `SeenInv` carries `RecordTruthful` from the
read to the decision: what the driver read stays true of the machine, but for the
modules in `unseen`. `PlanInv` says what a launch is about to run. `SkipIsSound` is
therefore about a decision taken minutes after the read, with any run in between;
that the exception is needed is the violation run `drift_half_changed`.
`RunsCloseOut` says that every run includes the always-modules of its payload, also
one of an operator who named others.

`ProvisioningProofs` proves `TypeOK` for all drivers, runs, processes and fault
bounds (`TInv` adds that whoever is under way has a run). `WorkerKeepsLease`,
`LeaseExcludes` and `TakeoverSafe` hold for any number of drivers, with leases that
expire under their holders, launches repeated, and reads separate from writes; they
do not assume `PromptStart`. `LeaseInv` is the reason: a worker that has not been
overtaken holds its lease; a process that is about to write the lease, and read it
in time, knows that whoever works has lost it; one that is about to remove it, and
read it in time, will find its own. `LeaseExcludes` says what is left of "at most
one": of two executes at work one has been overtaken, so expiry and the gap between
read and write are the only holes. `LeaseIsReleased` is proved for any number of
drivers too, from `Owned`: a cycle that has not noted that it holds the unit does
not own its availability unless it is just between the two or broke off there
(`orphaned`), and no two cycles share a run id; without the second, the end of one
cycle could be the end of another's lease. `OnlyCompleteRuns` assumes `PromptStart`
and a single driver, as the run that checks it has. `OneInv` has three
parts: `Unused` (nothing carries a run's id before its cycle configures a launch),
`Launched` (a process before its lease reads the configuration of the cycle that
launched it, and settles before a later one copies) and `Whole` (a configuration that
may still be launched is complete on disk). With a second driver the third part
fails: between one driver's write of the configuration and the launch, the other may
replace it.

`TransportProofs` proves `TypeOK`, `ResultIsOwn` and `RerunOwedToDrop` for every
length of the timers, number of reconnects and amount of output. The invariant has
three parts. `Staged`: before `run_ps` nothing has been started, behind it the
uploaded file is whole, and the worker is of the session's kind. `Reading`: what is
read belongs to the process of this attempt, a status comes from one that has ended,
and a worker that returned left nothing unread that had arrived. `Accounted`: an
attempt whose connection or channel is gone has one failure more to its account
than attempts, which is what a reconnect then spends; `RerunOwedToDrop` alone
forgets that, and is not inductive. The caller's own disposal is not a failure: it
counts for at most one re-run, and only after the caller has given up (`Own`). That
this one does happen is the violation run `transport_hung`.

`BlobstoreProofs` proves `TypeOK` and `SnapshotImmutable` for any number of clients,
hosts, paths, digests and faults, and any interleaving; `LinkedTrees`,
`SnapshotComplete` and `RefusedForCause` likewise, until a sync begins inside
another's (`crossed`). gc, seed, repair, cache fetches and the fsck job may run
anywhere. `LinkedTrees` needs `LInv`: every link that gc's race has not cut off is
the blobstore's (`Kept`), a name is that of the digest its inode was made for
(`OwnInode`), there is one sync at a time (`Solo`), and what a sync is about to
upload (`AboutToUpload`) or gc about to unlink (`AboutToUnlink`) is in no tree but by
that race. `SnapshotComplete`, `OkMeansServed` and `RefusedForCause` need `SInv`,
which says of the sync under way
how far it has come: every blob it needs is there or still to be sent, unless gc
took one or `want` met a truncated script (`Stocked`), the files already assembled
are those of its build (`Assembled`), and its `.building` tree holds the linked ones
and no others (`LinkedSoFar`). `OkIsServed` is proved for one client: with two, the
next sync may serve another build of the host before the first has been forgotten.
`OnlyRefusedForCause` is proved for builds that hold a file beside their manifest:
for a build without files `snapshot` makes no tree, and its rename fails, in the code
(`blobstore.py:203`) as in the model.

`FleetRunProofs` proves all of `FleetRun`'s invariants for every fleet and number of
runs, edits and kills. `HonestSummary` needs `HInv`: a driver whose exit code is
still 0 has recorded no failure, and the shared temporary file is as honest as
`last-run.json`, because one driver may move the file another wrote. `EditsSurvive`
needs `EInv`: unless an edit raced a write-back, every copy on its way into the
registry is of the latest revision; a temporary file a killed driver left may be
older, but is overwritten before it is moved. `KeepsNewest` needs `KInv`: every
session directory is older than the clock, so a new run is among the newest and
pushes out the oldest of them only. `TypeOK` needs `TInv`, which asks for a run id in
every phase of a run and not only where a unit is at hand. `CompleteSummary` needs
`CInv`: inside a run, recorded and queued units together are the plan, and both files
are whole. `WindowGates` follows from `WindowHeld`, by way of `WindowCyclic`: the two
comparisons of `in_maintenance_window` are the cyclic interval. Three hypotheses are
named in `FleetRun` and evaluated by TLC on the instance: `SelectionTyped` (what
`SelectSeq` returns, a recursive operator the provers know nothing of), `SelectsOnce`
(no unit is named twice) and `HourWindows` (bounds are hours). The code checks
neither of the last two: with a unit named twice `units_checked` counts entries and
`unit_outcomes` units, and `MaintenanceWindow` takes any integers.

`VmSuiteProofs` proves every property of `vm_suite`, the two action properties
included, for every set of modules, hashes and scenarios and every number of
repetitions. `VInv` joins `TypeOK` with `JobInv`, which counts: a process inside a
cycle has one result for each earlier one, behind it one for each; and `SuiteInv`,
which ties outcomes and scenarios still to do to the list asked for.
`CleanBuildExecuted` needs `BuildInv`, which follows the payload from the host to the
unit, where it is that payload or the part of it that arrived (`OwnCopy`), and
remembers that what was built once is still staged when a later cycle does
not build again. `FreshVerdict` needs `FreshInv`: no old marker survives into a
scenario. `RecoveryWasReal` is a statement about suites run for all modules; it needs
`RecoverInv`: since the injection the staged
payload, and with it what is transferred of it, cannot succeed without the marker,
and a zero travels from the run's exit code through the verdict and the process's
exit code only over a marker. With a selection of modules it is false (section 6).

**Only model-checked.** All liveness (`Converges`, `RepairHappens`, `CycleEnds`,
`UpdateApplied`, `CallEnds`, `SshWorkerEnds`, `StopHonoured`, `ServiceStaysUp`): it
needs fairness, which is outside the prover's reach. Every safety property a passing
run checks has a theorem; where one has hypotheses a run does not need (a single
driver or client), they are those of the run's instance. What `select_units` and
`select_prunable_runs` return for a given list stays with TLC where it needs
induction over the list.

## 5. What is not modelled

- Inside modelled parts: a corrupt lease or result file; run ids that collide
  within a second; a robocopy that lives on after its pull was lost; a staging
  tree rebuilt while it is synced; two clients sharing one `.building` tree on the
  relay; the instant in which a temporary status file is truncated but not yet
  written; a registry whose `excluded` entries change (the fleet is constant).
- In `FleetRun`: the outcomes that a fatal preflight records, the activity CSV. The
  second copy of `last-run.json` goes into the run's own directory, where nothing
  reads it back; what matters of it is modelled: if that directory has been pruned
  the write fails, the failure cannot be logged, and the run raises before its
  retention (`FinishLost`).
- In `Transport`: the CLIXML formatting, the flap classifier and
  `wait_for_winrm`'s diagnostics. In `VmHarness`:
  the log poller's text (it is a thread that may die), banners and summaries, the
  address of the unit changing between guard and connect, two processes at once,
  `--modules` with names that no module has.
- Not yet: bootstrap and onboarding, the build's staging, providers with state of
  their own, the clone tool, the fleet report, OS-update drift.
- Not planned: what a provider installs, probes of the operating system, server
  setup, linters. They are I/O, and the models take their verdicts as inputs.

What the properties do not say, though the models contain it: `HonestSummary` has
one direction (exit code 0 only without a failed unit; the other fails, see
`fail_states` below). `KeepsNewest` says nothing of a running driver's directory,
which retention may remove. A process killed between writing a `.tmp` file and
replacing it is covered by `CompleteSummary` and `EditsSurvive`, not by `TypeOK`.
`FreshVerdict` excludes markers from before the suite only. `WorkerHoldsLease` is
about the lease, not about the files the worker works from: another cycle's cleanup
may delete its run directory.

## 6. Disagreements found

With a run that TLC violates (details and quotes in `PROJECT.json`):

- `drift_half_changed`: a run that dies before its manifest write is forgotten. If
  the recorded payload is what is built next (a revert, a forced re-run), the unit is
  skipped half-changed, although `execute-mast-provisioning.ps1:359-362` says a
  partial run "cannot make the fast path report 'nothing to do'".
- `prov_slot`: the lease check is a read (`execute-mast-provisioning.ps1:112`) and a
  later write (`:152`) that does not look again; two executes launched together both
  pass it. The requirements (`:753`, `:779`) guarantee at most one, and a renewal
  every 60 s; the lease is never renewed, and an expired one is taken over from a
  live holder.
- `prov_stuck_unavailable`: a unit whose execute succeeded after its driver gave up
  is current and stays `available: false`; later cycles skip it and write nothing.
- `prov_foreign_result`: the poll accepts any result that is "done", also another
  run's.
- `transport_hung`: disposing of the session after a watchdog timeout looks like a
  lost connection to the worker that was left behind; it reconnects and starts the
  stuck command again, up to two times.
- `vm_reset`: the suite's "reset" sub-run is a process of one cycle, and the reset
  lies between two cycles; the "clean re-run" of interrupted-inject-fail starts on
  the disk the bombed run left.

In the models, as exceptions that properties name (the table of section 3) or as
behaviour no property excludes:

- `availability.json` is written and the event logged before `lease_held` is set
  (`driver.py:710-711`, `1009-1021`). If the answer of the write is lost, or the log
  raises, the `finally` releases nothing and the unit stays marked by a cycle that
  has ended (`orphaned`).
- Releasing the execute lease is a read, a comparison and a deletion
  (`execute-mast-provisioning.ps1:505-509`); a takeover written in between is
  deleted with it (`late`). Only the run id is compared: of two processes of one run
  the first to end removes the lease of the other.
- Re-sending `-Register` after a lost answer can start a second process of the run,
  or be refused by the execute the first sending started.
- A cycle's cleanup deletes the staging directories of other runs, that of a working
  execute included; a refused cycle has already deleted those of the holder.
- A refused run (exit code 10) marks the unit available while the holder of the
  lease executes (`driver.py:721-726`).
- The decision to skip rests on a record read before the build (`driver.py:543`);
  an execute left over from an earlier cycle may be in the middle of its commands
  (`unseen`).
- gc looks at a link count and unlinks later (`blobstore.py:324`). A sync that links
  the inode in between keeps a file the blobstore no longer names; gc may also take
  a blob that a sync was told it need not send. Every later sync of the first
  payload is refused (`raced`, `robbed`).
- All clients write the relay's script to one path with a truncating `cat >`
  (`relay.py:279`); started while truncated it exits 0. If that is the final
  command, the sync reports success and has served nothing (`torn`).
- Two syncs of one payload share one `.building` tree (`blobstore.py:189`): the
  second removes what the first has linked, and the first renames what is left, so
  `SnapshotComplete` fails once syncs overlap (`crossed`).
- Over SSH the receive loop stops at the exit status and does not wait for the end
  of the stream, on purpose (`transport.py:528-536`); output that arrives behind the
  status is lost. `ResultIsOwn` promises what had arrived.
- An exit status of -1 (`transport.py:573-577`) and an exception of `open_session`
  or `exec_command` on a live connection re-run the command as a lost connection
  does; `RerunOwedToDrop` counts them as failures of a channel.
- `put_file` and the chunks of an upload over WinRM have no watchdog
  (`transport.py:583-593`, `1219`), and `exec_command` precedes the worker's deadline
  (`:547`): a unit that stays connected and does not answer can hold them for ever.
- The harness takes a transfer for complete if its outcome is OK
  (`run-prov-test.py:654-668`), which a robocopy that was killed half-way reports too
  (`mast-pull-staging.ps1:326-343`): part of a payload is executed. The driver checks
  the copy's size.
- The documented call `test-suite.py --scenario failure-recover-no-reset --modules
  nssm,nomachine` (`test-suite.py:13-14`) passes `-Modules` to execute, which filters
  the injected entries out (`execute-mast-provisioning.ps1:215-221`): the scenario
  then passes on a first failure of any cause, without the bomb.
- Retention may remove the directory of a driver that is still running. It can no
  longer log, and its cycle raises, unless archiving a unit's logs makes the
  directory again (`driver.py:1487`).
- The docstring of `_resilient_get_command_output` says every received answer gives
  the next glitch the full window; a `WinRMOperationTimeoutError` is such an answer
  and leaves the window running, so two short glitches around a quiet command can
  end the call.
- The harness uploads the pull script in chunks with `Add-Content`
  (`run-prov-test.py:623`); a chunk re-run after a dropped SSH connection is appended
  twice.
- A failed build-only sub-run exits 0, so the suite's checks of sub-run A's exit code
  are dead code; the injection then works on whatever tree is staged.
- Sub-run B of interrupted-inject-fail may fail for any reason, and the scenario
  still passes; sub-runs C and D may pass on the markers B wrote.
- The harness's log poller ends when rebuilding its session fails twice, although
  `run-prov-test.py:487` says it "will retry next iteration".
- The maintenance window is tested once, before relay sync, transfer and execute,
  although `maintenance_window.py:3` says the disruptive steps "only run inside a
  unit's maintenance window". Equal bounds mean never.

Met while reading, outside the models:

- `fail_states` (`driver.py:1517`) omits `RELAY_SYNC_FAIL` and `PREFLIGHT_FAIL`:
  `last-run.json` can hold `exit_code` 1 with `units_failed` 0.
- A fatal run returns before `_finish`: it writes no `last-run.json`, which the
  requirements (:850) want "at cycle exit", and prunes nothing, so a service that
  is fatal every half hour collects session directories.
- `driver.py:923` says a build manifest without `payload_hash` is treated as
  BUILD_FAIL; `_process_unit` returns with neither outcome nor exit code. The
  build script always writes the hash.
- Run ids are times to the second; two drivers started within one share a session
  directory and a lease.
- A vendored asset outside every module changes the aggregate hash only, and leads
  to a full run.

## 7. Plan

1. `Bootstrap`: the element sequence with reboot and resume, and onboarding.
2. `Build`: staging, exclusions, payload size, manifest, with `payload.py` and
   `staging_size.py` as pure functions against a reference.
3. Providers with state: stand-down and finalize, reboot flag, imdisk, shared mount.
4. Tools: `mast-clone`, OS-update drift, fleet report.
5. Proofs: `OnlyCompleteIsExecuted` for several drivers, under a promptness that
   includes the registration; `OkMeansServed` for several clients of different hosts;
   new invariants of 1 to 4 as they come.
