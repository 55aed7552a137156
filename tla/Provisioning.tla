---------------------------- MODULE Provisioning ----------------------------
(***************************************************************************)
(* The provisioning cycle of one unit: drivers (server/prov/driver.py) that *)
(* mark the unit unavailable, pull a payload onto it, launch a detached     *)
(* execute and poll its result file; and the execute processes themselves   *)
(* (client/mast-run-detached.ps1 -Run, execute-mast-provisioning.ps1),      *)
(* which outlive the driver that launched them and exclude each other with  *)
(* the lease file execute-lease.json.                                       *)
(*                                                                          *)
(* Everything the two sides share is a file on the unit.  Time is           *)
(* abstracted: a lease is fresh until LeaseExpires, and the poll loop's     *)
(* deadline may pass whenever the driver is polling.  A process id is a     *)
(* slot of Procs, so a later process may reuse the pid a lease names.       *)
(*                                                                          *)
(* Reading a file and writing it are steps of their own, on both sides: an  *)
(* execute reads the lease before it writes or removes it, and a driver     *)
(* writes availability.json before it notes that it holds the unit.         *)
(***************************************************************************)
EXTENDS Integers

CONSTANTS
  Drivers,      \* driver processes: the loop service, an operator's shell
  Runs,         \* run ids; an id no file and no process names can be reused
  Procs,        \* process ids of execute processes
  None,         \* no run, no lease, no result
  PromptStart,  \* a launched execute has settled its lease before a later
                \* cycle's cleanup, and before the poll deadline
  MaxFaults     \* bound: crashes, lost sessions, slow runs, payload changes

ASSUME ProvisioningAssumption ==
  /\ None \notin Runs \cup Procs
  /\ PromptStart \in BOOLEAN
  /\ MaxFaults \in Nat

LEASE_HELD == 10   \* EXECUTE_EXIT_LEASE_HELD, MAST_EXIT_LEASE_HELD
Codes == {0, 1, LEASE_HELD}

VARIABLES
  drv,           \* each driver: where _process_unit is, run_id, lease_held
  availability,  \* availability.json: available and lease_owner
  staging,       \* C:\mast-staging\<run>: absent, partial or complete
  cfg,           \* detached-run.json: the run to execute
  result,        \* execute-result.json; nobody reads the run_id it names
  lease,         \* execute-lease.json
  proc,          \* each execute process: its pc, its run, its exit code
  latest,        \* runs whose payload is what the repository builds now
  current,       \* installed-manifest.json agrees with the repository
  markers,       \* the smoke marker files are present
  succeeded,     \* history: runs whose own execute worked and exited 0
  orphaned,      \* history: runs that broke off between marking the unit and
                 \* noting it
  late,          \* history: processes about to write or remove the lease, which
                 \* was written after they read it
  overtaken,     \* history: working processes whose lease expired, was written
                 \* or removed by a late process, or removed by one of its run
  faults         \* history: faults so far

unitFiles == <<availability, staging, cfg, result, lease, current, markers>>
history   == <<succeeded, orphaned, late, overtaken>>
vars == <<drv, unitFiles, proc, latest, history, faults>>

DriverPcs == {"idle", "inspect", "mark", "marked", "clean", "copy", "inputs",
              "register", "poll", "smoke", "publish", "handback", "available",
              "release"}
ProcPcs   == {"none", "starting", "checking", "acquiring", "working",
              "releasing", "removing", "reporting"}
Starting  == {"starting", "checking", "acquiring"}

NoProc == [pc |-> "none", run |-> None, code |-> 0]

RunOrNone  == Runs \cup {None}
DriverType == [Drivers -> [pc : DriverPcs, run : RunOrNone, held : BOOLEAN]]
ProcType   == [Procs -> [pc : ProcPcs, run : RunOrNone, code : Codes]]
LeaseType  == [run : RunOrNone, pid : Procs \cup {None}, fresh : BOOLEAN]
ResultType == [status : {"absent", "running", "done"}, code : Codes]
AvailType  == [available : BOOLEAN, owner : RunOrNone]
StageType  == [Runs -> {"absent", "partial", "complete"}]

TypeOK ==
  /\ drv \in DriverType
  /\ availability \in AvailType
  /\ staging \in StageType
  /\ cfg \in RunOrNone
  /\ result \in ResultType
  /\ lease \in LeaseType
  /\ proc \in ProcType
  /\ latest \in SUBSET Runs
  /\ current \in BOOLEAN
  /\ markers \in BOOLEAN
  /\ succeeded \in SUBSET Runs
  /\ orphaned \in SUBSET Runs
  /\ late \in SUBSET Procs
  /\ overtaken \in SUBSET Procs
  /\ faults \in 0..MaxFaults

NoLease   == [run |-> None, pid |-> None, fresh |-> FALSE]
NoResult  == [status |-> "absent", code |-> 0]
IdleDriver == [pc |-> "idle", run |-> None, held |-> FALSE]

\* A freshly bootstrapped unit: no status file, nothing staged.  A missing
\* availability.json reads as unavailable.
Init ==
  /\ drv = [d \in Drivers |-> IdleDriver]
  /\ availability = [available |-> FALSE, owner |-> None]
  /\ staging = [r \in Runs |-> "absent"]
  /\ cfg = None
  /\ result = NoResult
  /\ lease = NoLease
  /\ proc = [p \in Procs |-> NoProc]
  /\ latest = {}
  /\ succeeded = {} /\ orphaned = {} /\ late = {} /\ overtaken = {}
  /\ current = FALSE
  /\ markers = FALSE
  /\ faults = 0

Fault   == faults < MaxFaults /\ faults' = faults + 1
NoFault == UNCHANGED faults

At(d, pc) == drv[d].pc = pc
Goto(d, pc) == drv' = [drv EXCEPT ![d].pc = pc]

Executing == {p \in Procs : proc[p].pc = "working"}
Launching == {p \in Procs : proc[p].pc \in Starting}

InUse(r) ==
  \/ \E d \in Drivers : drv[d].run = r
  \/ \E p \in Procs : proc[p].run = r
  \/ r \in {cfg, lease.run, availability.owner}

-----------------------------------------------------------------------------
(* The driver: _process_unit                                               *)

\* A new cycle, under a run id of its own.  What is left of runs that no file
\* and no process names any more is forgotten, so that ids can be reused.
Begin(d) ==
  LET named == {r \in Runs : InUse(r)}
      fresh == CHOOSE r \in Runs \ named : TRUE
  IN
  /\ At(d, "idle")
  /\ Runs \ named # {}
  /\ drv' = [drv EXCEPT ![d] = [pc |-> "inspect", run |-> fresh, held |-> FALSE]]
  /\ staging' = [r \in Runs |-> IF r \in named THEN staging[r] ELSE "absent"]
  /\ succeeded' = succeeded \cap named
  /\ orphaned' = orphaned \cap named
  /\ latest' = latest \cap named
  /\ NoFault
  /\ UNCHANGED <<availability, cfg, result, lease, proc, current, markers, late, overtaken>>

EndCycle(d) == drv' = [drv EXCEPT ![d] = IdleDriver]

\* Phases 1 to 5: reach the unit, stand it down, read its manifest, build,
\* compare.  _reclaim_availability only logs.  An up-to-date unit is skipped.
Inspect(d) ==
  /\ At(d, "inspect")
  /\ \/ current /\ EndCycle(d) /\ UNCHANGED latest
     \/ ~current /\ Goto(d, "mark") /\ latest' = latest \cup {drv[d].run}
  /\ NoFault
  /\ UNCHANGED <<unitFiles, proc, history>>

\* The unit is unreachable, not stood down, cannot reach the share, has no
\* build, or is outside its maintenance window: the cycle ends, unmarked.
EndEarly(d) ==
  /\ At(d, "inspect")
  /\ EndCycle(d)
  /\ Fault
  /\ UNCHANGED <<unitFiles, proc, latest, history>>

\* Phase 6: _set_unavailable writes availability.json ...
SetUnavailable(d) ==
  /\ At(d, "mark")
  /\ availability' = [available |-> FALSE, owner |-> drv[d].run]
  /\ Goto(d, "marked")
  /\ NoFault
  /\ UNCHANGED <<staging, cfg, result, lease, proc, latest, current, markers, history>>

\* ... and lease_held = True, once its answer has come and is logged.
TakeLease(d) ==
  /\ At(d, "marked")
  /\ drv' = [drv EXCEPT ![d].pc = "clean", ![d].held = TRUE]
  /\ NoFault
  /\ UNCHANGED <<unitFiles, proc, latest, history>>

\* Phase 7: mast-pull-staging.ps1 deletes every other run directory; files
\* that an execute has open survive.
PullCleanup(d) ==
  /\ At(d, "clean")
  /\ PromptStart => Launching = {}
  /\ \E kept \in SUBSET {proc[p].run : p \in Executing} :
        staging' = [r \in Runs |->
                      IF r = drv[d].run THEN "partial"
                      ELSE IF r \in kept /\ staging[r] # "absent" THEN "partial"
                      ELSE "absent"]
  /\ Goto(d, "copy")
  /\ NoFault
  /\ UNCHANGED <<availability, cfg, result, lease, proc, latest, current, markers, history>>

PullUnverified(d) ==
  /\ At(d, "copy")
  /\ staging' = [staging EXCEPT ![drv[d].run] = "partial"]
  /\ Goto(d, "inputs")
  /\ NoFault
  /\ UNCHANGED <<availability, cfg, result, lease, proc, latest, current, markers, history>>

\* ... and copies.  Only a copy whose landed bytes and files are the expected
\* ones is accepted; the driver goes on with that run directory.
PullCopy(d) ==
  /\ At(d, "copy")
  /\ staging[drv[d].run] # "absent"
  /\ staging' = [staging EXCEPT ![drv[d].run] = "complete"]
  /\ Goto(d, "inputs")
  /\ NoFault
  /\ UNCHANGED <<availability, cfg, result, lease, proc, latest, current, markers, history>>

\* The mount fails, the disk is full, the pull is killed or times out, or
\* another cycle's cleanup emptied the directory meanwhile: TRANSFER_FAIL.
PullFails(d) ==
  /\ At(d, "copy")
  /\ staging' = [staging EXCEPT ![drv[d].run] = "partial"]
  /\ Goto(d, "release")
  /\ IF staging[drv[d].run] = "absent" THEN NoFault ELSE Fault
  /\ UNCHANGED <<availability, cfg, result, lease, proc, latest, current, markers, history>>

\* Phase 8: _write_detached_inputs.
WriteDetachedInputs(d) ==
  /\ At(d, "inputs")
  /\ cfg' = drv[d].run
  /\ Goto(d, "register")
  /\ NoFault
  /\ UNCHANGED <<availability, staging, result, lease, proc, latest, current, markers, history>>

\* mast-run-detached.ps1 -Register: drop the old result, start a new process.
\* Deleting the old task does not stop a process it started.
Launch(p) ==
  /\ proc[p].pc = "none"
  /\ proc' = [proc EXCEPT ![p].pc = "starting"]
  /\ result' = NoResult

Register(d) ==
  /\ At(d, "register")
  /\ \E p \in Procs : Launch(p)
  /\ Goto(d, "poll")
  /\ NoFault
  /\ UNCHANGED <<availability, staging, cfg, lease, latest, current, markers, history>>

\* The SSH channel drops after the command ran: the transport reconnects and
\* runs it again (_resilient_run_ps).
RegisterRerun(d) ==
  /\ At(d, "register")
  /\ \E p \in Procs : Launch(p)
  /\ Fault
  /\ UNCHANGED <<drv, availability, staging, cfg, lease, latest, current, markers, history>>

\* The task is registered but nobody is logged on, or starting it fails: the
\* runner prints DETACHED_REGISTERED all the same.
RegisterWithoutStart(d) ==
  /\ At(d, "register")
  /\ result' = NoResult
  /\ Goto(d, "poll")
  /\ Fault
  /\ UNCHANGED <<availability, staging, cfg, lease, proc, latest, current, markers, history>>

\* The poll loop sees a result whose status is "done".
Poll(d) ==
  /\ At(d, "poll")
  /\ result.status = "done"
  /\ Goto(d, IF result.code = LEASE_HELD THEN "handback"
             ELSE IF result.code = 0 THEN "smoke" ELSE "release")
  /\ NoFault
  /\ UNCHANGED <<unitFiles, proc, latest, history>>

Unfinished == {p \in Procs : proc[p].pc # "none"}

NeverTimeout(d) == FALSE /\ UNCHANGED vars

\* EXECUTE_TIMEOUT_S passes.  That a process is still going then is a fault;
\* that none is left to answer is not.
PollTimeout(d) ==
  /\ At(d, "poll")
  /\ result.status # "done"
  /\ PromptStart => Launching = {}
  /\ Goto(d, "release")
  /\ IF Unfinished = {} THEN NoFault ELSE Fault
  /\ UNCHANGED <<unitFiles, proc, latest, history>>

SmokeContinues(d) ==
  /\ At(d, "smoke")
  /\ IF markers THEN Goto(d, "publish") ELSE EndCycle(d)
  /\ NoFault
  /\ UNCHANGED <<unitFiles, proc, latest, history>>

\* Phase 9: _smoke looks for the marker files of the executed modules.
Smoke(d) ==
  /\ At(d, "smoke")
  /\ Goto(d, IF markers THEN "publish" ELSE "release")
  /\ NoFault
  /\ UNCHANGED <<unitFiles, proc, latest, history>>

\* Phase 10, and the hand-back of a refused run: _set_available ...
SetAvailable(d) ==
  /\ At(d, "publish") \/ At(d, "handback")
  /\ availability' = [available |-> TRUE, owner |-> None]
  /\ Goto(d, "available")
  /\ NoFault
  /\ UNCHANGED <<staging, cfg, result, lease, proc, latest, current, markers, history>>

\* ... and lease_held = False.
DropLease(d) ==
  /\ At(d, "available")
  /\ drv' = [drv EXCEPT ![d].pc = "release", ![d].held = FALSE]
  /\ NoFault
  /\ UNCHANGED <<unitFiles, proc, latest, history>>

\* The finally block: _release_and_archive.
ReleaseAndArchive(d) ==
  /\ At(d, "release")
  /\ availability' = IF drv[d].held THEN [available |-> FALSE, owner |-> None]
                     ELSE availability
  /\ EndCycle(d)
  /\ NoFault
  /\ UNCHANGED <<staging, cfg, result, lease, proc, latest, current, markers, history>>

\* The session is dead by then: AVAIL_RELEASE_WARN.
ReleaseLost(d) ==
  /\ At(d, "release") /\ drv[d].held
  /\ EndCycle(d)
  /\ Fault
  /\ UNCHANGED <<unitFiles, proc, latest, history>>

\* Any command to the unit may raise, its work done or not, and so may the
\* log: EXCEPTION, by way of the finally block.  The poll loop alone survives
\* it, and reconnects.
SessionLost(d) ==
  /\ drv[d].pc \notin {"idle", "poll", "release"}
  /\ Goto(d, "release")
  /\ orphaned' = IF At(d, "marked") THEN orphaned \cup {drv[d].run} ELSE orphaned
  /\ Fault
  /\ UNCHANGED <<unitFiles, proc, latest, succeeded, late, overtaken>>

\* The driver process is killed; no finally block runs.
Crash(d) ==
  /\ ~At(d, "idle")
  /\ EndCycle(d)
  /\ Fault
  /\ UNCHANGED <<unitFiles, proc, latest, history>>

-----------------------------------------------------------------------------
(* The execute process: mast-run-detached.ps1 -Run around execute          *)

ProcAt(p, pc) == proc[p].pc = pc
ProcGoto(p, pc) == proc' = [proc EXCEPT ![p].pc = pc]
ProcExit(p, pc, code) == proc' = [proc EXCEPT ![p].pc = pc, ![p].code = code]

\* Read detached-run.json, write the 'running' result, call execute from the
\* staging path.  If that script is not there the call fails without an exit
\* code, and a missing exit code counts as 0; if the scripts it loads are not
\* there, it throws and takes the runner with it.
RunnerStarts(p) ==
  /\ ProcAt(p, "starting")
  /\ result' = [status |-> "running", code |-> 0]
  /\ \/ /\ staging[cfg] # "absent"
        /\ proc' = [proc EXCEPT ![p] = [pc |-> "checking", run |-> cfg, code |-> 0]]
     \/ /\ staging[cfg] # "complete"
        /\ proc' = [proc EXCEPT ![p] = [pc |-> "reporting", run |-> cfg, code |-> 0]]
     \/ /\ staging[cfg] = "partial"
        /\ proc' = [proc EXCEPT ![p] = NoProc]
  /\ NoFault
  /\ UNCHANGED <<drv, availability, staging, cfg, lease, latest, current, markers, history>>

PidAlive(pid) == pid # None /\ proc[pid].pc # "none"

AnyLease == lease # NoLease

ExpiredAndAlive == ~lease.fresh /\ PidAlive(lease.pid)

\* now < expires_utc and the owning pid is alive.
LeaseHeld == lease.fresh /\ PidAlive(lease.pid)

ReentrantCheck(p) ==
  /\ ProcAt(p, "checking")
  /\ IF LeaseHeld /\ lease.run # proc[p].run
     THEN ProcExit(p, "reporting", LEASE_HELD) ELSE ProcGoto(p, "acquiring")
  /\ NoFault
  /\ UNCHANGED <<drv, unitFiles, latest, history>>

\* The lease is read here and written by AcquireLease: two separate steps.
CheckLease(p) ==
  /\ ProcAt(p, "checking")
  /\ IF LeaseHeld THEN ProcExit(p, "reporting", LEASE_HELD)
                  ELSE ProcGoto(p, "acquiring")
  /\ NoFault
  /\ UNCHANGED <<drv, unitFiles, latest, history>>

\* The working process that the lease names.
Holder == {q \in Executing : lease.pid = q}

\* A write of the lease makes every other process late that has read it and
\* is about to write or remove it; and it takes the lease from its holder.
Overwrites(p) ==
  /\ late' = (late \ {p}) \cup
               {q \in Procs \ {p} : proc[q].pc \in {"acquiring", "removing"}}
  /\ overtaken' = IF p \in late THEN overtaken \cup Holder ELSE overtaken

AcquireIfAbsent(p) ==
  /\ ProcAt(p, "acquiring")
  /\ lease' = IF lease # NoLease THEN lease
              ELSE [run |-> proc[p].run, pid |-> p, fresh |-> TRUE]
  /\ Overwrites(p)
  /\ \/ staging[proc[p].run] # "absent" /\ ProcGoto(p, "working")
     \/ staging[proc[p].run] # "complete" /\ ProcExit(p, "releasing", 1)
  /\ NoFault
  /\ UNCHANGED <<drv, availability, staging, cfg, result, latest, current, markers,
                 succeeded, orphaned>>

\* Write the lease; then the try block throws if its staging path is gone.
AcquireLease(p) ==
  /\ ProcAt(p, "acquiring")
  /\ lease' = [run |-> proc[p].run, pid |-> p, fresh |-> TRUE]
  /\ Overwrites(p)
  /\ \/ staging[proc[p].run] # "absent" /\ ProcGoto(p, "working")
     \/ staging[proc[p].run] # "complete" /\ ProcExit(p, "releasing", 1)
  /\ NoFault
  /\ UNCHANGED <<drv, availability, staging, cfg, result, latest, current, markers,
                 succeeded, orphaned>>

\* The manifest is merged if build-manifest.json is still there at the end.
\* The unit is then current if all went well and the payload is the latest.
RecordRun(r, ok) ==
  \/ staging[r] # "absent" /\ current' = (ok /\ r \in latest)
  \/ staging[r] # "complete" /\ UNCHANGED current

\* Every command succeeded; the modules left their smoke markers.
WorkSucceeds(p) ==
  /\ ProcAt(p, "working")
  /\ ProcExit(p, "releasing", 0)
  /\ markers' = TRUE
  /\ RecordRun(proc[p].run, TRUE)
  /\ succeeded' = succeeded \cup {proc[p].run}
  /\ overtaken' = overtaken \ {p}
  /\ NoFault
  /\ UNCHANGED <<drv, availability, staging, cfg, result, lease, latest, orphaned, late>>

\* A command failed; or the payload was deleted under the process.
WorkFails(p) ==
  /\ ProcAt(p, "working")
  /\ ProcExit(p, "releasing", 1)
  /\ RecordRun(proc[p].run, FALSE)
  /\ overtaken' = overtaken \ {p}
  /\ IF staging[proc[p].run] = "complete" THEN Fault ELSE NoFault
  /\ UNCHANGED <<drv, availability, staging, cfg, result, lease, latest, markers,
                 succeeded, orphaned, late>>

ReleaseAnyLease(p) ==
  /\ ProcAt(p, "releasing")
  /\ ProcGoto(p, "removing")
  /\ NoFault
  /\ UNCHANGED <<drv, unitFiles, latest, history>>

\* The finally block reads the lease and goes on to remove it if it names this
\* run, or if it cannot be read because another process is writing it.
ReleaseLease(p) ==
  /\ ProcAt(p, "releasing")
  /\ \/ lease.run = proc[p].run /\ ProcGoto(p, "removing") /\ UNCHANGED late
     \/ lease.run # proc[p].run /\ ProcGoto(p, "reporting") /\ UNCHANGED late
     \/ /\ \E q \in Procs : ProcAt(q, "acquiring")
        /\ ProcGoto(p, "removing")
        /\ late' = late \cup {p}
  /\ NoFault
  /\ UNCHANGED <<drv, unitFiles, latest, succeeded, orphaned, overtaken>>

\* Remove-Item deletes whatever lease is there by then.
RemoveLease(p) ==
  /\ ProcAt(p, "removing")
  /\ lease' = NoLease
  /\ ProcGoto(p, "reporting")
  /\ late' = late \ {p}
  /\ overtaken' = IF p \in late \/ lease.run = proc[p].run
                  THEN overtaken \cup Holder ELSE overtaken
  /\ NoFault
  /\ UNCHANGED <<drv, availability, staging, cfg, result, latest, current, markers,
                 succeeded, orphaned>>

ReportFinished(p) ==
  /\ ProcAt(p, "reporting")
  /\ result' = [status |-> "finished", code |-> proc[p].code]
  /\ proc' = [proc EXCEPT ![p] = NoProc]
  /\ NoFault
  /\ UNCHANGED <<drv, availability, staging, cfg, lease, latest, current, markers, history>>

\* The runner writes the 'done' result and ends.
Report(p) ==
  /\ ProcAt(p, "reporting")
  /\ result' = [status |-> "done", code |-> proc[p].code]
  /\ proc' = [proc EXCEPT ![p] = NoProc]
  /\ NoFault
  /\ UNCHANGED <<drv, availability, staging, cfg, lease, latest, current, markers, history>>

-----------------------------------------------------------------------------
(* Environment                                                             *)

\* LeaseTtlSeconds (7200) pass; nothing renews a lease, and its holder may
\* still be working.  The driver that waits for it gave up before that
\* (EXECUTE_TIMEOUT_S, 3600).
LeaseExpires ==
  /\ lease.fresh
  /\ \A d \in Drivers : drv[d].run = lease.run => drv[d].pc \notin {"register", "poll"}
  /\ lease' = [lease EXCEPT !.fresh = FALSE]
  /\ overtaken' = overtaken \cup Holder
  /\ NoFault
  /\ UNCHANGED <<drv, availability, staging, cfg, result, proc, latest, current, markers,
                 succeeded, orphaned, late>>

\* The unit restarts: power loss, or shutdown /r issued by an execute.  The
\* task has no trigger, so nothing starts again.
Reboot ==
  /\ Unfinished # {}
  /\ proc' = [p \in Procs |-> NoProc]
  /\ late' = {} /\ overtaken' = {}
  /\ Fault
  /\ UNCHANGED <<drv, unitFiles, latest, succeeded, orphaned>>

\* A commit changes what is built for the unit.
PayloadChanges ==
  /\ latest' = {}
  /\ current' = FALSE
  /\ current \/ latest # {}
  /\ Fault
  /\ UNCHANGED <<drv, availability, staging, cfg, result, lease, proc, markers, history>>

\* The smoke directory under C:\MAST\logs is cleaned.
LogsCleaned ==
  /\ markers
  /\ markers' = FALSE
  /\ Fault
  /\ UNCHANGED <<drv, availability, staging, cfg, result, lease, proc, latest, current, history>>

DriverStep(d) ==
  \/ Begin(d) \/ Inspect(d) \/ SetUnavailable(d) \/ TakeLease(d)
  \/ PullCleanup(d) \/ PullCopy(d) \/ WriteDetachedInputs(d) \/ Register(d)
  \/ Poll(d) \/ Smoke(d) \/ SetAvailable(d) \/ DropLease(d)
  \/ ReleaseAndArchive(d)

DriverFault(d) ==
  \/ EndEarly(d) \/ PullFails(d) \/ RegisterRerun(d) \/ RegisterWithoutStart(d)
  \/ PollTimeout(d) \/ ReleaseLost(d) \/ SessionLost(d) \/ Crash(d)

ProcStep(p) ==
  \/ RunnerStarts(p) \/ CheckLease(p) \/ AcquireLease(p) \/ WorkSucceeds(p)
  \/ WorkFails(p) \/ ReleaseLease(p) \/ RemoveLease(p) \/ Report(p)

Environment == LeaseExpires \/ Reboot \/ PayloadChanges \/ LogsCleaned

Next ==
  \/ \E d \in Drivers : DriverStep(d) \/ DriverFault(d)
  \/ \E p \in Procs : ProcStep(p)
  \/ Environment

Spec == Init /\ [][Next]_vars

\* The service keeps cycling, processes keep running, deadlines and expiry
\* times pass; the number of faults is bounded.
Fairness ==
  /\ \A d \in Drivers : WF_vars(DriverStep(d)) /\ WF_vars(PollTimeout(d))
                        /\ WF_vars(PullFails(d))
  /\ \A p \in Procs : WF_vars(ProcStep(p))
  /\ WF_vars(LeaseExpires)

FairSpec == Spec /\ Fairness

-----------------------------------------------------------------------------
(* Properties                                                              *)

\* A working execute holds the lease that admits it, in its own name and
\* unexpired, until its TTL passes, or a process that had read the lease before
\* this one wrote it writes or removes it, or a second process of its own run
\* does (the run id alone is compared).  Nothing else takes it away.
WorkerHoldsLease ==
  \A p \in Executing \ overtaken :
     lease = [run |-> proc[p].run, pid |-> p, fresh |-> TRUE]

\* "only if we still own it -- a takeover may have already overwritten it": an
\* execute that ends removes a working execute's lease only if it is of its own
\* run, or was written since it looked.
TakeoverKeepsLease ==
  [][\A p \in Procs :
       /\ proc[p].pc = "removing" /\ proc'[p].pc = "reporting"
       /\ lease.pid \in Executing
       => p \in late \/ lease.run = proc[p].run]_vars

\* The transfer fails closed: what an execute starts working on is a complete
\* payload, verified against what the server measured.
OnlyCompleteIsExecuted ==
  [][\A p \in Procs :
       proc[p].pc = "acquiring" /\ proc'[p].pc = "working"
         => staging[proc[p].run] = "complete"]_vars

\* "Availability lease is released on every exit": a cycle whose last step is
\* neither its being killed nor a lost session, however it failed before,
\* leaves no live lease in its name; except one that broke off between writing
\* availability.json and noting that it holds the unit.
ReleasedOnEveryExit ==
  [][\A d \in Drivers :
       /\ ~At(d, "idle") /\ drv'[d].pc = "idle" /\ faults' = faults
       /\ drv[d].run \notin orphaned
       => availability'.owner # drv[d].run]_vars

\* Every cycle ends, whatever happened to the execute it waits for.
CycleEnds == \A d \in Drivers : ~At(d, "idle") ~> At(d, "idle")

\* From some time on no cycle pulls a payload while an execute that an
\* earlier cycle left behind is still working.
OverlapsStop == <>[](\A d \in Drivers : At(d, "copy") => Executing = {})

\* No lease, stale result or lost execute keeps an update off the unit for
\* ever: once faults and overlaps stop, the unit becomes current.
UpdateApplied == OverlapsStop => (~current ~> current)

(* What the repository's documents and comments say, and the code does not do. *)

\* "guarantees at most one provisioning execution mutating the machine at a
\* time".
AtMostOneExecute == \A p, q \in Executing : p = q

\* "On any successful exit path, the cycle writes available: true": a unit
\* that is current and left alone becomes available again.
AvailableAgain == ~availability.available ~> availability.available

\* UNIT_OK, payload_hash=...: the cycle's own execute did its work.
OkMeansExecuted == \A d \in Drivers : At(d, "publish") => drv[d].run \in succeeded

=============================================================================
