------------------------------- MODULE FleetRun -------------------------------
(***************************************************************************)
(* The provisioning server around one unit's cycle: the supervised loop    *)
(* (run_loop), Driver.run with its preflights and its walk over the        *)
(* registry, the MAC write-back, the maintenance-window gate, and _finish   *)
(* with last-run.json and log retention.  An operator may start the same   *)
(* driver by hand beside the service; both share the registry, the status   *)
(* file and the session directories.  What happens to one unit inside       *)
(* _process_unit is Provisioning's subject: here a unit yields an outcome.  *)
(***************************************************************************)
EXTENDS Integers, FiniteSets, Sequences, SequencesExt

CONSTANTS
    Service, Manual,    \* the looping service, and an operator's own run
    Hosts,              \* hostnames of the registry
    Fleet,              \* the registry's entries in file order
    Excluded,           \* entries carrying an "excluded" reason
    OnlyHosts,          \* --only-hosts of the operator's run
    Window,             \* maintenance window [start, end] of each host
    Recorded,           \* entries whose MAC is right at the start
    Drawn,              \* the outcomes this instance lets units have
    PreflightExits,     \* exit codes _preflight_smb may leave: 0 only off Windows
    Retain,             \* --retain-runs
    MaxRuns,            \* bound: runs started
    MaxEdits,           \* bound: operator edits of the registry
    MaxKills,           \* bound: processes killed
    None                \* no such file, or nothing loaded

VARIABLES
    pc,        \* where each driver process is
    run,       \* its run id; ids are time stamps, so larger is newer
    queue,     \* units it has still to process
    snap,      \* the registry as it loaded it at the start of the run
    copy,      \* the registry as _persist_mac is about to write it
    outcomes,  \* RunLog.unit_outcomes
    exit,      \* Driver.exit_code
    clock,     \* the next run id
    sessions,  \* session directories on disk
    reg,       \* unit-registry.json: operator revision, hosts with the right MAC
    regTmp,    \* unit-registry.json.tmp, shared by all writers
    lastRun,   \* status/last-run.json
    lastTmp,   \* status/last-run.json.tmp, shared by all writers
    stop,      \* the loop's stop event
    restart,   \* systemd would start the service: not yet up, or it was killed
    edits,     \* operator edits so far
    kills,     \* processes killed so far
    raced      \* an edit fell between some driver's load and its replace

driver == <<run, queue, snap, copy, outcomes, exit>>
files == <<clock, sessions, reg, regTmp, lastRun, lastTmp>>
svc == <<stop, restart>>
ops == <<edits, kills, raced>>
vars == <<pc, driver, files, svc, ops>>

Procs == {Service, Manual}
NoOutcomes == [h \in {} |-> "OK"]

EXIT_OK == 0
EXIT_UNIT_FAIL == 1

Failures == {"UNREACHABLE", "FAIL", "PREFLIGHT_FAIL", "BUILD_FAIL",
             "RELAY_SYNC_FAIL", "TRANSFER_FAIL", "EXECUTE_FAIL"}
BeforeGate == {"FAIL", "PREFLIGHT_FAIL", "BUILD_FAIL", "SKIP"}
AfterGate == {"RELAY_SYNC_FAIL", "TRANSFER_FAIL", "EXECUTE_FAIL", "FAIL", "SKIP", "OK"}
Outcomes == Failures \cup {"OK", "SKIP", "SKIP_MAINTENANCE"}

ASSUME FleetRunAssumption ==
    /\ Service # Manual /\ IsFiniteSet(Hosts)
    /\ Fleet \in Seq(Hosts) /\ Excluded \subseteq Hosts /\ OnlyHosts \subseteq Hosts
    /\ Recorded \subseteq Hosts
    /\ Drawn \subseteq Outcomes /\ PreflightExits \subseteq {EXIT_OK, EXIT_UNIT_FAIL}
    /\ Retain \in Nat \ {0}
    /\ MaxRuns \in Nat /\ MaxEdits \in Nat /\ MaxKills \in Nat

\* fail_states of _finish
FailStates == {"FAIL", "UNREACHABLE", "BUILD_FAIL", "TRANSFER_FAIL", "EXECUTE_FAIL"}

-----------------------------------------------------------------------------
(* Pure parts.                                                              *)

InWindowClosed(start, end, h) ==
    IF start <= end THEN start <= h /\ h <= end ELSE h >= start \/ h <= end

\* in_maintenance_window, given the local hour.
InWindow(start, end, h) ==
    IF start <= end THEN start <= h /\ h < end ELSE h >= start \/ h < end

\* Windows whose bounds are hours, as in the template; MaintenanceWindow takes
\* any integers.
HourWindows == \A h \in Hosts : Window[h].start \in 0..23 /\ Window[h].end \in 0..24

\* select_units: naming a unit runs it, excluded or not.
OnlyOf(p) == IF p = Manual THEN OnlyHosts ELSE {}
select_units(p) ==
    SelectSeq(Fleet, LAMBDA h : IF OnlyOf(p) # {} THEN h \in OnlyOf(p) ELSE h \notin Excluded)

\* What SelectSeq returns: the provers have no law of it.
SelectionTyped ==
    \A p \in Procs : select_units(p) \in Seq(Hosts) /\ Len(select_units(p)) <= Len(Fleet)

\* No run is given a unit twice: the registry names every unit once.  Nothing in
\* load_unit_registry checks it; with a name twice units_checked counts entries.
SelectsOnce == \A p \in Procs : IsInjective(select_units(p))

PruneNewest(ids) ==
    {r \in ids : Cardinality({s \in ids : s < r}) >= Retain}

\* select_prunable_runs: whatever ranks beyond the newest Retain.
select_prunable_runs(ids) ==
    {r \in ids : Cardinality({s \in ids : s > r}) >= Retain}

-----------------------------------------------------------------------------
(* Control of a run.                                                        *)

\* The run log can be written only while the session directory is there.
LogAlive(p) == run[p] \in sessions

\* A Driver object lives for one cycle.
Forget(p) ==
    /\ run' = [run EXCEPT ![p] = 0]
    /\ queue' = [queue EXCEPT ![p] = <<>>]
    /\ snap' = [snap EXCEPT ![p] = None]
    /\ copy' = [copy EXCEPT ![p] = None]
    /\ outcomes' = [outcomes EXCEPT ![p] = NoOutcomes]
    /\ exit' = [exit EXCEPT ![p] = EXIT_OK]

\* Where a process goes when its cycle is over, in whatever way: the loop looks
\* at the stop event before it sleeps, an operator's run exits.
AfterCycle(p) ==
    IF p = Manual THEN "down" ELSE IF stop THEN "down" ELSE "sleep"

EndCycle(p) ==
    /\ pc' = [pc EXCEPT ![p] = AfterCycle(p)]
    /\ restart' = IF p = Service /\ stop THEN FALSE ELSE restart
    /\ Forget(p)
    /\ UNCHANGED stop

CanStart(p) ==
    /\ clock <= MaxRuns
    /\ \/ p = Service /\ pc[p] = "loop" /\ ~stop
       \/ p = Manual /\ pc[p] = "down"

\* Driver.__init__ and the start of run: a new session directory and the log.
Mint ==
    /\ sessions' = sessions \cup {clock}
    /\ clock' = clock + 1

\* run, as far as RUN_PLAN: registry and credentials are there, the SMB
\* preflight may already have set the exit code.
Begin(p) ==
    /\ CanStart(p)
    /\ Mint
    /\ run' = [run EXCEPT ![p] = clock]
    /\ pc' = [pc EXCEPT ![p] = "units"]
    /\ queue' = [queue EXCEPT ![p] = select_units(p)]
    /\ snap' = [snap EXCEPT ![p] = reg]
    /\ outcomes' = [outcomes EXCEPT ![p] = NoOutcomes]
    /\ \E smb \in PreflightExits : exit' = [exit EXCEPT ![p] = smb]
    /\ UNCHANGED <<copy, reg, regTmp, lastRun, lastTmp, svc, ops>>

\* A fatal cycle ends the loop.
FatalEndsLoop(p) ==
    /\ CanStart(p)
    /\ Mint
    /\ pc' = [pc EXCEPT ![p] = "down"]
    /\ restart' = IF p = Service THEN FALSE ELSE restart
    /\ UNCHANGED <<driver, stop, reg, regTmp, lastRun, lastTmp, ops>>

\* run: a missing registry or credential, a diverged tree (EXIT_FATAL), or a
\* malformed registry (TypeError, which the loop catches).  _finish is not run.
BeginFatal(p) ==
    /\ CanStart(p)
    /\ Mint
    /\ EndCycle(p)
    /\ UNCHANGED <<reg, regTmp, lastRun, lastTmp, ops>>

\* Any write to the log of a run whose directory is gone raises; the handlers of
\* _process_unit log too, so the exception leaves run, unless Archive below makes
\* the directory again first.
LogLost(p) ==
    /\ pc[p] = "act" \/ (pc[p] = "units" /\ queue[p] # <<>>)
    /\ ~LogAlive(p)
    /\ EndCycle(p)
    /\ UNCHANGED <<files, ops>>

-----------------------------------------------------------------------------
(* One unit.                                                                *)

\* A unit that cannot be connected to leaves the exit code alone.
RecordNoExit(p, h, o) ==
    /\ outcomes' = [outcomes EXCEPT ![p] = [g \in DOMAIN @ \cup {h} |-> IF g = h THEN o ELSE @[g]]]
    /\ exit' = IF pc[p] = "act" /\ o \in Failures THEN [exit EXCEPT ![p] = EXIT_UNIT_FAIL] ELSE exit
    /\ queue' = [queue EXCEPT ![p] = Tail(@)]
    /\ pc' = [pc EXCEPT ![p] = "units"]

\* A failed unit ends the walk.
RecordAndStop(p, h, o) ==
    /\ outcomes' = [outcomes EXCEPT ![p] = [g \in DOMAIN @ \cup {h} |-> IF g = h THEN o ELSE @[g]]]
    /\ exit' = IF o \in Failures THEN [exit EXCEPT ![p] = EXIT_UNIT_FAIL] ELSE exit
    /\ queue' = [queue EXCEPT ![p] = IF o \in Failures THEN <<>> ELSE Tail(@)]
    /\ pc' = [pc EXCEPT ![p] = "units"]

\* activity plus the exit code its caller sets.
Record(p, h, o) ==
    /\ outcomes' = [outcomes EXCEPT ![p] = [g \in DOMAIN @ \cup {h} |-> IF g = h THEN o ELSE @[g]]]
    /\ exit' = IF o \in Failures THEN [exit EXCEPT ![p] = EXIT_UNIT_FAIL] ELSE exit
    /\ queue' = [queue EXCEPT ![p] = Tail(@)]
    /\ pc' = [pc EXCEPT ![p] = "units"]

\* _process_unit, phase 1 and the connect of phase 2.
Unreachable(p) ==
    /\ pc[p] = "units" /\ queue[p] # <<>> /\ LogAlive(p)
    /\ \E o \in {"UNREACHABLE", "FAIL"} \cap Drawn : Record(p, Head(queue[p]), o)
    /\ UNCHANGED <<run, snap, copy, files, svc, ops>>

\* The walk goes one step past the last unit.
VisitPastEnd(p) ==
    /\ pc[p] = "units" /\ LogAlive(p)
    /\ pc' = [pc EXCEPT ![p] = "act"]
    /\ UNCHANGED <<driver, files, svc, ops>>

\* Phase 2: the session is open and the inventory names the unit's MAC, which
\* is compared with the entry this run loaded at its start.  An inventory that
\* fails is only a warning.
Visit(p) ==
    /\ pc[p] = "units" /\ queue[p] # <<>> /\ LogAlive(p)
    /\ \/ Head(queue[p]) \notin snap[p].mac /\ pc' = [pc EXCEPT ![p] = "load"]
       \/ pc' = [pc EXCEPT ![p] = "act"]
    /\ UNCHANGED <<driver, files, svc, ops>>

\* It writes back the entries the run was started with.
PersistSnapshot(p) ==
    /\ pc[p] = "load"
    /\ copy' = [copy EXCEPT ![p] = [snap[p] EXCEPT !.mac = @ \cup {Head(queue[p])}]]
    /\ pc' = [pc EXCEPT ![p] = "tmp"]
    /\ UNCHANGED <<run, queue, snap, outcomes, exit, files, svc, ops>>

\* _persist_mac: load the file again and set this unit's MAC ...
PersistLoad(p) ==
    /\ pc[p] = "load"
    /\ copy' = [copy EXCEPT ![p] = [reg EXCEPT !.mac = @ \cup {Head(queue[p])}]]
    /\ pc' = [pc EXCEPT ![p] = "tmp"]
    /\ UNCHANGED <<run, queue, snap, outcomes, exit, files, svc, ops>>

\* ... write_status_atomic: write the temporary file ...
PersistTmp(p) ==
    /\ pc[p] = "tmp"
    /\ regTmp' = copy[p]
    /\ pc' = [pc EXCEPT ![p] = "put"]
    /\ UNCHANGED <<driver, clock, sessions, reg, lastRun, lastTmp, svc, ops>>

\* ... and replace.  The name is shared: another driver may have moved it away,
\* which is REGISTRY_MAC_WARN and no more.
PersistPut(p) ==
    /\ pc[p] = "put"
    /\ pc' = [pc EXCEPT ![p] = "act"]
    /\ copy' = [copy EXCEPT ![p] = None]
    /\ regTmp' = None
    /\ IF regTmp = None
       THEN UNCHANGED <<reg, snap>>
       ELSE /\ reg' = regTmp
            /\ snap' = [snap EXCEPT ![p].mac = @ \cup {Head(queue[p])}]
    /\ UNCHANGED <<run, queue, outcomes, exit, clock, sessions, lastRun, lastTmp, svc, ops>>

\* The rest of _process_unit.  The window is looked at once, after the build and
\* the classification, at whatever hour it is by then.
Act(p) ==
    /\ pc[p] = "act" /\ LogAlive(p)
    /\ LET h == Head(queue[p])
       IN  \E allowed \in {InWindow(Window[h].start, Window[h].end, hour) : hour \in 0..23} :
             \E o \in Drawn \cap (BeforeGate \cup
                                  (IF allowed THEN AfterGate ELSE {"SKIP_MAINTENANCE"})) :
               Record(p, h, o)
    /\ UNCHANGED <<run, snap, copy, files, svc, ops>>

\* The finally clause: archiving the unit's logs into unit-<host> makes the run's
\* directory again, parents included, if another driver has pruned it.  The unit
\* has logs only if execute came far enough.  A log line lost before this one
\* raised, which is FAIL; the run goes on.
Archive(p) ==
    /\ pc[p] = "act" /\ ~LogAlive(p)
    /\ LET h == Head(queue[p])
       IN  \E hour \in 0..23 :
             /\ InWindow(Window[h].start, Window[h].end, hour)
             /\ \E o \in Drawn \cap {"EXECUTE_FAIL", "FAIL", "OK"} : Record(p, h, o)
    /\ sessions' = sessions \cup {run[p]}
    /\ UNCHANGED <<run, snap, copy, clock, reg, regTmp, lastRun, lastTmp, svc, ops>>

-----------------------------------------------------------------------------
(* _finish.                                                                 *)

Count(p, S) == Cardinality({h \in DOMAIN outcomes[p] : outcomes[p][h] \in S})

Summary(p) ==
    [by |-> p,
     units_checked |-> Len(select_units(p)),
     units_updated |-> Count(p, {"OK"}),
     units_failed |-> Count(p, FailStates),
     unit_outcomes |-> outcomes[p],
     exit_code |-> exit[p]]

\* The summary goes to the shared temporary name ...
FinishTmp(p) ==
    /\ pc[p] = "units" /\ queue[p] = <<>>
    /\ lastTmp' = Summary(p)
    /\ pc' = [pc EXCEPT ![p] = "put_last"]
    /\ UNCHANGED <<driver, clock, sessions, reg, regTmp, lastRun, svc, ops>>

\* ... and is moved into place; if another driver moved it first, this is
\* HEARTBEAT_WRITE_FAIL and the run goes on to retention.
MoveSummary ==
    /\ lastRun' = IF lastTmp = None THEN lastRun ELSE lastTmp
    /\ lastTmp' = None

FinishPut(p) ==
    /\ pc[p] = "put_last" /\ LogAlive(p)
    /\ MoveSummary
    /\ pc' = [pc EXCEPT ![p] = "prune"]
    /\ UNCHANGED <<driver, clock, sessions, reg, regTmp, svc, ops>>

\* The copy in the run's own directory cannot be written if that is gone, nor
\* can the failure be logged: run raises, and there is no retention.
FinishLost(p) ==
    /\ pc[p] = "put_last" /\ ~LogAlive(p)
    /\ MoveSummary
    /\ EndCycle(p)
    /\ UNCHANGED <<clock, sessions, reg, regTmp, ops>>

\* run_retention, where a directory may resist removal, and the end of run.  If
\* its own directory is gone by now RUN_END cannot be logged and run raises.
Prune(p) ==
    /\ pc[p] = "prune"
    /\ \E removed \in SUBSET select_prunable_runs(sessions) : sessions' = sessions \ removed
    /\ EndCycle(p)
    /\ UNCHANGED <<clock, reg, regTmp, lastRun, lastTmp, ops>>

-----------------------------------------------------------------------------
(* The service and its surroundings.                                        *)

\* systemd starts the service, and starts it again after a failure only.
SvcStart ==
    /\ pc[Service] = "down" /\ restart /\ ~stop
    /\ pc' = [pc EXCEPT ![Service] = "loop"]
    /\ UNCHANGED <<driver, files, svc, ops>>

\* SIGTERM or SIGINT: the handler sets the event.
Stop ==
    /\ pc[Service] # "down" /\ ~stop
    /\ stop' = TRUE
    /\ UNCHANGED <<pc, driver, files, restart, ops>>

\* run_loop: the wait between cycles is over, by its interval or by the event.
Wake ==
    /\ pc[Service] = "sleep"
    /\ pc' = [pc EXCEPT ![Service] = "loop"]
    /\ UNCHANGED <<driver, files, svc, ops>>

\* The loop takes the event for an early wake-up and waits again.
LoopWaitsAgain ==
    /\ pc[Service] = "loop" /\ stop
    /\ pc' = [pc EXCEPT ![Service] = "sleep"]
    /\ UNCHANGED <<driver, files, svc, ops>>

\* run_loop: the head of the while, and main's return 0.
LoopExit ==
    /\ pc[Service] = "loop" /\ stop
    /\ pc' = [pc EXCEPT ![Service] = "down"]
    /\ restart' = FALSE
    /\ UNCHANGED <<driver, files, stop, ops>>

\* The process is killed: a reboot, or systemd's SIGKILL when a stop takes
\* longer than TimeoutStopSec.  Temporary files stay behind.
Kill(p) ==
    /\ pc[p] # "down" /\ kills < MaxKills
    /\ kills' = kills + 1
    /\ pc' = [pc EXCEPT ![p] = "down"]
    /\ Forget(p)
    /\ UNCHANGED <<files, svc, edits, raced>>

\* The operator edits the registry by hand; the MACs in it stay.
Edit ==
    /\ edits < MaxEdits
    /\ edits' = edits + 1
    /\ reg' = [reg EXCEPT !.rev = edits + 1]
    /\ raced' = (raced \/ \E p \in Procs : pc[p] \in {"tmp", "put"})
    /\ UNCHANGED <<pc, driver, clock, sessions, regTmp, lastRun, lastTmp, svc, kills>>

-----------------------------------------------------------------------------
Init ==
    /\ pc = [p \in Procs |-> "down"]
    /\ run = [p \in Procs |-> 0]
    /\ queue = [p \in Procs |-> <<>>]
    /\ snap = [p \in Procs |-> None]
    /\ copy = [p \in Procs |-> None]
    /\ outcomes = [p \in Procs |-> NoOutcomes]
    /\ exit = [p \in Procs |-> EXIT_OK]
    /\ clock = 1
    /\ sessions = {}
    /\ reg = [rev |-> 0, mac |-> Recorded]
    /\ regTmp = None
    /\ lastRun = None
    /\ lastTmp = None
    /\ stop = FALSE
    /\ restart = TRUE
    /\ edits = 0
    /\ kills = 0
    /\ raced = FALSE

Step(p) ==
    \/ Begin(p) \/ BeginFatal(p) \/ LogLost(p)
    \/ Unreachable(p) \/ Visit(p)
    \/ PersistLoad(p) \/ PersistTmp(p) \/ PersistPut(p) \/ Act(p) \/ Archive(p)
    \/ FinishTmp(p) \/ FinishPut(p) \/ FinishLost(p) \/ Prune(p)

Loop == SvcStart \/ Wake \/ LoopExit

Next ==
    \/ \E p \in Procs : Step(p) \/ Kill(p)
    \/ Loop \/ Stop \/ Edit

(***************************************************************************)
(* Every phase of a cycle has a timeout and the wait between cycles an     *)
(* interval, so the running service goes on; systemd restarts it.          *)
(***************************************************************************)
Spec == Init /\ [][Next]_vars /\ WF_vars(Step(Service)) /\ WF_vars(Loop)

-----------------------------------------------------------------------------
Registries == [rev : 0..MaxEdits, mac : SUBSET Hosts]
Summaries ==
    UNION {[by : Procs, units_checked : 0..Len(Fleet),
            units_updated : 0..Cardinality(Hosts), units_failed : 0..Cardinality(Hosts),
            unit_outcomes : [D -> Outcomes], exit_code : {EXIT_OK, EXIT_UNIT_FAIL}]
           : D \in SUBSET Hosts}

\* Type invariant: also that a driver inside a run has a run id, a unit at hand
\* wherever it works on one, and a copy of the registry exactly while it is
\* between loading and replacing the file.
TypeOK ==
    /\ pc \in [Procs -> {"down", "loop", "units", "load", "tmp", "put", "act",
                         "put_last", "prune", "sleep"}]
    /\ clock \in 1..(MaxRuns + 1)
    /\ sessions \subseteq 1..(clock - 1)
    /\ reg \in Registries
    /\ regTmp = None \/ regTmp \in Registries
    /\ lastRun = None \/ lastRun \in Summaries
    /\ lastTmp = None \/ lastTmp \in Summaries
    /\ stop \in BOOLEAN /\ restart \in BOOLEAN /\ raced \in BOOLEAN /\ edits \in 0..MaxEdits
    /\ kills \in 0..MaxKills
    /\ \A p \in Procs :
          /\ run[p] \in 0..(clock - 1)
          /\ queue[p] \in Seq(Hosts)
          /\ exit[p] \in {EXIT_OK, EXIT_UNIT_FAIL}
          /\ DOMAIN outcomes[p] \subseteq Hosts /\ Range(outcomes[p]) \subseteq Outcomes
          /\ pc[p] \in {"load", "tmp", "put", "act"} => queue[p] # <<>> /\ run[p] > 0
          /\ IF pc[p] \in {"down", "loop", "sleep"} THEN snap[p] = None
                                                    ELSE snap[p] \in Registries
          /\ IF pc[p] \in {"tmp", "put"} THEN copy[p] \in Registries ELSE copy[p] = None

\* last-run.json accounts for every unit of its run: each planned unit has an
\* outcome and units_checked counts exactly them.  One unit's failure, or another
\* driver finishing at the same time under the same temporary name, never makes
\* a summary that leaves a unit out (driver.run, _process_unit, _finish).
CompleteSummary ==
    lastRun # None =>
        /\ DOMAIN lastRun.unit_outcomes = ToSet(select_units(lastRun.by))
        /\ lastRun.units_checked = Cardinality(DOMAIN lastRun.unit_outcomes)

\* Exit code 0 in last-run.json means all OK or skipped, whatever path a unit
\* left _process_unit by (check_and_provision.py: "0 all OK/SKIPPED").
HonestSummary ==
    (lastRun # None /\ lastRun.exit_code = EXIT_OK) =>
        /\ Range(lastRun.unit_outcomes) \subseteq {"OK", "SKIP", "SKIP_MAINTENANCE"}
        /\ lastRun.units_failed = 0

\* Retention keeps the newest Retain runs, also when several drivers start, die
\* and prune in any order: a session directory is missing only if Retain newer
\* ones are still there (select_prunable_runs).
KeepsNewest ==
    \A r \in 1..(clock - 1) :
        r \notin sessions => Cardinality({s \in sessions : s > r}) >= Retain

\* Recording a MAC does not undo an operator's edit of the registry made during
\* the run, outside the instant between the driver's reload and its replace,
\* even with two drivers writing through one temporary name (_persist_mac).
EditsSurvive == raced \/ reg.rev = edits

\* The window test against its meaning, the cyclic interval [start, end): also
\* across midnight, and with 24 as an end; equal bounds are an empty window.
HoursOf(w) ==
    {h \in 0..23 : (h - w.start) % 24 < (IF w.end = 24 THEN 24 - w.start ELSE (w.end - w.start) % 24)}
WindowIsCyclic ==
    \A start \in 0..23, end \in 0..24, h \in 0..23 :
        InWindow(start, end, h) <=> h \in HoursOf([start |-> start, end |-> end])

\* Nothing behind the gate is done to a unit whose window is empty, and a unit
\* whose window is the whole day is never put off: the two ends of the interval
\* in in_maintenance_window, seen in what the drivers record.  In between, the test
\* agrees with its meaning at every hour.
WindowGates ==
    /\ WindowIsCyclic
    /\ \A p \in Procs : \A h \in DOMAIN outcomes[p] :
          /\ outcomes[p][h] \in AfterGate \ BeforeGate => HoursOf(Window[h]) # {}
          /\ outcomes[p][h] = "SKIP_MAINTENANCE" => HoursOf(Window[h]) # 0..23

\* A stop signal ends the service: it finishes its cycle or wakes, and leaves.
StopHonoured == stop ~> pc[Service] = "down"

\* Unless it was told to stop the service is always up again: no fatal or
\* raising cycle makes the loop leave with the status systemd does not restart.
ServiceStaysUp == []<>(stop \/ pc[Service] # "down")
=============================================================================
