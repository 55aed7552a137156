------------------------- MODULE ProvisioningProofs -------------------------
(***************************************************************************)
(* What the execute lease excludes, that nothing but expiry, a stale read   *)
(* or a process of the same run takes it from a working execute, and that   *)
(* the availability lease is given back on every exit: for every number of  *)
(* drivers, runs and processes and any number of faults.  That only whole   *)
(* payloads are executed is proved for one driver with prompt launches.     *)
(***************************************************************************)
EXTENDS Provisioning, TLAPS

\* Whoever acts has a run: a driver in its cycle, and a process past the
\* reading of detached-run.json, which was written before it was launched.
Named ==
  /\ \A d \in Drivers : drv[d].pc # "idle" => drv[d].run \in Runs
  /\ \A d \in Drivers : drv[d].pc = "register" => cfg \in Runs
  /\ \A p \in Procs : proc[p].pc # "none" => cfg \in Runs
  /\ \A p \in Procs : proc[p].pc \notin {"none", "starting"} => proc[p].run \in Runs

TInv == TypeOK /\ Named

-----------------------------------------------------------------------------
(* Type correctness                                                        *)

\* Moving a driver on, or ending its cycle, keeps the drivers well typed.
LEMMA DriverMoves ==
  ASSUME drv \in DriverType, NEW d \in Drivers
  PROVE  /\ \A pc \in DriverPcs : Goto(d, pc) => drv' \in DriverType
         /\ \A pc \in DriverPcs, h \in BOOLEAN :
               drv' = [drv EXCEPT ![d].pc = pc, ![d].held = h] => drv' \in DriverType
         /\ \A r \in Runs :
               drv' = [drv EXCEPT ![d] = [pc |-> "inspect", run |-> r, held |-> FALSE]]
                 => drv' \in DriverType
         /\ EndCycle(d) => drv' \in DriverType
<1>1. ASSUME NEW pc \in DriverPcs, Goto(d, pc) PROVE drv' \in DriverType
  BY <1>1 DEF Goto, DriverType
<1>2. ASSUME NEW pc \in DriverPcs, NEW h \in BOOLEAN,
             drv' = [drv EXCEPT ![d].pc = pc, ![d].held = h]
      PROVE  drv' \in DriverType
  BY <1>2 DEF DriverType
<1>3. ASSUME NEW r \in Runs,
             drv' = [drv EXCEPT ![d] = [pc |-> "inspect", run |-> r, held |-> FALSE]]
      PROVE  drv' \in DriverType
  BY <1>3 DEF DriverType, DriverPcs, RunOrNone
<1>4. ASSUME EndCycle(d) PROVE drv' \in DriverType
  BY <1>4 DEF EndCycle, IdleDriver, DriverType, DriverPcs, RunOrNone
<1>5. QED
  BY <1>1, <1>2, <1>3, <1>4

\* Moving a process on, giving it an exit code or ending it keeps the
\* processes well typed.
LEMMA ProcMoves ==
  ASSUME proc \in ProcType, NEW p \in Procs
  PROVE  /\ \A pc \in ProcPcs : ProcGoto(p, pc) => proc' \in ProcType
         /\ \A pc \in ProcPcs, c \in Codes : ProcExit(p, pc, c) => proc' \in ProcType
         /\ \A pc \in ProcPcs, r \in RunOrNone :
               proc' = [proc EXCEPT ![p] = [pc |-> pc, run |-> r, code |-> 0]]
                 => proc' \in ProcType
         /\ proc' = [proc EXCEPT ![p] = NoProc] => proc' \in ProcType
         /\ Launch(p) => proc' \in ProcType
<1>1. ASSUME NEW pc \in ProcPcs, ProcGoto(p, pc) PROVE proc' \in ProcType
  BY <1>1 DEF ProcGoto, ProcType
<1>2. ASSUME NEW pc \in ProcPcs, NEW c \in Codes, ProcExit(p, pc, c)
      PROVE  proc' \in ProcType
  BY <1>2 DEF ProcExit, ProcType
<1>3. ASSUME NEW pc \in ProcPcs, NEW r \in RunOrNone,
             proc' = [proc EXCEPT ![p] = [pc |-> pc, run |-> r, code |-> 0]]
      PROVE  proc' \in ProcType
  BY <1>3 DEF ProcType, Codes
<1>4. ASSUME proc' = [proc EXCEPT ![p] = NoProc] PROVE proc' \in ProcType
  BY <1>4 DEF NoProc, ProcType, ProcPcs, RunOrNone, Codes
<1>5. ASSUME Launch(p) PROVE proc' \in ProcType
  BY <1>5 DEF Launch, ProcType, ProcPcs
<1>6. QED
  BY <1>1, <1>2, <1>3, <1>4, <1>5

\* The values the unit's files are reset to have the files' types.
LEMMA FileValues ==
  /\ NoLease \in LeaseType
  /\ NoResult \in ResultType
  /\ [p \in Procs |-> NoProc] \in ProcType
  /\ \A o \in RunOrNone, a \in BOOLEAN : [available |-> a, owner |-> o] \in AvailType
  /\ \A s \in {"running", "done"}, c \in Codes : [status |-> s, code |-> c] \in ResultType
BY DEF NoLease, NoResult, NoProc, LeaseType, ResultType, ProcType, AvailType, ProcPcs,
       RunOrNone, Codes

\* The state of drivers, processes and unit files is well typed from the start.
LEMMA InitTypeOK == Init => TypeOK
<1> SUFFICES ASSUME Init PROVE TypeOK
  OBVIOUS
<1>1. drv \in DriverType
  BY DEF Init, DriverType, IdleDriver, DriverPcs, RunOrNone
<1>2. availability \in AvailType /\ result \in ResultType /\ lease \in LeaseType
  BY FileValues DEF Init, RunOrNone
<1>3. staging \in StageType /\ proc \in ProcType
  BY FileValues DEF Init, StageType
<1>4. faults \in 0..MaxFaults
  BY ProvisioningAssumption DEF Init
<1>5. QED
  BY <1>1, <1>2, <1>3, <1>4 DEF Init, TypeOK, RunOrNone

\* The fault counter stays within its bound.
LEMMA FaultBound ==
  ASSUME faults \in 0..MaxFaults, Fault \/ NoFault
  PROVE  faults' \in 0..MaxFaults
BY ProvisioningAssumption DEF Fault, NoFault

\* A cycle begins under a run id that nothing names.
LEMMA BeginsFresh ==
  ASSUME NEW d \in Drivers, Begin(d)
  PROVE  \E r \in Runs : /\ ~InUse(r)
                         /\ drv' = [drv EXCEPT ![d] = [pc |-> "inspect", run |-> r, held |-> FALSE]]
<1> DEFINE named == {r \in Runs : InUse(r)}
           fresh == CHOOSE r \in Runs \ named : TRUE
<1>1. fresh \in Runs \ named
  BY DEF Begin
<1>2. drv' = [drv EXCEPT ![d] = [pc |-> "inspect", run |-> fresh, held |-> FALSE]]
  BY DEF Begin
<1>3. QED
  BY <1>1, <1>2

\* Every step of a driver, a process or the environment keeps it so.
LEMMA NextTypeOK == TInv /\ [Next]_vars => TypeOK'
<1> SUFFICES ASSUME TypeOK, Named, [Next]_vars PROVE TypeOK'
  BY DEF TInv
<1> USE DEF TypeOK
<1>1. ASSUME NEW d \in Drivers, Begin(d) PROVE TypeOK'
  BY <1>1, BeginsFresh, DriverMoves, FaultBound DEF Begin, StageType, unitFiles, history
<1>2. ASSUME NEW d \in Drivers, Inspect(d) PROVE TypeOK'
  BY <1>2, DriverMoves, FaultBound DEF Inspect, At, Named, DriverPcs, unitFiles, history
<1>3. ASSUME NEW d \in Drivers, SetUnavailable(d) PROVE TypeOK'
  BY <1>3, DriverMoves, FileValues, FaultBound DEF SetUnavailable, DriverPcs, DriverType, RunOrNone, unitFiles, history
<1>3a. ASSUME NEW d \in Drivers, TakeLease(d) PROVE TypeOK'
  BY <1>3a, DriverMoves, FaultBound DEF TakeLease, DriverPcs, unitFiles, history
<1>4. ASSUME NEW d \in Drivers, PullCleanup(d) PROVE TypeOK'
  BY <1>4, DriverMoves, FaultBound DEF PullCleanup, DriverPcs, StageType, unitFiles, history
<1>5. ASSUME NEW d \in Drivers, PullCopy(d) PROVE TypeOK'
  BY <1>5, DriverMoves, FaultBound DEF PullCopy, DriverPcs, StageType, unitFiles, history
<1>6. ASSUME NEW d \in Drivers, WriteDetachedInputs(d) PROVE TypeOK'
  BY <1>6, DriverMoves, FaultBound DEF WriteDetachedInputs, DriverPcs, DriverType, unitFiles, history
<1>7. ASSUME NEW d \in Drivers, Register(d) PROVE TypeOK'
  BY <1>7, DriverMoves, ProcMoves, FileValues, FaultBound DEF Register, DriverPcs, Launch, unitFiles, history
<1>8. ASSUME NEW d \in Drivers, Poll(d) PROVE TypeOK'
  BY <1>8, DriverMoves, FaultBound DEF Poll, DriverPcs, unitFiles, history
<1>9. ASSUME NEW d \in Drivers, Smoke(d) PROVE TypeOK'
  BY <1>9, DriverMoves, FaultBound DEF Smoke, DriverPcs, unitFiles, history
<1>10. ASSUME NEW d \in Drivers, SetAvailable(d) PROVE TypeOK'
  BY <1>10, DriverMoves, FileValues, FaultBound DEF SetAvailable, DriverPcs, RunOrNone, unitFiles, history
<1>10a. ASSUME NEW d \in Drivers, DropLease(d) PROVE TypeOK'
  BY <1>10a, DriverMoves, FaultBound DEF DropLease, DriverPcs, unitFiles, history
<1>11. ASSUME NEW d \in Drivers, ReleaseAndArchive(d) PROVE TypeOK'
  BY <1>11, DriverMoves, FileValues, FaultBound DEF ReleaseAndArchive, RunOrNone, unitFiles, history
<1>12. ASSUME NEW d \in Drivers, EndEarly(d) PROVE TypeOK'
  BY <1>12, DriverMoves, FaultBound DEF EndEarly, unitFiles, history
<1>13. ASSUME NEW d \in Drivers, PullFails(d) PROVE TypeOK'
  BY <1>13, DriverMoves, FaultBound DEF PullFails, DriverPcs, StageType, unitFiles, history
<1>14. ASSUME NEW d \in Drivers, RegisterRerun(d) PROVE TypeOK'
  BY <1>14, ProcMoves, FileValues, FaultBound DEF RegisterRerun, Launch, unitFiles, history
<1>15. ASSUME NEW d \in Drivers, RegisterWithoutStart(d) PROVE TypeOK'
  BY <1>15, DriverMoves, FileValues, FaultBound DEF RegisterWithoutStart, DriverPcs, unitFiles, history
<1>16. ASSUME NEW d \in Drivers, PollTimeout(d) PROVE TypeOK'
  BY <1>16, DriverMoves, FaultBound DEF PollTimeout, DriverPcs, unitFiles, history
<1>17. ASSUME NEW d \in Drivers, ReleaseLost(d) PROVE TypeOK'
  BY <1>17, DriverMoves, FaultBound DEF ReleaseLost, unitFiles, history
<1>18. ASSUME NEW d \in Drivers, SessionLost(d) PROVE TypeOK'
  BY <1>18, DriverMoves, FaultBound DEF SessionLost, At, Named, DriverPcs, unitFiles, history
<1>19. ASSUME NEW d \in Drivers, Crash(d) PROVE TypeOK'
  BY <1>19, DriverMoves, FaultBound DEF Crash, unitFiles, history
<1>20. ASSUME NEW p \in Procs, RunnerStarts(p) PROVE TypeOK'
  BY <1>20, ProcMoves, FileValues, FaultBound DEF RunnerStarts, ProcPcs, Codes, unitFiles, history
<1>21. ASSUME NEW p \in Procs, CheckLease(p) PROVE TypeOK'
  BY <1>21, ProcMoves, FaultBound DEF CheckLease, ProcPcs, Codes, unitFiles, history
<1>22. ASSUME NEW p \in Procs, AcquireLease(p) PROVE TypeOK'
  BY <1>22, ProcMoves, FaultBound DEF AcquireLease, Overwrites, Holder, Executing, ProcPcs, Codes, ProcType, LeaseType, unitFiles, history
<1>23. ASSUME NEW p \in Procs, WorkSucceeds(p) PROVE TypeOK'
  BY <1>23, ProcMoves, FaultBound DEF WorkSucceeds, ProcAt, Named, ProcPcs, Codes, RecordRun, unitFiles, history
<1>24. ASSUME NEW p \in Procs, WorkFails(p) PROVE TypeOK'
  BY <1>24, ProcMoves, FaultBound DEF WorkFails, ProcPcs, Codes, RecordRun, unitFiles, history
<1>25. ASSUME NEW p \in Procs, ReleaseLease(p) PROVE TypeOK'
  BY <1>25, ProcMoves, FileValues, FaultBound DEF ReleaseLease, ProcPcs, unitFiles, history
<1>25a. ASSUME NEW p \in Procs, RemoveLease(p) PROVE TypeOK'
  BY <1>25a, ProcMoves, FileValues, FaultBound DEF RemoveLease, Holder, Executing, ProcPcs, unitFiles, history
<1>26. ASSUME NEW p \in Procs, Report(p) PROVE TypeOK'
  BY <1>26, ProcMoves, FileValues, FaultBound DEF Report, ProcType, unitFiles, history
<1>27. CASE LeaseExpires
  BY <1>27, FaultBound DEF LeaseExpires, Holder, Executing, LeaseType, unitFiles, history
<1>28. CASE Reboot
  BY <1>28, FileValues, FaultBound DEF Reboot, unitFiles, history
<1>29. CASE PayloadChanges
  BY <1>29, FaultBound DEF PayloadChanges, unitFiles, history
<1>30. CASE LogsCleaned
  BY <1>30, FaultBound DEF LogsCleaned, unitFiles, history
<1>31. CASE UNCHANGED vars
  BY <1>31 DEF vars, unitFiles, history
<1>32. QED
  BY <1>1, <1>2, <1>3, <1>4, <1>5, <1>6, <1>7, <1>8, <1>9, <1>10, <1>11,
     <1>12, <1>13, <1>14, <1>15, <1>16, <1>17, <1>18, <1>19, <1>20,
     <1>21, <1>22, <1>23, <1>24, <1>25, <1>26, <1>27, <1>28, <1>29,
     <1>30, <1>31, <1>3a, <1>10a, <1>25a DEF Next, DriverStep, DriverFault, ProcStep, Environment

\* No step lets a driver or a process act without a run.
LEMMA NextNamed == TInv /\ [Next]_vars => Named'
<1> SUFFICES ASSUME TypeOK, Named, [Next]_vars PROVE Named'
  BY DEF TInv
<1> USE DEF TypeOK, Named, DriverType, ProcType
<1>1. ASSUME NEW d \in Drivers, Begin(d) PROVE Named'
  BY <1>1, BeginsFresh DEF Begin, At, unitFiles, history
<1>2. ASSUME NEW d \in Drivers, Inspect(d) PROVE Named'
  BY <1>2 DEF Inspect, At, Goto, EndCycle, IdleDriver, unitFiles, history
<1>3. ASSUME NEW d \in Drivers, SetUnavailable(d) PROVE Named'
  BY <1>3 DEF SetUnavailable, At, Goto, unitFiles, history
<1>3a. ASSUME NEW d \in Drivers, TakeLease(d) PROVE Named'
  BY <1>3a DEF TakeLease, At, unitFiles, history
<1>4. ASSUME NEW d \in Drivers, PullCleanup(d) PROVE Named'
  BY <1>4 DEF PullCleanup, At, Goto, unitFiles, history
<1>5. ASSUME NEW d \in Drivers, PullCopy(d) PROVE Named'
  BY <1>5 DEF PullCopy, At, Goto, unitFiles, history
<1>6. ASSUME NEW d \in Drivers, WriteDetachedInputs(d) PROVE Named'
  BY <1>6 DEF WriteDetachedInputs, At, Goto, unitFiles, history
<1>7. ASSUME NEW d \in Drivers, Register(d) PROVE Named'
  BY <1>7 DEF Register, At, Goto, Launch, NoResult, unitFiles, history
<1>8. ASSUME NEW d \in Drivers, Poll(d) PROVE Named'
  BY <1>8 DEF Poll, At, Goto, LEASE_HELD, unitFiles, history
<1>9. ASSUME NEW d \in Drivers, Smoke(d) PROVE Named'
  BY <1>9 DEF Smoke, At, Goto, unitFiles, history
<1>10. ASSUME NEW d \in Drivers, SetAvailable(d) PROVE Named'
  BY <1>10 DEF SetAvailable, At, Goto, unitFiles, history
<1>10a. ASSUME NEW d \in Drivers, DropLease(d) PROVE Named'
  BY <1>10a DEF DropLease, At, unitFiles, history
<1>11. ASSUME NEW d \in Drivers, ReleaseAndArchive(d) PROVE Named'
  BY <1>11 DEF ReleaseAndArchive, At, EndCycle, IdleDriver, unitFiles, history
<1>12. ASSUME NEW d \in Drivers, EndEarly(d) PROVE Named'
  BY <1>12 DEF EndEarly, At, EndCycle, IdleDriver, unitFiles, history
<1>13. ASSUME NEW d \in Drivers, PullFails(d) PROVE Named'
  BY <1>13 DEF PullFails, At, Goto, unitFiles, history
<1>14. ASSUME NEW d \in Drivers, RegisterRerun(d) PROVE Named'
  BY <1>14 DEF RegisterRerun, At, Launch, NoResult, unitFiles, history
<1>15. ASSUME NEW d \in Drivers, RegisterWithoutStart(d) PROVE Named'
  BY <1>15 DEF RegisterWithoutStart, At, Goto, NoResult, unitFiles, history
<1>16. ASSUME NEW d \in Drivers, PollTimeout(d) PROVE Named'
  BY <1>16 DEF PollTimeout, At, Goto, unitFiles, history
<1>17. ASSUME NEW d \in Drivers, ReleaseLost(d) PROVE Named'
  BY <1>17 DEF ReleaseLost, At, EndCycle, IdleDriver, unitFiles, history
<1>18. ASSUME NEW d \in Drivers, SessionLost(d) PROVE Named'
  BY <1>18 DEF SessionLost, Goto, unitFiles, history
<1>19. ASSUME NEW d \in Drivers, Crash(d) PROVE Named'
  BY <1>19 DEF Crash, At, EndCycle, IdleDriver, unitFiles, history
<1>20. ASSUME NEW p \in Procs, RunnerStarts(p) PROVE Named'
  BY <1>20 DEF RunnerStarts, ProcAt, NoProc, unitFiles, history
<1>21. ASSUME NEW p \in Procs, CheckLease(p) PROVE Named'
  BY <1>21 DEF CheckLease, ProcAt, ProcExit, ProcGoto, unitFiles, history
<1>22. ASSUME NEW p \in Procs, AcquireLease(p) PROVE Named'
  BY <1>22 DEF AcquireLease, ProcAt, ProcExit, ProcGoto, unitFiles, history
<1>23. ASSUME NEW p \in Procs, WorkSucceeds(p) PROVE Named'
  BY <1>23 DEF WorkSucceeds, ProcAt, ProcExit, RecordRun, unitFiles, history
<1>24. ASSUME NEW p \in Procs, WorkFails(p) PROVE Named'
  BY <1>24 DEF WorkFails, ProcAt, ProcExit, RecordRun, unitFiles, history
<1>25. ASSUME NEW p \in Procs, ReleaseLease(p) PROVE Named'
  BY <1>25 DEF ReleaseLease, ProcAt, ProcGoto, NoLease, unitFiles, history
<1>25a. ASSUME NEW p \in Procs, RemoveLease(p) PROVE Named'
  BY <1>25a DEF RemoveLease, ProcAt, ProcGoto, unitFiles, history
<1>26. ASSUME NEW p \in Procs, Report(p) PROVE Named'
  BY <1>26 DEF Report, ProcAt, NoProc, unitFiles, history
<1>27. CASE LeaseExpires
  BY <1>27 DEF LeaseExpires, unitFiles, history
<1>28. CASE Reboot
  BY <1>28 DEF Reboot, NoProc, unitFiles, history
<1>29. CASE PayloadChanges
  BY <1>29 DEF PayloadChanges, unitFiles, history
<1>30. CASE LogsCleaned
  BY <1>30 DEF LogsCleaned, unitFiles, history
<1>31. CASE UNCHANGED vars
  BY <1>31 DEF vars, unitFiles, history
<1>32. QED
  BY <1>1, <1>2, <1>3, <1>4, <1>5, <1>6, <1>7, <1>8, <1>9, <1>10, <1>11,
     <1>12, <1>13, <1>14, <1>15, <1>16, <1>17, <1>18, <1>19, <1>20,
     <1>21, <1>22, <1>23, <1>24, <1>25, <1>26, <1>27, <1>28, <1>29,
     <1>30, <1>31, <1>3a, <1>10a, <1>25a DEF Next, DriverStep, DriverFault, ProcStep, Environment

\* TInv is inductive.
LEMMA TypeInvariance == Spec => []TInv
<1>1. Init => TInv
  BY InitTypeOK DEF Init, TInv, Named, IdleDriver, NoProc
<1>2. TInv /\ [Next]_vars => TInv'
  BY NextTypeOK, NextNamed DEF TInv
<1>3. QED
  BY <1>1, <1>2, PTL DEF Spec

\* The specification is well typed for every value of its constants.
THEOREM TypeCorrect == Spec => []TypeOK
<1>1. TInv => TypeOK
  BY DEF TInv
<1>2. QED
  BY <1>1, TypeInvariance, PTL

-----------------------------------------------------------------------------
(* The execute lease                                                       *)

\* Why nothing else takes the lease away: a worker that nobody has overtaken
\* holds it; a process that read it before it writes it, and read it in time,
\* knows that whoever works has lost it; and one that is about to remove it,
\* and read it in time, will find its own.
LeaseInv ==
  /\ overtaken \subseteq Executing
  /\ WorkerHoldsLease
  /\ \A p \in Procs \ late : proc[p].pc = "acquiring" => Executing \subseteq overtaken
  /\ \A p \in Procs \ late : proc[p].pc = "removing" =>
        lease = NoLease \/ lease.run = proc[p].run

\* A process that starts to write or remove the lease has just read it.
LEMMA LeaseStutters ==
  ASSUME LeaseInv, UNCHANGED <<lease, late, overtaken>>,
         \A p \in Procs : \/ proc'[p] = proc[p]
                          \/ /\ proc[p].pc # "working"
                             /\ proc'[p].pc \notin {"acquiring", "working", "removing"}
  PROVE  LeaseInv'
<1>1. Executing' = Executing
  BY DEF Executing
<1>2. \A p \in Executing : proc'[p] = proc[p]
  BY DEF Executing
<1>3. WorkerHoldsLease'
  BY <1>1, <1>2 DEF LeaseInv, WorkerHoldsLease
<1>4. QED
  BY <1>1, <1>3 DEF LeaseInv

\* Checking the lease.
LEMMA CheckLeaseInv ==
  ASSUME TInv, LeaseInv, NEW p \in Procs, CheckLease(p)
  PROVE  LeaseInv'
<1> USE DEF TInv, TypeOK, ProcType
<1>1. proc[p].pc = "checking" /\ UNCHANGED <<lease, late, overtaken>>
  BY DEF CheckLease, ProcAt, unitFiles, history
<1>2. CASE LeaseHeld
  BY <1>1, <1>2, LeaseStutters DEF CheckLease, ProcExit
<1>3. CASE ~LeaseHeld
  <2>1. Executing \subseteq overtaken
    BY <1>3, ProvisioningAssumption DEF LeaseInv, WorkerHoldsLease, LeaseHeld, PidAlive, Executing
  <2>2. proc' = [proc EXCEPT ![p].pc = "acquiring"]
    BY <1>3 DEF CheckLease, ProcGoto
  <2>3. Executing' = Executing
    BY <1>1, <2>2 DEF Executing
  <2>4. QED
    BY <1>1, <2>1, <2>2, <2>3 DEF LeaseInv, WorkerHoldsLease
<1>4. QED
  BY <1>2, <1>3

\* Writing the lease.
LEMMA AcquireLeaseInv ==
  ASSUME TInv, LeaseInv, NEW p \in Procs, AcquireLease(p)
  PROVE  LeaseInv'
<1> USE DEF TInv, TypeOK, ProcType
<1>1. /\ proc[p].pc = "acquiring" /\ p \notin Executing /\ p \notin overtaken
      /\ lease' = [run |-> proc[p].run, pid |-> p, fresh |-> TRUE]
  BY DEF AcquireLease, ProcAt, LeaseInv, Executing
<1>2. /\ \A q \in Procs \ {p} : proc'[q] = proc[q]
      /\ proc'[p].run = proc[p].run /\ proc'[p].pc \in {"working", "releasing"}
  BY DEF AcquireLease, ProcGoto, ProcExit
<1>3. Executing' \ {p} = Executing
  BY <1>1, <1>2 DEF Executing
<1>4. Executing \subseteq overtaken'
  BY <1>1 DEF AcquireLease, Overwrites, Holder, LeaseInv, WorkerHoldsLease, Executing
<1>5. overtaken' \subseteq Executing
  BY DEF AcquireLease, Overwrites, Holder, LeaseInv
<1>6. \A q \in Procs \ {p} : q \notin late' => proc[q].pc \notin {"acquiring", "removing"}
  BY DEF AcquireLease, Overwrites
<1>7. WorkerHoldsLease'
  BY <1>1, <1>2, <1>3, <1>4 DEF WorkerHoldsLease
<1>8. QED
  BY <1>2, <1>3, <1>5, <1>6, <1>7 DEF LeaseInv

\* Reading the lease at the end.
LEMMA ReleaseLeaseInv ==
  ASSUME TInv, LeaseInv, NEW p \in Procs, ReleaseLease(p)
  PROVE  LeaseInv'
<1> USE DEF TInv, TypeOK, ProcType
<1>1. proc[p].pc = "releasing" /\ UNCHANGED <<lease, overtaken>> /\ late \subseteq late'
  BY DEF ReleaseLease, ProcAt, unitFiles
<1>2. /\ \A q \in Procs \ {p} : proc'[q] = proc[q]
      /\ proc'[p].run = proc[p].run /\ proc'[p].pc \in {"removing", "reporting"}
      /\ proc'[p].pc = "removing" => lease.run = proc[p].run \/ p \in late'
  BY DEF ReleaseLease, ProcGoto
<1>3. Executing' = Executing /\ \A q \in Executing : proc'[q] = proc[q]
  BY <1>1, <1>2 DEF Executing
<1>4. WorkerHoldsLease'
  BY <1>1, <1>3 DEF LeaseInv, WorkerHoldsLease
<1>5. QED
  BY <1>1, <1>2, <1>3, <1>4 DEF LeaseInv

\* Removing it.
LEMMA RemoveLeaseInv ==
  ASSUME TInv, LeaseInv, NEW p \in Procs, RemoveLease(p)
  PROVE  LeaseInv'
<1> USE DEF TInv, TypeOK, ProcType
<1>1. proc[p].pc = "removing" /\ lease' = NoLease /\ late' = late \ {p}
  BY DEF RemoveLease, ProcAt
<1>2. /\ \A q \in Procs \ {p} : proc'[q] = proc[q]
      /\ proc'[p].run = proc[p].run /\ proc'[p].pc = "reporting"
  BY DEF RemoveLease, ProcGoto
<1>3. Executing' = Executing
  BY <1>1, <1>2 DEF Executing
<1>4. overtaken' \subseteq Executing /\ overtaken \subseteq overtaken'
  BY DEF RemoveLease, Holder, LeaseInv
<1>5. Executing \subseteq overtaken'
  <2>1. SUFFICES ASSUME NEW q \in Executing \ overtaken PROVE q \in overtaken'
    BY <1>4
  <2>2. lease = [run |-> proc[q].run, pid |-> q, fresh |-> TRUE] /\ q \in Holder
    BY DEF LeaseInv, WorkerHoldsLease, Holder
  <2>3. lease # NoLease /\ (p \in late \/ lease.run = proc[p].run)
    BY <1>1, <2>2 DEF LeaseInv, NoLease
  <2>4. QED
    BY <2>2, <2>3 DEF RemoveLease
<1>6. QED
  BY <1>1, <1>2, <1>3, <1>4, <1>5 DEF LeaseInv, WorkerHoldsLease

\* Every step preserves it, whatever overlaps, expires or is launched twice.
LEMMA NextLeaseInv == TInv /\ LeaseInv /\ [Next]_vars => LeaseInv'
<1> SUFFICES ASSUME TInv, LeaseInv, [Next]_vars PROVE LeaseInv'
  OBVIOUS
<1> USE DEF TInv, TypeOK, ProcType, LeaseType
<1>1. ASSUME UNCHANGED <<proc, lease, late, overtaken>> PROVE LeaseInv'
  BY <1>1, LeaseStutters
<1>2. ASSUME NEW d \in Drivers, DriverStep(d) \/ DriverFault(d) PROVE LeaseInv'
  <2>1. CASE Register(d) \/ RegisterRerun(d)
    <3>1. /\ UNCHANGED <<lease, late, overtaken>>
          /\ \E p \in Procs : proc[p].pc = "none" /\ proc' = [proc EXCEPT ![p].pc = "starting"]
      BY <2>1 DEF Register, RegisterRerun, Launch, history
    <3>2. QED
      BY <3>1, LeaseStutters
  <2>2. CASE ~(Register(d) \/ RegisterRerun(d))
    <3>1. UNCHANGED <<proc, lease, late, overtaken>>
      BY <1>2, <2>2 DEF DriverStep, DriverFault, Begin, Inspect, SetUnavailable, TakeLease, PullCleanup,
           PullCopy, WriteDetachedInputs, Poll, Smoke, SetAvailable, DropLease, ReleaseAndArchive, EndEarly,
           PullFails, RegisterWithoutStart, PollTimeout, ReleaseLost, SessionLost, Crash, unitFiles, history
    <3>2. QED
      BY <1>1, <3>1
  <2>3. QED
    BY <2>1, <2>2
<1>3. ASSUME NEW p \in Procs, RunnerStarts(p) \/ Report(p) PROVE LeaseInv'
  <2>1. /\ UNCHANGED <<lease, late, overtaken>>
        /\ proc[p].pc # "working"
        /\ \A q \in Procs \ {p} : proc'[q] = proc[q]
        /\ proc'[p].pc \in {"checking", "reporting", "none"}
    BY <1>3 DEF RunnerStarts, Report, ProcAt, NoProc, history
  <2>2. QED
    BY <2>1, LeaseStutters
<1>4. ASSUME NEW p \in Procs, WorkSucceeds(p) \/ WorkFails(p) PROVE LeaseInv'
  <2>1. /\ UNCHANGED <<lease, late>> /\ overtaken' = overtaken \ {p}
        /\ \A q \in Procs \ {p} : proc'[q] = proc[q]
        /\ proc'[p].pc = "releasing"
    <3>1. CASE WorkSucceeds(p)
      BY <3>1 DEF WorkSucceeds, ProcExit
    <3>2. CASE WorkFails(p)
      BY <3>2 DEF WorkFails, ProcExit
    <3>3. QED
      BY <1>4, <3>1, <3>2
  <2>2. Executing' = Executing \ {p} /\ \A q \in Executing' : proc'[q] = proc[q]
    BY <2>1 DEF Executing
  <2>3. WorkerHoldsLease'
    BY <2>1, <2>2 DEF LeaseInv, WorkerHoldsLease
  <2>4. QED
    BY <2>1, <2>2, <2>3 DEF LeaseInv
<1>5. CASE LeaseExpires
  <2>1. /\ UNCHANGED <<proc, late>> /\ lease' = [lease EXCEPT !.fresh = FALSE]
        /\ overtaken' = overtaken \cup Holder /\ lease # NoLease
    BY <1>5 DEF LeaseExpires, NoLease
  <2>2. Executing' = Executing /\ Executing \subseteq overtaken' /\ overtaken' \subseteq Executing
    BY <2>1 DEF Executing, Holder, LeaseInv, WorkerHoldsLease
  <2>3. lease'.run = lease.run
    BY <2>1
  <2>4. QED
    BY <2>1, <2>2, <2>3 DEF LeaseInv, WorkerHoldsLease
<1>6. CASE Reboot
  <2>1. overtaken' = {} /\ \A p \in Procs : proc'[p].pc = "none"
    BY <1>6 DEF Reboot, NoProc
  <2>2. QED
    BY <2>1 DEF LeaseInv, WorkerHoldsLease, Executing
<1>7. CASE PayloadChanges \/ LogsCleaned \/ UNCHANGED vars
  BY <1>1, <1>7 DEF PayloadChanges, LogsCleaned, vars, unitFiles, history
<1>8. QED
  BY <1>2, <1>3, <1>4, <1>5, <1>6, <1>7, CheckLeaseInv, AcquireLeaseInv, ReleaseLeaseInv, RemoveLeaseInv
     DEF Next, ProcStep, Environment

\* The lease invariant holds throughout.
LEMMA LeaseInvariance == Spec => []LeaseInv
<1>1. Init => LeaseInv
  <2>1. Init => overtaken = {} /\ \A p \in Procs : proc[p].pc = "none"
    BY DEF Init, NoProc
  <2>2. QED
    BY <2>1 DEF LeaseInv, WorkerHoldsLease, Executing
<1>2. QED
  BY <1>1, NextLeaseInv, TypeInvariance, PTL DEF Spec

\* A working execute owns the lease file, for any number of drivers, until the
\* lease expires, or a process that read it too early, or one of its own run,
\* writes or removes it.
THEOREM WorkerKeepsLease == Spec => []WorkerHoldsLease
<1>1. LeaseInv => WorkerHoldsLease
  BY DEF LeaseInv
<1>2. QED
  BY <1>1, LeaseInvariance, PTL

\* So two executes that have their leases still never work at once: of any two
\* that do, one has been overtaken in one of those ways.
THEOREM LeaseExcludes == Spec => [](\A p, q \in Executing \ overtaken : p = q)
<1>1. LeaseInv => \A p, q \in Executing \ overtaken : p = q
  BY DEF LeaseInv, WorkerHoldsLease
<1>2. QED
  BY <1>1, LeaseInvariance, PTL

\* The finally block of an execute that looked at the lease in time removes no
\* lease but its own run's, whatever overlaps, expires or crashes.
THEOREM TakeoverSafe == Spec => TakeoverKeepsLease
<1>1. ASSUME LeaseInv, NEW p \in Procs, proc[p].pc = "removing", lease.pid \in Executing
      PROVE  p \in late \/ lease.run = proc[p].run
  BY <1>1, ProvisioningAssumption DEF LeaseInv, NoLease, Executing
<1>2. LeaseInv /\ [Next]_vars =>
        [\A p \in Procs : /\ proc[p].pc = "removing" /\ proc'[p].pc = "reporting"
                          /\ lease.pid \in Executing
                          => p \in late \/ lease.run = proc[p].run]_vars
  BY <1>1
<1>3. QED
  BY <1>2, LeaseInvariance, PTL DEF Spec, TakeoverKeepsLease

-----------------------------------------------------------------------------
(* The availability lease                                                  *)

\* A cycle that does not hold the unit does not own its availability, unless it
\* is about to note that it does or broke off there; no two cycles share a run
\* id.
Owned ==
  \A d \in Drivers :
    /\ ~At(d, "idle") /\ ~drv[d].held /\ availability.owner = drv[d].run
         => At(d, "marked") \/ drv[d].run \in orphaned
    /\ drv[d].pc \in {"inspect", "mark", "marked"} => ~drv[d].held
    /\ At(d, "available") => availability.owner # drv[d].run
    /\ \A e \in Drivers : drv[d].run = drv[e].run /\ drv[d].run # None => d = e

\* Every step keeps it so.
LEMMA NextOwned == TInv /\ Owned /\ [Next]_vars => Owned'
<1> SUFFICES ASSUME TInv, Owned, [Next]_vars PROVE Owned'
  OBVIOUS
<1> USE DEF TInv, TypeOK, Named, DriverType, Owned, At
<1>1. ASSUME UNCHANGED <<drv, availability, orphaned>> PROVE Owned'
  BY <1>1
<1>2. ASSUME NEW d \in Drivers, Begin(d) PROVE Owned'
  <2>1. PICK r \in Runs : /\ ~InUse(r)
                          /\ drv' = [drv EXCEPT ![d] = [pc |-> "inspect", run |-> r, held |-> FALSE]]
    BY <1>2, BeginsFresh
  <2>2. availability.owner # r /\ \A e \in Drivers : drv[e].run # r
    BY <2>1 DEF InUse
  <2>3. \A e \in Drivers : drv[e].run \in orphaned => drv[e].run \in orphaned'
    BY <1>2 DEF Begin, InUse
  <2>4. UNCHANGED availability
    BY <1>2 DEF Begin
  <2>5. QED
    BY <2>1, <2>2, <2>3, <2>4
<1>3. ASSUME NEW d \in Drivers, NEW l \in DriverPcs, Goto(d, l), ~At(d, "idle"), ~At(d, "marked"),
             UNCHANGED <<availability, orphaned>>, l \notin {"inspect", "marked", "available"},
             l = "mark" => At(d, "inspect")
      PROVE  Owned'
  BY <1>3 DEF Goto
<1>4. ASSUME NEW d \in Drivers, EndCycle(d), availability' = availability \/ availability'.owner = None,
             UNCHANGED orphaned
      PROVE  Owned'
  BY <1>4, ProvisioningAssumption DEF EndCycle, IdleDriver
<1>5. ASSUME NEW d \in Drivers, SetUnavailable(d) PROVE Owned'
  <2>1. /\ At(d, "mark") /\ drv' = [drv EXCEPT ![d].pc = "marked"] /\ UNCHANGED orphaned
        /\ availability'.owner = drv[d].run
    BY <1>5 DEF SetUnavailable, Goto, history
  <2>2. \A e \in Drivers \ {d} : ~At(e, "idle") => availability'.owner # drv[e].run
    BY <2>1, ProvisioningAssumption
  <2>3. \A e \in Drivers \ {d} : At(e, "available") => availability'.owner # drv[e].run
    BY <2>2
  <2>4. QED
    BY <2>1, <2>2, <2>3
<1>6. ASSUME NEW d \in Drivers, TakeLease(d) PROVE Owned'
  BY <1>6 DEF TakeLease, unitFiles, history
<1>7. ASSUME NEW d \in Drivers, SetAvailable(d) PROVE Owned'
  <2>1. /\ drv[d].pc \in {"publish", "handback"} /\ drv' = [drv EXCEPT ![d].pc = "available"]
        /\ UNCHANGED orphaned /\ availability'.owner = None
    BY <1>7 DEF SetAvailable, Goto, history
  <2>2. QED
    BY <2>1, ProvisioningAssumption
<1>8. ASSUME NEW d \in Drivers, DropLease(d) PROVE Owned'
  BY <1>8 DEF DropLease, unitFiles, history
<1>9. ASSUME NEW d \in Drivers, SessionLost(d) PROVE Owned'
  <2>1. /\ ~At(d, "idle") /\ drv' = [drv EXCEPT ![d].pc = "release"] /\ UNCHANGED availability
        /\ orphaned \subseteq orphaned' /\ (At(d, "marked") => drv[d].run \in orphaned')
    BY <1>9 DEF SessionLost, Goto, unitFiles
  <2>2. QED
    BY <2>1
<1>10. ASSUME NEW d \in Drivers,
              \/ Inspect(d) \/ PullCleanup(d) \/ PullCopy(d) \/ WriteDetachedInputs(d) \/ Register(d)
              \/ Poll(d) \/ Smoke(d) \/ PullFails(d) \/ RegisterWithoutStart(d) \/ PollTimeout(d)
       PROVE  Owned'
  <2>1. ~At(d, "idle") /\ ~At(d, "marked") /\ UNCHANGED <<availability, orphaned>>
    BY <1>10 DEF Inspect, PullCleanup, PullCopy, WriteDetachedInputs, Register, Poll, Smoke, PullFails,
         RegisterWithoutStart, PollTimeout, unitFiles, history
  <2>2. \/ EndCycle(d)
        \/ \E l \in DriverPcs : /\ Goto(d, l) /\ l \notin {"inspect", "marked", "available"}
                                /\ (l = "mark" => At(d, "inspect"))
    BY <1>10 DEF Inspect, PullCleanup, PullCopy, WriteDetachedInputs, Register, Poll, Smoke, PullFails,
         RegisterWithoutStart, PollTimeout, DriverPcs
  <2>3. CASE EndCycle(d)
    BY <1>4, <2>1, <2>3
  <2>4. CASE ~EndCycle(d)
    <3>1. PICK l \in DriverPcs : /\ Goto(d, l) /\ l \notin {"inspect", "marked", "available"}
                                /\ (l = "mark" => At(d, "inspect"))
      BY <2>2, <2>4
    <3>2. QED
      BY <1>3, <2>1, <3>1
  <2>5. QED
    BY <2>3, <2>4
<1>11. ASSUME NEW d \in Drivers, EndEarly(d) \/ ReleaseAndArchive(d) \/ ReleaseLost(d) \/ Crash(d) PROVE Owned'
  BY <1>4, <1>11 DEF EndEarly, ReleaseAndArchive, ReleaseLost, Crash, unitFiles, history
<1>12. ASSUME NEW d \in Drivers, RegisterRerun(d) PROVE Owned'
  BY <1>1, <1>12 DEF RegisterRerun, history
<1>13. ASSUME NEW p \in Procs, ProcStep(p) PROVE Owned'
  BY <1>1, <1>13 DEF ProcStep, RunnerStarts, CheckLease, AcquireLease, WorkSucceeds, WorkFails, ReleaseLease,
       RemoveLease, Report, unitFiles, history
<1>14. CASE Environment \/ UNCHANGED vars
  BY <1>1, <1>14 DEF Environment, LeaseExpires, Reboot, PayloadChanges, LogsCleaned, unitFiles, vars, history
<1>15. QED
  BY <1>2, <1>5, <1>6, <1>7, <1>8, <1>9, <1>10, <1>11, <1>12, <1>13, <1>14 DEF Next, DriverStep, DriverFault

\* A cycle that ends without a fault, whichever early return it takes, leaves no
\* availability lease in its name, for any number of drivers at once, unless it
\* broke off between marking the unit and noting it.
THEOREM LeaseIsReleased == Spec => ReleasedOnEveryExit
<1>1. Init => Owned
  <2>0. IdleDriver.pc = "idle" /\ IdleDriver.run = None
    BY DEF IdleDriver
  <2>1. Init => \A d \in Drivers : drv[d].pc = "idle" /\ drv[d].run = None
    BY <2>0 DEF Init
  <2>2. QED
    BY <2>1 DEF Owned, At
<1>2. ASSUME TInv, Owned, [Next]_vars, NEW d \in Drivers, ~At(d, "idle"), drv'[d].pc = "idle", faults' = faults,
             drv[d].run \notin orphaned
      PROVE  availability'.owner # drv[d].run
  <2> USE DEF TInv, TypeOK, Named, DriverType
  <2>0. drv[d].run \in Runs /\ drv[d].run # None
    BY <1>2, ProvisioningAssumption DEF At
  <2>1. CASE Inspect(d)
    BY <1>2, <2>1 DEF Inspect, At, Owned, unitFiles
  <2>2. CASE ReleaseAndArchive(d)
    BY <1>2, <2>0, <2>2 DEF ReleaseAndArchive, At, Owned
  <2>3. ASSUME NEW e \in Drivers, DriverStep(e) \/ DriverFault(e) PROVE Inspect(d) \/ ReleaseAndArchive(d)
    <3>1. ~Fault
      BY <1>2 DEF Fault
    <3>2. e = d
      BY <1>2, <2>3 DEF At, DriverStep, DriverFault, Begin, Inspect, SetUnavailable, TakeLease, PullCleanup, PullCopy,
           WriteDetachedInputs, Register, Poll, Smoke, SetAvailable, DropLease, ReleaseAndArchive, EndEarly,
           PullFails, RegisterRerun, RegisterWithoutStart, PollTimeout, ReleaseLost, SessionLost, Crash, Goto,
           EndCycle
    <3>3. ASSUME NEW l \in DriverPcs \ {"idle"}, Goto(d, l) PROVE FALSE
      BY <1>2, <3>3 DEF Goto
    <3>4. ~(Begin(d) \/ TakeLease(d) \/ DropLease(d) \/ RegisterRerun(d))
      BY <1>2 DEF Begin, TakeLease, DropLease, RegisterRerun, At
    <3>5. ~(SetUnavailable(d) \/ SetAvailable(d) \/ PullCleanup(d) \/ PullCopy(d) \/ WriteDetachedInputs(d)
            \/ Register(d) \/ Poll(d) \/ Smoke(d) \/ PullFails(d) \/ RegisterWithoutStart(d) \/ PollTimeout(d)
            \/ SessionLost(d))
      BY <3>3 DEF SetUnavailable, SetAvailable, PullCleanup, PullCopy, WriteDetachedInputs, Register, Poll, Smoke,
           PullFails, RegisterWithoutStart, PollTimeout, SessionLost, DriverPcs
    <3>6. ~(EndEarly(d) \/ ReleaseLost(d) \/ Crash(d))
      BY <3>1 DEF EndEarly, ReleaseLost, Crash
    <3>7. QED
      BY <2>3, <3>2, <3>4, <3>5, <3>6 DEF DriverStep, DriverFault
  <2>4. ASSUME NEW p \in Procs, ProcStep(p) PROVE drv' = drv
    BY <2>4 DEF ProcStep, RunnerStarts, CheckLease, AcquireLease, WorkSucceeds, WorkFails, ReleaseLease,
         RemoveLease, Report
  <2>5. Environment \/ UNCHANGED vars => drv' = drv
    BY DEF Environment, LeaseExpires, Reboot, PayloadChanges, LogsCleaned, vars
  <2>6. QED
    BY <1>2, <2>1, <2>2, <2>3, <2>4, <2>5 DEF Next, At
<1>3. TInv /\ Owned /\ [Next]_vars =>
        [\A d \in Drivers : /\ ~At(d, "idle") /\ drv'[d].pc = "idle" /\ faults' = faults
                            /\ drv[d].run \notin orphaned
                            => availability'.owner # drv[d].run]_vars
  BY <1>2
<1>4. QED
  BY <1>1, <1>3, NextOwned, TypeInvariance, PTL DEF Spec, ReleasedOnEveryExit

-----------------------------------------------------------------------------
(* One driver: what is executed                                            *)

Early == {"inspect", "mark", "marked", "clean", "copy", "inputs"}

\* A launch of the configured run is under way, or may still come.
Loading == Launching # {} \/ \E d \in Drivers : At(d, "register")

\* Until it writes the launch configuration, nothing runs under a cycle's run.
Unused ==
  \A d \in Drivers : drv[d].pc \in Early =>
    cfg # drv[d].run /\ \A p \in Procs : proc[p].run # drv[d].run

\* A launched execute reads the configuration of the cycle that launched it,
\* and settles before a later cycle pulls.
Launched ==
  /\ \A d \in Drivers : At(d, "register") => cfg = drv[d].run
  /\ Launching # {} => \A d \in Drivers : drv[d].pc \notin {"copy", "inputs"}
  /\ \A p \in Procs : proc[p].pc \in {"checking", "acquiring"} => proc[p].run = cfg

\* What is configured while a launch may come is whole.
Whole ==
  /\ \A d \in Drivers : At(d, "inputs") => staging[drv[d].run] = "complete"
  /\ Loading => staging[cfg] = "complete"

OneInv == Unused /\ Launched /\ Whole

\* A step of the driver that launches nothing, configures nothing and stages
\* nothing keeps all of it, wherever it goes but forward.
LEMMA QuietMove ==
  ASSUME TInv, OneInv, NEW d \in Drivers, \A e \in Drivers : e = d,
         UNCHANGED <<proc, cfg, staging>>,
         drv'[d].pc \in Early => drv[d].pc \in Early /\ drv'[d].run = drv[d].run,
         drv'[d].pc \notin {"copy", "inputs", "register"}
  PROVE  OneInv'
<1> USE DEF OneInv, At
<1>1. Unused'
  BY DEF Unused
<1>2. Launched'
  BY DEF Launched, Launching
<1>3. Loading' => Loading
  BY DEF Loading, Launching, Early
<1>4. Whole'
  BY <1>3 DEF Whole
<1>5. QED
  BY <1>1, <1>2, <1>4

\* The driver's steps.
LEMMA DriverOneInv ==
  ASSUME PromptStart, TInv, OneInv, NEW d \in Drivers, \A e \in Drivers : e = d,
         DriverStep(d) \/ DriverFault(d)
  PROVE  OneInv'
<1> USE DEF TInv, TypeOK, Named, DriverType, ProcType
<1>1. CASE Begin(d)
  <2>1. PICK r \in Runs : /\ ~InUse(r)
                          /\ drv' = [drv EXCEPT ![d] = [pc |-> "inspect", run |-> r, held |-> FALSE]]
    BY <1>1, BeginsFresh
  <2>2. UNCHANGED <<proc, cfg>> /\ Launching' = Launching /\ drv'[d].pc = "inspect" /\ drv'[d].run = r
    BY <1>1, <2>1 DEF Begin, Launching
  <2>3. Loading' => Launching # {} /\ staging'[cfg] = staging[cfg]
    BY <1>1, <2>2 DEF Begin, Loading, At, InUse, Launching, Starting
  <2>4. Unused'
    BY <2>1, <2>2 DEF Unused, InUse
  <2>5. Launched' /\ Whole'
    BY <2>2, <2>3 DEF OneInv, Launched, Whole, At, Loading
  <2>6. QED
    BY <2>4, <2>5 DEF OneInv
<1>2. CASE Inspect(d) \/ SetUnavailable(d) \/ TakeLease(d) \/ Poll(d) \/ Smoke(d) \/ SetAvailable(d)
           \/ DropLease(d) \/ ReleaseAndArchive(d) \/ EndEarly(d) \/ PollTimeout(d) \/ ReleaseLost(d)
           \/ SessionLost(d) \/ Crash(d)
  <2>1. UNCHANGED <<proc, cfg, staging>>
    BY <1>2 DEF Inspect, SetUnavailable, TakeLease, Poll, Smoke, SetAvailable, DropLease, ReleaseAndArchive,
         EndEarly, PollTimeout, ReleaseLost, SessionLost, Crash, unitFiles
  <2>2. drv'[d].pc \in {"idle", "release", "handback", "smoke", "publish", "available"}
        \/ (drv[d].pc \in Early /\ drv'[d].pc \in {"mark", "marked", "clean"} /\ drv'[d].run = drv[d].run)
    BY <1>2 DEF Inspect, SetUnavailable, TakeLease, Poll, Smoke, SetAvailable, DropLease, ReleaseAndArchive,
         EndEarly, PollTimeout, ReleaseLost, SessionLost, Crash, At, Goto, EndCycle, IdleDriver, Early
  <2>3. QED
    BY <2>1, <2>2, QuietMove DEF Early
<1>3. CASE PullCleanup(d) \/ PullCopy(d) \/ PullFails(d)
  <2>1. Launching = {} /\ Launching' = {} /\ UNCHANGED <<proc, cfg>>
    BY <1>3 DEF PullCleanup, PullCopy, PullFails, OneInv, Launched, At, Launching
  <2>2. /\ drv[d].pc \in {"clean", "copy"} /\ drv'[d].pc \in {"copy", "inputs", "release"}
        /\ drv'[d].run = drv[d].run
    BY <1>3 DEF PullCleanup, PullCopy, PullFails, At, Goto
  <2>3. ~Loading'
    BY <2>1, <2>2 DEF Loading, At
  <2>4. drv'[d].pc = "inputs" => staging'[drv[d].run] = "complete"
    BY <1>3, <2>2 DEF PullCleanup, PullCopy, PullFails, At, Goto, StageType
  <2>5. Unused' /\ Launched' /\ Whole'
    BY <2>1, <2>2, <2>3, <2>4 DEF OneInv, Unused, Launched, Whole, At, Early, Launching, Starting
  <2>6. QED
    BY <2>5 DEF OneInv
<1>4. CASE WriteDetachedInputs(d)
  <2>1. /\ drv[d].pc = "inputs" /\ cfg' = drv[d].run /\ UNCHANGED <<proc, staging>>
        /\ drv'[d].pc = "register" /\ drv'[d].run = drv[d].run
    BY <1>4 DEF WriteDetachedInputs, At, Goto
  <2>2. Launching = {} /\ Launching' = {}
    BY <2>1 DEF OneInv, Launched, Launching
  <2>3. \A p \in Procs : proc[p].run # cfg'
    BY <2>1 DEF OneInv, Unused, Early
  <2>4. Unused' /\ Launched' /\ Whole'
    BY <2>1, <2>2, <2>3 DEF OneInv, Unused, Launched, Whole, At, Early, Launching, Starting
  <2>5. QED
    BY <2>4 DEF OneInv
<1>5. CASE Register(d) \/ RegisterRerun(d)
  <2>1. PICK p \in Procs : Launch(p)
    BY <1>5 DEF Register, RegisterRerun
  <2>2. /\ proc' = [proc EXCEPT ![p].pc = "starting"] /\ UNCHANGED <<cfg, staging>>
        /\ drv[d].pc = "register" /\ drv'[d].pc \in {"register", "poll"} /\ drv'[d].run = drv[d].run
    BY <1>5, <2>1 DEF Register, RegisterRerun, Launch, At, Goto
  <2>3. Loading
    BY <2>2 DEF Loading, At
  <2>4. \A q \in Procs : /\ proc'[q].pc \in {"checking", "acquiring"} => proc[q].pc = proc'[q].pc
                         /\ proc'[q].run = proc[q].run
    BY <2>2
  <2>5. Unused' /\ Launched' /\ Whole'
    BY <2>2, <2>3, <2>4 DEF OneInv, Unused, Launched, Whole, At, Early
  <2>6. QED
    BY <2>5 DEF OneInv
<1>6. CASE RegisterWithoutStart(d)
  <2>1. UNCHANGED <<proc, cfg, staging>> /\ drv'[d].pc = "poll"
    BY <1>6 DEF RegisterWithoutStart, Goto
  <2>2. QED
    BY <2>1, QuietMove DEF Early
<1>7. QED
  BY <1>1, <1>2, <1>3, <1>4, <1>5, <1>6 DEF DriverStep, DriverFault

\* The steps of the execute processes and of the environment.
LEMMA UnitOneInv ==
  ASSUME PromptStart, TInv, OneInv, (\E p \in Procs : ProcStep(p)) \/ Environment \/ UNCHANGED vars
  PROVE  OneInv'
<1> USE DEF TInv, TypeOK, Named, ProcType
<1>a. CASE UNCHANGED <<drv, proc, cfg, staging>>
  BY <1>a DEF OneInv, Unused, Launched, Whole, Loading, Launching, At
<1>1. ASSUME NEW p \in Procs, RunnerStarts(p) PROVE OneInv'
  <2>1. UNCHANGED <<drv, cfg, staging>> /\ p \in Launching
    BY <1>1 DEF RunnerStarts, Launching, Starting, ProcAt
  <2>2. /\ \A q \in Procs \ {p} : proc'[q] = proc[q]
        /\ proc'[p].run \in {cfg, None} /\ proc'[p].pc \in {"checking", "reporting", "none"}
        /\ proc'[p].pc = "checking" => proc'[p].run = cfg
    BY <1>1 DEF RunnerStarts, NoProc
  <2>3. Launching' \subseteq Launching /\ (Loading' => Loading)
    BY <2>1, <2>2 DEF Launching, Starting, Loading, At
  <2>4. Unused'
    BY <2>1, <2>2, ProvisioningAssumption DEF OneInv, Unused, Early, DriverType
  <2>5. Launched' /\ Whole'
    BY <2>1, <2>2, <2>3 DEF OneInv, Launched, Whole, At
  <2>6. QED
    BY <2>4, <2>5 DEF OneInv
<1>2. ASSUME NEW p \in Procs, CheckLease(p) PROVE OneInv'
  <2>1. UNCHANGED <<drv, cfg, staging>> /\ proc[p].pc = "checking"
    BY <1>2 DEF CheckLease, ProcAt, unitFiles
  <2>2. /\ \A q \in Procs \ {p} : proc'[q] = proc[q]
        /\ proc'[p].run = proc[p].run /\ proc'[p].pc \in {"acquiring", "reporting"}
    BY <1>2 DEF CheckLease, ProcExit, ProcGoto
  <2>3. Launching' \subseteq Launching /\ (Loading' => Loading)
    BY <2>1, <2>2 DEF Launching, Starting, Loading, At
  <2>4. QED
    BY <2>1, <2>2, <2>3 DEF OneInv, Unused, Launched, Whole, At
<1>3. ASSUME NEW p \in Procs,
             AcquireLease(p) \/ WorkSucceeds(p) \/ WorkFails(p) \/ ReleaseLease(p) \/ RemoveLease(p)
      PROVE  OneInv'
  <2>1. UNCHANGED <<drv, cfg, staging>>
    BY <1>3 DEF AcquireLease, WorkSucceeds, WorkFails, ReleaseLease, RemoveLease, unitFiles
  <2>2. /\ \A q \in Procs \ {p} : proc'[q] = proc[q]
        /\ proc'[p].run = proc[p].run /\ proc'[p].pc \in {"working", "releasing", "removing", "reporting"}
    <3>1. \E l \in {"working", "releasing", "removing", "reporting"} :
             ProcGoto(p, l) \/ \E c \in Codes : ProcExit(p, l, c)
      BY <1>3 DEF AcquireLease, WorkSucceeds, WorkFails, ReleaseLease, RemoveLease, Codes
    <3>2. QED
      BY <3>1 DEF ProcExit, ProcGoto
  <2>3. Launching' \subseteq Launching /\ (Loading' => Loading)
    BY <2>1, <2>2 DEF Launching, Starting, Loading, At
  <2>4. QED
    BY <2>1, <2>2, <2>3 DEF OneInv, Unused, Launched, Whole, At
<1>4. ASSUME NEW p \in Procs, Report(p) PROVE OneInv'
  <2>1. UNCHANGED <<drv, cfg, staging>>
    BY <1>4 DEF Report
  <2>2. /\ \A q \in Procs \ {p} : proc'[q] = proc[q]
        /\ proc'[p].run = None /\ proc'[p].pc = "none"
    BY <1>4 DEF Report, NoProc
  <2>3. Launching' \subseteq Launching /\ (Loading' => Loading)
    BY <2>1, <2>2 DEF Launching, Starting, Loading, At
  <2>4. Unused'
    BY <2>1, <2>2, ProvisioningAssumption DEF OneInv, Unused, Early
  <2>5. Launched' /\ Whole'
    BY <2>1, <2>2, <2>3 DEF OneInv, Launched, Whole, At
  <2>6. QED
    BY <2>4, <2>5 DEF OneInv
<1>5. CASE Reboot
  <2>1. UNCHANGED <<drv, cfg, staging>> /\ \A q \in Procs : proc'[q].run = None /\ proc'[q].pc = "none"
    BY <1>5 DEF Reboot, NoProc, unitFiles
  <2>2. Launching' = {} /\ (Loading' => Loading)
    BY <2>1 DEF Launching, Starting, Loading, At
  <2>3. Unused'
    BY <2>1, ProvisioningAssumption DEF OneInv, Unused, Early
  <2>4. Launched' /\ Whole'
    BY <2>1, <2>2 DEF OneInv, Launched, Whole, At
  <2>5. QED
    BY <2>3, <2>4 DEF OneInv
<1>6. CASE LeaseExpires \/ PayloadChanges \/ LogsCleaned \/ UNCHANGED vars
  BY <1>a, <1>6 DEF LeaseExpires, PayloadChanges, LogsCleaned, vars, unitFiles
<1>7. QED
  BY <1>1, <1>2, <1>3, <1>4, <1>5, <1>6 DEF ProcStep, Environment

\* With one driver, and launches that settle promptly, the invariant holds.
LEMMA OneDriver ==
  ASSUME PromptStart, \A d, e \in Drivers : d = e
  PROVE  Spec => []OneInv
<1>1. Init => OneInv
  <2>0. IdleDriver.pc = "idle" /\ NoProc.pc = "none"
    BY DEF IdleDriver, NoProc
  <2>1. Init => (\A d \in Drivers : drv[d].pc = "idle") /\ (\A p \in Procs : proc[p].pc = "none")
    BY <2>0 DEF Init
  <2>2. Init => Launching = {} /\ ~Loading
    BY <2>1 DEF Launching, Starting, Loading, At
  <2>3. QED
    BY <2>1, <2>2 DEF OneInv, Unused, Launched, Whole, Early, At
<1>2. TInv /\ OneInv /\ [Next]_vars => OneInv'
  <2> SUFFICES ASSUME TInv, OneInv, [Next]_vars PROVE OneInv'
    OBVIOUS
  <2>1. ASSUME NEW d \in Drivers, DriverStep(d) \/ DriverFault(d) PROVE OneInv'
    BY <2>1, DriverOneInv
  <2>2. QED
    BY <2>1, UnitOneInv DEF Next
<1>3. QED
  BY <1>1, <1>2, TypeInvariance, PTL DEF Spec

\* With one driver and prompt launches, whatever crashes, reboots, lost sessions
\* and late executes intervene: a process that passes from taking the lease to
\* working finds in its staging directory the complete, verified payload.
THEOREM OnlyCompleteRuns ==
  ASSUME PromptStart, \A d, e \in Drivers : d = e
  PROVE  Spec => OnlyCompleteIsExecuted
<1>1. ASSUME TInv, OneInv, NEW p \in Procs, proc[p].pc = "acquiring"
      PROVE  staging[proc[p].run] = "complete"
  <2>1. Loading
    BY <1>1 DEF Loading, Launching, Starting
  <2>2. QED
    BY <1>1, <2>1 DEF OneInv, Launched, Whole
<1>2. TInv /\ OneInv /\ [Next]_vars =>
        [\A p \in Procs : proc[p].pc = "acquiring" /\ proc'[p].pc = "working"
                            => staging[proc[p].run] = "complete"]_vars
  BY <1>1
<1>3. QED
  BY <1>2, OneDriver, TypeInvariance, PTL DEF Spec, OnlyCompleteIsExecuted

=============================================================================
