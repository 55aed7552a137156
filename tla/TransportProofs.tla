-------------------------- MODULE TransportProofs --------------------------
(***************************************************************************)
(* Proofs for Transport: types, results that are one process's own and     *)
(* re-runs owed to failed connections, for every length of the timers, every number of reconnects *)
(* and every amount of output.                                             *)
(***************************************************************************)
EXTENDS Transport, TLAPS

\* The part of the type invariant that is about numbers and names, and the part
\* about truth values, which the provers take separately.
TypeData ==
    /\ prefer \in {"ssh", "winrm"} /\ winrm \in {"ok", "rejected", "down"}
    /\ user \in {"bare", "local", "host"}
    /\ pc \in {"try_ssh", "try_winrm", "sleep", "last", "uploading", "writing",
               "waiting", "ready", "calling", "done", "disposed"}
    /\ hleft \in Nat
    /\ outcome \in Ended \cup {"none", "hung", "unreachable", "upload_failed", "too_large"}
    /\ sess \in {"none", "ssh", "winrm"}
    /\ link \in {"alive", "silent", "inactive"}
    /\ broken \in Nat
    /\ remote \in {"old", "partial", "new"}
    /\ worker \in Working \cup Ended \cup {"idle"}
    /\ wleft \in Nat \cup {Unset}
    /\ attempt \in 0 .. Attempts
    /\ proc \in {"none", "running", "exit0", "exit1", "gone"}
    /\ out \in Nat /\ buf \in Nat /\ got \in Nat
    /\ status \in {"none", "code", "lost"}
    /\ starts \in Nat /\ orphans \in Nat

TypeBool == ssh \in BOOLEAN

\* Together the two parts are the type invariant.
LEMMA TypeParts == (TypeOK <=> TypeData /\ TypeBool) /\ (TypeOK' <=> TypeData' /\ TypeBool')
  BY Zenon DEF TypeOK, TypeData, TypeBool

\* The state is well typed initially.
LEMMA InitTypes == Init => TypeOK
<1>1. Init => TypeData
  BY TransportAssumption DEF Init, TypeData, Ended, Working
<1>2. Init => TypeBool
  BY Zenon DEF Init, TypeBool
<1>3. QED
  BY <1>1, <1>2, TypeParts

\* Every step of the unit, the keepalive and the clock preserves the types.
LEMMA UnitTypes == TypeData /\ (Unit \/ Keepalive \/ Tick) => TypeData'
<1> SUFFICES ASSUME TypeData, Unit \/ Keepalive \/ Tick PROVE TypeData'
  OBVIOUS
<1> USE DEF TypeData, unitVars, callVars, workVars, procVars
<1>1. CASE SshFlap \/ WinrmFlap \/ LinkHeals
  BY <1>1 DEF SshFlap, WinrmFlap, LinkHeals
<1>2. CASE ProcWrites \/ ProcExits \/ OrphanEnds
  BY <1>2 DEF ProcWrites, ProcExits, OrphanEnds
<1>3. CASE SshDelivers \/ ChannelCloses
  BY <1>3 DEF SshDelivers, ChannelCloses
<1>4. CASE Keepalive
  BY <1>4 DEF Keepalive
<1>5. CASE Tick
  BY <1>5 DEF Tick
<1>6. QED
  BY <1>1, <1>2, <1>3, <1>4, <1>5 DEF Unit

\* Every step of the caller's thread preserves the types.
LEMMA CallerTypes == TypeData /\ Caller => TypeData'
<1> SUFFICES ASSUME TypeData, Caller PROVE TypeData'
  OBVIOUS
<1> USE TransportAssumption DEF TypeData, unitVars, callVars, workVars, procVars, Goto, Raise
<1>1. CASE ConnectSsh
  BY <1>1 DEF ConnectSsh, Connected
<1>2. CASE ConnectWinrm
  <2>1. Probe = "ok" => ProbedUser \in {"bare", "local", "host"}
    BY DEF Probe, ProbedUser, CandidateUsers
  <2>2. QED
    BY <1>2, <2>1 DEF ConnectWinrm, Connected
<1>3. CASE ConnectRound \/ WaitForSsh
  BY <1>3 DEF ConnectRound, WaitForSsh, Connected
<1>4. CASE PutFileOpen \/ PutFileWrite \/ UploadB64 \/ UploadB64Ends
  BY <1>4 DEF PutFileOpen, PutFileWrite, UploadB64, UploadB64Ends
<1>5. CASE RunPs
  BY <1>5 DEF RunPs, Working
<1>6. CASE JoinWorker \/ HeartbeatTimeout
  BY <1>6 DEF JoinWorker, HeartbeatTimeout
<1>7. CASE Dispose
  BY <1>7 DEF Dispose
<1>8. QED
  BY <1>1, <1>2, <1>3, <1>4, <1>5, <1>6, <1>7 DEF Caller

\* Every step of the worker thread preserves the types.
LEMMA WorkerTypes == TypeData /\ Worker => TypeData'
<1> SUFFICES ASSUME TypeData, Worker PROVE TypeData'
  OBVIOUS
<1> USE TransportAssumption DEF TypeData, unitVars, callVars, procVars, Working, Ended
<1>1. Dropped => TypeData'
  BY DEF Dropped, Abandon, Retry
<1>2. CASE SshExec
  BY <1>2 DEF SshExec, ExecFails, Retry
<1>3. CASE SshDrain \/ Reconnect
  BY <1>3 DEF SshDrain, Reconnect
<1>4. CASE SshCheck
  BY <1>1, <1>4 DEF SshCheck, SshReturn, SshDeadline, Abandon
<1>5. CASE WsOpen \/ WsRun
  BY <1>5 DEF WsOpen, WsRun
<1>6. CASE WsReceive
  BY <1>6 DEF WsReceive, WsAnswered, WsTransient, WsRefused, WsEnd, WsCleanup
<1>7. QED
  BY <1>2, <1>3, <1>4, <1>5, <1>6 DEF Worker, SshMoves

\* Only the unit's sshd itself changes whether it is up.
LEMMA BoolStep == TypeBool /\ [Next]_vars => TypeBool'
<1> SUFFICES ASSUME TypeBool, [Next]_vars PROVE TypeBool'
  OBVIOUS
<1> USE DEF TypeBool, unitVars, callVars, procVars
<1>1. CASE SshFlap
  BY <1>1, Zenon DEF SshFlap
<1>2. CASE UNCHANGED ssh
  BY <1>2, Zenon
<1>3. CASE Caller
  BY <1>3, <1>2 DEF Caller, ConnectSsh, ConnectWinrm, ConnectRound, WaitForSsh, PutFileOpen,
       PutFileWrite, UploadB64, UploadB64Ends, RunPs, JoinWorker, HeartbeatTimeout, Dispose,
       Connected, Goto, Raise
<1>4. CASE SshExec \/ SshCheck
  BY <1>4, <1>2 DEF SshExec, ExecFails, SshCheck, SshReturn, SshDeadline, Dropped, Retry
<1>5. CASE SshDrain \/ Reconnect \/ WsOpen \/ WsRun \/ WsReceive
  BY <1>5, <1>2 DEF SshDrain, Reconnect, WsOpen, WsRun, WsReceive, WsAnswered, WsTransient,
       WsRefused, WsEnd
<1>6. CASE WinrmFlap \/ LinkHeals \/ ProcWrites \/ ProcExits \/ OrphanEnds \/ SshDelivers
           \/ ChannelCloses \/ Keepalive \/ Tick
  BY <1>6, <1>2 DEF WinrmFlap, LinkHeals, ProcWrites, ProcExits, OrphanEnds, SshDelivers,
       ChannelCloses, Keepalive, Tick
<1>7. CASE UNCHANGED vars
  BY <1>7, <1>2 DEF vars
<1>8. QED
  BY <1>1, <1>3, <1>4, <1>5, <1>6, <1>7 DEF Next, Unit, Worker, SshMoves

\* The state stays well typed in every step.
LEMMA TypeStep == TypeOK /\ [Next]_vars => TypeOK'
<1>1. TypeData /\ UNCHANGED vars => TypeData'
  BY DEF TypeData, vars, unitVars, callVars, workVars, procVars
<1>2. TypeData /\ [Next]_vars => TypeData'
  BY <1>1, UnitTypes, CallerTypes, WorkerTypes DEF Next
<1>3. QED
  BY <1>2, BoolStep, TypeParts

\* Nothing the threads, the unit or the network do makes the state ill typed.
THEOREM TypeCorrect == Spec => []TypeOK
  BY InitTypes, TypeStep, PTL DEF Spec

-----------------------------------------------------------------------------
(***************************************************************************)
(* What each stage of a call may rely on.  The three parts are inductive   *)
(* together with the types.                                                *)
(***************************************************************************)
SshWork == {"exec", "drain", "check", "reconnect"}
WsWork == {"open", "run", "recv"}

\* Before run_ps nothing has been started; behind it the file is whole, and the
\* worker is the one of the session's kind.
Staged ==
    /\ worker = "idle" => starts = 0 /\ attempt = 0
    /\ worker # "idle" => pc \in {"calling", "done", "disposed"} /\ remote = "new"
    /\ pc \in {"uploading", "writing", "waiting", "ready", "calling"} => sess # "none"
    /\ pc = "ready" => remote = "new"
    /\ worker \in SshWork => sess = "ssh"
    /\ worker \in WsWork => sess = "winrm"

\* What is read is one process's own output, an exit status comes from a process
\* that has ended, and a worker that has returned left nothing unread.
Reading ==
    /\ worker \in {"drain", "check"} => /\ proc \in {"running", "exit0", "exit1"}
                                        /\ got + buf <= out
                                        /\ status = "code" => proc # "running"
    /\ worker = "recv" => proc \in {"running", "exit0", "exit1"}
    /\ worker \in WsWork \cup {"idle"} => buf = 0 /\ got <= out
    /\ worker = "returned" => /\ proc \in {"exit0", "exit1"} /\ buf = 0 /\ got <= out
                              /\ sess = "winrm" => got = out

\* The closing of the connection by the caller itself.
Own == IF pc = "disposed" THEN 1 ELSE 0

\* Starts are bounded by attempts, and attempts by failures; an attempt whose
\* connection or channel is gone has one failure more to its account.
Accounted ==
    /\ starts <= attempt + 1
    /\ worker \in {"idle", "exec", "reconnect", "open", "run"} => starts <= attempt
    /\ attempt <= broken + Own
    /\ sess = "ssh" /\ worker \in {"idle", "exec", "drain", "check"} /\ link = "inactive"
         => attempt < broken + Own
    /\ worker \in {"drain", "check"} /\ status = "lost" => attempt < broken + Own
    /\ sess = "winrm" => attempt = 0

IInv == TypeOK /\ Staged /\ Reading /\ Accounted

\* The invariant holds before the connection is made.
LEMMA InitInv == Init => IInv
<1>1. Init => Staged /\ Reading /\ Accounted
  BY DEF Init, Staged, Reading, Accounted, Own, SshWork, WsWork
<1>2. QED
  BY <1>1, InitTypes DEF IInv

\* The unit, the network and the clock preserve the three parts.
LEMMA UnitInv == IInv /\ (Unit \/ Keepalive \/ Tick) => (Staged /\ Reading /\ Accounted)'
<1> SUFFICES ASSUME IInv, Unit \/ Keepalive \/ Tick PROVE (Staged /\ Reading /\ Accounted)'
  OBVIOUS
<1> USE DEF IInv, TypeOK, Staged, Reading, Accounted, Own, SshWork, WsWork,
            unitVars, callVars, workVars, procVars
<1>1. CASE SshFlap \/ WinrmFlap \/ LinkHeals \/ Tick
  BY <1>1 DEF SshFlap, WinrmFlap, LinkHeals, Tick
<1>2. CASE ProcWrites \/ ProcExits \/ OrphanEnds
  BY <1>2 DEF ProcWrites, ProcExits, OrphanEnds
<1>3. CASE SshDelivers \/ ChannelCloses
  BY <1>3 DEF SshDelivers, ChannelCloses
<1>4. CASE Keepalive
  BY <1>4 DEF Keepalive
<1>5. QED
  BY <1>1, <1>2, <1>3, <1>4 DEF Unit

\* The caller's thread preserves the three parts.
LEMMA CallerInv == IInv /\ Caller => (Staged /\ Reading /\ Accounted)'
<1> SUFFICES ASSUME IInv, Caller PROVE (Staged /\ Reading /\ Accounted)'
  OBVIOUS
<1> USE DEF IInv, TypeOK, Staged, Reading, Accounted, Own, SshWork, WsWork,
            unitVars, callVars, workVars, procVars, Goto, Raise
<1>1. CASE ConnectSsh \/ ConnectWinrm \/ ConnectRound \/ WaitForSsh
  BY <1>1 DEF ConnectSsh, ConnectWinrm, ConnectRound, WaitForSsh, Connected
<1>2. CASE PutFileOpen \/ PutFileWrite \/ UploadB64 \/ UploadB64Ends
  BY <1>2 DEF PutFileOpen, PutFileWrite, UploadB64, UploadB64Ends
<1>3. CASE RunPs
  BY <1>3 DEF RunPs
<1>4. CASE JoinWorker \/ HeartbeatTimeout
  BY <1>4 DEF JoinWorker, HeartbeatTimeout, Working, Ended
<1>5. CASE Dispose
  BY <1>5 DEF Dispose
<1>6. QED
  BY <1>1, <1>2, <1>3, <1>4, <1>5 DEF Caller

\* The worker's thread preserves the three parts.
LEMMA WorkerInv == IInv /\ Worker => (Staged /\ Reading /\ Accounted)'
<1> SUFFICES ASSUME IInv, Worker PROVE (Staged /\ Reading /\ Accounted)'
  OBVIOUS
<1> USE TransportAssumption DEF IInv, TypeOK, Staged, Reading, Accounted, Own, SshWork, WsWork,
            unitVars, callVars, procVars
<1>1. ASSUME worker = "check", link = "inactive" \/ status = "lost", Dropped
      PROVE  (Staged /\ Reading /\ Accounted)'
  BY <1>1 DEF Dropped, Abandon, Retry
<1>2. CASE SshExec
  <2>1. CASE ExecFails
    BY <1>2, <2>1 DEF SshExec, ExecFails, Retry
  <2>2. CASE worker' = "drain"
    BY <1>2, <2>2 DEF SshExec, ExecFails, Retry
  <2>3. QED
    BY <1>2, <2>1, <2>2 DEF SshExec
<1>3. CASE SshDrain
  BY <1>3 DEF SshDrain
<1>4. CASE SshCheck
  <2>0. worker = "check"
    BY <1>4 DEF SshCheck
  <2>1. CASE status = "code" /\ SshReturn
    BY <2>0, <2>1 DEF SshReturn
  <2>2. CASE link # "inactive" /\ SshDeadline
    BY <2>0, <2>2 DEF SshDeadline, Abandon
  <2>3. CASE worker' = "drain" /\ UNCHANGED <<unitVars, callVars, link, broken, wleft, attempt, procVars>>
    BY <2>0, <2>3
  <2>4. QED
    BY <1>1, <1>4, <2>1, <2>2, <2>3 DEF SshCheck
<1>5. CASE Reconnect
  BY <1>5 DEF Reconnect
<1>6. CASE WsOpen \/ WsRun
  BY <1>6 DEF WsOpen, WsRun
<1>7. CASE WsReceive
  BY <1>7 DEF WsReceive, WsAnswered, WsTransient, WsRefused, WsEnd, WsCleanup
<1>8. QED
  BY <1>2, <1>3, <1>4, <1>5, <1>6, <1>7 DEF Worker, SshMoves

\* The invariant is inductive.
LEMMA Invariance == Spec => []IInv
<1>1. IInv /\ UNCHANGED vars => (Staged /\ Reading /\ Accounted)'
  BY DEF IInv, Staged, Reading, Accounted, Own, SshWork, WsWork, vars, unitVars, callVars, workVars, procVars
<1>2. IInv /\ [Next]_vars => IInv'
  BY <1>1, TypeStep, UnitInv, CallerInv, WorkerInv DEF IInv, Next
<1>3. QED
  BY InitInv, <1>2, PTL DEF Spec

\* What a call returns is one process's own, with all that had arrived, and no
\* process is started from a file that is half uploaded, however drops, exits,
\* output and the two threads interleave.
THEOREM ResultsAreOwn == Spec => []ResultIsOwn
<1>1. IInv => ResultIsOwn
  BY DEF IInv, TypeOK, Staged, Reading, Accounted, ResultIsOwn, Working, Ended
<1>2. QED
  BY Invariance, <1>1, PTL

\* A command is started again only when a connection or a channel failed under
\* it or the caller closed it, and over WinRM never, for any number of allowed
\* reconnects.
THEOREM RerunsAreOwedToDrops == Spec => []RerunOwedToDrop
<1>1. IInv => RerunOwedToDrop
  BY DEF IInv, TypeOK, Accounted, Own, RerunOwedToDrop
<1>2. QED
  BY Invariance, <1>1, PTL
=============================================================================
