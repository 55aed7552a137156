----------------------------- MODULE Transport -----------------------------
(***************************************************************************)
(* One remote PowerShell call of the provisioning server, from opening the *)
(* session to disposing of it (server/prov/transport.py).                  *)
(*                                                                         *)
(* Three actors share the session: the CALLER's thread (connect_unit,      *)
(* upload_file, run_ps and its heartbeat watchdog), the daemon WORKER      *)
(* thread that run_ps starts and that Python cannot kill                   *)
(* (_resilient_run_ps over SSH or over WinRM), and the unit, whose two     *)
(* listeners come and go and whose command processes outlive their         *)
(* channel.  Time is two countdown timers, one per thread, that Tick       *)
(* lowers; scripts, file contents and output are abstracted to chunks.     *)
(***************************************************************************)
EXTENDS Naturals

CONSTANTS
    ConnectWait,    \* winrm_wait_s of connect_unit, in ticks
    LastWait,       \* the 60 s of the final wait_for_ssh
    CallTimeout,    \* timeout_s of run_ps
    ReconnectWait,  \* SSH_RECONNECT_MAX_WAIT_S
    RetryBudget,    \* _TRANSIENT_RETRY_BUDGET_S
    Attempts,       \* SSH_RECONNECT_ATTEMPTS
    Accepts,        \* the spellings of the user the unit's WinRM takes
    MaxOut,         \* bound: chunks of output one process writes
    Unset           \* a timer that is not running

ASSUME TransportAssumption ==
    /\ {ConnectWait, LastWait, CallTimeout, ReconnectWait, RetryBudget} \subseteq Nat \ {0}
    /\ Attempts \in Nat
    /\ Accepts \subseteq {"bare", "local", "host"}
    /\ MaxOut \in Nat
    /\ Unset \notin Nat

VARIABLES
    prefer,   \* the order connect_unit was asked for
    ssh,      \* is the unit's sshd reachable
    winrm,    \* the WinRM listener: "ok", "rejected" (Basic refused), "down"
    user,     \* spelling of cred["user"], which a successful probe rewrites
    pc,       \* the caller
    hleft,    \* the caller's timer: connect window, then call timeout
    outcome,  \* how the caller's run_ps ended
    sess,     \* the kind of session held
    link,     \* SSH connection: "alive", "silent" (half open), "inactive"
    broken,   \* history: connections and channels that failed under a command
    remote,   \* the uploaded file on the unit
    worker,   \* the daemon thread
    wleft,    \* its timer, Unset when it runs no deadline
    attempt,  \* how often it has run the command
    proc,     \* the process of the current channel or shell
    out,      \* chunks that process has written
    buf,      \* chunks arrived on the channel, not yet read
    got,      \* chunks the worker has read in this attempt
    status,   \* on the channel: "none", "code" (an exit status), "lost" (closed)
    starts,   \* history: processes started for this call
    orphans   \* abandoned processes of this call still running on the unit

unitVars == <<ssh, winrm>>
procVars == <<proc, out, buf, got, status, starts, orphans>>
workVars == <<worker, wleft, attempt>>
callVars == <<prefer, user, pc, hleft, outcome, sess, remote>>
vars == <<unitVars, callVars, link, broken, workVars, procVars>>

Working == {"exec", "drain", "check", "reconnect", "open", "run", "recv"}
Ended == {"returned", "dropped", "timeout", "gave_up", "fatal"}

TypeOK ==
    /\ prefer \in {"ssh", "winrm"}
    /\ ssh \in BOOLEAN /\ winrm \in {"ok", "rejected", "down"}
    /\ user \in {"bare", "local", "host"}
    /\ pc \in {"try_ssh", "try_winrm", "sleep", "last", "uploading", "writing",
               "waiting", "ready", "calling", "done", "disposed"}
    /\ hleft \in Nat
    /\ outcome \in Ended \cup {"none", "hung", "unreachable", "upload_failed", "too_large"}
    /\ sess \in {"none", "ssh", "winrm"}
    /\ link \in {"alive", "silent", "inactive"}
    /\ broken \in Nat
    /\ remote \in {"old", "partial", "new"}
    /\ worker \in Working \cup Ended \cup {"idle"}
    /\ wleft \in Nat \cup {Unset}
    /\ attempt \in 0 .. Attempts
    /\ proc \in {"none", "running", "exit0", "exit1", "gone"}
    /\ out \in Nat /\ buf \in Nat /\ got \in Nat
    /\ status \in {"none", "code", "lost"}
    /\ starts \in Nat /\ orphans \in Nat

Init ==
    /\ prefer \in {"ssh", "winrm"}
    /\ ssh \in BOOLEAN /\ winrm \in {"ok", "rejected", "down"}
    /\ user \in {"bare", "local"}
    /\ pc = IF prefer = "ssh" THEN "try_ssh" ELSE "try_winrm"
    /\ hleft = ConnectWait
    /\ outcome = "none" /\ sess = "none" /\ link = "inactive" /\ broken = 0 /\ remote = "old"
    /\ worker = "idle" /\ wleft = Unset /\ attempt = 0
    /\ proc = "none" /\ out = 0 /\ buf = 0 /\ got = 0 /\ status = "none"
    /\ starts = 0 /\ orphans = 0

-----------------------------------------------------------------------------
(***************************************************************************)
(* The unit and the network.                                               *)
(***************************************************************************)

\* sshd comes up or goes away; a connection through it falls silent with it.
SshFlap ==
    /\ ssh' = ~ssh
    /\ link' = IF ssh /\ link = "alive" THEN "silent" ELSE link
    /\ UNCHANGED <<winrm, callVars, broken, workVars, procVars>>

WinrmFlap ==
    /\ winrm' \in {"ok", "rejected", "down"} \ {winrm}
    /\ UNCHANGED <<ssh, callVars, link, broken, workVars, procVars>>

\* A short blip: TCP retransmits and the connection carries on.
LinkHeals ==
    /\ link = "silent" /\ ssh
    /\ link' = "alive"
    /\ UNCHANGED <<unitVars, callVars, broken, workVars, procVars>>

\* set_keepalive: a silent peer turns the transport inactive.
Keepalive ==
    /\ link = "silent"
    /\ link' = "inactive" /\ broken' = broken + 1
    /\ UNCHANGED <<unitVars, callVars, workVars, procVars>>

ProcWrites ==
    /\ proc = "running" /\ out < MaxOut
    /\ out' = out + 1
    /\ UNCHANGED <<unitVars, callVars, link, broken, workVars, proc, buf, got, status, starts, orphans>>

ProcExits ==
    /\ proc = "running"
    /\ proc' \in {"exit0", "exit1"}
    /\ UNCHANGED <<unitVars, callVars, link, broken, workVars, out, buf, got, status, starts, orphans>>

\* An abandoned process ends by itself, or sshd or the shell's idle timer
\* reaps it.
OrphanEnds ==
    /\ orphans > 0
    /\ orphans' = orphans - 1
    /\ UNCHANGED <<unitVars, callVars, link, broken, workVars, proc, out, buf, got, status, starts>>

\* sshd sends the output, and the exit status when the command exits: output
\* that is still in the pipe, or that a grandchild writes, comes behind it.
SshDelivers ==
    /\ sess = "ssh" /\ link = "alive" /\ proc \in {"running", "exit0", "exit1"}
    /\ worker \in {"drain", "check"}
    /\ \/ /\ got + buf < out /\ status # "lost"
          /\ buf' = buf + 1
          /\ UNCHANGED status
       \/ /\ proc # "running" /\ status = "none"
          /\ status' = "code"
          /\ UNCHANGED buf
    /\ UNCHANGED <<unitVars, callVars, link, broken, workVars, proc, out, got, starts, orphans>>

\* sshd, or the process that serves the session, closes the channel without an
\* exit status; the connection stays up.
ChannelCloses ==
    /\ sess = "ssh" /\ link = "alive" /\ worker \in {"drain", "check"} /\ status = "none"
    /\ status' = "lost" /\ broken' = broken + 1
    /\ UNCHANGED <<unitVars, callVars, link, workVars, proc, out, buf, got, starts, orphans>>

\* One tick of time_monotonic for both threads.
Tick ==
    /\ hleft > 0 \/ (wleft # Unset /\ wleft > 0)
    /\ hleft' = IF hleft > 0 THEN hleft - 1 ELSE 0
    /\ wleft' = IF wleft # Unset /\ wleft > 0 THEN wleft - 1 ELSE wleft
    /\ UNCHANGED <<unitVars, prefer, user, pc, outcome, sess, remote, link, broken,
                   worker, attempt, procVars>>

-----------------------------------------------------------------------------
(***************************************************************************)
(* The caller: connect_unit.                                               *)
(***************************************************************************)

\* _candidate_users for a unit addressed by name: the given spelling, and the
\* other of the bare and the local-machine form.
CandidateUsers(u) == {u} \cup (IF u = "bare" THEN {"local"} ELSE {"bare"})

\* _winrm_probe_once: TCP closed is "down"; the first candidate that runs
\* "echo ping" is "ok" and is written back to cred; otherwise "auth_rejected".
Probe ==
    IF winrm = "down" THEN "down"
    ELSE IF winrm = "ok" /\ CandidateUsers(user) \cap Accepts # {} THEN "ok"
    ELSE "auth_rejected"

ProbedUser == IF user \in Accepts THEN user ELSE CHOOSE u \in CandidateUsers(user) : u \in Accepts

Connected(kind) ==
    /\ sess' = kind
    /\ link' = IF kind = "ssh" THEN "alive" ELSE link
    /\ pc' = "uploading"
    /\ UNCHANGED <<unitVars, prefer, hleft, outcome, remote, broken, workVars, procVars>>

Goto(l) ==
    /\ pc' = l
    /\ UNCHANGED <<unitVars, prefer, user, hleft, outcome, sess, remote, link, broken, workVars, procVars>>

\* ssh_session in a round of the loop, first or after a refused WinRM probe.
ConnectSsh ==
    /\ pc = "try_ssh"
    /\ \/ ssh /\ Connected("ssh") /\ UNCHANGED user
       \/ ~ssh /\ prefer = "ssh" /\ Goto("try_winrm")
       \/ ~ssh /\ prefer = "winrm" /\ Goto("sleep")

ConnectWinrm ==
    /\ pc = "try_winrm"
    /\ \/ Probe = "ok" /\ Connected("winrm") /\ user' = ProbedUser
       \/ Probe = "auth_rejected" /\ prefer = "winrm" /\ Goto("try_ssh")
       \/ Probe = "auth_rejected" /\ prefer = "ssh" /\ Goto("sleep")
       \/ Probe = "down" /\ Goto("sleep")

\* time.sleep(5), then the loop condition; after the window one wait_for_ssh.
ConnectRound ==
    /\ pc = "sleep"
    /\ \/ /\ hleft > 0
          /\ Goto(IF prefer = "ssh" THEN "try_ssh" ELSE "try_winrm")
       \/ /\ hleft = 0
          /\ pc' = "last" /\ hleft' = LastWait
          /\ UNCHANGED <<unitVars, prefer, user, outcome, sess, remote, link, broken, workVars, procVars>>

Raise(why) ==
    /\ pc' = "done" /\ outcome' = why
    /\ UNCHANGED <<unitVars, prefer, user, hleft, sess, link, broken, workVars, procVars>>

WaitForSsh ==
    /\ pc = "last"
    /\ \/ ssh /\ hleft > 0 /\ Connected("ssh") /\ UNCHANGED user
       \/ hleft = 0 /\ Raise("unreachable") /\ UNCHANGED remote

-----------------------------------------------------------------------------
(***************************************************************************)
(* The caller: upload_file, run_ps and its heartbeat, dispose.             *)
(***************************************************************************)

\* put_file: opening with "wb" truncates the file on the unit.  SFTP has no
\* timeout: it ends when the unit answers or the connection is gone.
PutFileOpen ==
    /\ pc = "uploading" /\ sess = "ssh"
    /\ \/ /\ link = "alive"
          /\ pc' = "writing" /\ remote' = "partial"
          /\ UNCHANGED <<unitVars, prefer, user, hleft, outcome, sess, link, broken, workVars, procVars>>
       \/ link = "inactive" /\ Raise("upload_failed") /\ UNCHANGED remote

PutFileWrite ==
    /\ pc = "writing"
    /\ \/ /\ link = "alive"
          /\ pc' = "ready" /\ remote' = "new"
          /\ UNCHANGED <<unitVars, prefer, user, hleft, outcome, sess, link, broken, workVars, procVars>>
       \/ link = "inactive" /\ Raise("upload_failed") /\ UNCHANGED remote

\* upload_file_b64: a plain run_ps, outside the watchdog, whose script writes
\* the file at its end ...
UploadB64 ==
    /\ pc = "uploading" /\ sess = "winrm"
    /\ \/ winrm = "ok" /\ Goto("waiting")
       \/ winrm # "ok" /\ Raise("upload_failed") /\ UNCHANGED remote

\* ... and pywinrm's own Receive loop, which repeats a Receive that timed out
\* for ever, waits for its end.  A lost request or reply raises.
UploadB64Ends ==
    /\ pc = "waiting"
    /\ \/ /\ winrm = "ok"
          /\ pc' = "ready" /\ remote' = "new"
          /\ UNCHANGED <<unitVars, prefer, user, hleft, outcome, sess, link, broken, workVars, procVars>>
       \/ Raise("upload_failed") /\ remote' \in (IF winrm = "ok" THEN {remote} ELSE {remote, "new"})

\* assert_inline_dispatchable: a script past the command-line limit is refused
\* here; any other is handed to a fresh worker thread.
RunPs ==
    /\ pc = "ready"
    /\ \/ Raise("too_large") /\ UNCHANGED remote
       \/ /\ pc' = "calling" /\ hleft' = CallTimeout
          /\ worker' = IF sess = "ssh" THEN "exec" ELSE "open"
          /\ UNCHANGED <<unitVars, prefer, user, outcome, sess, remote, link, broken,
                         wleft, attempt, procVars>>

\* _run_with_heartbeat: join returned, so the worker's result or exception is
\* the call's.
JoinWorker ==
    /\ pc = "calling" /\ worker \in Ended
    /\ Raise(worker) /\ UNCHANGED remote

\* Mutant: the watchdog logs "STILL running" and joins again.
HeartbeatOnlyWarns ==
    /\ pc = "calling" /\ worker \in Working /\ hleft = 0
    /\ UNCHANGED vars

\* The watchdog raises TimeoutError and leaves the worker behind.
HeartbeatTimeout ==
    /\ pc = "calling" /\ worker \in Working /\ hleft = 0
    /\ Raise("hung") /\ UNCHANGED remote

\* _dispose_winrm_session: closing the paramiko client closes its channels.
Dispose ==
    /\ pc = "done"
    /\ pc' = "disposed"
    /\ link' = IF sess = "ssh" THEN "inactive" ELSE link
    /\ UNCHANGED <<unitVars, prefer, user, hleft, outcome, sess, remote, broken, workVars, procVars>>

-----------------------------------------------------------------------------
(***************************************************************************)
(* The worker over SSH: SshSession.run_ps in the loop of                   *)
(* _resilient_run_ps.                                                      *)
(***************************************************************************)

\* The channel is given up: a process that still runs is on its own.
Abandon ==
    /\ proc' = "gone"
    /\ orphans' = IF proc = "running" THEN orphans + 1 ELSE orphans
    /\ out' = 0 /\ buf' = 0 /\ got' = 0 /\ status' = "none"

\* Mutant: "attempt > SSH_RECONNECT_ATTEMPTS".
RetryOnceMore ==
    /\ IF attempt > Attempts
       THEN /\ worker' = "dropped" /\ wleft' = Unset
            /\ UNCHANGED <<attempt, link>>
       ELSE /\ worker' = "reconnect" /\ wleft' = ReconnectWait
            /\ attempt' = attempt + 1 /\ link' = "inactive"
    /\ UNCHANGED <<unitVars, callVars>>

\* conn_errors: reconnect() closes the connection and, if an attempt is left,
\* the command is run again; otherwise the error is the call's.
Retry ==
    /\ IF attempt >= Attempts
       THEN /\ worker' = "dropped" /\ wleft' = Unset
            /\ UNCHANGED <<attempt, link>>
       ELSE /\ worker' = "reconnect" /\ wleft' = ReconnectWait
            /\ attempt' = attempt + 1 /\ link' = "inactive"
    /\ UNCHANGED <<unitVars, callVars>>

\* A connection error while the command is read.
Dropped == Abandon /\ Retry /\ UNCHANGED <<broken, starts>>

\* open_session and exec_command raise: the connection is gone, or sshd refuses
\* the channel or closes it while the connection is up.  The command may have
\* been started all the same, and its reply lost.
ExecFails ==
    /\ link # "silent"
    /\ broken' = IF link = "alive" THEN broken + 1 ELSE broken
    /\ \/ UNCHANGED <<starts, orphans>>
       \/ link = "alive" /\ starts' = starts + 1 /\ orphans' = orphans + 1
    /\ proc' = "gone" /\ out' = 0 /\ buf' = 0 /\ got' = 0 /\ status' = "none"
    /\ Retry

\* open_session and exec_command; neither has a timeout, both end when the
\* connection does.
SshExec ==
    /\ worker = "exec"
    /\ \/ /\ link = "alive"
          /\ proc' = "running" /\ starts' = starts + 1
          /\ out' = 0 /\ buf' = 0 /\ got' = 0 /\ status' = "none"
          /\ worker' = "drain" /\ wleft' = CallTimeout
          /\ UNCHANGED <<unitVars, callVars, link, broken, attempt, orphans>>
       \/ ExecFails

\* "while chan.recv_ready()"
SshDrain ==
    /\ worker = "drain"
    /\ worker' = "check"
    /\ got' = got + buf /\ buf' = 0
    /\ UNCHANGED <<unitVars, callVars, link, broken, wleft, attempt,
                   proc, out, status, starts, orphans>>

\* Mutant: returns what was read before the exit status was seen.
SshReturnUndrained ==
    /\ worker' = "returned" /\ wleft' = Unset
    /\ UNCHANGED <<unitVars, callVars, link, broken, attempt, procVars>>

\* An exit status in hand: drain what arrived since and return.
SshReturn ==
    /\ got' = got + buf /\ buf' = 0
    /\ worker' = "returned" /\ wleft' = Unset
    /\ UNCHANGED <<unitVars, callVars, link, broken, attempt, proc, out, status, starts, orphans>>

\* Mutant: TimeoutError is an OSError, and conn_errors catches it first.
SshDeadlineRetried == Dropped

\* Its own deadline: TimeoutError, never retried; the channel is closed.
SshDeadline ==
    /\ Abandon
    /\ worker' = "timeout" /\ wleft' = Unset
    /\ UNCHANGED <<unitVars, callVars, link, broken, attempt, starts>>

\* Mutant: the poll loop has no deadline of its own.
SshCheckForever ==
    /\ worker = "check"
    /\ \/ status = "code" /\ SshReturn
       \/ /\ status = "lost" \/ (status = "none" /\ link = "inactive")
          /\ Dropped
       \/ /\ status = "none" /\ link # "inactive"
          /\ worker' = "drain"
          /\ UNCHANGED <<unitVars, callVars, link, broken, wleft, attempt, procVars>>

\* One turn of the poll loop after its reads.  A channel closed without a status
\* reads as exit status -1 and is a lost connection like an inactive transport.
SshCheck ==
    /\ worker = "check"
    /\ \/ status = "code" /\ SshReturn
       \/ /\ status = "lost" \/ (status = "none" /\ link = "inactive")
          /\ Dropped
       \/ status = "none" /\ link # "inactive" /\ wleft = 0 /\ SshDeadline
       \/ /\ status = "none" /\ link # "inactive" /\ wleft > 0
          /\ worker' = "drain"
          /\ UNCHANGED <<unitVars, callVars, link, broken, wleft, attempt, procVars>>

\* reconnect(): probe, and give up on a failed probe after the window.
Reconnect ==
    /\ worker = "reconnect"
    /\ \/ /\ ssh
          /\ link' = "alive" /\ worker' = "exec" /\ wleft' = Unset
       \/ /\ ~ssh /\ wleft = 0
          /\ worker' = "dropped" /\ wleft' = Unset
          /\ UNCHANGED link
    /\ UNCHANGED <<unitVars, callVars, broken, attempt, procVars>>

-----------------------------------------------------------------------------
(***************************************************************************)
(* The worker over WinRM: open_shell, run_command and the Receive loop of  *)
(* _resilient_get_command_output.                                          *)
(***************************************************************************)

\* cleanup_command and close_shell in the finally clauses: they end the
\* command if the listener answers, and are ignored if it does not.
WsCleanup ==
    IF winrm = "ok"
    THEN proc' = (IF proc = "running" THEN "gone" ELSE proc) /\ UNCHANGED orphans
    ELSE /\ proc' = IF proc = "running" THEN "gone" ELSE proc
         /\ orphans' = IF proc = "running" THEN orphans + 1 ELSE orphans

WsEnd(why) ==
    /\ worker' = why /\ wleft' = Unset
    /\ WsCleanup
    /\ UNCHANGED <<unitVars, callVars, link, broken, attempt, out, buf, status, starts>>

WsOpen ==
    /\ worker = "open"
    /\ \/ /\ winrm = "ok"
          /\ worker' = "run"
          /\ UNCHANGED <<wleft, proc, orphans, got>>
       \/ /\ winrm # "ok"
          /\ worker' = "fatal"
          /\ UNCHANGED <<wleft, proc, orphans, got>>
    /\ UNCHANGED <<unitVars, callVars, link, broken, attempt, out, buf, status, starts>>

\* run_command: not retried; a lost reply leaves the command to close_shell.
WsRun ==
    /\ worker = "run"
    /\ \/ /\ winrm = "ok"
          /\ proc' = "running" /\ starts' = starts + 1
          /\ worker' = "recv"
          /\ UNCHANGED orphans
       \/ /\ winrm # "ok"
          /\ worker' = "fatal"
          /\ \/ UNCHANGED <<proc, starts, orphans>>
             \/ proc' = "gone" /\ starts' = starts + 1 /\ orphans' = orphans + 1
    /\ UNCHANGED <<unitVars, callVars, link, broken, wleft, attempt, out, buf, got, status>>

\* A Receive with output or the end of the command; the failure window closes.
\* The shell keeps output until a Receive has fetched it, as the docstring of
\* _resilient_get_command_output says of the server.
WsAnswered ==
    /\ winrm = "ok" /\ (got < out \/ proc # "running")
    /\ got' = out
    /\ IF proc = "running"
       THEN worker' = worker /\ wleft' = Unset
       ELSE worker' = "returned" /\ wleft' = Unset
    /\ UNCHANGED <<unitVars, callVars, link, broken, attempt, proc, out, buf, status, starts, orphans>>

\* A transient error opens the failure window, or finds it spent.
WsTransient ==
    /\ winrm = "down"
    /\ \/ /\ wleft = Unset
          /\ wleft' = RetryBudget
          /\ UNCHANGED <<unitVars, callVars, link, broken, worker, attempt, procVars>>
       \/ /\ wleft = 0
          /\ WsEnd("gave_up") /\ UNCHANGED got

\* The listener refuses the credentials: not transient, propagates.
WsRefused ==
    /\ winrm = "rejected"
    /\ WsEnd("fatal") /\ UNCHANGED got

\* One turn of the loop; a WinRMOperationTimeoutError, the listener's answer
\* that there is nothing new, repeats the Receive and changes nothing, not even
\* the failure window.
WsReceive ==
    /\ worker = "recv"
    /\ WsAnswered \/ WsTransient \/ WsRefused

-----------------------------------------------------------------------------
Caller ==
    \/ ConnectSsh \/ ConnectWinrm \/ ConnectRound \/ WaitForSsh
    \/ PutFileOpen \/ PutFileWrite \/ UploadB64 \/ UploadB64Ends
    \/ RunPs \/ JoinWorker \/ HeartbeatTimeout \/ Dispose

SshMoves == SshExec \/ SshDrain \/ SshCheck \/ Reconnect

Worker == SshMoves \/ WsOpen \/ WsRun \/ WsReceive

Unit ==
    \/ SshFlap \/ WinrmFlap \/ LinkHeals \/ ProcWrites \/ ProcExits \/ OrphanEnds
    \/ SshDelivers \/ ChannelCloses

Next == Caller \/ Worker \/ Unit \/ Keepalive \/ Tick

Spec == Init /\ [][Next]_vars

\* The caller's thread is scheduled where nothing of the unit can block it, from
\* the start of the watched call on, and the worker except inside open_session
\* and exec_command on a connection that is up; time passes and keepalives are
\* sent.  Nothing is assumed of the unit, its listeners, processes or replies.
FairSpec ==
    /\ Spec
    /\ WF_vars(RunPs \/ JoinWorker \/ HeartbeatTimeout \/ Dispose)
    /\ WF_vars(SshMoves /\ (worker = "exec" => link = "inactive"))
    /\ WF_vars(Keepalive) /\ WF_vars(Tick)

-----------------------------------------------------------------------------
\* What a call returns is one process's own exit status with only what that
\* process wrote and all of it that had arrived: no output of an earlier attempt
\* is mixed in, none read before the status is dropped, and over WinRM none is
\* missing.  (Over SSH, output behind the status is given up by design.)  No
\* process is started from a script that upload_file left half written
\* (SshSession.run_ps, put_file, _resilient_get_command_output).
ResultIsOwn ==
    /\ worker = "returned" => /\ proc \in {"exit0", "exit1"}
                              /\ buf = 0 /\ got <= out
                              /\ sess = "winrm" => got = out
    /\ starts > 0 => remote = "new"

\* Every re-run of a command is owed to a connection or a channel that failed
\* under it, but for one that may follow the caller's own disposal of the
\* session: while a command is waited for, one that is alive but stuck is not
\* started again however its deadline falls; over WinRM, whose Receive is
\* repeated instead, a command is started once (_resilient_run_ps).
RerunOwedToDrop ==
    /\ starts <= attempt + 1
    /\ attempt <= broken + (IF pc = "disposed" THEN 1 ELSE 0)
    /\ sess = "winrm" => starts <= 1

\* A call under the watchdog comes to an end, with a result or an exception,
\* and its session is disposed of, whatever the unit does: it may stay down, flap
\* for ever, refuse credentials, leave an exec request unanswered, or run a
\* command that never exits (_run_with_heartbeat).  Uploads have no watchdog
\* and nothing is claimed of them.
CallEnds == pc = "calling" ~> pc = "disposed"

\* Over SSH the daemon thread ends as well, also when the caller has given up
\* on it: its own deadline and the bounded reconnects keep it and its channel
\* from leaking across --loop cycles.  The one place where it may stay is an
\* exec request that a unit with a live connection never answers, which precedes
\* the deadline (SshSession.run_ps, reconnect).
SshWorkerEnds ==
    (sess = "ssh" /\ worker \in Working)
        ~> (worker \in Ended \/ (worker = "exec" /\ link # "inactive"))

\* Claimed: a command that is stuck on a connection that never failed is not run
\* again once the watchdog has given up on it.  The comment in _resilient_run_ps
\* says that a stuck command must not be re-run.
HungIsNotRerun == [][outcome = "hung" /\ broken = 0 /\ starts > 0 => starts' = starts]_vars

=============================================================================
