--------------------------- MODULE VmSuiteProofs ---------------------------
(***************************************************************************)
(* The properties of VmSuite for every set of modules, payload hashes,     *)
(* scenarios and --phases values, and any number of repetitions.           *)
(***************************************************************************)
EXTENDS VmSuite, FiniteSetTheorems, TLAPS

USE DEF asked

\* What main can be asked to do: at least one cycle; the one-shot modes verify
\* and select no other phase.
GoodJob(j) == j \in Jobs /\ j.repeat >= 1 /\ (j.mode # "phases" => j.phases = {"verify"})

Cycling == {"build", "connect", "transfer", "run", "running", "verify", "raised"}
Runs == {"execute", "verify-run"}

\* A process keeps one result per cycle it has completed, and has something to
\* run on the unit when it runs.
JobInv ==
    IF job = None THEN ppc = "idle"
    ELSE /\ GoodJob(job)
         /\ ppc # "idle"
         /\ cycle \in 1 .. job.repeat
         /\ ppc \in Cycling => Len(results) = cycle - 1
         /\ ppc = "cycled" => Len(results) = cycle
         /\ ppc = "exit" /\ "verify" \in job.phases => Len(results) = IF job.mode = "phases" THEN job.repeat ELSE 1
         /\ ppc = "raised" => job.mode = "phases"
         /\ job.mode # "phases" => cycle = 1 /\ ppc # "running"
         /\ ppc = "running" => ustage # None /\ job.phases \cap Runs # {}
         /\ ppc = "run" /\ job.mode = "phases" /\ job.phases \cap Runs # {} => ustage # None

\* The results so far are those of the first scenarios asked for, and the rest
\* is still to do; a process runs only by hand or inside a sub-run.
SuiteInv ==
    /\ suite \in {"preflight", "scenario", "over"} => job = None
    /\ suite = "idle" => outcomes = <<>> /\ todo = <<>> /\ targets = <<>> /\ suite_rc = None
    /\ Len(targets) = Len(outcomes) + Len(todo)
    /\ \A i \in 1 .. Len(outcomes) : /\ outcomes[i].name = targets[i]
                                     /\ outcomes[i].outcome = "SKIP" <=> targets[i] = "stub"
    /\ \A j \in 1 .. Len(todo) : todo[j] = targets[Len(outcomes) + j]
    /\ suite \in {"scenario", "subrun"} => todo # <<>> /\ scenario \in Active /\ step >= 1
    /\ suite = "subrun" => step <= Len(Script(scenario)) /\ Here.op = "run"
    /\ suite = "subrun" /\ job # None =>
          job = [mode |-> "phases", phases |-> Here.phases, modules |-> selected, repeat |-> 1,
                 rebuild |-> FALSE, no_reset |-> FALSE]
    /\ suite_rc = 0 => /\ suite = "over" /\ todo = <<>>
                       /\ \A i \in 1 .. Len(outcomes) : outcomes[i].outcome \in Good

VInv == TypeOK /\ JobInv /\ SuiteInv

\* A payload that this process has built, and nobody has touched.
OwnBuild(p) == p # None /\ p.kind = "clean" /\ p.origin = "this"

\* What a transfer makes of it, cut short or not.
OwnCopy(p) == p # None /\ p.kind \in {"clean", "broken"} /\ p.origin = "this"

\* From the build to the transfer the build is on the host, from there on a copy
\* is on the unit; once built, it stays on the host, unless it is built again.
BuildInv ==
    job # None /\ {"build", "transfer"} \subseteq job.phases =>
        /\ ppc \in {"connect", "transfer"} => OwnBuild(staged)
        /\ ppc \in {"run", "running"} => OwnCopy(ustage)
        /\ built /\ ~job.rebuild => OwnBuild(staged)

\* The pre-flight reset removed the markers the suite had found.
FreshInv == suite \in {"scenario", "subrun"} => \A m \in Modules : smoke[m] # "old"

\* Since the sporadic bomb was injected, what is staged, run unfiltered, cannot
\* succeed on a disk without its marker, whatever of it arrived, and no process
\* of the scenario builds or resets.
Armed(p) == p.kind \in {"sporadic", "bomb", "broken"}
RecoverInv ==
    suite \in {"scenario", "subrun"} /\ selected = Modules /\ scenario = "failure-recover-no-reset" /\ step \in {3, 4} =>
        /\ staged # None /\ Armed(staged)
        /\ suite = "subrun" /\ job = None /\ rc = 0 => marker
        /\ suite = "subrun" /\ job # None =>
              /\ ppc \in {"run", "running"} => Armed(ustage)
              /\ ppc = "verify" /\ run_rc = 0 => marker
              /\ ppc \in {"cycled", "exit"} /\ results[1] => marker

-----------------------------------------------------------------------------
(* Arguments                                                               *)

\* Every command line that resolve_phases accepts asks for a good job.
LEMMA ResolvedJobs ==
    ASSUME NEW flags \in SUBSET LegacyFlags, NEW phases, NEW r \in resolve_phases(flags, phases)
    PROVE  /\ r.mode \in {"phases", "pull_repos", "rebuild_repos"} /\ r.phases \in SUBSET VALID_PHASES
           /\ r.mode # "phases" => r.phases = {"verify"}
           /\ r = [mode |-> r.mode, phases |-> r.phases]
<1>1. IsFiniteSet(flags)
  <2>1. IsFiniteSet({"build_only", "execute_only", "build_transfer_verify", "pull_repos", "rebuild_repos"})
    <3>1. IsFiniteSet({"build_only"})
      BY FS_Singleton
    <3>2. IsFiniteSet({"build_only"} \cup {"execute_only"})
      BY <3>1, FS_AddElement
    <3>3. IsFiniteSet({"build_only"} \cup {"execute_only"} \cup {"build_transfer_verify"})
      BY <3>2, FS_AddElement
    <3>4. IsFiniteSet({"build_only"} \cup {"execute_only"} \cup {"build_transfer_verify"} \cup {"pull_repos"})
      BY <3>3, FS_AddElement
    <3>5. IsFiniteSet({"build_only"} \cup {"execute_only"} \cup {"build_transfer_verify"} \cup {"pull_repos"}
                      \cup {"rebuild_repos"})
      BY <3>4, FS_AddElement
    <3>6. {"build_only", "execute_only", "build_transfer_verify", "pull_repos", "rebuild_repos"}
          = {"build_only"} \cup {"execute_only"} \cup {"build_transfer_verify"} \cup {"pull_repos"}
            \cup {"rebuild_repos"}
      OBVIOUS
    <3>7. QED
      BY <3>5, <3>6
  <2>2. QED
    BY <2>1, FS_Subset DEF LegacyFlags
<1>2. ASSUME Cardinality(flags) <= 1, NEW f \in flags PROVE flags = {f}
  <2>1. Cardinality(flags) \in Nat /\ IsFiniteSet(flags \ {f}) /\ Cardinality(flags \ {f}) = Cardinality(flags) - 1
    BY <1>1, FS_CardinalityType, FS_RemoveElement
  <2>2. Cardinality(flags \ {f}) \in Nat
    BY <2>1, FS_CardinalityType
  <2>3. flags \ {f} = {}
    BY <1>2, <2>1, <2>2, FS_EmptySet
  <2>4. QED
    BY <2>3
<1>3. Cardinality(flags) \in Nat
  BY <1>1, FS_CardinalityType
<1>4. Cardinality(flags) <= 1
  BY <1>3 DEF resolve_phases
<1>5. CASE flags = {}
  BY <1>5 DEF resolve_phases, DEFAULT_PHASES, VALID_PHASES
<1>6. CASE flags # {}
  <2>1. PICK f \in LegacyFlags : flags = {f}
    BY <1>2, <1>4, <1>6
  <2>2. QED
    BY <2>1 DEF resolve_phases, LegacyFlags, VALID_PHASES
<1>7. QED
  BY <1>5, <1>6

LEMMA ManualJobsGood == \A j \in ManualJobs : GoodJob(j)
<1>1. SUFFICES ASSUME NEW flags \in SUBSET LegacyFlags, NEW phases, NEW r \in resolve_phases(flags, phases),
                      NEW ms \in Selections \cup {Modules}, NEW n \in 1 .. MaxRepeat, NEW b \in BOOLEAN,
                      NEW c \in BOOLEAN
               PROVE  GoodJob([mode |-> r.mode, phases |-> r.phases, modules |-> ms, repeat |-> n,
                               rebuild |-> b, no_reset |-> c])
  BY DEF ManualJobs
<1>2. n \in Nat /\ n >= 1 /\ ms \in SUBSET Modules
  BY SuiteAssumption
<1>3. QED
  BY <1>2, ResolvedJobs DEF GoodJob, Jobs

-----------------------------------------------------------------------------
(* A process                                                               *)

Pcs == {"idle", "build", "connect", "transfer", "run", "running", "verify", "raised", "cycled", "exit", "aborted"}

LEMMA GotoTypes ==
    ASSUME HarnessTypeOK, NEW l \in Pcs, Goto(l)
    PROVE  HarnessTypeOK'
  BY DEF HarnessTypeOK, Goto, diskVars, Pcs

LEMMA LaunchStep ==
    ASSUME HarnessTypeOK, JobInv, NEW j, GoodJob(j), Launch(j)
    PROVE  HarnessTypeOK' /\ JobInv'
<1>1. Aged(staged) \in Payloads \cup {None} /\ Aged(ustage) \in Payloads \cup {None}
  BY DEF HarnessTypeOK, Aged, Payloads
<1>2. HarnessTypeOK'
  <2>1. UNCHANGED <<power, pristine, smoke, marker, manifest, busy, poller>>
    BY DEF Launch
  <2>2. CASE UNCHANGED <<job, ppc, cycle, built, session, run_rc, results, staged, ustage>> /\ rc' = 1
    BY <2>1, <2>2 DEF HarnessTypeOK
  <2>3. CASE /\ job' = j /\ ppc' = (IF j.mode = "phases" THEN "build" ELSE "connect")
             /\ cycle' = 1 /\ built' = FALSE /\ session' = FALSE /\ run_rc' = 0 /\ results' = <<>>
             /\ staged' = Aged(staged) /\ ustage' = Aged(ustage) /\ UNCHANGED rc
    <3>1. <<>> \in Seq(BOOLEAN) /\ 1 \in Nat /\ j \in Jobs
      BY DEF GoodJob
    <3>2. QED
      BY <1>1, <2>1, <2>3, <3>1 DEF HarnessTypeOK
  <2>4. QED
    BY <2>2, <2>3 DEF Launch
<1>3. JobInv'
  <2>1. CASE job' = j
    <3>1. j # None /\ j.repeat \in Nat /\ j.repeat >= 1
      BY NoneAssumption DEF GoodJob, Jobs
    <3>2. CASE UNCHANGED <<job, ppc>>
      BY <2>1, <3>1, <3>2 DEF Launch, JobInv
    <3>3. CASE cycle' = 1 /\ results' = <<>> /\ ppc' = IF j.mode = "phases" THEN "build" ELSE "connect"
      BY <2>1, <3>1, <3>3 DEF JobInv, Cycling
    <3>4. QED
      BY <3>2, <3>3 DEF Launch
  <2>2. CASE UNCHANGED <<job, ppc>>
    BY <2>2 DEF Launch, JobInv
  <2>3. QED
    BY <2>1, <2>2 DEF Launch
<1>4. QED
  BY <1>2, <1>3

\* A reset leaves a disk, whatever becomes of it.
DiskTypeOK ==
    /\ power \in BOOLEAN /\ pristine \in BOOLEAN
    /\ ustage \in Payloads \cup {None}
    /\ smoke \in [Modules -> {"absent", "old", "new"}]
    /\ marker \in BOOLEAN
    /\ manifest \in Manifests \cup {None}
    /\ busy \in BOOLEAN

LEMMA ResetTypes ==
    ASSUME HarnessTypeOK, NEW ok \in BOOLEAN, ResetVm(ok)
    PROVE  DiskTypeOK'
<1>1. DiskTypeOK
  BY DEF HarnessTypeOK, DiskTypeOK
<1>2. CASE CleanDisk
  <2>1. power' \in BOOLEAN
    BY DEF ResetVm, HarnessTypeOK
  <2>2. QED
    BY <1>2, <2>1 DEF CleanDisk, DiskTypeOK
<1>3. CASE /\ power' \in {power, FALSE} /\ busy' = (busy /\ power')
           /\ UNCHANGED <<pristine, ustage, smoke, marker, manifest>>
  <2>1. busy' \in BOOLEAN
    BY <1>3
  <2>2. QED
    BY <1>1, <1>3, <2>1 DEF DiskTypeOK
<1>4. QED
  BY <1>2, <1>3 DEF ResetVm

\* A step of a process keeps the types.
LEMMA HarnessTypeStep ==
    ASSUME HarnessTypeOK, JobInv, HarnessStep
    PROVE  HarnessTypeOK'
<1>0. /\ ppc # "idle" => job # None /\ job \in Jobs /\ Raised \in Pcs /\ AfterBuild \in Pcs
      /\ Broken \in Payloads
  BY HarnessAssumption DEF JobInv, GoodJob, Raised, AfterBuild, Pcs, Broken, Payloads, Kinds
<1>a. ASSUME NEW l \in Pcs, Goto(l) PROVE HarnessTypeOK'
  BY <1>a, GotoTypes
<1>1. CASE phase_build
  <2>1. CASE BuildOk
    BY <1>0, <1>1, <2>1 DEF phase_build, BuildOk, HarnessTypeOK, Fresh, diskVars, Pcs
  <2>2. CASE BuildFails
    BY <1>0, <1>1, <2>2 DEF phase_build, BuildFails, HarnessTypeOK, Fresh, diskVars, Pcs
  <2>3. QED
    BY <1>a, <1>1, <2>1, <2>2 DEF phase_build, Pcs
<1>2. CASE Connect
  <2>1. CASE Goto("exit") \/ Goto("transfer") \/ Goto(Raised)
    BY <1>0, <1>2, <1>a, <2>1 DEF Connect, Pcs
  <2>2. CASE /\ session' = TRUE
             /\ ppc' = CASE job.mode = "phases" -> "transfer"
                         [] job.mode = "pull_repos" -> "run"
                         [] job.mode = "rebuild_repos" -> "build"
             /\ UNCHANGED <<staged, power, diskVars, job, cycle, built, run_rc, results, poller, rc>>
    <3>1. ppc' \in Pcs
      BY <1>0, <1>2, <2>2 DEF Connect, Jobs, Pcs
    <3>2. session' \in BOOLEAN /\ UNCHANGED <<pristine, ustage, smoke, marker, manifest, busy>>
      BY <2>2 DEF diskVars
    <3>3. UNCHANGED <<staged, power, job, cycle, built, run_rc, results, poller, rc>>
      BY <2>2
    <3>4. QED
      BY <3>1, <3>2, <3>3 DEF HarnessTypeOK, Pcs
  <2>3. QED
    BY <1>2, <2>1, <2>2 DEF Connect
<1>3. CASE phase_transfer
  <2>1. CASE Goto(Raised)
    BY <1>0, <1>3, <1>a, <2>1 DEF phase_transfer
  <2>2. CASE \E p \in {staged, Broken} : Pulled(p) /\ ppc' \in {"run", Raised}
    <3>1. ustage' \in Payloads \cup {None} /\ ppc' \in Pcs
      BY <1>0, <1>3, <2>2 DEF phase_transfer, Pulled, HarnessTypeOK, Pcs
    <3>2. pristine' \in BOOLEAN
          /\ UNCHANGED <<staged, power, smoke, marker, manifest, busy, job, cycle, built, session,
                         run_rc, results, poller, rc>>
      BY <2>2 DEF Pulled
    <3>3. QED
      BY <3>1, <3>2 DEF HarnessTypeOK, Pcs
  <2>3. QED
    BY <1>3, <2>1, <2>2 DEF phase_transfer
<1>4. CASE FindStaging
  BY <1>a, <1>4 DEF FindStaging, Pcs
<1>5. CASE StartRun
  <2>1. CASE /\ ppc' = "running" /\ poller' = "tailing"
             /\ UNCHANGED <<staged, power, diskVars, job, cycle, built, session, run_rc, results, rc>>
    BY <2>1 DEF HarnessTypeOK, diskVars
  <2>2. QED
    BY <1>a, <1>5, <2>1 DEF StartRun, Pcs
<1>6. CASE PollerFails
  BY <1>6 DEF PollerFails, HarnessTypeOK, diskVars
<1>b. ASSUME ppc = "running", NEW ok \in SUBSET job.modules, Provisioned(ok)
      PROVE  /\ smoke' \in [Modules -> {"absent", "old", "new"}]
             /\ manifest' \in Manifests \cup {None} /\ pristine' \in BOOLEAN
  <2>1. ustage \in Payloads /\ [payload_hash |-> ustage.hash] \in Manifests /\ [payload_hash |-> None] \in Manifests
    BY <1>0, <1>b DEF JobInv, HarnessTypeOK, Payloads, Manifests
  <2>2. manifest' \in Manifests \cup {None}
    BY <1>b, <2>1 DEF Provisioned, HarnessTypeOK
  <2>3. smoke' \in [Modules -> {"absent", "old", "new"}]
    BY <1>b DEF Provisioned, HarnessTypeOK
  <2>4. pristine' \in BOOLEAN
    BY <1>b DEF Provisioned
  <2>5. QED
    BY <2>2, <2>3, <2>4
<1>7. CASE ExecuteReturns
  <2>1. UNCHANGED <<staged, power, ustage, busy, job, cycle, built, session, results, rc>>
        /\ ppc' = "verify" /\ poller' = "off"
    BY <1>7 DEF ExecuteReturns
  <2>2. /\ smoke' \in [Modules -> {"absent", "old", "new"}] /\ manifest' \in Manifests \cup {None}
        /\ pristine' \in BOOLEAN /\ marker' \in BOOLEAN /\ run_rc' \in {0, 1}
    <3>1. CASE run_rc' = 1 /\ UNCHANGED <<pristine, smoke, manifest, marker>>
      BY <3>1 DEF HarnessTypeOK
    <3>2. CASE /\ \E ok \in SUBSET job.modules : Provisioned(ok)
               /\ marker' = (marker \/ RunsEntry("sporadic"))
               /\ run_rc' \in {0, 1}
      <4>1. ppc = "running" /\ marker' \in BOOLEAN
        BY <1>7, <3>2 DEF ExecuteReturns
      <4>2. QED
        BY <1>b, <3>2, <4>1
    <3>3. QED
      BY <1>7, <3>1, <3>2 DEF ExecuteReturns
  <2>3. QED
    BY <2>1, <2>2 DEF HarnessTypeOK
<1>8. CASE VerifyRunReturns
  BY <1>8 DEF VerifyRunReturns, HarnessTypeOK, diskVars
<1>9. CASE RunRaises
  <2>1. UNCHANGED <<staged, power, ustage, job, cycle, built, session, run_rc, results, rc>>
        /\ ppc' = "raised" /\ poller' = "off" /\ ppc = "running"
    BY <1>9 DEF RunRaises
  <2>2. CASE UNCHANGED <<pristine, smoke, marker, manifest, busy>>
    BY <2>1, <2>2 DEF HarnessTypeOK
  <2>3. CASE /\ \E ok \in SUBSET job.modules : Provisioned(ok)
             /\ marker' \in {marker, marker \/ RunsEntry("sporadic")}
             /\ busy' \in BOOLEAN
    <3>1. marker' \in BOOLEAN
      BY <2>3 DEF HarnessTypeOK
    <3>2. QED
      BY <1>b, <2>1, <2>3, <3>1 DEF HarnessTypeOK
  <2>4. QED
    BY <1>9, <2>2, <2>3 DEF RunRaises
<1>10. CASE Repos
  <2>1. pristine' \in BOOLEAN /\ ppc' \in Pcs
    BY <1>10 DEF Repos, Pcs
  <2>2. QED
    BY <1>10, <2>1 DEF Repos, HarnessTypeOK, Pcs
<1>c. ASSUME NEW v \in BOOLEAN, Judged(v) PROVE HarnessTypeOK'
  <2>1. Append(results, v) \in Seq(BOOLEAN)
    BY DEF HarnessTypeOK
  <2>2. QED
    BY <1>c, <2>1 DEF Judged, HarnessTypeOK, diskVars
<1>11. CASE phase_verify
  <2>1. ASSUME NEW healthy \in BOOLEAN PROVE Passed(healthy) \in BOOLEAN
    BY DEF Passed
  <2>2. QED
    BY <1>0, <1>a, <1>c, <1>11, <2>1 DEF phase_verify
<1>12. CASE CycleError
  BY <1>c, <1>12 DEF CycleError
<1>13. CASE phase_reset
  <2>1. DiskTypeOK'
    BY <1>13, ResetTypes DEF phase_reset
  <2>2. /\ UNCHANGED <<staged, job, built, results, poller, rc>>
        /\ \/ session' = TRUE /\ cycle' = cycle + 1 /\ ppc' = "build" /\ run_rc' = 0
           \/ ppc' = "aborted" /\ UNCHANGED <<session, cycle, run_rc>>
    BY <1>13 DEF phase_reset
  <2>3. session' \in BOOLEAN /\ cycle' \in Nat /\ ppc' \in Pcs /\ run_rc' \in {0, 1}
    <3>1. session \in BOOLEAN /\ cycle \in Nat /\ run_rc \in {0, 1}
      BY DEF HarnessTypeOK
    <3>2. session' \in BOOLEAN
      BY <2>2, <3>1
    <3>3. cycle' \in Nat /\ ppc' \in Pcs /\ run_rc' \in {0, 1}
      BY <2>2, <3>1 DEF Pcs
    <3>4. QED
      BY <3>2, <3>3
  <2>4. UNCHANGED <<staged, job, built, results, poller, rc>>
    BY <2>2
  <2>5. QED
    BY <2>1, <2>3, <2>4 DEF HarnessTypeOK, DiskTypeOK, Pcs
<1>14. CASE NextCycle
  BY <1>14 DEF NextCycle, HarnessTypeOK, diskVars
<1>15. CASE Exit
  BY <1>15 DEF Exit, ExitCode, HarnessTypeOK, diskVars
<1>16. CASE BusyEnds
  <2>1. busy' \in BOOLEAN
    BY <1>16 DEF BusyEnds
  <2>2. QED
    BY <1>16, <2>1 DEF BusyEnds, HarnessTypeOK, procVars
<1>17. QED
  BY <1>1, <1>2, <1>3, <1>4, <1>5, <1>6, <1>7, <1>8, <1>9, <1>10, <1>11, <1>12, <1>13, <1>14, <1>15, <1>16
     DEF HarnessStep

\* Only Launch gives the harness a job; its steps keep or end it.
LEMMA HarnessKeepsJob ==
    ASSUME JobInv, HarnessStep
    PROVE  /\ job' = job \/ job' = None
           /\ job = None => UNCHANGED <<staged, power, pristine, ustage, smoke, marker, manifest, procVars>>
<1>1. job' = job \/ job' = None
  BY DEF HarnessStep, phase_build, BuildOk, BuildFails, Connect, phase_transfer, Pulled, FindStaging, StartRun,
       PollerFails, ExecuteReturns, VerifyRunReturns, RunRaises, Repos, phase_verify, Judged, CycleError,
       phase_reset, NextCycle, Exit, BusyEnds, Goto, procVars
<1>2. CASE job = None
  <2>1. ppc = "idle"
    BY <1>2 DEF JobInv
  <2>2. BusyEnds
    BY <2>1 DEF HarnessStep, phase_build, Connect, phase_transfer, FindStaging, StartRun, PollerFails,
         ExecuteReturns, VerifyRunReturns, RunRaises, Repos, phase_verify, CycleError, phase_reset, NextCycle, Exit
  <2>3. QED
    BY <1>1, <2>2 DEF BusyEnds
<1>3. QED
  BY <1>1, <1>2

\* A step of a process keeps its books.
LEMMA HarnessJobStep ==
    ASSUME HarnessTypeOK, JobInv, HarnessStep
    PROVE  JobInv'
<1>a. CASE job = None
  BY <1>a, HarnessKeepsJob DEF JobInv, procVars
<1>b. CASE Exit
  BY <1>b DEF Exit, JobInv
<1>c. CASE BusyEnds
  BY <1>c DEF BusyEnds, JobInv, procVars
<1>0. SUFFICES ASSUME job # None, ~Exit, ~BusyEnds PROVE JobInv'
  BY <1>a, <1>b, <1>c
<1>1. /\ GoodJob(job) /\ job \in Jobs /\ job.repeat \in Nat /\ cycle \in Nat /\ cycle >= 1 /\ cycle <= job.repeat
      /\ results \in Seq(BOOLEAN) /\ Len(results) \in Nat
  BY <1>0 DEF JobInv, GoodJob, Jobs, HarnessTypeOK
<1>2. job' = job
  BY <1>0 DEF HarnessStep, phase_build, BuildOk, BuildFails, Connect, phase_transfer, Pulled, FindStaging, StartRun,
       PollerFails, ExecuteReturns, VerifyRunReturns, RunRaises, Repos, phase_verify, Judged, CycleError,
       phase_reset, NextCycle, Goto
\* Going on within a cycle.
<1>d. ASSUME ppc \in Cycling, UNCHANGED <<cycle, results>>,
             ppc' \in (Cycling \ {"run", "running"}) \cup {"aborted"}, ppc' = "raised" => job.mode = "phases"
      PROVE  JobInv'
  BY <1>0, <1>1, <1>2, <1>d DEF JobInv, Cycling
<1>e. ASSUME NEW v, ppc \in Cycling, Judged(v) PROVE JobInv'
  <2>1. results' = Append(results, v) /\ ppc' = "cycled" /\ UNCHANGED <<cycle, ustage>> /\ Len(results) = cycle - 1
    BY <1>0, <1>e DEF Judged, diskVars, JobInv
  <2>2. Len(results') = cycle
    BY <1>1, <2>1
  <2>3. QED
    BY <1>0, <1>1, <1>2, <2>1, <2>2 DEF JobInv, Cycling
<1>3. CASE phase_build
  <2>1. ppc' \in {"connect", "transfer", "raised", "aborted"} /\ UNCHANGED <<cycle, results>> /\ ppc = "build"
        /\ (ppc' = "raised" => job.mode = "phases")
    BY <1>3 DEF phase_build, BuildOk, BuildFails, Goto, AfterBuild, Raised
  <2>2. QED
    BY <1>d, <2>1 DEF Cycling
<1>4. CASE Connect
  <2>1. ppc = "connect" /\ UNCHANGED <<cycle, results>>
    BY <1>4 DEF Connect, Goto
  <2>2. CASE ppc' = "exit" /\ job.mode = "phases" /\ job.phases \ {"build"} = {}
    BY <1>0, <1>1, <1>2, <2>1, <2>2 DEF JobInv, Cycling
  <2>3. CASE ppc' = "run" /\ job.mode = "pull_repos"
    BY <1>0, <1>1, <1>2, <2>1, <2>3 DEF JobInv, Cycling
  <2>4. CASE ppc' \in {"transfer", "build", "raised", "aborted"} /\ (ppc' = "raised" => job.mode = "phases")
    BY <1>d, <2>1, <2>4 DEF Cycling
  <2>5. job.mode \in {"phases", "pull_repos", "rebuild_repos"}
    BY <1>1 DEF Jobs
  <2>6. QED
    BY <1>4, <2>2, <2>3, <2>4, <2>5 DEF Connect, Goto, Raised
<1>5. CASE phase_transfer
  <2>1. ppc = "transfer" /\ UNCHANGED <<cycle, results>>
    BY <1>5 DEF phase_transfer, Goto, Pulled
  <2>2. CASE ppc' = "run" /\ ustage' # None
    BY <1>0, <1>1, <1>2, <2>1, <2>2 DEF JobInv, Cycling
  <2>3. CASE ppc' = Raised
    BY <1>d, <2>1, <2>3 DEF Cycling, Raised
  <2>4. CASE \E p \in {staged, Broken} : staged # None /\ Pulled(p) /\ ppc' \in {"run", Raised}
    <3>1. Broken # None
      BY HarnessAssumption, NoneAssumption DEF Broken, Payloads, Kinds
    <3>2. ustage' # None
      BY <2>4, <3>1 DEF Pulled
    <3>3. QED
      BY <2>2, <2>3, <2>4, <3>2
  <2>5. QED
    BY <1>5, <2>3, <2>4 DEF phase_transfer, Goto
<1>6. CASE FindStaging
  <2>1. ppc = "transfer" /\ UNCHANGED <<cycle, results, ustage>> /\ job.mode = "phases"
    BY <1>6 DEF FindStaging, Goto, diskVars
  <2>2. CASE ppc' = "run" /\ (job.phases \cap Runs = {} \/ ustage # None)
    BY <1>0, <1>1, <1>2, <2>1, <2>2 DEF JobInv, Cycling
  <2>3. CASE ppc' \in {"aborted", "raised"}
    BY <1>d, <2>1, <2>3 DEF Cycling
  <2>4. QED
    BY <1>6, <2>2, <2>3 DEF FindStaging, Goto, Runs
<1>7. CASE StartRun
  <2>1. ppc = "run" /\ UNCHANGED <<cycle, results, ustage>> /\ job.mode = "phases"
    BY <1>7 DEF StartRun, Goto, diskVars
  <2>2. CASE ppc' = "running" /\ job.phases \cap Runs # {}
    BY <1>0, <1>1, <1>2, <2>1, <2>2 DEF JobInv, Cycling
  <2>3. CASE ppc' \in {"verify", "raised"}
    BY <1>d, <2>1, <2>3 DEF Cycling
  <2>4. QED
    BY <1>7, <2>2, <2>3 DEF StartRun, Goto, Runs
<1>8. CASE PollerFails
  BY <1>0, <1>1, <1>2, <1>8 DEF PollerFails, JobInv, diskVars
<1>9. CASE ExecuteReturns \/ VerifyRunReturns \/ RunRaises
  <2>1. ppc = "running" /\ ppc' \in {"verify", "raised"} /\ UNCHANGED <<cycle, results>>
    BY <1>9 DEF ExecuteReturns, VerifyRunReturns, RunRaises
  <2>2. job.mode = "phases"
    BY <1>0, <2>1 DEF JobInv
  <2>3. QED
    BY <1>d, <2>1, <2>2 DEF Cycling
<1>10. CASE Repos
  BY <1>d, <1>10 DEF Repos, Cycling
<1>11. CASE phase_verify
  <2>1. ppc = "verify" /\ ((\E v : Judged(v)) \/ Goto(Raised))
    BY <1>11 DEF phase_verify
  <2>2. CASE Goto(Raised)
    BY <1>d, <2>1, <2>2 DEF Goto, Raised, Cycling
  <2>3. QED
    BY <1>e, <2>1, <2>2 DEF Cycling
<1>12. CASE CycleError
  <2>1. ppc = "raised" /\ \E v : Judged(v)
    BY <1>12 DEF CycleError
  <2>2. QED
    BY <1>e, <2>1 DEF Cycling
<1>13. CASE phase_reset
  <2>1. ppc = "cycled" /\ job.mode = "phases" /\ cycle < job.repeat /\ Len(results) = cycle /\ UNCHANGED results
    BY <1>0, <1>13 DEF phase_reset, ResetDue, JobInv
  <2>2. (ppc' = "build" /\ cycle' = cycle + 1) \/ (ppc' = "aborted" /\ UNCHANGED cycle)
    BY <1>13 DEF phase_reset
  <2>3. QED
    BY <1>0, <1>1, <1>2, <2>1, <2>2 DEF JobInv, Cycling
<1>14. CASE NextCycle
  <2>1. ppc = "cycled" /\ Len(results) = cycle /\ UNCHANGED results
    BY <1>0, <1>14 DEF NextCycle, JobInv
  <2>2. \/ ppc' = "build" /\ cycle' = cycle + 1 /\ cycle < job.repeat /\ job.mode = "phases"
        \/ ppc' = "exit" /\ UNCHANGED cycle /\ (job.mode # "phases" \/ cycle >= job.repeat)
    BY <1>14 DEF NextCycle
  <2>3. QED
    BY <1>0, <1>1, <1>2, <2>1, <2>2 DEF JobInv, Cycling
<1>15. QED
  BY <1>0, <1>3, <1>4, <1>5, <1>6, <1>7, <1>8, <1>9, <1>10, <1>11, <1>12, <1>13, <1>14 DEF HarnessStep

-----------------------------------------------------------------------------
(* The suite                                                               *)

Names == Active \cup {"stub"}
Outcomes == [name : Names, outcome : Verdicts]

SuiteTypeOK ==
    /\ suite \in {"idle", "preflight", "scenario", "subrun", "over"}
    /\ selected \in SUBSET Modules
    /\ targets \in Seq(Names) /\ todo \in Seq(Names)
    /\ step \in Nat
    /\ rcs \in Seq({0, 1, 2}) /\ hashes \in Seq(Hashes \cup {None})
    /\ outcomes \in Seq(Outcomes)
    /\ suite_rc \in {0, 1, 2, None}
    /\ manual \in 0 .. MaxManual

LEMMA TypeParts == TypeOK <=> HarnessTypeOK /\ SuiteTypeOK
  BY DEF TypeOK, SuiteTypeOK, Names, Outcomes

\* A result is appended and the next scenario is up: what is done and what is
\* to do still make up what was asked for.
LEMMA FinishStep ==
    ASSUME SuiteTypeOK, SuiteInv, suite # "over", suite # "idle", todo # <<>>, job' = None, NEW outcome \in Verdicts,
           outcome = "SKIP" <=> scenario = "stub", Finish(outcome)
    PROVE  SuiteTypeOK' /\ SuiteInv'
<1>1. /\ todo \in Seq(Names) /\ targets \in Seq(Names) /\ outcomes \in Seq(Outcomes) /\ suite_rc # 0
      /\ Len(todo) \in Nat /\ Len(todo) >= 1 /\ Len(outcomes) \in Nat /\ Len(targets) \in Nat
  BY DEF SuiteTypeOK, SuiteInv
<1>2. scenario = todo[1] /\ scenario \in Names /\ scenario = targets[Len(outcomes) + 1]
  BY <1>1 DEF scenario, SuiteInv
<1>3. [name |-> scenario, outcome |-> outcome] \in Outcomes
  BY <1>2 DEF Outcomes
<1>4. /\ outcomes' \in Seq(Outcomes) /\ Len(outcomes') = Len(outcomes) + 1
      /\ \A i \in 1 .. Len(outcomes) : outcomes'[i] = outcomes[i]
      /\ outcomes'[Len(outcomes) + 1] = [name |-> scenario, outcome |-> outcome]
  BY <1>1, <1>3 DEF Finish
<1>5. /\ todo' \in Seq(Names) /\ Len(todo') = Len(todo) - 1
      /\ \A j \in 1 .. Len(todo') : todo'[j] = todo[j + 1]
  BY <1>1 DEF Finish
<1>6. /\ suite' = "preflight" /\ step' = 0 /\ rcs' = <<>> /\ hashes' = <<>>
      /\ UNCHANGED <<selected, targets, suite_rc, manual>>
  BY DEF Finish
<1>7. SuiteTypeOK'
  BY <1>4, <1>5, <1>6 DEF SuiteTypeOK
<1>8. \A i \in 1 .. Len(outcomes') : /\ outcomes'[i].name = targets'[i]
                                     /\ outcomes'[i].outcome = "SKIP" <=> targets'[i] = "stub"
  <2> SUFFICES ASSUME NEW i \in 1 .. Len(outcomes')
               PROVE  /\ outcomes'[i].name = targets'[i]
                      /\ outcomes'[i].outcome = "SKIP" <=> targets'[i] = "stub"
    OBVIOUS
  <2>1. CASE i = Len(outcomes) + 1
    BY <1>2, <1>4, <1>6, <2>1
  <2>2. CASE i \in 1 .. Len(outcomes)
    BY <1>4, <1>6, <2>2 DEF SuiteInv
  <2>3. QED
    BY <1>1, <1>4, <2>1, <2>2
<1>9. \A j \in 1 .. Len(todo') : todo'[j] = targets'[Len(outcomes') + j]
  <2> SUFFICES ASSUME NEW j \in 1 .. Len(todo') PROVE todo'[j] = targets'[Len(outcomes') + j]
    OBVIOUS
  <2>1. j + 1 \in 1 .. Len(todo) /\ Len(outcomes) + (j + 1) = Len(outcomes') + j
    BY <1>1, <1>4, <1>5
  <2>2. todo[j + 1] = targets[Len(outcomes) + (j + 1)]
    BY <2>1 DEF SuiteInv
  <2>3. QED
    BY <1>5, <1>6, <2>1, <2>2
<1>10. Len(targets') = Len(outcomes') + Len(todo')
  <2>1. Len(targets) = Len(outcomes) + Len(todo) /\ targets' = targets
    BY <1>6 DEF SuiteInv
  <2>2. Len(outcomes') = Len(outcomes) + 1 /\ Len(todo') = Len(todo) - 1
    BY <1>4, <1>5
  <2>3. Len(outcomes) \in Nat /\ Len(todo) \in Nat
    BY <1>1
  <2>4. QED
    BY <2>1, <2>2, <2>3
<1>11. SuiteInv'
  BY <1>1, <1>6, <1>8, <1>9, <1>10 DEF SuiteInv
<1>12. QED
  BY <1>7, <1>11

\* A scenario's script goes on.
LEMMA AdvanceStep ==
    ASSUME SuiteTypeOK, SuiteInv, suite \in {"scenario", "subrun"}, job' = None, Advance,
           rcs' \in Seq({0, 1, 2}), hashes' \in Seq(Hashes \cup {None})
    PROVE  SuiteTypeOK' /\ SuiteInv'
<1>1. step' = step + 1 /\ suite' = "scenario" /\ step \in Nat
      /\ UNCHANGED <<selected, targets, todo, outcomes, suite_rc, manual>>
  BY DEF Advance, SuiteTypeOK
<1>2. SuiteTypeOK'
  BY <1>1 DEF SuiteTypeOK
<1>3. SuiteInv'
  BY <1>1 DEF SuiteInv, scenario
<1>4. QED
  BY <1>2, <1>3

\* The verdict of a scenario is no skip.
LEMMA Verdicts3 ==
    ASSUME SuiteTypeOK, scenario \in Active
    PROVE  /\ Verdict(scenario) \in Verdicts \ {"SKIP"}
           /\ \A i : StopsWith(scenario, i) # None => StopsWith(scenario, i) \in Verdicts \ {"SKIP"}
<1>1. Verdict(scenario) \in Verdicts \ {"SKIP"}
  <2>1. CASE scenario = "full-provision"
    BY <2>1 DEF Verdict, Verdicts
  <2>2. CASE scenario = "interrupted-inject-fail"
    BY <2>2 DEF Verdict, Verdicts
  <2>3. CASE scenario = "failure-recover-no-reset"
    BY <2>3 DEF Verdict, Verdicts
  <2>4. CASE scenario = "idempotent-after-manifest-wipe"
    BY <2>4 DEF Verdict, Verdicts
  <2>5. QED
    BY <2>1, <2>2, <2>3, <2>4 DEF Active
<1>2. \A i : StopsWith(scenario, i) \in {"ERROR", "FAIL", None}
  BY DEF StopsWith
<1>3. QED
  BY <1>1, <1>2 DEF Verdicts

\* The phases of a sub-run are phases: it is a good job.
LEMMA SubRunJob ==
    ASSUME SuiteTypeOK, SuiteInv, suite = "scenario", At("run")
    PROVE  GoodJob([mode |-> "phases", phases |-> Here.phases, modules |-> selected, repeat |-> 1,
                    rebuild |-> FALSE, no_reset |-> FALSE])
<1>1. step \in Nat /\ step >= 1 /\ step <= Len(Script(scenario)) /\ scenario \in Active
  BY DEF SuiteTypeOK, SuiteInv, At
<1>2. Here.phases \in SUBSET VALID_PHASES
  <2>1. CASE scenario = "full-provision"
    BY <1>1, <2>1 DEF Here, Script, run_simple_scenario, Run, BuildToVerify, VALID_PHASES
  <2>2. CASE scenario = "interrupted-inject-fail"
    <3>1. step \in 1 .. 5
      BY <1>1, <2>2 DEF Script, run_interrupted_inject_fail
    <3>2. QED
      BY <3>1, <2>2 DEF Here, Script, run_interrupted_inject_fail, Run, Op, BuildToVerify, TransferToVerify, VALID_PHASES
  <2>3. CASE scenario = "failure-recover-no-reset"
    <3>1. step \in 1 .. 5
      BY <1>1, <2>3 DEF Script, run_failure_recover_no_reset
    <3>2. QED
      BY <3>1, <2>3 DEF Here, Script, run_failure_recover_no_reset, Run, Op, TransferToVerify, VALID_PHASES
  <2>4. CASE scenario = "idempotent-after-manifest-wipe"
    <3>1. step \in 1 .. 6
      BY <1>1, <2>4 DEF Script, run_idempotent_after_manifest_wipe
    <3>2. QED
      BY <3>1, <2>4 DEF Here, Script, run_idempotent_after_manifest_wipe, Run, Op, BuildToVerify, VALID_PHASES
  <2>5. QED
    BY <1>1, <2>1, <2>2, <2>3, <2>4 DEF Active
<1>3. QED
  BY <1>2 DEF GoodJob, Jobs, SuiteTypeOK

\* The steps of the suite, and those by hand.
LEMMA SuiteStep ==
    ASSUME VInv, Suite \/ Manual
    PROVE  VInv'
<1>0. HarnessTypeOK /\ SuiteTypeOK /\ JobInv /\ SuiteInv
  BY TypeParts DEF VInv
<1>a. UNCHANGED harnessVars => HarnessTypeOK' /\ JobInv' /\ job' = job
  BY <1>0 DEF harnessVars, diskVars, procVars, HarnessTypeOK, JobInv
<1>b. UNCHANGED <<suite, selected, targets, todo, step, rcs, hashes, outcomes, suite_rc>> /\ manual' \in 0 .. MaxManual
         => SuiteTypeOK'
  BY <1>0 DEF SuiteTypeOK
<1>c. suite \in {"scenario", "subrun"} => todo # <<>> /\ scenario \in Active /\ scenario # "stub"
  BY <1>0 DEF SuiteInv, Active
<1>d. ASSUME HarnessTypeOK', JobInv', SuiteTypeOK', SuiteInv' PROVE VInv'
  <2>1. TypeOK'
    BY <1>d DEF TypeOK, SuiteTypeOK, Names, Outcomes
  <2>2. QED
    BY <1>d, <2>1 DEF VInv
<1>1. CASE Manual
  <2>1. PICK j \in ManualJobs : Launch(j)
    BY <1>1 DEF Manual
  <2>2. HarnessTypeOK' /\ JobInv'
    BY <1>0, <2>1, ManualJobsGood, LaunchStep
  <2>3. SuiteTypeOK'
    <3>1. manual' \in 0 .. MaxManual
      BY <1>0, <1>1, SuiteAssumption DEF Manual, SuiteTypeOK
    <3>2. QED
      BY <1>1, <1>b, <3>1 DEF Manual
  <2>4. SuiteInv'
    BY <1>0, <1>1 DEF Manual, SuiteInv, scenario
  <2>5. QED
    BY <1>d, <2>2, <2>3, <2>4
<1>2. CASE SuiteMain
  <2>1. HarnessTypeOK'
    <3>1. smoke' \in [Modules -> {"absent", "old", "new"}]
      BY <1>0, <1>2 DEF SuiteMain, HarnessTypeOK
    <3>2. QED
      BY <1>0, <1>2, <3>1 DEF SuiteMain, HarnessTypeOK, procVars
  <2>2. JobInv' /\ job' = None
    BY <1>0, <1>2 DEF SuiteMain, JobInv, procVars
  <2>3. targets' \in Seq(Names)
    <3>1. SCENARIOS \in Seq(Names)
      BY SuiteAssumption DEF Names
    <3>2. \A i \in DOMAIN SCENARIOS : <<SCENARIOS[i]>> \in Seq(Names)
      BY <3>1
    <3>3. QED
      BY <1>2, <3>1, <3>2 DEF SuiteMain
  <2>4. /\ suite' = "preflight" /\ todo' = targets' /\ outcomes' = <<>> /\ suite_rc' = None
        /\ selected' \in SUBSET Modules
        /\ UNCHANGED <<step, rcs, hashes, manual>>
    BY <1>0, <1>2, SuiteAssumption DEF SuiteMain, SuiteInv
  <2>5. SuiteTypeOK'
    BY <1>0, <2>3, <2>4 DEF SuiteTypeOK
  <2>6. SuiteInv'
    <3>1. Len(outcomes') = 0 /\ Len(targets') \in Nat /\ suite_rc' # 0
      BY <1>0, <1>2, <2>3, <2>4 DEF SuiteMain, SuiteInv
    <3>2. QED
      BY <2>2, <2>4, <3>1 DEF SuiteInv
  <2>7. QED
    BY <1>d, <2>1, <2>2, <2>5, <2>6
<1>3. CASE check_prerequisites
  <2>1. SuiteTypeOK'
    BY <1>0, <1>3 DEF check_prerequisites, SuiteTypeOK
  <2>2. SuiteInv'
    BY <1>0, <1>3, <1>a DEF check_prerequisites, SuiteInv
  <2>3. QED
    BY <1>3, <1>a, <1>d, <2>1, <2>2 DEF check_prerequisites
<1>4. CASE run_stub
  <2>1. job = None /\ "SKIP" \in Verdicts
    BY <1>0, <1>4 DEF run_stub, SuiteInv, Verdicts
  <2>2. SuiteTypeOK' /\ SuiteInv'
    BY <1>0, <1>4, <1>a, <2>1, FinishStep DEF run_stub
  <2>3. QED
    BY <1>4, <1>a, <1>d, <2>2 DEF run_stub
<1>5. CASE Preflight
  <2>1. PICK ok \in BOOLEAN : ResetVm(ok) /\ ((ok /\ Begin) \/ (~ok /\ Finish("ERROR")))
    BY <1>5 DEF Preflight
  <2>2. UNCHANGED <<staged, procVars>> /\ suite = "preflight" /\ todo # <<>> /\ scenario # "stub" /\ job = None
    BY <1>0, <1>5 DEF Preflight, SuiteInv
  <2>3. HarnessTypeOK' /\ JobInv' /\ job' = None
    <3>1. DiskTypeOK'
      BY <1>0, <2>1, ResetTypes
    <3>2. UNCHANGED <<staged, job, ppc, cycle, built, session, run_rc, results, poller, rc>>
      BY <2>2 DEF procVars
    <3>3. QED
      BY <1>0, <2>2, <3>1, <3>2 DEF HarnessTypeOK, DiskTypeOK, JobInv
  <2>4. CASE Begin
    <3>1. scenario \in Active
      <4>1. todo \in Seq(Names) /\ todo # <<>>
        BY <1>0, <2>2 DEF SuiteTypeOK
      <4>2. scenario \in Names
        BY <4>1 DEF scenario
      <4>3. QED
        BY <2>2, <4>2 DEF Names
    <3>2. SuiteTypeOK'
      BY <1>0, <2>4 DEF Begin, SuiteTypeOK
    <3>3. SuiteInv'
      BY <1>0, <2>2, <2>3, <2>4, <3>1 DEF Begin, SuiteInv, scenario
    <3>4. QED
      BY <1>d, <2>3, <3>2, <3>3
  <2>5. CASE Finish("ERROR")
    <3>1. "ERROR" \in Verdicts
      BY DEF Verdicts
    <3>2. SuiteTypeOK' /\ SuiteInv'
      BY <1>0, <2>2, <2>3, <2>5, <3>1, FinishStep
    <3>3. QED
      BY <1>d, <2>3, <3>2
  <2>6. QED
    BY <2>1, <2>4, <2>5
<1>6. CASE SubRun
  <2>1. suite = "scenario" /\ At("run") /\ suite' = "subrun"
        /\ UNCHANGED <<selected, targets, todo, step, rcs, hashes, outcomes, suite_rc, manual>>
    BY <1>6 DEF SubRun, At
  <2>2. DEFINE j == [mode |-> "phases", phases |-> Here.phases, modules |-> selected, repeat |-> 1,
                     rebuild |-> FALSE, no_reset |-> FALSE]
  <2>3. Launch(j) /\ GoodJob(j) /\ job = None
    BY <1>0, <1>6, <2>1, SubRunJob DEF SubRun, Launch
  <2>4. HarnessTypeOK' /\ JobInv' /\ (job' = j \/ job' = None)
    <3> HIDE DEF j
    <3>1. HarnessTypeOK' /\ JobInv'
      BY <1>0, <2>3, LaunchStep
    <3>2. QED
      BY <2>3, <3>1 DEF Launch
  <2>5. SuiteTypeOK'
    BY <1>0, <2>1 DEF SuiteTypeOK
  <2>6. UNCHANGED <<scenario, Here>>
    BY <2>1 DEF scenario, Here
  <2>7. SuiteInv'
    BY <1>0, <2>1, <2>4, <2>6 DEF SuiteInv, At
  <2>8. QED
    BY <1>d, <2>4, <2>5, <2>7
<1>e. ASSUME UNCHANGED harnessVars, job = None, suite \in {"scenario", "subrun"},
             \/ Finish("ERROR") \/ Finish("FAIL")
             \/ Advance /\ rcs' \in Seq({0, 1, 2}) /\ hashes' \in Seq(Hashes \cup {None})
      PROVE  VInv'
  <2>1. {"ERROR", "FAIL"} \subseteq Verdicts
    BY DEF Verdicts
  <2>2. SuiteTypeOK' /\ SuiteInv'
    BY <1>0, <1>a, <1>c, <1>e, <2>1, FinishStep, AdvanceStep
  <2>3. QED
    BY <1>a, <1>d, <1>e, <2>2
<1>f. ASSUME NEW code \in {0, 1, 2}, SubRunCode(code), suite \in {"scenario", "subrun"}, job = None PROVE VInv'
  <2>1. rcs \in Seq({0, 1, 2}) /\ hashes \in Seq(Hashes \cup {None})
    BY <1>0 DEF SuiteTypeOK
  <2>2. Append(rcs, code) \in Seq({0, 1, 2})
    BY <2>1
  <2>3. StopsWith(scenario, step) # None => StopsWith(scenario, step) \in {"ERROR", "FAIL"}
    BY DEF StopsWith
  <2>4. QED
    BY <1>e, <1>f, <2>1, <2>2, <2>3 DEF SubRunCode
<1>7. CASE SubRunEnds \/ SubRunOSError
  <2>1. rc \in {0, 1, 2}
    BY <1>0 DEF HarnessTypeOK
  <2>2. QED
    BY <1>0, <1>7, <1>f, <2>1 DEF SubRunEnds, SubRunOSError, At, SuiteInv
<1>8. ASSUME NEW kind \in {"bomb", "sporadic"}, Inject(kind) PROVE VInv'
  <2>1. suite = "scenario" /\ job = None /\ UNCHANGED <<power, diskVars, procVars>>
    BY <1>0, <1>8 DEF Inject, At, SuiteInv
  <2>2. staged' \in Payloads \cup {None}
    BY <1>0, <1>8 DEF Inject, HarnessTypeOK, Payloads, Kinds
  <2>3. HarnessTypeOK' /\ JobInv' /\ job' = None
    BY <1>0, <2>1, <2>2 DEF HarnessTypeOK, JobInv, diskVars, procVars
  <2>4. rcs \in Seq({0, 1, 2}) /\ hashes \in Seq(Hashes \cup {None}) /\ "ERROR" \in Verdicts
    BY <1>0 DEF SuiteTypeOK, Verdicts
  <2>5. SuiteTypeOK' /\ SuiteInv'
    BY <1>0, <1>8, <1>c, <2>1, <2>3, <2>4, FinishStep, AdvanceStep DEF Inject
  <2>6. QED
    BY <1>d, <2>3, <2>5
<1>9. CASE ReadManifest
  <2>1. suite = "scenario" /\ job = None /\ UNCHANGED harnessVars
    BY <1>0, <1>9 DEF ReadManifest, At, SuiteInv
  <2>2. CASE manifest # None /\ hashes' = Append(hashes, manifest.payload_hash) /\ Advance /\ UNCHANGED rcs
    <3>1. manifest.payload_hash \in Hashes \cup {None}
      BY <1>0, <2>2 DEF HarnessTypeOK, Manifests
    <3>2. hashes \in Seq(Hashes \cup {None}) /\ rcs \in Seq({0, 1, 2})
      BY <1>0 DEF SuiteTypeOK
    <3>3. hashes' \in Seq(Hashes \cup {None})
      BY <2>2, <3>1, <3>2
    <3>4. QED
      BY <1>e, <2>1, <2>2, <3>2, <3>3
  <2>3. QED
    BY <1>9, <1>e, <2>1, <2>2 DEF ReadManifest
<1>10. CASE DeleteManifest
  <2>1. suite = "scenario" /\ job = None
        /\ UNCHANGED <<staged, power, pristine, ustage, smoke, marker, busy, procVars>>
    BY <1>0, <1>10 DEF DeleteManifest, At, SuiteInv
  <2>2. manifest' \in Manifests \cup {None}
    BY <1>0, <1>10 DEF DeleteManifest, HarnessTypeOK
  <2>3. HarnessTypeOK' /\ JobInv' /\ job' = None
    BY <1>0, <2>1, <2>2 DEF HarnessTypeOK, JobInv, procVars
  <2>4. rcs \in Seq({0, 1, 2}) /\ hashes \in Seq(Hashes \cup {None}) /\ "ERROR" \in Verdicts
    BY <1>0 DEF SuiteTypeOK, Verdicts
  <2>5. SuiteTypeOK' /\ SuiteInv'
    BY <1>0, <1>10, <1>c, <2>1, <2>3, <2>4, FinishStep, AdvanceStep DEF DeleteManifest
  <2>6. QED
    BY <1>d, <2>3, <2>5
<1>11. CASE Judge
  <2>1. suite = "scenario" /\ job = None /\ UNCHANGED harnessVars /\ Finish(Verdict(scenario))
    BY <1>0, <1>11 DEF Judge, SuiteInv
  <2>2. Verdict(scenario) \in Verdicts /\ Verdict(scenario) # "SKIP"
    BY <1>0, <1>c, <2>1, Verdicts3
  <2>3. SuiteTypeOK' /\ SuiteInv'
    BY <1>0, <1>a, <1>c, <2>1, <2>2, FinishStep
  <2>4. QED
    BY <1>a, <1>d, <2>1, <2>3
<1>12. CASE SuiteExit
  <2>1. /\ UNCHANGED harnessVars /\ suite = "preflight" /\ suite' = "over" /\ todo = <<>>
        /\ UNCHANGED <<selected, targets, todo, step, rcs, hashes, outcomes, manual>>
        /\ suite_rc' = IF \A i \in DOMAIN outcomes : outcomes[i].outcome \in Good THEN 0 ELSE 1
    BY <1>12 DEF SuiteExit
  <2>2. SuiteTypeOK'
    BY <1>0, <2>1 DEF SuiteTypeOK
  <2>3. DOMAIN outcomes = 1 .. Len(outcomes)
    BY <1>0 DEF SuiteTypeOK
  <2>4. SuiteInv'
    BY <1>0, <1>a, <2>1, <2>3 DEF SuiteInv
  <2>5. QED
    BY <1>a, <1>d, <2>1, <2>2, <2>4
<1>13. QED
  BY <1>1, <1>2, <1>3, <1>4, <1>5, <1>6, <1>7, <1>8, <1>9, <1>10, <1>11, <1>12 DEF Suite

LEMMA VmInvariance == Spec => []VInv
<1>1. Init => VInv
  <2> SUFFICES ASSUME Init PROVE VInv
    OBVIOUS
  <2>1. TypeOK
    <3>1. <<>> \in Seq(BOOLEAN) /\ <<>> \in Seq(Names) /\ <<>> \in Seq({0, 1, 2}) /\ <<>> \in Seq(Hashes \cup {None})
          /\ <<>> \in Seq(Outcomes)
      OBVIOUS
    <3>2. HarnessTypeOK
      BY <3>1 DEF Init, HarnessInit, HarnessTypeOK
    <3>3. SuiteTypeOK
      BY <3>1, SuiteAssumption DEF Init, SuiteTypeOK
    <3>4. QED
      BY <3>2, <3>3, TypeParts
  <2>2. JobInv
    BY DEF Init, HarnessInit, JobInv
  <2>3. SuiteInv
    <3>1. /\ suite = "idle" /\ outcomes = <<>> /\ todo = <<>> /\ targets = <<>> /\ suite_rc = None
          /\ Len(<<>>) = 0 /\ None # 0
      BY SuiteAssumption DEF Init
    <3>2. QED
      BY <3>1 DEF SuiteInv
  <2>4. QED
    BY <2>1, <2>2, <2>3 DEF VInv
<1>2. VInv /\ [Next]_vars => VInv'
  <2> SUFFICES ASSUME VInv, [Next]_vars PROVE VInv'
    OBVIOUS
  <2>1. CASE HarnessStep /\ UNCHANGED suiteVars
    <3>1. HarnessTypeOK' /\ JobInv'
      BY <2>1, HarnessTypeStep, HarnessJobStep, TypeParts DEF VInv
    <3>2. SuiteTypeOK'
      BY <2>1, TypeParts DEF VInv, suiteVars, SuiteTypeOK
    <3>3. UNCHANGED <<scenario, Here>>
      BY <2>1 DEF suiteVars, scenario, Here
    <3>4. SuiteInv'
      BY <2>1, <3>3, HarnessKeepsJob DEF VInv, SuiteInv, suiteVars
    <3>5. TypeOK'
      BY <3>1, <3>2 DEF TypeOK, SuiteTypeOK, Names, Outcomes
    <3>6. QED
      BY <3>1, <3>4, <3>5 DEF VInv
  <2>2. CASE UNCHANGED vars
    <3>1. TypeOK'
      BY <2>2 DEF vars, harnessVars, suiteVars, diskVars, procVars, VInv, TypeOK, HarnessTypeOK
    <3>2. JobInv'
      BY <2>2 DEF vars, harnessVars, suiteVars, diskVars, procVars, VInv, JobInv
    <3>3. SuiteInv'
      BY <2>2 DEF vars, harnessVars, suiteVars, diskVars, procVars, VInv, SuiteInv, scenario, Here
    <3>4. QED
      BY <3>1, <3>2, <3>3 DEF VInv
  <2>3. QED
    BY <2>1, <2>2, SuiteStep DEF Next
<1>3. QED
  BY <1>1, <1>2, PTL DEF Spec

-----------------------------------------------------------------------------
(* What the harness and the suite promise                                  *)

\* Types, for every set of modules, payload hashes, scenarios and bounds.
THEOREM TypeCorrect == Spec => []TypeOK
<1>1. VInv => TypeOK
  BY DEF VInv
<1>2. QED
  BY <1>1, VmInvariance, PTL

\* At its end a process that verifies has a result for every cycle it was
\* asked for, whatever raised on the way: its exit code speaks for all.
THEOREM CyclesCounted == Spec => []EveryCycleCounted
<1>1. VInv => EveryCycleCounted
  BY DEF VInv, JobInv, EveryCycleCounted
<1>2. QED
  BY <1>1, VmInvariance, PTL

\* An exit code of 0 of the suite means a PASS of every implemented scenario
\* asked for, and a SKIP of every stub, in the order they were asked for.
THEOREM ExitCodeHonest == Spec => []SuiteHonest
<1>1. VInv => SuiteHonest
  <2> SUFFICES ASSUME VInv, suite_rc = 0
               PROVE  outcomes = [i \in DOMAIN targets |->
                                    [name |-> targets[i], outcome |-> IF targets[i] = "stub" THEN "SKIP" ELSE "PASS"]]
    BY DEF SuiteHonest
  <2>1. outcomes \in Seq(Outcomes) /\ targets \in Seq(Names) /\ Len(targets) = Len(outcomes)
    BY DEF VInv, TypeOK, Names, Outcomes, SuiteInv
  <2>2. DOMAIN outcomes = 1 .. Len(outcomes) /\ DOMAIN targets = 1 .. Len(outcomes)
    BY <2>1
  <2>3. ASSUME NEW i \in 1 .. Len(outcomes)
        PROVE  outcomes[i] = [name |-> targets[i], outcome |-> IF targets[i] = "stub" THEN "SKIP" ELSE "PASS"]
    <3>1. outcomes[i] \in Outcomes
      BY <2>1, <2>3
    <3>2. outcomes[i].name = targets[i] /\ outcomes[i].outcome \in {"PASS", "SKIP"}
          /\ (outcomes[i].outcome = "SKIP" <=> targets[i] = "stub")
      BY <2>3 DEF VInv, SuiteInv, Good
    <3>3. QED
      BY <3>1, <3>2 DEF Outcomes
  <2>4. outcomes = [i \in 1 .. Len(outcomes) |-> outcomes[i]]
    BY <2>1
  <2>5. QED
    BY <2>2, <2>3, <2>4
<1>2. QED
  BY <1>1, VmInvariance, PTL

\* While no process runs, the suite and a developer start one or none.
LEMMA OutsideStep ==
    ASSUME VInv, Suite \/ Manual, job' # None
    PROVE  \E j : Launch(j) /\ GoodJob(j) /\ job' = j /\ job = None
<1>0. HarnessTypeOK /\ SuiteTypeOK /\ JobInv /\ SuiteInv
  BY TypeParts DEF VInv
<1>1. CASE Manual
  BY <1>1, ManualJobsGood DEF Manual, Launch
<1>2. CASE SubRun
  BY <1>0, <1>2, SubRunJob DEF SubRun, Launch, At
<1>3. CASE Suite /\ ~SubRun
  <2>1. job = None
    BY <1>0, <1>3 DEF Suite, SuiteMain, check_prerequisites, run_stub, Preflight, SubRunEnds, SubRunOSError, Inject,
         ReadManifest, DeleteManifest, Judge, SuiteExit, At, SuiteInv
  <2>2. job' = None
    BY <1>3, <2>1 DEF Suite, SuiteMain, check_prerequisites, run_stub, Preflight, SubRunEnds, SubRunOSError,
         SubRunCode, Inject, ReadManifest, DeleteManifest, Judge, SuiteExit, harnessVars, procVars
  <2>3. QED
    BY <2>2
<1>4. QED
  BY <1>1, <1>2, <1>3

\* A step of a process keeps its own build its own.
LEMMA BuildStep ==
    ASSUME VInv, BuildInv, HarnessStep
    PROVE  BuildInv'
<1>1. SUFFICES ASSUME job' # None, {"build", "transfer"} \subseteq job'.phases PROVE BuildInv'
  BY DEF BuildInv
<1>2. job' = job /\ job # None /\ {"build", "transfer"} \subseteq job.phases /\ GoodJob(job) /\ HarnessTypeOK
  BY <1>1, HarnessKeepsJob DEF VInv, TypeOK, JobInv
<1>3. job.mode = "phases"
  BY <1>2 DEF GoodJob
<1>4. /\ ppc \in {"connect", "transfer"} => OwnBuild(staged)
      /\ ppc \in {"run", "running"} => OwnCopy(ustage)
      /\ built /\ ~job.rebuild => OwnBuild(staged)
  BY <1>2 DEF BuildInv
\* Most steps move neither payload.
<1>a. ASSUME UNCHANGED <<staged, ustage, built>>,
             ppc' \in {"connect", "transfer"} => ppc \in {"connect", "transfer"},
             ppc' \in {"run", "running"} => ppc \in {"run", "running"}
      PROVE  BuildInv'
  BY <1>2, <1>4, <1>a DEF BuildInv, OwnBuild, OwnCopy
<1>5. CASE phase_build
  <2>1. CASE BuildOk
    <3>1. staged' \in Payloads /\ staged'.kind = "clean" /\ staged'.origin = "this" /\ ppc' = "connect"
      BY <1>3, <2>1 DEF BuildOk, AfterBuild, Fresh
    <3>2. OwnBuild(staged')
      BY <3>1, NoneAssumption DEF OwnBuild
    <3>3. QED
      BY <1>2, <3>1, <3>2 DEF BuildInv, OwnBuild, OwnCopy
  <2>2. CASE BuildFails /\ ~(built /\ ~job.rebuild)
    BY <1>2, <1>3, <2>2 DEF BuildFails, Raised, BuildInv
  <2>3. CASE Goto("connect") /\ built /\ ~job.rebuild
    BY <1>2, <1>4, <2>3 DEF Goto, BuildInv, OwnBuild, OwnCopy
  <2>4. QED
    BY <1>2, <1>3, <1>5, <2>1, <2>2, <2>3 DEF phase_build
<1>6. CASE phase_transfer
  <2>1. CASE \E p \in {staged, Broken} : Pulled(p) /\ ppc' \in {"run", Raised}
    <3>1. OwnBuild(staged) /\ Broken \in Payloads /\ Raised = "raised"
      BY <1>3, <1>4, <1>6, HarnessAssumption DEF phase_transfer, Broken, Payloads, Kinds, Raised
    <3>2. OwnCopy(Broken) /\ OwnCopy(staged)
      BY <3>1, NoneAssumption DEF OwnBuild, OwnCopy, Broken
    <3>3. OwnCopy(ustage') /\ UNCHANGED <<staged, built>> /\ ppc' \in {"run", "raised"}
      BY <2>1, <3>1, <3>2 DEF Pulled, OwnCopy
    <3>4. QED
      BY <1>2, <1>4, <3>3 DEF BuildInv, OwnBuild, OwnCopy
  <2>3. CASE Goto(Raised)
    BY <1>3, <1>a, <2>3 DEF Goto, Raised, diskVars
  <2>4. QED
    BY <1>6, <2>1, <2>3 DEF phase_transfer
<1>7. CASE Connect
  BY <1>3, <1>a, <1>7 DEF Connect, Goto, Raised, diskVars
<1>8. CASE FindStaging
  BY <1>2, <1>8 DEF FindStaging
<1>9. CASE StartRun
  BY <1>a, <1>9 DEF StartRun, Goto, diskVars
<1>10. CASE PollerFails \/ ExecuteReturns \/ VerifyRunReturns \/ RunRaises
  BY <1>a, <1>10 DEF PollerFails, ExecuteReturns, VerifyRunReturns, RunRaises, diskVars
<1>11. CASE Repos \/ phase_verify \/ CycleError \/ NextCycle \/ Exit \/ BusyEnds
  BY <1>1, <1>3, <1>a, <1>11 DEF Repos, phase_verify, CycleError, NextCycle, Exit, BusyEnds, Goto, Judged, Raised,
     diskVars, procVars
<1>12. CASE phase_reset
  BY <1>2, <1>4, <1>12 DEF phase_reset, BuildInv, OwnBuild, OwnCopy
<1>13. QED
  BY <1>5, <1>6, <1>7, <1>8, <1>9, <1>10, <1>11, <1>12 DEF HarnessStep

\* Whatever was staged before, by hand, by an earlier process or by an injected
\* bomb, and however often builds fail or repeat: a process that builds and
\* transfers executes on the unit the payload it has built itself, or what
\* arrived of it.
THEOREM CleanBuildRuns == Spec => []CleanBuildExecuted
<1>1. Init => BuildInv
  BY DEF Init, HarnessInit, BuildInv
<1>2. VInv /\ BuildInv /\ [Next]_vars => BuildInv'
  <2> SUFFICES ASSUME VInv, BuildInv, [Next]_vars PROVE BuildInv'
    OBVIOUS
  <2>1. CASE Suite \/ Manual
    <3>1. SUFFICES ASSUME job' # None PROVE BuildInv'
      BY DEF BuildInv
    <3>2. PICK j : Launch(j) /\ GoodJob(j) /\ job' = j /\ job = None
      BY <2>1, <3>1, OutsideStep
    <3>3. built' = FALSE /\ ppc' = IF j.mode = "phases" THEN "build" ELSE "connect"
      BY <3>1, <3>2 DEF Launch
    <3>4. QED
      BY <3>2, <3>3 DEF BuildInv, GoodJob
  <2>2. CASE HarnessStep
    BY <2>2, BuildStep
  <2>3. CASE UNCHANGED vars
    BY <2>3 DEF vars, harnessVars, diskVars, procVars, BuildInv, OwnBuild, OwnCopy
  <2>4. QED
    BY <2>1, <2>2, <2>3 DEF Next
<1>3. VInv /\ BuildInv => CleanBuildExecuted
  <2> SUFFICES ASSUME VInv, BuildInv, ppc = "running", {"build", "transfer"} \subseteq job.phases
               PROVE  ustage # None /\ ustage.kind \in {"clean", "broken"} /\ ustage.origin = "this"
    BY DEF CleanBuildExecuted
  <2>1. job # None
    BY DEF VInv, JobInv
  <2>2. QED
    BY <2>1 DEF BuildInv, OwnBuild, OwnCopy
<1>4. QED
  BY <1>1, <1>2, <1>3, VmInvariance, PTL DEF Spec

-----------------------------------------------------------------------------
(* The verdicts of the scenarios                                           *)

\* A result that a process adds is a failed cycle, or a verdict on the unit.
LEMMA ResultStep ==
    ASSUME VInv, HarnessStep, "verify" \in job.phases
    PROVE  \/ UNCHANGED results
           \/ Judged(FALSE)
           \/ ppc = "verify" /\ \E healthy \in BOOLEAN : Judged(Passed(healthy))
  BY DEF HarnessStep, phase_build, BuildOk, BuildFails, Connect, phase_transfer, Pulled, FindStaging, StartRun,
     PollerFails, ExecuteReturns, VerifyRunReturns, RunRaises, Repos, phase_verify, CycleError, phase_reset, NextCycle,
     Exit, BusyEnds, Goto, procVars

\* What a process does to the markers: they become new, or a reset removes them.
LEMMA SmokeStep ==
    ASSUME HarnessTypeOK, HarnessStep
    PROVE  \A m \in Modules : smoke'[m] \in {"new", "absent", smoke[m]}
<1>1. CASE UNCHANGED smoke
  BY <1>1
<1>2. ASSUME NEW ok, Provisioned(ok) PROVE \A m \in Modules : smoke'[m] \in {"new", smoke[m]}
  BY <1>2 DEF Provisioned
<1>3. CASE ExecuteReturns
  BY <1>1, <1>2, <1>3 DEF ExecuteReturns
<1>4. CASE RunRaises
  BY <1>1, <1>2, <1>4 DEF RunRaises
<1>5. CASE phase_reset
  BY <1>1, <1>5 DEF phase_reset, ResetVm, CleanDisk
<1>6. QED
  BY <1>1, <1>3, <1>4, <1>5 DEF HarnessStep, phase_build, BuildOk, BuildFails, Connect, phase_transfer, Pulled,
     FindStaging, StartRun, PollerFails, VerifyRunReturns, Repos, phase_verify, CycleError, NextCycle, Exit, BusyEnds,
     Goto, Judged, diskVars, procVars

\* No scenario's process selects verify-run, whose verdict looks at no marker.
LEMMA NoVerifyRun ==
    ASSUME VInv, suite = "subrun", job # None
    PROVE  "verify-run" \notin job.phases
<1>1. job.phases = Here.phases /\ step \in Nat /\ step >= 1 /\ step <= Len(Script(scenario)) /\ scenario \in Active
      /\ Here.op = "run"
  BY DEF VInv, SuiteInv, TypeOK
<1>2. CASE scenario = "full-provision"
  BY <1>1, <1>2 DEF Here, Script, run_simple_scenario, Run, BuildToVerify
<1>3. CASE scenario = "interrupted-inject-fail"
  <2>1. step \in 1 .. 5
    BY <1>1, <1>3 DEF Script, run_interrupted_inject_fail
  <2>2. QED
    BY <1>1, <1>3, <2>1 DEF Here, Script, run_interrupted_inject_fail, Run, Op, BuildToVerify, TransferToVerify
<1>4. CASE scenario = "failure-recover-no-reset"
  <2>1. step \in 1 .. 5
    BY <1>1, <1>4 DEF Script, run_failure_recover_no_reset
  <2>2. QED
    BY <1>1, <1>4, <2>1 DEF Here, Script, run_failure_recover_no_reset, Run, Op, TransferToVerify
<1>5. CASE scenario = "idempotent-after-manifest-wipe"
  <2>1. step \in 1 .. 6
    BY <1>1, <1>5 DEF Script, run_idempotent_after_manifest_wipe
  <2>2. QED
    BY <1>1, <1>5, <2>1 DEF Here, Script, run_idempotent_after_manifest_wipe, Run, Op, BuildToVerify
<1>6. QED
  BY <1>1, <1>2, <1>3, <1>4, <1>5 DEF Active

\* phase_verify accepts markers of any age; the pre-flight reset is what makes a
\* scenario's passing cycle one whose markers were all written in the suite run.
THEOREM VerdictsFresh == Spec => FreshVerdict
<1>1. Init => FreshInv
  BY DEF Init, FreshInv
<1>2. VInv /\ FreshInv /\ [Next]_vars => FreshInv'
  <2> SUFFICES ASSUME VInv, FreshInv, [Next]_vars, suite' \in {"scenario", "subrun"}
               PROVE  \A m \in Modules : smoke'[m] # "old"
    BY DEF FreshInv
  <2>1. CASE HarnessStep /\ UNCHANGED suiteVars
    BY <2>1, SmokeStep DEF FreshInv, suiteVars, VInv, TypeOK
  <2>2. CASE Preflight
    BY <2>2 DEF Preflight, ResetVm, CleanDisk, Finish
  <2>3. CASE suite \in {"scenario", "subrun"} /\ UNCHANGED smoke
    BY <2>3 DEF FreshInv
  <2>4. CASE Suite /\ ~Preflight
    <3>1. suite \in {"scenario", "subrun"}
      BY <2>4 DEF Suite, SuiteMain, check_prerequisites, run_stub, SubRun, SubRunEnds, SubRunOSError, Inject,
         ReadManifest, DeleteManifest, Judge, SuiteExit, Finish, At
    <3>2. UNCHANGED smoke
      BY <2>4, <3>1 DEF Suite, SuiteMain, check_prerequisites, run_stub, SubRun, SubRunEnds, SubRunOSError, SubRunCode,
         Inject, ReadManifest, DeleteManifest, Judge, SuiteExit, Launch, harnessVars, diskVars
    <3>3. QED
      BY <2>3, <3>1, <3>2
  <2>5. CASE Manual \/ UNCHANGED vars
    <3>1. UNCHANGED <<suite, smoke>>
      BY <2>5 DEF Manual, Launch, vars, harnessVars, suiteVars, diskVars
    <3>2. QED
      BY <2>3, <3>1
  <2>6. QED
    BY <2>1, <2>2, <2>4, <2>5 DEF Next
<1>3. ASSUME VInv, FreshInv, [Next]_vars, suite = "subrun", Len(results') > Len(results), "verify" \in job.phases,
             results'[Len(results')]
      PROVE  \A m \in job.modules : smoke[m] = "new"
  <2>0. results \in Seq(BOOLEAN) /\ Len(results) \in Nat
    BY <1>3 DEF VInv, TypeOK, HarnessTypeOK
  <2>1. ~UNCHANGED results
    BY <1>3, <2>0
  <2>2. HarnessStep
    <3>1. ~Manual /\ ~SuiteMain /\ ~SubRun /\ ~Preflight
      BY <1>3 DEF Manual, SuiteMain, SubRun, Preflight, At
    <3>2. ~(Suite \/ UNCHANGED vars)
      BY <1>3, <2>1, <3>1 DEF Suite, check_prerequisites, run_stub, SubRunEnds, SubRunOSError, SubRunCode, Inject,
         ReadManifest, DeleteManifest, Judge, SuiteExit, vars, harnessVars, procVars
    <3>3. QED
      BY <1>3, <3>1, <3>2 DEF Next
  <2>3. job # None
    BY <1>3, <2>1, <2>2, HarnessKeepsJob DEF VInv, procVars
  <2>4. ASSUME NEW v \in BOOLEAN, Judged(v) PROVE v
    <3>1. results' = Append(results, v)
      BY <2>4 DEF Judged
    <3>2. results'[Len(results')] = v
      BY <2>0, <3>1
    <3>3. QED
      BY <1>3, <3>2
  <2>5. PICK healthy \in BOOLEAN : Judged(Passed(healthy))
    BY <1>3, <2>1, <2>2, <2>4, ResultStep
  <2>6. Passed(healthy)
    <3>1. Passed(healthy) \in BOOLEAN
      BY DEF Passed
    <3>2. QED
      BY <2>4, <2>5, <3>1
  <2>7. \A m \in job.modules : m \in Modules /\ smoke[m] # "absent"
    <3>1. job.modules \in SUBSET Modules
      BY <1>3, <2>3 DEF VInv, JobInv, GoodJob, Jobs
    <3>2. QED
      BY <1>3, <2>3, <2>6, <3>1, NoVerifyRun DEF Passed
  <2>8. QED
    BY <1>3, <2>7 DEF FreshInv, VInv, TypeOK, HarnessTypeOK
<1>4. VInv /\ FreshInv /\ [Next]_vars =>
        [suite = "subrun" /\ Len(results') > Len(results) /\ "verify" \in job.phases
            /\ results'[Len(results')] => \A m \in job.modules : smoke[m] = "new"]_vars
  BY <1>3
<1>5. QED
  BY <1>1, <1>2, <1>4, VmInvariance, PTL DEF Spec, FreshVerdict

\* The script of failure-recover-no-reset: between the injection and the final
\* reset its sub-runs transfer, execute and verify.
LEMMA RecoverScript ==
    ASSUME scenario = "failure-recover-no-reset"
    PROVE  /\ step = 2 => Here.op = "sporadic"
           /\ step \in {3, 4} => Here.op = "run" /\ Here.phases = {"transfer", "execute", "verify"}
  BY DEF Here, Script, run_failure_recover_no_reset, Run, Op, TransferToVerify

\* A step of such a sub-run: it succeeds over the marker alone.
LEMMA RecoverStep ==
    ASSUME VInv, RecoverInv, HarnessStep, UNCHANGED suiteVars
    PROVE  RecoverInv'
<1>0. UNCHANGED scenario /\ HarnessTypeOK /\ JobInv
  BY DEF scenario, suiteVars, VInv, TypeOK
<1>1. SUFFICES ASSUME suite \in {"scenario", "subrun"}, selected = Modules, scenario = "failure-recover-no-reset", step \in {3, 4}
               PROVE  RecoverInv'
  BY <1>0 DEF RecoverInv, suiteVars
<1>2. /\ staged # None /\ Armed(staged)
      /\ suite = "subrun" /\ job = None /\ rc = 0 => marker
      /\ suite = "subrun" /\ job # None =>
            /\ ppc \in {"run", "running"} => Armed(ustage)
            /\ ppc = "verify" /\ run_rc = 0 => marker
            /\ ppc \in {"cycled", "exit"} /\ results[1] => marker
  BY <1>1 DEF RecoverInv
<1>3. CASE job = None
  BY <1>0, <1>2, <1>3, HarnessKeepsJob DEF procVars, RecoverInv, suiteVars, Armed
<1>4. CASE job # None
  <2>1. /\ suite = "subrun" /\ job.mode = "phases" /\ job.phases = {"transfer", "execute", "verify"}
        /\ job.modules = Modules /\ job.repeat = 1 /\ cycle = 1 /\ results \in Seq(BOOLEAN)
    <3>1. suite = "subrun" /\ job.mode = "phases" /\ job.phases = Here.phases /\ job.repeat = 1 /\ job.modules = Modules
      BY <1>1, <1>4 DEF VInv, SuiteInv
    <3>2. Here.phases = {"transfer", "execute", "verify"}
      BY <1>1, RecoverScript
    <3>3. cycle = 1
      BY <1>0, <1>4, <3>1 DEF JobInv
    <3>4. QED
      BY <1>0, <3>1, <3>2, <3>3 DEF HarnessTypeOK
  <2>a. ASSUME UNCHANGED <<staged, ustage, marker, job, run_rc, results, rc>>,
               ppc' \in {"run", "running", "verify", "cycled", "exit"} =>
                  ppc' = ppc \/ (ppc = "run" /\ ppc' = "running") \/ (ppc = "cycled" /\ ppc' = "exit")
        PROVE  RecoverInv'
    <3>1. /\ ppc' \in {"run", "running"} => Armed(ustage)
          /\ ppc' = "verify" /\ run_rc = 0 => marker
          /\ ppc' \in {"cycled", "exit"} /\ results[1] => marker
      BY <1>2, <1>4, <2>1, <2>a
    <3>2. QED
      BY <1>0, <1>2, <1>4, <2>1, <2>a, <3>1 DEF RecoverInv, suiteVars, Armed
  <2>b. ASSUME NEW v \in BOOLEAN, Judged(v), ppc \in {"verify", "raised"}, v => marker PROVE RecoverInv'
    <3>1. /\ results' = Append(results, v) /\ ppc' = "cycled"
          /\ UNCHANGED <<staged, ustage, marker, job, rc>>
      BY <2>b DEF Judged, diskVars
    <3>2. Len(results) = 0
      BY <1>0, <1>4, <2>1, <2>b DEF JobInv, Cycling
    <3>3. results'[1] = v
      BY <2>1, <3>1, <3>2
    <3>4. results'[1] => marker
      BY <2>b, <3>3
    <3>5. QED
      BY <1>0, <1>2, <1>4, <2>1, <3>1, <3>4 DEF RecoverInv, suiteVars, Armed
  <2>2. CASE phase_build
    BY <2>1, <2>2, <2>a DEF phase_build, Goto, diskVars
  <2>3. CASE Connect
    BY <2>1, <2>3, <2>a DEF Connect, Goto, Raised, diskVars
  <2>4. CASE phase_transfer
    <3>1. CASE \E p \in {staged, Broken} : Pulled(p) /\ ppc' \in {"run", Raised}
      <4>1. Armed(staged) /\ Armed(Broken)
        BY <1>2 DEF Armed, Broken
      <4>2. /\ Armed(ustage') /\ ppc' \in {"run", "raised"}
            /\ UNCHANGED <<staged, marker, job, run_rc, results, rc>>
        BY <2>1, <3>1, <4>1 DEF Pulled, Raised, Armed
      <4>3. QED
        BY <1>0, <1>2, <1>4, <2>1, <4>2 DEF RecoverInv, suiteVars, Armed
    <3>3. CASE Goto(Raised)
      BY <2>1, <2>a, <3>3 DEF Goto, Raised, diskVars
    <3>4. QED
      BY <2>4, <3>1, <3>3 DEF phase_transfer
  <2>5. CASE FindStaging \/ VerifyRunReturns \/ Repos
    BY <2>1, <2>5 DEF FindStaging, VerifyRunReturns, Repos
  <2>6. CASE StartRun
    BY <2>1, <2>6, <2>a DEF StartRun, Goto, diskVars
  <2>7. CASE PollerFails
    BY <2>7, <2>a DEF PollerFails, diskVars
  <2>8. CASE ExecuteReturns
    <3>1. ppc = "running" /\ ppc' = "verify" /\ UNCHANGED <<staged, ustage, job, results, rc>>
      BY <2>8 DEF ExecuteReturns
    <3>2. ustage.kind \in {"sporadic", "bomb", "broken"}
      BY <1>2, <1>4, <2>1, <3>1 DEF Armed
    <3>3. run_rc' = 0 => marker'
      <4>1. CASE run_rc' = 1
        BY <4>1
      <4>2. CASE /\ ustage.kind # "broken"
                 /\ marker' = (marker \/ RunsEntry("sporadic"))
                 /\ RunsEntry("bomb") \/ (RunsEntry("sporadic") /\ ~marker) => run_rc' = 1
        <5>1. CASE ustage.kind = "bomb"
          <6>1. RunsEntry("bomb")
            BY <2>1, <5>1 DEF RunsEntry
          <6>2. QED
            BY <4>2, <6>1
        <5>2. CASE ustage.kind = "sporadic"
          <6>1. RunsEntry("sporadic")
            BY <2>1, <5>2 DEF RunsEntry
          <6>2. QED
            BY <4>2, <6>1
        <5>3. QED
          BY <3>2, <4>2, <5>1, <5>2
      <4>3. QED
        BY <2>8, <4>1, <4>2 DEF ExecuteReturns
    <3>4. QED
      BY <1>0, <1>2, <1>4, <2>1, <3>1, <3>3 DEF RecoverInv, suiteVars, Armed
  <2>9. CASE RunRaises
    BY <1>0, <1>2, <1>4, <2>1, <2>9 DEF RunRaises, RecoverInv, suiteVars, Armed
  <2>10. CASE phase_verify
    <3>1. "verify" \in job.phases /\ ppc = "verify"
      BY <2>1, <2>10 DEF phase_verify
    <3>2. CASE Goto(Raised)
      BY <2>1, <2>a, <3>2 DEF Goto, Raised, diskVars
    <3>3. ASSUME NEW healthy \in BOOLEAN, Judged(Passed(healthy)) PROVE RecoverInv'
      <4>1. Passed(healthy) \in BOOLEAN
        BY DEF Passed
      <4>2. Passed(healthy) => marker
        BY <1>2, <1>4, <2>1, <3>1 DEF Passed
      <4>3. QED
        BY <2>b, <3>1, <3>3, <4>1, <4>2
    <3>4. QED
      BY <2>10, <3>1, <3>2, <3>3 DEF phase_verify
  <2>11. CASE CycleError
    BY <2>b, <2>11 DEF CycleError
  <2>12. CASE phase_reset
    BY <2>1, <2>12 DEF phase_reset, ResetDue
  <2>13. CASE NextCycle
    BY <2>1, <2>13, <2>a DEF NextCycle, diskVars
  <2>14. CASE Exit
    <3>1. UNCHANGED <<staged, marker>> /\ job' = None /\ ppc \in {"exit", "aborted"}
      BY <2>14 DEF Exit, diskVars
    <3>2. rc' = 0 => ppc = "exit" /\ \A i \in DOMAIN results : results[i]
      BY <2>1, <2>14, <3>1 DEF Exit, ExitCode
    <3>3. ppc = "exit" => 1 \in DOMAIN results
      BY <1>0, <1>4, <2>1 DEF JobInv
    <3>4. rc' = 0 => marker
      BY <1>2, <1>4, <2>1, <3>2, <3>3
    <3>5. QED
      BY <1>0, <1>2, <2>1, <3>1, <3>4 DEF RecoverInv, suiteVars, Armed
  <2>15. CASE BusyEnds
    BY <2>15, <2>a DEF BusyEnds, procVars
  <2>16. QED
    BY <2>2, <2>3, <2>4, <2>5, <2>6, <2>7, <2>8, <2>9, <2>10, <2>11, <2>12, <2>13, <2>14, <2>15 DEF HarnessStep
<1>5. QED
  BY <1>3, <1>4

\* The steps of the suite.
LEMMA RecoverSuiteStep ==
    ASSUME VInv, RecoverInv, Suite \/ Manual
    PROVE  RecoverInv'
<1>0. HarnessTypeOK /\ SuiteTypeOK /\ JobInv /\ SuiteInv
  BY TypeParts DEF VInv
<1>a. ASSUME \E o : Finish(o) PROVE RecoverInv'
  <2>1. suite' \notin {"scenario", "subrun"} \/ step' = 1
    BY <1>a DEF Finish, Begin
  <2>2. QED
    BY <2>1 DEF RecoverInv
<1>1. CASE SuiteMain \/ check_prerequisites \/ run_stub \/ Judge \/ SuiteExit \/ Manual \/ Preflight
  <2>1. CASE SuiteMain \/ check_prerequisites \/ SuiteExit \/ Manual
    <3>1. suite' \notin {"scenario", "subrun"} \/ step' = 1
      BY <2>1 DEF SuiteMain, check_prerequisites, SuiteExit, Manual, Begin, suiteVars
    <3>2. QED
      BY <3>1 DEF RecoverInv
  <2>2. CASE Preflight
    <3>1. Begin \/ Finish("ERROR")
      BY <2>2 DEF Preflight
    <3>2. CASE Begin
      BY <3>2 DEF Begin, RecoverInv
    <3>3. QED
      BY <1>a, <3>1, <3>2
  <2>3. CASE run_stub \/ Judge
    BY <1>a, <2>3 DEF run_stub, Judge
  <2>4. QED
    BY <1>1, <2>1, <2>2, <2>3
\* Only from step 2 or 3 does a script come to 3 or 4, and no script goes back.
<1>b. ASSUME Advance,
             selected = Modules /\ scenario = "failure-recover-no-reset" /\ step \in {2, 3}
                => staged' # None /\ Armed(staged')
      PROVE  RecoverInv'
  <2>1. step \in Nat /\ step' = step + 1 /\ suite' = "scenario" /\ UNCHANGED <<selected, scenario>>
    BY <1>0, <1>b DEF Advance, SuiteTypeOK, scenario
  <2>2. QED
    BY <1>b, <2>1 DEF RecoverInv, Armed
<1>c. ASSUME Advance, scenario # "failure-recover-no-reset" PROVE RecoverInv'
  BY <1>c DEF Advance, scenario, RecoverInv
<1>2. CASE SubRun
  <2>1. /\ suite = "scenario" /\ suite' = "subrun" /\ UNCHANGED <<selected, scenario, step>>
        /\ UNCHANGED marker
    BY <1>2 DEF SubRun, At, scenario, Launch
  <2>2. SUFFICES ASSUME selected = Modules, scenario = "failure-recover-no-reset", step \in {3, 4} PROVE RecoverInv'
    BY <2>1 DEF RecoverInv
  <2>3. staged # None /\ Armed(staged) /\ staged \in Payloads
    BY <1>0, <2>1, <2>2 DEF RecoverInv, HarnessTypeOK
  <2>4. Aged(staged).kind = staged.kind /\ Aged(staged) \in Payloads
    BY <2>3 DEF Aged, Payloads
  <2>5. staged' # None /\ Armed(staged')
    BY <1>2, <2>3, <2>4, NoneAssumption DEF SubRun, Launch, Armed
  <2>6. job' = None => rc' = 1
    <3>1. GoodJob([mode |-> "phases", phases |-> Here.phases, modules |-> selected, repeat |-> 1,
                   rebuild |-> FALSE, no_reset |-> FALSE])
      BY <1>0, <1>2, <2>1, SubRunJob DEF SubRun
    <3>2. QED
      BY <1>2, <3>1, NoneAssumption DEF SubRun, Launch, GoodJob
  <2>7. job' # None => ppc' = "build"
    BY <1>0, <1>2, <2>1 DEF SubRun, Launch, SuiteInv
  <2>8. QED
    BY <2>5, <2>6, <2>7 DEF RecoverInv
<1>3. CASE SubRunEnds \/ SubRunOSError
  <2>1. suite \in {"scenario", "subrun"} /\ Here.op = "run"
    BY <1>0, <1>3 DEF SubRunEnds, SubRunOSError, At, SuiteInv
  <2>2. UNCHANGED harnessVars /\ ((\E o : Finish(o)) \/ Advance)
    BY <1>3 DEF SubRunEnds, SubRunOSError, SubRunCode
  <2>3. scenario = "failure-recover-no-reset" => step # 2
    BY <2>1, RecoverScript
  <2>4. selected = Modules /\ scenario = "failure-recover-no-reset" /\ step = 3 => staged' # None /\ Armed(staged')
    BY <2>1, <2>2 DEF RecoverInv, harnessVars
  <2>5. QED
    BY <1>a, <1>b, <1>c, <2>2, <2>3, <2>4
<1>4. ASSUME NEW kind \in {"bomb", "sporadic"}, Inject(kind) PROVE RecoverInv'
  <2>1. suite = "scenario" /\ Here.op = kind /\ ((\E o : Finish(o)) \/ Advance)
    BY <1>4 DEF Inject, At
  <2>2. scenario = "failure-recover-no-reset" => step # 3
    BY <2>1, RecoverScript
  <2>3. ASSUME scenario = "failure-recover-no-reset", step = 2, Advance PROVE staged' # None /\ Armed(staged')
    <3>1. kind = "sporadic"
      BY <2>1, <2>3, RecoverScript
    <3>2. suite' = "scenario"
      BY <2>3 DEF Advance
    <3>3. /\ staged # None
          /\ staged' = IF staged.kind \in {"broken", "bomb"} THEN staged ELSE [staged EXCEPT !.kind = kind]
      BY <1>4, <3>2 DEF Inject, Finish
    <3>4. staged \in Payloads
      BY <1>0, <3>3 DEF HarnessTypeOK
    <3>5. staged' \in Payloads /\ staged'.kind \in {"broken", "bomb", "sporadic"}
      BY <3>1, <3>3, <3>4 DEF Payloads, Kinds
    <3>6. QED
      BY <3>5, NoneAssumption DEF Armed
  <2>4. QED
    BY <1>a, <1>b, <1>c, <2>1, <2>2, <2>3
<1>5. CASE ReadManifest \/ DeleteManifest
  <2>1. Here.op \in {"read", "delete"} /\ ((\E o : Finish(o)) \/ Advance)
    BY <1>5 DEF ReadManifest, DeleteManifest, At
  <2>2. scenario = "failure-recover-no-reset" => step \notin {2, 3}
    BY <2>1, RecoverScript
  <2>3. QED
    BY <1>a, <1>b, <1>c, <2>1, <2>2
<1>6. QED
  BY <1>1, <1>2, <1>3, <1>4, <1>5 DEF Suite

\* Whatever the first attempts, lost connections, partial copies and left-over
\* bombs were: without --modules, the attempt that failure-recover-no-reset
\* passes on has found the marker of an earlier one, so its first failure was
\* the sporadic bomb's or left its marker.
THEOREM RecoveryIsReal == Spec => RecoveryWasReal
<1>1. Init => RecoverInv
  BY DEF Init, RecoverInv
<1>2. VInv /\ RecoverInv /\ [Next]_vars => RecoverInv'
  <2>1. ASSUME RecoverInv, UNCHANGED vars PROVE RecoverInv'
    BY <2>1 DEF RecoverInv, vars, harnessVars, suiteVars, diskVars, procVars, scenario, Armed
  <2>2. QED
    BY <2>1, RecoverStep, RecoverSuiteStep DEF Next
<1>3. ASSUME VInv, RecoverInv, [Next]_vars, suite = "subrun", selected = Modules, scenario = "failure-recover-no-reset", step = 4,
             rcs' # rcs, rcs'[Len(rcs')] = 0
      PROVE  marker
  <2>1. SubRunEnds
    BY <1>3 DEF Next, Manual, Suite, SuiteMain, check_prerequisites, run_stub, Preflight, SubRun, SubRunOSError, Inject,
       ReadManifest, DeleteManifest, Judge, SuiteExit, At, suiteVars, vars
  <2>2. StopsWith(scenario, step) = None
    BY <1>3 DEF StopsWith
  <2>3. job = None /\ rcs' = Append(rcs, rc)
    BY <2>1, <2>2 DEF SubRunEnds, SubRunCode
  <2>4. rcs \in Seq({0, 1, 2})
    BY <1>3 DEF VInv, TypeOK
  <2>5. rc = 0
    BY <1>3, <2>3, <2>4
  <2>6. QED
    BY <1>3, <2>3, <2>5 DEF RecoverInv
<1>4. VInv /\ RecoverInv /\ [Next]_vars =>
        [suite = "subrun" /\ selected = Modules /\ scenario = "failure-recover-no-reset" /\ step = 4
            /\ rcs' # rcs /\ rcs'[Len(rcs')] = 0 => marker]_vars
  BY <1>3
<1>5. QED
  BY <1>1, <1>2, <1>4, VmInvariance, PTL DEF Spec, RecoveryWasReal
============================================================================
