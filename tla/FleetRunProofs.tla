--------------------------- MODULE FleetRunProofs ---------------------------
(***************************************************************************)
(* Proofs for FleetRun: honest and complete summaries, surviving registry  *)
(* edits, retention, the maintenance window and the types, for every fleet *)
(* and every number of runs, edits and kills.                              *)
(***************************************************************************)
EXTENDS FleetRun, FiniteSetTheorems, FunctionTheorems, WellFoundedInduction, TLAPS

GoodStates == {"OK", "SKIP", "SKIP_MAINTENANCE"}

\* The per-process variables are functions on the processes.
Shaped ==
    /\ pc = [p \in Procs |-> pc[p]] /\ copy = [p \in Procs |-> copy[p]]
    /\ outcomes = [p \in Procs |-> outcomes[p]] /\ exit = [p \in Procs |-> exit[p]]

\* While exit_code is 0 no unit has failed, and what is written says so.
HonestFile(f) ==
    (f # None /\ f.exit_code = EXIT_OK) =>
        Range(f.unit_outcomes) \subseteq GoodStates /\ f.units_failed = 0

Honest ==
    /\ \A p \in Procs : exit[p] = EXIT_OK =>
          \A h \in DOMAIN outcomes[p] : outcomes[p][h] \in GoodStates
    /\ HonestFile(lastTmp) /\ HonestFile(lastRun)

HInv == Shaped /\ Honest

\* The summary of a driver whose exit code is 0 is honest.
LEMMA SummaryHonest ==
    ASSUME NEW p \in Procs, Honest
    PROVE  HonestFile(Summary(p))
<1> SUFFICES ASSUME exit[p] = EXIT_OK
             PROVE  Range(outcomes[p]) \subseteq GoodStates /\ Count(p, FailStates) = 0
  BY DEF HonestFile, Summary
<1>1. \A h \in DOMAIN outcomes[p] : outcomes[p][h] \in GoodStates
  BY DEF Honest
<1>2. Range(outcomes[p]) \subseteq GoodStates
  BY <1>1 DEF Range
<1>3. {h \in DOMAIN outcomes[p] : outcomes[p][h] \in FailStates} = {}
  BY <1>1 DEF GoodStates, FailStates
<1>4. QED
  BY <1>2, <1>3, FS_EmptySet DEF Count

\* Recording a unit's outcome keeps a driver honest.
LEMMA RecordHonest ==
    ASSUME NEW p \in Procs, NEW h, NEW o \in Outcomes, HInv, Record(p, h, o),
           UNCHANGED <<copy, lastTmp, lastRun>>
    PROVE  HInv'
<1>1. Shaped'
  BY DEF HInv, Shaped, Record
<1>2. Honest'
  <2>1. HonestFile(lastTmp)' /\ HonestFile(lastRun)'
    BY DEF HInv, Honest, HonestFile
  <2>2. ASSUME NEW q \in Procs, exit'[q] = EXIT_OK, NEW g \in DOMAIN outcomes'[q]
        PROVE  outcomes'[q][g] \in GoodStates
    <3>1. CASE q = p
      <4>1. o \notin Failures
        BY <2>2, <3>1 DEF Record, HInv, Shaped, EXIT_OK, EXIT_UNIT_FAIL
      <4>2. exit[p] = EXIT_OK
        BY <2>2, <3>1, <4>1 DEF Record
      <4>3. o \in GoodStates
        BY <4>1 DEF Outcomes, GoodStates
      <4>4. outcomes'[p] = [x \in DOMAIN outcomes[p] \cup {h} |-> IF x = h THEN o ELSE outcomes[p][x]]
        BY DEF Record, HInv, Shaped
      <4>5. QED
        BY <2>2, <3>1, <4>2, <4>3, <4>4 DEF HInv, Honest
    <3>2. CASE q # p
      BY <2>2, <3>2 DEF Record, HInv, Shaped, Honest
    <3>3. QED
      BY <3>1, <3>2
  <2>3. QED
    BY <2>1, <2>2 DEF Honest
<1>3. QED
  BY <1>1, <1>2 DEF HInv

\* A driver that forgets its run has nothing to be dishonest about.
LEMMA ForgetHonest ==
    ASSUME NEW p \in Procs, HInv, Forget(p), pc' = [q \in Procs |-> pc'[q]],
           HonestFile(lastTmp)', HonestFile(lastRun)'
    PROVE  HInv'
<1>1. Shaped'
  BY DEF HInv, Shaped, Forget
<1>2. HonestFile(lastTmp)' /\ HonestFile(lastRun)'
  OBVIOUS
<1>3. ASSUME NEW q \in Procs, exit'[q] = EXIT_OK, NEW g \in DOMAIN outcomes'[q]
      PROVE  outcomes'[q][g] \in GoodStates
  BY <1>3 DEF HInv, Shaped, Honest, Forget, NoOutcomes
<1>4. QED
  BY <1>1, <1>2, <1>3 DEF HInv, Honest

\* Every step keeps the drivers and the status files honest.
LEMMA HonestStep == HInv /\ [Next]_vars => HInv'
<1> SUFFICES ASSUME HInv, [Next]_vars PROVE HInv'
  OBVIOUS
<1>1. CASE UNCHANGED <<copy, outcomes, exit, lastTmp, lastRun>> /\ pc' = [q \in Procs |-> pc'[q]]
  BY <1>1 DEF HInv, Shaped, Honest, HonestFile
<1>2. ASSUME NEW p \in Procs, Begin(p) PROVE HInv'
  <2>1. Shaped'
    BY <1>2 DEF Begin, HInv, Shaped
  <2>2. HonestFile(lastTmp)' /\ HonestFile(lastRun)'
    BY <1>2 DEF Begin, HInv, Honest, HonestFile
  <2>3. ASSUME NEW q \in Procs, exit'[q] = EXIT_OK, NEW g \in DOMAIN outcomes'[q]
        PROVE  outcomes'[q][g] \in GoodStates
    BY <1>2, <2>3 DEF Begin, HInv, Shaped, Honest, NoOutcomes
  <2>4. QED
    BY <2>1, <2>2, <2>3 DEF HInv, Honest
<1>3. ASSUME NEW p \in Procs, BeginFatal(p) \/ LogLost(p) \/ FinishLost(p) \/ Prune(p) \/ Kill(p)
      PROVE  HInv'
  <2>1. Forget(p) /\ pc' = [q \in Procs |-> pc'[q]]
    BY <1>3 DEF BeginFatal, LogLost, FinishLost, Prune, Kill, EndCycle, HInv, Shaped
  <2>2. HonestFile(lastTmp)' /\ HonestFile(lastRun)'
    BY <1>3 DEF BeginFatal, LogLost, FinishLost, MoveSummary, Prune, Kill, files, HInv, Honest, HonestFile
  <2>3. QED
    BY <2>1, <2>2, ForgetHonest
<1>4. ASSUME NEW p \in Procs, Unreachable(p) \/ Act(p) \/ Archive(p) PROVE HInv'
  <2>1. \E h : \E o \in Outcomes : Record(p, h, o) /\ UNCHANGED <<copy, lastTmp, lastRun>>
    BY <1>4, FleetRunAssumption DEF Unreachable, Act, Archive, files
  <2>2. QED
    BY <2>1, RecordHonest
<1>5. ASSUME NEW p \in Procs, FinishTmp(p) PROVE HInv'
  <2>1. Shaped' /\ lastTmp' = Summary(p) /\ UNCHANGED <<outcomes, exit, lastRun>>
    BY <1>5 DEF FinishTmp, HInv, Shaped, driver
  <2>2. HonestFile(Summary(p))
    BY SummaryHonest DEF HInv
  <2>3. QED
    BY <2>1, <2>2 DEF HInv, Honest, HonestFile
<1>6. ASSUME NEW p \in Procs, FinishPut(p) PROVE HInv'
  BY <1>6 DEF FinishPut, MoveSummary, HInv, Shaped, Honest, HonestFile, driver
<1>7. ASSUME NEW p \in Procs, Visit(p) PROVE HInv'
  BY <1>1, <1>7 DEF Visit, HInv, Shaped, driver, files
<1>8. ASSUME NEW p \in Procs, PersistLoad(p) \/ PersistTmp(p) \/ PersistPut(p) PROVE HInv'
  BY <1>8 DEF PersistLoad, PersistTmp, PersistPut, HInv, Shaped, Honest, HonestFile, driver, files
<1>9. CASE Loop \/ Stop \/ Edit \/ UNCHANGED vars
  BY <1>1, <1>9 DEF Loop, SvcStart, Wake, LoopExit, Stop, Edit, vars, HInv, Shaped, driver, files
<1>10. QED
  BY <1>2, <1>3, <1>4, <1>5, <1>6, <1>7, <1>8, <1>9 DEF Next, Step

\* Exit code 0 in last-run.json means that no unit failed, for every fleet and
\* for every interleaving of two drivers over the shared files.
THEOREM SummariesAreHonest == Spec => []HonestSummary
<1>1. Init => HInv
  BY DEF Init, HInv, Shaped, Honest, HonestFile, NoOutcomes
<1>2. HInv => HonestSummary
  BY DEF HInv, Honest, HonestFile, HonestSummary, GoodStates
<1>3. QED
  BY <1>1, <1>2, HonestStep, PTL DEF Spec

-----------------------------------------------------------------------------
(***************************************************************************)
(* The operator's edits.                                                   *)
(***************************************************************************)
IsRegistry(r) == r = [rev |-> r.rev, mac |-> r.mac]

\* Outside a race, what the file holds and what any driver is about to write,
\* through its own copy or through the shared temporary name, is the latest
\* revision.  A temporary file that a killed driver left may be older: it is
\* overwritten before it is moved.
Current ==
    /\ IsRegistry(reg) /\ reg.rev = edits
    /\ \A p \in Procs : pc[p] \in {"tmp", "put"} => copy[p].rev = edits
    /\ (\E p \in Procs : pc[p] = "put") => regTmp = None \/ (IsRegistry(regTmp) /\ regTmp.rev = edits)
    /\ \A p \in Procs : pc[p] \in {"tmp", "put"} => IsRegistry(copy[p])

EInv == Shaped /\ (raced \/ Current)

\* Leaving the registry, its temporary file and the copies alone, and moving no
\* driver to where it writes, keeps them current.
LEMMA Elsewhere ==
    ASSUME Shaped, Shaped', raced \/ Current,
           \A p \in Procs : pc'[p] \in {"tmp", "put"} => pc'[p] = pc[p] /\ copy'[p] = copy[p],
           UNCHANGED <<reg, regTmp, edits, raced>>
    PROVE  EInv'
  BY DEF Current, EInv, IsRegistry

\* No step undoes an edit unless an edit fell between a load and its replace.
LEMMA EditStep == EInv /\ [Next]_vars => EInv'
<1> SUFFICES ASSUME EInv, [Next]_vars PROVE EInv'
  OBVIOUS
<1>0. Shaped /\ (raced \/ Current)
  BY DEF EInv
<1>1. ASSUME NEW p \in Procs,
             Begin(p) \/ BeginFatal(p) \/ LogLost(p) \/ Prune(p) \/ Kill(p)
               \/ Visit(p) \/ FinishTmp(p) \/ FinishPut(p) \/ FinishLost(p)
      PROVE  EInv'
  <2>1. UNCHANGED <<reg, regTmp, edits, raced>>
    BY <1>1 DEF Begin, BeginFatal, LogLost, Prune, Kill, Visit, FinishTmp, FinishPut, FinishLost, files, ops
  <2>2. Shaped'
    BY <1>0, <1>1 DEF Shaped, Begin, BeginFatal, LogLost, Prune, Kill, Visit, FinishTmp, FinishPut,
         FinishLost, EndCycle, Forget, driver
  <2>3. ASSUME NEW q \in Procs, pc'[q] \in {"tmp", "put"}
        PROVE  pc'[q] = pc[q] /\ copy'[q] = copy[q]
    BY <1>0, <1>1, <2>3 DEF Shaped, Begin, BeginFatal, LogLost, Prune, Kill, Visit, FinishTmp, FinishPut,
         FinishLost, EndCycle, AfterCycle, Forget, driver
  <2>4. QED
    BY <1>0, <2>1, <2>2, <2>3, Elsewhere
<1>2. ASSUME NEW p \in Procs, Unreachable(p) \/ Act(p) \/ Archive(p) PROVE EInv'
  <2>1. PICK h, o : Record(p, h, o)
    BY <1>2 DEF Unreachable, Act, Archive
  <2>2. UNCHANGED <<reg, regTmp, edits, raced, copy>>
    BY <1>2 DEF Unreachable, Act, Archive, files, ops
  <2>3. Shaped'
    BY <1>0, <2>1, <2>2 DEF Shaped, Record
  <2>4. ASSUME NEW q \in Procs, pc'[q] \in {"tmp", "put"} PROVE pc'[q] = pc[q]
    BY <1>0, <2>1, <2>4 DEF Shaped, Record
  <2>5. QED
    BY <1>0, <2>2, <2>3, <2>4, Elsewhere
<1>3. ASSUME NEW p \in Procs, PersistLoad(p) PROVE EInv'
  <2>1. Shaped' /\ UNCHANGED <<reg, regTmp, edits, raced>>
    BY <1>0, <1>3 DEF PersistLoad, Shaped, files, ops
  <2>2. pc'[p] = "tmp" /\ copy'[p] = [reg EXCEPT !.mac = @ \cup {Head(queue[p])}]
    BY <1>0, <1>3 DEF PersistLoad, Shaped
  <2>3. \A q \in Procs : q # p => pc'[q] = pc[q] /\ copy'[q] = copy[q]
    BY <1>0, <1>3 DEF PersistLoad, Shaped
  <2>4. ASSUME Current PROVE copy'[p].rev = edits /\ IsRegistry(copy'[p])
    BY <2>2, <2>4 DEF Current, IsRegistry
  <2>5. QED
    BY <1>0, <2>1, <2>2, <2>3, <2>4 DEF EInv, Current, IsRegistry
<1>4. ASSUME NEW p \in Procs, PersistTmp(p) PROVE EInv'
  <2>1. Shaped' /\ UNCHANGED <<reg, edits, raced, copy>> /\ regTmp' = copy[p] /\ pc[p] = "tmp"
    BY <1>0, <1>4 DEF PersistTmp, Shaped, driver, ops
  <2>2. \A q \in Procs : pc'[q] \in {"tmp", "put"} => pc[q] \in {"tmp", "put"}
    BY <1>0, <1>4 DEF PersistTmp, Shaped
  <2>3. QED
    BY <1>0, <2>1, <2>2 DEF EInv, Current, IsRegistry
<1>5. ASSUME NEW p \in Procs, PersistPut(p) PROVE EInv'
  <2>1. Shaped' /\ UNCHANGED <<edits, raced>> /\ regTmp' = None /\ pc[p] = "put"
        /\ reg' = IF regTmp = None THEN reg ELSE regTmp
    BY <1>0, <1>5 DEF PersistPut, Shaped, ops
  <2>2. \A q \in Procs : pc'[q] \in {"tmp", "put"} => pc'[q] = pc[q] /\ copy'[q] = copy[q]
    BY <1>0, <1>5 DEF PersistPut, Shaped
  <2>3. QED
    BY <1>0, <2>1, <2>2 DEF EInv, Current, IsRegistry
<1>6. CASE Edit
  <2>1. Shaped' /\ UNCHANGED <<pc, copy, regTmp>> /\ edits' = edits + 1
        /\ reg' = [reg EXCEPT !.rev = edits + 1]
        /\ (raced' <=> (raced \/ \E p \in Procs : pc[p] \in {"tmp", "put"}))
    BY <1>0, <1>6 DEF Edit, Shaped, driver
  <2>2. ASSUME ~raced' PROVE Current'
    <3>1. Current /\ \A p \in Procs : pc[p] \notin {"tmp", "put"}
      BY <1>0, <2>1, <2>2
    <3>2. QED
      BY <2>1, <3>1 DEF Current, IsRegistry
  <2>3. QED
    BY <2>1, <2>2 DEF EInv
<1>7. CASE Loop \/ Stop \/ UNCHANGED vars
  <2>1. UNCHANGED <<reg, regTmp, edits, raced, copy>> /\ Shaped'
    BY <1>0, <1>7 DEF Loop, SvcStart, Wake, LoopExit, Stop, vars, files, driver, ops, Shaped
  <2>2. \A q \in Procs : pc'[q] \in {"tmp", "put"} => pc'[q] = pc[q]
    BY <1>0, <1>7 DEF Loop, SvcStart, Wake, LoopExit, Stop, vars, Shaped, Procs
  <2>3. QED
    BY <1>0, <2>1, <2>2, Elsewhere
<1>8. QED
  BY <1>1, <1>2, <1>3, <1>4, <1>5, <1>6, <1>7 DEF Next, Step

\* Recording MACs never undoes an operator's edit outside the race, for every
\* fleet and every number of edits, kills and runs.
THEOREM EditsAlwaysSurvive == Spec => []EditsSurvive
<1>1. Init => EInv
  BY DEF Init, EInv, Shaped, Current, IsRegistry
<1>2. EInv => EditsSurvive
  BY DEF EInv, Current, EditsSurvive
<1>3. QED
  BY <1>1, <1>2, EditStep, PTL DEF Spec

-----------------------------------------------------------------------------
(***************************************************************************)
(* Retention.                                                              *)
(***************************************************************************)
Above(S, r) == {s \in S : s > r}

KInv == clock \in Nat \ {0} /\ sessions \subseteq 1 .. (clock - 1) /\ KeepsNewest

\* A unit is worked on under a run id that was minted.
Numbered == \A p \in Procs : pc[p] = "act" => run[p] \in 1 .. (clock - 1)

\* A non-empty set of run ids has a newest one.
LEMMA Newest ==
    ASSUME NEW n \in Nat, NEW T, T \subseteq 1 .. n, T # {}
    PROVE  \E m \in T : \A t \in T : t <= m
<1> DEFINE Down == {n - t : t \in T}
<1>1. Down \subseteq Nat /\ Down # {}
  <2>1. \A t \in T : n - t \in Nat
    OBVIOUS
  <2>2. QED
    BY <2>1
<1>2. PICK x \in Down : \A y \in Down : ~(<<y, x>> \in OpToRel(<, Nat))
  BY <1>1, NatLessThanWellFounded, WFMin
<1>3. PICK m \in T : x = n - m
  OBVIOUS
<1>4. ASSUME NEW t \in T PROVE t <= m
  <2>1. n - t \in Down
    OBVIOUS
  <2>2. ~(n - t < x)
    BY <1>1, <1>2, <2>1 DEF OpToRel
  <2>3. QED
    BY <1>3, <2>2
<1>5. QED
  BY <1>4

\* What retention selects, and how many directories are newer than a given one.
LEMMA Selected ==
    ASSUME NEW S, NEW r \in select_prunable_runs(S)
    PROVE  r \in S /\ Cardinality(Above(S, r)) >= Retain
<1>1. select_prunable_runs(S) = {x \in S : Cardinality(Above(S, x)) >= Retain}
  BY Zenon DEF select_prunable_runs, Above
<1>2. QED
  BY <1>1

\* More directories never mean fewer newer ones.
LEMMA AboveGrows ==
    ASSUME NEW n \in Nat, NEW S, NEW T, S \subseteq 1 .. n, NEW r, T = Above(S, r), NEW U, U \subseteq T,
           Cardinality(U) >= Retain
    PROVE  Cardinality(T) >= Retain
<1>1. IsFiniteSet(S)
  <2>1. 1 \in Int /\ n \in Int /\ S \in SUBSET (1 .. n)
    OBVIOUS
  <2>2. IsFiniteSet(1 .. n)
    BY <2>1, FS_Interval
  <2>3. QED
    BY <2>1, <2>2, FS_Subset
<1>2. T \subseteq S
  BY DEF Above
<1>3. IsFiniteSet(T)
  BY <1>1, <1>2, FS_Subset
<1>4. IsFiniteSet(U) /\ Cardinality(U) <= Cardinality(T)
  BY <1>3, FS_Subset
<1>5. Cardinality(U) \in Nat /\ Cardinality(T) \in Nat /\ Retain \in Nat
  BY <1>3, <1>4, FS_CardinalityType, FleetRunAssumption
<1>6. QED
  BY <1>4, <1>5

\* Removing only directories with Retain newer ones leaves those newer ones, in
\* whatever selection the removal succeeds.
LEMMA PruneKeeps ==
    ASSUME NEW n \in Nat, NEW S, S \subseteq 1 .. n, NEW D \in SUBSET select_prunable_runs(S),
           NEW r \in Nat, Cardinality(Above(S, r)) >= Retain
    PROVE  Cardinality(Above(S \ D, r)) >= Retain
<1> DEFINE T == D \cap Above(S, r)
<1>1. CASE T = {}
  <2>1. Above(S \ D, r) = Above(S, r)
    BY <1>1 DEF Above
  <2>2. QED
    BY <2>1
<1>2. CASE T # {}
  <2>1. T \subseteq 1 .. n
    BY DEF Above
  <2>2. PICK m \in T : \A t \in T : t <= m
    BY <1>2, <2>1, Newest
  <2>3. Cardinality(Above(S, m)) >= Retain
    BY <2>2, Selected
  <2>4. Above(S, m) \subseteq Above(S \ D, r)
    <3>1. ASSUME NEW s \in S, s > m PROVE s \notin D /\ s > r
      <4>1. s \in Int /\ m \in Int /\ m > r
        BY <2>1, <2>2 DEF Above
      <4>2. s > r
        BY <3>1, <4>1
      <4>3. s \in T => s <= m
        BY <2>2
      <4>4. s \in D => s \in T
        BY <4>2 DEF Above
      <4>5. QED
        BY <3>1, <4>1, <4>2, <4>3, <4>4
    <3>2. QED
      BY <3>1 DEF Above
  <2>5. S \ D \subseteq 1 .. n
    OBVIOUS
  <2>6. QED
    BY <2>3, <2>4, <2>5, AboveGrows
<1>3. QED
  BY <1>1, <1>2

\* Minting, pruning and everything else keep the newest directories.
LEMMA KeepStep == KInv /\ Numbered /\ [Next]_vars => KInv'
<1> SUFFICES ASSUME KInv, Numbered, [Next]_vars PROVE KInv'
  OBVIOUS
<1>1. CASE UNCHANGED <<clock, sessions>>
  BY <1>1 DEF KInv, KeepsNewest
<1>2. CASE Mint
  <2>1. clock' = clock + 1 /\ sessions' = sessions \cup {clock} /\ clock \in Nat \ {0}
    BY <1>2 DEF Mint, KInv
  <2>2. sessions' \subseteq 1 .. clock
    BY <2>1 DEF KInv
  <2>3. ASSUME NEW r \in 1 .. clock, r \notin sessions'
        PROVE  Cardinality(Above(sessions', r)) >= Retain
    <3>1. r \in 1 .. (clock - 1) /\ r \notin sessions
      BY <2>1, <2>3
    <3>2. Cardinality(Above(sessions, r)) >= Retain
      BY <3>1 DEF KInv, KeepsNewest, Above
    <3>3. Above(sessions, r) \subseteq Above(sessions', r)
      BY <2>1 DEF Above
    <3>4. QED
      BY <2>1, <2>2, <3>2, <3>3, AboveGrows
  <2>4. QED
    BY <2>1, <2>2, <2>3 DEF KInv, KeepsNewest, Above
<1>3. ASSUME NEW p \in Procs, Prune(p) PROVE KInv'
  <2>1. PICK D \in SUBSET select_prunable_runs(sessions) : sessions' = sessions \ D /\ clock' = clock
    BY <1>3 DEF Prune
  <2>2. ASSUME NEW r \in 1 .. (clock - 1), r \notin sessions'
        PROVE  Cardinality(Above(sessions', r)) >= Retain
    <3>1. Cardinality(Above(sessions, r)) >= Retain
      <4>1. CASE r \in sessions
        BY <2>1, <2>2, <4>1, Selected
      <4>2. CASE r \notin sessions
        BY <2>2, <4>2 DEF KInv, KeepsNewest, Above
      <4>3. QED
        BY <4>1, <4>2
    <3>2. QED
      <4>1. clock - 1 \in Nat /\ sessions \subseteq 1 .. (clock - 1) /\ r \in Nat
        BY DEF KInv
      <4>2. Cardinality(Above(sessions \ D, r)) >= Retain
        BY <3>1, <4>1, PruneKeeps
      <4>3. QED
        BY <2>1, <4>2
  <2>3. QED
    BY <2>1, <2>2 DEF KInv, KeepsNewest, Above
<1>a. ASSUME NEW p \in Procs, Archive(p) PROVE KInv'
  <2>1. clock' = clock /\ sessions' = sessions \cup {run[p]} /\ run[p] \in 1 .. (clock - 1)
    BY <1>a DEF Archive, Numbered
  <2>2. sessions' \subseteq 1 .. (clock - 1) /\ clock - 1 \in Nat
    <3>1. clock - 1 \in Nat
      BY DEF KInv
    <3>2. QED
      BY <2>1, <3>1 DEF KInv
  <2>3. ASSUME NEW r \in 1 .. (clock - 1), r \notin sessions'
        PROVE  Cardinality(Above(sessions', r)) >= Retain
    <3>1. Cardinality(Above(sessions, r)) >= Retain
      BY <2>1, <2>3 DEF KInv, KeepsNewest, Above
    <3>2. Above(sessions, r) \subseteq Above(sessions', r)
      BY <2>1 DEF Above
    <3>3. QED
      BY <2>2, <3>1, <3>2, AboveGrows
  <2>4. QED
    BY <2>1, <2>2, <2>3 DEF KInv, KeepsNewest, Above
<1>4. ASSUME NEW p \in Procs, Step(p) \/ Kill(p) PROVE KInv'
  BY <1>1, <1>2, <1>3, <1>a, <1>4 DEF Step, Begin, BeginFatal, LogLost, Unreachable, Visit, PersistLoad,
       PersistTmp, PersistPut, Act, FinishTmp, FinishPut, FinishLost, Kill, files
<1>5. CASE Loop \/ Stop \/ Edit \/ UNCHANGED vars
  BY <1>1, <1>5 DEF Loop, SvcStart, Wake, LoopExit, Stop, Edit, vars, files
<1>6. QED
  BY <1>4, <1>5 DEF Next

-----------------------------------------------------------------------------
(***************************************************************************)
(* Types.                                                                  *)
(***************************************************************************)
Places == {"down", "loop", "units", "load", "tmp", "put", "act", "put_last", "prune", "sleep"}
Idle == {"down", "loop", "sleep"}
Fresh == UNION {[D -> Outcomes] : D \in SUBSET Hosts}

\* The per-process part of the type invariant, with a run id wherever there is a
\* run: TypeOK asks for it only where a unit is at hand.
DriverType(p) ==
    /\ run[p] \in 0..(clock - 1)
    /\ queue[p] \in Seq(Hosts)
    /\ exit[p] \in {EXIT_OK, EXIT_UNIT_FAIL}
    /\ outcomes[p] \in Fresh
    /\ pc[p] \notin Idle => run[p] > 0
    /\ pc[p] \in {"load", "tmp", "put", "act"} => queue[p] # <<>>
    /\ IF pc[p] \in Idle THEN snap[p] = None ELSE snap[p] \in Registries
    /\ IF pc[p] \in {"tmp", "put"} THEN copy[p] \in Registries ELSE copy[p] = None

FileTypes ==
    /\ clock \in 1..(MaxRuns + 1)
    /\ sessions \subseteq 1..(clock - 1)
    /\ reg \in Registries
    /\ regTmp = None \/ regTmp \in Registries
    /\ lastRun = None \/ lastRun \in Summaries
    /\ lastTmp = None \/ lastTmp \in Summaries
    /\ stop \in BOOLEAN /\ restart \in BOOLEAN /\ raced \in BOOLEAN /\ edits \in 0..MaxEdits
    /\ kills \in 0..MaxKills

\* The per-process variables are functions on the processes.
AllShaped ==
    /\ pc \in [Procs -> Places] /\ run = [p \in Procs |-> run[p]] /\ queue = [p \in Procs |-> queue[p]]
    /\ snap = [p \in Procs |-> snap[p]] /\ copy = [p \in Procs |-> copy[p]]
    /\ outcomes = [p \in Procs |-> outcomes[p]] /\ exit = [p \in Procs |-> exit[p]]

TInv == AllShaped /\ FileTypes /\ \A p \in Procs : DriverType(p)

\* What a driver has recorded is a function to outcomes.
LEMMA FreshDef ==
    ASSUME NEW f
    PROVE  f \in Fresh <=> (DOMAIN f \subseteq Hosts /\ f \in [DOMAIN f -> Outcomes])
  BY DEF Fresh

LEMMA FreshGrows ==
    ASSUME NEW f \in Fresh, NEW h \in Hosts, NEW o \in Outcomes
    PROVE  [g \in DOMAIN f \cup {h} |-> IF g = h THEN o ELSE f[g]] \in Fresh
<1> DEFINE n == [g \in DOMAIN f \cup {h} |-> IF g = h THEN o ELSE f[g]]
<1>1. DOMAIN f \subseteq Hosts /\ f \in [DOMAIN f -> Outcomes]
  BY FreshDef
<1>2. DOMAIN n \subseteq Hosts /\ n \in [DOMAIN n -> Outcomes]
  BY <1>1
<1>3. QED
  BY <1>2, FreshDef

LEMMA NothingFresh == NoOutcomes \in Fresh
<1>1. DOMAIN NoOutcomes = {} /\ NoOutcomes \in [DOMAIN NoOutcomes -> Outcomes]
  BY DEF NoOutcomes
<1>2. QED
  BY <1>1, FreshDef

\* Everything the type invariant asks of one driver depends on that driver's
\* own variables, and run ids only grow.
LEMMA OtherDriver ==
    ASSUME NEW p, DriverType(p), clock \in Nat, clock' \in Nat, clock' >= clock,
           pc'[p] = pc[p] /\ run'[p] = run[p] /\ queue'[p] = queue[p] /\ snap'[p] = snap[p]
              /\ copy'[p] = copy[p] /\ outcomes'[p] = outcomes[p] /\ exit'[p] = exit[p]
    PROVE  DriverType(p)'
<1>1. run[p] \in 0..(clock' - 1)
  BY DEF DriverType
<1>2. QED
  BY <1>1 DEF DriverType, Registries, Fresh, Idle

\* A driver that forgets its run, wherever it goes to idle.
LEMMA ForgetType ==
    ASSUME NEW p \in Procs, TInv, Forget(p), clock \in Nat, clock' \in Nat, clock' >= clock,
           pc' \in [Procs -> Places], pc'[p] \in Idle, \A q \in Procs : q # p => pc'[q] = pc[q]
    PROVE  AllShaped' /\ \A q \in Procs : DriverType(q)'
<1>1. AllShaped'
  BY DEF TInv, AllShaped, Forget, Places, Idle
<1>2. DriverType(p)'
  <2>1. /\ run'[p] = 0 /\ queue'[p] = <<>> /\ snap'[p] = None /\ copy'[p] = None
        /\ outcomes'[p] = NoOutcomes /\ exit'[p] = EXIT_OK
    BY DEF TInv, AllShaped, Forget
  <2>2. <<>> \in Seq(Hosts)
    OBVIOUS
  <2>3. pc'[p] \in Idle /\ pc'[p] \notin {"load", "tmp", "put", "act"}
    BY <2>1 DEF Idle
  <2>4. run'[p] \in 0..(clock' - 1)
    <3>1. clock >= 1
      BY FleetRunAssumption DEF TInv, FileTypes
    <3>2. PICK c \in Nat : clock' = c /\ c >= 1
      BY <3>1
    <3>3. QED
      BY <2>1, <3>2
  <2>5. queue'[p] \in Seq(Hosts) /\ outcomes'[p] \in Fresh /\ exit'[p] \in {EXIT_OK, EXIT_UNIT_FAIL}
    BY <2>1, <2>2, NothingFresh
  <2>6. QED
    BY <2>1, <2>3, <2>4, <2>5 DEF DriverType
<1>3. ASSUME NEW q \in Procs, q # p PROVE DriverType(q)'
  <2>1. DriverType(q) /\ clock \in Nat
    BY DEF TInv, FileTypes
  <2>2. pc'[q] = pc[q] /\ run'[q] = run[q] /\ queue'[q] = queue[q] /\ snap'[q] = snap[q]
        /\ copy'[q] = copy[q] /\ outcomes'[q] = outcomes[q] /\ exit'[q] = exit[q]
    BY <1>3 DEF TInv, AllShaped, Forget
  <2>3. QED
    BY <2>1, <2>2, OtherDriver
<1>4. QED
  BY <1>1, <1>2, <1>3

\* A unit's outcome is recorded.
LEMMA RecordType ==
    ASSUME NEW p \in Procs, TInv, queue[p] # <<>>, pc[p] \in {"units", "act"}, NEW o \in Outcomes,
           Record(p, Head(queue[p]), o), sessions' \in {sessions, sessions \cup {run[p]}}, run[p] > 0,
           UNCHANGED <<run, snap, copy, clock, reg, regTmp, lastRun, lastTmp, svc, ops>>
    PROVE  TInv'
<1> DEFINE h == Head(queue[p])
<1>0. AllShaped /\ FileTypes /\ DriverType(p)
  BY DEF TInv
<1>1. h \in Hosts /\ Tail(queue[p]) \in Seq(Hosts)
  BY <1>0 DEF DriverType
<1>2. AllShaped'
  BY <1>0 DEF AllShaped, Record, Places
<1>3. FileTypes'
  <2>1. run[p] \in 1 .. (clock - 1)
    BY <1>0 DEF DriverType, FileTypes
  <2>2. sessions' \subseteq 1 .. (clock' - 1)
    BY <1>0, <2>1 DEF FileTypes
  <2>3. QED
    BY <1>0, <2>2 DEF FileTypes, svc, ops
<1>4. DriverType(p)'
  <2>1. /\ queue'[p] = Tail(queue[p]) /\ pc'[p] = "units" /\ exit'[p] \in {exit[p], EXIT_UNIT_FAIL}
        /\ outcomes'[p] = [g \in DOMAIN outcomes[p] \cup {h} |-> IF g = h THEN o ELSE outcomes[p][g]]
        /\ run'[p] = run[p] /\ snap'[p] = snap[p] /\ copy'[p] = copy[p] /\ clock' = clock
    BY <1>0 DEF AllShaped, Record, files
  <2>2. outcomes'[p] \in Fresh
    <3>1. outcomes[p] \in Fresh
      BY <1>0 DEF DriverType
    <3>2. QED
      BY <1>1, <2>1, <3>1, FreshGrows
  <2>3. QED
    BY <1>0, <1>1, <2>1, <2>2 DEF DriverType, Idle, Registries, Fresh
<1>5. ASSUME NEW q \in Procs, q # p PROVE DriverType(q)'
  <2>1. DriverType(q) /\ clock \in Nat /\ clock' = clock
    BY <1>0 DEF TInv, FileTypes, files
  <2>2. pc'[q] = pc[q] /\ run'[q] = run[q] /\ queue'[q] = queue[q] /\ snap'[q] = snap[q]
        /\ copy'[q] = copy[q] /\ outcomes'[q] = outcomes[q] /\ exit'[q] = exit[q]
    BY <1>0, <1>5 DEF AllShaped, Record
  <2>3. QED
    BY <2>1, <2>2, OtherDriver
<1>6. QED
  BY <1>2, <1>3, <1>4, <1>5 DEF TInv

\* When one driver moves and the run ids do not fall, the others keep their type.
LEMMA OneMoves ==
    ASSUME NEW p \in Procs, TInv, clock' \in Nat, clock' >= clock, DriverType(p)',
           \A q \in Procs : q # p =>
              pc'[q] = pc[q] /\ run'[q] = run[q] /\ queue'[q] = queue[q] /\ snap'[q] = snap[q]
                /\ copy'[q] = copy[q] /\ outcomes'[q] = outcomes[q] /\ exit'[q] = exit[q]
    PROVE  \A q \in Procs : DriverType(q)'
<1>1. ASSUME NEW q \in Procs, q # p PROVE DriverType(q)'
  <2>1. DriverType(q) /\ clock \in Nat
    BY DEF TInv, FileTypes
  <2>2. QED
    BY <1>1, <2>1, OtherDriver
<1>2. QED
  BY <1>1

\* What _finish writes is a summary.
LEMMA SummaryType ==
    ASSUME NEW p \in Procs, TInv, SelectionTyped
    PROVE  Summary(p) \in Summaries
<1> DEFINE D == DOMAIN outcomes[p]
<1>1. D \in SUBSET Hosts /\ outcomes[p] \in [D -> Outcomes] /\ exit[p] \in {EXIT_OK, EXIT_UNIT_FAIL}
  <2>1. DriverType(p)
    BY DEF TInv
  <2>2. QED
    BY <2>1, FreshDef DEF DriverType
<1>2. ASSUME NEW S PROVE Count(p, S) \in 0..Cardinality(Hosts)
  <2> DEFINE C == {h \in D : outcomes[p][h] \in S}
  <2>1. C \subseteq Hosts /\ IsFiniteSet(Hosts)
    BY <1>1, FleetRunAssumption
  <2>2. IsFiniteSet(C) /\ Cardinality(C) <= Cardinality(Hosts)
    BY <2>1, FS_Subset
  <2>3. Cardinality(C) \in Nat /\ Cardinality(Hosts) \in Nat
    BY <2>1, <2>2, FS_CardinalityType
  <2>4. Count(p, S) = Cardinality(C)
    BY Zenon DEF Count
  <2>5. QED
    BY <2>2, <2>3, <2>4
<1>3. Len(select_units(p)) \in 0..Len(Fleet)
  <2>1. Len(select_units(p)) <= Len(Fleet) /\ select_units(p) \in Seq(Hosts) /\ Fleet \in Seq(Hosts)
    BY FleetRunAssumption DEF SelectionTyped
  <2>2. Len(select_units(p)) \in Nat /\ Len(Fleet) \in Nat
    BY <2>1
  <2>3. QED
    BY <2>1, <2>2
<1>4. Summary(p) \in [by : Procs, units_checked : 0..Len(Fleet),
                      units_updated : 0..Cardinality(Hosts), units_failed : 0..Cardinality(Hosts),
                      unit_outcomes : [D -> Outcomes], exit_code : {EXIT_OK, EXIT_UNIT_FAIL}]
  BY <1>1, <1>2, <1>3 DEF Summary
<1>5. QED
  BY <1>1, <1>4 DEF Summaries

\* The steps that leave the drivers' data and the files alone: the type of what
\* they move to is that of what they move from.
LEMMA MoveType ==
    ASSUME NEW p \in Procs, TInv, pc' \in [Procs -> Places],
           \A q \in Procs : q # p => pc'[q] = pc[q],
           pc'[p] \in Idle <=> pc[p] \in Idle,
           pc'[p] \in {"load", "tmp", "put", "act"} => queue[p] # <<>>,
           pc'[p] \notin {"tmp", "put"}, pc[p] \notin {"tmp", "put"},
           UNCHANGED <<driver, clock>>
    PROVE  AllShaped' /\ \A q \in Procs : DriverType(q)'
<1>0. AllShaped /\ FileTypes /\ DriverType(p)
  BY DEF TInv
<1>1. AllShaped'
  BY <1>0 DEF AllShaped, driver
<1>2. DriverType(p)'
  BY <1>0 DEF DriverType, driver, Registries, Fresh
<1>3. clock \in Nat /\ clock' = clock /\ clock' >= clock
  BY <1>0 DEF FileTypes
<1>4. QED
  BY <1>1, <1>2, <1>3, OneMoves DEF driver

\* A new run id.
LEMMA MintType ==
    ASSUME TInv, Mint, clock <= MaxRuns, UNCHANGED <<reg, regTmp, lastRun, lastTmp, svc, ops>>
    PROVE  FileTypes' /\ clock \in Nat /\ clock >= 1 /\ clock' = clock + 1
<1>1. clock \in 1..(MaxRuns + 1) /\ MaxRuns \in Nat /\ clock <= MaxRuns /\ sessions \subseteq 1..(clock - 1)
  BY FleetRunAssumption DEF TInv, FileTypes
<1>2. PICK c \in Nat : clock = c /\ c >= 1 /\ c + 1 <= MaxRuns + 1
  BY <1>1
<1>3. clock' = c + 1 /\ sessions' = sessions \cup {c}
  BY <1>2 DEF Mint
<1>4. sessions' \subseteq 1..c
  BY <1>1, <1>2, <1>3
<1>5. clock' \in 1..(MaxRuns + 1)
  BY <1>1, <1>2, <1>3
<1>6. sessions' \subseteq 1..(clock' - 1)
  <2>1. clock' - 1 = c
    BY <1>2, <1>3
  <2>2. QED
    BY <1>4, <2>1
<1>7. QED
  BY <1>2, <1>3, <1>5, <1>6 DEF TInv, FileTypes, svc, ops

\* A run begins.
LEMMA BeginType ==
    ASSUME NEW p \in Procs, TInv, SelectionTyped, Begin(p)
    PROVE  TInv'
<1>0. AllShaped /\ FileTypes /\ DriverType(p)
  BY DEF TInv
<1>1. FileTypes' /\ clock \in Nat /\ clock >= 1 /\ clock' = clock + 1
  BY MintType DEF Begin, CanStart
<1>2. AllShaped'
  BY <1>0 DEF Begin, AllShaped, Places
<1>3. /\ pc[p] \in Idle /\ pc'[p] = "units" /\ run'[p] = clock /\ queue'[p] = select_units(p)
      /\ snap'[p] = reg /\ copy'[p] = copy[p] /\ outcomes'[p] = NoOutcomes /\ exit'[p] \in PreflightExits
  BY <1>0 DEF Begin, CanStart, AllShaped, Idle
<1>4. DriverType(p)'
  <2>1. run'[p] \in 0..(clock' - 1) /\ run'[p] > 0
    <3>1. PICK c \in Nat : clock = c /\ c >= 1
      BY <1>1
    <3>2. clock' = c + 1 /\ run'[p] = c
      BY <1>1, <1>3, <3>1
    <3>3. clock' - 1 = c
      BY <3>2
    <3>4. QED
      BY <3>1, <3>2, <3>3
  <2>2. queue'[p] \in Seq(Hosts) /\ exit'[p] \in {EXIT_OK, EXIT_UNIT_FAIL} /\ outcomes'[p] \in Fresh
    BY <1>3, FleetRunAssumption, NothingFresh DEF SelectionTyped
  <2>3. snap'[p] \in Registries /\ copy'[p] = None
    BY <1>0, <1>3 DEF FileTypes, DriverType, Idle
  <2>4. QED
    BY <1>3, <2>1, <2>2, <2>3 DEF DriverType, Idle
<1>5. \A q \in Procs : DriverType(q)'
  <2>1. \A q \in Procs : q # p =>
           pc'[q] = pc[q] /\ run'[q] = run[q] /\ queue'[q] = queue[q] /\ snap'[q] = snap[q]
             /\ copy'[q] = copy[q] /\ outcomes'[q] = outcomes[q] /\ exit'[q] = exit[q]
    BY <1>0 DEF Begin, AllShaped
  <2>2. clock' \in Nat /\ clock' >= clock
    BY <1>1
  <2>3. QED
    BY <1>4, <2>1, <2>2, OneMoves
<1>6. QED
  BY <1>1, <1>2, <1>5 DEF TInv

\* A run ends, in whatever way.
LEMMA EndType ==
    ASSUME NEW p \in Procs, TInv, BeginFatal(p) \/ LogLost(p) \/ FinishLost(p) \/ Prune(p) \/ Kill(p)
    PROVE  TInv'
<1>0. AllShaped /\ FileTypes
  BY DEF TInv
<1>1. Forget(p) /\ pc' \in [Procs -> Places] /\ pc'[p] \in Idle /\ \A q \in Procs : q # p => pc'[q] = pc[q]
  BY <1>0 DEF BeginFatal, LogLost, FinishLost, Prune, Kill, EndCycle, AfterCycle, AllShaped, Places, Idle
<1>2. FileTypes' /\ clock \in Nat /\ clock' \in Nat /\ clock' >= clock
  <2>1. clock \in Nat /\ restart \in BOOLEAN
    BY <1>0, FleetRunAssumption DEF FileTypes
  <2>2. CASE BeginFatal(p)
    <3>1. FileTypes /\ clock <= MaxRuns /\ Mint /\ restart' \in BOOLEAN
          /\ UNCHANGED <<reg, regTmp, lastRun, lastTmp, stop, ops>>
      BY <1>0, <2>1, <2>2 DEF BeginFatal, CanStart, EndCycle
    <3>2. clock' = clock + 1 /\ clock' \in 1..(MaxRuns + 1)
      BY <2>1, <3>1, FleetRunAssumption DEF Mint, FileTypes
    <3>3. sessions' \subseteq 1..(clock' - 1)
      <4>1. PICK c \in Nat : clock = c /\ c >= 1
        BY <2>1, <3>1 DEF FileTypes
      <4>2. sessions \subseteq 1..(c - 1) /\ sessions' = sessions \cup {c} /\ clock' = c + 1
        BY <3>1, <4>1 DEF FileTypes, Mint
      <4>3. sessions' \subseteq 1..c /\ clock' - 1 = c
        BY <4>1, <4>2
      <4>4. QED
        BY <4>3
    <3>4. QED
      BY <2>1, <3>1, <3>2, <3>3 DEF FileTypes, ops
  <2>3. CASE LogLost(p) \/ Kill(p)
    <3>1. clock' = clock /\ sessions' = sessions /\ restart' \in BOOLEAN /\ kills' \in 0..MaxKills
          /\ UNCHANGED <<reg, regTmp, lastRun, lastTmp, stop, edits, raced>>
      <4>1. CASE LogLost(p)
        BY <1>0, <2>1, <4>1 DEF LogLost, EndCycle, files, ops, FileTypes
      <4>2. CASE Kill(p)
        <5>1. kills' = kills + 1 /\ kills < MaxKills /\ kills \in Nat /\ MaxKills \in Nat
          BY <1>0, <4>2, FleetRunAssumption DEF Kill, FileTypes
        <5>2. kills' \in 0..MaxKills
          BY <5>1
        <5>3. QED
          BY <2>1, <4>2, <5>2 DEF Kill, files, svc
      <4>3. QED
        BY <2>3, <4>1, <4>2
    <3>2. QED
      BY <1>0, <2>1, <3>1 DEF FileTypes
  <2>4. CASE Prune(p)
    <3>1. clock' = clock /\ sessions' \subseteq sessions /\ restart' \in BOOLEAN
          /\ UNCHANGED <<reg, regTmp, lastRun, lastTmp, stop, ops>>
      BY <1>0, <2>1, <2>4 DEF Prune, EndCycle
    <3>2. QED
      BY <1>0, <2>1, <3>1 DEF FileTypes, ops
  <2>5. CASE FinishLost(p)
    <3>1. /\ UNCHANGED <<clock, sessions, reg, regTmp, stop, ops>> /\ restart' \in BOOLEAN
          /\ lastTmp' = None /\ lastRun' \in {lastRun, lastTmp}
      BY <1>0, <2>1, <2>5 DEF FinishLost, MoveSummary, EndCycle
    <3>2. QED
      BY <1>0, <2>1, <3>1 DEF FileTypes, ops
  <2>6. QED
    BY <2>2, <2>3, <2>4, <2>5
<1>3. AllShaped' /\ \A q \in Procs : DriverType(q)'
  BY <1>1, <1>2, ForgetType
<1>4. QED
  BY <1>2, <1>3 DEF TInv

\* The MAC write-back: load, temporary file, replace.
LEMMA PersistType ==
    ASSUME NEW p \in Procs, TInv, PersistLoad(p) \/ PersistTmp(p) \/ PersistPut(p)
    PROVE  TInv'
<1>0. AllShaped /\ FileTypes /\ DriverType(p)
  BY DEF TInv
<1>1. AllShaped'
  BY <1>0 DEF PersistLoad, PersistTmp, PersistPut, AllShaped, Places, driver
<1>2. Head(queue[p]) \in Hosts /\ pc[p] \notin Idle
  <2>1. queue[p] # <<>> /\ queue[p] \in Seq(Hosts) /\ pc[p] \notin Idle
    BY <1>0 DEF PersistLoad, PersistTmp, PersistPut, DriverType, Idle
  <2>2. QED
    BY <2>1
<1>3. \A r \in Registries : [r EXCEPT !.mac = @ \cup {Head(queue[p])}] \in Registries
  BY <1>2 DEF Registries
<1>4. UNCHANGED <<clock, sessions, lastRun, lastTmp, svc, ops, run, queue, outcomes, exit>>
  BY DEF PersistLoad, PersistTmp, PersistPut, driver, files
<1>5. FileTypes' /\ DriverType(p)'
  <2>1. CASE PersistLoad(p)
    <3>1. UNCHANGED <<reg, regTmp, snap>> /\ pc'[p] = "tmp" /\ pc[p] = "load"
          /\ copy'[p] = [reg EXCEPT !.mac = @ \cup {Head(queue[p])}]
      BY <1>0, <2>1 DEF PersistLoad, AllShaped, files
    <3>2. FileTypes'
      BY <1>0, <1>4, <3>1 DEF FileTypes, svc, ops
    <3>3. copy'[p] \in Registries
      BY <1>0, <1>3, <3>1 DEF FileTypes
    <3>4. DriverType(p)'
      BY <1>0, <1>4, <3>1, <3>3 DEF DriverType, Idle, Registries, Fresh
    <3>5. QED
      BY <3>2, <3>4
  <2>2. CASE PersistTmp(p)
    <3>1. UNCHANGED <<reg, snap, copy>> /\ pc'[p] = "put" /\ pc[p] = "tmp" /\ regTmp' = copy[p]
      BY <1>0, <2>2 DEF PersistTmp, AllShaped, driver
    <3>2. copy[p] \in Registries
      BY <1>0, <3>1 DEF DriverType
    <3>3. FileTypes'
      BY <1>0, <1>4, <3>1, <3>2 DEF FileTypes, svc, ops
    <3>4. DriverType(p)'
      BY <1>0, <1>4, <3>1 DEF DriverType, Idle, Registries, Fresh
    <3>5. QED
      BY <3>3, <3>4
  <2>3. CASE PersistPut(p)
    <3>1. pc'[p] = "act" /\ pc[p] = "put" /\ regTmp' = None /\ copy'[p] = None
      BY <1>0, <2>3 DEF PersistPut, AllShaped
    <3>2. reg' \in Registries
      BY <1>0, <2>3 DEF PersistPut, FileTypes
    <3>3. snap[p] \in Registries
      BY <1>0, <3>1 DEF DriverType, Idle
    <3>4. snap'[p] = snap[p] \/ snap'[p] = [snap[p] EXCEPT !.mac = @ \cup {Head(queue[p])}]
      BY <1>0, <2>3 DEF PersistPut, AllShaped
    <3>5. snap'[p] \in Registries
      BY <1>3, <3>3, <3>4
    <3>6. FileTypes'
      BY <1>0, <1>4, <3>1, <3>2 DEF FileTypes, svc, ops
    <3>7. DriverType(p)'
      BY <1>0, <1>4, <3>1, <3>5 DEF DriverType, Idle, Registries, Fresh
    <3>8. QED
      BY <3>6, <3>7
  <2>4. QED
    BY <2>1, <2>2, <2>3
<1>6. \A q \in Procs : DriverType(q)'
  <2>1. clock' \in Nat /\ clock' >= clock
    <3>1. clock \in Nat /\ clock' = clock
      BY <1>0, <1>4 DEF FileTypes
    <3>2. QED
      BY <3>1
  <2>2. \A q \in Procs : q # p =>
           pc'[q] = pc[q] /\ run'[q] = run[q] /\ queue'[q] = queue[q] /\ snap'[q] = snap[q]
             /\ copy'[q] = copy[q] /\ outcomes'[q] = outcomes[q] /\ exit'[q] = exit[q]
    BY <1>0, <1>4 DEF PersistLoad, PersistTmp, PersistPut, AllShaped, driver
  <2>3. QED
    BY <1>5, <2>1, <2>2, OneMoves
<1>7. QED
  BY <1>1, <1>5, <1>6 DEF TInv

\* Every step keeps the types.
LEMMA TypeStep == SelectionTyped /\ TInv /\ [Next]_vars => TInv'
<1> SUFFICES ASSUME SelectionTyped, TInv, [Next]_vars PROVE TInv'
  OBVIOUS
<1>0. AllShaped /\ FileTypes /\ \A p \in Procs : DriverType(p)
  BY DEF TInv
<1>1. ASSUME NEW p \in Procs, Unreachable(p) \/ Act(p) PROVE TInv'
  <2>1. PICK o \in Outcomes : Record(p, Head(queue[p]), o)
    BY <1>1, FleetRunAssumption DEF Unreachable, Act
  <2>2. queue[p] # <<>> /\ pc[p] \in {"units", "act"} /\ run[p] > 0
    BY <1>0, <1>1 DEF Unreachable, Act, DriverType, Idle
  <2>3. UNCHANGED <<run, snap, copy, files, svc, ops>>
    BY <1>1 DEF Unreachable, Act
  <2>4. QED
    BY <2>1, <2>2, <2>3, RecordType DEF files
<1>2. ASSUME NEW p \in Procs, Visit(p) PROVE TInv'
  <2>1. /\ pc' \in [Procs -> Places] /\ \A q \in Procs : q # p => pc'[q] = pc[q]
        /\ pc[p] = "units" /\ pc'[p] \in {"load", "act"} /\ queue[p] # <<>> /\ UNCHANGED <<driver, files, svc, ops>>
    BY <1>0, <1>2 DEF Visit, AllShaped, Places
  <2>2. AllShaped' /\ \A q \in Procs : DriverType(q)'
    BY <2>1, MoveType DEF files, Idle
  <2>3. QED
    BY <1>0, <2>1, <2>2 DEF TInv, FileTypes, files, svc, ops
<1>a. ASSUME NEW p \in Procs, Archive(p) PROVE TInv'
  <2>1. PICK o \in Outcomes : Record(p, Head(queue[p]), o)
    BY <1>a, FleetRunAssumption DEF Archive
  <2>2. queue[p] # <<>> /\ pc[p] = "act" /\ run[p] > 0
    BY <1>0, <1>a DEF Archive, DriverType, Idle
  <2>3. /\ sessions' = sessions \cup {run[p]}
        /\ UNCHANGED <<run, snap, copy, clock, reg, regTmp, lastRun, lastTmp, svc, ops>>
    BY <1>a DEF Archive
  <2>4. QED
    BY <2>1, <2>2, <2>3, RecordType
<1>3. ASSUME NEW p \in Procs, FinishTmp(p) \/ FinishPut(p) PROVE TInv'
  <2>1. /\ pc' \in [Procs -> Places] /\ \A q \in Procs : q # p => pc'[q] = pc[q]
        /\ pc[p] \in {"units", "put_last"} /\ pc'[p] \in {"put_last", "prune"}
        /\ UNCHANGED <<driver, clock, sessions, reg, regTmp, svc, ops>>
    BY <1>0, <1>3 DEF FinishTmp, FinishPut, AllShaped, Places
  <2>2. AllShaped' /\ \A q \in Procs : DriverType(q)'
    BY <2>1, MoveType DEF Idle
  <2>3. (lastTmp' = None \/ lastTmp' \in Summaries) /\ (lastRun' = None \/ lastRun' \in Summaries)
    BY <1>0, <1>3, SummaryType DEF FinishTmp, FinishPut, MoveSummary, FileTypes
  <2>4. QED
    BY <1>0, <2>1, <2>2, <2>3 DEF TInv, FileTypes, svc, ops
<1>4. ASSUME NEW p \in Procs, Step(p) \/ Kill(p) PROVE TInv'
  BY <1>1, <1>2, <1>a, <1>3, <1>4, BeginType, EndType, PersistType DEF Step
<1>5. CASE Loop
  <2>1. /\ pc' \in [Procs -> Places] /\ \A q \in Procs : q # Service => pc'[q] = pc[q]
        /\ pc[Service] \in Idle /\ pc'[Service] \in Idle
        /\ restart' \in BOOLEAN /\ UNCHANGED <<driver, files, stop, ops>>
    BY <1>0, <1>5 DEF Loop, SvcStart, Wake, LoopExit, AllShaped, FileTypes, Places, Idle, svc
  <2>2. AllShaped' /\ \A q \in Procs : DriverType(q)'
    BY <2>1, MoveType DEF Idle, Procs, files
  <2>3. QED
    BY <1>0, <2>1, <2>2 DEF TInv, FileTypes, files, ops
<1>6. CASE Stop \/ Edit \/ UNCHANGED vars
  <2>1. UNCHANGED <<pc, driver, clock, sessions, regTmp, lastRun, lastTmp, restart, kills>> /\ stop' \in BOOLEAN
    BY <1>0, <1>6 DEF Stop, Edit, vars, FileTypes, files, svc, ops
  <2>2. reg' \in Registries /\ edits' \in 0..MaxEdits /\ raced' \in BOOLEAN
    <3>1. CASE Edit
      <4>1. edits \in Nat /\ MaxEdits \in Nat /\ edits < MaxEdits /\ edits' = edits + 1
        BY <1>0, <3>1, FleetRunAssumption DEF Edit, FileTypes
      <4>2. edits + 1 \in 0..MaxEdits
        BY <4>1
      <4>3. reg' \in Registries
        BY <1>0, <3>1, <4>2 DEF Edit, FileTypes, Registries
      <4>4. raced' \in BOOLEAN
        BY <3>1 DEF Edit
      <4>5. QED
        BY <4>1, <4>2, <4>3, <4>4
    <3>2. CASE Stop \/ UNCHANGED vars
      BY <1>0, <3>2 DEF Stop, vars, FileTypes, files, ops
    <3>3. QED
      BY <1>6, <3>1, <3>2
  <2>3. \A q \in Procs : DriverType(q)'
    BY <1>0, <2>1 DEF DriverType, driver, Registries, Fresh
  <2>4. QED
    BY <1>0, <2>1, <2>2, <2>3 DEF TInv, FileTypes, AllShaped, driver
<1>7. QED
  BY <1>4, <1>5, <1>6 DEF Next

LEMMA TypeInit == Init => TInv
<1> SUFFICES ASSUME Init PROVE TInv
  OBVIOUS
<1>1. AllShaped /\ FileTypes
  <2>1. AllShaped
    BY DEF Init, AllShaped, Places
  <2>2. reg \in Registries
    BY FleetRunAssumption DEF Init, Registries
  <2>3. clock = 1 /\ sessions = {} /\ clock \in 1..(MaxRuns + 1) /\ sessions \subseteq 1..(clock - 1)
    BY FleetRunAssumption DEF Init
  <2>4. edits \in 0..MaxEdits /\ kills \in 0..MaxKills
    BY FleetRunAssumption DEF Init
  <2>5. QED
    BY <2>1, <2>2, <2>3, <2>4 DEF Init, FileTypes
<1>2. ASSUME NEW p \in Procs PROVE DriverType(p)
  <2>1. <<>> \in Seq(Hosts)
    OBVIOUS
  <2>2. run[p] = 0 /\ clock = 1 /\ queue[p] = <<>> /\ exit[p] = EXIT_OK /\ outcomes[p] = NoOutcomes
        /\ pc[p] = "down" /\ snap[p] = None /\ copy[p] = None
    BY DEF Init
  <2>3. run[p] \in 0..(clock - 1)
    BY <2>2
  <2>4. QED
    BY <2>1, <2>2, <2>3, NothingFresh DEF DriverType, Idle
<1>3. QED
  BY <1>1, <1>2 DEF TInv

\* A process has a run, a unit at hand, and a copy of the registry exactly where
\* it works on them, whatever two drivers, kills and edits do in between.
THEOREM TypeCorrect == ASSUME SelectionTyped PROVE Spec => []TypeOK
<1>1. TInv => TypeOK
  <2> SUFFICES ASSUME TInv PROVE TypeOK
    OBVIOUS
  <2>1. ASSUME NEW p \in Procs
        PROVE  DOMAIN outcomes[p] \subseteq Hosts /\ Range(outcomes[p]) \subseteq Outcomes
    <3>1. DOMAIN outcomes[p] \subseteq Hosts /\ outcomes[p] \in [DOMAIN outcomes[p] -> Outcomes]
      BY FreshDef DEF TInv, DriverType
    <3>2. QED
      BY <3>1 DEF Range
  <2>2. QED
    BY <2>1 DEF TInv, AllShaped, FileTypes, DriverType, TypeOK, Places, Idle
<1>2. SelectionTyped /\ TInv /\ [Next]_vars => TInv'
  BY TypeStep
<1>3. QED
  BY <1>1, <1>2, TypeInit, PTL DEF Spec

\* Retention never loses one of the newest Retain directories, however many
\* drivers start, die, prune and make a pruned directory again.
THEOREM NewestAreKept == ASSUME SelectionTyped PROVE Spec => []KeepsNewest
<1>1. Init => KInv
  BY DEF Init, KInv, KeepsNewest
<1>2. KInv => KeepsNewest
  BY DEF KInv
<1>3. SelectionTyped /\ TInv /\ [Next]_vars => TInv'
  BY TypeStep
<1>4. TInv => Numbered
  <2> SUFFICES ASSUME TInv, NEW p \in Procs, pc[p] = "act" PROVE run[p] \in 1 .. (clock - 1)
    BY DEF Numbered
  <2>1. run[p] \in 0 .. (clock - 1) /\ run[p] > 0
    BY DEF TInv, DriverType, Idle
  <2>2. QED
    BY <2>1
<1>5. QED
  BY <1>1, <1>2, <1>3, <1>4, KeepStep, TypeInit, PTL DEF Spec

-----------------------------------------------------------------------------
(***************************************************************************)
(* The maintenance window.                                                 *)
(***************************************************************************)
\* A difference of hours, taken round the clock.
LEMMA RoundTheClock ==
    ASSUME NEW x \in -24..23
    PROVE  x % 24 = IF x < 0 THEN x + 24 ELSE x
  BY SMT

\* The window test is the cyclic interval, for every pair of hours.
LEMMA WindowCyclic == WindowIsCyclic
<1> SUFFICES ASSUME NEW start \in 0..23, NEW end \in 0..24, NEW h \in 0..23
             PROVE  InWindow(start, end, h) <=> h \in HoursOf([start |-> start, end |-> end])
  BY DEF WindowIsCyclic
<1> DEFINE width == IF end = 24 THEN 24 - start ELSE (end - start) % 24
<1>1. h \in HoursOf([start |-> start, end |-> end]) <=> (h - start) % 24 < width
  BY DEF HoursOf
<1>2. (h - start) % 24 = IF h < start THEN h - start + 24 ELSE h - start
  <2>1. h - start \in -24..23
    OBVIOUS
  <2>2. (h - start) % 24 = IF h - start < 0 THEN h - start + 24 ELSE h - start
    BY <2>1, RoundTheClock
  <2>3. QED
    BY <2>2
<1>3. width = IF end = 24 THEN 24 - start ELSE IF end < start THEN end - start + 24 ELSE end - start
  <2>1. CASE end # 24
    <3>1. end - start \in -24..23
      BY <2>1
    <3>2. (end - start) % 24 = IF end - start < 0 THEN end - start + 24 ELSE end - start
      BY <3>1, RoundTheClock
    <3>3. QED
      BY <2>1, <3>2
  <2>2. QED
    BY <2>1
<1>4. QED
  BY <1>1, <1>2, <1>3 DEF InWindow

\* What a driver has recorded of a unit is possible in that unit's window.
WindowHeld(p) ==
    \A h \in DOMAIN outcomes[p] :
        /\ outcomes[p][h] \in AfterGate \ BeforeGate => HoursOf(Window[h]) # {}
        /\ outcomes[p][h] = "SKIP_MAINTENANCE" => HoursOf(Window[h]) # 0..23

\* The one look at the clock decides what Act may record.
LEMMA GateHolds ==
    ASSUME HourWindows, NEW h \in Hosts,
           NEW allowed \in {InWindow(Window[h].start, Window[h].end, hour) : hour \in 0..23},
           NEW o \in BeforeGate \cup (IF allowed THEN AfterGate ELSE {"SKIP_MAINTENANCE"})
    PROVE  /\ o \in AfterGate \ BeforeGate => HoursOf(Window[h]) # {}
           /\ o = "SKIP_MAINTENANCE" => HoursOf(Window[h]) # 0..23
<1>1. PICK hour \in 0..23 : allowed = InWindow(Window[h].start, Window[h].end, hour)
  OBVIOUS
<1>2. HoursOf(Window[h]) = HoursOf([start |-> Window[h].start, end |-> Window[h].end])
  BY DEF HoursOf
<1>3. InWindow(Window[h].start, Window[h].end, hour) <=> hour \in HoursOf(Window[h])
  BY <1>2, WindowCyclic DEF HourWindows, WindowIsCyclic
<1>4. CASE hour \in HoursOf(Window[h])
  <2>1. allowed
    BY <1>1, <1>3, <1>4
  <2>2. o \in BeforeGate \cup AfterGate
    BY <2>1
  <2>3. QED
    BY <1>4, <2>2 DEF BeforeGate, AfterGate
<1>5. CASE hour \notin HoursOf(Window[h])
  <2>1. ~allowed
    BY <1>1, <1>3, <1>5
  <2>2. o \in BeforeGate \cup {"SKIP_MAINTENANCE"}
    BY <2>1
  <2>3. o \notin AfterGate \ BeforeGate
    BY <2>2 DEF AfterGate
  <2>4. QED
    BY <1>1, <1>5, <2>3
<1>6. QED
  BY <1>4, <1>5

\* The window holds what is recorded, whoever records it.
LEMMA WindowStep ==
    HourWindows /\ TInv /\ (\A p \in Procs : WindowHeld(p)) /\ [Next]_vars => \A p \in Procs : WindowHeld(p)'
<1> SUFFICES ASSUME HourWindows, TInv, \A p \in Procs : WindowHeld(p), [Next]_vars, NEW q \in Procs
             PROVE  WindowHeld(q)'
  OBVIOUS
<1>0. AllShaped
  BY DEF TInv
<1>1. CASE outcomes'[q] = outcomes[q]
  BY <1>1 DEF WindowHeld
<1>2. CASE outcomes'[q] = NoOutcomes
  BY <1>2 DEF WindowHeld, NoOutcomes
<1>3. ASSUME NEW p \in Procs, Unreachable(p) \/ Act(p) \/ Archive(p) PROVE WindowHeld(q)'
  <2> DEFINE h == Head(queue[p])
  <2>1. PICK o : /\ Record(p, h, o)
                 /\ o \in AfterGate \ BeforeGate => HoursOf(Window[h]) # {}
                 /\ o = "SKIP_MAINTENANCE" => HoursOf(Window[h]) # 0..23
    <3>1. CASE Unreachable(p)
      <4>1. PICK o \in {"UNREACHABLE", "FAIL"} : Record(p, h, o)
        BY <3>1 DEF Unreachable
      <4>2. o \notin AfterGate \ BeforeGate /\ o # "SKIP_MAINTENANCE"
        BY <4>1 DEF AfterGate, BeforeGate
      <4>3. QED
        BY <4>1, <4>2
    <3>2. CASE Act(p)
      <4>1. h \in Hosts
        <5>1. queue[p] # <<>> /\ queue[p] \in Seq(Hosts)
          BY <3>2 DEF Act, TInv, DriverType
        <5>2. QED
          BY <5>1
      <4>2. PICK allowed \in {InWindow(Window[h].start, Window[h].end, hour) : hour \in 0..23} :
               \E o \in Drawn \cap (BeforeGate \cup (IF allowed THEN AfterGate ELSE {"SKIP_MAINTENANCE"})) :
                  Record(p, h, o)
        BY <3>2, Zenon DEF Act
      <4>3. PICK o \in BeforeGate \cup (IF allowed THEN AfterGate ELSE {"SKIP_MAINTENANCE"}) : Record(p, h, o)
        BY <4>2
      <4>4. QED
        BY <4>1, <4>3, GateHolds
    <3>3. CASE Archive(p)
      <4>1. h \in Hosts
        <5>1. queue[p] # <<>> /\ queue[p] \in Seq(Hosts)
          BY <3>3 DEF Archive, TInv, DriverType
        <5>2. QED
          BY <5>1
      <4>2. PICK hour \in 0..23 : /\ InWindow(Window[h].start, Window[h].end, hour)
                                  /\ \E o \in {"EXECUTE_FAIL", "FAIL", "OK"} : Record(p, h, o)
        BY <3>3, Zenon DEF Archive
      <4>3. PICK o \in {"EXECUTE_FAIL", "FAIL", "OK"} : Record(p, h, o)
        BY <4>2
      <4>4. o \in AfterGate
        BY <4>3 DEF AfterGate
      <4>5. TRUE \in {InWindow(Window[h].start, Window[h].end, x) : x \in 0..23}
        <5>1. InWindow(Window[h].start, Window[h].end, hour) = TRUE
          BY <4>2 DEF InWindow
        <5>2. QED
          BY <5>1
      <4>6. QED
        BY <4>1, <4>3, <4>4, <4>5, GateHolds
    <3>4. QED
      BY <1>3, <3>1, <3>2, <3>3
  <2>2. CASE q = p
    <3>1. outcomes'[p] = [g \in DOMAIN outcomes[p] \cup {h} |-> IF g = h THEN o ELSE outcomes[p][g]]
      BY <1>0, <2>1 DEF Record, AllShaped
    <3>2. QED
      BY <2>1, <2>2, <3>1 DEF WindowHeld
  <2>3. CASE q # p
    <3>1. outcomes'[q] = outcomes[q]
      BY <1>0, <2>1, <2>3 DEF Record, AllShaped
    <3>2. QED
      BY <1>1, <3>1
  <2>4. QED
    BY <2>2, <2>3
<1>4. ASSUME NEW p \in Procs, Step(p) \/ Kill(p), ~Unreachable(p), ~Act(p), ~Archive(p) PROVE WindowHeld(q)'
  <2>1. outcomes'[q] \in {outcomes[q], NoOutcomes}
    BY <1>0, <1>4 DEF AllShaped, Step, Begin, BeginFatal, LogLost, Visit, PersistLoad, PersistTmp, PersistPut,
       FinishTmp, FinishPut, FinishLost, Prune, Kill, EndCycle, Forget, driver
  <2>2. QED
    BY <1>1, <1>2, <2>1
<1>5. CASE Loop \/ Stop \/ Edit \/ UNCHANGED vars
  <2>1. outcomes'[q] = outcomes[q]
    BY <1>5 DEF Loop, SvcStart, Wake, LoopExit, Stop, Edit, vars, driver
  <2>2. QED
    BY <1>1, <2>1
<1>6. QED
  BY <1>3, <1>4, <1>5 DEF Next

\* The maintenance window gates what happens to every unit of every fleet whose
\* windows are given in hours, and its test is the cyclic interval at every hour.
THEOREM WindowsGate == ASSUME SelectionTyped, HourWindows PROVE Spec => []WindowGates
<1>1. Init => \A p \in Procs : WindowHeld(p)
  BY DEF Init, WindowHeld, NoOutcomes
<1>2. (\A p \in Procs : WindowHeld(p)) => WindowGates
  BY WindowCyclic DEF WindowHeld, WindowGates
<1>3. SelectionTyped /\ TInv /\ [Next]_vars => TInv'
  BY TypeStep
<1>4. HourWindows /\ TInv /\ (\A p \in Procs : WindowHeld(p)) /\ [Next]_vars => (\A p \in Procs : WindowHeld(p))'
  BY WindowStep
<1>5. QED
  BY <1>1, <1>2, <1>3, <1>4, TypeInit, PTL DEF Spec

-----------------------------------------------------------------------------
(***************************************************************************)
(* Whole summaries.                                                        *)
(***************************************************************************)
\* A unit is planned exactly if it is recorded or still to be processed.
Accounted(p) ==
    pc[p] \in {"units", "load", "tmp", "put", "act"} =>
        DOMAIN outcomes[p] \cup ToSet(queue[p]) = ToSet(select_units(p))

WholeFile(f) ==
    f # None =>
        /\ DOMAIN f.unit_outcomes = ToSet(select_units(f.by))
        /\ f.units_checked = Cardinality(DOMAIN f.unit_outcomes)

CInv == (\A p \in Procs : Accounted(p)) /\ WholeFile(lastTmp) /\ WholeFile(lastRun)

\* A queue is its head and its tail.
LEMMA HeadAndTail ==
    ASSUME NEW s \in Seq(Hosts), s # <<>>
    PROVE  ToSet(s) = {Head(s)} \cup ToSet(Tail(s))
<1>1. /\ Tail(s) \in Seq(Hosts) /\ Len(Tail(s)) = Len(s) - 1 /\ Len(s) \in Nat /\ Len(s) >= 1
      /\ Head(s) = s[1] /\ \A i \in 1..Len(Tail(s)) : Tail(s)[i] = s[i + 1]
  OBVIOUS
<1>2. DOMAIN s = 1..Len(s) /\ DOMAIN Tail(s) = 1..(Len(s) - 1)
  BY <1>1
<1>3. ASSUME NEW i \in 1..Len(s) PROVE s[i] \in {Head(s)} \cup ToSet(Tail(s))
  <2>1. CASE i = 1
    BY <1>1, <2>1
  <2>2. CASE i # 1
    <3>1. i - 1 \in 1..(Len(s) - 1) /\ (i - 1) + 1 = i
      BY <1>1, <2>2
    <3>2. Tail(s)[i - 1] = s[i]
      BY <1>1, <3>1
    <3>3. QED
      BY <1>2, <3>1, <3>2 DEF ToSet
  <2>3. QED
    BY <2>1, <2>2
<1>4. ASSUME NEW i \in 1..(Len(s) - 1) PROVE Tail(s)[i] \in ToSet(s)
  <2>1. i + 1 \in 1..Len(s) /\ Tail(s)[i] = s[i + 1]
    BY <1>1
  <2>2. QED
    BY <1>2, <2>1 DEF ToSet
<1>5. Head(s) \in ToSet(s)
  <2>1. 1 \in 1..Len(s)
    BY <1>1
  <2>2. QED
    BY <1>1, <1>2, <2>1 DEF ToSet
<1>6. ToSet(s) \subseteq {Head(s)} \cup ToSet(Tail(s))
  BY <1>2, <1>3 DEF ToSet
<1>7. ToSet(Tail(s)) \subseteq ToSet(s)
  <2>1. ToSet(Tail(s)) = {Tail(s)[i] : i \in 1..(Len(s) - 1)}
    BY <1>2 DEF ToSet
  <2>2. QED
    BY <1>4, <2>1
<1>8. QED
  BY <1>5, <1>6, <1>7

\* A selection without repetitions has as many units as entries.
LEMMA SelectionCounts ==
    ASSUME SelectionTyped, SelectsOnce, NEW p \in Procs
    PROVE  Cardinality(ToSet(select_units(p))) = Len(select_units(p))
<1> DEFINE s == select_units(p)
<1>1. s \in Seq(Hosts) /\ IsInjective(s)
  BY DEF SelectionTyped, SelectsOnce
<1> HIDE DEF s
<1>2. Len(s) \in Nat /\ DOMAIN s = 1..Len(s)
  BY <1>1
<1>3. ToSet(s) = {s[i] : i \in 1..Len(s)}
  BY <1>2 DEF ToSet
<1>4. s \in [1..Len(s) -> ToSet(s)]
  BY <1>1, <1>2, <1>3
<1>5. \A a, b \in 1..Len(s) : s[a] = s[b] => a = b
  BY <1>1, <1>2 DEF IsInjective
<1>6. \A t \in ToSet(s) : \E i \in 1..Len(s) : s[i] = t
  BY <1>3
<1>7. ExistsBijection(1..Len(s), ToSet(s))
  BY <1>4, <1>5, <1>6, Fun_IsBij DEF ExistsBijection
<1>8. Cardinality(ToSet(s)) = Len(s)
  BY <1>2, <1>7, FS_CountingElements
<1>9. QED
  BY <1>8 DEF s

\* A driver writes its summary only when every unit of its plan is recorded.
LEMMA SummaryWhole ==
    ASSUME SelectionTyped, SelectsOnce, NEW p \in Procs, Accounted(p), pc[p] = "units", queue[p] = <<>>
    PROVE  WholeFile(Summary(p))
<1>1. ToSet(queue[p]) = {}
  BY DEF ToSet
<1>2. DOMAIN outcomes[p] = ToSet(select_units(p))
  BY <1>1 DEF Accounted
<1>3. QED
  BY <1>2, SelectionCounts DEF WholeFile, Summary

\* Recording a unit moves it from the queue to the outcomes.
LEMMA RecordAccounts ==
    ASSUME NEW p \in Procs, TInv, Accounted(p), queue[p] # <<>>, pc[p] \in {"units", "act"},
           NEW o, Record(p, Head(queue[p]), o)
    PROVE  Accounted(p)'
<1> DEFINE h == Head(queue[p])
<1>1. queue[p] \in Seq(Hosts)
  BY DEF TInv, DriverType
<1>2. ToSet(queue[p]) = {h} \cup ToSet(Tail(queue[p]))
  BY <1>1, HeadAndTail
<1>3. DOMAIN outcomes'[p] = DOMAIN outcomes[p] \cup {h} /\ queue'[p] = Tail(queue[p])
  BY DEF TInv, AllShaped, Record
<1>4. DOMAIN outcomes[p] \cup ToSet(queue[p]) = ToSet(select_units(p))
  BY DEF Accounted
<1>5. DOMAIN outcomes'[p] \cup ToSet(queue'[p]) = ToSet(select_units(p))
  BY <1>2, <1>3, <1>4
<1>6. QED
  BY <1>5 DEF Accounted

\* No step loses a unit of a plan.
LEMMA CompleteStep == SelectionTyped /\ SelectsOnce /\ TInv /\ CInv /\ [Next]_vars => CInv'
<1> SUFFICES ASSUME SelectionTyped, SelectsOnce, TInv, CInv, [Next]_vars PROVE CInv'
  OBVIOUS
<1>0. AllShaped /\ (\A q \in Procs : Accounted(q)) /\ WholeFile(lastTmp) /\ WholeFile(lastRun)
  BY DEF TInv, CInv
<1>a. ASSUME NEW p \in Procs, Accounted(p)', lastTmp' \in {lastTmp, None}, lastRun' \in {lastRun, lastTmp},
             \A q \in Procs : q # p => pc'[q] = pc[q] /\ queue'[q] = queue[q] /\ outcomes'[q] = outcomes[q]
      PROVE  CInv'
  <2>1. ASSUME NEW q \in Procs, q # p PROVE Accounted(q)'
    BY <1>0, <1>a, <2>1 DEF Accounted
  <2>2. QED
    BY <1>0, <1>a, <2>1 DEF CInv, WholeFile
<1>1. ASSUME NEW p \in Procs, Begin(p) PROVE CInv'
  <2>1. outcomes'[p] = NoOutcomes /\ queue'[p] = select_units(p)
    BY <1>0, <1>1 DEF Begin, AllShaped
  <2>2. Accounted(p)'
    BY <2>1 DEF Accounted, NoOutcomes
  <2>3. UNCHANGED <<lastTmp, lastRun>>
        /\ \A q \in Procs : q # p => pc'[q] = pc[q] /\ queue'[q] = queue[q] /\ outcomes'[q] = outcomes[q]
    BY <1>0, <1>1 DEF Begin, AllShaped
  <2>4. QED
    BY <1>a, <2>2, <2>3
<1>2. ASSUME NEW p \in Procs, BeginFatal(p) \/ LogLost(p) \/ FinishLost(p) \/ Prune(p) \/ Kill(p)
      PROVE  CInv'
  <2>1. pc'[p] \in Idle
    BY <1>0, <1>2 DEF BeginFatal, LogLost, FinishLost, Prune, Kill, EndCycle, AfterCycle, AllShaped, Idle
  <2>2. Accounted(p)'
    BY <2>1 DEF Accounted, Idle
  <2>3. \A q \in Procs : q # p => pc'[q] = pc[q] /\ queue'[q] = queue[q] /\ outcomes'[q] = outcomes[q]
    BY <1>0, <1>2 DEF BeginFatal, LogLost, FinishLost, Prune, Kill, EndCycle, Forget, AllShaped
  <2>4. lastTmp' \in {lastTmp, None} /\ lastRun' \in {lastRun, lastTmp}
    BY <1>2 DEF BeginFatal, LogLost, FinishLost, MoveSummary, Prune, Kill, files
  <2>5. QED
    BY <1>a, <2>2, <2>3, <2>4
<1>3. ASSUME NEW p \in Procs, Unreachable(p) \/ Act(p) \/ Archive(p) PROVE CInv'
  <2>1. PICK o : Record(p, Head(queue[p]), o)
    BY <1>3 DEF Unreachable, Act, Archive
  <2>2. queue[p] # <<>> /\ pc[p] \in {"units", "act"} /\ UNCHANGED <<lastTmp, lastRun>>
    BY <1>3 DEF Unreachable, Act, Archive, TInv, DriverType, files
  <2>3. Accounted(p)'
    BY <1>0, <2>1, <2>2, RecordAccounts
  <2>4. \A q \in Procs : q # p => pc'[q] = pc[q] /\ queue'[q] = queue[q] /\ outcomes'[q] = outcomes[q]
    BY <1>0, <2>1 DEF Record, AllShaped
  <2>5. QED
    BY <1>a, <2>2, <2>3, <2>4
<1>4. ASSUME NEW p \in Procs, Visit(p) \/ PersistLoad(p) \/ PersistTmp(p) \/ PersistPut(p) PROVE CInv'
  <2>1. /\ pc[p] \in {"units", "load", "tmp", "put"} /\ UNCHANGED <<queue, outcomes, lastTmp, lastRun>>
        /\ \A q \in Procs : q # p => pc'[q] = pc[q]
    BY <1>0, <1>4 DEF Visit, PersistLoad, PersistTmp, PersistPut, AllShaped, driver, files
  <2>2. Accounted(p)'
    BY <1>0, <2>1 DEF Accounted
  <2>3. QED
    BY <1>a, <2>1, <2>2
<1>5. ASSUME NEW p \in Procs, FinishTmp(p) \/ FinishPut(p) PROVE CInv'
  <2>1. /\ UNCHANGED <<queue, outcomes>> /\ pc'[p] \in {"put_last", "prune"}
        /\ \A q \in Procs : q # p => pc'[q] = pc[q]
    BY <1>0, <1>5 DEF FinishTmp, FinishPut, AllShaped, driver
  <2>2. \A q \in Procs : Accounted(q)'
    BY <1>0, <2>1 DEF Accounted
  <2>3. WholeFile(lastTmp)' /\ WholeFile(lastRun)'
    <3>1. CASE FinishTmp(p)
      <4>1. WholeFile(Summary(p)) /\ lastTmp' = Summary(p) /\ lastRun' = lastRun
        BY <1>0, <3>1, SummaryWhole DEF FinishTmp
      <4>2. QED
        BY <1>0, <4>1 DEF WholeFile
    <3>2. CASE FinishPut(p)
      BY <1>0, <3>2 DEF FinishPut, MoveSummary, WholeFile
    <3>3. QED
      BY <1>5, <3>1, <3>2
  <2>4. QED
    BY <2>2, <2>3 DEF CInv
<1>6. CASE Loop
  <2>1. pc'[Service] \in Idle /\ UNCHANGED <<queue, outcomes, lastTmp, lastRun>>
        /\ \A q \in Procs : q # Service => pc'[q] = pc[q]
    BY <1>0, <1>6 DEF Loop, SvcStart, Wake, LoopExit, AllShaped, Procs, Idle, driver, files
  <2>2. Accounted(Service)' /\ Service \in Procs
    BY <2>1 DEF Accounted, Idle, Procs
  <2>3. QED
    BY <1>a, <2>1, <2>2
<1>7. CASE Stop \/ Edit \/ UNCHANGED vars
  <2>1. UNCHANGED <<pc, queue, outcomes, lastTmp, lastRun>>
    BY <1>7 DEF Stop, Edit, vars, driver, files
  <2>2. QED
    BY <1>0, <2>1 DEF CInv, Accounted, WholeFile
<1>8. QED
  BY <1>1, <1>2, <1>3, <1>4, <1>5, <1>6, <1>7 DEF Next, Step

\* last-run.json leaves out no unit of its run, for every registry that names
\* each unit once, whatever two drivers, kills and failures do.
THEOREM SummariesAreComplete == ASSUME SelectionTyped, SelectsOnce PROVE Spec => []CompleteSummary
<1>1. Init => CInv
  BY DEF Init, CInv, Accounted, WholeFile
<1>2. CInv => CompleteSummary
  BY DEF CInv, WholeFile, CompleteSummary
<1>3. SelectionTyped /\ TInv /\ [Next]_vars => TInv'
  BY TypeStep
<1>4. SelectionTyped /\ SelectsOnce /\ TInv /\ CInv /\ [Next]_vars => CInv'
  BY CompleteStep
<1>5. QED
  BY <1>1, <1>2, <1>3, <1>4, TypeInit, PTL DEF Spec
=============================================================================
