--------------------------- MODULE UnitDriftProofs ---------------------------
(***************************************************************************)
(* The safety properties of UnitDrift for every set of modules, every      *)
(* commands.json with a provide command per module, every set of builds    *)
(* and any number of disturbances.                                         *)
(***************************************************************************)
EXTENDS UnitDrift, TLAPS

\* What an execute in progress knows: its commands belong to its targets, an
\* outcome is 'skipped' exactly while no command of that kind has run, and
\* outcomes without a failure mean that everything run so far succeeded.
RunInv ==
  running =>
    /\ payload \in Builds
    /\ \A i \in todo : Commands[i].module \in targets
    /\ \A m \in targets, k \in Kinds :
          outcome[m][k] = "skipped" =>
             CommandsOfKind(m, k) # {} /\ CommandsOfKind(m, k) \subseteq todo
    /\ \A m \in Started :
          outcome[m]["provide"] # "fail" /\ outcome[m]["verify"] # "fail" =>
             applied[m].ok /\ applied[m].hash = payload.hash[m]

\* What the driver has read stays true of the machine, except for the modules
\* some run has touched behind its back: RecordTruthful, carried over from the
\* moment the manifest was read to the moment of the decision.
SeenInv ==
  cycle \in {"reading", "deciding"} =>
    \A m \in seen.recorded \ unseen :
       Clean(seen.entry[m]) => applied[m].ok /\ applied[m].hash = seen.entry[m].hash

\* What is about to be launched is a build, and includes its always-modules.
PlanInv ==
  cycle = "launching" =>
    /\ plan.payload \in Builds
    /\ AlwaysModules \cap plan.payload.modules \subseteq plan.targets

IInv == /\ TypeOK
        /\ RunInv
        /\ SeenInv
        /\ PlanInv
        /\ PublishedSound
        /\ RecordTruthful
        /\ SkippedNeverRecorded

-----------------------------------------------------------------------------
\* OutcomeMap is a map of outcomes (New-MastModuleOutcomeMap).
LEMMA OutcomeMapType ==
  ASSUME NEW ms
  PROVE  OutcomeMap(ms) \in [Modules -> [Kinds -> Outcomes]]
BY DEF OutcomeMap, Outcomes

\* Recording one command's result yields an outcome other than 'skipped', and
\* keeps a failure (Add-MastModuleOutcome).
LEMMA AddOutcomeFacts ==
  ASSUME NEW old \in Outcomes, NEW ok \in BOOLEAN
  PROVE  /\ AddOutcome(old, ok) \in Outcomes
         /\ AddOutcome(old, ok) # "skipped"
         /\ AddOutcome(old, ok) # "fail" => ok /\ old # "fail"
BY DEF AddOutcome, Outcomes

\* An element of a sequence over S is in S.
LEMMA SeqElement ==
  ASSUME NEW S, NEW s \in Seq(S), NEW i \in 1..Len(s)
  PROVE  s[i] \in S
OBVIOUS

\* An entry of commands.json names a module and a kind of command.
LEMMA CommandType ==
  ASSUME NEW i \in Indices
  PROVE  Commands[i].module \in Modules /\ Commands[i].kind \in Kinds
<1>1. Commands \in Seq([module : Modules, kind : Kinds])
  BY ConstantsAssumption
<1>2. Commands[i] \in [module : Modules, kind : Kinds]
  BY <1>1, SeqElement DEF Indices
<1>3. QED
  BY <1>2

\* There is a hash, since there is a build with a module.
LEMMA NoEntryType ==
  ASSUME NEW bb \in Builds
  PROVE  NoEntry \in Entry
<1>1. bb \in BuildType /\ bb.modules # {}
  BY ConstantsAssumption
<1>2. PICK m \in Modules : bb.hash[m] \in Hashes
  BY <1>1 DEF BuildType
<1>3. (CHOOSE h \in Hashes : TRUE) \in Hashes
  BY <1>2
<1>4. QED
  BY <1>3 DEF NoEntry, Entry, Outcomes

\* Nothing read and nothing planned is well typed.
LEMMA UnreadType ==
  ASSUME NEW bb \in Builds
  PROVE  Unread \in SeenType /\ NoPlan \in PlanType
BY NoEntryType DEF Unread, SeenType, NoPlan, PlanType

-----------------------------------------------------------------------------
\* The initial state, an unprovisioned unit, satisfies the invariant.
LEMMA InitIInv == Init => IInv
<1> SUFFICES ASSUME Init PROVE IInv
  OBVIOUS
<1>1. TypeOK
  <2>1. build \in BuildType
    BY ConstantsAssumption DEF Init
  <2>2. entry \in [Modules -> Entry] /\ seen \in SeenType /\ plan \in PlanType
    BY NoEntryType, UnreadType DEF Init
  <2>3. applied \in [Modules -> [hash : Hashes, extra : Extras, ok : BOOLEAN]]
    BY <2>1 DEF Init, BuildType
  <2>4. outcome \in [Modules -> [Kinds -> Outcomes]]
    BY OutcomeMapType DEF Init
  <2>5. disturbances \in 0..MaxDisturbances
    BY ConstantsAssumption DEF Init
  <2>6. QED
    BY <2>2, <2>3, <2>4, <2>5 DEF Init, TypeOK, Decisions, Cycles
<1>2. RunInv /\ SeenInv /\ PlanInv /\ PublishedSound /\ RecordTruthful /\ SkippedNeverRecorded
  BY DEF Init, RunInv, SeenInv, PlanInv, PublishedSound, RecordTruthful, SkippedNeverRecorded
<1>3. QED
  BY <1>1, <1>2 DEF IInv

-----------------------------------------------------------------------------
\* A step that leaves the unit, the execute and the history of what ran alone
\* preserves what is said of them.
LEMMA UnitUntouched ==
  ASSUME IInv, UNCHANGED <<manifestVars, runVars, applied, unrecorded>>
  PROVE  RunInv' /\ PublishedSound' /\ RecordTruthful' /\ SkippedNeverRecorded'
BY DEF IInv, manifestVars, runVars, RunInv, PublishedSound, RecordTruthful,
       SkippedNeverRecorded, Started

\* The end of a cycle forgets what was read and planned.
LEMMA EndCycleType ==
  ASSUME IInv, EndCycle
  PROVE  /\ cycle' \in Cycles /\ seen' \in SeenType /\ plan' \in PlanType
         /\ unseen' \in SUBSET Modules
         /\ SeenInv' /\ PlanInv'
<1>1. build \in Builds
  BY DEF IInv, TypeOK
<1>2. QED
  BY <1>1, UnreadType DEF EndCycle, Cycles, SeenInv, PlanInv

\* The manifest that is read is truthful, except for what is unseen.
LEMMA ReadManifestIInv ==
  ASSUME IInv, ReadManifest
  PROVE  IInv'
<1> USE DEF IInv
<1>1. RunInv' /\ PublishedSound' /\ RecordTruthful' /\ SkippedNeverRecorded'
  BY UnitUntouched DEF ReadManifest
<1>2. seen' \in SeenType
  BY DEF ReadManifest, SeenType, TypeOK
<1>3. unseen' \in SUBSET Modules
  BY DEF ReadManifest, Started, TypeOK
<1>4. TypeOK'
  BY <1>2, <1>3 DEF ReadManifest, Undisturbed, TypeOK, Decisions, Cycles, manifestVars, reportVars, runVars
<1>5. SeenInv'
  BY DEF ReadManifest, SeenInv, RecordTruthful
<1>6. PlanInv'
  BY DEF ReadManifest, PlanInv
<1>7. QED
  BY <1>1, <1>4, <1>5, <1>6

\* Reading the report changes nothing the manifest said.
LEMMA ReadReportIInv ==
  ASSUME IInv, ReadReport
  PROVE  IInv'
<1> USE DEF IInv
<1>1. RunInv' /\ PublishedSound' /\ RecordTruthful' /\ SkippedNeverRecorded'
  BY UnitUntouched DEF ReadReport
<1>2. /\ seen' \in SeenType
      /\ seen'.recorded = seen.recorded /\ seen'.entry = seen.entry
  BY DEF ReadReport, SeenType, TypeOK
<1>3. TypeOK'
  BY <1>2 DEF ReadReport, Undisturbed, TypeOK, Decisions, Cycles, manifestVars, reportVars, runVars
<1>4. SeenInv'
  BY <1>2 DEF ReadReport, SeenInv, Clean
<1>5. PlanInv'
  BY DEF ReadReport, PlanInv
<1>6. QED
  BY <1>1, <1>3, <1>4, <1>5

\* A decision touches nothing on the unit; a run is planned from a build.
LEMMA DecideIInv ==
  ASSUME IInv, NEW force \in BOOLEAN, NEW named \in SUBSET Modules,
         Decide(force, named), disturbances' \in 0..MaxDisturbances
  PROVE  IInv'
<1> DEFINE ex == ExecutedModules(force, named)
<1> USE DEF IInv
<1>1. RunInv' /\ PublishedSound' /\ RecordTruthful' /\ SkippedNeverRecorded'
  BY UnitUntouched DEF Decide
<1>2. CASE EndCycle /\ decision' \in Decisions
  <2>1. TypeOK'
    BY <1>2, EndCycleType DEF TypeOK, Decide, manifestVars, reportVars, runVars
  <2>2. QED
    BY <1>1, <1>2, <2>1, EndCycleType
<1>3. CASE /\ decision' = "run" /\ cycle' = "launching" /\ seen' = Unread /\ unseen' = {}
           /\ plan' = [payload |-> build, targets |-> ex]
  <2>1. ex \in SUBSET Modules /\ build \in Builds
    BY ConstantsAssumption DEF TypeOK, ExecutedModules, TargetModules, BuildType
  <2>2. plan' \in PlanType /\ seen' \in SeenType
    BY <1>3, <2>1, UnreadType DEF PlanType
  <2>3. TypeOK'
    BY <1>3, <2>2 DEF TypeOK, Decide, Decisions, Cycles, manifestVars, reportVars, runVars
  <2>4. AlwaysModules \cap build.modules \subseteq ex
    BY DEF ExecutedModules, TargetModules, FilterTargets, ReportTargets
  <2>5. SeenInv' /\ PlanInv'
    BY <1>3, <2>1, <2>4 DEF SeenInv, PlanInv
  <2>6. QED
    BY <1>1, <2>3, <2>5
<1>4. QED
  BY <1>2, <1>3 DEF Decide, Decisions

\* A launch starts with every command outstanding and every outcome 'skipped'.
LEMMA LaunchIInv ==
  ASSUME IInv, Launch
  PROVE  IInv'
<1> DEFINE ex == plan.targets
<1> USE DEF IInv
<1>1. ex \in SUBSET Modules /\ plan.payload \in Builds
  BY DEF TypeOK, PlanType, PlanInv, Launch
<1>2. TypeOK'
  <2>1. plan' \in PlanType
    BY UnreadType DEF Launch, TypeOK
  <2>2. QED
    BY <1>1, <2>1, OutcomeMapType
    DEF Launch, Undisturbed, TypeOK, Decisions, Cycles, manifestVars, reportVars
<1>3. Started' = {}
  BY DEF Launch, Started, CommandsOf
<1>4. \A m \in ex, k \in Kinds : outcome'[m][k] = "skipped" =>
           CommandsOfKind(m, k) # {} /\ CommandsOfKind(m, k) \subseteq todo'
  BY <1>1 DEF Launch, OutcomeMap, CommandsOfKind, CommandsOf
<1>5. RunInv'
  <2>1. \A i \in todo' : Commands[i].module \in targets'
    BY DEF Launch
  <2>2. QED
    BY <1>1, <1>3, <1>4, <2>1 DEF Launch, RunInv, CommandsOfKind, CommandsOf, Indices
<1>6. PublishedSound' /\ SkippedNeverRecorded'
  BY DEF Launch, manifestVars, PublishedSound, SkippedNeverRecorded
<1>7. RecordTruthful'
  BY <1>3 DEF Launch, manifestVars, RecordTruthful
<1>8. SeenInv' /\ PlanInv'
  BY DEF Launch, SeenInv, PlanInv
<1>9. QED
  BY <1>2, <1>5, <1>6, <1>7, <1>8

\* A command disturbs only its own module, which thereby counts as started.
LEMMA RunCommandIInv ==
  ASSUME IInv, NEW i \in Indices, NEW ok \in BOOLEAN,
         RunCommand(i, ok), disturbances' \in 0..MaxDisturbances
  PROVE  IInv'
<1> DEFINE m == Commands[i].module
           k == Commands[i].kind
<1> USE DEF IInv
<1>1. m \in Modules /\ k \in Kinds /\ m \in targets /\ i \in todo /\ running /\ payload \in Builds
  BY CommandType DEF RunCommand, RunInv
<1>2. payload.hash[m] \in Hashes /\ payload.extra \in Extras
  BY <1>1, ConstantsAssumption DEF BuildType
<1>3. outcome[m][k] \in Outcomes
  BY <1>1 DEF TypeOK
<1>4. TypeOK'
  <2>1. applied' \in [Modules -> [hash : Hashes, extra : Extras, ok : BOOLEAN]]
    <3>1. applied[m].ok \in BOOLEAN
      BY <1>1 DEF TypeOK
    <3>2. (ok /\ (CommandsOf(m) \subseteq todo \/ applied[m].ok)) \in BOOLEAN
      BY <3>1
    <3>3. QED
      BY <1>1, <1>2, <3>2 DEF TypeOK, RunCommand
  <2>2. outcome' \in [Modules -> [Kinds -> Outcomes]]
    BY <1>1, <1>3, AddOutcomeFacts DEF TypeOK, RunCommand
  <2>3. unseen' \in SUBSET Modules
    BY <1>1 DEF TypeOK, RunCommand
  <2>4. QED
    BY <2>1, <2>2, <2>3 DEF TypeOK, RunCommand, Decisions, manifestVars, reportVars, cycleVars
<1>5. m \in Started'
  BY <1>1 DEF Started, CommandsOf, RunCommand, Indices
<1>6. ASSUME NEW n \in Modules, n # m
      PROVE  n \in Started' <=> n \in Started
  BY <1>6 DEF Started, CommandsOf, RunCommand, Indices
<1>7. ASSUME NEW n \in Modules, n # m
      PROVE  applied'[n] = applied[n] /\ outcome'[n] = outcome[n]
  BY <1>1, <1>7 DEF TypeOK, RunCommand
<1>8. outcome'[m] = [outcome[m] EXCEPT ![k] = AddOutcome(@, ok)]
  BY <1>1 DEF TypeOK, RunCommand
<1>9. applied'[m] = [hash |-> payload.hash[m], extra |-> payload.extra,
                     ok |-> ok /\ (CommandsOf(m) \subseteq todo \/ applied[m].ok)]
  BY <1>1 DEF TypeOK, RunCommand
<1>10. RunInv'
  <2>1. payload' \in Builds /\ \A j \in todo' : Commands[j].module \in targets'
    BY <1>1 DEF RunCommand, RunInv
  <2>2. ASSUME NEW n \in targets', NEW kk \in Kinds, outcome'[n][kk] = "skipped"
        PROVE  CommandsOfKind(n, kk) # {} /\ CommandsOfKind(n, kk) \subseteq todo'
    <3>1. n \in Modules /\ n \in targets
      BY DEF RunCommand, TypeOK
    <3>2. ~(n = m /\ kk = k)
      BY <1>1, <1>3, <1>8, <2>2, AddOutcomeFacts DEF TypeOK
    <3>3. outcome[n][kk] = "skipped"
      BY <1>1, <1>7, <1>8, <2>2, <3>1, <3>2 DEF TypeOK
    <3>4. CommandsOfKind(n, kk) # {} /\ CommandsOfKind(n, kk) \subseteq todo
      BY <1>1, <3>1, <3>3 DEF RunInv
    <3>5. i \notin CommandsOfKind(n, kk)
      BY <3>2 DEF CommandsOfKind, CommandsOf
    <3>6. QED
      BY <3>4, <3>5 DEF RunCommand
  <2>3. ASSUME NEW n \in Started',
               outcome'[n]["provide"] # "fail", outcome'[n]["verify"] # "fail"
        PROVE  applied'[n].ok /\ applied'[n].hash = payload'.hash[n]
    <3>1. n \in Modules
      BY DEF Started, RunCommand, TypeOK
    <3>2. CASE n # m
      BY <1>1, <1>6, <1>7, <2>3, <3>1, <3>2 DEF RunInv, RunCommand
    <3>3. CASE n = m
      <4>1. ok /\ outcome[m][k] # "fail"
        BY <1>1, <1>3, <1>8, <2>3, <3>3, AddOutcomeFacts DEF Kinds, TypeOK
      <4>2. outcome[m]["provide"] # "fail" /\ outcome[m]["verify"] # "fail"
        BY <1>1, <1>8, <2>3, <3>3, <4>1 DEF Kinds, TypeOK
      <4>3. CommandsOf(m) \subseteq todo \/ applied[m].ok
        BY <1>1, <4>2 DEF RunInv, Started
      <4>4. applied'[m].ok /\ applied'[m].hash = payload.hash[m]
        <5>1. applied'[m].ok = (ok /\ (CommandsOf(m) \subseteq todo \/ applied[m].ok))
          BY <1>9
        <5>2. applied'[m].hash = payload.hash[m]
          BY <1>9
        <5>3. QED
          BY <4>1, <4>3, <5>1, <5>2
      <4>5. QED
        BY <3>3, <4>4 DEF RunCommand
    <3>4. QED
      BY <3>2, <3>3
  <2>4. QED
    BY <2>1, <2>2, <2>3 DEF RunInv, CommandsOfKind, CommandsOf, Indices
<1>11. PublishedSound' /\ SkippedNeverRecorded' /\ PlanInv' /\ SeenInv'
  <2>1. PublishedSound' /\ SkippedNeverRecorded' /\ PlanInv'
    BY DEF RunCommand, manifestVars, cycleVars, PublishedSound, SkippedNeverRecorded, PlanInv
  <2>2. ASSUME cycle \in {"reading", "deciding"},
               NEW n \in seen.recorded \ unseen', Clean(seen.entry[n])
        PROVE  applied'[n].ok /\ applied'[n].hash = seen.entry[n].hash
    <3>1. n \in Modules /\ n # m /\ n \notin unseen
      BY <2>2 DEF RunCommand, TypeOK, SeenType
    <3>2. applied[n].ok /\ applied[n].hash = seen.entry[n].hash
      BY <2>2, <3>1 DEF SeenInv
    <3>3. QED
      BY <1>7, <3>1, <3>2
  <2>3. SeenInv'
    BY <2>2 DEF RunCommand, cycleVars, SeenInv, Clean
  <2>4. QED
    BY <2>1, <2>3
<1>12. RecordTruthful'
  <2>1. ASSUME NEW n \in recorded' \ (unrecorded' \cup (IF running' THEN Started' ELSE {})),
               Clean(entry'[n])
        PROVE  applied'[n].ok /\ applied'[n].hash = entry'[n].hash
    <3>1. running' /\ recorded' = recorded /\ entry' = entry /\ unrecorded' = unrecorded
      BY DEF RunCommand, manifestVars
    <3>2. n \in Modules /\ n # m
      BY <1>5, <3>1 DEF TypeOK
    <3>3. n \notin Started
      BY <1>6, <3>1, <3>2
    <3>4. applied[n].ok /\ applied[n].hash = entry[n].hash
      BY <1>1, <2>1, <3>1, <3>3 DEF RecordTruthful
    <3>5. QED
      BY <1>7, <3>1, <3>2, <3>4
  <2>2. QED
    BY <2>1 DEF RecordTruthful, Clean
<1>13. QED
  BY <1>4, <1>10, <1>11, <1>12

\* Writing the manifest: with no command left, no outcome is 'skipped' and a
\* clean outcome means the module's commands all succeeded.
LEMMA WriteManifestIInv ==
  ASSUME IInv, WriteManifest
  PROVE  IInv'
<1> USE DEF IInv
<1>1. running /\ todo = {} /\ payload \in Builds /\ payload \in BuildType /\ ~running'
  BY ConstantsAssumption DEF WriteManifest, EndRun, RunInv
<1>2. ASSUME NEW m \in targets
      PROVE  /\ m \in Modules
             /\ entry'[m].hash = payload.hash[m]
             /\ entry'[m].provide = outcome[m]["provide"]
             /\ entry'[m].verify = outcome[m]["verify"]
             /\ outcome[m]["provide"] \in Outcomes \ {"skipped"}
             /\ outcome[m]["verify"] \in Outcomes \ {"skipped"}
  BY <1>1 DEF WriteManifest, MergedEntry, TypeOK, RunInv, Kinds
<1>3. ASSUME NEW m \in Modules, m \notin targets
      PROVE  entry'[m] = entry[m]
  BY <1>3 DEF WriteManifest, MergedEntry
<1>4. TypeOK'
  <2>1. entry' \in [Modules -> Entry]
    <3>1. ASSUME NEW m \in Modules
          PROVE  MergedEntry[m] \in Entry
      <4>1. CASE m \in targets
        <5>1. payload.hash[m] \in Hashes
          BY <1>1 DEF BuildType
        <5>2. QED
          BY <1>2, <4>1, <5>1 DEF MergedEntry, Entry
      <4>2. CASE m \notin targets
        BY <4>2 DEF MergedEntry, TypeOK
      <4>3. QED
        BY <4>1, <4>2
    <3>2. QED
      BY <3>1 DEF WriteManifest, MergedEntry
  <2>2. payload_hash' \in Builds \cup {NoPayload}
    BY <1>1 DEF WriteManifest
  <2>3. QED
    BY <2>1, <2>2, OutcomeMapType
    DEF WriteManifest, EndRun, Undisturbed, TypeOK, Decisions, cycleVars
<1>5. RunInv' /\ SeenInv' /\ PlanInv'
  BY <1>1 DEF RunInv, WriteManifest, cycleVars, SeenInv, PlanInv
<1>6. PublishedSound'
  <2>1. SUFFICES ASSUME payload_hash' # NoPayload, NEW m \in payload_hash'.modules
                 PROVE  m \in recorded' /\ entry'[m].hash = payload_hash'.hash[m] /\ Clean(entry'[m])
    BY DEF PublishedSound, Clean
  <2>2. Fully(recorded', entry') /\ payload_hash' = payload
    BY <2>1 DEF WriteManifest
  <2>3. QED
    BY <2>2 DEF Fully, Clean
<1>7. SkippedNeverRecorded'
  <2>1. SUFFICES ASSUME NEW m \in recorded'
                 PROVE  entry'[m].provide # "skipped" /\ entry'[m].verify # "skipped"
    BY DEF SkippedNeverRecorded
  <2>2. CASE m \in targets
    BY <1>2, <2>2
  <2>3. CASE m \notin targets
    BY <1>3, <2>3 DEF SkippedNeverRecorded, WriteManifest, TypeOK
  <2>4. QED
    BY <2>2, <2>3
<1>8. RecordTruthful'
  <2>1. SUFFICES ASSUME NEW m \in recorded' \ unrecorded', Clean(entry'[m])
                 PROVE  applied[m].ok /\ applied[m].hash = entry'[m].hash
    BY <1>1 DEF RecordTruthful, WriteManifest, Clean
  <2>2. CASE m \in targets
    <3>1. m \in Started
      BY <1>1, <1>2, <2>2, ProvideAssumption DEF Started, CommandsOf, Indices
    <3>2. outcome[m]["provide"] # "fail" /\ outcome[m]["verify"] # "fail"
      BY <1>2, <2>1, <2>2 DEF Clean
    <3>3. QED
      BY <1>1, <1>2, <2>2, <3>1, <3>2 DEF RunInv
  <2>3. CASE m \notin targets
    <3>1. m \in recorded /\ m \in Modules /\ m \notin unrecorded /\ m \notin Started
      BY <2>3 DEF WriteManifest, TypeOK, Started
    <3>2. QED
      BY <1>1, <1>3, <2>1, <2>3, <3>1 DEF RecordTruthful
  <2>4. QED
    BY <2>2, <2>3
<1>9. QED
  BY <1>4, <1>5, <1>6, <1>7, <1>8

-----------------------------------------------------------------------------
\* Every step of the unit's life preserves the invariant.
LEMMA NextIInv == IInv /\ [Next]_vars => IInv'
<1> SUFFICES ASSUME IInv, [Next]_vars PROVE IInv'
  OBVIOUS
<1>1. CASE LoopDecides
  BY <1>1, DecideIInv DEF LoopDecides, Undisturbed, IInv, TypeOK
<1>2. CASE OperatorDecides
  <2>1. disturbances' \in 0..MaxDisturbances
    BY <1>2, ConstantsAssumption DEF OperatorDecides, Disturb, IInv, TypeOK
  <2>2. QED
    BY <1>2, <2>1, DecideIInv DEF OperatorDecides
<1>12. CASE ReadManifest \/ ReadReport
  BY <1>12, ReadManifestIInv, ReadReportIInv
<1>13. CASE Launch
  BY <1>13, LaunchIInv
<1>14. CASE LaunchRefused \/ PollEnds \/ GiveUp
  <2>1. disturbances' \in 0..MaxDisturbances
    BY <1>14, ConstantsAssumption
    DEF LaunchRefused, PollEnds, GiveUp, Undisturbed, Disturb, IInv, TypeOK
  <2>2. EndCycle /\ UNCHANGED <<build, manifestVars, reportVars, runVars, applied, unrecorded>>
        /\ decision' = "none"
    BY <1>14 DEF LaunchRefused, PollEnds, GiveUp
  <2>3. TypeOK'
    BY <2>1, <2>2, EndCycleType DEF IInv, TypeOK, Decisions, manifestVars, reportVars, runVars
  <2>4. QED
    BY <2>2, <2>3, EndCycleType, UnitUntouched DEF IInv
<1>3. CASE CommandSucceeds
  BY <1>3, RunCommandIInv DEF CommandSucceeds, Undisturbed, IInv, TypeOK
<1>4. CASE CommandFails
  <2>1. disturbances' \in 0..MaxDisturbances
    BY <1>4, ConstantsAssumption DEF CommandFails, Disturb, IInv, TypeOK
  <2>2. QED
    BY <1>4, <2>1, RunCommandIInv DEF CommandFails
<1>5. CASE WriteManifest
  BY <1>5, WriteManifestIInv
<1>6. CASE RunLost
  <2>1. TypeOK'
    <3>1. disturbances' \in 0..MaxDisturbances
      BY <1>6, ConstantsAssumption DEF RunLost, Disturb, IInv, TypeOK
    <3>2. outcome' \in [Modules -> [Kinds -> Outcomes]]
      BY <1>6, OutcomeMapType DEF RunLost, EndRun
    <3>3. QED
      BY <1>6, <3>1, <3>2
      DEF RunLost, EndRun, IInv, TypeOK, Decisions, Started, manifestVars, reportVars, cycleVars
  <2>2. RunInv' /\ PublishedSound' /\ SkippedNeverRecorded' /\ SeenInv' /\ PlanInv'
    BY <1>6 DEF RunLost, EndRun, IInv, RunInv, PublishedSound, SkippedNeverRecorded,
                SeenInv, PlanInv, manifestVars, cycleVars
  <2>3. RecordTruthful'
    BY <1>6 DEF RunLost, EndRun, IInv, RecordTruthful, manifestVars
  <2>4. QED
    BY <2>1, <2>2, <2>3 DEF IInv
<1>7. CASE VerifyOnly
  <2>1. /\ seen' \in SeenType
        /\ seen'.recorded = seen.recorded /\ seen'.entry = seen.entry
    BY <1>7 DEF VerifyOnly, IInv, TypeOK, SeenType
  <2>2. TypeOK'
    BY <1>7, <2>1, ConstantsAssumption
    DEF VerifyOnly, Disturb, IInv, TypeOK, Decisions, manifestVars, runVars
  <2>3. SeenInv' /\ PlanInv'
    BY <1>7, <2>1 DEF VerifyOnly, IInv, SeenInv, PlanInv, Clean
  <2>4. QED
    BY <1>7, <2>2, <2>3, UnitUntouched DEF VerifyOnly, IInv
<1>8. CASE ManifestUnreadable
  <2>1. TypeOK'
    BY <1>8, ConstantsAssumption
    DEF ManifestUnreadable, Disturb, IInv, TypeOK, Decisions, reportVars, cycleVars, runVars
  <2>2. QED
    BY <1>8, <2>1 DEF ManifestUnreadable, IInv, RunInv, SeenInv, PlanInv, PublishedSound,
       RecordTruthful, SkippedNeverRecorded, Started, cycleVars, runVars
<1>9. CASE RepositoryChanges
  <2>1. TypeOK'
    BY <1>9, ConstantsAssumption
    DEF RepositoryChanges, Disturb, IInv, TypeOK, Decisions, manifestVars, reportVars,
        cycleVars, runVars
  <2>2. SeenInv' /\ PlanInv'
    BY <1>9 DEF RepositoryChanges, IInv, SeenInv, PlanInv, cycleVars
  <2>3. QED
    BY <1>9, <2>1, <2>2, UnitUntouched DEF RepositoryChanges, IInv
<1>10. CASE UNCHANGED vars
  <2>1. TypeOK' /\ SeenInv' /\ PlanInv'
    BY <1>10 DEF vars, manifestVars, reportVars, cycleVars, runVars, IInv, TypeOK, SeenInv, PlanInv
  <2>2. QED
    BY <1>10, <2>1, UnitUntouched DEF vars, IInv
<1>11. QED
  BY <1>1, <1>2, <1>3, <1>4, <1>5, <1>6, <1>7, <1>8, <1>9, <1>10, <1>12, <1>13, <1>14 DEF Next

\* The inductive invariant holds in every state of every behaviour.
THEOREM Invariance == Spec => []IInv
  BY InitIInv, NextIInv, PTL DEF Spec

\* The state is always well typed.
THEOREM TypeCorrect == Spec => []TypeOK
<1>1. IInv => TypeOK
  BY DEF IInv
<1>2. QED
  BY Invariance, <1>1, PTL

\* A published aggregate hash is always backed by clean, matching entries.
THEOREM PublishedIsSound == Spec => []PublishedSound
<1>1. IInv => PublishedSound
  BY DEF IInv
<1>2. QED
  BY Invariance, <1>1, PTL

\* A clean entry always tells the truth about the module's last commands.
THEOREM RecordIsTruthful == Spec => []RecordTruthful
<1>1. IInv => RecordTruthful
  BY DEF IInv
<1>2. QED
  BY Invariance, <1>1, PTL

\* No manifest entry ever says 'skipped'.
THEOREM SkippedIsNeverRecorded == Spec => []SkippedNeverRecorded
<1>1. IInv => SkippedNeverRecorded
  BY DEF IInv
<1>2. QED
  BY Invariance, <1>1, PTL

\* Whatever a skip relies on is true of the machine when it is decided, but for
\* the modules a run has touched behind the read record's back.
THEOREM SkipIsSound == Spec => SkipSound
<1> DEFINE Sound == decision' = "already_current" =>
                      \A m \in build.modules \ unseen :
                         applied[m].ok /\ applied[m].hash = build.hash[m]
<1>1. IInv /\ [Next]_vars => [Sound]_vars
  <2>1. ASSUME IInv, NEW force \in BOOLEAN, NEW named \in SUBSET Modules,
               Decide(force, named), decision' = "already_current",
               NEW m \in build.modules \ unseen
        PROVE  applied[m].ok /\ applied[m].hash = build.hash[m]
    <3>1. cycle = "deciding" /\ AlreadyCurrent(force)
      BY <2>1 DEF Decide
    <3>2. m \in seen.recorded /\ Clean(seen.entry[m]) /\ seen.entry[m].hash = build.hash[m]
      BY <2>1, <3>1 DEF AlreadyCurrent, Drifted, Classify
    <3>3. QED
      BY <2>1, <3>1, <3>2 DEF IInv, SeenInv
  <2>2. ASSUME IInv, LoopDecides \/ OperatorDecides
        PROVE  Sound
    BY <2>1, <2>2 DEF LoopDecides, OperatorDecides
  <2>3. ASSUME Next, ~(LoopDecides \/ OperatorDecides)
        PROVE  decision' = "none"
    BY <2>3 DEF Next, ReadManifest, ReadReport, Launch, LaunchRefused, PollEnds, GiveUp,
       CommandSucceeds, CommandFails, RunCommand, WriteManifest, RunLost, VerifyOnly,
       ManifestUnreadable, RepositoryChanges
  <2>4. QED
    BY <2>2, <2>3
<1>2. QED
  BY Invariance, <1>1, PTL DEF Spec, SkipSound

\* Every run that is planned or started includes the always-modules of its payload.
THEOREM RunsAlwaysCloseOut == Spec => []RunsCloseOut
<1>1. Init => RunsCloseOut
  BY DEF Init, RunsCloseOut
<1>2. IInv /\ RunsCloseOut /\ [Next]_vars => RunsCloseOut'
  <2> SUFFICES ASSUME IInv, RunsCloseOut, [Next]_vars PROVE RunsCloseOut'
    OBVIOUS
  <2>1. cycle' = "launching" => AlwaysModules \cap plan'.payload.modules \subseteq plan'.targets
    BY NextIInv DEF IInv, PlanInv
  <2>2. running' => AlwaysModules \cap payload'.modules \subseteq targets'
    <3>1. CASE Launch
      BY <3>1 DEF Launch, IInv, PlanInv
    <3>2. CASE CommandSucceeds \/ CommandFails
      BY <3>2 DEF CommandSucceeds, CommandFails, RunCommand, RunsCloseOut
    <3>3. CASE WriteManifest \/ RunLost
      BY <3>3 DEF WriteManifest, RunLost, EndRun
    <3>4. CASE UNCHANGED runVars
      BY <3>4 DEF runVars, RunsCloseOut
    <3>5. QED
      BY <3>1, <3>2, <3>3, <3>4 DEF Next, ReadManifest, ReadReport, LoopDecides, OperatorDecides,
         Decide, LaunchRefused, PollEnds, GiveUp, VerifyOnly, ManifestUnreadable,
         RepositoryChanges, vars
  <2>3. QED
    BY <2>1, <2>2 DEF RunsCloseOut
<1>3. QED
  BY Invariance, <1>1, <1>2, PTL DEF Spec
=============================================================================
