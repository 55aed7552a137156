-------------------------- MODULE BlobstoreProofs --------------------------
(***************************************************************************)
(* Proofs for Blobstore: types, immutable snapshots, trees that stay       *)
(* linked into the blobstore, and what a sync leaves behind whatever       *)
(* breaks it and with gc, seed, repair and fsck inside it: for any number  *)
(* of clients, hosts, paths, digests, builds and faults.                   *)
(***************************************************************************)
EXTENDS Blobstore, TLAPS

SyncRecords == [pc : SyncPcs, host : Hosts \cup {None}, build : Builds \cup {None},
                todo : SUBSET Paths, missing : SUBSET Digests]

\* The files of the relay, the state of the clients, and the rest of the types.
RelayTypes ==
  /\ blob \in [Digests -> Inodes \cup {None}]
  /\ tree \in [Hosts -> Tree] /\ served \in [Hosts -> Builds \cup {None}]
  /\ snap \in [Ids -> Tree] /\ building \in [Ids -> Tree]
  /\ record \in [Ids -> Builds \cup {None}]

SideTypes ==
  /\ outside \in SUBSET Inodes /\ rotten \in SUBSET Inodes /\ stale \in SUBSET Digests
  /\ gc \in Digests \cup {None} /\ fsck \in {"idle", "ship"} /\ faults \in 0 .. MaxFaults
  /\ torn \in [Clients -> {"no", "want", "final"}] /\ robbed \in SUBSET Clients
  /\ raced \in SUBSET Inodes /\ crossed \in SUBSET Clients

\* A client under way has a build and links files of its manifest only; one
\* that assembles has a host.
SyncTypes ==
  /\ sync \in [Clients -> SyncRecords]
  /\ \A c \in Clients : /\ sync[c].pc # "idle" => /\ sync[c].build \in Builds
                                                  /\ sync[c].todo \subseteq Manifest(sync[c].build)
                        /\ sync[c].pc = "assemble" => sync[c].host \in Hosts

TInv == RelayTypes /\ SideTypes /\ SyncTypes

ScriptType == script \in BOOLEAN

\* Putting a link into a tree of a family keeps the family one of trees.
LEMMA TreePut ==
  ASSUME NEW S, NEW t \in [S -> Tree], NEW s \in S, NEW p \in Paths, NEW i \in Inodes \cup {None}
  PROVE  [t EXCEPT ![s][p] = i] \in [S -> Tree]
  BY DEF Tree

\* A client that fails, or moves on, stays well typed.
LEMMA FailsTypes ==
  ASSUME SyncTypes, NEW c \in Clients, Fails(c)
  PROVE  SyncTypes'
  BY DEF SyncTypes, SyncRecords, Fails, Idle, SyncPcs

LEMMA GotoTypes ==
  ASSUME SyncTypes, NEW c \in Clients, NEW l \in SyncPcs \ {"assemble"}, sync[c].pc # "idle", Goto(c, l)
  PROVE  SyncTypes'
  BY DEF SyncTypes, SyncRecords, Goto, SyncPcs

\* A client's step keeps the clients well typed.
LEMMA SyncTypesStep ==
  ASSUME TInv, NEW c \in Clients, SyncStep(c) \/ Broken(c)
  PROVE  SyncTypes'
<1>0. SyncTypes
  BY DEF TInv
<1>a. Fails(c) => SyncTypes'
  BY <1>0, FailsTypes
<1>b. ASSUME NEW l \in SyncPcs \ {"assemble"}, sync[c].pc # "idle", Goto(c, l) PROVE SyncTypes'
  BY <1>0, <1>b, GotoTypes
<1>1. ASSUME NEW h \in Hosts \cup {None}, NEW b \in Builds, Begin(c, h, b) PROVE SyncTypes'
  BY <1>0, <1>1 DEF Begin, SyncTypes, SyncRecords, Idle, SyncPcs
<1>2. CASE SyncPayload(c) \/ SyncSnapshot(c)
  BY <1>1, <1>2 DEF SyncPayload, SyncSnapshot
<1>3. CASE Ship(c)
  BY <1>b, <1>3 DEF Ship, At, SyncPcs
<1>4. CASE Want(c)
  <2>1. Needed(Build(c)) \subseteq Digests
    <3>1. Build(c) \in Builds
      BY <1>0, <1>4 DEF Want, At, Build, SyncTypes
    <3>2. QED
      BY <3>1, BlobstoreAssumption DEF Needed, Manifest
  <2>2. CASE sync' = [sync EXCEPT ![c].pc = "upload",
                                   ![c].missing = {d \in Needed(Build(c)) : blob[d] = None}]
    BY <1>0, <1>4, <2>1, <2>2 DEF Want, At, SyncTypes, SyncRecords, SyncPcs
  <2>3. CASE Goto(c, "upload")
    BY <1>b, <1>4, <2>3 DEF Want, At, SyncPcs
  <2>4. QED
    BY <1>a, <1>4, <2>2, <2>3 DEF Want
<1>5. CASE Upload(c)
  BY <1>0, <1>5 DEF Upload, At, SyncTypes, SyncRecords
<1>6. CASE Final(c)
  <2>1. CASE sync[c].host # None /\ sync' = [sync EXCEPT ![c].pc = "assemble", ![c].todo = Manifest(Build(c))]
    BY <1>0, <1>6, <2>1 DEF Final, At, Build, SyncTypes, SyncRecords, SyncPcs, Manifest
  <2>2. CASE Goto(c, "snapshot") \/ Goto(c, "ok")
    BY <1>b, <1>6, <2>2 DEF Final, At, SyncPcs
  <2>3. QED
    BY <1>a, <1>6, <2>1, <2>2 DEF Final
<1>7. CASE Assemble(c) \/ Link(c)
  <2>1. CASE \E p \in sync[c].todo : sync' = [sync EXCEPT ![c].todo = @ \ {p}]
    BY <1>0, <2>1 DEF SyncTypes, SyncRecords
  <2>2. Fails(c) \/ \E p \in sync[c].todo : sync' = [sync EXCEPT ![c].todo = @ \ {p}]
    <3>1. CASE Assemble(c)
      BY <3>1, Zenon DEF Assemble
    <3>2. CASE Link(c)
      BY <3>2, Zenon DEF Link
    <3>3. QED
      BY <1>7, <3>1, <3>2
  <2>3. QED
    BY <1>a, <2>1, <2>2
<1>8. CASE ServeManifest(c) \/ WriteRecord(c)
  BY <1>b, <1>8 DEF ServeManifest, WriteRecord, At, SyncPcs
<1>p. CASE Prune(c)
  BY <1>0, <1>p DEF Prune, SyncTypes
<1>9. CASE Snapshot(c)
  <2>1. CASE sync' = [sync EXCEPT ![c].pc = "link", ![c].todo = SnapFiles(Build(c), sync[c].host)]
    <3>1. SnapFiles(Build(c), sync[c].host) \subseteq Manifest(sync[c].build)
      BY DEF SnapFiles, Build
    <3>2. Manifest(sync[c].build) \subseteq Paths
      BY DEF Manifest
    <3>3. QED
      BY <1>0, <1>9, <2>1, <3>1, <3>2 DEF Snapshot, At, SyncTypes, SyncRecords, SyncPcs
  <2>2. CASE Goto(c, "ok")
    BY <1>b, <1>9, <2>2 DEF Snapshot, At, SyncPcs
  <2>3. QED
    BY <1>a, <1>9, <2>1, <2>2 DEF Snapshot
<1>10. CASE Rename(c)
  <2>1. sync[c].pc # "idle" /\ (Fails(c) \/ Goto(c, "ok"))
    BY <1>10 DEF Rename, At
  <2>2. QED
    BY <1>a, <1>b, <2>1 DEF SyncPcs
<1>11. CASE Broken(c)
  BY <1>a, <1>11 DEF Broken
<1>12. QED
  BY <1>2, <1>3, <1>4, <1>5, <1>6, <1>7, <1>8, <1>p, <1>9, <1>10, <1>11 DEF SyncStep

\* What a client does to the relay keeps the relay's files well typed.
LEMMA RelayTypesStep ==
  ASSUME TInv, NEW c \in Clients, SyncStep(c) \/ Broken(c)
  PROVE  RelayTypes' /\ SideTypes'
<1> USE DEF relay, side, past, NoFault
<1>0. RelayTypes /\ SideTypes /\ SyncTypes
  BY DEF TInv
<1>1. CASE /\ UNCHANGED <<relay, side, gc, fsck, faults, raced>>
           /\ \/ UNCHANGED torn
              \/ \E t \in {"no", "want", "final"} : torn' = [torn EXCEPT ![c] = t]
           /\ robbed' \in {robbed, robbed \ {c}} /\ crossed' \in {crossed, crossed \cup {c}}
  BY <1>0, <1>1 DEF RelayTypes, SideTypes
<1>2. CASE SyncPayload(c) \/ SyncSnapshot(c) \/ Ship(c) \/ Want(c) \/ Final(c)
  <2>1. CASE SyncPayload(c) \/ SyncSnapshot(c)
    BY <1>1, <2>1, Zenon DEF SyncPayload, SyncSnapshot, Begin
  <2>2. CASE Ship(c)
    BY <1>1, <2>2 DEF Ship
  <2>3. CASE Want(c)
    BY <1>1, <2>3, Zenon DEF Want
  <2>4. CASE Final(c)
    BY <1>1, <2>4, Zenon DEF Final
  <2>5. QED
    BY <1>2, <2>1, <2>2, <2>3, <2>4
<1>3. CASE Broken(c)
  BY <1>0, <1>3, BlobstoreAssumption DEF Broken, Fault, RelayTypes, SideTypes
<1>4. CASE Upload(c)
  <2>1. PICK d \in sync[c].missing :
          \/ \E i \in Fresh(d) : /\ blob' = [blob EXCEPT ![d] = i]
                                 /\ rotten' \in {rotten \cup {i}, rotten \ {i}}
                                 /\ raced' = raced \ {i}
          \/ UNCHANGED <<blob, rotten, raced>>
    BY <1>4 DEF Upload
  <2>2. d \in Digests
    BY <1>0, <2>1 DEF SyncTypes, SyncRecords
  <2>3. Fresh(d) \subseteq Inodes
    BY <2>2 DEF Fresh, Inodes
  <2>4. QED
    BY <1>0, <1>4, <2>1, <2>2, <2>3 DEF Upload, RelayTypes, SideTypes
<1>a. ASSUME NEW p \in sync[c].todo, sync[c].pc # "idle"
      PROVE  /\ p \in Paths /\ Id(c) \in Ids /\ Build(c) \in Builds
             /\ blob[Files[Build(c)][p]] \in Inodes \cup {None}
  <2>1. Build(c) \in Builds /\ p \in Manifest(Build(c))
    BY <1>0, <1>a DEF SyncTypes, Build
  <2>2. p \in Paths /\ Files[Build(c)][p] \in Digests
    BY <2>1, BlobstoreAssumption DEF Manifest
  <2>3. QED
    BY <1>0, <2>1, <2>2, BlobstoreAssumption DEF RelayTypes, Id
<1>5. CASE Assemble(c)
  <2>1. sync[c].pc # "idle" /\ sync[c].host \in Hosts
    BY <1>0, <1>5 DEF Assemble, At, SyncTypes
  <2>2. PICK p \in sync[c].todo :
          \/ UNCHANGED <<tree, raced>>
          \/ /\ tree' = [tree EXCEPT ![sync[c].host][p] = blob[Files[Build(c)][p]]]
             /\ blob[Files[Build(c)][p]] # None /\ Race(blob[Files[Build(c)][p]])
    BY <1>5, Zenon DEF Assemble
  <2>3. tree' \in [Hosts -> Tree]
    <3>1. p \in Paths /\ blob[Files[Build(c)][p]] \in Inodes \cup {None}
      BY <1>a, <2>1
    <3>2. tree \in [Hosts -> Tree]
      BY <1>0 DEF RelayTypes
    <3>3. QED
      BY <2>1, <2>2, <3>1, <3>2, TreePut
  <2>4. raced' \in SUBSET Inodes
    BY <1>0, <1>a, <2>1, <2>2 DEF Race, SideTypes
  <2>5. QED
    BY <1>0, <1>5, <2>3, <2>4 DEF Assemble, RelayTypes, SideTypes
<1>6. CASE Prune(c)
  <2>1. PICK p \in Paths : tree' = [tree EXCEPT ![sync[c].host][p] = None]
    BY <1>6 DEF Prune, Extra
  <2>2. sync[c].host \in Hosts /\ tree \in [Hosts -> Tree]
    BY <1>0, <1>6 DEF Prune, At, SyncTypes, RelayTypes
  <2>3. tree' \in [Hosts -> Tree]
    BY <2>1, <2>2, TreePut
  <2>4. QED
    BY <1>0, <1>6, <2>3 DEF Prune, RelayTypes, SideTypes
<1>m. CASE ServeManifest(c)
  BY <1>0, <1>m DEF ServeManifest, At, Build, SyncTypes, RelayTypes, SideTypes
<1>b. EmptyTree \in Tree
  BY DEF EmptyTree, Tree
<1>c. sync[c].pc # "idle" => Build(c) \in Builds /\ Id(c) \in Ids
  BY <1>0, BlobstoreAssumption DEF SyncTypes, Build, Id
<1>7. CASE Link(c)
  <2>1. PICK p \in sync[c].todo :
          \/ building' = [building EXCEPT ![Id(c)] = EmptyTree] /\ UNCHANGED raced
          \/ /\ building' = [building EXCEPT ![Id(c)][p] = blob[Files[Build(c)][p]]]
             /\ blob[Files[Build(c)][p]] # None /\ Race(blob[Files[Build(c)][p]])
    BY <1>7, Zenon DEF Link
  <2>2. building' \in [Ids -> Tree]
    <3>1. p \in Paths /\ Id(c) \in Ids /\ blob[Files[Build(c)][p]] \in Inodes \cup {None}
      BY <1>7, <1>a DEF Link, At
    <3>2. building \in [Ids -> Tree]
      BY <1>0 DEF RelayTypes
    <3>3. CASE building' = [building EXCEPT ![Id(c)] = EmptyTree]
      BY <1>b, <3>1, <3>2, <3>3
    <3>4. QED
      BY <2>1, <3>1, <3>2, <3>3, TreePut
  <2>3. raced' \in SUBSET Inodes
    BY <1>0, <1>7, <1>a, <2>1 DEF Link, At, Race, SideTypes
  <2>4. QED
    BY <1>0, <1>7, <2>2, <2>3 DEF Link, RelayTypes, SideTypes
<1>8. CASE Snapshot(c) \/ WriteRecord(c) \/ Rename(c)
  BY <1>0, <1>8, <1>b, <1>c DEF Snapshot, WriteRecord, Rename, At, RelayTypes, SideTypes
<1>9. QED
  BY <1>2, <1>3, <1>4, <1>5, <1>6, <1>m, <1>7, <1>8 DEF SyncStep

\* The jobs keep everything well typed.
LEMMA JobTypes == TInv /\ Job => TInv'
<1> SUFFICES ASSUME TInv, Job PROVE TInv'
  OBVIOUS
<1> USE DEF TInv, RelayTypes, SideTypes, SyncTypes, relay, side, past, NoFault
<1>1. ASSUME NEW d \in Digests, Repair(d) PROVE TInv'
  BY <1>1 DEF Repair
<1>2. ASSUME NEW d \in Digests, GcStat(d) \/ Rot(d) \/ CacheRots(d) PROVE TInv'
  BY <1>2, BlobstoreAssumption DEF GcStat, Rot, CacheRots, Fault
<1>3. ASSUME NEW d \in Digests, Seed(d) PROVE TInv'
  <2>1. Fresh(d) \subseteq Inodes
    BY DEF Fresh, Inodes
  <2>2. QED
    BY <1>3, <2>1, BlobstoreAssumption DEF Seed, Fault
<1>4. CASE GcUnlink \/ DropSeeded \/ FsckRun \/ FetchAssets
  BY <1>4 DEF GcUnlink, DropSeeded, FsckRun, FetchAssets
<1>f. CASE FsckShip
  BY <1>f, BlobstoreAssumption DEF FsckShip, Fault
<1>5. QED
  BY <1>1, <1>2, <1>3, <1>4, <1>f DEF Job

\* The script is whole or it is not.
LEMMA ScriptStep == ScriptType /\ [Next]_vars => ScriptType'
<1> SUFFICES ASSUME script \in BOOLEAN, [Next]_vars PROVE script' \in BOOLEAN
  BY Zenon DEF ScriptType
<1>1. CASE UNCHANGED script
  BY <1>1, Zenon
<1>2. ASSUME NEW c \in Clients, SyncStep(c) \/ Broken(c) PROVE script' \in BOOLEAN
  <2>1. CASE SyncPayload(c) \/ SyncSnapshot(c)
    BY <2>1, Zenon DEF SyncPayload, SyncSnapshot, Begin
  <2>2. CASE Ship(c)
    BY <2>2, Zenon DEF Ship
  <2>3. QED
    BY <1>1, <1>2, <2>1, <2>2 DEF SyncStep, Broken, Want, Upload, Final, Assemble, Prune, ServeManifest,
         Snapshot, Link, WriteRecord, Rename
<1>3. CASE FsckShip \/ FsckRun
  BY <1>3, Zenon DEF FsckShip, FsckRun
<1>4. ASSUME NEW d \in Digests, GcStat(d) \/ Seed(d) \/ Rot(d) \/ Repair(d) \/ CacheRots(d)
      PROVE  script' \in BOOLEAN
  BY <1>1, <1>4 DEF GcStat, Seed, Rot, Repair, CacheRots
<1>5. CASE GcUnlink \/ DropSeeded \/ FetchAssets \/ UNCHANGED vars
  BY <1>1, <1>5 DEF GcUnlink, DropSeeded, FetchAssets, vars
<1>6. QED
  BY <1>2, <1>3, <1>4, <1>5 DEF Next, Job

\* The types are inductive.
LEMMA Typed == Spec => [](TInv /\ ScriptType)
<1>1. Init => TInv
  <2> SUFFICES ASSUME Init PROVE TInv
    OBVIOUS
  <2>1. EmptyTree \in Tree
    BY DEF EmptyTree, Tree
  <2>2. RelayTypes
    BY <2>1 DEF Init, RelayTypes
  <2>3. SideTypes
    BY BlobstoreAssumption DEF Init, SideTypes
  <2>4. SyncTypes
    BY DEF Init, SyncTypes, SyncRecords, SyncPcs, Idle
  <2>5. QED
    BY <2>2, <2>3, <2>4 DEF TInv
<1>2. Init => ScriptType
  BY Zenon DEF Init, ScriptType
<1>3. TInv /\ [Next]_vars => TInv'
  <2>1. TInv /\ UNCHANGED vars => TInv'
    BY DEF TInv, RelayTypes, SideTypes, SyncTypes, vars, relay, side, past
  <2>2. ASSUME TInv, NEW c \in Clients, SyncStep(c) \/ Broken(c) PROVE TInv'
    BY <2>2, SyncTypesStep, RelayTypesStep DEF TInv
  <2>3. QED
    BY <2>1, <2>2, JobTypes DEF Next
<1>4. QED
  BY <1>1, <1>2, <1>3, ScriptStep, PTL DEF Spec

\* No client, job or fault makes the relay's state ill typed.
THEOREM TypeCorrect == Spec => []TypeOK
<1>1. TInv /\ ScriptType => TypeOK
  BY Zenon DEF ScriptType, TInv, RelayTypes, SideTypes, SyncTypes, SyncRecords, TypeOK
<1>2. QED
  BY <1>1, Typed, PTL

-----------------------------------------------------------------------------
(* Snapshots                                                               *)

\* A client's step leaves every finished snapshot as it is: only Rename
\* writes a snapshot, and only where none is.
LEMMA SnapStep ==
  ASSUME TInv, [Next]_vars, NEW id \in Ids, snap[id] # EmptyTree
  PROVE  snap'[id] = snap[id]
<1>1. CASE UNCHANGED snap
  BY <1>1
<1>2. ASSUME NEW c \in Clients, Rename(c) PROVE snap'[id] = snap[id]
  <2>1. CASE snap' = [snap EXCEPT ![Id(c)] = building[Id(c)]] /\ snap[Id(c)] = EmptyTree
    BY <2>1 DEF TInv, RelayTypes
  <2>2. QED
    BY <1>1, <1>2, <2>1 DEF Rename
<1>3. ASSUME NEW c \in Clients, SyncStep(c) \/ Broken(c) PROVE UNCHANGED snap \/ Rename(c)
  BY <1>3 DEF SyncStep, Broken, SyncPayload, SyncSnapshot, Begin, Ship, Want, Upload, Final, Assemble,
       Prune, ServeManifest, Snapshot, Link, WriteRecord, relay
<1>4. CASE Job
  BY <1>1, <1>4 DEF Job, GcStat, Seed, Rot, Repair, CacheRots, GcUnlink, DropSeeded, FsckShip, FsckRun,
       FetchAssets, relay
<1>5. CASE UNCHANGED vars
  BY <1>1, <1>5 DEF vars, relay
<1>6. QED
  BY <1>1, <1>2, <1>3, <1>4, <1>5 DEF Next

\* An id names one set of bytes for good: with any number of clients syncing,
\* failing and racing gc and fsck, a snapshot that exists keeps its links.
THEOREM SnapshotsNeverChange == Spec => SnapshotImmutable
<1>1. TInv /\ [Next]_vars => [\A id \in Ids : snap[id] # EmptyTree => snap'[id] = snap[id]]_vars
  BY SnapStep
<1>2. QED
  BY <1>1, Typed, PTL DEF Spec, SnapshotImmutable

-----------------------------------------------------------------------------
(* Trees that stay linked                                                  *)

\* Every link that gc's race has not cut off is the blobstore's own.
Kept == \A i \in Inodes : InATree(i) /\ i \notin raced => blob[i[1]] = i

\* Some tree links an inode that was made for digest d, and no race took it.
Linked(d) == \E i \in Inodes : i[1] = d /\ InATree(i) /\ i \notin raced

\* A name in the blobstore is that of the digest its inode was made for.
OwnInode == \A d \in Digests : blob[d] # None => blob[d][1] = d

\* One sync at a time.
Solo == \A c \in Clients : Active(c) => \A e \in Clients : Active(e) => e = c

\* What a sync is about to upload, and what gc is about to unlink, is in no
\* tree but by the race: replacing or removing that name separates no other
\* tree from its blob.
AboutToUpload ==
  \A c \in Clients : \A d \in sync[c].missing : sync[c].pc = "upload" /\ ~Linked(d)
AboutToUnlink == gc # None => ~Linked(gc)

LParts == Kept /\ OwnInode /\ Solo /\ AboutToUpload /\ AboutToUnlink
LInv == crossed = {} => LParts

\* A step that adds only links to inodes the blobstore names, and notes those
\* that gc has looked at.
AddsOwnLinks ==
  /\ raced \subseteq raced'
  /\ \A i \in Inodes : InATree(i)' =>
       InATree(i) \/ ((\E d \in Digests : blob[d] = i) /\ (gc = i[1] => i \in raced'))

\* A step of a client that is past its uploads, and adds only such links,
\* keeps the trees linked.
LEMMA TreeStep ==
  ASSUME TInv, LParts, NEW c \in Clients, Active(c), sync[c].pc # "upload", AddsOwnLinks,
         UNCHANGED <<blob, gc>>,
         \A e \in Clients : e # c => sync'[e] = sync[e],
         sync'[c].missing \subseteq sync[c].missing
  PROVE  Kept' /\ OwnInode' /\ AboutToUpload' /\ AboutToUnlink'
<1>1. Kept'
  <2> SUFFICES ASSUME NEW i \in Inodes, InATree(i)', i \notin raced' PROVE blob[i[1]] = i
    BY DEF Kept
  <2>1. CASE InATree(i)
    BY <2>1 DEF LParts, Kept, AddsOwnLinks
  <2>2. CASE \E d \in Digests : blob[d] = i
    <3>1. PICK d \in Digests : blob[d] = i
      BY <2>2
    <3>2. i # None
      BY BlobstoreAssumption DEF Inodes
    <3>3. QED
      BY <3>1, <3>2 DEF LParts, OwnInode
  <2>3. QED
    BY <2>1, <2>2 DEF AddsOwnLinks
<1>2. OwnInode'
  BY DEF LParts, OwnInode
<1>3. \A e \in Clients : sync[e].missing = {}
  BY DEF LParts, Solo, AboutToUpload, Active
<1>4. AboutToUpload'
  BY <1>3 DEF AboutToUpload
<1>5. AboutToUnlink'
  BY DEF AboutToUnlink, Linked, AddsOwnLinks, LParts
<1>6. QED
  BY <1>1, <1>2, <1>4, <1>5

\* A step that leaves every tree as it is, and forgets no race about them.
SameTrees == UNCHANGED <<tree, snap, building>> /\ \A i \in raced : InATree(i) => i \in raced'

LEMMA SameLinks ==
  ASSUME SameTrees
  PROVE  /\ \A i : InATree(i)' <=> InATree(i)
         /\ \A d : Linked(d)' => Linked(d)
<1>1. \A i : InATree(i)' <=> InATree(i)
  BY DEF SameTrees, InATree, InTree
<1>2. QED
  BY <1>1 DEF Linked, SameTrees

\* What each of a client's later steps links.
LEMMA OwnLinksOf ==
  ASSUME TInv, OwnInode, NEW c \in Clients,
         \/ Assemble(c) \/ Prune(c) \/ ServeManifest(c)
         \/ Snapshot(c) \/ Link(c) \/ WriteRecord(c) \/ Rename(c)
  PROVE  AddsOwnLinks
<1> USE DEF past
<1>0. RelayTypes /\ SyncTypes
  BY DEF TInv
<1>a. ASSUME NEW p \in sync[c].todo, sync[c].pc # "idle"
      PROVE  Files[Build(c)][p] \in Digests /\ p \in Paths
  BY <1>0, <1>a, BlobstoreAssumption DEF SyncTypes, Build, Manifest
<1>b. \A p \in Paths, i \in Inodes : EmptyTree[p] # i /\ i # None
  BY BlobstoreAssumption DEF EmptyTree, Inodes
<1>c. sync[c].pc # "idle" => Id(c) \in Ids
  BY <1>0, BlobstoreAssumption DEF SyncTypes, Build, Id
<1>n. ASSUME raced' = raced, \A i \in Inodes : InATree(i)' => InATree(i) PROVE AddsOwnLinks
  BY <1>n DEF AddsOwnLinks
<1>l. ASSUME NEW d \in Digests, blob[d] # None, Race(blob[d]),
             \A i \in Inodes : InATree(i)' => InATree(i) \/ i = blob[d]
      PROVE  AddsOwnLinks
  BY <1>l DEF AddsOwnLinks, Race
<1>1. CASE Assemble(c)
  <2>1. sync[c].pc # "idle" /\ sync[c].host \in Hosts /\ UNCHANGED <<snap, building>>
    BY <1>0, <1>1 DEF Assemble, At, SyncTypes
  <2>2. PICK p \in sync[c].todo :
          \/ UNCHANGED <<tree, raced>>
          \/ /\ tree' = [tree EXCEPT ![sync[c].host][p] = blob[Files[Build(c)][p]]]
             /\ blob[Files[Build(c)][p]] # None /\ Race(blob[Files[Build(c)][p]])
    BY <1>1, Zenon DEF Assemble
  <2>3. CASE UNCHANGED <<tree, raced>>
    BY <1>n, <2>1, <2>3 DEF InATree, InTree
  <2>4. CASE /\ tree' = [tree EXCEPT ![sync[c].host][p] = blob[Files[Build(c)][p]]]
             /\ blob[Files[Build(c)][p]] # None /\ Race(blob[Files[Build(c)][p]])
    <3>1. \A h \in Hosts, q \in Paths : tree'[h][q] = tree[h][q] \/ tree'[h][q] = blob[Files[Build(c)][p]]
      BY <1>0, <2>1, <2>4 DEF RelayTypes, Tree
    <3>2. \A i \in Inodes : InATree(i)' => InATree(i) \/ i = blob[Files[Build(c)][p]]
      BY <2>1, <3>1 DEF InATree, InTree
    <3>3. QED
      BY <1>a, <1>l, <2>1, <2>4, <3>2
  <2>5. QED
    BY <2>2, <2>3, <2>4
<1>2. CASE Prune(c)
  <2>1. UNCHANGED <<snap, building, raced>>
    BY <1>2 DEF Prune
  <2>2. \A h \in Hosts, q \in Paths : tree'[h][q] = tree[h][q] \/ tree'[h][q] = None
    BY <1>0, <1>2 DEF Prune, Extra, RelayTypes, Tree
  <2>3. QED
    BY <1>b, <1>n, <2>1, <2>2 DEF InATree, InTree
<1>3. CASE Snapshot(c)
  <2>1. UNCHANGED <<tree, snap, raced>>
    BY <1>3 DEF Snapshot
  <2>2. \A id \in Ids : building'[id] = building[id] \/ building'[id] = EmptyTree
    BY <1>0, <1>3 DEF Snapshot, RelayTypes
  <2>3. QED
    BY <1>b, <1>n, <2>1, <2>2 DEF InATree, InTree
<1>4. CASE Link(c)
  <2>1. UNCHANGED <<tree, snap>> /\ sync[c].pc # "idle"
    BY <1>4 DEF Link, At
  <2>2. PICK p \in sync[c].todo :
          \/ building' = [building EXCEPT ![Id(c)] = EmptyTree] /\ UNCHANGED raced
          \/ /\ building' = [building EXCEPT ![Id(c)][p] = blob[Files[Build(c)][p]]]
             /\ blob[Files[Build(c)][p]] # None /\ Race(blob[Files[Build(c)][p]])
    BY <1>4, Zenon DEF Link
  <2>3. CASE building' = [building EXCEPT ![Id(c)] = EmptyTree] /\ UNCHANGED raced
    <3>1. \A id \in Ids, q \in Paths : building'[id][q] = building[id][q] \/ building'[id][q] = EmptyTree[q]
      BY <1>0, <2>3 DEF RelayTypes, Tree
    <3>2. QED
      BY <1>b, <1>n, <2>1, <2>3, <3>1 DEF InATree, InTree
  <2>4. CASE /\ building' = [building EXCEPT ![Id(c)][p] = blob[Files[Build(c)][p]]]
             /\ blob[Files[Build(c)][p]] # None /\ Race(blob[Files[Build(c)][p]])
    <3>1. \A id \in Ids, q \in Paths : \/ building'[id][q] = building[id][q]
                                       \/ building'[id][q] = blob[Files[Build(c)][p]]
      BY <1>0, <2>4 DEF RelayTypes, Tree
    <3>2. \A i \in Inodes : InATree(i)' => InATree(i) \/ i = blob[Files[Build(c)][p]]
      BY <2>1, <3>1 DEF InATree, InTree
    <3>3. QED
      BY <1>a, <1>l, <2>1, <2>4, <3>2
  <2>5. QED
    BY <2>2, <2>3, <2>4
<1>5. CASE WriteRecord(c) \/ ServeManifest(c)
  BY <1>5, <1>n DEF WriteRecord, ServeManifest, InATree, InTree
<1>6. CASE Rename(c)
  <2>1. UNCHANGED <<tree, raced>> /\ sync[c].pc # "idle"
    BY <1>6 DEF Rename, At
  <2>2. \A id \in Ids : /\ snap'[id] = snap[id] \/ snap'[id] = building[id]
                        /\ building'[id] = building[id] \/ building'[id] = EmptyTree
    BY <1>0, <1>6 DEF Rename, RelayTypes
  <2>3. QED
    BY <1>b, <1>n, <2>1, <2>2 DEF InATree, InTree
<1>7. QED
  BY <1>1, <1>2, <1>3, <1>4, <1>5, <1>6

\* A client's step is its own: the others stay where they are, gc too, and
\* the client was under way, or starts, or has failed.
LEMMA OwnStep ==
  ASSUME TInv, NEW c \in Clients, SyncStep(c) \/ Broken(c)
  PROVE  /\ \A e \in Clients : e # c => sync'[e] = sync[e]
         /\ gc' = gc
         /\ \/ Active(c) \/ ~Active(c)'
            \/ \E h \in Hosts \cup {None}, b \in Builds : Begin(c, h, b)
<1>1. gc' = gc
  BY DEF SyncStep, Broken, SyncPayload, SyncSnapshot, Begin, Ship, Want, Upload, Final, Assemble,
       Prune, ServeManifest, Snapshot, Link, WriteRecord, Rename
<1>2. \A e \in Clients : e # c => sync'[e] = sync[e]
  BY DEF TInv, SyncTypes, SyncStep, Broken, SyncPayload, SyncSnapshot, Begin, Ship, Want, Upload, Final,
       Assemble, Prune, ServeManifest, Snapshot, Link, WriteRecord, Rename, Goto, Fails
<1>3. CASE Broken(c)
  BY <1>3 DEF Broken, Fails, Active, Idle, TInv, SyncTypes
<1>4. CASE SyncPayload(c) \/ SyncSnapshot(c)
  BY <1>1, <1>2, <1>4 DEF SyncPayload, SyncSnapshot
<1>5. CASE ~(SyncPayload(c) \/ SyncSnapshot(c) \/ Broken(c))
  BY <1>1, <1>2, <1>5 DEF Active, At, SyncStep, Ship, Want, Upload, Final, Assemble, Prune, ServeManifest,
       Snapshot, Link, WriteRecord, Rename
<1>6. QED
  BY <1>1, <1>2, <1>3, <1>4, <1>5

\* That two syncs have overlapped is never forgotten, and only the beginning of
\* a sync inside another makes it so.
LEMMA CrossedGrows ==
  ASSUME [Next]_vars
  PROVE  crossed \subseteq crossed'
<1> USE DEF past
<1>1. ASSUME NEW c \in Clients, SyncStep(c) \/ Broken(c) PROVE crossed \subseteq crossed'
  BY <1>1 DEF SyncStep, Broken, SyncPayload, SyncSnapshot, Begin, Ship, Want, Upload, Final,
     Assemble, Prune, ServeManifest, Snapshot, Link, WriteRecord, Rename
<1>2. CASE Job
  BY <1>2 DEF Job, GcStat, Seed, Rot, Repair, CacheRots, GcUnlink, DropSeeded, FsckShip, FsckRun,
     FetchAssets
<1>3. QED
  BY <1>1, <1>2 DEF Next, vars

\* As long as none has, syncs stay one at a time.
LEMMA SoloStep == TInv /\ Solo /\ [Next]_vars /\ crossed' = {} => Solo'
<1> SUFFICES ASSUME TInv, Solo, [Next]_vars, crossed' = {} PROVE Solo'
  OBVIOUS
<1>1. ASSUME NEW c \in Clients, SyncStep(c) \/ Broken(c) PROVE Solo'
  <2>1. CASE \E h \in Hosts \cup {None}, b \in Builds : Begin(c, h, b)
    <3>1. \A e \in Clients : ~Active(e)
      BY <2>1 DEF Begin
    <3>2. QED
      BY <1>1, <3>1, OwnStep DEF Solo, Active
  <2>2. CASE Active(c) \/ ~Active(c)'
    BY <1>1, <2>2, OwnStep DEF Solo, Active
  <2>3. QED
    BY <1>1, <2>1, <2>2, OwnStep
<1>2. CASE UNCHANGED sync
  BY <1>2 DEF Solo, Active
<1>3. CASE Job
  BY <1>2, <1>3 DEF Job, GcStat, GcUnlink, Seed, Rot, Repair, CacheRots, DropSeeded, FsckShip, FsckRun,
       FetchAssets
<1>4. CASE UNCHANGED vars
  BY <1>2, <1>4 DEF vars
<1>5. QED
  BY <1>1, <1>3, <1>4 DEF Next

\* A step that changes no tree, and no name of a digest that a tree links,
\* keeps the trees linked.
LEMMA BlobStep ==
  ASSUME TInv, LParts, SameTrees,
         \A d \in Digests : blob'[d] = blob[d] \/ (~Linked(d) /\ (blob'[d] # None => blob'[d][1] = d)),
         \A c \in Clients : \A d \in sync'[c].missing : sync'[c].pc = "upload" /\ ~Linked(d),
         gc' # None => ~Linked(gc')
  PROVE  Kept' /\ OwnInode' /\ AboutToUpload' /\ AboutToUnlink'
<1>0. /\ \A i : InATree(i)' <=> InATree(i)
      /\ \A d : Linked(d)' => Linked(d)
  BY SameLinks
<1>1. Kept'
  <2> SUFFICES ASSUME NEW i \in Inodes, InATree(i), i \notin raced PROVE blob'[i[1]] = i
    BY <1>0 DEF Kept, SameTrees
  <2>1. i[1] \in Digests /\ Linked(i[1])
    BY DEF Inodes, Linked
  <2>2. QED
    BY <2>1 DEF LParts, Kept
<1>2. OwnInode'
  BY DEF LParts, OwnInode
<1>3. AboutToUpload'
  BY <1>0 DEF AboutToUpload
<1>4. AboutToUnlink'
  BY <1>0 DEF AboutToUnlink
<1>5. QED
  BY <1>1, <1>2, <1>3, <1>4

\* A digest without a blob is in no tree, nor is one whose blob is not, but for
\* inodes that gc's race has taken.
LEMMA NotLinked ==
  ASSUME LParts, NEW d \in Digests, blob[d] = None \/ ~InATree(blob[d])
  PROVE  ~Linked(d)
<1>1. SUFFICES ASSUME NEW i \in Inodes, i[1] = d, InATree(i), i \notin raced PROVE FALSE
  BY DEF Linked
<1>2. blob[d] = i /\ i # None
  BY <1>1, BlobstoreAssumption DEF LParts, Kept, Inodes
<1>3. QED
  BY <1>1, <1>2

\* A client's step.
LEMMA LinkedSyncStep ==
  ASSUME TInv, LParts, NEW c \in Clients, SyncStep(c) \/ Broken(c)
  PROVE  Kept' /\ OwnInode' /\ AboutToUpload' /\ AboutToUnlink'
<1>0. SyncTypes /\ RelayTypes
  BY DEF TInv
<1>a. gc' = gc /\ \A e \in Clients : e # c => sync'[e] = sync[e]
  BY OwnStep
<1>b. \A e \in Clients : \A d \in sync[e].missing : sync[e].pc = "upload" /\ ~Linked(d)
  BY DEF LParts, AboutToUpload
<1>c. gc # None => ~Linked(gc)
  BY DEF LParts, AboutToUnlink
<1>1. CASE Assemble(c) \/ Prune(c) \/ ServeManifest(c)
           \/ Snapshot(c) \/ Link(c) \/ WriteRecord(c) \/ Rename(c)
  <2>1. AddsOwnLinks
    BY <1>1, OwnLinksOf DEF LParts
  <2>2. Active(c) /\ sync[c].pc # "upload" /\ UNCHANGED blob
    BY <1>1 DEF Assemble, Prune, ServeManifest, Snapshot, Link, WriteRecord, Rename, At, Active
  <2>3. sync'[c].missing \subseteq sync[c].missing
    <3>1. CASE Fails(c) \/ \E l \in SyncPcs : Goto(c, l)
      BY <1>0, <3>1 DEF Goto, Fails, Idle, SyncTypes, SyncRecords
    <3>2. CASE \E p \in sync[c].todo : sync' = [sync EXCEPT ![c].todo = @ \ {p}]
      BY <1>0, <3>2 DEF SyncTypes, SyncRecords
    <3>3. CASE Assemble(c)
      BY <3>1, <3>2, <3>3, Zenon DEF Assemble
    <3>4. CASE Link(c)
      BY <3>1, <3>2, <3>4, Zenon DEF Link
    <3>5. CASE Snapshot(c)
      BY <1>0, <3>1, <3>5 DEF Snapshot, SyncTypes, SyncRecords, SyncPcs
    <3>6. CASE ServeManifest(c) \/ WriteRecord(c) \/ Rename(c)
      BY <3>1, <3>6 DEF ServeManifest, WriteRecord, Rename, SyncPcs
    <3>7. CASE Prune(c)
      BY <3>7 DEF Prune
    <3>8. QED
      BY <1>1, <3>3, <3>4, <3>5, <3>6, <3>7
  <2>4. QED
    BY <1>a, <2>1, <2>2, <2>3, TreeStep
<1>2. ASSUME SameTrees, UNCHANGED blob,
             sync'[c].missing = {} \/ (sync'[c].pc = "upload" /\ \A d \in sync'[c].missing : ~Linked(d))
      PROVE  Kept' /\ OwnInode' /\ AboutToUpload' /\ AboutToUnlink'
  BY <1>a, <1>b, <1>c, <1>2, BlobStep
<1>3. CASE SyncPayload(c) \/ SyncSnapshot(c) \/ Ship(c) \/ Final(c) \/ Broken(c)
  <2>1. SameTrees /\ UNCHANGED blob
    BY <1>3 DEF SyncPayload, SyncSnapshot, Begin, Ship, Final, Broken, SameTrees, relay, past
  <2>2. sync'[c].missing = {}
    <3>1. CASE SyncPayload(c) \/ SyncSnapshot(c)
      <4>1. PICK h \in Hosts \cup {None}, b \in Builds : Begin(c, h, b)
        BY <3>1 DEF SyncPayload, SyncSnapshot
      <4>2. QED
        BY <1>0, <4>1 DEF Begin, Idle, SyncTypes
    <3>2. CASE Broken(c)
      BY <1>0, <3>2 DEF Broken, Fails, Idle, SyncTypes
    <3>3. CASE Ship(c)
      BY <1>0, <1>b, <3>3 DEF Ship, At, Goto, SyncTypes, SyncRecords
    <3>4. CASE Final(c)
      BY <1>0, <3>4 DEF Final, Goto, Fails, Idle, SyncTypes, SyncRecords
    <3>5. QED
      BY <1>3, <3>1, <3>2, <3>3, <3>4
  <2>3. QED
    BY <1>2, <2>1, <2>2
<1>4. CASE Want(c)
  <2>1. SameTrees /\ UNCHANGED blob
    BY <1>4 DEF Want, SameTrees, relay, past
  <2>2. CASE sync' = [sync EXCEPT ![c].pc = "upload",
                                   ![c].missing = {d \in Needed(Build(c)) : blob[d] = None}]
    <3>1. sync'[c].pc = "upload" /\ sync'[c].missing = {d \in Needed(Build(c)) : blob[d] = None}
      BY <1>0, <2>2 DEF SyncTypes, SyncRecords
    <3>2. Needed(Build(c)) \subseteq Digests
      <4>1. Build(c) \in Builds
        BY <1>0, <1>4 DEF Want, At, Build, SyncTypes
      <4>2. QED
        BY <4>1, BlobstoreAssumption DEF Needed, Manifest
    <3>3. \A d \in sync'[c].missing : ~Linked(d)
      BY <3>1, <3>2, NotLinked
    <3>4. QED
      BY <1>2, <2>1, <3>1, <3>3
  <2>3. CASE Goto(c, "upload") \/ Fails(c)
    <3>1. sync'[c].missing = {}
      BY <1>0, <1>b, <1>4, <2>3 DEF Want, At, Goto, Fails, Idle, SyncTypes, SyncRecords
    <3>2. QED
      BY <1>2, <2>1, <3>1
  <2>4. QED
    BY <1>4, <2>2, <2>3 DEF Want
<1>5. CASE Upload(c)
  <2>1. PICK d \in sync[c].missing :
          /\ sync' = [sync EXCEPT ![c].missing = @ \ {d}]
          /\ \/ UNCHANGED <<blob, raced>>
             \/ \E i \in Fresh(d) : blob' = [blob EXCEPT ![d] = i] /\ raced' = raced \ {i}
    BY <1>5 DEF Upload
  <2>2. SameTrees
    BY <1>5, <2>1 DEF Upload, SameTrees, Fresh, Referenced
  <2>3. d \in Digests /\ ~Linked(d)
    BY <1>0, <1>b DEF SyncTypes, SyncRecords
  <2>4. \A e \in Digests : blob'[e] = blob[e] \/ (~Linked(e) /\ (blob'[e] # None => blob'[e][1] = e))
    BY <1>0, <2>1, <2>3 DEF RelayTypes, Fresh
  <2>5. \A e \in Clients : \A x \in sync'[e].missing : sync'[e].pc = "upload" /\ ~Linked(x)
    BY <1>0, <1>b, <2>1 DEF SyncTypes, SyncRecords
  <2>6. QED
    BY <1>a, <1>c, <2>2, <2>4, <2>5, BlobStep
<1>6. QED
  BY <1>1, <1>3, <1>4, <1>5 DEF SyncStep

\* A job's step.
LEMMA LinkedJob ==
  ASSUME TInv, LParts, Job
  PROVE  Kept' /\ OwnInode' /\ AboutToUpload' /\ AboutToUnlink'
<1>0. RelayTypes /\ SideTypes
  BY DEF TInv
<1>a. \A e \in Clients : \A d \in sync[e].missing : sync[e].pc = "upload" /\ ~Linked(d)
  BY DEF LParts, AboutToUpload
<1>b. gc # None => ~Linked(gc)
  BY DEF LParts, AboutToUnlink
<1>c. SameTrees /\ UNCHANGED sync
  <2>1. CASE UNCHANGED raced
    BY <2>1 DEF Job, GcStat, Seed, Rot, Repair, CacheRots, GcUnlink, DropSeeded, FsckShip, FsckRun,
         FetchAssets, SameTrees, relay
  <2>2. ASSUME NEW d \in Digests, Seed(d) PROVE SameTrees /\ UNCHANGED sync
    BY <2>2 DEF Seed, SameTrees, Fresh, Referenced
  <2>3. QED
    BY <2>1, <2>2 DEF Job, GcStat, Rot, Repair, CacheRots, GcUnlink, DropSeeded, FsckShip, FsckRun,
         FetchAssets, past
<1>1. CASE UNCHANGED <<blob, gc>>
  BY <1>a, <1>b, <1>c, <1>1, BlobStep
<1>2. CASE GcUnlink
  <2>1. \A e \in Digests : blob'[e] = blob[e] \/ (~Linked(e) /\ blob'[e] = None)
    BY <1>0, <1>b, <1>2 DEF GcUnlink, RelayTypes
  <2>2. gc' = None
    BY <1>2 DEF GcUnlink
  <2>3. QED
    BY <1>a, <1>c, <2>1, <2>2, BlobStep
<1>3. ASSUME NEW d \in Digests, GcStat(d) PROVE Kept' /\ OwnInode' /\ AboutToUpload' /\ AboutToUnlink'
  <2>1. gc' = d /\ UNCHANGED blob /\ ~Linked(d)
    BY <1>3, NotLinked DEF GcStat, Referenced, relay
  <2>2. QED
    BY <1>a, <1>c, <2>1, BlobStep
<1>4. ASSUME NEW d \in Digests, Seed(d) PROVE Kept' /\ OwnInode' /\ AboutToUpload' /\ AboutToUnlink'
  <2>1. PICK i \in Fresh(d) : blob' = [blob EXCEPT ![d] = i]
    BY <1>4 DEF Seed
  <2>2. ~Linked(d) /\ gc' = gc
    BY <1>4, NotLinked DEF Seed
  <2>3. \A e \in Digests : blob'[e] = blob[e] \/ (~Linked(e) /\ (blob'[e] # None => blob'[e][1] = e))
    BY <1>0, <2>1, <2>2 DEF RelayTypes, Fresh
  <2>4. QED
    BY <1>a, <1>b, <1>c, <2>2, <2>3, BlobStep
<1>5. QED
  BY <1>1, <1>2, <1>3, <1>4 DEF Job, Rot, Repair, CacheRots, DropSeeded, FsckShip, FsckRun, FetchAssets, relay

\* The inductive invariant.
LEMMA Linking == Spec => []LInv
<1>1. Init => LInv
  <2> SUFFICES ASSUME Init PROVE LParts
    BY DEF LInv
  <2>1. \A i \in Inodes : ~InATree(i)
    BY BlobstoreAssumption DEF Init, InATree, InTree, EmptyTree, Inodes
  <2>2. Kept
    BY <2>1 DEF Kept
  <2>3. OwnInode /\ Solo /\ AboutToUpload /\ AboutToUnlink
    BY DEF Init, OwnInode, Solo, Active, Idle, AboutToUpload, AboutToUnlink
  <2>4. QED
    BY <2>2, <2>3 DEF LParts
<1>2. TInv /\ LInv /\ [Next]_vars => LInv'
  <2> SUFFICES ASSUME TInv, LInv, [Next]_vars, crossed' = {} PROVE LParts'
    BY DEF LInv
  <2>1. LParts
    BY CrossedGrows DEF LInv
  <2>2. Solo'
    BY <2>1, SoloStep DEF LParts
  <2>3. CASE UNCHANGED vars
    BY <2>1, <2>3 DEF vars, relay, past, LParts, Kept, OwnInode, Solo, Active, AboutToUpload, AboutToUnlink,
         Linked, InATree, InTree
  <2>4. QED
    BY <2>1, <2>2, <2>3, LinkedSyncStep, LinkedJob DEF Next, LParts
<1>3. QED
  BY <1>1, <1>2, Typed, PTL DEF Spec

\* Every tree the relay serves or keeps shares its inodes with the blobstore,
\* with gc, seed, repair and fsck running whenever they like: gc frees nothing
\* that was linked when it looked, and a repair reaches every tree.  The only
\* inodes that lose their name are those linked between gc's look and its unlink.
THEOREM TreesStayLinked == Spec => []LinkedTrees
<1>1. LInv => LinkedTrees
  BY DEF LInv, LParts, Kept, LinkedTrees
<1>2. QED
  BY <1>1, Linking, PTL

-----------------------------------------------------------------------------
(* What a sync has done so far                                             *)

\* Every blob of the build is there, or still to be sent, unless want met a
\* truncated script or gc took one.
Stocked(c) ==
  torn[c] = "no" /\ c \notin robbed /\ sync[c].pc \in {"upload", "assemble", "snapshot", "link"} =>
    \A d \in Needed(Build(c)) \ sync[c].missing : blob[d] # None

\* The host's tree has the files that were assembled; pruned, it is the build,
\* unless the final command did nothing.
Assembled(c) ==
  /\ At(c, "assemble") =>
       \A p \in Manifest(Build(c)) \ sync[c].todo :
          tree[sync[c].host][p] # None /\ tree[sync[c].host][p][1] = Files[Build(c)][p]
  /\ sync[c].pc \in {"snapshot", "link", "rename", "ok"} /\ sync[c].host # None /\ torn[c] # "final" =>
       /\ served[sync[c].host] = Build(c)
       /\ Serves(tree[sync[c].host], Build(c), Manifest(Build(c)))

\* The .building tree has the files that were linked and no others; the
\* snapshot it becomes does not exist yet.
LinkedSoFar(c) ==
  /\ sync[c].pc \in {"link", "rename"} => snap[Id(c)] = EmptyTree
  /\ At(c, "link") =>
       /\ sync[c].todo \subseteq SnapFiles(Build(c), sync[c].host)
       /\ Serves(building[Id(c)], Build(c), SnapFiles(Build(c), sync[c].host) \ sync[c].todo)
  /\ At(c, "rename") =>
       /\ record[Id(c)] = Build(c)
       /\ Serves(building[Id(c)], Build(c), SnapFiles(Build(c), sync[c].host))

Progress(c) == Stocked(c) /\ Assembled(c) /\ LinkedSoFar(c)

Complete ==
  \A id \in Ids : snap[id] # EmptyTree =>
    /\ record[id] # None
    /\ \E host \in Hosts \cup {None} :
         Serves(snap[id], record[id], SnapFiles(record[id], host))

SParts == Complete /\ \A c \in Clients : Active(c) => Progress(c)
SInv == crossed = {} => SParts

\* Beside a client that is under way, or starts, no other is under way.
LEMMA OthersRest ==
  ASSUME TInv, LParts, NEW c \in Clients, SyncStep(c), crossed' = {}
  PROVE  \A e \in Clients : Active(e)' => e = c
<1>1. \A e \in Clients : e # c => sync'[e] = sync[e]
  BY OwnStep
<1>2. Active(c) \/ \E h \in Hosts \cup {None}, b \in Builds : Begin(c, h, b)
  BY DEF SyncStep, SyncPayload, SyncSnapshot, Ship, Want, Upload, Final, Assemble, Prune,
       ServeManifest, Snapshot, Link, WriteRecord, Rename, At, Active
<1>3. \A e \in Clients : e # c => ~Active(e)
  BY <1>2 DEF Begin, LParts, Solo
<1>4. QED
  BY <1>1, <1>3 DEF Active

\* What a step leaves of the client that takes it.
LEMMA ProgressStep ==
  ASSUME TInv, LParts, SParts, NEW c \in Clients, SyncStep(c)
  PROVE  sync'[c].pc # "idle" => Progress(c)'
<1>0. /\ SyncTypes /\ RelayTypes /\ SideTypes
      /\ sync[c].pc # "idle" => Build(c) \in Builds /\ Id(c) \in Ids /\ sync[c].todo \subseteq Manifest(Build(c))
  BY BlobstoreAssumption DEF TInv, SyncTypes, Build, Id
<1>a. Active(c) => Progress(c)
  BY DEF SParts
<1>b. Active(c) /\ sync[c].pc # "upload" => sync[c].missing = {}
  BY DEF LParts, AboutToUpload
<1>1. ASSUME NEW h \in Hosts \cup {None}, NEW b \in Builds, Begin(c, h, b) PROVE Progress(c)'
  <2>1. sync'[c].pc = "ship"
    BY <1>0, <1>1 DEF Begin, Idle, SyncTypes
  <2>2. QED
    BY <2>1 DEF Progress, Stocked, Assembled, LinkedSoFar, At
<1>2. CASE Ship(c)
  <2>1. sync'[c].pc = "want"
    BY <1>0, <1>2 DEF Ship, Goto, SyncTypes, SyncRecords
  <2>2. QED
    BY <2>1 DEF Progress, Stocked, Assembled, LinkedSoFar, At
<1>3. CASE Want(c)
  <2>1. SUFFICES ASSUME sync'[c].pc # "idle" PROVE Progress(c)'
    OBVIOUS
  <2>2. /\ sync'[c].pc = "upload" /\ sync'[c].build = sync[c].build /\ UNCHANGED blob
        /\ \/ sync'[c].missing = {d \in Needed(Build(c)) : blob[d] = None}
           \/ torn'[c] = "want"
    BY <1>0, <1>3, <2>1 DEF Want, Goto, Fails, Idle, SyncTypes, SyncRecords, SideTypes, relay
  <2>3. Stocked(c)'
    BY <2>2 DEF Stocked, Build
  <2>4. QED
    BY <2>2, <2>3 DEF Progress, Assembled, LinkedSoFar, At
<1>4. CASE Upload(c)
  <2>1. PICK d \in sync[c].missing :
          /\ sync' = [sync EXCEPT ![c].missing = @ \ {d}]
          /\ (UNCHANGED blob /\ blob[d] # None) \/ \E i \in Fresh(d) : blob' = [blob EXCEPT ![d] = i]
    BY <1>4 DEF Upload
  <2>2. /\ sync'[c].pc = "upload" /\ sync'[c].build = sync[c].build /\ UNCHANGED <<torn, robbed>>
        /\ sync'[c].missing = sync[c].missing \ {d} /\ Active(c)
    BY <1>0, <1>4, <2>1 DEF Upload, At, Active, SyncTypes, SyncRecords
  <2>3. d \in Digests /\ blob'[d] # None /\ \A e \in Digests : blob[e] # None => blob'[e] # None
    BY <1>0, <2>1, BlobstoreAssumption DEF SyncTypes, SyncRecords, RelayTypes, Fresh, Inodes
  <2>4. Needed(Build(c)) \subseteq Digests
    BY <1>0, <2>2, BlobstoreAssumption DEF Active, Needed, Manifest
  <2>5. /\ sync[c].pc = "upload"
        /\ torn[c] = "no" /\ c \notin robbed =>
             \A e \in Needed(Build(c)) \ sync[c].missing : blob[e] # None
    BY <1>a, <1>4, <2>2 DEF Upload, At, Progress, Stocked
  <2>6. Stocked(c)'
    BY <2>2, <2>3, <2>4, <2>5 DEF Stocked, Build
  <2>7. QED
    BY <2>2, <2>6 DEF Progress, Assembled, LinkedSoFar, At
<1>5. CASE Final(c)
  <2>1. /\ sync[c].pc = "upload" /\ Active(c) /\ sync[c].missing = {}
        /\ UNCHANGED <<relay, robbed>>
    BY <1>5 DEF Final, At, Active
  <2>2. CASE script
    <3>1. /\ sync'[c].build = sync[c].build /\ sync'[c].missing = {} /\ sync'[c].host = sync[c].host
          /\ UNCHANGED torn
          /\ \/ sync[c].host = None /\ sync'[c].pc = "snapshot"
             \/ sync'[c].pc = "assemble" /\ sync'[c].todo = Manifest(Build(c))
      BY <1>0, <1>5, <2>1, <2>2 DEF Final, SyncTypes, SyncRecords, Goto
    <3>2. torn[c] = "no" /\ c \notin robbed => \A d \in Needed(Build(c)) : blob[d] # None
      BY <1>a, <2>1 DEF Progress, Stocked
    <3>3. QED
      BY <2>1, <3>1, <3>2 DEF Progress, Stocked, Assembled, LinkedSoFar, At, Build, relay
  <2>3. CASE ~script
    <3>1. torn'[c] = "final" /\ sync'[c].pc \in {"ok", "idle"}
      BY <1>0, <1>5, <2>3 DEF Final, Goto, Fails, Idle, SyncTypes, SyncRecords, SideTypes
    <3>2. QED
      BY <3>1 DEF Progress, Stocked, Assembled, LinkedSoFar, At
  <2>4. QED
    BY <2>2, <2>3
<1>6. CASE Assemble(c)
  <2>1. /\ Active(c) /\ UNCHANGED <<blob, torn, robbed>> /\ sync[c].pc = "assemble" /\ sync[c].missing = {}
        /\ sync[c].host \in Hosts
    BY <1>0, <1>b, <1>6 DEF Assemble, At, Active, SyncTypes
  <2>2. PICK p \in sync[c].todo :
          IF blob[Files[Build(c)][p]] = None THEN Fails(c)
          ELSE /\ tree' = [tree EXCEPT ![sync[c].host][p] = blob[Files[Build(c)][p]]]
               /\ sync' = [sync EXCEPT ![c].todo = @ \ {p}]
    BY <1>6, Zenon DEF Assemble
  <2>s. SUFFICES ASSUME sync'[c].pc # "idle" PROVE Progress(c)'
    OBVIOUS
  <2>3. p \in Paths /\ p \in Manifest(Build(c)) /\ Files[Build(c)][p] \in Digests
        /\ blob[Files[Build(c)][p]] # None
    <3>1. ~Fails(c)
      BY <1>0, <2>s DEF Fails, Idle, SyncTypes
    <3>2. QED
      BY <1>0, <2>1, <2>2, <3>1, BlobstoreAssumption DEF Manifest, Active
  <2>4. /\ sync'[c].build = sync[c].build /\ sync'[c].missing = {} /\ sync'[c].host = sync[c].host
        /\ sync'[c].pc = "assemble" /\ sync'[c].todo = sync[c].todo \ {p}
    BY <1>0, <2>1, <2>2, <2>3 DEF SyncTypes, SyncRecords
  <2>5. \A q \in Paths : tree'[sync[c].host][q] = IF q = p THEN blob[Files[Build(c)][p]] ELSE tree[sync[c].host][q]
    BY <1>0, <2>1, <2>2, <2>3 DEF RelayTypes, Tree
  <2>6. blob[Files[Build(c)][p]][1] = Files[Build(c)][p]
    BY <2>3 DEF LParts, OwnInode
  <2>7. Assembled(c)'
    BY <1>a, <2>1, <2>3, <2>4, <2>5, <2>6 DEF Progress, Assembled, At, Build, Manifest
  <2>8. QED
    BY <1>a, <2>1, <2>4, <2>7 DEF Progress, Stocked, LinkedSoFar, At, Build
<1>7. CASE Prune(c)
  <2>1. /\ Active(c) /\ UNCHANGED <<blob, sync, torn, robbed>> /\ sync[c].pc = "assemble"
        /\ sync[c].host \in Hosts
    BY <1>0, <1>7 DEF Prune, At, Active, SyncTypes, past
  <2>2. PICK p \in Paths \ Manifest(Build(c)) : tree' = [tree EXCEPT ![sync[c].host][p] = None]
    BY <1>7 DEF Prune, Extra
  <2>3. \A q \in Manifest(Build(c)) : tree'[sync[c].host][q] = tree[sync[c].host][q]
    BY <1>0, <2>1, <2>2 DEF RelayTypes, Tree, Manifest
  <2>4. QED
    BY <1>a, <2>1, <2>3 DEF Progress, Stocked, Assembled, LinkedSoFar, At, Build
<1>m. CASE ServeManifest(c)
  <2>1. /\ Active(c) /\ UNCHANGED <<blob, tree, torn, robbed>> /\ sync[c].pc = "assemble" /\ sync[c].missing = {}
        /\ sync[c].host \in Hosts /\ sync[c].todo = {} /\ Extra(c) = {}
    BY <1>0, <1>b, <1>m DEF ServeManifest, At, Active, SyncTypes, past
  <2>2. /\ sync'[c].build = sync[c].build /\ sync'[c].missing = {} /\ sync'[c].host = sync[c].host
        /\ sync'[c].pc = "snapshot"
    BY <1>0, <1>m, <2>1 DEF ServeManifest, Goto, SyncTypes, SyncRecords
  <2>3. served'[sync[c].host] = Build(c)
    BY <1>0, <1>m, <2>1 DEF ServeManifest, RelayTypes
  <2>4. Serves(tree[sync[c].host], Build(c), Manifest(Build(c)))
    BY <1>a, <2>1 DEF Progress, Assembled, At, Serves, Extra
  <2>5. QED
    BY <1>a, <2>1, <2>2, <2>3, <2>4 DEF Progress, Stocked, Assembled, LinkedSoFar, At, Build
<1>8. CASE Snapshot(c)
  <2>1. /\ Active(c) /\ UNCHANGED <<blob, tree, served, snap, torn, robbed>> /\ sync[c].pc = "snapshot"
        /\ sync[c].missing = {}
    BY <1>b, <1>8 DEF Snapshot, At, Active, past
  <2>2. SUFFICES ASSUME sync'[c].pc # "idle" PROVE Progress(c)'
    OBVIOUS
  <2>3. /\ sync'[c].build = sync[c].build /\ sync'[c].missing = {} /\ sync'[c].host = sync[c].host
        /\ \/ sync'[c].pc = "ok"
           \/ /\ sync'[c].pc = "link" /\ sync'[c].todo = SnapFiles(Build(c), sync[c].host)
              /\ snap[Id(c)] = EmptyTree /\ building'[Id(c)] = EmptyTree
    BY <1>0, <1>8, <2>1, <2>2 DEF Snapshot, Goto, Fails, Idle, SyncTypes, SyncRecords, RelayTypes
  <2>4. Assembled(c)'
    BY <1>a, <2>1, <2>3 DEF Progress, Assembled, At, Build
  <2>5. Serves(EmptyTree, Build(c), {})
    BY DEF Serves, EmptyTree
  <2>6. LinkedSoFar(c)'
    BY <2>1, <2>3, <2>5 DEF LinkedSoFar, At, Build, Id
  <2>7. QED
    BY <1>a, <2>1, <2>3, <2>4, <2>6 DEF Progress, Stocked, At, Build
<1>9. CASE Link(c)
  <2>1. /\ Active(c) /\ UNCHANGED <<blob, tree, served, snap, torn, robbed>> /\ sync[c].pc = "link"
        /\ sync[c].missing = {}
    BY <1>b, <1>9 DEF Link, At, Active
  <2>2. PICK p \in sync[c].todo :
          IF blob[Files[Build(c)][p]] = None \/ building[Id(c)][p] # None
          THEN Fails(c)
          ELSE /\ building' = [building EXCEPT ![Id(c)][p] = blob[Files[Build(c)][p]]]
               /\ sync' = [sync EXCEPT ![c].todo = @ \ {p}]
    BY <1>9, Zenon DEF Link
  <2>s. SUFFICES ASSUME sync'[c].pc # "idle" PROVE Progress(c)'
    OBVIOUS
  <2>3. p \in Paths /\ p \in Manifest(Build(c)) /\ Files[Build(c)][p] \in Digests
        /\ blob[Files[Build(c)][p]] # None
    <3>1. ~Fails(c)
      BY <1>0, <2>s DEF Fails, Idle, SyncTypes
    <3>2. QED
      BY <1>0, <2>1, <2>2, <3>1, BlobstoreAssumption DEF Manifest, Active
  <2>4. /\ Serves(building[Id(c)], Build(c), SnapFiles(Build(c), sync[c].host) \ sync[c].todo)
        /\ sync[c].todo \subseteq SnapFiles(Build(c), sync[c].host)
    BY <1>a, <2>1 DEF Progress, LinkedSoFar, At
  <2>5. building[Id(c)][p] = None
    BY <2>3, <2>4 DEF Serves
  <2>6. /\ sync'[c].build = sync[c].build /\ sync'[c].missing = {} /\ sync'[c].host = sync[c].host
        /\ sync'[c].pc = "link" /\ sync'[c].todo = sync[c].todo \ {p}
    BY <1>0, <2>1, <2>2, <2>3, <2>5 DEF SyncTypes, SyncRecords
  <2>7. \A q \in Paths : building'[Id(c)][q] = IF q = p THEN blob[Files[Build(c)][p]] ELSE building[Id(c)][q]
    BY <1>0, <2>1, <2>2, <2>3, <2>5 DEF RelayTypes, Tree, Active
  <2>8. blob[Files[Build(c)][p]][1] = Files[Build(c)][p]
    BY <2>3 DEF LParts, OwnInode
  <2>9. Serves(building'[Id(c)], Build(c), SnapFiles(Build(c), sync[c].host) \ (sync[c].todo \ {p}))
    BY <2>3, <2>4, <2>7, <2>8 DEF Serves
  <2>10. LinkedSoFar(c)'
    BY <1>a, <2>1, <2>4, <2>6, <2>9 DEF Progress, LinkedSoFar, At, Build, Id
  <2>11. QED
    BY <1>a, <2>1, <2>6, <2>10 DEF Progress, Stocked, Assembled, At, Build
<1>10. CASE WriteRecord(c)
  <2>1. /\ Active(c) /\ UNCHANGED <<blob, tree, served, snap, building, torn, robbed>> /\ sync[c].pc = "link"
        /\ sync[c].todo = {} /\ sync'[c].build = sync[c].build /\ sync'[c].host = sync[c].host
        /\ sync'[c].pc = "rename"
    BY <1>0, <1>10 DEF WriteRecord, At, Active, Goto, SyncTypes, SyncRecords, past
  <2>2. record'[Id(c)] = Build(c)
    BY <1>0, <1>10, <2>1 DEF WriteRecord, RelayTypes
  <2>3. SnapFiles(Build(c), sync[c].host) \ {} = SnapFiles(Build(c), sync[c].host)
    OBVIOUS
  <2>4. LinkedSoFar(c)'
    BY <1>a, <2>1, <2>2, <2>3 DEF Progress, LinkedSoFar, At, Build, Id
  <2>5. QED
    BY <1>a, <2>1, <2>4 DEF Progress, Stocked, Assembled, At, Build
<1>11. CASE Rename(c)
  <2>1. Active(c) /\ UNCHANGED <<blob, tree, served, torn, robbed>> /\ sync[c].pc = "rename"
    BY <1>11 DEF Rename, At, Active, past
  <2>2. SUFFICES ASSUME sync'[c].pc # "idle" PROVE Progress(c)'
    OBVIOUS
  <2>3. sync'[c].build = sync[c].build /\ sync'[c].host = sync[c].host /\ sync'[c].pc = "ok"
    BY <1>0, <1>11, <2>2 DEF Rename, Goto, Fails, Idle, SyncTypes, SyncRecords
  <2>4. QED
    BY <1>a, <2>1, <2>3 DEF Progress, Stocked, Assembled, LinkedSoFar, At, Build
<1>12. QED
  BY <1>1, <1>2, <1>3, <1>4, <1>5, <1>6, <1>7, <1>m, <1>8, <1>9, <1>10, <1>11 DEF SyncStep, SyncPayload, SyncSnapshot

\* A snapshot appears only by the rename of a whole .building tree, beside a
\* record that was written for it.
LEMMA CompleteStep ==
  ASSUME TInv, SParts, NEW c \in Clients, SyncStep(c)
  PROVE  Complete'
<1>0. /\ SyncTypes /\ RelayTypes /\ Complete
      /\ sync[c].pc # "idle" => Build(c) \in Builds /\ Id(c) \in Ids /\ sync[c].host \in Hosts \cup {None}
  BY BlobstoreAssumption DEF TInv, SyncTypes, SyncRecords, Build, Id, SParts
<1>a. Active(c) => Progress(c)
  BY DEF SParts
<1>1. CASE UNCHANGED <<snap, record>>
  BY <1>0, <1>1 DEF Complete
<1>2. CASE WriteRecord(c)
  <2>1. UNCHANGED snap /\ record' = [record EXCEPT ![Id(c)] = Build(c)] /\ snap[Id(c)] = EmptyTree
    BY <1>a, <1>2 DEF WriteRecord, At, Active, Progress, LinkedSoFar
  <2>2. QED
    BY <1>0, <2>1 DEF Complete, RelayTypes
<1>3. CASE Rename(c) /\ snap' = [snap EXCEPT ![Id(c)] = building[Id(c)]]
  <2>1. /\ UNCHANGED record /\ record[Id(c)] = Build(c) /\ sync[c].pc = "rename"
        /\ Serves(building[Id(c)], Build(c), SnapFiles(Build(c), sync[c].host))
    BY <1>a, <1>3 DEF Rename, At, Active, Progress, LinkedSoFar
  <2>2. snap'[Id(c)] = building[Id(c)] /\ \A id \in Ids : id # Id(c) => snap'[id] = snap[id]
    BY <1>0, <1>3, <2>1 DEF RelayTypes
  <2>3. Build(c) # None
    BY <1>0, <2>1, BlobstoreAssumption
  <2>4. QED
    BY <1>0, <2>1, <2>2, <2>3 DEF Complete
<1>4. QED
  BY <1>1, <1>2, <1>3 DEF SyncStep, SyncPayload, SyncSnapshot, Begin, Ship, Want, Upload, Final, Assemble, Prune,
       ServeManifest, Snapshot, Link, Rename, relay

\* A job beside it disturbs a sync in one way: it takes a blob, and is noted.
LEMMA ProgressFrame ==
  ASSUME TInv, NEW e \in Clients, sync'[e] = sync[e], Active(e), Progress(e),
         UNCHANGED <<tree, served, snap, record, building, torn>>, robbed \subseteq robbed',
         \A d \in Needed(Build(e)) : blob[d] # None => blob'[d] # None \/ e \in robbed'
  PROVE  Progress(e)'
<1>1. Build(e) \in Builds /\ Build(e)' = Build(e) /\ Id(e)' = Id(e)
  BY DEF TInv, SyncTypes, Active, Build, Id
<1>2. Stocked(e)'
  BY <1>1 DEF Progress, Stocked
<1>3. Assembled(e)' /\ LinkedSoFar(e)'
  BY <1>1 DEF Progress, Assembled, LinkedSoFar, At
<1>4. QED
  BY <1>2, <1>3 DEF Progress

\* The jobs leave a sync what it has done.
LEMMA JobProgress ==
  ASSUME TInv, SParts, Job \/ UNCHANGED vars
  PROVE  SParts'
<1>1. UNCHANGED <<tree, served, snap, record, building, sync, torn>>
  BY DEF Job, GcStat, Seed, Rot, Repair, CacheRots, GcUnlink, DropSeeded, FsckShip, FsckRun, FetchAssets, relay,
       vars, past
<1>2. Complete'
  BY <1>1 DEF SParts, Complete
<1>3. ASSUME NEW e \in Clients, Active(e)' PROVE Progress(e)'
  <2>1. Active(e) /\ Progress(e)
    BY <1>1, <1>3 DEF SParts, Active
  <2>2. Needed(Build(e)) \subseteq Digests
    BY <2>1, BlobstoreAssumption DEF TInv, SyncTypes, Active, Build, Needed, Manifest
  <2>3. CASE UNCHANGED <<blob, robbed>>
    BY <1>1, <2>1, <2>3, ProgressFrame
  <2>4. ASSUME NEW d \in Digests, Seed(d) PROVE Progress(e)'
    <3>1. UNCHANGED robbed /\ \A x \in Digests : blob[x] # None => blob'[x] # None
      BY <2>4 DEF Seed, TInv, RelayTypes
    <3>2. QED
      BY <1>1, <2>1, <2>2, <3>1, ProgressFrame
  <2>5. CASE GcUnlink
    <3>1. robbed \subseteq robbed' /\ (gc \in Needed(Build(e)) => e \in robbed')
      BY <2>1, <2>5 DEF GcUnlink
    <3>2. \A x \in Digests : x # gc => blob'[x] = blob[x]
      BY <2>5 DEF GcUnlink, TInv, RelayTypes
    <3>3. QED
      BY <1>1, <2>1, <2>2, <3>1, <3>2, ProgressFrame
  <2>6. QED
    BY <2>3, <2>4, <2>5 DEF Job, GcStat, Rot, Repair, CacheRots, DropSeeded, FsckShip, FsckRun,
         FetchAssets, relay, past, vars
<1>4. QED
  BY <1>2, <1>3 DEF SParts

\* What a sync has done so far, as an invariant.
LEMMA SyncInvariance == Spec => [](TInv /\ LInv /\ SInv)
<1>1. Init => SInv
  BY DEF Init, SInv, SParts, Complete, Active, Idle
<1>2. TInv /\ LInv /\ SInv /\ [Next]_vars => SInv'
  <2> SUFFICES ASSUME TInv, LInv, SInv, [Next]_vars, crossed' = {} PROVE SParts'
    BY DEF SInv
  <2>0. LParts /\ SParts
    BY CrossedGrows DEF LInv, SInv
  <2>1. ASSUME NEW c \in Clients, SyncStep(c) PROVE SParts'
    <3>1. Complete'
      BY <2>0, <2>1, CompleteStep
    <3>2. ASSUME NEW e \in Clients, Active(e)' PROVE Progress(e)'
      <4>1. e = c
        BY <2>0, <2>1, <3>2, OthersRest
      <4>2. QED
        BY <2>0, <2>1, <3>2, <4>1, ProgressStep DEF Active
    <3>3. QED
      BY <3>1, <3>2 DEF SParts
  <2>2. ASSUME NEW c \in Clients, Broken(c) PROVE SParts'
    <3>1. UNCHANGED <<relay, past>> /\ sync' = [sync EXCEPT ![c] = Idle]
      BY <2>2 DEF Broken, Fails
    <3>2. Complete'
      BY <2>0, <3>1 DEF SParts, Complete, relay
    <3>3. ASSUME NEW e \in Clients, Active(e)' PROVE Progress(e)'
      <4>1. sync'[e] = sync[e] /\ Active(e)
        BY <3>1, <3>3 DEF TInv, SyncTypes, Active, Idle
      <4>2. QED
        BY <2>0, <3>1, <4>1, ProgressFrame DEF SParts, relay, past
    <3>4. QED
      BY <3>2, <3>3 DEF SParts
  <2>3. QED
    BY <2>0, <2>1, <2>2, JobProgress DEF Next
<1>3. QED
  BY <1>1, <1>2, Typed, Linking, PTL DEF Spec

\* As long as no two syncs overlap, whatever breaks a sync, and with gc, seed,
\* repair and fsck inside it: a snapshot that exists under its name holds
\* exactly the files of the manifest recorded beside it, and no half-built tree.
THEOREM SnapshotsAreComplete == Spec => []SnapshotComplete
<1>1. SInv => SnapshotComplete
  BY DEF SInv, SParts, Complete, SnapshotComplete
<1>2. QED
  BY <1>1, SyncInvariance, PTL

\* With one client, and any number of jobs inside its syncs: a sync that
\* returned ok has left the host's tree and its payload-manifest.json serving
\* the build it was given, file by file, unless its final command met a
\* truncated script.
THEOREM OkIsServed ==
  ASSUME \A c, e \in Clients : c = e
  PROVE  Spec => []OkMeansServed
<1>1. Init => OkMeansServed
  BY DEF Init, OkMeansServed, At, Idle
<1>2. TInv /\ LInv /\ SInv /\ OkMeansServed /\ [Next]_vars => OkMeansServed'
  <2> SUFFICES ASSUME TInv, LInv, SInv, OkMeansServed, [Next]_vars, crossed' = {},
                      NEW c \in Clients, sync'[c].pc = "ok", sync'[c].host # None, torn'[c] # "final"
               PROVE  (served[sync[c].host] = Build(c)
                       /\ Serves(tree[sync[c].host], Build(c), Manifest(Build(c))))'
    BY DEF OkMeansServed, At
  <2>0. crossed = {} /\ LParts /\ SParts
    BY CrossedGrows DEF LInv, SInv
  <2>1. CASE SyncStep(c)
    BY <2>0, <2>1, ProgressStep DEF Progress, Assembled
  <2>2. ~Broken(c)
    BY DEF Broken, Fails, Idle, TInv, SyncTypes
  <2>3. CASE Job \/ UNCHANGED vars
    <3>1. UNCHANGED <<tree, served, sync, torn>>
      BY <2>3 DEF Job, GcStat, Seed, Rot, Repair, CacheRots, GcUnlink, DropSeeded, FsckShip, FsckRun, FetchAssets,
           relay, past, vars
    <3>2. QED
      BY <2>0, <3>1 DEF OkMeansServed, At, Build
  <2>4. QED
    BY <2>1, <2>2, <2>3 DEF Next
<1>3. QED
  BY <1>1, <1>2, SyncInvariance, PTL DEF Spec

\* The tree of a snapshot that has the bytes has the inodes too, unless gc's
\* race took one of them.
LEMMA ServedMatches ==
  ASSUME TInv, LParts, NEW id \in Ids, NEW b \in Builds, NEW paths \in SUBSET Paths, Serves(snap[id], b, paths),
         \A p \in Paths : snap[id][p] \notin raced
  PROVE  TreeMatches(snap[id], b, paths)
<1>1. ASSUME NEW p \in paths PROVE snap[id][p] # None /\ snap[id][p] = blob[Files[b][p]]
  <2>1. snap[id][p] \in Inodes /\ snap[id][p] # None /\ snap[id][p][1] = Files[b][p]
    BY DEF Serves, TInv, RelayTypes, Tree
  <2>2. InATree(snap[id][p]) /\ snap[id][p] \notin raced
    BY DEF InATree, InTree
  <2>3. QED
    BY <2>1, <2>2 DEF LParts, Kept
<1>2. QED
  BY <1>1 DEF Serves, TreeMatches

\* A sync that is not broken off, of a build that has files, is refused only
\* where its id already names other bytes, a command met a truncated script, gc
\* took a blob from it, or gc's race had cut a link of the snapshot it finds:
\* no blob is missing and no left-over tree stops it otherwise.
THEOREM OnlyRefusedForCause ==
  ASSUME \A b \in Builds : Manifest(b) \ {BUILD_MANIFEST} # {}
  PROVE  Spec => RefusedForCause
<1>1. ASSUME TInv, LInv, SInv, [Next]_vars, crossed = {}, NEW c \in Clients,
             ~At(c, "idle"), sync'[c].pc = "idle", faults' = faults
      PROVE  \/ torn'[c] # "no" \/ c \in robbed
             \/ /\ At(c, "snapshot")
                /\ \/ ~Serves(snap[Id(c)], Build(c), SnapFiles(Build(c), sync[c].host))
                   \/ \E p \in Paths : snap[Id(c)][p] \in raced
  <2>0. /\ SyncTypes /\ RelayTypes /\ SideTypes /\ Build(c) \in Builds /\ Id(c) \in Ids
        /\ sync[c].todo \subseteq Manifest(Build(c)) /\ sync[c] \in SyncRecords
    BY <1>1, BlobstoreAssumption DEF TInv, SyncTypes, Build, Id, At
  <2>p. LParts /\ SParts
    BY <1>1 DEF LInv, SInv
  <2>a. Active(c) => Progress(c)
    BY <2>p DEF SParts
  <2>b. Active(c) /\ sync[c].pc # "upload" => sync[c].missing = {}
    BY <2>p DEF LParts, AboutToUpload
  <2>c. ASSUME NEW l \in SyncPcs \ {"idle"} PROVE ~Goto(c, l)
    BY <1>1, <2>0 DEF Goto, SyncTypes, SyncRecords
  <2>d. ~\E p \in sync[c].todo : sync' = [sync EXCEPT ![c].todo = @ \ {p}]
    BY <1>1, <2>0 DEF At, SyncTypes, SyncRecords
  <2>1. SyncStep(c)
    <3>1. ~UNCHANGED sync
      BY <1>1 DEF At
    <3>2. ~(Job \/ UNCHANGED vars)
      BY <3>1 DEF Job, GcStat, Seed, Rot, Repair, CacheRots, GcUnlink, DropSeeded, FsckShip, FsckRun, FetchAssets,
           vars
    <3>3. PICK e \in Clients : SyncStep(e) \/ Broken(e)
      BY <1>1, <3>2 DEF Next
    <3>4. ~Broken(e)
      BY <1>1, <2>0 DEF Broken, Fault, SideTypes
    <3>5. e = c
      BY <1>1, <3>3, OwnStep DEF At
    <3>6. QED
      BY <3>3, <3>4, <3>5
  <2>2. ~(SyncPayload(c) \/ SyncSnapshot(c) \/ Ship(c) \/ Upload(c) \/ Prune(c) \/ ServeManifest(c) \/ WriteRecord(c))
    <3>1. ~(SyncPayload(c) \/ SyncSnapshot(c))
      BY <1>1, <2>0 DEF SyncPayload, SyncSnapshot, Begin, Idle, SyncTypes
    <3>2. ~Upload(c)
      BY <1>1, <2>0 DEF Upload, At, SyncTypes, SyncRecords
    <3>3. ~Prune(c)
      BY <1>1 DEF Prune, At
    <3>4. QED
      BY <2>c, <3>1, <3>2, <3>3 DEF Ship, ServeManifest, WriteRecord, SyncPcs
  <2>3. CASE Want(c) \/ Final(c)
    <3>1. ~script
      <4>1. ASSUME Want(c), script PROVE FALSE
        BY <1>1, <2>0, <4>1 DEF Want, SyncTypes, SyncRecords
      <4>2. ASSUME Final(c), script PROVE FALSE
        BY <1>1, <2>0, <2>c, <4>2 DEF Final, SyncTypes, SyncRecords, SyncPcs
      <4>3. QED
        BY <2>3, <4>1, <4>2
    <3>2. torn'[c] # "no"
      BY <2>0, <2>3, <3>1 DEF Want, Final, SideTypes
    <3>3. QED
      BY <3>2
  <2>4. CASE Assemble(c) \/ Link(c)
    <3>1. Active(c) /\ sync[c].pc \in {"assemble", "link"} /\ sync[c].missing = {} /\ torn' = torn
      BY <2>4, <2>b DEF Assemble, Link, At, Active
    <3>2. torn[c] = "no" /\ c \notin robbed => \A p \in sync[c].todo : blob[Files[Build(c)][p]] # None
      BY <2>0, <2>a, <3>1 DEF Progress, Stocked, Needed
    <3>3. CASE Assemble(c)
      <4>1. \E p \in sync[c].todo : blob[Files[Build(c)][p]] = None
        BY <2>d, <3>3, Zenon DEF Assemble
      <4>2. QED
        BY <3>1, <3>2, <4>1
    <3>4. CASE Link(c)
      <4>1. \A p \in sync[c].todo : building[Id(c)][p] = None
        BY <2>0, <2>a, <3>1, <3>4 DEF Link, At, Progress, LinkedSoFar, Serves, Manifest
      <4>2. \E p \in sync[c].todo : blob[Files[Build(c)][p]] = None
        BY <2>d, <3>4, <4>1, Zenon DEF Link
      <4>3. QED
        BY <3>1, <3>2, <4>2
    <3>5. QED
      BY <2>4, <3>3, <3>4
  <2>5. ASSUME Rename(c) PROVE FALSE
    <3>1. /\ snap[Id(c)] = EmptyTree
          /\ Serves(building[Id(c)], Build(c), SnapFiles(Build(c), sync[c].host))
      BY <2>a, <2>5 DEF Rename, At, Active, Progress, LinkedSoFar
    <3>2. PICK p \in Paths : p \in SnapFiles(Build(c), sync[c].host)
      BY <2>0 DEF SnapFiles, Manifest
    <3>3. building[Id(c)] # EmptyTree
      BY <3>1, <3>2 DEF Serves, EmptyTree
    <3>4. QED
      BY <2>5, <2>c, <3>1, <3>3 DEF Rename, SyncPcs
  <2>6. CASE Snapshot(c)
    <3>1. At(c, "snapshot")
      BY <2>6 DEF Snapshot
    <3>2. ~TreeMatches(snap[Id(c)], Build(c), SnapFiles(Build(c), sync[c].host))
      BY <1>1, <2>0, <2>6, <2>c DEF Snapshot, SyncTypes, SyncRecords, SyncPcs
    <3>3. SnapFiles(Build(c), sync[c].host) \in SUBSET Paths
      BY DEF SnapFiles, Manifest
    <3>4. QED
      BY <1>1, <2>0, <2>p, <3>1, <3>2, <3>3, ServedMatches
  <2>7. QED
    BY <2>1, <2>2, <2>3, <2>4, <2>5, <2>6 DEF SyncStep
<1>2. TInv /\ LInv /\ SInv /\ [Next]_vars =>
        [crossed = {} =>
           \A c \in Clients : ~At(c, "idle") /\ sync'[c].pc = "idle" /\ faults' = faults =>
             \/ torn'[c] # "no" \/ c \in robbed
             \/ /\ At(c, "snapshot")
                /\ \/ ~Serves(snap[Id(c)], Build(c), SnapFiles(Build(c), sync[c].host))
                   \/ \E p \in Paths : snap[Id(c)][p] \in raced]_vars
  BY <1>1
<1>3. QED
  BY <1>2, SyncInvariance, PTL DEF Spec, RefusedForCause
=============================================================================
