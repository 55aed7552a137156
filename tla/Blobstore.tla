------------------------------ MODULE Blobstore ------------------------------
(***************************************************************************)
(* The staging relay: the content-addressed blobstore, host trees and       *)
(* snapshots that are hardlinks into it (tools/blobstore.py), the syncs of  *)
(* server/prov/relay.py that fill it over ssh, and the jobs that run beside *)
(* them: gc, seed, repair, the daily fsck and the asset cache's fetch.      *)
(*                                                                          *)
(* A file's bytes live in an inode; <<d, k>> is the k-th inode that was     *)
(* created for digest d.  A name is a link to an inode.  Every command of a *)
(* sync is a process of its own on the relay, and a loop over files is one  *)
(* step per file.                                                           *)
(***************************************************************************)
EXTENDS Integers

CONSTANTS
  Clients,        \* processes that sync: the driver, an operator's shell
  Hosts, Paths, Digests, None,
  Copies,         \* bound: inodes per digest
  Builds, Ids,
  Files,          \* Files[b][p]: the digest of path p in build b, or None
  IdOf,           \* IdOf[b]: the payload_hash or baseline id of build b
  BUILD_MANIFEST, \* the path that payload_hash leaves out
  Legacy,         \* digests of files in older trees on the relay
  MaxFaults       \* bound: broken syncs, and jobs and faults beside them (gc,
                  \* seed, fsck, rotted blobs, bad cache files)

ASSUME BlobstoreAssumption ==
  /\ Files \in [Builds -> [Paths -> Digests \cup {None}]]
  /\ IdOf \in [Builds -> Ids]
  /\ BUILD_MANIFEST \in Paths /\ Legacy \subseteq Digests
  /\ None \notin Hosts \cup Digests \cup Builds \cup (Digests \X Copies)
  /\ MaxFaults \in Nat

Inodes    == Digests \X Copies
Tree      == [Paths -> Inodes \cup {None}]
EmptyTree == [p \in Paths |-> None]

VARIABLES
  blob,      \* blobstore/<aa>/<sha256>: the inode behind each digest
  tree,      \* hosts/<host>/01-provisioning
  served,    \* hosts/<host>/payload-manifest.json
  snap,      \* <kind>/<id>
  record,    \* <kind>/<id>.json
  building,  \* <kind>/.<id>.building
  outside,   \* inodes that trees adopted by seed also link
  rotten,    \* inodes whose bytes do not hash to their digest
  stale,     \* digests whose copy in the build host's asset cache is bad
  script,    \* /tmp/mast-blobstore.py on the relay is whole
  sync,      \* each client: where _sync is
  gc,        \* the digest whose blob gc found unreferenced
  fsck,      \* the fsck job: idle, or shipping its script
  faults,    \* history: broken syncs, jobs and faults so far
  torn,      \* history: which command of a client's sync met a script that
             \* somebody else had truncated: "no", "want", "final"
  robbed,    \* history: clients whose sync lost a blob it needs to gc
  raced,     \* history: inodes linked between gc's look at them and its removal
  crossed    \* history: clients that began a sync inside another's

relay == <<blob, tree, served, snap, record, building>>
side  == <<outside, rotten, stale>>
past  == <<torn, robbed, raced, crossed>>
vars  == <<relay, side, script, sync, gc, fsck, faults, past>>

Idle == [pc |-> "idle", host |-> None, build |-> None, todo |-> {}, missing |-> {}]

SyncPcs == {"idle", "ship", "want", "upload", "assemble", "snapshot", "link",
            "record", "rename", "ok"}

TypeOK ==
  /\ blob \in [Digests -> Inodes \cup {None}]
  /\ tree \in [Hosts -> Tree] /\ served \in [Hosts -> Builds \cup {None}]
  /\ snap \in [Ids -> Tree] /\ building \in [Ids -> Tree]
  /\ record \in [Ids -> Builds \cup {None}]
  /\ outside \in SUBSET Inodes /\ rotten \in SUBSET Inodes
  /\ stale \in SUBSET Digests /\ script \in BOOLEAN
  /\ sync \in [Clients -> [pc : SyncPcs, host : Hosts \cup {None},
                           build : Builds \cup {None}, todo : SUBSET Paths,
                           missing : SUBSET Digests]]
  /\ gc \in Digests \cup {None} /\ fsck \in {"idle", "ship"}
  /\ faults \in 0..MaxFaults
  /\ torn \in [Clients -> {"no", "want", "final"}] /\ robbed \in SUBSET Clients
  /\ raced \in SUBSET Inodes /\ crossed \in SUBSET Clients

Init ==
  /\ blob = [d \in Digests |-> None]
  /\ tree = [h \in Hosts |-> EmptyTree] /\ served = [h \in Hosts |-> None]
  /\ snap = [i \in Ids |-> EmptyTree] /\ building = [i \in Ids |-> EmptyTree]
  /\ record = [i \in Ids |-> None]
  /\ outside = {} /\ rotten = {} /\ stale = {}
  /\ script = FALSE
  /\ sync = [c \in Clients |-> Idle]
  /\ gc = None /\ fsck = "idle" /\ faults = 0
  /\ torn = [c \in Clients |-> "no"] /\ robbed = {} /\ raced = {} /\ crossed = {}

-----------------------------------------------------------------------------
(* Manifests and links                                                     *)

\* The files of a build's manifest, and of the snapshot it becomes.
Manifest(b) == {p \in Paths : Files[b][p] # None}
SnapFiles(b, host) == IF host = None THEN Manifest(b)
                      ELSE Manifest(b) \ {BUILD_MANIFEST}
Needed(b) == {Files[b][p] : p \in Manifest(b)}

\* What a tree of links serves, by digest.
Serves(t, b, paths) ==
  \A p \in Paths : IF p \in paths THEN t[p] # None /\ t[p][1] = Files[b][p]
                   ELSE t[p] = None

InTree(t, i) == \E p \in Paths : t[p] = i

\* A host tree or a snapshot, finished or not, links inode i.
InATree(i) ==
  \/ \E h \in Hosts : InTree(tree[h], i)
  \/ \E id \in Ids : InTree(snap[id], i) \/ InTree(building[id], i)

\* Some name other than the blob's own points at inode i: st_nlink > 1.
Referenced(i) == InATree(i) \/ i \in outside

Fresh(d) == {i \in {d} \X Copies : ~Referenced(i) /\ blob[d] # i}

\* tree_matches: exactly these paths, each the inode the blobstore has now.
TreeMatches(t, b, paths) ==
  \A p \in Paths : IF p \in paths THEN t[p] # None /\ t[p] = blob[Files[b][p]]
                   ELSE t[p] = None

At(c, pc) == sync[c].pc = pc
Build(c) == sync[c].build
Id(c) == IdOf[Build(c)]
Goto(c, pc) == sync' = [sync EXCEPT ![c].pc = pc]
Fails(c) == sync' = [sync EXCEPT ![c] = Idle]
Active(c) == sync[c].pc \notin {"idle", "ok"}

Fault   == faults < MaxFaults /\ faults' = faults + 1
NoFault == UNCHANGED faults

-----------------------------------------------------------------------------
(* A sync: prov.relay._sync and the commands it runs on the relay          *)

Begin(c, h, b) ==
  /\ sync[c].pc \in {"idle", "ok"}
  /\ sync' = [sync EXCEPT ![c] = [Idle EXCEPT !.pc = "ship", !.host = h, !.build = b]]
  /\ script' = FALSE
  /\ torn' = [torn EXCEPT ![c] = "no"] /\ robbed' = robbed \ {c}
  /\ crossed' = IF \E e \in Clients : Active(e) THEN crossed \cup {c} ELSE crossed
  /\ NoFault
  /\ UNCHANGED <<relay, side, gc, fsck, raced>>

\* sync_payload: the payload was just built and hashed.
SyncPayload(c) ==
  \E h \in Hosts, b \in Builds : BUILD_MANIFEST \in Manifest(b) /\ Begin(c, h, b)

\* sync_snapshot: the files come out of a cache, so each is hashed first.
SyncSnapshot(c) ==
  \E b \in Builds : /\ BUILD_MANIFEST \notin Manifest(b)
                    /\ Needed(b) \cap stale = {}
                    /\ Begin(c, None, b)

\* cat > /tmp/mast-blobstore.py truncated the script; now it is whole, unless
\* somebody else is writing it too.
Shipping == {c \in Clients : At(c, "ship")}

Ship(c) ==
  /\ At(c, "ship")
  /\ script' = (Shipping = {c} /\ fsck = "idle")
  /\ Goto(c, "want")
  /\ NoFault
  /\ UNCHANGED <<relay, side, gc, fsck, past>>

\* cmd_want.  A truncated script that ends before its last line does nothing
\* and exits 0: nothing is wanted.
Want(c) ==
  /\ At(c, "want")
  /\ \/ script /\ sync' = [sync EXCEPT ![c].pc = "upload",
                  ![c].missing = {d \in Needed(Build(c)) : blob[d] = None}]
     \/ ~script /\ (Goto(c, "upload") \/ Fails(c))
  /\ torn' = IF script THEN torn ELSE [torn EXCEPT ![c] = "want"]
  /\ NoFault
  /\ UNCHANGED <<relay, side, script, gc, fsck, robbed, raced, crossed>>

\* upload_blobs: rsync writes beside the name and renames.  A blob that came
\* in meanwhile is kept if its time and size agree, else replaced.
Upload(c) ==
  /\ At(c, "upload")
  /\ \E d \in sync[c].missing :
       /\ sync' = [sync EXCEPT ![c].missing = @ \ {d}]
       /\ \/ \E i \in Fresh(d) :
               /\ blob' = [blob EXCEPT ![d] = i]
               /\ rotten' = IF d \in stale /\ sync[c].host = None
                            THEN rotten \cup {i} ELSE rotten \ {i}
               /\ raced' = raced \ {i}
          \/ blob[d] # None /\ UNCHANGED <<blob, rotten, raced>>
  /\ NoFault
  /\ UNCHANGED <<tree, served, snap, record, building, outside, stale, script, gc, fsck,
                 torn, robbed, crossed>>

\* The final command starts: assemble --host, or snapshot.
Final(c) ==
  /\ At(c, "upload") /\ sync[c].missing = {}
  /\ \/ script /\ IF sync[c].host = None THEN Goto(c, "snapshot")
                  ELSE sync' = [sync EXCEPT ![c].pc = "assemble",
                                            ![c].todo = Manifest(Build(c))]
     \/ ~script /\ (Goto(c, "ok") \/ Fails(c))
  /\ torn' = IF script THEN torn ELSE [torn EXCEPT ![c] = "final"]
  /\ NoFault
  /\ UNCHANGED <<relay, side, script, gc, fsck, robbed, raced, crossed>>

\* Inode i is linked; gc may have found it unreferenced just before.
Race(i) == raced' = IF gc = i[1] THEN raced \cup {i} ELSE raced

\* Mutant: a file that is there is left as it is.
TrustExisting(c) ==
  /\ At(c, "assemble")
  /\ \E p \in sync[c].todo :
       LET i == blob[Files[Build(c)][p]]  h == sync[c].host IN
       IF i = None THEN Fails(c) /\ UNCHANGED <<tree, raced>>
       ELSE /\ tree' = IF tree[h][p] # None THEN tree ELSE [tree EXCEPT ![h][p] = i]
            /\ sync' = [sync EXCEPT ![c].todo = @ \ {p}]
            /\ Race(i)
  /\ NoFault
  /\ UNCHANGED <<blob, served, snap, record, building, side, script, gc, fsck,
                 torn, robbed, crossed>>

\* cmd_assemble, one file: refuse a missing blob, replace what is there.
Assemble(c) ==
  /\ At(c, "assemble")
  /\ \E p \in sync[c].todo :
       LET i == blob[Files[Build(c)][p]] IN
       IF i = None THEN Fails(c) /\ UNCHANGED <<tree, raced>>
       ELSE /\ tree' = [tree EXCEPT ![sync[c].host][p] = i]
            /\ sync' = [sync EXCEPT ![c].todo = @ \ {p}]
            /\ Race(i)
  /\ NoFault
  /\ UNCHANGED <<blob, served, snap, record, building, side, script, gc, fsck,
                 torn, robbed, crossed>>

Extra(c) == {p \in Paths \ Manifest(Build(c)) : tree[sync[c].host][p] # None}

\* prune_to: one file that the manifest does not name.
Prune(c) ==
  /\ At(c, "assemble") /\ sync[c].todo = {}
  /\ \E p \in Extra(c) : tree' = [tree EXCEPT ![sync[c].host][p] = None]
  /\ NoFault
  /\ UNCHANGED <<blob, served, snap, record, building, side, script, sync, gc, fsck, past>>

\* Mutant: the host is said to serve the payload's id, not its manifest.
ServeId(c) ==
  /\ At(c, "assemble") /\ sync[c].todo = {} /\ Extra(c) = {}
  /\ served' = [served EXCEPT ![sync[c].host] = Id(c)]
  /\ Goto(c, "snapshot")
  /\ NoFault
  /\ UNCHANGED <<blob, tree, snap, record, building, side, script, gc, fsck, past>>

\* payload-manifest.json is written.
ServeManifest(c) ==
  /\ At(c, "assemble") /\ sync[c].todo = {} /\ Extra(c) = {}
  /\ served' = [served EXCEPT ![sync[c].host] = Build(c)]
  /\ Goto(c, "snapshot")
  /\ NoFault
  /\ UNCHANGED <<blob, tree, snap, record, building, side, script, gc, fsck, past>>

\* Mutant: a left-over .building tree is taken over.
KeepBuilding(c) ==
  LET id == Id(c)  paths == SnapFiles(Build(c), sync[c].host) IN
  /\ At(c, "snapshot")
  /\ IF snap[id] # EmptyTree
     THEN IF TreeMatches(snap[id], Build(c), paths) THEN Goto(c, "ok") ELSE Fails(c)
     ELSE sync' = [sync EXCEPT ![c].pc = "link",
                     ![c].todo = {p \in paths : building[id][p] = None}]
  /\ NoFault
  /\ UNCHANGED <<relay, side, script, gc, fsck, past>>

\* Mutant: a snapshot that differs is replaced.
ReplaceDiffering(c) ==
  LET id == Id(c)  paths == SnapFiles(Build(c), sync[c].host) IN
  /\ At(c, "snapshot")
  /\ IF TreeMatches(snap[id], Build(c), paths)
     THEN Goto(c, "ok") /\ UNCHANGED <<snap, building>>
     ELSE /\ snap' = [snap EXCEPT ![id] = EmptyTree]
          /\ building' = [building EXCEPT ![id] = EmptyTree]
          /\ sync' = [sync EXCEPT ![c].pc = "link", ![c].todo = paths]
  /\ NoFault
  /\ UNCHANGED <<blob, tree, served, record, side, script, gc, fsck, past>>

\* snapshot: an existing one is the same content or a refusal; a left-over
\* .building tree is removed.
Snapshot(c) ==
  LET id == Id(c)  paths == SnapFiles(Build(c), sync[c].host) IN
  /\ At(c, "snapshot")
  /\ IF snap[id] # EmptyTree
     THEN /\ IF TreeMatches(snap[id], Build(c), paths) THEN Goto(c, "ok") ELSE Fails(c)
          /\ UNCHANGED building
     ELSE /\ building' = [building EXCEPT ![id] = EmptyTree]
          /\ sync' = [sync EXCEPT ![c].pc = "link", ![c].todo = paths]
  /\ NoFault
  /\ UNCHANGED <<blob, tree, served, snap, record, side, script, gc, fsck, past>>

\* One file of the snapshot; an exception removes the .building tree.
Link(c) ==
  LET id == Id(c) IN
  /\ At(c, "link")
  /\ \E p \in sync[c].todo :
       LET i == blob[Files[Build(c)][p]] IN
       IF i = None \/ building[id][p] # None
       THEN Fails(c) /\ building' = [building EXCEPT ![id] = EmptyTree] /\ UNCHANGED raced
       ELSE /\ building' = [building EXCEPT ![id][p] = i]
            /\ sync' = [sync EXCEPT ![c].todo = @ \ {p}]
            /\ Race(i)
  /\ NoFault
  /\ UNCHANGED <<blob, tree, served, snap, record, side, script, gc, fsck,
                 torn, robbed, crossed>>

WriteRecord(c) ==
  /\ At(c, "link") /\ sync[c].todo = {}
  /\ record' = [record EXCEPT ![Id(c)] = Build(c)]
  /\ Goto(c, "rename")
  /\ NoFault
  /\ UNCHANGED <<blob, tree, served, snap, building, side, script, gc, fsck, past>>

\* rename fails if the tree is gone, or if another process was first.
Rename(c) ==
  LET id == Id(c) IN
  /\ At(c, "rename")
  /\ IF building[id] = EmptyTree \/ snap[id] # EmptyTree
     THEN Fails(c) /\ UNCHANGED <<snap, building>>
     ELSE /\ snap' = [snap EXCEPT ![id] = building[id]]
          /\ building' = [building EXCEPT ![id] = EmptyTree]
          /\ Goto(c, "ok")
  /\ NoFault
  /\ UNCHANGED <<blob, tree, served, record, side, script, gc, fsck, past>>

\* ssh, rsync or the remote process dies or times out, at any point.
Broken(c) ==
  /\ ~At(c, "idle")
  /\ Fails(c)
  /\ Fault
  /\ UNCHANGED <<relay, side, script, gc, fsck, past>>

-----------------------------------------------------------------------------
(* The jobs beside it                                                      *)

\* Mutant: only the trees that hosts serve count.
GcHostsOnly(d) ==
  /\ gc = None
  /\ blob[d] # None /\ \A h \in Hosts : ~InTree(tree[h], blob[d])
  /\ gc' = d
  /\ Fault
  /\ UNCHANGED <<relay, side, script, sync, fsck, past>>

\* cmd_gc reads a blob's link count ...
GcStat(d) ==
  /\ gc = None
  /\ blob[d] # None /\ ~Referenced(blob[d])
  /\ gc' = d
  /\ Fault
  /\ UNCHANGED <<relay, side, script, sync, fsck, past>>

\* ... and then removes the name, whatever a sync has done in between.
GcUnlink ==
  /\ gc # None
  /\ blob' = [blob EXCEPT ![gc] = None]
  /\ gc' = None
  /\ robbed' = robbed \cup {c \in Clients : Active(c) /\ gc \in Needed(Build(c))}
  /\ NoFault
  /\ UNCHANGED <<tree, served, snap, record, building, side, script, sync, fsck,
                 torn, raced, crossed>>

\* cmd_seed adopts a file of an existing tree, unless its blob is there.
Seed(d) ==
  /\ d \in Legacy /\ blob[d] = None
  /\ \E i \in Fresh(d) : /\ blob' = [blob EXCEPT ![d] = i]
                         /\ outside' = outside \cup {i}
                         /\ rotten' = rotten \ {i} /\ raced' = raced \ {i}
  /\ Fault
  /\ UNCHANGED <<tree, served, snap, record, building, stale, script, sync, gc, fsck,
                 torn, robbed, crossed>>

\* The adopted trees are deleted.
DropSeeded ==
  /\ outside # {}
  /\ outside' = {}
  /\ NoFault
  /\ UNCHANGED <<relay, rotten, stale, script, sync, gc, fsck, past>>

Rot(d) ==
  /\ blob[d] # None /\ blob[d] \notin rotten
  /\ rotten' = rotten \cup {blob[d]}
  /\ Fault
  /\ UNCHANGED <<relay, outside, stale, script, sync, gc, fsck, past>>

\* Mutant: the blob is deleted and a good copy put in its place.
RepairByReplacing(d) ==
  /\ blob[d] # None /\ blob[d] \in rotten
  /\ \E i \in Fresh(d) : /\ blob' = [blob EXCEPT ![d] = i]
                         /\ rotten' = rotten \ {i}
  /\ NoFault
  /\ UNCHANGED <<tree, served, snap, record, building, outside, stale, script, sync, gc, fsck, past>>

\* cmd_repair rewrites the blob in place from a copy that hashes right.
Repair(d) ==
  /\ blob[d] # None /\ blob[d] \in rotten
  /\ rotten' = rotten \ {blob[d]}
  /\ NoFault
  /\ UNCHANGED <<relay, outside, stale, script, sync, gc, fsck, past>>

\* blobstore-fsck.sh ships its own copy of the script, then only reads.
FsckShip ==
  /\ fsck = "idle"
  /\ fsck' = "ship" /\ script' = FALSE
  /\ Fault
  /\ UNCHANGED <<relay, side, sync, gc, past>>

FsckRun ==
  /\ fsck = "ship"
  /\ fsck' = "idle" /\ script' = (Shipping = {})
  /\ NoFault
  /\ UNCHANGED <<relay, side, sync, gc, past>>

\* A file of the asset cache, from which baselines are synced, is missing or
\* not what the index says.
Cached == UNION {Needed(b) : b \in {b \in Builds : BUILD_MANIFEST \notin Manifest(b)}}

CacheRots(d) ==
  /\ d \in Cached \ stale
  /\ stale' = stale \cup {d}
  /\ Fault
  /\ UNCHANGED <<relay, outside, rotten, script, sync, gc, fsck, past>>

\* fetch-assets.sh: one tar stream, which fails if any blob is missing; what
\* arrives is hashed before it is installed.
FetchAssets ==
  /\ stale # {}
  /\ \A d \in stale : blob[d] # None
  /\ stale' = {d \in stale : blob[d] \in rotten}
  /\ NoFault
  /\ UNCHANGED <<relay, outside, rotten, script, sync, gc, fsck, past>>

SyncStep(c) ==
  \/ SyncPayload(c) \/ SyncSnapshot(c) \/ Ship(c) \/ Want(c) \/ Upload(c)
  \/ Final(c) \/ Assemble(c) \/ Prune(c) \/ ServeManifest(c)
  \/ Snapshot(c) \/ Link(c) \/ WriteRecord(c) \/ Rename(c)

Job ==
  \/ \E d \in Digests : GcStat(d) \/ Seed(d) \/ Rot(d) \/ Repair(d) \/ CacheRots(d)
  \/ GcUnlink \/ DropSeeded \/ FsckShip \/ FsckRun \/ FetchAssets

Next ==
  \/ \E c \in Clients : SyncStep(c) \/ Broken(c)
  \/ Job

Spec == Init /\ [][Next]_vars

-----------------------------------------------------------------------------
(* Properties                                                              *)

\* A sync that reports success has left the host's tree serving exactly the
\* build it was given, and the unit will pull it: also with gc, seed, rot and
\* repair inside the sync, and with the script truncated under its want.  Only
\* a final command that itself met a truncated script reports ok for nothing.
\* (Nothing is claimed once two syncs have overlapped.)
OkMeansServed ==
  crossed = {} =>
    \A c \in Clients :
      At(c, "ok") /\ sync[c].host # None /\ torn[c] # "final" =>
        /\ served[sync[c].host] = Build(c)
        /\ Serves(tree[sync[c].host], Build(c), Manifest(Build(c)))

\* "a failure leaves no half-tree that a later run would mistake for the
\* snapshot": a snapshot holds exactly the files of the manifest beside it,
\* whatever breaks a sync off, and with gc and the fsck job inside it.
SnapshotComplete ==
  crossed = {} =>
    \A id \in Ids : snap[id] # EmptyTree =>
      /\ record[id] # None
      /\ \E host \in Hosts \cup {None} :
           Serves(snap[id], record[id], SnapFiles(record[id], host))

\* "An id names one set of bytes for good".
SnapshotImmutable ==
  [][\A id \in Ids : snap[id] # EmptyTree => snap'[id] = snap[id]]_vars

\* Every tree that is served or kept shares its inodes with the blobstore, so
\* that gc spares them, repair heals them and syncing the payload again is a
\* no-op and no refusal.  The one way to lose a link is gc's: an inode that a
\* sync links after gc found it unreferenced and before gc removed its name.
LinkedTrees ==
  crossed = {} => \A i \in Inodes : InATree(i) /\ i \notin raced => blob[i[1]] = i

\* A sync that is not broken off is refused for one of four reasons: its id
\* already names other content, one of its commands met a truncated script, gc
\* removed a blob that it needed while it was under way, or the snapshot it
\* finds holds an inode that gc's race has cut off.  No blob it was told it need
\* not send goes missing otherwise, and no left-over tree stops it.
RefusedForCause ==
  [][crossed = {} =>
       \A c \in Clients : ~At(c, "idle") /\ sync'[c].pc = "idle" /\ faults' = faults =>
         \/ torn'[c] # "no" \/ c \in robbed
         \/ /\ At(c, "snapshot")
            /\ \/ ~Serves(snap[Id(c)], Build(c), SnapFiles(Build(c), sync[c].host))
               \/ \E p \in Paths : snap[Id(c)][p] \in raced]_vars
=============================================================================
