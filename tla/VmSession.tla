----------------------------- MODULE VmSession ------------------------------
(***************************************************************************)
(* The pipelines of src/index.ts: runImage, startVm, runCode, bootRootfs,   *)
(* createSnapshot, restoreSnapshot and prepareSandbox, several at a time,   *)
(* in one process or in several, over one cache directory.                  *)
(*                                                                         *)
(* Files are names of inodes, as a rename, a hard link and a file that is   *)
(* unlinked while a VM has it open all matter here.  An image is reduced to *)
(* whether it is whole and which guests wrote to it.  The host network is   *)
(* HostNetwork, a VM is VmRunner, a copy-on-write disk is VirtioBlk and a   *)
(* named disk is PersistentDisk.  options.tempDir and options.overlayPath   *)
(* are not given: every session owns its temporary directory.               *)
(***************************************************************************)
EXTENDS Naturals, FiniteSets

CONSTANTS
  Sessions,
  Requests,    \* the calls made, records [op, sandbox, keep]
  None,
  MaxFaults,   \* bound: operations that fail
  MaxCrashes   \* bound: deaths of a process

\* run and start with an image, with something that is not cacheable, with
\* rootfsPath, with diskPath and an image, the same with reset; boot; restore
\* of the snapshot and its creation from a build or from rootfsPath; prepare,
\* and run of what it prepared.
DiskOps == {"disk", "diskReset"}
RunOps == DiskOps \union {"image", "build", "rootfs", "restore", "template"}
Ops == RunOps \union {"boot", "snapshot", "snapshotOf", "prepare"}
IsRequest(r) ==
  /\ r.op \in Ops /\ r.sandbox \in BOOLEAN /\ r.keep \in SUBSET {"overlay", "rootfs"}
  /\ r.op = "restore" => r.sandbox                  \* restore: true
  /\ r.op \in {"snapshot", "snapshotOf"} => r.keep = {}

ASSUME RequestsAssumption == \A r \in Requests : IsRequest(r)
ASSUME SessionBoundsAssumption ==
  None \notin Sessions /\ MaxFaults \in Nat /\ MaxCrashes \in Nat

VARIABLES
  fs,          \* path -> inode
  whole,       \* the inodes whose contents are complete
  writers,     \* inode -> the sessions whose guest wrote to it
  manifest,    \* snapshot.json is in the bundle
  dirs,        \* temporary and overlay directories, mount points
  net,         \* sessions whose network is set up
  pc, opt,
  parent,      \* the prepared sandbox a run belongs to
  root,        \* preparedDisk: [path, fromCache, persistent]
  base,        \* the inode the VM has open as its root disk
  stuck,       \* history: what a cleanup could not remove
  faults, crashes

fileVars == <<fs, whole, writers, manifest>>
hostVars == <<dirs, net, stuck>>
sessionVars == <<opt, parent, root, base>>
vars == <<fileVars, hostVars, sessionVars, pc, faults, crashes>>

\* The cached image, the user's rootfs and disk, rootfs.ext4 of the bundle;
\* of a session: its temporary file in the cache, its own build in the
\* temporary directory, the temporary copy beside the disk.
Cached == <<"cache", None>>
User == <<"user", None>>
Disk == <<"disk", None>>
Bundle == <<"bundle", None>>
Tmp(s) == <<"tmp", s>>
Own(s) == <<"own", s>>
CopyTmp(s) == <<"copy", s>>
Paths == {Cached, User, Disk, Bundle} \union ({"tmp", "own", "copy"} \X Sessions)

\* The files that earlier sessions left have inodes named after them.  A
\* session creates at most one image and one copy of an image.
ImageOf(s) == <<"image", s>>
CopyOf(s) == <<"copy", s>>
OldInodes == {Cached, User, Disk, Bundle}
Inodes == OldInodes \union ({"image", "copy"} \X Sessions)

\* The mark of a path without a file is no file.
ASSUME NoneAssumption == None \notin Inodes

NoRoot == [path |-> User, fromCache |-> FALSE, persistent |-> FALSE]
Root(path, fromCache, persistent) ==
  [path |-> path, fromCache |-> fromCache, persistent |-> persistent]

\* A fresh host, or one where an image is cached and a disk and a snapshot, a
\* copy or a hard link of the user's rootfs, exist.
Init ==
  /\ \/ fs = [p \in Paths |-> IF p = User THEN User ELSE None] /\ manifest = FALSE
     \/ \E i \in {User, Bundle} :
          /\ fs = [p \in Paths |-> CASE p = Bundle -> i
                                     [] p \in OldInodes \ {Bundle} -> p
                                     [] OTHER -> None]
          /\ manifest = TRUE
  /\ whole = OldInodes /\ writers = [i \in Inodes |-> {}]
  /\ dirs = {} /\ net = {} /\ stuck = {}
  /\ pc = [s \in Sessions |-> "idle"]
  /\ opt = [s \in Sessions |-> None] /\ parent = [s \in Sessions |-> None]
  /\ root = [s \in Sessions |-> NoRoot] /\ base = [s \in Sessions |-> None]
  /\ faults = 0 /\ crashes = 0

Op(s) == opt[s].op
Goto(s, from, to) == pc[s] = from /\ pc' = [pc EXCEPT ![s] = to]
SetRoot(s, r) == root' = [root EXCEPT ![s] = r]

\* A new file at a path, not yet complete.
Create(p, i) ==
  /\ fs' = [fs EXCEPT ![p] = i]
  /\ whole' = whole \ {i}
  /\ writers' = [writers EXCEPT ![i] = {}]

-----------------------------------------------------------------------------
(* The call, and the network.                                               *)

SnapshotOps == {"snapshot", "snapshotOf"}
Active == {s \in Sessions : pc[s] \notin {"idle", "done", "dead"}}

\* A session starts with its temporary directory; boot has none and makes
\* its overlay first.  restoreSnapshot reads the manifest before anything
\* else; a closed sandbox refuses to run.  One createSnapshot at a time: two
\* that write one output directory are not modelled.
Call(s, r) ==
  /\ Goto(s, "idle", CASE r.op \in RunOps -> "net"
                       [] r.op = "boot" -> "overlay"
                       [] OTHER -> "source")
  /\ r.op = "restore" => manifest
  /\ r.op \in SnapshotOps => \A t \in Active : Op(t) \notin SnapshotOps
  /\ opt' = [opt EXCEPT ![s] = r]
  /\ dirs' = IF r.op = "boot" THEN dirs ELSE dirs \union {<<"temp", s>>}
  /\ IF r.op = "template"
     THEN \E t \in Sessions : pc[t] = "ready" /\ parent' = [parent EXCEPT ![s] = t]
     ELSE UNCHANGED parent
  /\ UNCHANGED <<fileVars, net, stuck, root, base, faults, crashes>>

\* setupVmNetwork; when it fails it has undone what it did.
SetupNetwork(s) ==
  /\ Goto(s, "net", IF Op(s) = "boot" THEN "open" ELSE "source")
  /\ net' = net \union {s}
  /\ UNCHANGED <<fileVars, dirs, stuck, sessionVars, faults, crashes>>

-----------------------------------------------------------------------------
(* prepareRunRootDisk and buildOrReuseRootfs.                               *)

\* rootfsPath, the disk of a prepared sandbox or of a snapshot, or an
\* explicit disk that exists.
UseGiven(s) ==
  /\ Goto(s, "source", IF Op(s) = "snapshotOf" THEN "clear" ELSE "overlay")
  /\ \/ /\ Op(s) \in {"rootfs", "restore", "template", "snapshotOf"}
        /\ SetRoot(s, Root(CASE Op(s) = "restore" -> Bundle
                             [] Op(s) = "template" -> Own(parent[s])
                             [] OTHER -> User, FALSE, FALSE))
     \/ /\ Op(s) = "disk" /\ fs[Disk] # None
        /\ SetRoot(s, Root(Disk, FALSE, TRUE))
  /\ UNCHANGED <<fileVars, hostVars, opt, parent, base, faults, crashes>>

\* isCacheableOciRootfs; the disks here are made from an image.
Cacheable(s) == Op(s) = "image" \/ Op(s) \in DiskOps
AfterBase(s) == IF Op(s) \in DiskOps THEN "copy" ELSE "overlay"

\* The disk is to be created, or created again.
NewDisk(s) == Op(s) = "diskReset" \/ (Op(s) = "disk" /\ fs[Disk] = None)

\* The cache is looked up once.
CheckCache(s) ==
  /\ Goto(s, "source", IF fs[Cached] # None THEN AfterBase(s) ELSE "fetch")
  /\ Op(s) = "image" \/ NewDisk(s)
  /\ IF fs[Cached] # None THEN SetRoot(s, Root(Cached, TRUE, FALSE)) ELSE UNCHANGED root
  /\ UNCHANGED <<fileVars, hostVars, opt, parent, base, faults, crashes>>

\* tryFetchPrebuiltRootfs streams into the temporary file and compares the
\* checksums; anything wrong removes the file, and the image is built.
StartFetch(s) ==
  /\ Goto(s, "fetch", "fetching")
  /\ Create(Tmp(s), ImageOf(s))
  /\ UNCHANGED <<manifest, hostVars, sessionVars, faults, crashes>>

EndFetch(s) ==
  /\ \/ Goto(s, "fetching", "install") /\ whole' = whole \union {ImageOf(s)} /\ UNCHANGED fs
     \/ Goto(s, "fetching", "build") /\ fs' = [fs EXCEPT ![Tmp(s)] = None] /\ UNCHANGED whole
  /\ UNCHANGED <<writers, manifest, hostVars, sessionVars, faults, crashes>>

\* No prebuilt image, or what is built is not cacheable.
SkipFetch(s) ==
  /\ \/ Goto(s, "fetch", "build")
     \/ Goto(s, "source", "build") /\ Op(s) \in {"build", "snapshot", "prepare"}
  /\ UNCHANGED <<fileVars, hostVars, sessionVars, faults, crashes>>

BuildOutput(s) == IF Cacheable(s) THEN Tmp(s) ELSE Own(s)

StartBuild(s) ==
  /\ Goto(s, "build", "building")
  /\ Create(BuildOutput(s), ImageOf(s))
  /\ UNCHANGED <<manifest, hostVars, sessionVars, faults, crashes>>

EndBuild(s) ==
  /\ Goto(s, "building", CASE Cacheable(s) -> "install"
                           [] Op(s) = "prepare" -> "ready"
                           [] Op(s) = "snapshot" -> "clear"
                           [] Op(s) = "build" -> "overlay")
  /\ whole' = whole \union {ImageOf(s)}
  /\ IF Cacheable(s) THEN UNCHANGED root ELSE SetRoot(s, Root(Own(s), FALSE, FALSE))
  /\ UNCHANGED <<fs, writers, manifest, hostVars, opt, parent, base, faults, crashes>>

\* Plausible bug: an image this session built is not taken to be the cache's.
InstallAsBuilt(s) ==
  /\ Goto(s, "install", AfterBase(s))
  /\ fs' = [fs EXCEPT ![Cached] = fs[Tmp(s)], ![Tmp(s)] = None]
  /\ SetRoot(s, Root(Cached, FALSE, FALSE))
  /\ UNCHANGED <<whole, writers, manifest, hostVars, opt, parent, base, faults, crashes>>

\* rename(tmp, cached), over what another session installed meanwhile.
Install(s) ==
  /\ Goto(s, "install", AfterBase(s))
  /\ fs' = [fs EXCEPT ![Cached] = fs[Tmp(s)], ![Tmp(s)] = None]
  /\ SetRoot(s, Root(Cached, TRUE, FALSE))
  /\ UNCHANGED <<whole, writers, manifest, hostVars, opt, parent, base, faults, crashes>>

\* materializeExplicitDisk: the disk another session made meanwhile, or
\* copyFile to a temporary file, rm of the disk, rename.
DiskAppeared(s) ==
  /\ Goto(s, "copy", "overlay")
  /\ ~NewDisk(s)
  /\ SetRoot(s, Root(Disk, FALSE, TRUE))
  /\ UNCHANGED <<fileVars, hostVars, opt, parent, base, faults, crashes>>

StartCopy(s) ==
  /\ Goto(s, "copy", "copying")
  /\ NewDisk(s)
  /\ Create(CopyTmp(s), CopyOf(s))
  /\ UNCHANGED <<manifest, hostVars, sessionVars, faults, crashes>>

EndCopy(s) ==
  /\ Goto(s, "copying", "replace")
  /\ whole' = IF fs[Cached] \in whole THEN whole \union {CopyOf(s)} ELSE whole
  /\ UNCHANGED <<fs, writers, manifest, hostVars, sessionVars, faults, crashes>>

RemoveDisk(s) ==
  /\ Goto(s, "replace", "rename")
  /\ fs' = [fs EXCEPT ![Disk] = None]
  /\ UNCHANGED <<whole, writers, manifest, hostVars, sessionVars, faults, crashes>>

RenameDisk(s) ==
  /\ Goto(s, "rename", "overlay")
  /\ fs' = [fs EXCEPT ![Disk] = fs[CopyTmp(s)], ![CopyTmp(s)] = None]
  /\ SetRoot(s, Root(Disk, FALSE, TRUE))
  /\ UNCHANGED <<whole, writers, manifest, hostVars, opt, parent, base, faults, crashes>>

-----------------------------------------------------------------------------
(* The VM.                                                                  *)

NeedsOverlay(s) == opt[s].sandbox \/ (root[s].fromCache /\ ~root[s].persistent)

\* makeOverlayTempDir.
MakeOverlay(s) ==
  /\ Goto(s, "overlay", IF Op(s) = "boot" THEN "net" ELSE "open")
  /\ dirs' = IF NeedsOverlay(s) THEN dirs \union {<<"overlay", s>>} ELSE dirs
  /\ UNCHANGED <<fileVars, net, stuck, sessionVars, faults, crashes>>

\* The backend opens the root disk, read-only when there is an overlay.
Open(s) ==
  /\ fs[root[s].path] # None
  /\ Goto(s, "open", "running")
  /\ base' = [base EXCEPT ![s] = fs[root[s].path]]
  /\ UNCHANGED <<fileVars, hostVars, opt, parent, root, faults, crashes>>

OpenFails(s) ==
  /\ fs[root[s].path] = None
  /\ Goto(s, "open", "cleanNet")
  /\ UNCHANGED <<fileVars, hostVars, sessionVars, faults, crashes>>

\* Without an overlay a guest writes to the file itself.
GuestWrites(s) ==
  /\ base[s] # None /\ ~NeedsOverlay(s)
  /\ writers' = [writers EXCEPT ![base[s]] = @ \union {s}]
  /\ UNCHANGED <<fs, whole, manifest, hostVars, sessionVars, pc, faults, crashes>>

\* The VM ends.  When it wrote to the image itself and said nothing of its
\* command on the console, the result is read from the image.
EndVm(s) ==
  /\ \/ Goto(s, "running", "cleanNet")
     \/ Goto(s, "running", "result") /\ Op(s) \in RunOps /\ ~NeedsOverlay(s)
  /\ base' = [base EXCEPT ![s] = None]
  /\ UNCHANGED <<fileVars, hostVars, opt, parent, root, faults, crashes>>

\* readGuestCommandResult: the mount point is removed whether the mount, the reads
\* and the unmount worked or not, unless its own removal fails; what was thrown
\* goes on to the same cleanup.
ReadResult(s) ==
  /\ Goto(s, "result", "cleanNet")
  /\ \/ UNCHANGED <<dirs, stuck, faults>>
     \/ /\ faults < MaxFaults /\ faults' = faults + 1
        /\ dirs' = dirs \union {<<"result", s>>} /\ stuck' = stuck \union {<<"result", s>>}
  /\ UNCHANGED <<fileVars, net, sessionVars, crashes>>

\* options.signal: the call ends, the VM goes on until it ends by itself.
Abort(s) ==
  /\ Goto(s, "running", "cleanNet")
  /\ UNCHANGED <<fileVars, hostVars, sessionVars, faults, crashes>>

AbortedVmEnds(s) ==
  /\ pc[s] # "running" /\ base[s] # None
  /\ base' = [base EXCEPT ![s] = None]
  /\ UNCHANGED <<fileVars, hostVars, opt, parent, root, pc, faults, crashes>>

-----------------------------------------------------------------------------
(* writeSnapshotBundle.                                                     *)

\* rm of the directory, file by file in any order, and mkdir.
ClearBundle(s) ==
  /\ pc[s] = "clear"
  /\ \/ fs[Bundle] # None /\ fs' = [fs EXCEPT ![Bundle] = None] /\ UNCHANGED <<manifest, pc>>
     \/ manifest /\ manifest' = FALSE /\ UNCHANGED <<fs, pc>>
     \/ fs[Bundle] = None /\ ~manifest /\ Goto(s, "clear", "link") /\ UNCHANGED <<fs, manifest>>
  /\ UNCHANGED <<whole, writers, hostVars, sessionVars, faults, crashes>>

\* hardlinkOrCopy: the bundle shares the file with rootfsPath, or, across file
\* systems, has a copy.
LinkBundle(s) ==
  /\ \/ Goto(s, "link", "manifest") /\ fs' = [fs EXCEPT ![Bundle] = fs[root[s].path]]
        /\ UNCHANGED <<whole, writers>>
     \/ Goto(s, "link", "linking") /\ Create(Bundle, CopyOf(s))
  /\ UNCHANGED <<manifest, hostVars, sessionVars, faults, crashes>>

EndLinkCopy(s) ==
  /\ Goto(s, "linking", "manifest")
  /\ whole' = whole \union {CopyOf(s)}
  /\ UNCHANGED <<fs, writers, manifest, hostVars, sessionVars, faults, crashes>>

WriteManifest(s) ==
  /\ Goto(s, "manifest", "cleanTemp")
  /\ manifest' = TRUE
  /\ UNCHANGED <<fs, whole, writers, hostVars, sessionVars, faults, crashes>>

-----------------------------------------------------------------------------
(* The ends of a session.                                                   *)

FailPoints == {"net", "source", "fetch", "fetching", "build", "building", "install", "copy",
               "copying", "replace", "rename", "overlay", "open", "clear", "link",
               "linking", "manifest"}

\* Plausible bug: the temporary files are not removed.
FailLeavesFiles(s) ==
  /\ pc[s] \in FailPoints /\ faults < MaxFaults
  /\ pc' = [pc EXCEPT ![s] = "cleanNet"]
  /\ faults' = faults + 1
  /\ UNCHANGED <<fileVars, hostVars, sessionVars, crashes>>

\* An exception: the catch blocks remove the temporary files, the finally
\* blocks (cleanup in startVm) do the rest.
Fail(s) ==
  /\ pc[s] \in FailPoints /\ faults < MaxFaults
  /\ pc' = [pc EXCEPT ![s] = "cleanNet"]
  /\ fs' = [fs EXCEPT ![Tmp(s)] = None, ![CopyTmp(s)] = None]
  /\ faults' = faults + 1
  /\ UNCHANGED <<whole, writers, manifest, hostVars, sessionVars, crashes>>

\* PreparedSandbox.close: runs in progress keep what they have open.
Close(s) ==
  /\ Goto(s, "ready", "cleanTemp")
  /\ UNCHANGED <<fileVars, hostVars, sessionVars, faults, crashes>>

\* cleanupBestEffort: a step that throws does not keep the next from running.
CleanNet(s) ==
  /\ Goto(s, "cleanNet", "cleanOverlay")
  /\ \/ net' = net \ {s} /\ UNCHANGED <<stuck, faults>>
     \/ s \in net /\ faults < MaxFaults /\ faults' = faults + 1
        /\ stuck' = stuck \union {<<"net", s>>} /\ UNCHANGED net
  /\ UNCHANGED <<fileVars, dirs, sessionVars, crashes>>

\* removePath of one of the session's directories, unless it is to be kept.
\* The runs of a prepared sandbox have keepRootfs: true, whatever their user asks.
KeepsTemp(s) == "rootfs" \in opt[s].keep \/ Op(s) = "template"

RemoveDir(s, what, keep) ==
  \/ keep /\ UNCHANGED <<dirs, stuck, faults>>
  \/ ~keep /\ dirs' = dirs \ {<<what, s>>} /\ UNCHANGED <<stuck, faults>>
  \/ ~keep /\ <<what, s>> \in dirs /\ faults < MaxFaults /\ faults' = faults + 1
     /\ stuck' = stuck \union {<<what, s>>} /\ UNCHANGED dirs

CleanOverlay(s) ==
  /\ Goto(s, "cleanOverlay", "cleanTemp")
  /\ RemoveDir(s, "overlay", "overlay" \in opt[s].keep)
  /\ UNCHANGED <<fileVars, net, sessionVars, crashes>>

CleanTemp(s) ==
  /\ Goto(s, "cleanTemp", "done")
  /\ RemoveDir(s, "temp", KeepsTemp(s))
  /\ fs' = IF <<"temp", s>> \in dirs' THEN fs ELSE [fs EXCEPT ![Own(s)] = None]
  /\ UNCHANGED <<whole, writers, manifest, net, sessionVars, crashes>>

\* The process dies, with the sandbox a run belongs to and the sandbox's runs.
Process(s) ==
  LET owner == IF parent[s] = None THEN s ELSE parent[s]
  IN {t \in Sessions : t = owner \/ parent[t] = owner}

Crash(s) ==
  /\ s \in Active /\ crashes < MaxCrashes
  /\ pc' = [t \in Sessions |-> IF t \in Process(s) /\ pc[t] # "done" THEN "dead" ELSE pc[t]]
  /\ base' = [t \in Sessions |-> IF t \in Process(s) THEN None ELSE base[t]]
  /\ crashes' = crashes + 1
  /\ UNCHANGED <<fileVars, hostVars, opt, parent, root, faults>>

Prepare(s) ==
  \/ SetupNetwork(s) \/ UseGiven(s) \/ CheckCache(s) \/ StartFetch(s) \/ EndFetch(s)
  \/ SkipFetch(s) \/ StartBuild(s) \/ EndBuild(s) \/ Install(s)
  \/ DiskAppeared(s) \/ StartCopy(s) \/ EndCopy(s) \/ RemoveDisk(s) \/ RenameDisk(s)
RunVm(s) ==
  \/ MakeOverlay(s) \/ Open(s) \/ OpenFails(s) \/ GuestWrites(s)
  \/ EndVm(s) \/ ReadResult(s) \/ Abort(s) \/ AbortedVmEnds(s)
Snapshot(s) == ClearBundle(s) \/ LinkBundle(s) \/ EndLinkCopy(s) \/ WriteManifest(s)
Finish(s) == Fail(s) \/ Close(s) \/ CleanNet(s) \/ CleanOverlay(s) \/ CleanTemp(s) \/ Crash(s)

Next ==
  \E s \in Sessions :
    \/ \E r \in Requests : Call(s, r)
    \/ Prepare(s) \/ RunVm(s) \/ Snapshot(s) \/ Finish(s)

Spec == Init /\ [][Next]_vars

-----------------------------------------------------------------------------
(* Properties.                                                              *)

Steps == {"idle", "running", "result", "ready", "cleanNet", "cleanOverlay", "cleanTemp",
          "done", "dead"} \union FailPoints

TypeOK ==
  /\ fs \in [Paths -> Inodes \union {None}]
  /\ whole \subseteq Inodes /\ writers \in [Inodes -> SUBSET Sessions] /\ manifest \in BOOLEAN
  /\ dirs \subseteq ({"temp", "overlay", "result"} \X Sessions) /\ net \subseteq Sessions
  /\ stuck \subseteq ({"temp", "overlay", "result", "net"} \X Sessions)
  /\ pc \in [Sessions -> Steps] /\ opt \in [Sessions -> Requests \union {None}]
  /\ parent \in [Sessions -> Sessions \union {None}]
  /\ root \in [Sessions -> [path : Paths, fromCache : BOOLEAN, persistent : BOOLEAN]]
  /\ base \in [Sessions -> Inodes \union {None}]
  /\ faults \in 0..MaxFaults /\ crashes \in 0..MaxCrashes

\* No guest boots an image that is still being downloaded, built or copied,
\* or that a session that failed or died left unfinished: an image gets its
\* name by rename.  Restores are left out: a bundle that is created again
\* while it is restored is opened as it is.
WholeImages ==
  \A s \in Sessions : base[s] # None /\ Op(s) # "restore" => base[s] \in whole

\* Images that others boot are written only where the user asked for it: never
\* the cached image; the image of a prepared sandbox by runs of it with
\* sandbox: false; a snapshot by runs of the very file it was made from, with
\* which it shares an inode.
SharedImagesClean ==
  /\ fs[Cached] # None => writers[fs[Cached]] = {}
  /\ \A t \in Sessions : pc[t] = "ready" =>
       \A s \in writers[ImageOf(t)] : parent[s] = t /\ ~opt[s].sandbox
  /\ fs[Bundle] # None => \A s \in writers[fs[Bundle]] :
       fs[Bundle] = User /\ Op(s) \in {"rootfs", "boot"} /\ ~opt[s].sandbox

\* What is found under a manifest is a whole image, after any failure or death
\* of a process that wrote or replaced the bundle.
BundleWhole == manifest /\ fs[Bundle] # None => fs[Bundle] \in whole

\* A session that ended, in whatever way but the death of its process, leaves
\* no network, no overlay, no temporary directory, no mount point and no
\* temporary file, except what the user wants to keep and what could not be
\* removed.  The temporary directory of a run of a prepared sandbox is excepted:
\* it stays although nobody asked for it, see TempCleaned.
NothingLeft ==
  \A s \in Sessions : pc[s] = "done" =>
    /\ s \in net => <<"net", s>> \in stuck
    /\ <<"overlay", s>> \in dirs => <<"overlay", s>> \in stuck \/ "overlay" \in opt[s].keep
    /\ <<"temp", s>> \in dirs /\ Op(s) # "template" =>
         <<"temp", s>> \in stuck \/ "rootfs" \in opt[s].keep
    /\ <<"result", s>> \in dirs => <<"result", s>> \in stuck
    /\ fs[Tmp(s)] = None /\ fs[CopyTmp(s)] = None
    /\ fs[Own(s)] # None => <<"temp", s>> \in dirs

\* docs/sdk.md: the API "cleans temporary rootfs/cache artifacts it owns": the
\* temporary directory of a call that ended is gone unless its removal failed or
\* its user wants to keep it.
TempCleaned ==
  \A s \in Sessions : pc[s] = "done" /\ <<"temp", s>> \in dirs =>
    <<"temp", s>> \in stuck \/ "rootfs" \in opt[s].keep

\* A VM never sees an unfinished image or another session's writes, whoever
\* builds, installs, replaces or removes images at the same time.
ImagesSound == TypeOK /\ WholeImages /\ SharedImagesClean

\* A bundle with a manifest is complete, and a session that has ended left
\* nothing behind but what NothingLeft excepts.
SessionsEndClean == BundleWhole /\ NothingLeft
=============================================================================
