--------------------------- MODULE PersistentDisk ---------------------------
(***************************************************************************)
(* Named persistent root disks: src/disk.ts, materializePersistentDisk.     *)
(*                                                                         *)
(* cacheDir/disks holds NAME.ext4 and NAME.json.  A call copies the base    *)
(* rootfs to a temporary file, resizes it and swaps the pair in with four   *)
(* renames; an I/O error rolls the swap back; the process may also die      *)
(* between any two file operations.  One action is one file operation.      *)
(* The calls of one name are sequential here: node-vmm takes no lock.       *)
(***************************************************************************)
EXTENDS Integers, FiniteSets

CONSTANTS
  Sources,     \* the values of rootDiskSourceKey
  Sizes,       \* disk sizes, in MiB
  NoFile,      \* the content of a path where there is no file
  MaxCalls,    \* bound: calls of materializePersistentDisk
  MaxWrites,   \* bound: guest runs that write to the disk
  MaxDiskFaults,   \* bound: file operations that fail
  MaxDiskCrashes   \* bound: deaths of the process

ASSUME SizesAssumption == Sources # {} /\ Sizes # {} /\ Sizes \subseteq Nat \ {0}
ASSUME DiskBoundsAssumption ==
  MaxCalls \in Nat /\ MaxWrites \in Nat /\ MaxDiskFaults \in Nat /\ MaxDiskCrashes \in Nat

VARIABLES
  disk, meta,          \* diskPath and metaPath
  tmpDisk, tmpMeta,    \* the temporary files of the call in progress
  bakDisk, bakMeta,    \* its backup files
  litter,              \* backups of disks that no call in progress owns
  diskPc,
  diskOpt,                 \* the options of the last call
  diskExists, seenMeta,\* what the call read at its start
  createdResized,
  targetsCleared,
  outcome,             \* how the last call ended
  calls, writes, diskFaults, diskCrashes,
  before,              \* history: the pair when the call began
  overlooked,          \* history: disk contents a failing access() made the
                       \* code take for absent, and no reset asks to replace
  precious             \* history: disk contents written by a guest and not
                       \* replaced at the user's request

pair == <<disk, meta>>
files == <<disk, meta, tmpDisk, tmpMeta, bakDisk, bakMeta, litter>>
locals == <<diskOpt, diskExists, seenMeta, createdResized, targetsCleared>>
counters == <<calls, writes, diskFaults, diskCrashes>>
diskVars == <<files, diskPc, locals, outcome, counters, before, overlooked, precious>>

Disks == [src : Sources, size : Sizes, data : 0..MaxWrites]  \* data 0: nothing written
Metas == [src : Sources, size : Sizes]
Options == [src : Sources, size : Sizes, reset : BOOLEAN]

ASSUME NoFileAssumption == NoFile \notin Disks \union Metas

DiskInit ==
  /\ disk = NoFile /\ meta = NoFile /\ tmpDisk = NoFile /\ tmpMeta = NoFile
  /\ bakDisk = NoFile /\ bakMeta = NoFile /\ litter = {}
  /\ diskPc = "idle" /\ diskOpt = (CHOOSE o \in Options : TRUE) /\ outcome = "none"
  /\ diskExists = FALSE /\ seenMeta = NoFile
  /\ createdResized = FALSE /\ targetsCleared = FALSE
  /\ calls = 0 /\ writes = 0 /\ diskFaults = 0 /\ diskCrashes = 0
  /\ before = <<NoFile, NoFile>> /\ overlooked = {} /\ precious = {}

DiskGoto(from, to) == diskPc = from /\ diskPc' = to

\* The call ends; the backups it leaves behind stay on the file system.
End(how) ==
  /\ diskPc' = "idle" /\ outcome' = how
  /\ litter' = litter \union ({bakDisk} \ {NoFile})
  /\ tmpDisk' = NoFile /\ tmpMeta' = NoFile /\ bakDisk' = NoFile /\ bakMeta' = NoFile

-----------------------------------------------------------------------------
(* materializePersistentDisk up to the copy.                                *)

DiskCall(o) ==
  /\ calls < MaxCalls
  /\ DiskGoto("idle", "exists")
  /\ diskOpt' = o /\ calls' = calls + 1 /\ before' = pair /\ outcome' = "none"
  /\ diskExists' = FALSE /\ seenMeta' = NoFile
  /\ createdResized' = FALSE /\ targetsCleared' = FALSE
  /\ UNCHANGED <<files, writes, diskFaults, diskCrashes, overlooked, precious>>

\* pathExists of NAME.ext4: an access() that fails for whatever reason counts as
\* no file.
Overlook == overlooked' = overlooked \union {disk.data}

CheckExists ==
  /\ DiskGoto("exists", "read")
  /\ \/ diskExists' = (disk # NoFile) /\ UNCHANGED <<diskFaults, overlooked>>
     \/ /\ disk # NoFile /\ diskFaults < MaxDiskFaults /\ diskFaults' = diskFaults + 1
        /\ diskExists' = FALSE
        /\ IF diskOpt.reset THEN UNCHANGED overlooked ELSE Overlook
  /\ UNCHANGED <<files, diskOpt, seenMeta, createdResized, targetsCleared, outcome,
                 calls, writes, diskCrashes, before, precious>>

\* readPersistentMetadata: any error counts as no metadata.
ReadMetadata ==
  /\ DiskGoto("read", "decide")
  /\ \/ seenMeta' = meta /\ UNCHANGED diskFaults
     \/ diskFaults < MaxDiskFaults /\ seenMeta' = NoFile /\ diskFaults' = diskFaults + 1
  /\ UNCHANGED <<files, diskOpt, diskExists, createdResized, targetsCleared, outcome,
                 calls, writes, diskCrashes, before, overlooked, precious>>

RefuseNoMetadata ==
  /\ diskPc = "decide" /\ diskExists /\ seenMeta = NoFile
  /\ End("noMetadata")
  /\ UNCHANGED <<pair, locals, counters, before, overlooked, precious>>

RefuseOtherSource ==
  /\ diskPc = "decide" /\ diskExists /\ seenMeta # NoFile
  /\ seenMeta.src # diskOpt.src /\ ~diskOpt.reset
  /\ End("otherSource")
  /\ UNCHANGED <<pair, locals, counters, before, overlooked, precious>>

\* Reuse the disk, or go on to create it.
Accept ==
  /\ DiskGoto("decide", IF ~diskExists \/ diskOpt.reset THEN "copy" ELSE "grow")
  /\ diskExists => seenMeta # NoFile /\ (seenMeta.src = diskOpt.src \/ diskOpt.reset)
  /\ UNCHANGED <<files, locals, outcome, counters, before, overlooked, precious>>

\* copyFile of the base rootfs, whose size is whatever it was built with.
CopyBase ==
  /\ DiskGoto("copy", "growTmp")
  /\ \E s \in Sizes : tmpDisk' = [src |-> diskOpt.src, size |-> s, data |-> 0]
  /\ UNCHANGED <<pair, tmpMeta, bakDisk, bakMeta, litter, locals, outcome, counters,
                 before, overlooked, precious>>

\* ensureDiskSizeAtLeast: grow, leave alone, or refuse to shrink.
Grown(file) == [file EXCEPT !.size = diskOpt.size]

EnsureTmpSize ==
  /\ DiskGoto("growTmp", "writeTmpMeta")
  /\ tmpDisk.size <= diskOpt.size
  /\ tmpDisk' = Grown(tmpDisk)
  /\ createdResized' = (tmpDisk.size < diskOpt.size)
  /\ UNCHANGED <<pair, tmpMeta, bakDisk, bakMeta, litter, diskOpt, diskExists, seenMeta,
                 targetsCleared, outcome, counters, before, overlooked, precious>>

RefuseShrinkTmp ==
  /\ diskPc = "growTmp" /\ tmpDisk.size > diskOpt.size
  /\ End("shrink")
  /\ UNCHANGED <<pair, locals, counters, before, overlooked, precious>>

-----------------------------------------------------------------------------
(* installPersistentDiskPair.                                               *)

WriteTmpMeta ==
  /\ DiskGoto("writeTmpMeta", "backupDisk")
  /\ tmpMeta' = [src |-> diskOpt.src, size |-> diskOpt.size]
  /\ UNCHANGED <<pair, tmpDisk, bakDisk, bakMeta, litter, locals, outcome, counters,
                 before, overlooked, precious>>

\* A file that pathExists overlooks stays where it is, with no backup: the next
\* rename replaces it.
BackupDisk ==
  /\ DiskGoto("backupDisk", "backupMeta")
  /\ \/ bakDisk' = disk /\ disk' = NoFile /\ UNCHANGED <<diskFaults, overlooked>>
     \/ /\ disk # NoFile /\ diskFaults < MaxDiskFaults /\ diskFaults' = diskFaults + 1
        /\ Overlook /\ UNCHANGED <<disk, bakDisk>>
  /\ UNCHANGED <<meta, tmpDisk, tmpMeta, bakMeta, litter, locals, outcome, calls, writes,
                 diskCrashes, before, precious>>

BackupMeta ==
  /\ DiskGoto("backupMeta", "installDisk")
  /\ \/ bakMeta' = meta /\ meta' = NoFile /\ UNCHANGED diskFaults
     \/ /\ meta # NoFile /\ diskFaults < MaxDiskFaults /\ diskFaults' = diskFaults + 1
        /\ UNCHANGED <<meta, bakMeta>>
  /\ targetsCleared' = TRUE
  /\ UNCHANGED <<disk, tmpDisk, tmpMeta, bakDisk, litter, diskOpt, diskExists, seenMeta,
                 createdResized, outcome, calls, writes, diskCrashes, before, overlooked,
                 precious>>

InstallDisk ==
  /\ DiskGoto("installDisk", "installMeta")
  /\ disk' = tmpDisk /\ tmpDisk' = NoFile
  /\ UNCHANGED <<meta, tmpMeta, bakDisk, bakMeta, litter, locals, outcome, counters,
                 before, overlooked, precious>>

\* From here on the replacement the user asked for is complete.
InstallMeta ==
  /\ DiskGoto("installMeta", "removeBackups")
  /\ meta' = tmpMeta /\ tmpMeta' = NoFile
  /\ precious' = IF diskOpt.reset /\ bakDisk # NoFile THEN precious \ {bakDisk.data} ELSE precious
  /\ UNCHANGED <<disk, tmpDisk, bakDisk, bakMeta, litter, locals, outcome, counters, before, overlooked>>

\* rm of the backups; its errors are ignored and leave the files behind.
RemoveBackups ==
  /\ DiskGoto("removeBackups", "grow")
  /\ \/ litter' = litter /\ UNCHANGED diskFaults
     \/ /\ diskFaults < MaxDiskFaults /\ bakDisk # NoFile
        /\ litter' = litter \union {bakDisk} /\ diskFaults' = diskFaults + 1
  /\ bakDisk' = NoFile /\ bakMeta' = NoFile
  /\ UNCHANGED <<pair, tmpDisk, tmpMeta, locals, outcome, calls, writes, diskCrashes,
                 before, overlooked, precious>>

-----------------------------------------------------------------------------
(* After the swap, or when the disk is reused.                              *)

\* Plausible bug: the size is set whatever the disk has now.
EnsureSizeShrinks ==
  /\ diskPc = "grow"
  /\ disk' = Grown(disk)
  /\ diskPc' = "writeMeta"
  /\ UNCHANGED <<meta, tmpDisk, tmpMeta, bakDisk, bakMeta, litter, locals, outcome,
                 counters, before, overlooked, precious>>

EnsureSize ==
  /\ diskPc = "grow" /\ disk.size <= diskOpt.size
  /\ disk' = Grown(disk)
  /\ diskPc' = IF \/ disk.size < diskOpt.size \/ createdResized
                  \/ seenMeta # NoFile /\ seenMeta.size # diskOpt.size
           THEN "writeMeta" ELSE "ready"
  /\ UNCHANGED <<meta, tmpDisk, tmpMeta, bakDisk, bakMeta, litter, locals, outcome,
                 counters, before, overlooked, precious>>

RefuseShrink ==
  /\ diskPc = "grow" /\ disk.size > diskOpt.size
  /\ End("shrink")
  /\ UNCHANGED <<pair, locals, counters, before, overlooked, precious>>

\* writePersistentMetadataAtomic of the metadata read at the start of the
\* call, with the new size.
RewriteMetadata ==
  /\ DiskGoto("writeMeta", "ready")
  /\ meta' = IF seenMeta = NoFile THEN [src |-> diskOpt.src, size |-> diskOpt.size]
             ELSE [seenMeta EXCEPT !.size = diskOpt.size]
  /\ UNCHANGED <<disk, tmpDisk, tmpMeta, bakDisk, bakMeta, litter, locals, outcome,
                 counters, before, overlooked, precious>>

Return ==
  /\ diskPc = "ready"
  /\ End("ok")
  /\ UNCHANGED <<pair, locals, counters, before, overlooked, precious>>

-----------------------------------------------------------------------------
(* Errors.                                                                  *)

\* The copy or the resize fails: the temporary disk is removed.  After the
\* swap there is nothing to roll back.
FailOutsideSwap ==
  /\ diskFaults < MaxDiskFaults /\ diskFaults' = diskFaults + 1
  /\ diskPc \in {"copy", "growTmp", "grow", "writeMeta"}
  /\ End("failed")
  /\ UNCHANGED <<pair, locals, calls, writes, diskCrashes, before, overlooked, precious>>

\* A file operation of the swap fails: into the catch block.
FailInSwap ==
  /\ diskFaults < MaxDiskFaults /\ diskFaults' = diskFaults + 1
  /\ diskPc \in {"writeTmpMeta", "backupDisk", "backupMeta", "installDisk", "installMeta"}
  /\ diskPc' = "clearTargets"
  /\ UNCHANGED <<files, locals, outcome, calls, writes, diskCrashes, before, overlooked, precious>>

\* A file operation of the catch block, done unless it fails; every error is
\* ignored.
Attempt(done, skipped) ==
  \/ done /\ UNCHANGED diskFaults
  \/ diskFaults < MaxDiskFaults /\ skipped /\ diskFaults' = diskFaults + 1

ClearDisk ==
  /\ DiskGoto("clearTargets", "clearMeta")
  /\ Attempt(disk' = IF targetsCleared THEN NoFile ELSE disk, UNCHANGED disk)
  /\ UNCHANGED <<meta, tmpDisk, tmpMeta, bakDisk, bakMeta, litter, locals, outcome,
                 calls, writes, diskCrashes, before, overlooked, precious>>

ClearMeta ==
  /\ DiskGoto("clearMeta", "restoreDisk")
  /\ Attempt(meta' = IF targetsCleared THEN NoFile ELSE meta, UNCHANGED meta)
  /\ UNCHANGED <<disk, tmpDisk, tmpMeta, bakDisk, bakMeta, litter, locals, outcome,
                 calls, writes, diskCrashes, before, overlooked, precious>>

RestoreDisk ==
  /\ DiskGoto("restoreDisk", "restoreMeta")
  /\ Attempt(IF bakDisk = NoFile THEN UNCHANGED <<disk, bakDisk>>
             ELSE disk' = bakDisk /\ bakDisk' = NoFile,
             UNCHANGED <<disk, bakDisk>>)
  /\ UNCHANGED <<meta, tmpDisk, tmpMeta, bakMeta, litter, locals, outcome,
                 calls, writes, diskCrashes, before, overlooked, precious>>

\* Plausible bug: the backup of the metadata is forgotten.
RestoreMetaForgotten ==
  /\ diskPc = "restoreMeta"
  /\ UNCHANGED <<meta, diskFaults>>
  /\ End("rolledBack")
  /\ UNCHANGED <<disk, locals, calls, writes, diskCrashes, before, overlooked, precious>>

RestoreMeta ==
  /\ diskPc = "restoreMeta"
  /\ Attempt(meta' = IF bakMeta = NoFile THEN meta ELSE bakMeta, UNCHANGED meta)
  /\ End("rolledBack")
  /\ UNCHANGED <<disk, locals, calls, writes, diskCrashes, before, overlooked, precious>>

\* The process dies.
DiskCrash ==
  /\ diskCrashes < MaxDiskCrashes /\ diskCrashes' = diskCrashes + 1
  /\ diskPc # "idle"
  /\ End("crashed")
  /\ UNCHANGED <<pair, locals, calls, writes, diskFaults, before, overlooked, precious>>

\* The call returned and the VM runs: the guest changes what is on its disk.
GuestWritesDisk ==
  /\ diskPc = "idle" /\ outcome = "ok" /\ writes < MaxWrites
  /\ writes' = writes + 1
  /\ disk' = [disk EXCEPT !.data = writes + 1]
  /\ precious' = (precious \ {disk.data}) \union {writes + 1}
  /\ UNCHANGED <<meta, tmpDisk, tmpMeta, bakDisk, bakMeta, litter, diskPc, locals, outcome,
                 calls, diskFaults, diskCrashes, before, overlooked>>

-----------------------------------------------------------------------------

Swap ==
  \/ WriteTmpMeta \/ BackupDisk \/ BackupMeta \/ InstallDisk \/ InstallMeta \/ RemoveBackups

Rollback == ClearDisk \/ ClearMeta \/ RestoreDisk \/ RestoreMeta

DiskNext ==
  \/ \E o \in Options : DiskCall(o)
  \/ CheckExists \/ ReadMetadata \/ RefuseNoMetadata \/ RefuseOtherSource \/ Accept
  \/ CopyBase \/ EnsureTmpSize \/ RefuseShrinkTmp
  \/ Swap
  \/ EnsureSize \/ RefuseShrink \/ RewriteMetadata \/ Return
  \/ FailOutsideSwap \/ FailInSwap \/ Rollback
  \/ DiskCrash \/ GuestWritesDisk

DiskSpec == DiskInit /\ [][DiskNext]_diskVars

-----------------------------------------------------------------------------
(* Properties.                                                              *)

DiskTypeOK ==
  /\ {disk, tmpDisk, bakDisk} \subseteq Disks \union {NoFile}
  /\ {meta, tmpMeta, bakMeta, seenMeta} \subseteq Metas \union {NoFile}
  /\ litter \subseteq Disks
  /\ diskOpt \in Options
  /\ diskExists \in BOOLEAN /\ createdResized \in BOOLEAN /\ targetsCleared \in BOOLEAN
  /\ precious \subseteq 1..MaxWrites /\ overlooked \subseteq 0..MaxWrites

\* What a guest wrote stays in NAME.ext4 or in a backup file until a reset the
\* user asked for has completed, whatever else fails and wherever the process
\* dies.  A disk that pathExists overlooked, because access() failed, is not
\* covered: without a reset it is replaced by a new disk and its backup removed,
\* and with one it is replaced with no backup that a later failure could restore.
DataSafe ==
  \A d \in precious \ overlooked :
    \E f \in {disk, bakDisk} \union litter : f # NoFile /\ f.data = d

\* A swap that failed, and whose rollback did not (one operation failed in
\* all), leaves the pair of files the call found, which an earlier death may
\* have left incomplete.
RollsBack == diskPc = "idle" /\ outcome = "rolledBack" /\ diskFaults = 1 => pair = before

\* A call that returns leaves a disk and metadata of the size it was asked for.
ReadyDisk ==
  diskPc = "idle" /\ outcome = "ok" =>
    /\ disk # NoFile /\ disk.size = diskOpt.size
    /\ meta # NoFile /\ meta.size = diskOpt.size

\* docs: "Existing persistent root disks can grow but cannot shrink": a disk
\* that keeps its content never loses blocks.
NeverShrinks ==
  [][disk # NoFile /\ disk' # NoFile /\ disk.data # 0 /\ disk'.data = disk.data
       => disk'.size >= disk.size]_diskVars

\* README: "A named persistent disk remembers the source it came from": the
\* metadata between two calls names the source of the disk beside it.
SourceRemembered ==
  diskPc = "idle" /\ disk # NoFile /\ meta # NoFile => meta.src = disk.src

\* A named disk survives every failure but that of the test whether it exists:
\* what a guest wrote stays, a call that returns gave what was asked for, and
\* one whose only failure it rolled back leaves the pair it found.
DiskKept == DiskTypeOK /\ DataSafe /\ ReadyDisk /\ RollsBack
=============================================================================
