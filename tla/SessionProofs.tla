--------------------------- MODULE SessionProofs ----------------------------
(***************************************************************************)
(* Proofs about what the host keeps on disk between the runs of VMs: named *)
(* disks, the images and directories of the pipelines, and RAM snapshots.  *)
(***************************************************************************)
EXTENDS PersistentDisk, VmSession, RamSnapshot, DataInduction, TLAPS

-----------------------------------------------------------------------------
(***************************************************************************)
(* Proofs about the named persistent disks, for every set of sources and    *)
(* sizes and any number of calls, guest runs, failing file operations and   *)
(* deaths of the process.                                                   *)
(*                                                                         *)
(* DiskKept is not inductive: it says nothing while a call is under way.    *)
(* The invariant adds, for every place between two file operations, which   *)
(* of the four files hold what the call found, and which hold what it made. *)
(***************************************************************************)

PreSwapPcs  == {"exists", "read", "decide", "copy", "growTmp", "writeTmpMeta", "backupDisk"}
CreatePcs   == {"copy", "growTmp", "writeTmpMeta", "backupDisk"}
AfterPcs    == {"grow", "writeMeta", "ready"}
RollbackPcs == {"clearTargets", "clearMeta", "restoreDisk", "restoreMeta"}
DiskPcs     == {"idle", "backupMeta", "installDisk", "installMeta", "removeBackups"}
                 \cup PreSwapPcs \cup AfterPcs \cup RollbackPcs

MaybeDisk == Disks \cup {NoFile}
MaybeMeta == Metas \cup {NoFile}

\* The types, of the counters too.
Typed ==
  /\ disk \in MaybeDisk /\ tmpDisk \in MaybeDisk /\ bakDisk \in MaybeDisk
  /\ meta \in MaybeMeta /\ tmpMeta \in MaybeMeta /\ bakMeta \in MaybeMeta /\ seenMeta \in MaybeMeta
  /\ litter \subseteq Disks /\ diskOpt \in Options
  /\ diskExists \in BOOLEAN /\ createdResized \in BOOLEAN /\ targetsCleared \in BOOLEAN
  /\ precious \subseteq 1..MaxWrites /\ overlooked \subseteq 0..MaxWrites /\ writes \in 0..MaxWrites /\ diskFaults \in Nat
  /\ diskPc \in DiskPcs /\ before \in MaybeDisk \X MaybeMeta

\* A file the guest cannot have written to.
Blank(f) == f = NoFile \/ f.data = 0

\* A file that holds nothing that must be kept.
Given(f) == f = NoFile \/ f.data \in overlooked

\* One of the two files of a pair is what the call found, the other is absent.
Held(current, backup, was) ==
  (backup = NoFile /\ current = was) \/ (backup = was /\ current = NoFile)

\* Before the swap the call has only read.
BeforeSwap ==
  /\ diskPc \in PreSwapPcs =>
       /\ disk = before[1] /\ meta = before[2] /\ ~targetsCleared
       /\ bakDisk = NoFile /\ bakMeta = NoFile
  /\ diskPc \in {"idle"} \cup AfterPcs => bakDisk = NoFile /\ bakMeta = NoFile
  /\ diskPc \in {"read", "decide"} =>
       /\ diskExists => disk # NoFile
       /\ ~diskExists => Given(disk) \/ diskOpt.reset
  /\ diskPc = "decide" => seenMeta \in {meta, NoFile}
  /\ diskPc \in CreatePcs => Given(disk) \/ diskOpt.reset

\* The new files, and what the swap has moved so far.  What access() overlooked
\* was not moved; that is a failure of its own.
DuringSwap ==
  /\ diskPc \in {"growTmp", "writeTmpMeta", "backupDisk", "backupMeta", "installDisk"} =>
       tmpDisk # NoFile /\ tmpDisk.data = 0
  /\ diskPc \in {"backupDisk", "backupMeta", "installDisk", "installMeta"} =>
       tmpMeta # NoFile /\ tmpMeta.size = diskOpt.size
  /\ diskPc \in {"backupMeta", "installDisk", "installMeta", "removeBackups"} =>
       Given(bakDisk) \/ diskOpt.reset
  /\ diskPc = "backupMeta" =>
       /\ bakMeta = NoFile /\ meta = before[2] /\ ~targetsCleared
       /\ diskFaults = 0 => disk = NoFile /\ bakDisk = before[1]
  /\ diskPc \in {"installDisk", "installMeta"} =>
       /\ targetsCleared
       /\ diskFaults = 0 => bakDisk = before[1] /\ bakMeta = before[2] /\ meta = NoFile
  /\ diskPc \in {"backupMeta", "installDisk"} =>
       Given(disk) /\ (bakDisk # NoFile => disk = NoFile)
  /\ diskPc = "installDisk" /\ diskFaults = 0 => disk = NoFile
  /\ diskPc \in {"installMeta", "removeBackups"} => disk # NoFile /\ disk.data = 0
  /\ diskPc = "removeBackups" =>
       /\ meta # NoFile /\ meta.size = diskOpt.size
       /\ bakDisk # NoFile => bakDisk.data \notin precious \ overlooked

\* After the swap, or when the disk is reused.
AfterSwap ==
  /\ diskPc = "grow" =>
       /\ disk # NoFile /\ meta # NoFile
       /\ meta.size = diskOpt.size \/ meta = seenMeta
  /\ diskPc = "writeMeta" => disk # NoFile /\ disk.size = diskOpt.size
  /\ diskPc = "ready" =>
       /\ disk # NoFile /\ disk.size = diskOpt.size
       /\ meta # NoFile /\ meta.size = diskOpt.size

\* In the catch block: nothing that must be kept is in the way of a backup, and
\* as long as nothing else failed the pair the call found is still there.
InRollback ==
  /\ diskPc \in RollbackPcs => diskFaults >= 1
  /\ diskPc \in {"clearTargets", "clearMeta", "restoreDisk"} =>
       /\ bakDisk # NoFile => Blank(disk)
       /\ diskFaults = 1 => Held(meta, bakMeta, before[2]) /\ (targetsCleared => meta = NoFile)
  /\ diskPc = "clearTargets" =>
       IF targetsCleared
       THEN (Blank(disk) \/ Given(disk)) /\ (diskFaults = 1 => Blank(disk) /\ bakDisk = before[1])
       ELSE diskFaults = 1 => Held(disk, bakDisk, before[1])
  /\ diskPc \in {"clearMeta", "restoreDisk"} /\ diskFaults = 1 => Held(disk, bakDisk, before[1])
  /\ diskPc = "restoreMeta" /\ diskFaults = 1 =>
       disk = before[1] /\ Held(meta, bakMeta, before[2])

Places == Typed /\ BeforeSwap /\ DuringSwap /\ AfterSwap /\ InRollback
            /\ ReadyDisk /\ RollsBack

DiskIInv == Places /\ DataSafe

-----------------------------------------------------------------------------
(* The data.                                                                *)

\* The files that may hold what a guest wrote.
HeldFiles == ({disk, bakDisk} \cup litter) \ {NoFile}

\* Nothing is lost when every file that holds something precious still has a
\* file with the same data.
LEMMA DataKept ==
  ASSUME DataSafe, precious' \subseteq precious, overlooked \subseteq overlooked',
         \A f \in HeldFiles : f.data \in precious' \ overlooked' => \E g \in HeldFiles' : g.data = f.data
  PROVE DataSafe'
  BY DEF DataSafe, HeldFiles

-----------------------------------------------------------------------------
(* One file operation.                                                      *)

\* Every file operation, every error and every death leads from one place of the
\* swap to the next, with the files where the invariant says they are.
LEMMA PlacesStep == ASSUME Places, [DiskNext]_diskVars PROVE Places'
<1> USE NoFileAssumption, SizesAssumption, DiskBoundsAssumption
        DEF Places, Typed, BeforeSwap, DuringSwap, AfterSwap, InRollback, ReadyDisk, RollsBack,
            PreSwapPcs, CreatePcs, AfterPcs, RollbackPcs, DiskPcs, MaybeDisk, MaybeMeta, Disks,
            Metas, Options, Blank, Given, Held, DiskGoto, End, Attempt, Grown,
            pair, files, locals, counters
<1>1. ASSUME NEW o \in Options, DiskCall(o) PROVE Places'
  BY <1>1 DEF DiskCall
<1>0. ASSUME Overlook, disk \in Disks
      PROVE  overlooked' \subseteq 0..MaxWrites /\ disk.data \in overlooked' /\ overlooked \subseteq overlooked'
  BY <1>0 DEF Overlook
<1>2. CASE CheckExists
  <2>0. /\ diskPc = "exists" /\ diskPc' = "read"
        /\ UNCHANGED <<disk, meta, tmpDisk, tmpMeta, bakDisk, bakMeta, litter, diskOpt, seenMeta>>
        /\ UNCHANGED <<createdResized, targetsCleared, outcome, writes, before, precious>>
    BY <1>2 DEF CheckExists
  <2>1. CASE diskExists' = (disk # NoFile) /\ UNCHANGED <<diskFaults, overlooked>>
    BY <1>2, <2>1 DEF CheckExists
  <2>2. CASE /\ disk # NoFile /\ diskFaults' = diskFaults + 1 /\ diskExists' = FALSE
             /\ IF diskOpt.reset THEN UNCHANGED overlooked ELSE Overlook
    <3>1. /\ overlooked' \subseteq 0..MaxWrites /\ overlooked \subseteq overlooked'
          /\ disk.data \in overlooked' \/ diskOpt.reset
      BY <1>0, <2>2
    <3>2. Typed'
      <4>1. diskFaults' \in Nat
        BY <2>2
      <4>2. diskPc' \in DiskPcs
        BY <2>0
      <4>3. diskExists' \in BOOLEAN
        BY <2>2, Zenon
      <4> QED BY <2>0, <3>1, <4>1, <4>2, <4>3
    <3>3. BeforeSwap'
      BY <2>0, <2>2, <3>1
    <3>4. DuringSwap' /\ AfterSwap' /\ InRollback' /\ ReadyDisk' /\ RollsBack'
      BY <2>0
    <3> QED BY <3>2, <3>3, <3>4
  <2> QED BY <1>2, <2>1, <2>2 DEF CheckExists
<1>3. CASE ReadMetadata
  BY <1>3 DEF ReadMetadata
<1>4. CASE RefuseNoMetadata
  BY <1>4 DEF RefuseNoMetadata
<1>5. CASE RefuseOtherSource
  BY <1>5 DEF RefuseOtherSource
<1>6. CASE Accept
  BY <1>6 DEF Accept
<1>7. CASE CopyBase
  BY <1>7 DEF CopyBase
<1>8. CASE EnsureTmpSize
  BY <1>8 DEF EnsureTmpSize
<1>9. CASE RefuseShrinkTmp
  BY <1>9 DEF RefuseShrinkTmp
<1>10. CASE WriteTmpMeta
  BY <1>10 DEF WriteTmpMeta
<1>11. CASE BackupDisk
  <2>1. CASE bakDisk' = disk /\ disk' = NoFile /\ UNCHANGED <<diskFaults, overlooked>>
    BY <1>11, <2>1 DEF BackupDisk
  <2>2. CASE disk # NoFile /\ diskFaults' = diskFaults + 1 /\ Overlook /\ UNCHANGED <<disk, bakDisk>>
    BY <1>0, <1>11, <2>2 DEF BackupDisk
  <2> QED BY <1>11, <2>1, <2>2 DEF BackupDisk
<1>12. CASE BackupMeta
  BY <1>12 DEF BackupMeta
<1>13. CASE InstallDisk
  BY <1>13 DEF InstallDisk
<1>14. CASE InstallMeta
  BY <1>14 DEF InstallMeta
<1>15. CASE RemoveBackups
  BY <1>15 DEF RemoveBackups
<1>16. CASE EnsureSize
  BY <1>16 DEF EnsureSize
<1>17. CASE RefuseShrink
  BY <1>17 DEF RefuseShrink
<1>18. CASE RewriteMetadata
  BY <1>18 DEF RewriteMetadata
<1>19. CASE Return
  BY <1>19 DEF Return
<1>20. CASE FailOutsideSwap
  BY <1>20 DEF FailOutsideSwap
<1>21. CASE FailInSwap
  BY <1>21 DEF FailInSwap
<1>22. CASE ClearDisk
  BY <1>22 DEF ClearDisk
<1>23. CASE ClearMeta
  BY <1>23 DEF ClearMeta
<1>24. CASE RestoreDisk
  BY <1>24 DEF RestoreDisk
<1>25. CASE RestoreMeta
  BY <1>25 DEF RestoreMeta
<1>26. CASE DiskCrash
  BY <1>26 DEF DiskCrash
<1>27. CASE GuestWritesDisk
  BY <1>27 DEF GuestWritesDisk
<1>28. CASE UNCHANGED diskVars
  BY <1>28 DEF diskVars
<1> QED
  BY <1>1, <1>2, <1>3, <1>4, <1>5, <1>6, <1>7, <1>8, <1>9, <1>10, <1>11, <1>12, <1>13, <1>14, <1>15, <1>16, <1>17, <1>18, <1>19, <1>20, <1>21, <1>22, <1>23, <1>24, <1>25, <1>26, <1>27, <1>28
     DEF DiskNext, Swap, Rollback

\* A call that ends leaves its backup of the disk on the file system.
LEMMA EndKeeps ==
  ASSUME Places, NEW how, End(how), disk' = disk
  PROVE HeldFiles' = HeldFiles
<1>1. HeldFiles' = ({disk, NoFile} \cup (litter \cup ({bakDisk} \ {NoFile}))) \ {NoFile}
  BY DEF End, HeldFiles
<1> QED
  BY <1>1 DEF HeldFiles

\* What a guest wrote survives every step but the completion of a reset.
LEMMA DataStep == ASSUME Places, DataSafe, [DiskNext]_diskVars PROVE DataSafe'
<1>0. \A d \in precious : d # 0
  BY DEF Places, Typed
<1>1. ASSUME UNCHANGED <<disk, bakDisk, litter, precious>>, overlooked \subseteq overlooked'
      PROVE  DataSafe'
  BY <1>1 DEF DataSafe
<1>2. ASSUME NEW how, End(how), UNCHANGED <<disk, overlooked, precious>> PROVE DataSafe'
  BY <1>2, EndKeeps, DataKept
<1>3. CASE BackupDisk
  <2>1. /\ bakDisk = NoFile /\ UNCHANGED <<litter, precious>> /\ overlooked \subseteq overlooked'
        /\ (bakDisk' = disk /\ disk' = NoFile) \/ UNCHANGED <<disk, bakDisk>>
    BY <1>3 DEF BackupDisk, Overlook, DiskGoto, Places, BeforeSwap, PreSwapPcs
  <2>2. HeldFiles' = HeldFiles
    BY <2>1 DEF HeldFiles
  <2> QED
    BY <2>1, <2>2, DataKept
<1>4. CASE InstallDisk
  <2>1. Given(disk) /\ UNCHANGED <<bakDisk, litter, overlooked, precious>>
    BY <1>4 DEF InstallDisk, DiskGoto, Places, DuringSwap
  <2>2. \A f \in HeldFiles : f.data \in precious \ overlooked => f \in HeldFiles'
    BY <2>1 DEF HeldFiles, Given
  <2> QED
    BY <2>1, <2>2, DataKept
<1>5. CASE InstallMeta
  <2>1. UNCHANGED <<disk, bakDisk, litter, overlooked>> /\ precious' \subseteq precious
    BY <1>5 DEF InstallMeta
  <2>2. HeldFiles' = HeldFiles
    BY <2>1 DEF HeldFiles
  <2> QED
    BY <2>1, <2>2, DataKept
<1>6. CASE RemoveBackups
  <2>1. /\ bakDisk # NoFile => bakDisk.data \notin precious \ overlooked
        /\ litter \subseteq litter' /\ UNCHANGED <<disk, overlooked, precious>> /\ bakDisk' = NoFile
    BY <1>6 DEF RemoveBackups, DiskGoto, pair, Places, DuringSwap
  <2>2. \A f \in HeldFiles : f.data \in precious \ overlooked => f \in HeldFiles'
    BY <2>1 DEF HeldFiles
  <2> QED
    BY <2>1, <2>2, DataKept
<1>7. CASE EnsureSize
  <2>1. /\ disk # NoFile /\ disk \in Disks /\ disk' = [disk EXCEPT !.size = diskOpt.size]
        /\ diskOpt.size \in Sizes /\ UNCHANGED <<bakDisk, litter, overlooked, precious>>
    BY <1>7 DEF EnsureSize, Grown, Places, AfterSwap, Typed, MaybeDisk, Options
  <2>2. disk' \in Disks /\ disk'.data = disk.data /\ disk' # NoFile
    BY <2>1, NoFileAssumption DEF Disks
  <2>3. \A f \in HeldFiles : \E g \in HeldFiles' : g.data = f.data
    BY <2>1, <2>2 DEF HeldFiles
  <2> QED
    BY <2>1, <2>3, DataKept
<1>8. CASE ClearDisk
  <2>1. Blank(disk) \/ Given(disk) \/ disk' = disk
    BY <1>8 DEF ClearDisk, DiskGoto, Attempt, Places, InRollback
  <2>2. UNCHANGED <<bakDisk, litter, overlooked, precious>>
    BY <1>8 DEF ClearDisk
  <2>3. \A f \in HeldFiles : f.data \in precious \ overlooked => f \in HeldFiles'
    BY <1>0, <2>1, <2>2 DEF HeldFiles, Blank, Given
  <2> QED
    BY <2>2, <2>3, DataKept
<1>9. CASE RestoreDisk
  <2>1. UNCHANGED <<litter, overlooked, precious>> /\ (bakDisk # NoFile => Blank(disk))
        /\ (UNCHANGED <<disk, bakDisk>> \/ (bakDisk # NoFile /\ disk' = bakDisk))
    BY <1>9 DEF RestoreDisk, DiskGoto, Attempt, Places, InRollback
  <2>2. \A f \in HeldFiles : f.data \in precious \ overlooked => f \in HeldFiles'
    BY <1>0, <2>1 DEF HeldFiles, Blank
  <2> QED
    BY <2>1, <2>2, DataKept
<1>10. CASE GuestWritesDisk
  <2>1. /\ disk # NoFile /\ disk \in Disks /\ disk' = [disk EXCEPT !.data = writes + 1]
        /\ UNCHANGED <<bakDisk, litter, overlooked>> /\ writes + 1 \in 0..MaxWrites
        /\ precious' = (precious \ {disk.data}) \cup {writes + 1}
    BY <1>10, DiskBoundsAssumption
       DEF GuestWritesDisk, Places, Typed, MaybeDisk, ReadyDisk
  <2>2. disk' \in Disks /\ disk'.data = writes + 1 /\ disk' # NoFile
    BY <2>1, NoFileAssumption DEF Disks
  <2>3. ASSUME NEW d \in precious' \ overlooked' PROVE \E f \in HeldFiles' : f.data = d
    <3>1. CASE d = writes + 1
      BY <2>2, <3>1 DEF HeldFiles
    <3>2. CASE d # writes + 1
      <4>1. d \in precious \ overlooked /\ d # disk.data
        BY <2>1, <3>2
      <4>2. PICK f \in {disk, bakDisk} \cup litter : f # NoFile /\ f.data = d
        BY <4>1 DEF DataSafe
      <4> QED
        BY <2>1, <4>1, <4>2 DEF HeldFiles
    <3> QED
      BY <3>1, <3>2
  <2> QED
    BY <2>3 DEF DataSafe, HeldFiles
<1>11. CASE RestoreMeta
  BY <1>2, <1>11 DEF RestoreMeta
<1>12. CASE RefuseNoMetadata \/ RefuseOtherSource \/ RefuseShrinkTmp \/ RefuseShrink \/ Return
              \/ FailOutsideSwap \/ DiskCrash
  BY <1>2, <1>12 DEF RefuseNoMetadata, RefuseOtherSource, RefuseShrinkTmp, RefuseShrink, Return,
                     FailOutsideSwap, DiskCrash, pair
<1>14. CASE CheckExists
  BY <1>1, <1>14 DEF CheckExists, Overlook, files, pair
<1>13. CASE (\E o \in Options : DiskCall(o)) \/ UNCHANGED diskVars \/ ReadMetadata
              \/ Accept \/ CopyBase \/ EnsureTmpSize \/ WriteTmpMeta \/ BackupMeta
              \/ RewriteMetadata \/ FailInSwap \/ ClearMeta
  BY <1>1, <1>13 DEF DiskCall, diskVars, ReadMetadata, Accept, CopyBase, EnsureTmpSize,
                     WriteTmpMeta, BackupMeta, RewriteMetadata, FailInSwap, ClearMeta, files, pair
<1> QED
  BY <1>3, <1>4, <1>5, <1>6, <1>7, <1>8, <1>9, <1>10, <1>11, <1>12, <1>13, <1>14
     DEF DiskNext, Swap, Rollback

-----------------------------------------------------------------------------
(* The theorems.                                                            *)

\* Before the first call there are no files.
LEMMA DiskInitial == DiskInit => DiskIInv
<1> SUFFICES ASSUME DiskInit PROVE DiskIInv
  OBVIOUS
<1>1. Options # {}
  <2>1. PICK s \in Sources, z \in Sizes : TRUE
    BY SizesAssumption
  <2>2. [src |-> s, size |-> z, reset |-> FALSE] \in Options
    BY DEF Options
  <2> QED
    BY <2>2
<1>2. diskOpt \in Options
  BY <1>1 DEF DiskInit
<1>3. /\ disk = NoFile /\ meta = NoFile /\ tmpDisk = NoFile /\ tmpMeta = NoFile
      /\ bakDisk = NoFile /\ bakMeta = NoFile /\ litter = {} /\ diskPc = "idle"
      /\ outcome = "none" /\ diskExists = FALSE /\ seenMeta = NoFile
      /\ createdResized = FALSE /\ targetsCleared = FALSE /\ writes = 0 /\ diskFaults = 0
      /\ before = <<NoFile, NoFile>> /\ overlooked = {} /\ precious = {}
  BY DEF DiskInit
<1>4. Typed
  <2>1. NoFile \in MaybeDisk /\ NoFile \in MaybeMeta
    BY DEF MaybeDisk, MaybeMeta
  <2>2. before \in MaybeDisk \X MaybeMeta
    BY <1>3, <2>1
  <2>3. writes \in 0..MaxWrites /\ diskFaults \in Nat /\ diskPc \in DiskPcs
    BY <1>3, DiskBoundsAssumption DEF DiskPcs
  <2>4. litter \subseteq Disks /\ precious \subseteq 1..MaxWrites /\ overlooked \subseteq 0..MaxWrites
    BY <1>3
  <2> QED
    BY <1>2, <1>3, <2>1, <2>2, <2>3, <2>4 DEF Typed
<1>5. Places
  BY <1>3, <1>4
     DEF Places, BeforeSwap, DuringSwap, AfterSwap, InRollback, ReadyDisk, RollsBack,
         PreSwapPcs, CreatePcs, AfterPcs, RollbackPcs, Given
<1>6. DataSafe
  BY <1>3 DEF DataSafe
<1> QED
  BY <1>5, <1>6 DEF DiskIInv

\* Every step keeps the invariant.
LEMMA DiskInductive == DiskIInv /\ [DiskNext]_diskVars => DiskIInv'
  BY PlacesStep, DataStep DEF DiskIInv

\* materializePersistentDisk keeps a named disk whatever fails but the test whether
\* it exists (an access() that fails is taken for absence): what a guest wrote
\* stays in NAME.ext4 or a backup until a reset has completed, a call that returns
\* left a disk and metadata of the requested size, and a swap whose only failure
\* was the one it rolled back leaves the pair it found.
THEOREM DiskKeptHolds == DiskSpec => []DiskKept
<1>1. DiskIInv => DiskKept
  <2>1. DiskIInv => DiskTypeOK
    BY DEF DiskIInv, Places, Typed, DiskTypeOK, MaybeDisk, MaybeMeta
  <2> QED
    BY <2>1 DEF DiskIInv, Places, DiskKept
<1> QED
  BY <1>1, DiskInitial, DiskInductive, PTL DEF DiskSpec

\* A disk that keeps the content a guest wrote never loses blocks: of the file
\* operations on NAME.ext4 only the resize meets such a content, and it refuses
\* to shrink.
THEOREM NeverShrinksHolds == DiskSpec => NeverShrinks
<1> DEFINE Step == disk # NoFile /\ disk' # NoFile /\ disk.data # 0 /\ disk'.data = disk.data
                     => disk'.size >= disk.size
<1>1. DiskIInv /\ [DiskNext]_diskVars => [Step]_diskVars
  <2> SUFFICES ASSUME Places, DiskNext, disk # NoFile, disk' # NoFile, disk.data # 0,
                      disk'.data = disk.data
               PROVE disk'.size >= disk.size
    BY DEF DiskIInv
  <2>0. disk \in Disks /\ disk.size \in Nat /\ diskOpt.size \in Nat
    BY SizesAssumption DEF Places, Typed, MaybeDisk, Disks, Options
  <2>1. CASE disk' = disk
    BY <2>0, <2>1
  <2>2. CASE EnsureSize
    BY <2>0, <2>2 DEF EnsureSize, Grown, Disks
  <2>3. CASE GuestWritesDisk
    BY <2>0, <2>3 DEF GuestWritesDisk, Disks
  <2>4. CASE BackupDisk \/ InstallDisk
    BY <2>1, <2>4 DEF BackupDisk, InstallDisk, DiskGoto, Places, DuringSwap
  <2>5. CASE ClearDisk
    BY <2>1, <2>5 DEF ClearDisk, Attempt
  <2>6. CASE RestoreDisk
    <3>1. bakDisk = NoFile
      BY <2>6 DEF RestoreDisk, DiskGoto, Places, InRollback, Blank
    <3> QED
      BY <2>1, <2>6, <3>1 DEF RestoreDisk, Attempt
  <2>7. CASE (\E o \in Options : DiskCall(o)) \/ CheckExists \/ ReadMetadata \/ Accept
               \/ RefuseNoMetadata \/ RefuseOtherSource \/ CopyBase \/ EnsureTmpSize
               \/ RefuseShrinkTmp \/ WriteTmpMeta \/ BackupMeta \/ InstallMeta \/ RemoveBackups
               \/ RefuseShrink \/ RewriteMetadata \/ Return \/ FailOutsideSwap \/ FailInSwap
               \/ ClearMeta \/ RestoreMeta \/ DiskCrash
    BY <2>1, <2>7
       DEF DiskCall, CheckExists, ReadMetadata, Accept, RefuseNoMetadata, RefuseOtherSource,
           CopyBase, EnsureTmpSize, RefuseShrinkTmp, WriteTmpMeta, BackupMeta, InstallMeta,
           RemoveBackups, RefuseShrink, RewriteMetadata, Return, FailOutsideSwap, FailInSwap,
           ClearMeta, RestoreMeta, DiskCrash, files, pair
  <2> QED
    BY <2>2, <2>3, <2>4, <2>5, <2>6, <2>7 DEF DiskNext, Swap, Rollback
<1> QED
  BY <1>1, DiskInitial, DiskInductive, PTL DEF DiskSpec, NeverShrinks

-----------------------------------------------------------------------------
(***************************************************************************)
(* The pipelines of VmSession leave images sound and end clean, for any     *)
(* number of sessions, calls, failures and deaths.                          *)
(*                                                                         *)
(* ImagesSound is not inductive: that a VM boots a whole image follows from *)
(* what was known when its root disk was chosen.  SessIInv adds where every *)
(* call can be (Control), which files each name may point to (Names), that  *)
(* nobody but its maker knows a file before it is renamed or linked         *)
(* (Private), what is complete at each place (Complete), which file a guest *)
(* without an overlay writes to (Written), the order in which               *)
(* writeSnapshotBundle works (OneSnapshot, BundleSteps), and what a session *)
(* owns at each place (Leftovers).                                          *)
(***************************************************************************)

CacheOps == {"image"} \union DiskOps
BuildOps == {"build", "snapshot", "prepare"}
VmOps == RunOps \union {"boot"}

\* Where preparedDisk is known.
Rooted == {"overlay", "open", "running", "clear", "link", "linking", "manifest", "ready"}

\* The places after the VM was opened.
Past == {"running", "result", "cleanNet", "cleanOverlay", "cleanTemp", "done", "dead"}

\* Which calls come to which place.
OpsFit(s) ==
  /\ opt[s] \in Requests
  /\ pc[s] \in {"net", "overlay", "open", "running"} => Op(s) \in VmOps
  /\ pc[s] = "source" => Op(s) # "boot"
  /\ pc[s] \in {"fetch", "fetching", "install"} => Op(s) \in CacheOps
  /\ pc[s] \in {"build", "building"} => Op(s) \in CacheOps \union BuildOps
  /\ pc[s] \in {"copy", "copying", "replace", "rename"} => Op(s) \in DiskOps
  /\ pc[s] \in {"clear", "link", "linking", "manifest"} => Op(s) \in SnapshotOps
  /\ pc[s] = "ready" => Op(s) = "prepare"

CallOK(s) ==
  /\ pc[s] = "idle" => base[s] = None /\ parent[s] = None /\ root[s] = NoRoot
  /\ pc[s] # "idle" => OpsFit(s)
  /\ base[s] # None => pc[s] \in Past /\ Op(s) \in VmOps

\* A run of a prepared sandbox belongs to one that was prepared.
ParentOK(s) ==
  /\ pc[s] # "idle" /\ Op(s) = "template" => parent[s] # None
  /\ parent[s] # None =>
       pc[parent[s]] \in {"ready", "cleanTemp", "done", "dead"} /\ Op(parent[s]) = "prepare"

\* What prepareRunRootDisk returns.
RootOf(s) ==
  CASE Op(s) \in {"boot", "rootfs", "snapshotOf"} -> NoRoot
    [] Op(s) = "restore" -> Root(Bundle, FALSE, FALSE)
    [] Op(s) = "template" -> Root(Own(parent[s]), FALSE, FALSE)
    [] Op(s) = "image" -> Root(Cached, TRUE, FALSE)
    [] Op(s) \in DiskOps -> Root(Disk, FALSE, TRUE)
    [] Op(s) \in BuildOps -> Root(Own(s), FALSE, FALSE)

RootOK(s) ==
  /\ pc[s] \in Rooted \/ base[s] # None => root[s] = RootOf(s)
  /\ pc[s] # "idle" /\ Op(s) = "boot" => root[s] = NoRoot

Control == \A s \in Sessions : CallOK(s) /\ ParentOK(s) /\ RootOK(s)

\* The sessions that made one of some calls.
Called(ops) == {u \in Sessions : pc[u] # "idle" /\ Op(u) \in ops}

\* Where the names of the files point.
CacheFiles == {None, Cached} \union {ImageOf(t) : t \in Called(CacheOps)}
DiskFiles == {None, Disk} \union {CopyOf(t) : t \in Called(DiskOps)}
BundleFiles ==
  {None, Bundle, User} \union {ImageOf(t) : t \in Called({"snapshot"})}
                       \union {CopyOf(t) : t \in Called(SnapshotOps)}
Names ==
  /\ fs[User] = User /\ fs[Cached] \in CacheFiles /\ fs[Disk] \in DiskFiles /\ fs[Bundle] \in BundleFiles
  /\ \A t \in Sessions : /\ fs[Tmp(t)] \in {None, ImageOf(t)} /\ fs[Own(t)] \in {None, ImageOf(t)}
                         /\ fs[CopyTmp(t)] \in {None, CopyOf(t)}

\* Before a session has published its image, or its copy of an image.
Unbuilt(t) ==
  \/ pc[t] \in {"idle", "net", "source", "fetch", "fetching", "build", "building", "install"}
  \/ pc[t] = "overlay" /\ Op(t) = "boot"
Uncopied(t) == Unbuilt(t) \/ pc[t] \in {"copy", "copying", "replace", "rename", "clear", "link"}

\* Nobody but its maker knows the file.
Unpublished(i) ==
  /\ fs[Cached] # i /\ fs[Disk] # i /\ fs[Bundle] # i /\ writers[i] = {}
  /\ \A s \in Sessions : base[s] # i

Private ==
  \A t \in Sessions : /\ Unbuilt(t) => Unpublished(ImageOf(t))
                      /\ Uncopied(t) => Unpublished(CopyOf(t))

\* The files that are complete.
CompleteAt(t) ==
  /\ pc[t] = "install" => ImageOf(t) \in whole
  /\ pc[t] \in {"fetching", "install"} \/ (pc[t] = "building" /\ Op(t) \in CacheOps)
       => fs[Tmp(t)] = ImageOf(t)
  /\ pc[t] \in {"copy", "copying"} => fs[Cached] # None
  /\ pc[t] \in {"replace", "rename"} => CopyOf(t) \in whole
  /\ pc[t] \in Rooted /\ Op(t) \in BuildOps => ImageOf(t) \in whole
  /\ parent[t] # None => ImageOf(parent[t]) \in whole

Complete ==
  /\ OldInodes \subseteq whole
  /\ fs[Cached] # None => fs[Cached] \in whole
  /\ fs[Disk] # None => fs[Disk] \in whole
  /\ \A t \in Sessions : CompleteAt(t)

\* The inode a guest that has no overlay writes to.
From(s, i) ==
  \/ Op(s) \in {"rootfs", "boot"} /\ i = User
  \/ Op(s) \in DiskOps /\ (i = Disk \/ \E t \in Called(DiskOps) : i = CopyOf(t))
  \/ Op(s) = "build" /\ i = ImageOf(s)
  \/ Op(s) = "template" /\ i = ImageOf(parent[s])

Written ==
  \A s \in Sessions :
    /\ base[s] # None /\ ~NeedsOverlay(s) => From(s, base[s])
    /\ \A i \in Inodes : s \in writers[i] => pc[s] \in Past /\ ~opt[s].sandbox /\ From(s, i)

\* createSnapshot.
OneSnapshot ==
  \A s, t \in Sessions : s \in Active /\ t \in Active /\ Op(s) \in SnapshotOps /\ Op(t) \in SnapshotOps => s = t

BundleSteps ==
  \A s \in Sessions :
    /\ pc[s] \in {"link", "linking", "manifest"} => ~manifest
    /\ pc[s] = "linking" => fs[Bundle] = CopyOf(s)
    /\ pc[s] = "manifest" => fs[Bundle] = None \/ fs[Bundle] \in whole

\* What a session owns.
Kept(s) ==
  /\ s \in net => pc[s] # "idle" /\ Op(s) \in VmOps
  /\ <<"overlay", s>> \in dirs => pc[s] # "idle" /\ Op(s) \in VmOps
  /\ pc[s] \in {"cleanOverlay", "cleanTemp", "done"} /\ s \in net => <<"net", s>> \in stuck
  /\ pc[s] \in {"cleanTemp", "done"} /\ <<"overlay", s>> \in dirs =>
       <<"overlay", s>> \in stuck \/ "overlay" \in opt[s].keep
  /\ pc[s] = "done" /\ <<"temp", s>> \in dirs => <<"temp", s>> \in stuck \/ KeepsTemp(s)
  /\ <<"result", s>> \in dirs => <<"result", s>> \in stuck
  /\ fs[Tmp(s)] # None => \/ pc[s] \in {"fetching", "install", "dead"}
                          \/ pc[s] = "building" /\ Op(s) \in CacheOps
  /\ fs[CopyTmp(s)] # None => pc[s] \in {"copying", "replace", "rename", "dead"}
  /\ pc[s] \notin {"idle", "done", "dead"} /\ Op(s) # "boot" => <<"temp", s>> \in dirs
  /\ fs[Own(s)] # None => <<"temp", s>> \in dirs

Leftovers == \A s \in Sessions : Kept(s)

SessIInv == /\ TypeOK /\ Control /\ Names /\ Private /\ Complete /\ WholeImages /\ Written
            /\ OneSnapshot /\ BundleSteps /\ BundleWhole /\ Leftovers

-----------------------------------------------------------------------------
(* Names.                                                                   *)

\* The files of two sessions, and the shared ones, have different paths.
LEMMA PathFacts ==
  /\ Cached \in Paths /\ User \in Paths /\ Disk \in Paths /\ Bundle \in Paths
  /\ Cached # User /\ Cached # Disk /\ Cached # Bundle /\ User # Disk /\ User # Bundle /\ Disk # Bundle
  /\ \A s \in Sessions :
       /\ Tmp(s) \in Paths /\ Own(s) \in Paths /\ CopyTmp(s) \in Paths
       /\ Tmp(s) # Cached /\ Tmp(s) # User /\ Tmp(s) # Disk /\ Tmp(s) # Bundle
       /\ Own(s) # Cached /\ Own(s) # User /\ Own(s) # Disk /\ Own(s) # Bundle
       /\ CopyTmp(s) # Cached /\ CopyTmp(s) # User /\ CopyTmp(s) # Disk /\ CopyTmp(s) # Bundle
  /\ \A s, t \in Sessions :
       /\ Tmp(s) # Own(t) /\ Tmp(s) # CopyTmp(t) /\ Own(s) # CopyTmp(t)
       /\ Tmp(s) = Tmp(t) => s = t
       /\ Own(s) = Own(t) => s = t
       /\ CopyTmp(s) = CopyTmp(t) => s = t
<1>1. /\ Cached \in Paths /\ User \in Paths /\ Disk \in Paths /\ Bundle \in Paths
      /\ \A s \in Sessions : Tmp(s) \in Paths /\ Own(s) \in Paths /\ CopyTmp(s) \in Paths
  BY DEF Paths, Cached, User, Disk, Bundle, Tmp, Own, CopyTmp
<1>2. Cached # User /\ Cached # Disk /\ Cached # Bundle /\ User # Disk /\ User # Bundle /\ Disk # Bundle
  BY DEF Cached, User, Disk, Bundle
<1>3. ASSUME NEW s \in Sessions
      PROVE /\ Tmp(s) # Cached /\ Tmp(s) # User /\ Tmp(s) # Disk /\ Tmp(s) # Bundle
            /\ Own(s) # Cached /\ Own(s) # User /\ Own(s) # Disk /\ Own(s) # Bundle
            /\ CopyTmp(s) # Cached /\ CopyTmp(s) # User /\ CopyTmp(s) # Disk /\ CopyTmp(s) # Bundle
  BY DEF Cached, User, Disk, Bundle, Tmp, Own, CopyTmp
<1>4. ASSUME NEW s \in Sessions, NEW t \in Sessions
      PROVE /\ Tmp(s) # Own(t) /\ Tmp(s) # CopyTmp(t) /\ Own(s) # CopyTmp(t)
            /\ Tmp(s) = Tmp(t) => s = t
            /\ Own(s) = Own(t) => s = t
            /\ CopyTmp(s) = CopyTmp(t) => s = t
  BY DEF Tmp, Own, CopyTmp
<1> QED
  BY <1>1, <1>2, <1>3, <1>4

\* So have their inodes, and none of them is None.
LEMMA InodeFacts ==
  /\ OldInodes = {Cached, User, Disk, Bundle} /\ OldInodes \subseteq Inodes /\ None \notin Inodes
  /\ Cached # None /\ User # None /\ Disk # None /\ Bundle # None
  /\ \A s \in Sessions :
       /\ ImageOf(s) \in Inodes /\ CopyOf(s) \in Inodes /\ ImageOf(s) # None /\ CopyOf(s) # None
       /\ ImageOf(s) # Cached /\ ImageOf(s) # User /\ ImageOf(s) # Disk /\ ImageOf(s) # Bundle
       /\ CopyOf(s) # Cached /\ CopyOf(s) # User /\ CopyOf(s) # Disk /\ CopyOf(s) # Bundle
  /\ \A s, t \in Sessions :
       /\ ImageOf(s) # CopyOf(t)
       /\ ImageOf(s) = ImageOf(t) => s = t
       /\ CopyOf(s) = CopyOf(t) => s = t
<1>1. OldInodes = {Cached, User, Disk, Bundle} /\ OldInodes \subseteq Inodes /\ None \notin Inodes
  BY NoneAssumption DEF OldInodes, Inodes
<1>2. \A s \in Sessions : ImageOf(s) \in Inodes /\ CopyOf(s) \in Inodes
  BY DEF Inodes, ImageOf, CopyOf
<1>3. ASSUME NEW s \in Sessions
      PROVE /\ ImageOf(s) # Cached /\ ImageOf(s) # User /\ ImageOf(s) # Disk /\ ImageOf(s) # Bundle
            /\ CopyOf(s) # Cached /\ CopyOf(s) # User /\ CopyOf(s) # Disk /\ CopyOf(s) # Bundle
  BY DEF Cached, User, Disk, Bundle, ImageOf, CopyOf
<1>4. ASSUME NEW s \in Sessions, NEW t \in Sessions
      PROVE /\ ImageOf(s) # CopyOf(t)
            /\ ImageOf(s) = ImageOf(t) => s = t
            /\ CopyOf(s) = CopyOf(t) => s = t
  BY DEF ImageOf, CopyOf
<1> QED
  BY <1>1, <1>2, <1>3, <1>4

\* The fields of a request.
LEMMA RequestFacts ==
  \A r \in Requests : /\ r.op \in Ops /\ r.sandbox \in BOOLEAN
                      /\ r.op = "restore" => r.sandbox
  BY RequestsAssumption DEF IsRequest

-----------------------------------------------------------------------------
(* Types.                                                                   *)

Roots == [path : Paths, fromCache : BOOLEAN, persistent : BOOLEAN]

LEMMA RootType ==
  ASSUME NEW p \in Paths, NEW b \in BOOLEAN, NEW c \in BOOLEAN
  PROVE Root(p, b, c) \in Roots
  BY DEF Root, Roots

\* A step of a session that is neither its call nor the death of its process.
Moves(s) ==
  \/ SetupNetwork(s) \/ UseGiven(s) \/ CheckCache(s) \/ StartFetch(s) \/ EndFetch(s)
  \/ SkipFetch(s) \/ StartBuild(s) \/ EndBuild(s) \/ Install(s)
  \/ DiskAppeared(s) \/ StartCopy(s) \/ EndCopy(s) \/ RemoveDisk(s) \/ RenameDisk(s)
  \/ MakeOverlay(s) \/ Open(s) \/ OpenFails(s) \/ GuestWrites(s)
  \/ EndVm(s) \/ ReadResult(s) \/ Abort(s) \/ AbortedVmEnds(s)
  \/ ClearBundle(s) \/ LinkBundle(s) \/ EndLinkCopy(s) \/ WriteManifest(s)
  \/ Fail(s) \/ Close(s) \/ CleanNet(s) \/ CleanOverlay(s) \/ CleanTemp(s)

SessStep(s) == (\E r \in Requests : Call(s, r)) \/ Moves(s) \/ Crash(s)

FileTypes ==
  /\ fs \in [Paths -> Inodes \union {None}] /\ whole \subseteq Inodes
  /\ writers \in [Inodes -> SUBSET Sessions] /\ manifest \in BOOLEAN
HostTypes ==
  /\ dirs \subseteq ({"temp", "overlay", "result"} \X Sessions) /\ net \subseteq Sessions
  /\ stuck \subseteq ({"temp", "overlay", "result", "net"} \X Sessions)
  /\ faults \in 0..MaxFaults /\ crashes \in 0..MaxCrashes
CallTypes ==
  /\ pc \in [Sessions -> Steps] /\ opt \in [Sessions -> Requests \union {None}]
  /\ parent \in [Sessions -> Sessions \union {None}] /\ root \in [Sessions -> Roots]
  /\ base \in [Sessions -> Inodes \union {None}]

LEMMA TypeParts == TypeOK <=> FileTypes /\ HostTypes /\ CallTypes
  BY DEF TypeOK, FileTypes, HostTypes, CallTypes, Roots

\* A new file.
LEMMA CreateType ==
  ASSUME FileTypes, NEW p \in Paths, NEW i \in Inodes, Create(p, i)
  PROVE /\ fs' \in [Paths -> Inodes \union {None}] /\ whole' \subseteq Inodes
        /\ writers' \in [Inodes -> SUBSET Sessions]
  BY DEF FileTypes, Create

LEMMA FileTypesStep ==
  ASSUME SessIInv, NEW s \in Sessions, SessStep(s)
  PROVE FileTypes'
<1>1. FileTypes /\ CallTypes /\ ImageOf(s) \in Inodes /\ CopyOf(s) \in Inodes
  BY TypeParts, InodeFacts DEF SessIInv
<1>2. /\ Cached \in Paths /\ Disk \in Paths /\ Bundle \in Paths /\ Tmp(s) \in Paths
      /\ Own(s) \in Paths /\ CopyTmp(s) \in Paths /\ root[s].path \in Paths
  BY <1>1, PathFacts DEF CallTypes, Roots
<1>3. CASE StartFetch(s) \/ StartBuild(s)
  <2>1. PICK p \in Paths : Create(p, ImageOf(s)) /\ manifest' = manifest
    BY <1>2, <1>3 DEF StartFetch, StartBuild, BuildOutput
  <2> QED
    BY <1>1, <2>1, CreateType DEF FileTypes
<1>4. CASE StartCopy(s)
  BY <1>1, <1>2, <1>4, CreateType DEF FileTypes, StartCopy
<1>5. CASE LinkBundle(s)
  BY <1>1, <1>2, <1>5, CreateType DEF FileTypes, LinkBundle
<1>6. CASE EndFetch(s) \/ EndBuild(s) \/ EndCopy(s) \/ EndLinkCopy(s)
  <2>1. /\ fs' = fs \/ fs' = [fs EXCEPT ![Tmp(s)] = None]
        /\ whole' \subseteq whole \union {ImageOf(s), CopyOf(s)} /\ writers' = writers /\ manifest' = manifest
    BY <1>6 DEF EndFetch, EndBuild, EndCopy, EndLinkCopy
  <2> QED
    BY <1>1, <1>2, <2>1 DEF FileTypes
<1>7. CASE Install(s) \/ RemoveDisk(s) \/ RenameDisk(s) \/ Fail(s) \/ CleanTemp(s) \/ ClearBundle(s)
  <2>1. whole' = whole /\ writers' = writers /\ manifest' \in {manifest, FALSE}
    BY <1>7 DEF Install, RemoveDisk, RenameDisk, Fail, CleanTemp, ClearBundle
  <2>2. fs' \in [Paths -> Inodes \union {None}]
    <3>1. CASE Install(s)
      BY <1>1, <1>2, <3>1 DEF FileTypes, Install
    <3>2. CASE RenameDisk(s)
      BY <1>1, <1>2, <3>2 DEF FileTypes, RenameDisk
    <3>3. CASE Fail(s)
      BY <1>1, <1>2, <3>3 DEF FileTypes, Fail
    <3>4. CASE RemoveDisk(s) \/ CleanTemp(s) \/ ClearBundle(s)
      <4>1. fs' = fs \/ \E p \in Paths : fs' = [fs EXCEPT ![p] = None]
        BY <1>2, <3>4 DEF RemoveDisk, CleanTemp, ClearBundle
      <4> QED
        BY <1>1, <4>1 DEF FileTypes
    <3> QED
      BY <1>7, <3>1, <3>2, <3>3, <3>4
  <2> QED
    BY <1>1, <2>1, <2>2 DEF FileTypes
<1>8. CASE GuestWrites(s)
  <2>1. base[s] \in Inodes
    BY <1>1, <1>8 DEF GuestWrites, CallTypes
  <2> QED
    BY <1>1, <1>8, <2>1 DEF FileTypes, GuestWrites
<1>9. CASE WriteManifest(s)
  BY <1>1, <1>9 DEF FileTypes, WriteManifest
<1>10. CASE \/ \E r \in Requests : Call(s, r)
            \/ SetupNetwork(s) \/ UseGiven(s) \/ CheckCache(s) \/ SkipFetch(s) \/ DiskAppeared(s)
            \/ MakeOverlay(s) \/ Open(s) \/ OpenFails(s) \/ EndVm(s) \/ ReadResult(s) \/ Abort(s) \/ AbortedVmEnds(s)
            \/ Close(s) \/ CleanNet(s) \/ CleanOverlay(s) \/ Crash(s)
  <2>1. UNCHANGED fileVars
    BY <1>10 DEF Call, SetupNetwork, UseGiven, CheckCache, SkipFetch, DiskAppeared, MakeOverlay, Open,
                 OpenFails, EndVm, ReadResult, Abort, AbortedVmEnds, Close, CleanNet, CleanOverlay, Crash
  <2> QED
    BY <1>1, <2>1 DEF FileTypes, fileVars
<1> QED
  BY <1>3, <1>4, <1>5, <1>6, <1>7, <1>8, <1>9, <1>10 DEF SessStep, Moves

LEMMA HostTypesStep ==
  ASSUME SessIInv, NEW s \in Sessions, SessStep(s)
  PROVE HostTypes'
<1>1. HostTypes /\ MaxFaults \in Nat /\ MaxCrashes \in Nat
  BY TypeParts, SessionBoundsAssumption DEF SessIInv
<1>2. CASE \E r \in Requests : Call(s, r)
  BY <1>1, <1>2 DEF HostTypes, Call
<1>3. CASE SetupNetwork(s) \/ MakeOverlay(s)
  BY <1>1, <1>3 DEF HostTypes, SetupNetwork, MakeOverlay
<1>4. CASE CleanNet(s)
  BY <1>1, <1>4 DEF HostTypes, CleanNet
<1>8. CASE ReadResult(s)
  <2>1. <<"result", s>> \in {"temp", "overlay", "result"} \X Sessions
        /\ <<"result", s>> \in {"temp", "overlay", "result", "net"} \X Sessions
    OBVIOUS
  <2> QED BY <1>1, <1>8, <2>1 DEF HostTypes, ReadResult
<1>5. CASE CleanOverlay(s) \/ CleanTemp(s)
  <2>1. PICK what \in {"temp", "overlay"} : \E keep : RemoveDir(s, what, keep)
    BY <1>5 DEF CleanOverlay, CleanTemp
  <2>2. net' = net /\ crashes' = crashes
    BY <1>5 DEF CleanOverlay, CleanTemp
  <2>3. <<what, s>> \in {"temp", "overlay", "result", "net"} \X Sessions
    OBVIOUS
  <2>4. CASE UNCHANGED <<dirs, stuck, faults>>
    BY <1>1, <2>2, <2>4 DEF HostTypes
  <2>5. CASE dirs' = dirs \ {<<what, s>>} /\ UNCHANGED <<stuck, faults>>
    BY <1>1, <2>2, <2>5 DEF HostTypes
  <2>6. CASE faults < MaxFaults /\ faults' = faults + 1 /\ stuck' = stuck \union {<<what, s>>} /\ UNCHANGED dirs
    BY <1>1, <2>2, <2>3, <2>6 DEF HostTypes
  <2> QED
    BY <2>1, <2>4, <2>5, <2>6 DEF RemoveDir
<1>6. CASE Fail(s) \/ Crash(s)
  BY <1>1, <1>6 DEF HostTypes, hostVars, Fail, Crash
<1>7. CASE \/ UseGiven(s) \/ CheckCache(s) \/ StartFetch(s) \/ EndFetch(s) \/ SkipFetch(s)
           \/ StartBuild(s) \/ EndBuild(s) \/ Install(s) \/ DiskAppeared(s) \/ StartCopy(s) \/ EndCopy(s)
           \/ RemoveDisk(s) \/ RenameDisk(s) \/ Open(s) \/ OpenFails(s) \/ GuestWrites(s) \/ EndVm(s)
           \/ Abort(s) \/ AbortedVmEnds(s) \/ ClearBundle(s) \/ LinkBundle(s) \/ EndLinkCopy(s)
           \/ WriteManifest(s) \/ Close(s)
  <2>1. UNCHANGED <<dirs, net, stuck, faults, crashes>>
    BY <1>7 DEF UseGiven, CheckCache, StartFetch, EndFetch, SkipFetch, StartBuild, EndBuild, Install,
                DiskAppeared, StartCopy, EndCopy, RemoveDisk, RenameDisk, Open, OpenFails, GuestWrites,
                EndVm, Abort, AbortedVmEnds, ClearBundle, LinkBundle, EndLinkCopy, WriteManifest, Close,
                hostVars
  <2> QED
    BY <1>1, <2>1 DEF HostTypes
<1> QED
  BY <1>2, <1>3, <1>4, <1>5, <1>6, <1>7, <1>8 DEF SessStep, Moves

-----------------------------------------------------------------------------
(* Control.                                                                 *)

\* The places a session leaves only for one another.
Over == {"ready", "cleanTemp", "done", "dead"}

\* The steps of a session, seen from the other sessions: its own place, root
\* disk and open file change, and no call.
LEMMA MoveFrame ==
  ASSUME SessIInv, NEW s \in Sessions, Moves(s)
  PROVE /\ UNCHANGED <<opt, parent, crashes>> /\ CallTypes'
        /\ pc[s] # "idle" /\ pc'[s] # "idle" /\ (pc[s] \in Over => pc'[s] \in Over)
        /\ \A t \in Sessions : t # s => pc'[t] = pc[t] /\ root'[t] = root[t] /\ base'[t] = base[t]
<1>1. /\ CallTypes /\ FileTypes /\ CallOK(s) /\ ParentOK(s)
      /\ Cached \in Paths /\ Disk \in Paths /\ User \in Paths /\ Bundle \in Paths /\ Own(s) \in Paths
  BY TypeParts, PathFacts DEF SessIInv, Control
<1>2. CASE UseGiven(s)
  <2>1. PICK p \in Paths, b \in BOOLEAN : root' = [root EXCEPT ![s] = Root(p, FALSE, b)]
    <3>1. Op(s) = "template" => Own(parent[s]) \in Paths
      BY <1>1, <1>2, PathFacts DEF UseGiven, Goto, ParentOK, CallTypes
    <3> QED
      BY <1>1, <1>2, <3>1 DEF UseGiven, SetRoot
  <2>2. root' \in [Sessions -> Roots] /\ \A t \in Sessions : t # s => root'[t] = root[t]
    BY <1>1, <2>1, RootType DEF CallTypes
  <2> QED
    BY <1>1, <1>2, <2>2 DEF UseGiven, Goto, CallTypes, Steps, FailPoints, Over
<1>3. CASE CheckCache(s) \/ EndBuild(s) \/ Install(s) \/ DiskAppeared(s) \/ RenameDisk(s)
  <2>1. root' = root \/ \E p \in Paths, b, c \in BOOLEAN : root' = [root EXCEPT ![s] = Root(p, b, c)]
    BY <1>1, <1>3 DEF CheckCache, EndBuild, Install, DiskAppeared, RenameDisk, SetRoot
  <2>2. root' \in [Sessions -> Roots] /\ \A t \in Sessions : t # s => root'[t] = root[t]
    BY <1>1, <2>1, RootType DEF CallTypes
  <2>3. /\ UNCHANGED <<opt, parent, base, crashes>> /\ pc[s] \notin Over \union {"idle"}
        /\ \E p \in Steps \ {"idle"} : pc' = [pc EXCEPT ![s] = p]
    <3>1. CASE CheckCache(s) \/ Install(s) \/ DiskAppeared(s) \/ RenameDisk(s)
      BY <3>1 DEF CheckCache, Install, DiskAppeared, RenameDisk, Goto, Steps, FailPoints, Over, AfterBase
    <3>2. CASE EndBuild(s)
      <4>1. pc[s] = "building" /\ UNCHANGED <<opt, parent, base, crashes>>
        BY <3>2 DEF EndBuild, Goto
      <4>2. Op(s) \in CacheOps \union BuildOps
        BY <1>1, <4>1 DEF CallOK, OpsFit
      <4>3. \E p \in {"install", "ready", "clear", "overlay"} : pc' = [pc EXCEPT ![s] = p]
        <5>1. CASE Op(s) \in CacheOps
          <6>1. Cacheable(s)
            BY <5>1 DEF Cacheable, CacheOps
          <6>2. Op(s) \notin BuildOps
            BY <5>1 DEF CacheOps, DiskOps, BuildOps
          <6> QED
            BY <3>2, <6>1, <6>2 DEF EndBuild, Goto, BuildOps
        <5>2. CASE Op(s) \in BuildOps
          <6>1. ~Cacheable(s)
            BY <5>2 DEF Cacheable, BuildOps, DiskOps
          <6> QED
            BY <3>2, <5>2, <6>1 DEF EndBuild, Goto, BuildOps
        <5> QED
          BY <4>2, <5>1, <5>2
      <4> QED
        BY <4>1, <4>3 DEF Over, Steps, FailPoints
    <3> QED
      BY <1>3, <3>1, <3>2
  <2> QED
    BY <1>1, <2>2, <2>3 DEF CallTypes
<1>4. CASE Open(s) \/ EndVm(s)
  <2>1. fs[root[s].path] \in Inodes \union {None}
    BY <1>1 DEF CallTypes, FileTypes, Roots
  <2> QED
    BY <1>1, <1>4, <2>1 DEF Open, EndVm, Goto, CallTypes, Steps, Over
<1>5. CASE AbortedVmEnds(s) \/ GuestWrites(s)
  <2>1. pc[s] # "idle"
    BY <1>1, <1>5 DEF AbortedVmEnds, GuestWrites, CallOK
  <2> QED
    BY <1>1, <1>5, <2>1 DEF AbortedVmEnds, GuestWrites, CallTypes, sessionVars
<1>6. CASE \/ SetupNetwork(s) \/ StartFetch(s) \/ EndFetch(s) \/ SkipFetch(s) \/ StartBuild(s)
           \/ StartCopy(s) \/ EndCopy(s) \/ RemoveDisk(s) \/ MakeOverlay(s) \/ OpenFails(s)
  <2>1. /\ UNCHANGED <<opt, parent, root, base, crashes>> /\ pc[s] \notin Over \union {"idle"}
        /\ \E p \in Steps \ {"idle"} : pc' = [pc EXCEPT ![s] = p]
    BY <1>6 DEF SetupNetwork, StartFetch, EndFetch, SkipFetch, StartBuild, StartCopy, EndCopy, RemoveDisk,
                MakeOverlay, OpenFails, Goto, sessionVars, Steps, FailPoints, Over
  <2> QED
    BY <1>1, <2>1 DEF CallTypes
<1>7. CASE \/ Abort(s) \/ ClearBundle(s) \/ LinkBundle(s) \/ EndLinkCopy(s) \/ WriteManifest(s) \/ Fail(s)
           \/ ReadResult(s) \/ Close(s) \/ CleanNet(s) \/ CleanOverlay(s) \/ CleanTemp(s)
  <2>1. UNCHANGED <<opt, parent, root, base, crashes>>
    BY <1>7 DEF Abort, ClearBundle, LinkBundle, EndLinkCopy, WriteManifest, Fail, ReadResult, Close, CleanNet,
                CleanOverlay, CleanTemp, sessionVars
  <2>2. /\ pc[s] # "idle"
        /\ \/ pc' = pc
           \/ \E p \in Steps \ {"idle"} : pc' = [pc EXCEPT ![s] = p] /\ (pc[s] \in Over => p \in Over)
    BY <1>7 DEF Abort, ClearBundle, LinkBundle, EndLinkCopy, WriteManifest, Fail, ReadResult, Close, CleanNet,
                CleanOverlay, CleanTemp, Goto, Steps, FailPoints, Over
  <2> QED
    BY <1>1, <2>1, <2>2 DEF CallTypes
<1> QED
  BY <1>2, <1>3, <1>4, <1>5, <1>6, <1>7 DEF Moves

\* The root disk of each call.
LEMMA RootIs ==
  ASSUME NEW s
  PROVE /\ Op(s) \in {"boot", "rootfs", "snapshotOf"} => RootOf(s) = NoRoot
        /\ Op(s) = "restore" => RootOf(s) = Root(Bundle, FALSE, FALSE)
        /\ Op(s) = "template" => RootOf(s) = Root(Own(parent[s]), FALSE, FALSE)
        /\ Op(s) = "image" => RootOf(s) = Root(Cached, TRUE, FALSE)
        /\ Op(s) \in DiskOps => RootOf(s) = Root(Disk, FALSE, TRUE)
        /\ Op(s) \in BuildOps => RootOf(s) = Root(Own(s), FALSE, FALSE)
<1>1. Op(s) \in {"boot", "rootfs", "snapshotOf"} => RootOf(s) = NoRoot
  BY DEF RootOf, DiskOps, BuildOps
<1>2. Op(s) = "restore" => RootOf(s) = Root(Bundle, FALSE, FALSE)
  BY DEF RootOf, DiskOps, BuildOps
<1>3. Op(s) = "template" => RootOf(s) = Root(Own(parent[s]), FALSE, FALSE)
  BY DEF RootOf, DiskOps, BuildOps
<1>4. Op(s) = "image" => RootOf(s) = Root(Cached, TRUE, FALSE)
  BY DEF RootOf, DiskOps, BuildOps
<1>5. Op(s) \in DiskOps => RootOf(s) = Root(Disk, FALSE, TRUE)
  BY DEF RootOf, DiskOps, BuildOps
<1>6. Op(s) \in BuildOps => RootOf(s) = Root(Own(s), FALSE, FALSE)
  BY DEF RootOf, DiskOps, BuildOps
<1> QED
  BY <1>1, <1>2, <1>3, <1>4, <1>5, <1>6

\* A session comes to each place with the calls that lead there, and its root
\* disk is the one its call asks for.
LEMMA ControlMoves ==
  ASSUME SessIInv, NEW s \in Sessions, Moves(s)
  PROVE Control'
<1>1. CallTypes /\ CallTypes' /\ CallOK(s) /\ ParentOK(s) /\ RootOK(s) /\ UNCHANGED <<opt, parent>>
  BY TypeParts, MoveFrame DEF SessIInv, Control
<1>2. \A t \in Sessions : /\ Op(t)' = Op(t) /\ RootOf(t)' = RootOf(t)
                          /\ t # s => pc'[t] = pc[t] /\ root'[t] = root[t] /\ base'[t] = base[t]
  BY <1>1, MoveFrame DEF Op, RootOf, Root, NoRoot, Own, User, Bundle, Cached, Disk, DiskOps, BuildOps
<1>3. pc[s] # "idle" /\ pc'[s] # "idle" /\ (pc[s] \in Over => pc'[s] \in Over) /\ OpsFit(s)
  BY <1>1, MoveFrame DEF CallOK
<1>4. Op(s) \in Ops
  BY <1>3, RequestFacts DEF OpsFit, Op
<1>5. ASSUME NEW t \in Sessions, t # s PROVE CallOK(t)' /\ RootOK(t)'
  <2>1. CallOK(t) /\ RootOK(t)
    BY DEF SessIInv, Control
  <2> QED
    BY <1>1, <1>2, <1>5, <2>1 DEF CallOK, OpsFit, RootOK
<1>6. ASSUME NEW t \in Sessions PROVE ParentOK(t)'
  <2>1. ParentOK(t) /\ CallOK(t)
    BY DEF SessIInv, Control
  <2>2. parent[t] # None => parent[t] \in Sessions
    BY <1>1 DEF CallTypes
  <2> QED
    BY <1>1, <1>2, <1>3, <2>1, <2>2 DEF ParentOK, Over
<1>7. (OpsFit(s) /\ RootOK(s))' /\ (base[s] # None => pc[s] \in Past /\ Op(s) \in VmOps)'
  <2>1. CASE UseGiven(s)
    <3>1. /\ pc[s] = "source" /\ base' = base
          /\ pc'[s] = IF Op(s) = "snapshotOf" THEN "clear" ELSE "overlay"
          /\ Op(s) \in {"rootfs", "restore", "template", "snapshotOf", "disk"}
      BY <1>1, <2>1 DEF UseGiven, Goto, CallTypes
    <3>2. root'[s] = RootOf(s)
      <4>1. CASE Op(s) = "disk"
        <5>1. root'[s] = Root(Disk, FALSE, TRUE)
          BY <1>1, <2>1, <4>1 DEF UseGiven, SetRoot, CallTypes
        <5> QED
          BY <4>1, <5>1, RootIs DEF DiskOps
      <4>2. CASE Op(s) = "restore"
        <5>1. root'[s] = Root(Bundle, FALSE, FALSE)
          BY <1>1, <2>1, <4>2 DEF UseGiven, SetRoot, CallTypes
        <5> QED
          BY <4>2, <5>1, RootIs
      <4>3. CASE Op(s) = "template"
        <5>1. root'[s] = Root(Own(parent[s]), FALSE, FALSE)
          BY <1>1, <2>1, <4>3 DEF UseGiven, SetRoot, CallTypes
        <5> QED
          BY <4>3, <5>1, RootIs
      <4>4. CASE Op(s) \in {"rootfs", "snapshotOf"}
        <5>1. root'[s] = Root(User, FALSE, FALSE)
          BY <1>1, <2>1, <4>4 DEF UseGiven, SetRoot, CallTypes
        <5> QED
          BY <4>4, <5>1, RootIs DEF Root, NoRoot
      <4> QED
        BY <3>1, <4>1, <4>2, <4>3, <4>4
    <3> QED
      BY <1>1, <1>2, <1>3, <1>4, <3>1, <3>2 DEF CallOK, OpsFit, RootOK, Past, Rooted, SnapshotOps, VmOps, RunOps,
            DiskOps
  <2>2. CASE CheckCache(s) \/ Install(s)
    <3>1. /\ pc[s] \in {"source", "install"} /\ base' = base /\ Op(s) \in CacheOps
          /\ \/ pc'[s] = "overlay" /\ Op(s) = "image" /\ root'[s] = Root(Cached, TRUE, FALSE)
             \/ pc'[s] = "copy" /\ Op(s) \in DiskOps
             \/ pc'[s] = "fetch"
      BY <1>1, <1>3, <2>2 DEF CheckCache, Install, NewDisk, OpsFit, Goto, SetRoot, CallTypes,
            DiskOps, CacheOps, AfterBase
    <3>2. Op(s) = "image" => RootOf(s) = Root(Cached, TRUE, FALSE)
      BY RootIs
    <3> QED
      BY <1>1, <1>2, <1>3, <1>4, <3>1, <3>2 DEF CallOK, OpsFit, RootOK, Past, Rooted, VmOps, RunOps, CacheOps,
            DiskOps
  <2>3. CASE EndBuild(s)
    <3>1. pc[s] = "building" /\ base' = base /\ Op(s) \in CacheOps \union BuildOps
      BY <1>3, <2>3 DEF EndBuild, Goto, OpsFit
    <3>2. CASE Op(s) \in CacheOps
      <4>1. Cacheable(s) /\ Op(s) \notin BuildOps
        BY <3>2 DEF Cacheable, CacheOps, DiskOps, BuildOps
      <4>2. pc'[s] = "install"
        BY <1>1, <2>3, <4>1 DEF EndBuild, Goto, CallTypes, BuildOps
      <4> QED
        BY <1>1, <1>2, <1>3, <1>4, <3>1, <3>2, <4>2 DEF CallOK, OpsFit, RootOK, Past, Rooted, CacheOps, DiskOps
    <3>3. CASE Op(s) \in BuildOps
      <4>1. ~Cacheable(s)
        BY <3>3 DEF Cacheable, DiskOps, BuildOps
      <4>2. /\ pc'[s] = CASE Op(s) = "prepare" -> "ready" [] Op(s) = "snapshot" -> "clear"
                          [] Op(s) = "build" -> "overlay"
            /\ root'[s] = Root(Own(s), FALSE, FALSE)
        BY <1>1, <2>3, <3>3, <4>1 DEF EndBuild, Goto, SetRoot, CallTypes, BuildOps
      <4>3. RootOf(s) = Root(Own(s), FALSE, FALSE)
        BY <3>3, RootIs
      <4> QED
        BY <1>1, <1>2, <1>3, <1>4, <3>1, <3>3, <4>2, <4>3 DEF CallOK, OpsFit, RootOK, Past, Rooted, BuildOps,
              SnapshotOps, VmOps, RunOps
    <3> QED
      BY <3>1, <3>2, <3>3
  <2>4. CASE DiskAppeared(s) \/ RenameDisk(s)
    <3>1. /\ pc[s] \in {"copy", "rename"} /\ pc'[s] = "overlay" /\ base' = base /\ Op(s) \in DiskOps
          /\ root'[s] = Root(Disk, FALSE, TRUE)
      BY <1>1, <1>3, <2>4 DEF DiskAppeared, RenameDisk, OpsFit, Goto, SetRoot, CallTypes
    <3>2. RootOf(s) = Root(Disk, FALSE, TRUE)
      BY <3>1, RootIs
    <3> QED
      BY <1>1, <1>2, <1>3, <1>4, <3>1, <3>2 DEF CallOK, OpsFit, RootOK, Past, Rooted, VmOps, RunOps, DiskOps
  <2>5. CASE Open(s) \/ EndVm(s) \/ ReadResult(s) \/ AbortedVmEnds(s) \/ GuestWrites(s)
    <3>1. /\ root' = root
          /\ \/ pc[s] = "open" /\ pc'[s] = "running"
             \/ pc[s] = "running" /\ pc'[s] = "cleanNet" /\ base'[s] = None
             \/ pc[s] = "running" /\ pc'[s] = "result" /\ base'[s] = None /\ Op(s) \in RunOps
             \/ pc[s] = "result" /\ pc'[s] = "cleanNet" /\ base'[s] = base[s]
             \/ pc'[s] = pc[s] /\ base'[s] \in {None, base[s]}
      BY <1>1, <2>5 DEF Open, EndVm, ReadResult, AbortedVmEnds, GuestWrites, Goto, CallTypes, sessionVars
    <3> QED
      BY <1>1, <1>2, <1>3, <1>4, <3>1 DEF CallOK, OpsFit, RootOK, Past, Rooted
  <2>6. CASE \/ SetupNetwork(s) \/ StartFetch(s) \/ EndFetch(s) \/ SkipFetch(s) \/ StartBuild(s)
             \/ StartCopy(s) \/ EndCopy(s) \/ RemoveDisk(s) \/ MakeOverlay(s)
    <3>1. /\ UNCHANGED <<root, base>>
          /\ \/ pc[s] = "net" /\ pc'[s] = IF Op(s) = "boot" THEN "open" ELSE "source"
             \/ pc[s] = "overlay" /\ pc'[s] = IF Op(s) = "boot" THEN "net" ELSE "open"
             \/ pc[s] = "fetch" /\ pc'[s] \in {"fetching", "build"}
             \/ pc[s] = "fetching" /\ pc'[s] \in {"install", "build"}
             \/ pc[s] = "source" /\ pc'[s] = "build" /\ Op(s) \in BuildOps
             \/ pc[s] = "build" /\ pc'[s] = "building"
             \/ <<pc[s], pc'[s]>> \in {<<"copy", "copying">>, <<"copying", "replace">>, <<"replace", "rename">>}
      BY <1>1, <2>6 DEF SetupNetwork, StartFetch, EndFetch, SkipFetch, StartBuild, StartCopy, EndCopy,
            RemoveDisk, MakeOverlay, Goto, CallTypes, sessionVars, BuildOps
    <3>2. RootOf(s) = NoRoot \/ Op(s) # "boot"
      BY RootIs
    <3> QED
      BY <1>1, <1>2, <1>3, <1>4, <3>1, <3>2 DEF CallOK, OpsFit, RootOK, Past, Rooted
  <2>7. CASE \/ OpenFails(s) \/ Abort(s) \/ ClearBundle(s) \/ LinkBundle(s) \/ EndLinkCopy(s)
             \/ WriteManifest(s) \/ Fail(s) \/ Close(s) \/ CleanNet(s) \/ CleanOverlay(s) \/ CleanTemp(s)
    <3>1. /\ UNCHANGED <<root, base>>
          /\ \/ pc'[s] \in {"cleanNet", "cleanOverlay", "cleanTemp", "done"}
             \/ pc[s] = "clear" /\ pc'[s] \in {"clear", "link"}
             \/ pc[s] \in {"link", "linking"} /\ pc'[s] \in {"linking", "manifest"}
      BY <1>1, <2>7 DEF OpenFails, Abort, ClearBundle, LinkBundle, EndLinkCopy, WriteManifest, Fail, Close,
            CleanNet, CleanOverlay, CleanTemp, Goto, CallTypes, sessionVars
    <3> QED
      BY <1>1, <1>2, <1>3, <1>4, <3>1 DEF CallOK, OpsFit, RootOK, Past, Rooted
  <2> QED
    BY <2>1, <2>2, <2>3, <2>4, <2>5, <2>6, <2>7 DEF Moves
<1>8. CallOK(s)'
  BY <1>3, <1>7 DEF CallOK
<1> QED
  BY <1>5, <1>6, <1>7, <1>8 DEF Control

-----------------------------------------------------------------------------
(* The effects of a session's step on the files and the other sessions.     *)

\* Places are left for good, but for the boot that makes its overlay first.
LEMMA PlaceMoves ==
  ASSUME SessIInv, NEW s \in Sessions, Moves(s)
  PROVE /\ \A t \in Sessions : (Unbuilt(t)' => Unbuilt(t)) /\ (Uncopied(t)' => Uncopied(t))
        /\ \A t \in Sessions : (pc[t] \in Past => pc'[t] \in Past) /\ (t \in Active' => t \in Active)
        /\ \A ops : Called(ops)' = Called(ops)
<1>1. CallTypes /\ CallTypes' /\ CallOK(s) /\ OpsFit(s) /\ UNCHANGED <<opt, parent>> /\ pc[s] # "idle" /\ pc'[s] # "idle"
      /\ \A t \in Sessions : t # s => pc'[t] = pc[t]
  BY TypeParts, MoveFrame DEF SessIInv, Control, CallOK
<1>2. \A t \in Sessions : Op(t)' = Op(t)
  BY <1>1 DEF Op
<1>3. \A ops : Called(ops)' = Called(ops)
  BY <1>1, <1>2 DEF Called
<1>4. /\ Unbuilt(s)' => Unbuilt(s)
      /\ Uncopied(s)' => Uncopied(s)
      /\ pc[s] \in Past => pc'[s] \in Past
      /\ pc'[s] \notin {"idle", "done", "dead"} => pc[s] \notin {"idle", "done", "dead"}
  <2>1. CASE \/ SetupNetwork(s) \/ UseGiven(s) \/ CheckCache(s) \/ StartFetch(s) \/ EndFetch(s)
             \/ SkipFetch(s) \/ StartBuild(s) \/ Install(s)
    <3>1. /\ pc[s] \in {"net", "source", "fetch", "fetching", "build", "install"}
          /\ pc'[s] \notin {"done", "dead", "idle"} /\ pc'[s] = "overlay" => pc[s] \in {"source", "install"}
      BY <1>1, <2>1 DEF SetupNetwork, UseGiven, CheckCache, StartFetch, EndFetch, SkipFetch, StartBuild,
            Install, Goto, CallTypes, AfterBase
    <3> QED
      BY <1>1, <1>2, <3>1 DEF Unbuilt, Uncopied, Past, OpsFit
  <2>2. CASE EndBuild(s)
    <3>1. pc[s] = "building"
      BY <2>2 DEF EndBuild, Goto
    <3> QED
      BY <1>1, <1>2, <3>1 DEF Unbuilt, Uncopied, Past
  <2>3. CASE DiskAppeared(s) \/ StartCopy(s) \/ EndCopy(s) \/ RemoveDisk(s) \/ RenameDisk(s)
    <3>1. /\ pc[s] \in {"copy", "copying", "replace", "rename"} /\ Op(s) \in DiskOps
          /\ pc'[s] \in {"copying", "replace", "rename", "overlay"}
      BY <1>1, <2>3 DEF DiskAppeared, StartCopy, EndCopy, RemoveDisk, RenameDisk, Goto, CallTypes, OpsFit
    <3> QED
      BY <1>1, <1>2, <3>1 DEF Unbuilt, Uncopied, Past, DiskOps
  <2>4. CASE MakeOverlay(s)
    <3>1. pc[s] = "overlay" /\ pc'[s] = IF Op(s) = "boot" THEN "net" ELSE "open"
      BY <1>1, <2>4 DEF MakeOverlay, Goto, CallTypes
    <3> QED
      BY <1>1, <1>2, <3>1 DEF Unbuilt, Uncopied, Past
  <2>5. CASE \/ Open(s) \/ OpenFails(s) \/ EndVm(s) \/ ReadResult(s) \/ Abort(s) \/ ClearBundle(s) \/ LinkBundle(s)
             \/ EndLinkCopy(s) \/ WriteManifest(s) \/ Close(s) \/ CleanNet(s) \/ CleanOverlay(s) \/ CleanTemp(s)
             \/ Fail(s)
    <3>1. /\ pc[s] \notin {"idle", "done", "dead"}
          /\ \/ pc[s] = "clear" /\ pc'[s] \in {"clear", "link"}
             \/ pc[s] \notin Past /\ pc'[s] \in {"linking", "manifest", "running"}
             \/ pc[s] = "running" /\ pc'[s] = "result"
             \/ pc'[s] \in {"cleanNet", "cleanOverlay", "cleanTemp", "done"}
      BY <1>1, <2>5 DEF Open, OpenFails, EndVm, ReadResult, Abort, ClearBundle, LinkBundle, EndLinkCopy, WriteManifest,
            Close, CleanNet, CleanOverlay, CleanTemp, Fail, FailPoints, Goto, CallTypes, Past
    <3> QED
      BY <1>1, <1>2, <3>1 DEF Unbuilt, Uncopied, Past
  <2>6. CASE GuestWrites(s) \/ AbortedVmEnds(s)
    <3>1. pc' = pc
      BY <2>6 DEF GuestWrites, AbortedVmEnds
    <3> QED
      BY <1>1, <1>2, <3>1 DEF Unbuilt, Uncopied
  <2> QED
    BY <2>1, <2>2, <2>3, <2>4, <2>5, <2>6 DEF Moves
<1>5. ASSUME NEW t \in Sessions, t # s PROVE /\ (Unbuilt(t)' => Unbuilt(t)) /\ (Uncopied(t)' => Uncopied(t))
                                             /\ (t \in Active' => t \in Active)
  BY <1>1, <1>2, <1>5 DEF Unbuilt, Uncopied, Active
<1>6. s \in Active' => s \in Active
  BY <1>4 DEF Active
<1> QED
  BY <1>1, <1>3, <1>4, <1>5, <1>6

\* The root disk is chosen before the VM opens it.
LEMMA RootMoves ==
  ASSUME SessIInv, NEW s \in Sessions, Moves(s)
  PROVE /\ root'[s] = root[s] \/ (base'[s] = None /\ pc[s] \notin Past)
        /\ base'[s] = base[s] \/ base'[s] = None \/ (Open(s) /\ base'[s] = fs[root[s].path])
<1>1. CallTypes /\ CallOK(s)
  BY TypeParts DEF SessIInv, Control
<1>2. CASE UseGiven(s) \/ CheckCache(s) \/ EndBuild(s) \/ Install(s) \/ DiskAppeared(s) \/ RenameDisk(s)
  <2>1. base' = base /\ pc[s] \in {"source", "building", "install", "copy", "rename"}
    BY <1>2 DEF UseGiven, CheckCache, EndBuild, Install, DiskAppeared, RenameDisk, Goto
  <2> QED
    BY <1>1, <2>1 DEF CallOK, Past
<1>3. CASE Open(s) \/ EndVm(s) \/ AbortedVmEnds(s)
  BY <1>1, <1>3 DEF Open, EndVm, AbortedVmEnds, CallTypes
<1>4. CASE \/ SetupNetwork(s) \/ StartFetch(s) \/ EndFetch(s) \/ SkipFetch(s) \/ StartBuild(s)
           \/ StartCopy(s) \/ EndCopy(s) \/ RemoveDisk(s) \/ MakeOverlay(s) \/ OpenFails(s) \/ GuestWrites(s)
           \/ Abort(s) \/ ClearBundle(s) \/ LinkBundle(s) \/ EndLinkCopy(s) \/ WriteManifest(s)
           \/ Fail(s) \/ ReadResult(s) \/ Close(s) \/ CleanNet(s) \/ CleanOverlay(s) \/ CleanTemp(s)
  <2>1. UNCHANGED <<root, base>>
    BY <1>4 DEF SetupNetwork, StartFetch, EndFetch, SkipFetch, StartBuild, StartCopy, EndCopy, RemoveDisk,
          MakeOverlay, OpenFails, GuestWrites, Abort, ClearBundle, LinkBundle, EndLinkCopy, WriteManifest,
          Fail, ReadResult, Close, CleanNet, CleanOverlay, CleanTemp, sessionVars
  <2> QED
    BY <2>1
<1> QED
  BY <1>2, <1>3, <1>4 DEF Moves

\* What a complete file and a guest's writes undergo: only a maker starts its
\* own, unpublished, file anew, and only a guest adds to its own root disk.
LEMMA InodeMoves ==
  ASSUME SessIInv, NEW s \in Sessions, Moves(s)
  PROVE /\ \A i \in whole : \/ i \in whole'
                            \/ i = ImageOf(s) /\ pc[s] \in {"fetch", "build"}
                            \/ i = CopyOf(s) /\ pc[s] \in {"copy", "link"}
        /\ \A t \in Sessions, i \in Inodes :
             t \in writers'[i] => t \in writers[i] \/ (GuestWrites(s) /\ t = s /\ i = base[s])
<1>1. FileTypes /\ CallTypes /\ ImageOf(s) \in Inodes /\ CopyOf(s) \in Inodes
  BY TypeParts, InodeFacts DEF SessIInv
<1>2. CASE StartFetch(s) \/ StartBuild(s)
  <2>1. PICK p : Create(p, ImageOf(s)) /\ pc[s] \in {"fetch", "build"}
    BY <1>2 DEF StartFetch, StartBuild, Goto
  <2> QED
    BY <1>1, <2>1 DEF Create, FileTypes
<1>3. CASE StartCopy(s) \/ LinkBundle(s)
  <2>1. CASE UNCHANGED <<whole, writers>>
    BY <2>1
  <2>2. CASE pc[s] \in {"copy", "link"} /\ \E p : Create(p, CopyOf(s))
    BY <1>1, <2>2 DEF Create, FileTypes
  <2> QED
    BY <1>3, <2>1, <2>2 DEF StartCopy, LinkBundle, Goto
<1>4. CASE EndFetch(s) \/ EndBuild(s) \/ EndCopy(s) \/ EndLinkCopy(s)
  <2>1. whole \subseteq whole' /\ writers' = writers
    BY <1>4 DEF EndFetch, EndBuild, EndCopy, EndLinkCopy
  <2> QED
    BY <2>1
<1>5. CASE GuestWrites(s)
  <2>1. whole' = whole /\ base[s] \in Inodes /\ writers' = [writers EXCEPT ![base[s]] = @ \union {s}]
    BY <1>1, <1>5 DEF GuestWrites, CallTypes
  <2> QED
    BY <1>1, <1>5, <2>1 DEF FileTypes
<1>6. CASE \/ SetupNetwork(s) \/ UseGiven(s) \/ CheckCache(s) \/ SkipFetch(s) \/ Install(s) \/ DiskAppeared(s)
           \/ RemoveDisk(s) \/ RenameDisk(s) \/ MakeOverlay(s) \/ Open(s) \/ OpenFails(s) \/ EndVm(s) \/ ReadResult(s)
           \/ Abort(s) \/ AbortedVmEnds(s) \/ ClearBundle(s) \/ WriteManifest(s) \/ Fail(s) \/ Close(s)
           \/ CleanNet(s) \/ CleanOverlay(s) \/ CleanTemp(s)
  <2>1. UNCHANGED <<whole, writers>>
    BY <1>6 DEF SetupNetwork, UseGiven, CheckCache, SkipFetch, Install, DiskAppeared, RemoveDisk,
          RenameDisk, MakeOverlay, Open, OpenFails, EndVm, ReadResult, Abort, AbortedVmEnds, ClearBundle, WriteManifest,
          Fail, Close, CleanNet, CleanOverlay, CleanTemp, fileVars
  <2> QED
    BY <2>1
<1> QED
  BY <1>2, <1>3, <1>4, <1>5, <1>6 DEF Moves

\* The names a step changes.
LEMMA NameMoves ==
  ASSUME SessIInv, NEW s \in Sessions, Moves(s)
  PROVE /\ fs'[User] = User
        /\ fs'[Cached] = fs[Cached] \/ (Install(s) /\ fs'[Cached] = ImageOf(s))
        /\ \/ fs'[Disk] = fs[Disk] \/ fs'[Disk] = None
           \/ RenameDisk(s) /\ fs'[Disk] = CopyOf(s)
        /\ \/ fs'[Bundle] = fs[Bundle]
           \/ ClearBundle(s) /\ fs'[Bundle] = None
           \/ /\ LinkBundle(s)
              /\ \/ fs'[Bundle] \in {None, CopyOf(s)}
                 \/ fs'[Bundle] = User /\ Op(s) = "snapshotOf" /\ whole' = whole
                 \/ fs'[Bundle] = ImageOf(s) /\ Op(s) = "snapshot" /\ whole' = whole
        /\ \A t \in Sessions : t # s =>
             fs'[Tmp(t)] = fs[Tmp(t)] /\ fs'[Own(t)] = fs[Own(t)] /\ fs'[CopyTmp(t)] = fs[CopyTmp(t)]
        /\ fs'[Tmp(s)] \in {None, ImageOf(s)} /\ fs'[Own(s)] \in {None, ImageOf(s)}
        /\ fs'[CopyTmp(s)] \in {None, CopyOf(s)}
<1>1. FileTypes /\ CallTypes /\ Names /\ OpsFit(s) /\ RootOK(s) /\ CompleteAt(s)
  BY TypeParts, MoveFrame DEF SessIInv, Control, CallOK, Complete
<1>2. /\ fs[User] = User /\ fs[Tmp(s)] \in {None, ImageOf(s)} /\ fs[Own(s)] \in {None, ImageOf(s)}
      /\ fs[CopyTmp(s)] \in {None, CopyOf(s)}
  BY <1>1 DEF Names
<1>3. CASE StartFetch(s) \/ StartBuild(s)
  <2>1. PICK p \in {Tmp(s), Own(s)} : fs' = [fs EXCEPT ![p] = ImageOf(s)]
    BY <1>3 DEF StartFetch, StartBuild, BuildOutput, Create
  <2> QED
    BY <1>1, <1>2, <2>1, PathFacts DEF FileTypes
<1>4. CASE EndFetch(s) \/ RemoveDisk(s) \/ CleanTemp(s)
  <2>1. fs' = fs \/ \E p \in {Tmp(s), Own(s), Disk} : fs' = [fs EXCEPT ![p] = None]
    BY <1>4 DEF EndFetch, RemoveDisk, CleanTemp
  <2> QED
    BY <1>1, <1>2, <2>1, PathFacts DEF FileTypes
<1>5. CASE StartCopy(s)
  BY <1>1, <1>2, <1>5, PathFacts DEF FileTypes, StartCopy, Create
<1>6. CASE Install(s)
  <2>1. fs[Tmp(s)] = ImageOf(s)
    BY <1>1, <1>6 DEF Install, Goto, CompleteAt
  <2>2. fs' = [fs EXCEPT ![Cached] = ImageOf(s), ![Tmp(s)] = None]
    BY <1>6, <2>1 DEF Install
  <2> QED
    BY <1>1, <1>2, <1>6, <2>2, PathFacts DEF FileTypes
<1>7. CASE RenameDisk(s)
  <2>1. fs' = [fs EXCEPT ![Disk] = fs[CopyTmp(s)], ![CopyTmp(s)] = None]
    BY <1>7 DEF RenameDisk
  <2> QED
    BY <1>1, <1>2, <1>7, <2>1, PathFacts DEF FileTypes
<1>8. CASE Fail(s)
  <2>1. fs' = [fs EXCEPT ![Tmp(s)] = None, ![CopyTmp(s)] = None]
    BY <1>8 DEF Fail
  <2> QED
    BY <1>1, <1>2, <2>1, PathFacts DEF FileTypes
<1>9. CASE ClearBundle(s)
  <2>1. fs' = fs \/ fs' = [fs EXCEPT ![Bundle] = None]
    BY <1>9 DEF ClearBundle
  <2> QED
    BY <1>1, <1>2, <1>9, <2>1, PathFacts DEF FileTypes
<1>10. CASE LinkBundle(s)
  <2>1. pc[s] = "link" /\ Op(s) \in {"snapshot", "snapshotOf"} /\ root[s] = RootOf(s)
    BY <1>1, <1>10 DEF LinkBundle, Goto, OpsFit, SnapshotOps, RootOK, Rooted
  <2>2. root[s].path = IF Op(s) = "snapshot" THEN Own(s) ELSE User
    <3>1. CASE Op(s) = "snapshot"
      BY <2>1, <3>1, RootIs DEF BuildOps, Root
    <3>2. CASE Op(s) = "snapshotOf"
      <4>1. root[s] = NoRoot
        BY <2>1, <3>2, RootIs
      <4> QED
        BY <3>2, <4>1 DEF NoRoot
    <3> QED
      BY <2>1, <3>1, <3>2
  <2>3. PICK i : /\ fs' = [fs EXCEPT ![Bundle] = i]
                 /\ i = CopyOf(s) \/ (i = fs[root[s].path] /\ whole' = whole)
    BY <1>10 DEF LinkBundle, Create
  <2> QED
    BY <1>1, <1>2, <1>10, <2>1, <2>2, <2>3, PathFacts DEF FileTypes
<1>11. CASE \/ SetupNetwork(s) \/ UseGiven(s) \/ CheckCache(s) \/ SkipFetch(s) \/ EndBuild(s) \/ DiskAppeared(s)
            \/ EndCopy(s) \/ MakeOverlay(s) \/ Open(s) \/ OpenFails(s) \/ GuestWrites(s) \/ EndVm(s) \/ ReadResult(s)
            \/ Abort(s) \/ AbortedVmEnds(s) \/ EndLinkCopy(s) \/ WriteManifest(s) \/ Close(s)
            \/ CleanNet(s) \/ CleanOverlay(s)
  <2>1. fs' = fs
    BY <1>11 DEF SetupNetwork, UseGiven, CheckCache, SkipFetch, EndBuild, DiskAppeared, EndCopy,
          MakeOverlay, Open, OpenFails, GuestWrites, EndVm, ReadResult, Abort, AbortedVmEnds, EndLinkCopy, WriteManifest,
          Close, CleanNet, CleanOverlay, fileVars
  <2> QED
    BY <1>2, <2>1
<1> QED
  BY <1>3, <1>4, <1>5, <1>6, <1>7, <1>8, <1>9, <1>10, <1>11 DEF Moves

\* The file a VM opens, by the call it was started with.
LEMMA Opened ==
  ASSUME SessIInv, NEW s \in Sessions, Open(s), NEW b, b = fs[root[s].path]
  PROVE \/ Op(s) \in {"boot", "rootfs"} /\ b = User
        \/ Op(s) = "restore" /\ b = fs[Bundle]
        \/ Op(s) = "template" /\ b = ImageOf(parent[s]) /\ parent[s] \in Sessions
        \/ Op(s) = "image" /\ b = fs[Cached] /\ NeedsOverlay(s)
        \/ Op(s) \in DiskOps /\ b = fs[Disk]
        \/ Op(s) = "build" /\ b = ImageOf(s)
<1>1. CallTypes /\ Names /\ CallOK(s) /\ RootOK(s) /\ ParentOK(s) /\ pc[s] = "open" /\ b # None
  BY TypeParts DEF SessIInv, Control, Open, Goto
<1>2. Op(s) \in VmOps /\ root[s] = RootOf(s)
  BY <1>1 DEF CallOK, OpsFit, RootOK, Rooted
<1>3. CASE Op(s) \in {"boot", "rootfs"}
  <2>1. root[s] = NoRoot
    BY <1>2, <1>3, RootIs
  <2> QED
    BY <1>1, <1>3, <2>1 DEF NoRoot, Names
<1>4. CASE Op(s) = "restore"
  BY <1>2, <1>4, RootIs DEF Root
<1>5. CASE Op(s) = "template"
  <2>1. parent[s] \in Sessions
    BY <1>1, <1>5 DEF ParentOK, CallTypes
  <2>2. root[s].path = Own(parent[s])
    BY <1>2, <1>5, RootIs DEF Root
  <2> QED
    BY <1>1, <1>5, <2>1, <2>2 DEF Names
<1>6. CASE Op(s) = "image"
  BY <1>2, <1>6, RootIs DEF Root, NeedsOverlay
<1>7. CASE Op(s) \in DiskOps
  BY <1>2, <1>7, RootIs DEF Root
<1>8. CASE Op(s) = "build"
  <2>1. root[s].path = Own(s)
    BY <1>2, <1>8, RootIs DEF Root, BuildOps
  <2> QED
    BY <1>1, <1>8, <2>1 DEF Names
<1> QED
  BY <1>2, <1>3, <1>4, <1>5, <1>6, <1>7, <1>8 DEF VmOps, RunOps

-----------------------------------------------------------------------------
(* The images.                                                              *)

LEMMA NamesMoves ==
  ASSUME SessIInv, NEW s \in Sessions, Moves(s)
  PROVE Names'
<1>1. Names /\ OpsFit(s) /\ pc[s] # "idle"
  BY MoveFrame DEF SessIInv, Control, CallOK
<1>2. CacheFiles' = CacheFiles /\ DiskFiles' = DiskFiles /\ BundleFiles' = BundleFiles
  <2>1. \A ops : Called(ops)' = Called(ops)
    BY PlaceMoves
  <2>2. /\ Called(CacheOps)' = Called(CacheOps) /\ Called(DiskOps)' = Called(DiskOps)
        /\ Called({"snapshot"})' = Called({"snapshot"}) /\ Called(SnapshotOps)' = Called(SnapshotOps)
    BY <2>1
  <2> QED
    BY <2>2 DEF CacheFiles, DiskFiles, BundleFiles, ImageOf, CopyOf, Cached, Disk, Bundle, User
<1>3. fs'[Cached] \in CacheFiles
  <2>1. CASE Install(s)
    BY <1>1, <2>1, NameMoves DEF Install, Goto, OpsFit, CacheFiles, Called, Names
  <2> QED
    BY <1>1, <2>1, NameMoves DEF Names
<1>4. fs'[Disk] \in DiskFiles
  <2>1. CASE RenameDisk(s)
    BY <1>1, <2>1, NameMoves DEF RenameDisk, Goto, OpsFit, DiskFiles, Called, Names
  <2>2. None \in DiskFiles
    BY DEF DiskFiles
  <2> QED
    BY <1>1, <2>1, <2>2, NameMoves DEF Names
<1>5. fs'[Bundle] \in BundleFiles
  <2>1. CASE LinkBundle(s)
    <3>1. s \in Called(SnapshotOps) /\ (Op(s) = "snapshot" => s \in Called({"snapshot"}))
      BY <1>1, <2>1 DEF LinkBundle, Goto, OpsFit, Called
    <3> QED
      BY <1>1, <2>1, <3>1, NameMoves DEF BundleFiles, Names
  <2>2. None \in BundleFiles
    BY DEF BundleFiles
  <2> QED
    BY <1>1, <2>1, <2>2, NameMoves DEF Names
<1>6. ASSUME NEW t \in Sessions
      PROVE /\ fs'[Tmp(t)] \in {None, ImageOf(t)} /\ fs'[Own(t)] \in {None, ImageOf(t)}
            /\ fs'[CopyTmp(t)] \in {None, CopyOf(t)}
  BY <1>1, NameMoves DEF Names
<1>7. fs'[User] = User
  BY NameMoves
<1>8. /\ fs'[Cached] \in CacheFiles' /\ fs'[Disk] \in DiskFiles' /\ fs'[Bundle] \in BundleFiles'
  BY <1>2, <1>3, <1>4, <1>5
<1> QED
  BY <1>6, <1>7, <1>8 DEF Names, User, Cached, Disk, Bundle, Tmp, Own, CopyTmp, ImageOf, CopyOf

\* What a VM opens is not the unpublished file of a session.
LEMMA OpensPublished ==
  ASSUME SessIInv, NEW s \in Sessions, Open(s), NEW t \in Sessions
  PROVE /\ Unbuilt(t) => fs[root[s].path] # ImageOf(t)
        /\ Uncopied(t) => fs[root[s].path] # CopyOf(t)
<1>1. PICK b : b = fs[root[s].path]
  OBVIOUS
<1>2. /\ Unbuilt(t) => Unpublished(ImageOf(t))
      /\ Uncopied(t) => Unpublished(CopyOf(t))
  BY DEF SessIInv, Private
<1>3. pc[s] = "open" /\ ParentOK(s)
  BY DEF SessIInv, Control, Open, Goto
<1>4. s = t => ~Unbuilt(t)
  BY <1>3 DEF Unbuilt
<1>5. parent[s] \in Sessions /\ parent[s] = t => ~Unbuilt(t)
  BY <1>3, SessionBoundsAssumption DEF ParentOK, Unbuilt
<1>6. CASE Op(s) \in {"boot", "rootfs"} /\ b = User
  BY <1>1, <1>6, InodeFacts
<1>7. CASE b = fs[Bundle] \/ b = fs[Cached] \/ b = fs[Disk]
  BY <1>1, <1>2, <1>7 DEF Unpublished
<1>8. CASE b = ImageOf(parent[s]) /\ parent[s] \in Sessions
  BY <1>1, <1>5, <1>8, InodeFacts
<1>9. CASE b = ImageOf(s)
  BY <1>1, <1>4, <1>9, InodeFacts
<1> QED
  BY <1>1, <1>6, <1>7, <1>8, <1>9, Opened

LEMMA PrivateMoves ==
  ASSUME SessIInv, NEW s \in Sessions, Moves(s)
  PROVE Private'
<1>1. CallTypes /\ FileTypes /\ FileTypes' /\ Private /\ OpsFit(s)
  BY TypeParts, FileTypesStep, MoveFrame DEF SessIInv, Control, CallOK, SessStep
<1>2. ASSUME NEW i \in Inodes, Unpublished(i),
             Install(s) => i # ImageOf(s), RenameDisk(s) => i # CopyOf(s),
             LinkBundle(s) => i # CopyOf(s) /\ i # ImageOf(s) /\ i # User,
             Open(s) => i # fs[root[s].path], i # None
      PROVE Unpublished(i)'
  <2>1. fs'[Cached] # i /\ fs'[Disk] # i /\ fs'[Bundle] # i
    BY <1>2, NameMoves DEF Unpublished
  <2>2. \A u \in Sessions : base'[u] # i
    BY <1>2, RootMoves, MoveFrame DEF Unpublished
  <2>3. writers'[i] = {}
    <3>1. \A u \in Sessions : u \notin writers'[i]
      BY <1>2, InodeMoves DEF Unpublished
    <3>2. writers'[i] \subseteq Sessions
      BY <1>1 DEF FileTypes
    <3> QED
      BY <3>1, <3>2
  <2> QED
    BY <2>1, <2>2, <2>3 DEF Unpublished, Cached, Disk, Bundle
<1>3. ASSUME NEW t \in Sessions, Unbuilt(t)' PROVE Unpublished(ImageOf(t))'
  <2>1. Unbuilt(t) /\ Unpublished(ImageOf(t))
    BY <1>1, <1>3, PlaceMoves DEF Private
  <2>2. Install(s) \/ LinkBundle(s) => ~Unbuilt(s)'
    <3>1. Install(s) \/ LinkBundle(s) => pc'[s] \in {"copy", "overlay", "manifest", "linking"} /\ pc[s] \in {"install", "link"} /\ opt' = opt
      BY <1>1 DEF Install, LinkBundle, Goto, AfterBase, CallTypes, sessionVars
    <3>2. Install(s) \/ LinkBundle(s) => Op(s) # "boot"
      BY <1>1, <3>1 DEF OpsFit, CacheOps, DiskOps, SnapshotOps
    <3> QED
      BY <3>1, <3>2 DEF Unbuilt, Op
  <2>3. Install(s) \/ LinkBundle(s) => ImageOf(t) # ImageOf(s)
    BY <1>3, <2>2, InodeFacts
  <2>4. Open(s) => ImageOf(t) # fs[root[s].path]
    BY <2>1, OpensPublished
  <2>5. ImageOf(t) \in Inodes /\ ImageOf(t) # None /\ ImageOf(t) # CopyOf(s) /\ ImageOf(t) # User
    BY InodeFacts
  <2>6. PICK i \in Inodes : i = ImageOf(t)
    BY <2>5
  <2>7. Unpublished(i)'
    BY <1>2, <2>1, <2>3, <2>4, <2>5, <2>6
  <2> QED
    BY <2>6, <2>7 DEF ImageOf
<1>4. ASSUME NEW t \in Sessions, Uncopied(t)' PROVE Unpublished(CopyOf(t))'
  <2>1. Uncopied(t) /\ Unpublished(CopyOf(t))
    BY <1>1, <1>4, PlaceMoves DEF Private
  <2>2. RenameDisk(s) \/ LinkBundle(s) => ~Uncopied(s)'
    <3>1. RenameDisk(s) \/ LinkBundle(s) => pc'[s] \in {"overlay", "manifest", "linking"} /\ pc[s] \in {"rename", "link"} /\ opt' = opt
      BY <1>1 DEF RenameDisk, LinkBundle, Goto, CallTypes, sessionVars
    <3>2. RenameDisk(s) \/ LinkBundle(s) => Op(s) # "boot"
      BY <1>1, <3>1 DEF OpsFit, DiskOps, SnapshotOps
    <3> QED
      BY <3>1, <3>2 DEF Unbuilt, Uncopied, Op
  <2>3. RenameDisk(s) \/ LinkBundle(s) => CopyOf(t) # CopyOf(s)
    BY <1>4, <2>2, InodeFacts
  <2>4. Open(s) => CopyOf(t) # fs[root[s].path]
    BY <2>1, OpensPublished
  <2>5. CopyOf(t) \in Inodes /\ CopyOf(t) # None /\ CopyOf(t) # ImageOf(s) /\ CopyOf(t) # User
    BY InodeFacts
  <2>6. PICK i \in Inodes : i = CopyOf(t)
    BY <2>5
  <2>7. Unpublished(i)'
    BY <1>2, <2>1, <2>3, <2>4, <2>5, <2>6
  <2> QED
    BY <2>6, <2>7 DEF CopyOf
<1> QED
  BY <1>3, <1>4 DEF Private

\* A published file that is complete stays so.
LEMMA WholeStays ==
  ASSUME SessIInv, NEW s \in Sessions, Moves(s), NEW i \in whole
  PROVE \/ i \in whole'
        \/ i = ImageOf(s) /\ Unbuilt(s) /\ Unpublished(i)
        \/ i = CopyOf(s) /\ Uncopied(s) /\ Unpublished(i)
  BY InodeMoves DEF SessIInv, Private, Unbuilt, Uncopied

LEMMA CompleteMoves ==
  ASSUME SessIInv, NEW s \in Sessions, Moves(s)
  PROVE Complete'
<1>1. /\ FileTypes /\ CallTypes /\ CallTypes' /\ Complete /\ Names /\ OpsFit(s) /\ UNCHANGED <<opt, parent>>
      /\ pc[s] # "idle" /\ ParentOK(s)
  BY TypeParts, MoveFrame DEF SessIInv, Control, CallOK
<1>2. OldInodes \subseteq whole'
  BY <1>1, InodeMoves, InodeFacts DEF Complete
<1>3. fs'[Cached] # None => fs'[Cached] \in whole'
  <2>1. CASE Install(s)
    <3>1. ImageOf(s) \in whole /\ whole' = whole
      BY <1>1, <2>1 DEF Install, Goto, Complete, CompleteAt
    <3> QED
      BY <1>1, <2>1, <3>1, NameMoves DEF Complete
  <2>2. CASE ~Install(s)
    BY <1>1, <2>2, NameMoves, WholeStays DEF Complete, Unpublished
  <2> QED
    BY <2>1, <2>2
<1>4. fs'[Disk] # None => fs'[Disk] \in whole'
  <2>1. CASE RenameDisk(s)
    <3>1. CopyOf(s) \in whole /\ whole' = whole
      BY <1>1, <2>1 DEF RenameDisk, Goto, Complete, CompleteAt
    <3> QED
      BY <1>1, <2>1, <3>1, NameMoves DEF Complete
  <2>2. CASE ~RenameDisk(s)
    BY <1>1, <2>2, NameMoves, WholeStays DEF Complete, Unpublished
  <2> QED
    BY <2>1, <2>2
<1>5. fs[Cached] # None => fs'[Cached] # None
  BY NameMoves, InodeFacts
<1>6. ASSUME NEW t \in Sessions, parent[t] # None PROVE ImageOf(parent[t]) \in whole'
  <2>1. parent[t] \in Sessions /\ ImageOf(parent[t]) \in whole /\ ~Unbuilt(parent[t])
    BY <1>1, <1>6 DEF CallTypes, Complete, CompleteAt, SessIInv, Control, ParentOK, Unbuilt
  <2> QED
    BY <2>1, WholeStays, InodeFacts
<1>7. ASSUME NEW t \in Sessions, t # s PROVE CompleteAt(t)'
  <2>1. CompleteAt(t) /\ pc'[t] = pc[t] /\ fs'[Tmp(t)] = fs[Tmp(t)]
    BY <1>1, <1>7, MoveFrame, NameMoves DEF Complete
  <2>2. (ImageOf(t) \in whole => ImageOf(t) \in whole') /\ (CopyOf(t) \in whole => CopyOf(t) \in whole')
    BY <1>7, InodeMoves, InodeFacts
  <2> QED
    BY <1>1, <1>5, <1>6, <2>1, <2>2 DEF CompleteAt, Op, Tmp, Cached, ImageOf, CopyOf
<1>8. CompleteAt(s)'
  <2>0. CompleteAt(s) /\ Op(s)' = Op(s)
    BY <1>1 DEF Complete, Op
  <2>1. parent[s] # None => ImageOf(parent[s]) \in whole'
    BY <1>6
  <2>2. CASE StartFetch(s) \/ StartBuild(s)
    <3>1. /\ pc'[s] \in {"fetching", "building"}
          /\ pc'[s] = "building" => pc[s] = "build" /\ fs' = [fs EXCEPT ![BuildOutput(s)] = ImageOf(s)]
          /\ pc'[s] = "fetching" => fs' = [fs EXCEPT ![Tmp(s)] = ImageOf(s)]
      BY <1>1, <2>2 DEF StartFetch, StartBuild, Goto, CallTypes, Create
    <3>2. Op(s) \in CacheOps => BuildOutput(s) = Tmp(s)
      BY DEF CacheOps, BuildOutput, Cacheable
    <3>3. pc'[s] = "fetching" \/ Op(s) \in CacheOps => fs'[Tmp(s)] = ImageOf(s)
      BY <1>1, <3>1, <3>2, PathFacts DEF FileTypes
    <3> QED
      BY <1>1, <2>0, <2>1, <3>1, <3>3 DEF CompleteAt, Rooted, Tmp, ImageOf
  <2>3. CASE EndFetch(s) \/ EndBuild(s)
    <3>1. /\ pc[s] \in {"fetching", "building"} /\ pc'[s] \notin {"fetching", "building", "copy", "copying", "replace", "rename"}
          /\ pc'[s] = "build" \/ (ImageOf(s) \in whole' /\ fs' = fs)
          /\ pc'[s] = "install" => pc[s] = "fetching" \/ Op(s) \in CacheOps
      <4>1. CASE EndFetch(s)
        BY <1>1, <4>1 DEF EndFetch, Goto, CallTypes
      <4>2. CASE EndBuild(s)
        <5>1. pc[s] = "building" /\ ImageOf(s) \in whole' /\ fs' = fs
          BY <4>2 DEF EndBuild, Goto
        <5>2. CASE Op(s) \in CacheOps
          <6>1. Cacheable(s) /\ Op(s) \notin BuildOps
            BY <5>2 DEF Cacheable, CacheOps, DiskOps, BuildOps
          <6>2. pc'[s] = "install"
            BY <1>1, <4>2, <6>1 DEF EndBuild, Goto, CallTypes, BuildOps
          <6> QED
            BY <5>1, <5>2, <6>2
        <5>3. CASE Op(s) \in BuildOps
          <6>1. ~Cacheable(s)
            BY <5>3 DEF Cacheable, DiskOps, BuildOps
          <6>2. pc'[s] \in {"ready", "clear", "overlay"}
            BY <1>1, <4>2, <5>3, <6>1 DEF EndBuild, Goto, CallTypes, BuildOps
          <6> QED
            BY <5>1, <6>2
        <5> QED
          BY <1>1, <5>1, <5>2, <5>3 DEF OpsFit
      <4> QED
        BY <2>3, <4>1, <4>2
    <3> QED
      BY <1>1, <2>0, <2>1, <3>1 DEF CompleteAt, Rooted, Tmp, ImageOf
  <2>4. CASE CheckCache(s) \/ Install(s)
    <3>1. /\ pc'[s] \in {"copy", "overlay", "fetch"} /\ Op(s) \notin BuildOps
          /\ Install(s) \/ pc'[s] = "fetch" \/ (fs[Cached] # None /\ fs' = fs)
      BY <1>1, <2>4 DEF CheckCache, Install, Goto, AfterBase, CallTypes, NewDisk, OpsFit, CacheOps,
            DiskOps, BuildOps, fileVars
    <3>2. pc'[s] # "fetch" => fs'[Cached] # None
      <4>1. CASE Install(s)
        <5>1. fs[Tmp(s)] = ImageOf(s)
          BY <1>1, <4>1 DEF Install, Goto, Complete, CompleteAt
        <5>2. fs'[Cached] = ImageOf(s)
          BY <1>1, <4>1, <5>1, PathFacts DEF Install, FileTypes
        <5> QED
          BY <5>2, InodeFacts
      <4> QED
        BY <3>1, <4>1
    <3> QED
      BY <1>1, <2>0, <2>1, <3>1, <3>2 DEF CompleteAt, Rooted, Cached
  <2>5. CASE DiskAppeared(s) \/ StartCopy(s) \/ EndCopy(s) \/ RemoveDisk(s) \/ RenameDisk(s)
    <3>1. Op(s) \notin BuildOps
      BY <1>1, <2>5 DEF DiskAppeared, StartCopy, EndCopy, RemoveDisk, RenameDisk, Goto, OpsFit, DiskOps, BuildOps
    <3>2. /\ pc'[s] \in {"overlay", "copying", "replace", "rename"}
          /\ pc'[s] = "copying" => pc[s] = "copy"
          /\ pc'[s] = "rename" => pc[s] = "replace" /\ whole' = whole
          /\ pc'[s] = "replace" => EndCopy(s)
      BY <1>1, <2>5 DEF DiskAppeared, StartCopy, EndCopy, RemoveDisk, RenameDisk, Goto, CallTypes
    <3>3. EndCopy(s) => CopyOf(s) \in whole'
      BY <1>1, <2>0 DEF EndCopy, Goto, CompleteAt, Complete
    <3> QED
      BY <1>1, <1>5, <2>0, <2>1, <3>1, <3>2, <3>3 DEF CompleteAt, Rooted, Cached, CopyOf
  <2>6. CASE \/ SetupNetwork(s) \/ UseGiven(s) \/ SkipFetch(s)
    <3>1. /\ pc'[s] \in {"open", "source", "overlay", "clear", "build"}
          /\ pc'[s] = "open" => Op(s) = "boot"
          /\ pc'[s] \in {"overlay", "clear"} => Op(s) \in {"rootfs", "restore", "template", "snapshotOf", "disk"}
      BY <1>1, <2>6 DEF SetupNetwork, UseGiven, SkipFetch, Goto, CallTypes
    <3> QED
      BY <1>1, <2>0, <2>1, <3>1 DEF CompleteAt, Rooted, BuildOps
  <2>7. CASE \/ MakeOverlay(s) \/ Open(s) \/ OpenFails(s) \/ GuestWrites(s) \/ EndVm(s) \/ ReadResult(s) \/ Abort(s)
             \/ AbortedVmEnds(s) \/ ClearBundle(s) \/ LinkBundle(s) \/ EndLinkCopy(s) \/ WriteManifest(s)
             \/ Fail(s) \/ Close(s) \/ CleanNet(s) \/ CleanOverlay(s) \/ CleanTemp(s)
    <3>0. base[s] # None => pc[s] \in Past
      BY DEF SessIInv, Control, CallOK
    <3>1. \/ pc'[s] \in {"net", "result", "cleanNet", "cleanOverlay", "cleanTemp", "done", "dead"}
          \/ pc[s] \in Rooted /\ pc'[s] \in Rooted
      BY <1>1, <2>7, <3>0 DEF MakeOverlay, Open, OpenFails, GuestWrites, EndVm, ReadResult, Abort, AbortedVmEnds,
            ClearBundle, LinkBundle, EndLinkCopy, WriteManifest, Fail, Close, CleanNet, CleanOverlay,
            CleanTemp, Goto, CallTypes, Rooted, Past
    <3>2. pc[s] \in Rooted /\ ImageOf(s) \in whole => ImageOf(s) \in whole'
      BY InodeMoves, InodeFacts DEF Rooted
    <3> QED
      BY <1>1, <2>0, <2>1, <3>1, <3>2 DEF CompleteAt, Rooted, ImageOf
  <2> QED
    BY <2>2, <2>3, <2>4, <2>5, <2>6, <2>7 DEF Moves
<1> QED
  BY <1>2, <1>3, <1>4, <1>7, <1>8 DEF Complete, Cached, Disk, OldInodes, User, Bundle

\* A VM's root disk stays complete while it is open.
LEMMA WholeImagesMoves ==
  ASSUME SessIInv, NEW s \in Sessions, Moves(s)
  PROVE WholeImages'
<1>1. WholeImages /\ Complete /\ Names /\ UNCHANGED <<opt, parent>>
  BY MoveFrame DEF SessIInv
<1>2. \A t \in Sessions : Op(t)' = Op(t)
  BY <1>1 DEF Op
<1>3. ASSUME NEW t \in Sessions, base'[t] = base[t], base[t] # None, Op(t) # "restore"
      PROVE base'[t] \in whole'
  <2>1. base[t] \in whole
    BY <1>1, <1>3 DEF WholeImages
  <2> QED
    BY <1>3, <2>1, WholeStays DEF Unpublished
<1>4. ASSUME Open(s), base'[s] # None, Op(s) # "restore" PROVE base'[s] \in whole'
  <2>1. PICK b : b = fs[root[s].path]
    OBVIOUS
  <2>2. CallTypes /\ base'[s] = b /\ whole' = whole /\ pc[s] = "open" /\ b # None
    BY <1>4, <2>1, TypeParts DEF Open, Goto, fileVars, CallTypes, SessIInv
  <2>3. CompleteAt(s) /\ ParentOK(s)
    BY <1>1 DEF Complete, SessIInv, Control
  <2>4. User \in whole
    BY <1>1, InodeFacts DEF Complete
  <2>5. Op(s) = "build" => ImageOf(s) \in whole
    BY <2>2, <2>3 DEF CompleteAt, Rooted, BuildOps
  <2>6. parent[s] \in Sessions => ImageOf(parent[s]) \in whole
    BY <2>3, SessionBoundsAssumption DEF CompleteAt
  <2>7. b \in whole
    BY <1>1, <1>4, <2>1, <2>2, <2>4, <2>5, <2>6, Opened DEF Complete
  <2> QED
    BY <2>2, <2>7
<1>5. ASSUME NEW t \in Sessions, base'[t] # None, Op(t) # "restore" PROVE base'[t] \in whole'
  BY <1>3, <1>4, <1>5, RootMoves, MoveFrame
<1> QED
  BY <1>2, <1>5 DEF WholeImages

\* A guest without an overlay writes to the file its call named.
LEMMA WrittenMoves ==
  ASSUME SessIInv, NEW s \in Sessions, Moves(s)
  PROVE Written'
<1>1. /\ FileTypes /\ CallTypes /\ Written /\ Names /\ CallOK(s) /\ UNCHANGED <<opt, parent>>
      /\ pc[s] # "idle" /\ OpsFit(s)
  BY TypeParts, MoveFrame DEF SessIInv, Control, CallOK
<1>2. \A t \in Sessions : Op(t)' = Op(t)
  BY <1>1 DEF Op
<1>3. ASSUME NEW t \in Sessions, NEW i PROVE From(t, i)' <=> From(t, i)
  <2>1. Called(DiskOps)' = Called(DiskOps)
    BY PlaceMoves
  <2> QED
    BY <1>1, <1>2, <2>1 DEF From, User, Disk, CopyOf, ImageOf
<1>4. \A t \in Sessions : base'[t] # None => root'[t] = root[t]
  BY RootMoves, MoveFrame
<1>5. \A t \in Sessions : base'[t] # None => (NeedsOverlay(t)' <=> NeedsOverlay(t))
  BY <1>1, <1>4 DEF NeedsOverlay
<1>6. ASSUME Open(s), base'[s] # None, ~NeedsOverlay(s) PROVE From(s, base'[s])
  <2>1. PICK b : b = fs[root[s].path]
    OBVIOUS
  <2>2. base'[s] = b /\ b # None /\ Op(s) # "restore"
    <3>1. base'[s] = b
      BY <1>1, <1>6, <2>1 DEF Open, CallTypes
    <3>2. Op(s) = "restore" => opt[s].sandbox
      BY <1>1, RequestFacts DEF OpsFit, Op
    <3> QED
      BY <1>6, <3>1, <3>2 DEF NeedsOverlay
  <2>3. b = fs[Disk] => b = Disk \/ \E t \in Called(DiskOps) : b = CopyOf(t)
    BY <1>1, <2>2 DEF Names, DiskFiles
  <2> QED
    BY <1>6, <2>1, <2>2, <2>3, Opened DEF From
<1>7. ASSUME NEW t \in Sessions, base'[t] # None, ~NeedsOverlay(t) PROVE From(t, base'[t])
  <2>1. CASE base'[t] = base[t]
    BY <1>1, <1>7, <2>1 DEF Written
  <2>2. CASE t = s /\ Open(s)
    BY <1>6, <1>7, <2>2
  <2> QED
    BY <1>7, <2>1, <2>2, RootMoves, MoveFrame
<1>8. ASSUME NEW t \in Sessions, NEW i \in Inodes, t \in writers'[i]
      PROVE pc'[t] \in Past /\ ~opt'[t].sandbox /\ From(t, i)
  <2>1. CASE t \in writers[i]
    BY <1>1, <2>1, PlaceMoves DEF Written
  <2>2. CASE GuestWrites(s) /\ t = s /\ i = base[s]
    <3>1. base[s] # None /\ ~NeedsOverlay(s)
      BY <2>2 DEF GuestWrites
    <3>2. pc[s] \in Past /\ ~opt[s].sandbox /\ From(s, base[s])
      BY <1>1, <3>1 DEF CallOK, NeedsOverlay, Written
    <3> QED
      BY <1>1, <2>2, <3>2, PlaceMoves
  <2> QED
    BY <1>8, <2>1, <2>2, InodeMoves
<1>9. ASSUME NEW t \in Sessions, (base[t] # None /\ ~NeedsOverlay(t))' PROVE From(t, base[t])'
  <2>1. PICK i : i = base'[t]
    OBVIOUS
  <2>2. From(t, i)
    BY <1>5, <1>7, <1>9, <2>1
  <2>3. From(t, i)'
    BY <1>3, <2>2
  <2> QED
    BY <2>1, <2>3 DEF From
<1> QED
  BY <1>3, <1>8, <1>9 DEF Written, Inodes, OldInodes, Cached, User, Disk, Bundle

\* One createSnapshot at a time: the manifest is written over a whole image.
LEMMA SnapshotMoves ==
  ASSUME SessIInv, NEW s \in Sessions, Moves(s)
  PROVE OneSnapshot' /\ BundleSteps' /\ BundleWhole'
<1>1. /\ FileTypes /\ CallTypes /\ OneSnapshot /\ BundleSteps /\ BundleWhole /\ Names /\ OpsFit(s)
      /\ UNCHANGED <<opt, parent>> /\ CompleteAt(s) /\ Complete
  BY TypeParts, MoveFrame DEF SessIInv, Control, CallOK, Complete
<1>2. \A t \in Sessions : Op(t)' = Op(t)
  BY <1>1 DEF Op
<1>3. OneSnapshot'
  BY <1>1, <1>2, PlaceMoves DEF OneSnapshot
<1> DEFINE Snapping == {"clear", "link", "linking", "manifest"}
<1>4. ASSUME NEW t \in Sessions, t # s, pc[t] \in Snapping PROVE pc[s] \notin Snapping
  <2>1. \A u \in Sessions : pc[u] \in Snapping => u \in Active /\ Op(u) \in SnapshotOps
    BY DEF SessIInv, Control, CallOK, OpsFit, Active
  <2> QED
    BY <1>1, <1>4, <2>1 DEF OneSnapshot
<1>5. \/ manifest' = manifest
      \/ ClearBundle(s) /\ ~manifest'
      \/ WriteManifest(s) /\ manifest'
  BY <1>1 DEF Moves, SetupNetwork, UseGiven, CheckCache, StartFetch, EndFetch, SkipFetch, StartBuild, EndBuild,
        Install, DiskAppeared, StartCopy, EndCopy, RemoveDisk, RenameDisk, MakeOverlay, Open, OpenFails,
        GuestWrites, EndVm, ReadResult, Abort, AbortedVmEnds, ClearBundle, LinkBundle, EndLinkCopy, WriteManifest,
        Fail, Close, CleanNet, CleanOverlay, CleanTemp, fileVars
<1>6. ClearBundle(s) \/ WriteManifest(s) \/ LinkBundle(s) => pc[s] \in Snapping
  BY DEF ClearBundle, WriteManifest, LinkBundle, Goto
<1>7. fs[Bundle] \in whole => fs[Bundle] \in whole'
  BY WholeStays DEF Unpublished
<1>8. ASSUME fs[Bundle] = None \/ fs[Bundle] \in whole, ~LinkBundle(s)
      PROVE fs'[Bundle] = None \/ fs'[Bundle] \in whole'
  BY <1>7, <1>8, NameMoves
<1>9. BundleWhole'
  <2>1. CASE LinkBundle(s)
    <3>1. pc[s] = "link" /\ ~manifest /\ manifest' = manifest
      BY <1>1, <2>1 DEF LinkBundle, Goto, BundleSteps
    <3> QED
      BY <3>1 DEF BundleWhole
  <2>2. CASE ~LinkBundle(s)
    <3>1. manifest' => fs[Bundle] = None \/ fs[Bundle] \in whole
      BY <1>1, <1>5 DEF BundleWhole, BundleSteps, WriteManifest, Goto
    <3> QED
      BY <1>8, <2>2, <3>1 DEF BundleWhole, Bundle
  <2> QED
    BY <2>1, <2>2
<1>10. ASSUME NEW t \in Sessions, t # s, pc'[t] \in {"link", "linking", "manifest"}
       PROVE ~manifest' /\ (pc'[t] = "linking" => fs'[Bundle] = CopyOf(t)) /\ (pc'[t] = "manifest" => fs'[Bundle] = None \/ fs'[Bundle] \in whole')
  <2>1. pc'[t] = pc[t]
    BY <1>10, MoveFrame
  <2>2. ~ClearBundle(s) /\ ~WriteManifest(s) /\ ~LinkBundle(s)
    BY <1>4, <1>6, <1>10, <2>1
  <2> QED
    BY <1>1, <1>5, <1>8, <1>10, <2>1, <2>2, NameMoves DEF BundleSteps
<1>11. ASSUME pc'[s] \in {"link", "linking", "manifest"}
       PROVE ~manifest' /\ (pc'[s] = "linking" => fs'[Bundle] = CopyOf(s)) /\ (pc'[s] = "manifest" => fs'[Bundle] = None \/ fs'[Bundle] \in whole')
  <2>1. ClearBundle(s) \/ LinkBundle(s) \/ EndLinkCopy(s)
    <3>1. CASE EndBuild(s)
      <4>1. pc[s] = "building" /\ Op(s) \in CacheOps \union BuildOps
        BY <1>1, <3>1 DEF EndBuild, Goto, OpsFit
      <4>2. Cacheable(s) <=> Op(s) \in CacheOps
        BY DEF Cacheable, CacheOps
      <4>3. pc'[s] \in {"install", "ready", "clear", "overlay"}
        BY <1>1, <3>1, <4>1, <4>2 DEF EndBuild, Goto, CallTypes, BuildOps
      <4> QED
        BY <1>11, <4>3
    <3>2. CASE GuestWrites(s) \/ AbortedVmEnds(s)
      <4>1. pc' = pc /\ pc[s] \in Past
        BY <3>2 DEF GuestWrites, AbortedVmEnds, SessIInv, Control, CallOK
      <4> QED
        BY <1>11, <4>1 DEF Past
    <3> QED
      BY <1>1, <1>11, <3>1, <3>2 DEF Moves, SetupNetwork, UseGiven, CheckCache, StartFetch, EndFetch, SkipFetch,
            StartBuild, Install, DiskAppeared, StartCopy, EndCopy, RemoveDisk, RenameDisk, MakeOverlay, Open,
            OpenFails, EndVm, ReadResult, Abort, WriteManifest, Fail, Close, CleanNet, CleanOverlay, CleanTemp, Goto,
            AfterBase, CallTypes
  <2>2. CASE ClearBundle(s)
    <3>1. pc'[s] = "link" /\ ~manifest'
      BY <1>1, <1>11, <2>2 DEF ClearBundle, Goto, CallTypes, FileTypes
    <3> QED
      BY <3>1
  <2>3. CASE LinkBundle(s)
    <3>1. pc[s] = "link" /\ ~manifest'
      BY <1>1, <2>3 DEF LinkBundle, Goto, BundleSteps
    <3>2. \/ /\ pc'[s] = "manifest" /\ whole' = whole
             /\ fs' = [fs EXCEPT ![Bundle] = fs[root[s].path]]
          \/ pc'[s] = "linking" /\ fs' = [fs EXCEPT ![Bundle] = CopyOf(s)]
      BY <1>1, <2>3 DEF LinkBundle, Goto, CallTypes, Create
    <3>3. \/ pc'[s] = "manifest" /\ fs'[Bundle] = fs[root[s].path] /\ whole' = whole
          \/ pc'[s] = "linking" /\ fs'[Bundle] = CopyOf(s)
      BY <1>1, <3>2, PathFacts DEF FileTypes
    <3>4. fs[root[s].path] = None \/ fs[root[s].path] \in whole
      <4>1. root[s] = RootOf(s) /\ Op(s) \in {"snapshot", "snapshotOf"}
        BY <1>1, <3>1 DEF SessIInv, Control, RootOK, Rooted, OpsFit, SnapshotOps
      <4>2. CASE Op(s) = "snapshot"
        <5>1. root[s].path = Own(s) /\ ImageOf(s) \in whole
          BY <1>1, <3>1, <4>1, <4>2, RootIs DEF Root, BuildOps, CompleteAt, Rooted
        <5> QED
          BY <1>1, <5>1 DEF Names
      <4>3. CASE Op(s) = "snapshotOf"
        <5>1. root[s] = NoRoot
          BY <4>1, <4>3, RootIs
        <5>2. root[s].path = User /\ User \in whole
          BY <1>1, <5>1, InodeFacts DEF NoRoot, Complete
        <5> QED
          BY <1>1, <5>2 DEF Names
      <4> QED
        BY <4>1, <4>2, <4>3
    <3> QED
      BY <3>1, <3>3, <3>4
  <2>4. CASE EndLinkCopy(s)
    <3>1. /\ pc[s] = "linking" /\ pc'[s] = "manifest" /\ manifest' = manifest /\ fs' = fs /\ CopyOf(s) \in whole'
          /\ whole' = whole \union {CopyOf(s)}
      BY <1>1, <2>4 DEF EndLinkCopy, Goto, CallTypes
    <3> QED
      BY <1>1, <3>1 DEF BundleSteps
  <2> QED
    BY <2>1, <2>2, <2>3, <2>4
<1>12. BundleSteps'
  BY <1>10, <1>11 DEF BundleSteps, Bundle, CopyOf
<1> QED
  BY <1>3, <1>9, <1>12

-----------------------------------------------------------------------------
(* What a session leaves.                                                   *)

\* A session sets up and removes only what is its own.
LEMMA HostMoves ==
  ASSUME SessIInv, NEW s \in Sessions, Moves(s)
  PROVE /\ \A t \in Sessions : t # s =>
             /\ t \in net' <=> t \in net
             /\ \A w : <<w, t>> \in dirs' <=> <<w, t>> \in dirs
        /\ stuck \subseteq stuck'
        /\ SetupNetwork(s) \/ (net' \subseteq net)
        /\ MakeOverlay(s) \/ (dirs' \subseteq dirs \union {<<"result", s>>})
        /\ <<"result", s>> \in dirs' => <<"result", s>> \in dirs \union stuck'
        /\ CleanTemp(s) \/ (<<"temp", s>> \in dirs => <<"temp", s>> \in dirs')
<1>1. CASE SetupNetwork(s)
  BY <1>1 DEF SetupNetwork
<1>2. CASE MakeOverlay(s)
  BY <1>2 DEF MakeOverlay
<1>3. CASE CleanNet(s)
  BY <1>3 DEF CleanNet
<1>4. CASE CleanOverlay(s)
  <2>1. /\ dirs' = dirs \/ dirs' = dirs \ {<<"overlay", s>>}
        /\ stuck \subseteq stuck' /\ net' = net
    BY <1>4 DEF CleanOverlay, RemoveDir
  <2> QED
    BY <2>1
<1>5. CASE CleanTemp(s)
  <2>1. /\ dirs' = dirs \/ dirs' = dirs \ {<<"temp", s>>}
        /\ stuck \subseteq stuck' /\ net' = net
    BY <1>5 DEF CleanTemp, RemoveDir
  <2> QED
    BY <1>5, <2>1
<1>6. CASE \/ UseGiven(s) \/ CheckCache(s) \/ StartFetch(s) \/ EndFetch(s) \/ SkipFetch(s)
           \/ StartBuild(s) \/ EndBuild(s) \/ Install(s) \/ DiskAppeared(s) \/ StartCopy(s) \/ EndCopy(s)
           \/ RemoveDisk(s) \/ RenameDisk(s) \/ Open(s) \/ OpenFails(s) \/ GuestWrites(s) \/ EndVm(s)
           \/ Abort(s) \/ AbortedVmEnds(s) \/ ClearBundle(s) \/ LinkBundle(s) \/ EndLinkCopy(s)
           \/ WriteManifest(s) \/ Close(s) \/ Fail(s)
  <2>1. UNCHANGED <<dirs, net, stuck>>
    BY <1>6 DEF UseGiven, CheckCache, StartFetch, EndFetch, SkipFetch, StartBuild, EndBuild, Install,
          DiskAppeared, StartCopy, EndCopy, RemoveDisk, RenameDisk, Open, OpenFails, GuestWrites, EndVm,
          Abort, AbortedVmEnds, ClearBundle, LinkBundle, EndLinkCopy, WriteManifest, Close, Fail, hostVars
  <2> QED
    BY <2>1
<1>7. CASE ReadResult(s)
  <2>1. /\ \/ dirs' = dirs
           \/ dirs' = dirs \union {<<"result", s>>} /\ <<"result", s>> \in stuck'
        /\ stuck \subseteq stuck' /\ net' = net
    BY <1>7 DEF ReadResult
  <2> QED
    BY <2>1
<1> QED
  BY <1>1, <1>2, <1>3, <1>4, <1>5, <1>6, <1>7 DEF Moves

\* The steps that lead to the end of a session.
LEMMA EndMoves ==
  ASSUME SessIInv, NEW s \in Sessions, Moves(s)
  PROVE /\ pc'[s] = "cleanOverlay" => CleanNet(s) \/ pc[s] = "cleanOverlay"
        /\ pc'[s] = "cleanTemp" => \/ CleanOverlay(s) \/ pc[s] = "cleanTemp"
                                   \/ Op(s) \in SnapshotOps \union {"prepare"}
        /\ pc'[s] = "done" => CleanTemp(s) \/ pc[s] = "done"
<1>1. CallTypes /\ OpsFit(s)
  BY TypeParts, MoveFrame DEF SessIInv, Control, CallOK
<1>2. CASE EndBuild(s)
  <2>1. pc[s] = "building" /\ Op(s) \in CacheOps \union BuildOps
    BY <1>1, <1>2 DEF EndBuild, Goto, OpsFit
  <2>2. Cacheable(s) <=> Op(s) \in CacheOps
    BY DEF Cacheable, CacheOps
  <2>3. pc'[s] \in {"install", "ready", "clear", "overlay"}
    BY <1>1, <1>2, <2>1, <2>2 DEF EndBuild, Goto, CallTypes, BuildOps
  <2> QED
    BY <2>3
<1>3. CASE WriteManifest(s) \/ Close(s)
  BY <1>1, <1>3 DEF WriteManifest, Close, Goto, OpsFit, CallTypes
<1>4. CASE CleanNet(s) \/ CleanOverlay(s) \/ CleanTemp(s)
  BY <1>1, <1>4 DEF CleanNet, CleanOverlay, CleanTemp, Goto, CallTypes
<1>5. CASE GuestWrites(s) \/ AbortedVmEnds(s)
  BY <1>5 DEF GuestWrites, AbortedVmEnds
<1>6. CASE \/ SetupNetwork(s) \/ UseGiven(s) \/ CheckCache(s) \/ StartFetch(s) \/ EndFetch(s) \/ SkipFetch(s)
           \/ StartBuild(s) \/ Install(s) \/ DiskAppeared(s) \/ StartCopy(s) \/ EndCopy(s) \/ RemoveDisk(s)
           \/ RenameDisk(s) \/ MakeOverlay(s) \/ Open(s) \/ OpenFails(s) \/ EndVm(s) \/ ReadResult(s) \/ Abort(s)
           \/ ClearBundle(s) \/ LinkBundle(s) \/ EndLinkCopy(s) \/ Fail(s)
  <2>1. pc'[s] \notin {"cleanOverlay", "cleanTemp", "done"}
    BY <1>1, <1>6 DEF SetupNetwork, UseGiven, CheckCache, StartFetch, EndFetch, SkipFetch, StartBuild, Install,
          DiskAppeared, StartCopy, EndCopy, RemoveDisk, RenameDisk, MakeOverlay, Open, OpenFails, EndVm, ReadResult,
          Abort, ClearBundle, LinkBundle, EndLinkCopy, Fail, Goto, CallTypes, AfterBase
  <2> QED
    BY <2>1
<1> QED
  BY <1>2, <1>3, <1>4, <1>5, <1>6 DEF Moves

\* The temporary files are there only while the session works on them.
LEMMA TempMoves ==
  ASSUME SessIInv, NEW s \in Sessions, Moves(s)
  PROVE /\ fs'[Tmp(s)] # None => \/ pc'[s] \in {"fetching", "install", "dead"}
                                 \/ pc'[s] = "building" /\ Op(s) \in CacheOps
        /\ fs'[CopyTmp(s)] # None => pc'[s] \in {"copying", "replace", "rename", "dead"}
        /\ fs'[Own(s)] # None => fs[Own(s)] # None \/ (pc[s] = "build" /\ ~CleanTemp(s))
<1>1. FileTypes /\ CallTypes /\ OpsFit(s) /\ Kept(s)
  BY TypeParts, MoveFrame DEF SessIInv, Control, CallOK, Leftovers
<1>2. /\ fs[Tmp(s)] # None => \/ pc[s] \in {"fetching", "install", "dead"}
                              \/ pc[s] = "building" /\ Op(s) \in CacheOps
      /\ fs[CopyTmp(s)] # None => pc[s] \in {"copying", "replace", "rename", "dead"}
  BY <1>1 DEF Kept
<1>3. CASE StartFetch(s)
  BY <1>1, <1>2, <1>3, PathFacts DEF StartFetch, Create, Goto, CallTypes, FileTypes
<1>4. CASE EndFetch(s)
  <2>1. pc[s] = "fetching" /\ fs[CopyTmp(s)] = None
    BY <1>2, <1>4 DEF EndFetch, Goto
  <2>2. \/ pc'[s] = "install" /\ fs' = fs
        \/ fs' = [fs EXCEPT ![Tmp(s)] = None]
    BY <1>1, <1>4 DEF EndFetch, Goto, CallTypes
  <2> QED
    BY <1>1, <2>1, <2>2, PathFacts DEF FileTypes
<1>5. CASE StartBuild(s)
  <2>1. pc[s] = "build" /\ pc'[s] = "building" /\ fs[CopyTmp(s)] = None /\ fs[Tmp(s)] = None
    BY <1>1, <1>2, <1>5 DEF StartBuild, Goto, CallTypes
  <2>2. PICK p \in {Tmp(s), Own(s)} : /\ fs' = [fs EXCEPT ![p] = ImageOf(s)]
                                      /\ p = Tmp(s) => Op(s) \in CacheOps
    BY <1>5, PathFacts DEF StartBuild, Create, BuildOutput, Cacheable, CacheOps
  <2>3. ~CleanTemp(s)
    BY <2>1 DEF CleanTemp, Goto
  <2>4. Tmp(s) \in Paths /\ Own(s) \in Paths /\ CopyTmp(s) \in Paths /\ Tmp(s) # CopyTmp(s) /\ Own(s) # CopyTmp(s)
        /\ Tmp(s) # Own(s)
    BY PathFacts
  <2>5. CASE p = Tmp(s)
    BY <1>1, <2>1, <2>2, <2>3, <2>4, <2>5 DEF FileTypes
  <2>6. CASE p = Own(s)
    BY <1>1, <2>1, <2>2, <2>3, <2>4, <2>6 DEF FileTypes
  <2> QED
    BY <2>2, <2>5, <2>6
<1>6. CASE EndBuild(s)
  <2>1. pc[s] = "building" /\ fs' = fs /\ fs[CopyTmp(s)] = None /\ Op(s) \in CacheOps \union BuildOps
    BY <1>1, <1>2, <1>6 DEF EndBuild, Goto, OpsFit
  <2>2. CASE Op(s) \in CacheOps
    <3>1. Cacheable(s) /\ Op(s) \notin BuildOps
      BY <2>2 DEF Cacheable, CacheOps, DiskOps, BuildOps
    <3>2. pc'[s] = "install"
      BY <1>1, <1>6, <3>1 DEF EndBuild, Goto, CallTypes, BuildOps
    <3> QED
      BY <2>1, <3>2
  <2>3. CASE Op(s) \in BuildOps
    <3>1. Op(s) \notin CacheOps
      BY <2>3 DEF CacheOps, DiskOps, BuildOps
    <3>2. fs[Tmp(s)] = None
      BY <1>2, <2>1, <3>1
    <3> QED
      BY <2>1, <3>2
  <2> QED
    BY <2>1, <2>2, <2>3
<1>7. CASE Install(s)
  <2>1. pc[s] = "install" /\ fs[CopyTmp(s)] = None /\ fs' = [fs EXCEPT ![Cached] = fs[Tmp(s)], ![Tmp(s)] = None]
    BY <1>2, <1>7 DEF Install, Goto
  <2> QED
    BY <1>1, <2>1, PathFacts DEF FileTypes
<1>8. CASE StartCopy(s)
  <2>1. pc[s] = "copy" /\ pc'[s] = "copying" /\ fs[Tmp(s)] = None /\ fs' = [fs EXCEPT ![CopyTmp(s)] = CopyOf(s)]
    BY <1>1, <1>2, <1>8 DEF StartCopy, Create, Goto, CallTypes
  <2> QED
    BY <1>1, <2>1, PathFacts DEF FileTypes
<1>9. CASE RenameDisk(s)
  <2>1. pc[s] = "rename" /\ fs[Tmp(s)] = None /\ fs' = [fs EXCEPT ![Disk] = fs[CopyTmp(s)], ![CopyTmp(s)] = None]
    BY <1>2, <1>9 DEF RenameDisk, Goto
  <2> QED
    BY <1>1, <2>1, PathFacts DEF FileTypes
<1>10. CASE Fail(s)
  <2>1. fs' = [fs EXCEPT ![Tmp(s)] = None, ![CopyTmp(s)] = None]
    BY <1>10 DEF Fail
  <2> QED
    BY <1>1, <2>1, PathFacts DEF FileTypes
<1>11. CASE EndCopy(s) \/ RemoveDisk(s)
  <2>1. /\ pc[s] \in {"copying", "replace"} /\ pc'[s] \in {"replace", "rename"} /\ fs[Tmp(s)] = None
        /\ fs' = fs \/ fs' = [fs EXCEPT ![Disk] = None]
    BY <1>1, <1>2, <1>11 DEF EndCopy, RemoveDisk, Goto, CallTypes
  <2> QED
    BY <1>1, <2>1, PathFacts DEF FileTypes
<1>12. CASE CleanTemp(s) \/ ClearBundle(s) \/ LinkBundle(s)
  <2>1. /\ pc[s] \in {"cleanTemp", "clear", "link"} /\ fs[Tmp(s)] = None /\ fs[CopyTmp(s)] = None
        /\ fs' = fs \/ fs' = [fs EXCEPT ![Own(s)] = None] \/ \E i : fs' = [fs EXCEPT ![Bundle] = i]
    BY <1>2, <1>12 DEF CleanTemp, ClearBundle, LinkBundle, Create, Goto
  <2> QED
    BY <1>1, <2>1, PathFacts DEF FileTypes
<1>13. CASE GuestWrites(s) \/ AbortedVmEnds(s)
  BY <1>2, <1>13 DEF GuestWrites, AbortedVmEnds, fileVars
<1>14. CASE \/ SetupNetwork(s) \/ UseGiven(s) \/ CheckCache(s) \/ SkipFetch(s) \/ DiskAppeared(s)
            \/ MakeOverlay(s) \/ Open(s) \/ OpenFails(s) \/ EndVm(s) \/ ReadResult(s) \/ Abort(s) \/ EndLinkCopy(s)
            \/ WriteManifest(s) \/ Close(s) \/ CleanNet(s) \/ CleanOverlay(s)
  <2>1. fs' = fs
    BY <1>14 DEF SetupNetwork, UseGiven, CheckCache, SkipFetch, DiskAppeared, MakeOverlay, Open, OpenFails, EndVm, ReadResult,
          Abort, EndLinkCopy, WriteManifest, Close, CleanNet, CleanOverlay, fileVars
  <2>2. pc[s] \notin {"fetching", "building", "install", "dead", "copying", "replace", "rename"}
    BY <1>14 DEF SetupNetwork, UseGiven, CheckCache, SkipFetch, DiskAppeared, MakeOverlay, Open, OpenFails, EndVm, ReadResult,
          Abort, EndLinkCopy, WriteManifest, Close, CleanNet, CleanOverlay, Goto
  <2> QED
    BY <1>2, <2>1, <2>2
<1> QED
  BY <1>3, <1>4, <1>5, <1>6, <1>7, <1>8, <1>9, <1>10, <1>11, <1>12, <1>13, <1>14 DEF Moves

\* What a session owns is removed in the order the calls were made to get it.
LEMMA LeftoversMoves ==
  ASSUME SessIInv, NEW s \in Sessions, Moves(s)
  PROVE Leftovers'
<1>1. /\ CallTypes /\ OpsFit(s) /\ Kept(s) /\ UNCHANGED <<opt, parent>> /\ Leftovers /\ CallOK(s)
      /\ pc[s] # "idle" /\ pc'[s] # "idle"
  BY TypeParts, MoveFrame DEF SessIInv, Control, CallOK, Leftovers
<1>2. \A t \in Sessions : Op(t)' = Op(t) /\ opt'[t] = opt[t]
  BY <1>1 DEF Op
<1>3. ASSUME NEW t \in Sessions, t # s PROVE Kept(t)'
  <2>1. /\ Kept(t) /\ Op(t)' = Op(t) /\ opt'[t] = opt[t] /\ pc'[t] = pc[t]
        /\ fs'[Tmp(t)] = fs[Tmp(t)] /\ fs'[Own(t)] = fs[Own(t)] /\ fs'[CopyTmp(t)] = fs[CopyTmp(t)]
        /\ t \in net' <=> t \in net
        /\ \A w : <<w, t>> \in dirs' <=> <<w, t>> \in dirs
        /\ stuck \subseteq stuck'
    BY <1>1, <1>2, <1>3, MoveFrame, NameMoves, HostMoves DEF Leftovers
  <2> QED
    BY <2>1 DEF Kept, KeepsTemp, Tmp, Own, CopyTmp
<1>4. Op(s)' = Op(s) /\ opt'[s] = opt[s] /\ stuck \subseteq stuck'
  BY <1>2, HostMoves
<1>5. s \in net' => Op(s) \in VmOps
  BY <1>1, HostMoves DEF Kept, OpsFit, SetupNetwork, Goto
<1>6. <<"overlay", s>> \in dirs' => Op(s) \in VmOps
  BY <1>1, HostMoves DEF Kept, OpsFit, MakeOverlay, Goto
<1>7. SetupNetwork(s) => pc'[s] \in {"open", "source"}
  BY <1>1 DEF SetupNetwork, Goto, CallTypes
<1>8. MakeOverlay(s) => pc'[s] \in {"open", "net"}
  BY <1>1 DEF MakeOverlay, Goto, CallTypes
<1>9. VmOps \cap (SnapshotOps \union {"prepare"}) = {}
  BY DEF VmOps, RunOps, DiskOps, SnapshotOps
<1>10. pc'[s] \in {"cleanOverlay", "cleanTemp", "done"} /\ s \in net' => <<"net", s>> \in stuck'
  <2>1. SUFFICES ASSUME pc'[s] \in {"cleanOverlay", "cleanTemp", "done"}, s \in net'
                 PROVE <<"net", s>> \in stuck'
    OBVIOUS
  <2>2. s \in net
    BY <1>7, <2>1, HostMoves
  <2>3. CASE CleanNet(s)
    BY <2>1, <2>3 DEF CleanNet
  <2>4. CASE ~CleanNet(s)
    <3>1. pc[s] \in {"cleanOverlay", "cleanTemp", "done"}
      BY <1>5, <1>9, <2>1, <2>4, EndMoves DEF CleanOverlay, CleanTemp, Goto
    <3> QED
      BY <1>1, <1>4, <2>2, <3>1 DEF Kept
  <2> QED
    BY <2>3, <2>4
<1>11. pc'[s] \in {"cleanTemp", "done"} /\ <<"overlay", s>> \in dirs' =>
         <<"overlay", s>> \in stuck' \/ "overlay" \in opt[s].keep
  <2>1. SUFFICES ASSUME pc'[s] \in {"cleanTemp", "done"}, <<"overlay", s>> \in dirs'
                 PROVE <<"overlay", s>> \in stuck' \/ "overlay" \in opt[s].keep
    OBVIOUS
  <2>2. <<"overlay", s>> \in dirs
    BY <1>8, <2>1, HostMoves
  <2>3. CASE CleanOverlay(s)
    BY <2>1, <2>3 DEF CleanOverlay, RemoveDir
  <2>4. CASE ~CleanOverlay(s)
    <3>1. pc[s] \in {"cleanTemp", "done"}
      BY <1>6, <1>9, <2>1, <2>4, EndMoves DEF CleanTemp, Goto
    <3> QED
      BY <1>1, <1>4, <2>2, <3>1 DEF Kept
  <2> QED
    BY <2>3, <2>4
<1>12. pc'[s] = "done" /\ <<"temp", s>> \in dirs' => <<"temp", s>> \in stuck' \/ KeepsTemp(s)
  <2>1. SUFFICES ASSUME pc'[s] = "done", <<"temp", s>> \in dirs'
                 PROVE <<"temp", s>> \in stuck' \/ KeepsTemp(s)
    OBVIOUS
  <2>2. CASE CleanTemp(s)
    BY <2>1, <2>2 DEF CleanTemp, RemoveDir
  <2>3. CASE ~CleanTemp(s)
    <3>1. pc[s] = "done"
      BY <2>1, <2>3, EndMoves
    <3>2. <<"temp", s>> \in dirs
      <4>1. MakeOverlay(s) => pc[s] = "overlay"
        BY DEF MakeOverlay, Goto
      <4> QED
        BY <2>1, <3>1, <4>1, HostMoves
    <3> QED
      BY <1>1, <1>4, <3>1, <3>2 DEF Kept
  <2> QED
    BY <2>2, <2>3
<1>13. pc'[s] \notin {"idle", "done", "dead"} /\ Op(s) # "boot" => <<"temp", s>> \in dirs'
  <2>1. SUFFICES ASSUME pc'[s] \notin {"idle", "done", "dead"}, Op(s) # "boot" PROVE <<"temp", s>> \in dirs'
    OBVIOUS
  <2>2. s \in Active
    BY <2>1, PlaceMoves DEF Active
  <2>3. <<"temp", s>> \in dirs
    BY <1>1, <2>1, <2>2 DEF Kept, Active
  <2>4. ~CleanTemp(s)
    BY <1>1, <2>1 DEF CleanTemp, Goto, CallTypes
  <2> QED
    BY <2>3, <2>4, HostMoves
<1>14. fs'[Own(s)] # None => <<"temp", s>> \in dirs'
  <2>1. SUFFICES ASSUME fs'[Own(s)] # None PROVE <<"temp", s>> \in dirs'
    OBVIOUS
  <2>2. CASE CleanTemp(s)
    <3>1. FileTypes /\ Own(s) \in Paths
      BY TypeParts, PathFacts DEF SessIInv
    <3>2. <<"temp", s>> \notin dirs' => fs'[Own(s)] = None
      BY <2>2, <3>1 DEF CleanTemp, FileTypes
    <3> QED
      BY <2>1, <3>2
  <2>3. CASE ~CleanTemp(s)
    <3>1. fs[Own(s)] # None \/ pc[s] = "build"
      BY <2>1, TempMoves
    <3>2. pc[s] = "build" => <<"temp", s>> \in dirs
      BY <1>1 DEF Kept, OpsFit, CacheOps, BuildOps, DiskOps
    <3> QED
      BY <1>1, <2>3, <3>1, <3>2, HostMoves DEF Kept
  <2> QED
    BY <2>2, <2>3
<1>15. <<"result", s>> \in dirs' => <<"result", s>> \in stuck'
  BY <1>1, <1>4, HostMoves DEF Kept
<1>16. Kept(s)'
  BY <1>1, <1>4, <1>5, <1>6, <1>10, <1>11, <1>12, <1>13, <1>14, <1>15, TempMoves
  DEF Kept, KeepsTemp, Tmp, Own, CopyTmp
<1> QED
  BY <1>3, <1>16 DEF Leftovers

-----------------------------------------------------------------------------
(* A call.                                                                  *)

\* A session that has not been called owns nothing and nobody knows it.
LEMMA CallFrame ==
  ASSUME SessIInv, NEW s \in Sessions, NEW r \in Requests, Call(s, r)
  PROVE /\ pc[s] = "idle" /\ base[s] = None /\ parent[s] = None /\ root[s] = NoRoot
        /\ CallTypes' /\ UNCHANGED <<fs, whole, writers, manifest, net, stuck, root, base>>
        /\ opt'[s] = r /\ Op(s)' = r.op
        /\ r.op \in RunOps => pc'[s] = "net"
        /\ r.op = "boot" => pc'[s] = "overlay"
        /\ r.op \notin VmOps => pc'[s] = "source"
        /\ r.op = "template" => parent'[s] \in Sessions /\ pc[parent'[s]] = "ready"
        /\ r.op # "template" => parent'[s] = None
        /\ dirs' = IF r.op = "boot" THEN dirs ELSE dirs \union {<<"temp", s>>}
        /\ \A t \in Sessions : t # s =>
             /\ pc'[t] = pc[t] /\ opt'[t] = opt[t] /\ parent'[t] = parent[t] /\ Op(t)' = Op(t)
        /\ \A t \in Sessions : parent[t] # s
        /\ \A i \in Inodes : s \notin writers[i]
<1>1. CallTypes /\ CallOK(s) /\ pc[s] = "idle" /\ r.op \in Ops
  BY TypeParts, RequestFacts DEF SessIInv, Control, Call, Goto
<1>2. base[s] = None /\ parent[s] = None /\ root[s] = NoRoot
  BY <1>1 DEF CallOK
<1>3. UNCHANGED <<fs, whole, writers, manifest, net, stuck, root, base>>
  BY DEF Call, fileVars
<1>4. opt' = [opt EXCEPT ![s] = r]
  BY DEF Call
<1>5. opt'[s] = r /\ Op(s)' = r.op
  BY <1>1, <1>4 DEF CallTypes, Op
<1>6. PICK to \in {"net", "overlay", "source"} : pc' = [pc EXCEPT ![s] = to]
  BY DEF Call, Goto, RunOps, DiskOps
<1>7. /\ r.op \in RunOps => pc'[s] = "net"
      /\ r.op = "boot" => pc'[s] = "overlay"
      /\ r.op \notin VmOps => pc'[s] = "source"
  BY <1>1 DEF Call, Goto, CallTypes, VmOps, RunOps, DiskOps
<1>8. /\ r.op = "template" => parent'[s] \in Sessions /\ pc[parent'[s]] = "ready"
      /\ r.op # "template" => parent'[s] = None
      /\ parent' \in [Sessions -> Sessions \union {None}]
      /\ \A u \in Sessions : u # s => parent'[u] = parent[u]
  <2>1. CASE r.op = "template"
    <3>1. PICK t \in Sessions : pc[t] = "ready" /\ parent' = [parent EXCEPT ![s] = t]
      BY <2>1 DEF Call
    <3>2. parent'[s] = t /\ parent' \in [Sessions -> Sessions \union {None}]
          /\ \A u \in Sessions : u # s => parent'[u] = parent[u]
      BY <1>1, <3>1 DEF CallTypes
    <3> QED
      BY <2>1, <3>1, <3>2
  <2>2. CASE r.op # "template"
    <3>1. parent' = parent
      BY <2>2 DEF Call
    <3> QED
      BY <1>1, <1>2, <2>2, <3>1 DEF CallTypes
  <2> QED
    BY <2>1, <2>2
<1>9. CallTypes'
  <2>1. pc' \in [Sessions -> Steps]
    BY <1>1, <1>6 DEF CallTypes, Steps, FailPoints
  <2>2. opt' \in [Sessions -> Requests \union {None}]
    BY <1>1, <1>4 DEF CallTypes
  <2> QED
    BY <1>1, <1>3, <1>8, <2>1, <2>2 DEF CallTypes
<1>10. dirs' = IF r.op = "boot" THEN dirs ELSE dirs \union {<<"temp", s>>}
  BY DEF Call
<1>11. ASSUME NEW t \in Sessions, t # s
       PROVE pc'[t] = pc[t] /\ opt'[t] = opt[t] /\ parent'[t] = parent[t] /\ Op(t)' = Op(t)
  BY <1>1, <1>4, <1>6, <1>8, <1>11 DEF CallTypes, Op
<1>12. ASSUME NEW t \in Sessions PROVE parent[t] # s
  <2>1. ParentOK(t)
    BY DEF SessIInv, Control
  <2> QED
    BY <1>1, <2>1, SessionBoundsAssumption DEF ParentOK
<1>13. ASSUME NEW i \in Inodes PROVE s \notin writers[i]
  <2>1. s \in writers[i] => pc[s] \in Past
    BY DEF SessIInv, Written
  <2> QED
    BY <1>1, <2>1 DEF Past
<1> QED
  BY <1>1, <1>2, <1>3, <1>5, <1>7, <1>8, <1>9, <1>10, <1>11, <1>12, <1>13

LEMMA ControlCall ==
  ASSUME SessIInv, NEW s \in Sessions, NEW r \in Requests, Call(s, r)
  PROVE Control'
<1>1. Control /\ CallTypes /\ CallTypes' /\ r.op \in Ops
  BY TypeParts, CallFrame, RequestFacts DEF SessIInv
<1>2. pc'[s] \in {"net", "overlay", "source"} /\ opt'[s] = r /\ Op(s)' = r.op
      /\ base'[s] = None /\ root'[s] = NoRoot
  <2>1. r.op \in RunOps \/ r.op = "boot" \/ r.op \notin VmOps
    BY DEF VmOps
  <2> QED
    BY <2>1, CallFrame
<1>3. /\ pc'[s] = "net" => r.op \in RunOps
      /\ pc'[s] = "overlay" => r.op = "boot"
      /\ pc'[s] = "source" => r.op # "boot"
  <2>1. r.op \in RunOps \/ r.op = "boot" \/ r.op \notin VmOps
    BY DEF VmOps
  <2>2. "boot" \notin RunOps
    BY DEF RunOps, DiskOps
  <2> QED
    BY <2>1, <2>2, CallFrame DEF VmOps
<1>4. CallOK(s)'
  BY <1>2, <1>3 DEF CallOK, OpsFit, VmOps
<1>5. RootOK(s)'
  <2>1. Op(s)' = "boot" => RootOf(s)' = NoRoot'
    BY DEF RootOf, DiskOps, BuildOps
  <2>2. NoRoot' = NoRoot
    BY DEF NoRoot, User
  <2> QED
    BY <1>2, <1>3, <2>1, <2>2 DEF RootOK, Rooted
<1>6. ParentOK(s)'
  <2>1. CASE r.op = "template"
    <3>1. PICK t \in Sessions : t = parent'[s]
      BY <2>1, CallFrame
    <3>2. t \in Sessions /\ pc[t] = "ready" /\ t # s /\ pc[s] = "idle"
      BY <2>1, <3>1, CallFrame
    <3>3. Op(t) = "prepare"
      BY <1>1, <3>2 DEF Control, CallOK, OpsFit
    <3>4. pc'[t] = "ready" /\ Op(t)' = "prepare"
      BY <3>2, <3>3, CallFrame
    <3>5. t # None
      BY SessionBoundsAssumption
    <3>6. Op(parent[s])' = Op(t)'
      BY <3>1 DEF Op
    <3> QED
      BY <3>1, <3>4, <3>5, <3>6 DEF ParentOK
  <2>2. CASE r.op # "template"
    BY <1>2, <2>2, CallFrame DEF ParentOK
  <2> QED
    BY <2>1, <2>2
<1>7. ASSUME NEW t \in Sessions, t # s PROVE CallOK(t)' /\ ParentOK(t)' /\ RootOK(t)'
  <2>1. /\ CallOK(t) /\ ParentOK(t) /\ RootOK(t) /\ base' = base /\ root' = root
        /\ pc'[t] = pc[t] /\ opt'[t] = opt[t] /\ parent'[t] = parent[t] /\ Op(t)' = Op(t) /\ parent[t] # s
    BY <1>1, <1>7, CallFrame DEF Control
  <2>2. CallOK(t)'
    BY <2>1 DEF CallOK, OpsFit, NoRoot, User
  <2>3. RootOf(t)' = RootOf(t)
    BY <2>1 DEF RootOf, Root, NoRoot, Own, User, Bundle, Cached, Disk, DiskOps, BuildOps
  <2>4. RootOK(t)'
    BY <2>1, <2>3 DEF RootOK, NoRoot, User
  <2>5. ParentOK(t)'
    <3>1. CASE parent[t] = None
      BY <2>1, <3>1 DEF ParentOK
    <3>2. CASE parent[t] # None
      <4>1. PICK u \in Sessions : u = parent[t]
        BY <1>1, <3>2 DEF CallTypes
      <4>2. pc'[u] = pc[u] /\ Op(u)' = Op(u) /\ parent'[t] = u /\ parent[t] = u
        BY <2>1, <4>1, CallFrame
      <4>3. Op(parent[t])' = Op(u)' /\ Op(parent[t]) = Op(u)
        BY <4>2 DEF Op
      <4> QED
        BY <2>1, <4>2, <4>3 DEF ParentOK
    <3> QED
      BY <3>1, <3>2
  <2> QED
    BY <2>2, <2>4, <2>5
<1> QED
  BY <1>4, <1>5, <1>6, <1>7 DEF Control

\* The files are as they were; the session's own ones do not exist yet.
LEMMA FilesCall ==
  ASSUME SessIInv, NEW s \in Sessions, NEW r \in Requests, Call(s, r)
  PROVE Names' /\ Private' /\ Complete' /\ WholeImages'
<1>1. /\ Control /\ Names /\ Private /\ Complete /\ WholeImages /\ CallTypes
      /\ fs' = fs /\ whole' = whole /\ writers' = writers /\ base' = base
  BY TypeParts, CallFrame DEF SessIInv
<1>2. pc[s] = "idle" /\ pc'[s] \in {"net", "overlay", "source"} /\ base[s] = None
      /\ (pc'[s] = "overlay" => Op(s)' = "boot")
  <2>1. r.op \in RunOps \/ r.op = "boot" \/ r.op \notin VmOps
    BY DEF VmOps
  <2> QED
    BY <2>1, CallFrame
<1>3. \A t \in Sessions : t # s => pc'[t] = pc[t] /\ Op(t)' = Op(t) /\ parent'[t] = parent[t]
  BY CallFrame
<1>4. ASSUME NEW ops PROVE Called(ops) \subseteq Called(ops)'
  BY <1>2, <1>3 DEF Called
<1>5. Names'
  <2>1. /\ Called(CacheOps) \subseteq Called(CacheOps)' /\ Called(DiskOps) \subseteq Called(DiskOps)'
        /\ Called({"snapshot"}) \subseteq Called({"snapshot"})' /\ Called(SnapshotOps) \subseteq Called(SnapshotOps)'
    BY <1>4
  <2>2. CacheFiles \subseteq CacheFiles' /\ DiskFiles \subseteq DiskFiles' /\ BundleFiles \subseteq BundleFiles'
    BY <2>1 DEF CacheFiles, DiskFiles, BundleFiles, ImageOf, CopyOf, Cached, Disk, Bundle, User
  <2>3. fs[User] = User /\ fs[Cached] \in CacheFiles' /\ fs[Disk] \in DiskFiles' /\ fs[Bundle] \in BundleFiles'
    BY <1>1, <2>2 DEF Names
  <2> QED
    BY <1>1, <2>3 DEF Names, User, Cached, Disk, Bundle, Tmp, Own, CopyTmp, ImageOf, CopyOf
<1>6. Private'
  <2>1. ASSUME NEW t \in Sessions
        PROVE (Unbuilt(t)' => Unbuilt(t)) /\ (Uncopied(t)' => Uncopied(t))
    BY <1>2, <1>3 DEF Unbuilt, Uncopied
  <2>2. ASSUME NEW i PROVE Unpublished(i)' <=> Unpublished(i)
    BY <1>1 DEF Unpublished, Cached, Disk, Bundle
  <2>3. ASSUME NEW t \in Sessions
        PROVE /\ Unpublished(ImageOf(t))' <=> Unpublished(ImageOf(t))
              /\ Unpublished(CopyOf(t))' <=> Unpublished(CopyOf(t))
    BY <1>1 DEF Unpublished, Cached, Disk, Bundle, ImageOf, CopyOf
  <2> QED
    BY <1>1, <2>1, <2>3 DEF Private
<1>7. Complete'
  <2>1. ASSUME NEW t \in Sessions, t # s PROVE CompleteAt(t)'
    BY <1>1, <1>3, <2>1 DEF Complete, CompleteAt, ImageOf, CopyOf, Tmp, Cached
  <2>2. CompleteAt(s)'
    <3>1. parent'[s] # None => ImageOf(parent'[s]) \in whole
      <4>1. CASE r.op = "template"
        <5>1. PICK t \in Sessions : t = parent'[s] /\ pc[t] = "ready"
          BY <4>1, CallFrame
        <5>2. Op(t) = "prepare"
          BY <1>1, <5>1 DEF Control, CallOK, OpsFit
        <5> QED
          BY <1>1, <5>1, <5>2 DEF Complete, CompleteAt, Rooted, BuildOps
      <4>2. CASE r.op # "template"
        BY <4>2, CallFrame
      <4> QED
        BY <4>1, <4>2
    <3>2. ImageOf(parent[s])' = ImageOf(parent'[s])
      BY DEF ImageOf
    <3> QED
      BY <1>1, <1>2, <3>1, <3>2 DEF CompleteAt, Rooted, BuildOps
  <2> QED
    BY <1>1, <2>1, <2>2 DEF Complete, OldInodes, Cached, Disk, User, Bundle
<1>8. WholeImages'
  BY <1>1, <1>2, <1>3 DEF WholeImages
<1> QED
  BY <1>5, <1>6, <1>7, <1>8

LEMMA SessionCall ==
  ASSUME SessIInv, NEW s \in Sessions, NEW r \in Requests, Call(s, r)
  PROVE Written' /\ OneSnapshot' /\ BundleSteps' /\ BundleWhole' /\ Leftovers'
<1>1. /\ Written /\ OneSnapshot /\ BundleSteps /\ BundleWhole /\ Leftovers /\ CallTypes
      /\ fs' = fs /\ whole' = whole /\ writers' = writers /\ base' = base /\ manifest' = manifest
      /\ root' = root /\ net' = net /\ stuck' = stuck
  BY TypeParts, CallFrame DEF SessIInv
<1>2. pc[s] = "idle" /\ pc'[s] \in {"net", "overlay", "source"} /\ base[s] = None /\ Op(s)' = r.op
  <2>1. r.op \in RunOps \/ r.op = "boot" \/ r.op \notin VmOps
    BY DEF VmOps
  <2> QED
    BY <2>1, CallFrame
<1>3. \A t \in Sessions : t # s => pc'[t] = pc[t] /\ Op(t)' = Op(t) /\ parent'[t] = parent[t] /\ opt'[t] = opt[t]
  BY CallFrame
<1>4. Written'
  <2>1. ASSUME NEW t \in Sessions, t # s, NEW i, From(t, i) PROVE From(t, i)'
    <3>1. Called(DiskOps) \subseteq Called(DiskOps)'
      BY <1>2, <1>3 DEF Called
    <3> QED
      BY <1>3, <2>1, <3>1 DEF From, User, Disk, CopyOf, ImageOf
  <2>2. ASSUME NEW t \in Sessions, t # s
        PROVE /\ base'[t] # None /\ ~NeedsOverlay(t)' => From(t, base[t])'
              /\ \A i \in Inodes : t \in writers'[i] => pc'[t] \in Past /\ ~opt'[t].sandbox /\ From(t, i)'
    <3>1. PICK b : b = base[t]
      OBVIOUS
    <3>2. base'[t] = b /\ (NeedsOverlay(t)' <=> NeedsOverlay(t))
      BY <1>1, <1>3, <2>2, <3>1 DEF NeedsOverlay
    <3>3. From(t, base[t])' <=> From(t, b)'
      BY <3>2 DEF From
    <3>4. base[t] # None /\ ~NeedsOverlay(t) => From(t, b)
      BY <1>1, <3>1 DEF Written
    <3>5. \A i \in Inodes : t \in writers[i] => pc[t] \in Past /\ ~opt[t].sandbox /\ From(t, i)
      BY <1>1 DEF Written
    <3> QED
      BY <1>1, <1>3, <2>1, <2>2, <3>1, <3>2, <3>3, <3>4, <3>5
  <2>3. base'[s] = None /\ \A i \in Inodes : s \notin writers'[i]
    BY <1>1, <1>2, CallFrame
  <2>4. Inodes' = Inodes
    BY DEF Inodes, OldInodes, Cached, User, Disk, Bundle
  <2> QED
    BY <2>2, <2>3, <2>4 DEF Written
<1>5. OneSnapshot'
  <2>1. r.op \in SnapshotOps => \A t \in Active : Op(t) \notin SnapshotOps
    BY DEF Call
  <2>2. ASSUME NEW t \in Sessions, t # s PROVE t \in Active' <=> t \in Active
    BY <1>3, <2>2 DEF Active
  <2> QED
    BY <1>1, <1>2, <1>3, <2>1, <2>2 DEF OneSnapshot
<1>6. BundleSteps'
  BY <1>1, <1>2, <1>3 DEF BundleSteps, Bundle, CopyOf
<1>7. BundleWhole'
  BY <1>1 DEF BundleWhole, Bundle
<1>8. Leftovers'
  <2>1. dirs' = IF r.op = "boot" THEN dirs ELSE dirs \union {<<"temp", s>>}
    BY CallFrame
  <2>2. ASSUME NEW t \in Sessions, t # s PROVE Kept(t)'
    <3>1. /\ Kept(t) /\ Op(t)' = Op(t) /\ opt'[t] = opt[t] /\ pc'[t] = pc[t]
          /\ \A w : <<w, t>> \in dirs' <=> <<w, t>> \in dirs
      BY <1>1, <1>3, <2>1, <2>2 DEF Leftovers
    <3> QED
      BY <1>1, <3>1 DEF Kept, KeepsTemp, Tmp, Own, CopyTmp
  <2>3. Kept(s)'
    <3>1. /\ s \notin net /\ <<"overlay", s>> \notin dirs /\ fs[Tmp(s)] = None /\ fs[CopyTmp(s)] = None
          /\ fs[Own(s)] # None => <<"temp", s>> \in dirs
          /\ <<"result", s>> \in dirs => <<"result", s>> \in stuck
      BY <1>1, <1>2 DEF Leftovers, Kept
    <3>2. /\ <<"overlay", s>> \notin dirs' /\ (<<"result", s>> \in dirs' => <<"result", s>> \in stuck)
          /\ (r.op # "boot" \/ <<"temp", s>> \in dirs => <<"temp", s>> \in dirs')
      BY <2>1, <3>1
    <3> QED
      BY <1>1, <1>2, <3>1, <3>2 DEF Kept, KeepsTemp, Tmp, Own, CopyTmp
  <2> QED
    BY <2>2, <2>3 DEF Leftovers
<1> QED
  BY <1>4, <1>5, <1>6, <1>7, <1>8

-----------------------------------------------------------------------------
(* The death of a process.                                                  *)

\* The sessions of a process were called; they die, and their VMs with them.
LEMMA CrashFrame ==
  ASSUME SessIInv, NEW s \in Sessions, Crash(s)
  PROVE /\ CallTypes' /\ UNCHANGED <<fs, whole, writers, manifest, dirs, net, stuck, opt, parent, root>>
        /\ \A t \in Sessions : /\ pc'[t] = pc[t] \/ (pc'[t] = "dead" /\ pc[t] # "idle")
                               /\ base'[t] = base[t] \/ base'[t] = None
                               /\ Op(t)' = Op(t)
<1>1. CallTypes /\ Control /\ s \in Active
  BY TypeParts DEF SessIInv, Crash
<1>2. UNCHANGED <<fs, whole, writers, manifest, dirs, net, stuck, opt, parent, root>>
  BY DEF Crash, fileVars, hostVars
<1>3. /\ pc' = [t \in Sessions |-> IF t \in Process(s) /\ pc[t] # "done" THEN "dead" ELSE pc[t]]
      /\ base' = [t \in Sessions |-> IF t \in Process(s) THEN None ELSE base[t]]
  BY DEF Crash
<1>4. CallTypes'
  BY <1>1, <1>2, <1>3 DEF CallTypes, Steps
<1>5. ASSUME NEW t \in Process(s) PROVE pc[t] # "idle"
  <2>1. PICK o : o = IF parent[s] = None THEN s ELSE parent[s]
    OBVIOUS
  <2>2. o \in Sessions /\ pc[o] # "idle"
    <3>1. CASE parent[s] = None
      BY <1>1, <2>1, <3>1 DEF Active
    <3>2. CASE parent[s] # None
      BY <1>1, <2>1, <3>2 DEF Control, ParentOK, CallTypes
    <3> QED
      BY <3>1, <3>2
  <2>3. t \in Sessions /\ (t = o \/ parent[t] = o)
    BY <2>1 DEF Process
  <2>4. o # None
    BY <2>2, SessionBoundsAssumption
  <2> QED
    BY <1>1, <2>2, <2>3, <2>4 DEF Control, CallOK
<1>6. ASSUME NEW t \in Sessions
      PROVE /\ pc'[t] = pc[t] \/ (pc'[t] = "dead" /\ pc[t] # "idle")
            /\ base'[t] = base[t] \/ base'[t] = None
            /\ Op(t)' = Op(t)
  BY <1>2, <1>3, <1>5 DEF Op
<1> QED
  BY <1>2, <1>4, <1>6

\* The dead leave the files as they are, and nobody continues their work.
LEMMA CrashKeeps ==
  ASSUME SessIInv, NEW s \in Sessions, Crash(s)
  PROVE /\ Control' /\ Names' /\ Private' /\ Complete' /\ WholeImages' /\ Written'
        /\ OneSnapshot' /\ BundleSteps' /\ BundleWhole' /\ Leftovers'
<1>1. /\ CallTypes /\ CallTypes' /\ fs' = fs /\ whole' = whole /\ writers' = writers /\ manifest' = manifest
      /\ dirs' = dirs /\ net' = net /\ stuck' = stuck /\ opt' = opt /\ parent' = parent /\ root' = root
  BY TypeParts, CrashFrame DEF SessIInv
<1>2. \A t \in Sessions : /\ pc'[t] = pc[t] \/ (pc'[t] = "dead" /\ pc[t] # "idle")
                          /\ base'[t] = base[t] \/ base'[t] = None
                          /\ Op(t)' = Op(t)
  BY CrashFrame
<1>3. ASSUME NEW ops PROVE Called(ops)' = Called(ops)
  BY <1>2 DEF Called
<1>4. Control'
  <2>1. ASSUME NEW t \in Sessions PROVE CallOK(t)' /\ ParentOK(t)' /\ RootOK(t)'
    <3>1. CallOK(t) /\ ParentOK(t) /\ RootOK(t)
      BY DEF SessIInv, Control
    <3>2. CallOK(t)'
      BY <1>1, <1>2, <3>1 DEF CallOK, OpsFit, Past, NoRoot, User
    <3>3. RootOf(t)' = RootOf(t)
      BY <1>1, <1>2 DEF RootOf, Root, NoRoot, Own, User, Bundle, Cached, Disk, DiskOps, BuildOps
    <3>4. RootOK(t)'
      BY <1>1, <1>2, <3>1, <3>3 DEF RootOK, Rooted, NoRoot, User
    <3>5. ParentOK(t)'
      <4>1. CASE parent[t] = None
        BY <1>1, <1>2, <3>1, <4>1 DEF ParentOK
      <4>2. CASE parent[t] # None
        <5>1. PICK u \in Sessions : u = parent[t]
          BY <1>1, <4>2 DEF CallTypes
        <5>2. Op(parent[t])' = Op(u)' /\ Op(parent[t]) = Op(u)
          BY <1>1, <5>1 DEF Op
        <5> QED
          BY <1>1, <1>2, <3>1, <5>1, <5>2 DEF ParentOK
      <4> QED
        BY <4>1, <4>2
    <3> QED
      BY <3>2, <3>4, <3>5
  <2> QED
    BY <2>1 DEF Control
<1>5. Names'
  <2>1. /\ Called(CacheOps)' = Called(CacheOps) /\ Called(DiskOps)' = Called(DiskOps)
        /\ Called({"snapshot"})' = Called({"snapshot"}) /\ Called(SnapshotOps)' = Called(SnapshotOps)
    BY <1>3
  <2>2. CacheFiles' = CacheFiles /\ DiskFiles' = DiskFiles /\ BundleFiles' = BundleFiles
    BY <2>1 DEF CacheFiles, DiskFiles, BundleFiles, ImageOf, CopyOf, Cached, Disk, Bundle, User
  <2> QED
    BY <1>1, <2>2 DEF SessIInv, Names, User, Cached, Disk, Bundle, Tmp, Own, CopyTmp, ImageOf, CopyOf
<1>6. Private'
  <2>1. ASSUME NEW t \in Sessions
        PROVE (Unbuilt(t)' => Unbuilt(t)) /\ (Uncopied(t)' => Uncopied(t))
    BY <1>2 DEF Unbuilt, Uncopied
  <2>2. ASSUME NEW t \in Sessions
        PROVE /\ Unpublished(ImageOf(t)) => Unpublished(ImageOf(t))'
              /\ Unpublished(CopyOf(t)) => Unpublished(CopyOf(t))'
    <3>1. ImageOf(t) # None /\ CopyOf(t) # None
      BY InodeFacts
    <3> QED
      BY <1>1, <1>2, <3>1 DEF Unpublished, Cached, Disk, Bundle, ImageOf, CopyOf
  <2> QED
    BY <2>1, <2>2 DEF SessIInv, Private
<1>7. Complete'
  <2>1. ASSUME NEW t \in Sessions PROVE CompleteAt(t)'
    <3>1. CompleteAt(t)
      BY DEF SessIInv, Complete
    <3> QED
      BY <1>1, <1>2, <3>1 DEF CompleteAt, Rooted, ImageOf, CopyOf, Tmp, Cached
  <2> QED
    BY <1>1, <2>1 DEF SessIInv, Complete, OldInodes, Cached, Disk, User, Bundle
<1>8. WholeImages'
  BY <1>1, <1>2 DEF SessIInv, WholeImages
<1>9. Written'
  <2>1. ASSUME NEW t \in Sessions, NEW i PROVE From(t, i)' <=> From(t, i)
    <3>1. Called(DiskOps)' = Called(DiskOps)
      BY <1>3
    <3> QED
      BY <1>1, <1>2, <3>1 DEF From, User, Disk, CopyOf, ImageOf
  <2>2. ASSUME NEW t \in Sessions
        PROVE /\ base'[t] # None /\ ~NeedsOverlay(t)' => From(t, base[t])'
              /\ \A i \in Inodes : t \in writers'[i] => pc'[t] \in Past /\ ~opt'[t].sandbox /\ From(t, i)'
    <3>1. PICK b : b = base[t]
      OBVIOUS
    <3>2. base'[t] # None => base'[t] = b
      BY <1>2, <3>1
    <3>3. NeedsOverlay(t)' <=> NeedsOverlay(t)
      BY <1>1 DEF NeedsOverlay
    <3>4. base'[t] = b => (From(t, base[t])' <=> From(t, b)')
      BY DEF From
    <3>5. base[t] # None /\ ~NeedsOverlay(t) => From(t, b)
      BY <3>1 DEF SessIInv, Written
    <3>6. \A i \in Inodes : t \in writers[i] => pc[t] \in Past /\ ~opt[t].sandbox /\ From(t, i)
      BY DEF SessIInv, Written
    <3>7. pc[t] \in Past => pc'[t] \in Past
      BY <1>2 DEF Past
    <3> QED
      BY <1>1, <2>1, <3>1, <3>2, <3>3, <3>4, <3>5, <3>6, <3>7
  <2>3. Inodes' = Inodes
    BY DEF Inodes, OldInodes, Cached, User, Disk, Bundle
  <2> QED
    BY <2>2, <2>3 DEF Written
<1>10. OneSnapshot'
  <2>1. Active' \subseteq Active
    BY <1>2 DEF Active
  <2> QED
    BY <1>2, <2>1 DEF SessIInv, OneSnapshot
<1>11. BundleSteps' /\ BundleWhole'
  BY <1>1, <1>2 DEF SessIInv, BundleSteps, BundleWhole, Bundle, CopyOf
<1>12. Leftovers'
  <2>1. ASSUME NEW t \in Sessions PROVE Kept(t)'
    <3>1. Kept(t)
      BY DEF SessIInv, Leftovers
    <3> QED
      BY <1>1, <1>2, <3>1 DEF Kept, KeepsTemp, Tmp, Own, CopyTmp
  <2> QED
    BY <2>1 DEF Leftovers
<1> QED
  BY <1>4, <1>5, <1>6, <1>7, <1>8, <1>9, <1>10, <1>11, <1>12

-----------------------------------------------------------------------------
(* The theorems.                                                            *)

\* On a fresh host, and on one with an image, a disk and a snapshot.
LEMMA InitSess == Init => SessIInv
<1>1. SUFFICES ASSUME Init PROVE SessIInv
  OBVIOUS
<1>2. /\ whole = OldInodes /\ writers = [i \in Inodes |-> {}] /\ dirs = {} /\ net = {} /\ stuck = {}
      /\ pc = [s \in Sessions |-> "idle"] /\ opt = [s \in Sessions |-> None] /\ parent = [s \in Sessions |-> None]
      /\ root = [s \in Sessions |-> NoRoot] /\ base = [s \in Sessions |-> None] /\ faults = 0 /\ crashes = 0
  BY <1>1 DEF Init
<1>3. /\ fs \in [Paths -> Inodes \union {None}] /\ manifest \in BOOLEAN
      /\ fs[User] = User /\ fs[Cached] \in {None, Cached} /\ fs[Disk] \in {None, Disk}
      /\ fs[Bundle] \in {None, Bundle, User}
      /\ \A t \in Sessions : fs[Tmp(t)] = None /\ fs[Own(t)] = None /\ fs[CopyTmp(t)] = None
  <2>1. CASE fs = [p \in Paths |-> IF p = User THEN User ELSE None] /\ manifest = FALSE
    BY <2>1, PathFacts, InodeFacts
  <2>2. CASE \E i \in {User, Bundle} :
               /\ fs = [p \in Paths |-> CASE p = Bundle -> i
                                          [] p \in OldInodes \ {Bundle} -> p
                                          [] OTHER -> None]
               /\ manifest = TRUE
    <3>1. PICK i \in {User, Bundle} :
               /\ fs = [p \in Paths |-> CASE p = Bundle -> i
                                          [] p \in OldInodes \ {Bundle} -> p
                                          [] OTHER -> None]
               /\ manifest = TRUE
      BY <2>2
    <3>2. /\ fs[User] = User /\ fs[Cached] = Cached /\ fs[Disk] = Disk /\ fs[Bundle] = i
      BY <3>1, PathFacts, InodeFacts
    <3>3. ASSUME NEW t \in Sessions PROVE fs[Tmp(t)] = None /\ fs[Own(t)] = None /\ fs[CopyTmp(t)] = None
      <4>1. ASSUME NEW p \in {Tmp(t), Own(t), CopyTmp(t)} PROVE p \in Paths /\ p # Bundle /\ p \notin OldInodes
        BY PathFacts, InodeFacts
      <4>2. \A p \in {Tmp(t), Own(t), CopyTmp(t)} : fs[p] = None
        BY <3>1, <4>1
      <4> QED
        BY <4>2
    <3>4. ASSUME NEW p \in Paths PROVE fs[p] \in Inodes \union {None}
      BY <3>1, InodeFacts
    <3> QED
      BY <3>1, <3>2, <3>3, <3>4
  <2> QED
    BY <1>1, <2>1, <2>2 DEF Init
<1>4. TypeOK
  <2>1. NoRoot \in Roots
    BY PathFacts DEF NoRoot, Roots
  <2>2. FileTypes
    BY <1>2, <1>3, InodeFacts DEF FileTypes
  <2>3. HostTypes
    BY <1>2, SessionBoundsAssumption DEF HostTypes
  <2>4. CallTypes
    BY <1>2, <2>1 DEF CallTypes, Steps
  <2> QED
    BY <2>2, <2>3, <2>4, TypeParts
<1>5. Control
  BY <1>2 DEF Control, CallOK, ParentOK, RootOK, Rooted
<1>6. Names
  BY <1>3 DEF Names, CacheFiles, DiskFiles, BundleFiles
<1>7. Private
  <2>1. ASSUME NEW i \in Inodes, i \notin OldInodes PROVE Unpublished(i)
    BY <1>2, <1>3, <2>1, InodeFacts DEF Unpublished
  <2> QED
    BY <2>1, InodeFacts DEF Private
<1>8. Complete /\ WholeImages
  BY <1>2, <1>3, InodeFacts DEF Complete, CompleteAt, WholeImages, Rooted
<1>9. Written /\ OneSnapshot /\ BundleSteps /\ BundleWhole
  BY <1>2, <1>3, InodeFacts DEF Written, OneSnapshot, Active, BundleSteps, BundleWhole
<1>10. Leftovers
  BY <1>2, <1>3 DEF Leftovers, Kept
<1> QED
  BY <1>4, <1>5, <1>6, <1>7, <1>8, <1>9, <1>10 DEF SessIInv

LEMMA NextSess == SessIInv /\ [Next]_vars => SessIInv'
<1>1. SUFFICES ASSUME SessIInv, [Next]_vars PROVE SessIInv'
  OBVIOUS
<1>2. CASE Next
  <2>1. PICK s \in Sessions : SessStep(s)
    BY <1>2 DEF Next, SessStep, Moves, Prepare, RunVm, Snapshot, Finish
  <2>2. FileTypes' /\ HostTypes'
    BY <1>1, <2>1, FileTypesStep, HostTypesStep
  <2>3. CASE Moves(s)
    <3>1. CallTypes'
      BY <1>1, <2>3, MoveFrame
    <3>2. TypeOK'
      BY <2>2, <3>1 DEF TypeOK, FileTypes, HostTypes, CallTypes, Roots
    <3> QED
      BY <1>1, <2>3, <3>2, ControlMoves, NamesMoves, PrivateMoves, CompleteMoves, WholeImagesMoves,
         WrittenMoves, SnapshotMoves, LeftoversMoves DEF SessIInv
  <2>4. CASE \E r \in Requests : Call(s, r)
    <3>1. PICK r \in Requests : Call(s, r)
      BY <2>4
    <3>2. TypeOK'
      <4>1. CallTypes'
        BY <1>1, <3>1, CallFrame
      <4> QED
        BY <2>2, <4>1 DEF TypeOK, FileTypes, HostTypes, CallTypes, Roots
    <3> QED
      BY <1>1, <3>1, <3>2, ControlCall, FilesCall, SessionCall DEF SessIInv
  <2>5. CASE Crash(s)
    <3>1. TypeOK'
      <4>1. CallTypes'
        BY <1>1, <2>5, CrashFrame
      <4> QED
        BY <2>2, <4>1 DEF TypeOK, FileTypes, HostTypes, CallTypes, Roots
    <3> QED
      BY <1>1, <2>5, <3>1, CrashKeeps DEF SessIInv
  <2> QED
    BY <2>1, <2>3, <2>4, <2>5 DEF SessStep
<1>3. CASE UNCHANGED vars
  <2>1. UNCHANGED <<fs, whole, writers, manifest, dirs, net, stuck, opt, parent, root, base, pc, faults, crashes>>
    BY <1>3 DEF vars, fileVars, hostVars, sessionVars
  <2>2. \A t \in Sessions : Op(t)' = Op(t)
    BY <2>1 DEF Op
  <2>3. TypeOK'
    BY <1>1, <2>1 DEF SessIInv, TypeOK
  <2>4. Control'
    <3>1. ASSUME NEW t \in Sessions PROVE RootOf(t)' = RootOf(t)
      BY <2>1 DEF RootOf, Op, Root, Own
    <3> QED
      BY <1>1, <2>1, <2>2, <3>1 DEF SessIInv, Control, CallOK, OpsFit, ParentOK, RootOK, Op
  <2>5. Names'
    BY <1>1, <2>1 DEF SessIInv, Names, CacheFiles, DiskFiles, BundleFiles, Called, Op
  <2>6. Private'
    BY <1>1, <2>1 DEF SessIInv, Private, Unbuilt, Uncopied, Unpublished, Op
  <2>7. Complete'
    BY <1>1, <2>1 DEF SessIInv, Complete, CompleteAt, Op
  <2>8. WholeImages'
    BY <1>1, <2>1 DEF SessIInv, WholeImages, Op
  <2>9. Written'
    BY <1>1, <2>1 DEF SessIInv, Written, From, NeedsOverlay, Called, Op
  <2>10. OneSnapshot' /\ BundleSteps' /\ BundleWhole'
    BY <1>1, <2>1 DEF SessIInv, OneSnapshot, Active, Op, BundleSteps, BundleWhole
  <2>11. Leftovers'
    BY <1>1, <2>1 DEF SessIInv, Leftovers, Kept, KeepsTemp, Op
  <2> QED
    BY <2>3, <2>4, <2>5, <2>6, <2>7, <2>8, <2>9, <2>10, <2>11 DEF SessIInv
<1> QED
  BY <1>1, <1>2, <1>3

\* The files others boot are not among those a guest without an overlay has.
LEMMA ImagesClean == SessIInv => SharedImagesClean
<1>1. SUFFICES ASSUME SessIInv PROVE SharedImagesClean
  OBVIOUS
<1>2. FileTypes /\ CallTypes /\ Control /\ Names
  BY <1>1, TypeParts DEF SessIInv
<1>3. ASSUME NEW s \in Sessions, NEW i \in Inodes, s \in writers[i]
      PROVE ~opt[s].sandbox /\ From(s, i) /\ (Op(s) = "template" => parent[s] \in Sessions /\ Op(parent[s]) = "prepare")
  <2>1. pc[s] \in Past /\ ~opt[s].sandbox /\ From(s, i)
    BY <1>1, <1>3 DEF SessIInv, Written
  <2>2. Op(s) = "template" => parent[s] \in Sessions /\ Op(parent[s]) = "prepare"
    BY <1>2, <2>1 DEF Control, ParentOK, CallTypes, Past
  <2> QED
    BY <2>1, <2>2
<1>4. ASSUME NEW s \in Sessions, NEW t \in Sessions, s \in writers[ImageOf(t)]
      PROVE (s = t /\ Op(t) = "build") \/ (parent[s] = t /\ Op(t) = "prepare")
  <2>1. ImageOf(t) \in Inodes
    BY InodeFacts
  <2>2. From(s, ImageOf(t)) /\ (Op(s) = "template" => parent[s] \in Sessions /\ Op(parent[s]) = "prepare")
    BY <1>3, <1>4, <2>1
  <2> QED
    BY <2>2, InodeFacts DEF From, Called
<1>5. ASSUME NEW s \in Sessions, NEW i \in Inodes, s \in writers[i]
      PROVE \/ Op(s) \in {"rootfs", "boot"} /\ i = User
            \/ i = Disk
            \/ \E t \in Sessions : i = CopyOf(t) /\ Op(t) \in DiskOps
            \/ \E t \in Sessions : i = ImageOf(t)
  <2>1. From(s, i) /\ (Op(s) = "template" => parent[s] \in Sessions)
    BY <1>3, <1>5
  <2> QED
    BY <2>1 DEF From, Called
<1>6. ASSUME fs[Cached] # None PROVE writers[fs[Cached]] = {}
  <2>1. fs[Cached] \in Inodes /\ writers[fs[Cached]] \subseteq Sessions
    BY <1>2, <1>6, PathFacts DEF FileTypes
  <2>2. ASSUME NEW s \in Sessions, s \in writers[fs[Cached]] PROVE FALSE
    <3>1. CASE fs[Cached] = Cached
      BY <1>5, <2>1, <2>2, <3>1, InodeFacts, PathFacts
    <3>2. CASE \E t \in Called(CacheOps) : fs[Cached] = ImageOf(t)
      <4>1. PICK t \in Sessions : fs[Cached] = ImageOf(t) /\ Op(t) \in CacheOps
        BY <3>2 DEF Called
      <4>2. Op(t) \in {"build", "prepare"}
        BY <1>4, <2>2, <4>1
      <4> QED
        BY <4>1, <4>2 DEF CacheOps, DiskOps
    <3> QED
      BY <1>2, <1>6, <3>1, <3>2 DEF Names, CacheFiles
  <2> QED
    BY <2>1, <2>2
<1>7. ASSUME NEW t \in Sessions, pc[t] = "ready", NEW s \in writers[ImageOf(t)]
      PROVE parent[s] = t /\ ~opt[s].sandbox
  <2>1. ImageOf(t) \in Inodes /\ s \in Sessions
    BY <1>2, <1>7, InodeFacts DEF FileTypes
  <2>2. Op(t) = "prepare"
    BY <1>2, <1>7 DEF Control, CallOK, OpsFit
  <2> QED
    BY <1>3, <1>4, <1>7, <2>1, <2>2
<1>8. ASSUME fs[Bundle] # None, NEW s \in writers[fs[Bundle]]
      PROVE fs[Bundle] = User /\ Op(s) \in {"rootfs", "boot"} /\ ~opt[s].sandbox
  <2>1. fs[Bundle] \in Inodes /\ s \in Sessions
    BY <1>2, <1>8, PathFacts DEF FileTypes
  <2>2. ~opt[s].sandbox
    BY <1>3, <1>8, <2>1
  <2>3. fs[Bundle] # Bundle
    BY <1>5, <1>8, <2>1, InodeFacts, PathFacts
  <2>4. ASSUME NEW t \in Called({"snapshot"}), fs[Bundle] = ImageOf(t) PROVE FALSE
    <3>1. t \in Sessions /\ Op(t) = "snapshot"
      BY DEF Called
    <3>2. Op(t) \in {"build", "prepare"}
      BY <1>4, <1>8, <2>1, <2>4, <3>1
    <3> QED
      BY <3>1, <3>2
  <2>5. ASSUME NEW t \in Called(SnapshotOps), fs[Bundle] = CopyOf(t) PROVE FALSE
    <3>1. t \in Sessions /\ Op(t) \in SnapshotOps
      BY DEF Called
    <3>2. Op(t) \in DiskOps
      BY <1>5, <1>8, <2>1, <2>5, <3>1, InodeFacts
    <3> QED
      BY <3>1, <3>2 DEF DiskOps, SnapshotOps
  <2>6. fs[Bundle] = User
    BY <1>2, <1>8, <2>3, <2>4, <2>5 DEF Names, BundleFiles
  <2> QED
    BY <1>5, <1>8, <2>1, <2>2, <2>6, InodeFacts, PathFacts
<1> QED
  BY <1>6, <1>7, <1>8 DEF SharedImagesClean

\* Whatever the sessions of the pipelines of src/index.ts do at the same time,
\* and wherever one fails or its process dies, no VM boots an image that is
\* not complete, and nobody writes to an image that others boot unless its
\* user asked for it.
THEOREM ImagesSoundHolds == Spec => []ImagesSound
<1>1. SessIInv => ImagesSound
  BY ImagesClean DEF SessIInv, ImagesSound
<1> QED
  BY <1>1, InitSess, NextSess, PTL DEF Spec

\* writeSnapshotBundle leaves a complete image under a manifest at every point
\* where it can be cut off, and the finally blocks and cleanupBestEffort leave
\* nothing of a session but what its user keeps, what could not be removed and,
\* of a run of a prepared sandbox, its temporary directory (index.ts:1917).
THEOREM SessionsEndCleanHolds == Spec => []SessionsEndClean
<1>1. SessIInv => SessionsEndClean
  <2>1. SUFFICES ASSUME SessIInv PROVE NothingLeft
    BY DEF SessIInv, SessionsEndClean
  <2>2. ASSUME NEW s \in Sessions PROVE Kept(s)
    BY <2>1 DEF SessIInv, Leftovers
  <2> QED
    BY <2>2 DEF NothingLeft, Kept, KeepsTemp
<1> QED
  BY <1>1, InitSess, NextSess, PTL DEF Spec

-----------------------------------------------------------------------------
(***************************************************************************)
(* Proofs about the RAM snapshots, for every number of pages, every width   *)
(* of the dirty bitmap's words, every length of the program and any number  *)
(* of calls and failing writes.                                             *)
(*                                                                         *)
(* SnapshotExact speaks of the restored guest only.  The invariant adds     *)
(* what leads there: at every instruction the memory and the outputs of     *)
(* either VM are those of the program so far, the base file and the dirty   *)
(* log together cover the source's memory (LogCovers), and the files the    *)
(* second VM reads make that memory again (RestoreInv).  MemoryAt and       *)
(* OutputsAt, recursive functions, are unrolled with DataInduction.         *)
(***************************************************************************)

Modes == {"full", "dirty"}
Mems == [PageIds -> Nat]

\* What a program is made of.
IsProgram(mode, prog) ==
  /\ Len(prog) = ProgramLength
  /\ \A k \in 1..ProgramLength :
       \/ prog[k].op = "out"
       \/ /\ prog[k].op = "store"
          /\ prog[k].page \in PageIds \ {CodePage(mode)} /\ prog[k].v \in {0, Stored}

\* A program is as many outputs and stores as it is long.
LEMMA ProgramIs ==
  ASSUME RamAssumption, NEW mode \in Modes, NEW prog \in Programs(mode)
  PROVE  IsProgram(mode, prog)
<1> DEFINE I == {[op |-> "out"]} \cup
          {[op |-> "store", page |-> q, v |-> v] : q \in PageIds \ {CodePage(mode)}, v \in {0, Stored}}
<1>1. prog \in [1..ProgramLength -> I] /\ ProgramLength \in Nat
  BY DEF Programs, RamAssumption
<1>2. \A i \in I : \/ i.op = "out"
                   \/ i.op = "store" /\ i.page \in PageIds \ {CodePage(mode)} /\ i.v \in {0, Stored}
  OBVIOUS
<1> HIDE DEF I
<1>3. prog \in Seq(I) /\ Len(prog) = ProgramLength
  BY <1>1
<1> QED BY <1>1, <1>2, <1>3 DEF IsProgram

\* The memory a program starts with.
FirstMem(mode) == [p \in PageIds |-> IF p = CodePage(mode) THEN Code ELSE IF p = 0 THEN Stub ELSE 0]
StepMem(prog, k, mem) == IF prog[k].op = "store" THEN [mem EXCEPT ![prog[k].page] = prog[k].v] ELSE mem
StepOut(prog, k, out) == IF k <= Len(prog) /\ prog[k].op = "out" THEN Append(out, k) ELSE out

\* MemoryAt by its steps.
MemorySteps(mode, prog) ==
  /\ MemoryAt(mode, prog, 0) = FirstMem(mode)
  /\ \A n \in 0..ProgramLength : MemoryAt(mode, prog, n) \in Mems
  /\ \A n \in 1..ProgramLength : MemoryAt(mode, prog, n) = StepMem(prog, n, MemoryAt(mode, prog, n - 1))

\* The recursive function MemoryAt takes one step for each instruction.
LEMMA MemoryStepsHold ==
  ASSUME RamAssumption, NEW mode \in Modes, NEW prog \in Programs(mode)
  PROVE  MemorySteps(mode, prog)
<1> DEFINE n == ProgramLength
           v0 == FirstMem(mode)
           D == [k \in 1..n |-> [m \in Mems |-> StepMem(prog, k, m)]]
           Body(at, k) == IF k = 0 THEN [p \in PageIds |-> IF p = CodePage(mode) THEN Code ELSE IF p = 0 THEN Stub ELSE 0]
                          ELSE IF prog[k].op = "store" THEN [at[k-1] EXCEPT ![prog[k].page] = prog[k].v] ELSE at[k-1]
           B(m) == CHOOSE at : at = [k \in 0..m |-> Body(at, k)]
<1>1. n \in Nat /\ v0 \in Mems
  BY DEF RamAssumption, FirstMem, Mems, Code, Stub
<1>2. \A k \in 1..n : \A m \in Mems : StepMem(prog, k, m) \in Mems
  BY ProgramIs DEF StepMem, Mems, IsProgram, Stored
<1> HIDE DEF n, v0
<1>3. D \in [1..n -> [Mems -> Mems]]
  BY <1>2
<1>4. \A k \in 1..n : \A m \in Mems : D[k][m] = StepMem(prog, k, m)
  OBVIOUS
<1> HIDE DEF D
<1>5. PICK f \in Unrolled(Mems, n, v0, D) : TRUE
  BY <1>1, <1>3, RunExists
<1>6. f \in [0..n -> Mems] /\ f[0] = v0 /\ \A k \in 1..n : f[k] = D[k][f[k - 1]]
  BY <1>5 DEF Unrolled
<1>7. ASSUME NEW k \in 1..n PROVE f[k] = StepMem(prog, k, f[k - 1])
  <2>1. k - 1 \in 0..n
    BY <1>1
  <2>2. f[k - 1] \in Mems
    BY <1>6, <2>1
  <2> QED BY <1>4, <1>6, <2>2
<1>8. ASSUME NEW m \in 0..n PROVE MemoryAt(mode, prog, m) = f[m]
  <2> DEFINE g == [k \in 0..m |-> f[k]]
             h == B(m)
  <2>1. g = [k \in 0..m |-> Body(g, k)]
    <3>1. \A k \in 0..m : f[k] = Body(g, k)
      <4> SUFFICES ASSUME NEW k \in 0..m PROVE f[k] = Body(g, k)
        OBVIOUS
      <4>1. CASE k = 0
        BY <1>6, <4>1 DEF v0, FirstMem
      <4>2. CASE k # 0
        <5>1. k \in 1..n /\ k - 1 \in 0..m
          BY <1>1, <4>2
        <5>2. f[k] = StepMem(prog, k, f[k - 1]) /\ g[k - 1] = f[k - 1]
          BY <1>7, <5>1
        <5> QED BY <4>2, <5>2 DEF StepMem
      <4> QED BY <4>1, <4>2
    <3> HIDE DEF Body
    <3> QED BY <3>1
  <2>2. h = [k \in 0..m |-> Body(h, k)]
    BY <2>1
  <2> HIDE DEF h
  <2>3. \A k \in 0..m : h[k] = Body(h, k)
    <3> HIDE DEF Body
    <3> QED BY <2>2
  <2>4. h[0] = v0
    <3>1. Body(h, 0) = v0
      BY DEF v0, FirstMem
    <3>2. 0 \in 0..m
      BY <1>1
    <3> HIDE DEF Body
    <3> QED BY <2>3, <3>1, <3>2
  <2>5. ASSUME NEW k \in 1..m, h[k - 1] \in Mems PROVE h[k] = D[k][h[k - 1]]
    <3>1. k \in 0..m /\ k # 0 /\ k \in 1..n
      BY <1>1
    <3>2. h[k] = StepMem(prog, k, h[k - 1])
      BY <2>3, <3>1 DEF StepMem
    <3> QED BY <1>4, <2>5, <3>1, <3>2
  <2> HIDE DEF B, Body
  <2>6. h[m] = f[m]
    <3>1. Follows(h, Mems, m, v0, D)
      BY <2>4, <2>5 DEF Follows
    <3> HIDE DEF g
    <3> QED BY <1>1, <1>5, <3>1, RunIs
  <2>7. MemoryAt(mode, prog, m) = h[m]
    BY DEF h, B, Body, MemoryAt
  <2> QED BY <2>6, <2>7
<1>9. MemoryAt(mode, prog, 0) = v0
  BY <1>1, <1>6, <1>8
<1>10. \A k \in 0..n : MemoryAt(mode, prog, k) \in Mems
  BY <1>6, <1>8
<1>11. ASSUME NEW k \in 1..n PROVE MemoryAt(mode, prog, k) = StepMem(prog, k, MemoryAt(mode, prog, k - 1))
  <2>1. k \in 0..n /\ k - 1 \in 0..n
    BY <1>1
  <2> QED BY <1>7, <1>8, <2>1
<1> QED BY <1>9, <1>10, <1>11 DEF MemorySteps, n, v0

\* OutputsAt by its steps.
OutputSteps(prog) ==
  /\ OutputsAt(prog, 0) = <<>>
  /\ \A n \in 0..ProgramLength : OutputsAt(prog, n) \in Seq(Nat)
  /\ \A n \in 1..ProgramLength : OutputsAt(prog, n) = StepOut(prog, n, OutputsAt(prog, n - 1))

\* The recursive function OutputsAt takes one step for each instruction.
LEMMA OutputStepsHold ==
  ASSUME RamAssumption, NEW prog
  PROVE  OutputSteps(prog)
<1> DEFINE n == ProgramLength
           V == Seq(Nat)
           D == [k \in 1..n |-> [m \in V |-> StepOut(prog, k, m)]]
           Body(at, k) == IF k = 0 THEN <<>>
                          ELSE IF k <= Len(prog) /\ prog[k].op = "out" THEN Append(at[k-1], k) ELSE at[k-1]
           B(m) == CHOOSE at : at = [k \in 0..m |-> Body(at, k)]
<1>1. n \in Nat /\ <<>> \in V
  BY DEF RamAssumption
<1>2. \A k \in 1..n : \A m \in V : StepOut(prog, k, m) \in V
  BY <1>1 DEF StepOut
<1> HIDE DEF n, V
<1>3. D \in [1..n -> [V -> V]]
  BY <1>2
<1>4. \A k \in 1..n : \A m \in V : D[k][m] = StepOut(prog, k, m)
  OBVIOUS
<1> HIDE DEF D
<1>5. PICK f \in Unrolled(V, n, <<>>, D) : TRUE
  BY <1>1, <1>3, RunExists
<1>6. f \in [0..n -> V] /\ f[0] = <<>> /\ \A k \in 1..n : f[k] = D[k][f[k - 1]]
  BY <1>5 DEF Unrolled
<1>7. ASSUME NEW k \in 1..n PROVE f[k] = StepOut(prog, k, f[k - 1])
  <2>1. k - 1 \in 0..n
    BY <1>1
  <2>2. f[k - 1] \in V
    BY <1>6, <2>1
  <2> QED BY <1>4, <1>6, <2>2
<1>8. ASSUME NEW m \in 0..n PROVE OutputsAt(prog, m) = f[m]
  <2> DEFINE g == [k \in 0..m |-> f[k]]
             h == B(m)
  <2>1. g = [k \in 0..m |-> Body(g, k)]
    <3>1. \A k \in 0..m : f[k] = Body(g, k)
      <4> SUFFICES ASSUME NEW k \in 0..m PROVE f[k] = Body(g, k)
        OBVIOUS
      <4>1. CASE k = 0
        BY <1>6, <4>1
      <4>2. CASE k # 0
        <5>1. k \in 1..n /\ k - 1 \in 0..m
          BY <1>1, <4>2
        <5>2. f[k] = StepOut(prog, k, f[k - 1]) /\ g[k - 1] = f[k - 1]
          BY <1>7, <5>1
        <5> QED BY <4>2, <5>2 DEF StepOut
      <4> QED BY <4>1, <4>2
    <3> HIDE DEF Body
    <3> QED BY <3>1
  <2>2. h = [k \in 0..m |-> Body(h, k)]
    BY <2>1
  <2> HIDE DEF h
  <2>3. \A k \in 0..m : h[k] = Body(h, k)
    <3> HIDE DEF Body
    <3> QED BY <2>2
  <2>4. h[0] = <<>>
    BY <1>1, <2>3
  <2>5. ASSUME NEW k \in 1..m, h[k - 1] \in V PROVE h[k] = D[k][h[k - 1]]
    <3>1. k \in 0..m /\ k # 0 /\ k \in 1..n
      BY <1>1
    <3>2. h[k] = StepOut(prog, k, h[k - 1])
      BY <2>3, <3>1 DEF StepOut
    <3> QED BY <1>4, <2>5, <3>1, <3>2
  <2> HIDE DEF B
  <2>6. h[m] = f[m]
    <3>1. Follows(h, V, m, <<>>, D)
      BY <2>4, <2>5 DEF Follows
    <3> HIDE DEF g
    <3> QED BY <1>1, <1>5, <3>1, RunIs
  <2>7. OutputsAt(prog, m) = h[m]
    BY DEF h, B, OutputsAt
  <2> QED BY <2>6, <2>7
<1>9. OutputsAt(prog, 0) = <<>>
  BY <1>1, <1>6, <1>8
<1>10. \A k \in 0..n : OutputsAt(prog, k) \in V
  BY <1>6, <1>8
<1>11. ASSUME NEW k \in 1..n PROVE OutputsAt(prog, k) = StepOut(prog, k, OutputsAt(prog, k - 1))
  <2>1. k \in 0..n /\ k - 1 \in 0..n
    BY <1>1
  <2> QED BY <1>7, <1>8, <2>1
<1> QED BY <1>9, <1>10, <1>11 DEF OutputSteps, n, V

\* The bitmap holds every logged page, whatever the width of its words.
LEMMA DirtyPagesAre ==
  ASSUME RamAssumption, NEW logged, logged \subseteq PageIds
  PROVE  GetDirtyPages(logged) = logged
<1> DEFINE top == PageCount + WordBits - 1
           words == 0..((top \div WordBits) - 1)
           bitmap == [w \in words |-> {b \in 0..(WordBits - 1) : w * WordBits + b \in logged}]
           Of(w) == {p \in {w * WordBits + b : b \in bitmap[w]} : p < PageCount}
<1>1. GetDirtyPages(logged) = UNION {Of(w) : w \in words}
  BY DEF GetDirtyPages
<1>2. PageCount \in Nat \ {0} /\ WordBits \in Nat \ {0} /\ top \in Nat
  BY DEF RamAssumption
<1>3. ASSUME NEW w \in words, NEW p \in Of(w) PROVE p \in logged
  <2>1. bitmap[w] = {b \in 0..(WordBits - 1) : w * WordBits + b \in logged}
    OBVIOUS
  <2>2. PICK b \in bitmap[w] : p = w * WordBits + b
    OBVIOUS
  <2> HIDE DEF bitmap
  <2> QED BY <2>1, <2>2
<1>4. ASSUME NEW p \in logged PROVE \E w \in words : p \in Of(w)
  <2> DEFINE w == p \div WordBits
             b == p % WordBits
  <2>1. p \in Nat /\ p < PageCount
    BY <1>2, <1>4 DEF PageIds
  <2>2. w \in Nat /\ b \in Nat /\ b < WordBits /\ p = (WordBits * w) + b
    BY <1>2, <2>1, DivIs
  <2> HIDE DEF w, b
  <2>3. w * WordBits \in Nat /\ p = w * WordBits + b
    BY <1>2, <2>2
  <2>4. (w + 1) * WordBits = w * WordBits + WordBits /\ w + 1 \in Nat
    BY <1>2, <2>2
  <2>5. (w + 1) * WordBits <= top
    <3> DEFINE x == w * WordBits
               y == (w + 1) * WordBits
    <3>1. x \in Nat /\ p = x + b /\ y = x + WordBits
      BY <2>3, <2>4
    <3> HIDE DEF x, y
    <3>2. y <= top
      BY <1>2, <2>1, <2>2, <3>1
    <3> QED BY <3>2 DEF y
  <2>6. w + 1 <= top \div WordBits
    <3> HIDE DEF top
    <3> QED BY <1>2, <2>4, <2>5, DivAtLeast
  <2>7. w \in words
    <3> DEFINE q == top \div WordBits
    <3>1. q \in Nat
      <4> HIDE DEF top
      <4> QED BY <1>2, DivIs
    <3>2. w + 1 <= q
      BY <2>6
    <3> HIDE DEF q
    <3>3. w \in 0..(q - 1)
      BY <2>2, <3>1, <3>2
    <3> QED BY <3>3 DEF q
  <2> DEFINE x == w * WordBits
  <2>8. b \in bitmap[w]
    <3>1. b \in 0..(WordBits - 1) /\ x + b \in logged
      BY <1>2, <2>2, <2>3
    <3> HIDE DEF words
    <3> QED BY <2>7, <3>1
  <2> HIDE DEF words, bitmap
  <2>9. p \in {w * WordBits + bb : bb \in bitmap[w]}
    BY <2>3, <2>8
  <2> QED BY <2>1, <2>7, <2>9
<1>5. UNION {Of(w) : w \in words} = logged
  <2> HIDE DEF words, Of
  <2> QED BY <1>3, <1>4
<1> QED BY <1>1, <1>5

\* What base.mem holds once it is written: the stub in page 0.
StubOnly == [p \in PageIds |-> IF p = 0 THEN Stub ELSE 0]

SourcePcs == {"run", "io", "capture", "writeState", "writeRam"}
GuestPcs == {"restored", "exited"}

FilesShape(f) == f = [m \in Modes |-> [ram |-> f[m].ram, delta |-> f[m].delta, vcpu |-> f[m].vcpu]]

\* The types; files of another call may hold anything of the shape.
RamTyped ==
  /\ snap = [pc |-> snap.pc, mode |-> snap.mode, prog |-> snap.prog, mem |-> snap.mem, ip |-> snap.ip,
             pending |-> snap.pending, logged |-> snap.logged, backing |-> snap.backing, st |-> snap.st,
             dirty |-> snap.dirty, out |-> snap.out]
  /\ snap.pc \in {"idle", "base", "restore"} \cup SourcePcs \cup GuestPcs
  /\ snap.mode \in Modes /\ snap.mem \in Mems /\ snap.logged \subseteq PageIds
  /\ snap.backing \in {"memfd", "private"}
  /\ FilesShape(sfiles)
  /\ history = [mem |-> history.mem, files |-> history.files, calls |-> history.calls, faults |-> history.faults]
  /\ snap.pc # "idle" => snap.prog \in Programs(snap.mode)

\* The dirty log and the base together hold all of memory.
LogCovers ==
  snap.mode = "dirty" =>
    /\ sfiles["dirty"].ram = StubOnly
    /\ (snap.pc = "run" /\ snap.ip = 1) \/ CodePage("dirty") \in snap.logged
    /\ \A p \in PageIds \ {CodePage("dirty")} : snap.mem[p] # StubOnly[p] => p \in snap.logged

BaseInv ==
  snap.pc = "base" =>
    /\ snap.mode = "dirty" /\ snap.ip = 1 /\ snap.logged = {} /\ snap.out = <<>>
    /\ snap.mem = StubOnly

SourceInv ==
  snap.pc \in SourcePcs =>
    /\ snap.ip \in 1..(ProgramLength + 1)
    /\ snap.mem = MemoryAt(snap.mode, snap.prog, snap.ip - 1)
    /\ LogCovers
    /\ snap.pc # "io" => snap.out = OutputsAt(snap.prog, snap.ip - 1)
    /\ snap.pc = "io" =>
         snap.ip <= ProgramLength /\ snap.prog[snap.ip].op = "out" /\ snap.out = OutputsAt(snap.prog, snap.ip)
    /\ snap.pc \in {"writeState", "writeRam"} =>
         snap.st = snap.ip /\ (snap.mode = "dirty" => snap.dirty = snap.logged)
    /\ snap.pc = "writeRam" => sfiles[snap.mode].vcpu = snap.st

\* What a second VM would read from the directory.
RestoredMem(m) ==
  IF m = "full" THEN sfiles[m].ram ELSE ApplyDirtySnapshotFile(sfiles[m].delta, sfiles[m].ram)

RestoreInv ==
  snap.pc = "restore" =>
    /\ sfiles[snap.mode].vcpu \in 1..(ProgramLength + 1)
    /\ RestoredMem(snap.mode) = MemoryAt(snap.mode, snap.prog, sfiles[snap.mode].vcpu - 1)
    /\ snap.out = OutputsAt(snap.prog, sfiles[snap.mode].vcpu - 1)
    /\ history.files = sfiles

GuestInv ==
  snap.pc \in GuestPcs =>
    /\ snap.ip \in 1..(ProgramLength + 1)
    /\ snap.mem = MemoryAt(snap.mode, snap.prog, snap.ip - 1)
    /\ snap.out = OutputsAt(snap.prog, snap.ip - 1)
    /\ history.files = sfiles
    /\ snap.pc = "exited" => snap.ip = ProgramLength + 1

SnapshotInv == RamTyped /\ BaseInv /\ SourceInv /\ RestoreInv /\ GuestInv


Holds(f, m, r, d, v) == FilesShape(f) /\ f[m].ram = r /\ f[m].delta = d /\ f[m].vcpu = v

\* A file that is written leaves the others as they are.
LEMMA FilesReplaced ==
  ASSUME NEW f, FilesShape(f), NEW m \in Modes, NEW r, NEW d, NEW v
  PROVE  Holds([f EXCEPT ![m] = [ram |-> r, delta |-> d, vcpu |-> v]], m, r, d, v)
<1> DEFINE e == [ram |-> r, delta |-> d, vcpu |-> v]
           g == [f EXCEPT ![m] = e]
<1>1. e.ram = r /\ e.delta = d /\ e.vcpu = v
  OBVIOUS
<1>2. DOMAIN f = Modes /\ \A k \in Modes : f[k] = [ram |-> f[k].ram, delta |-> f[k].delta, vcpu |-> f[k].vcpu]
  BY DEF FilesShape
<1>3. e = [ram |-> e.ram, delta |-> e.delta, vcpu |-> e.vcpu]
  BY <1>1
<1> HIDE DEF e
<1>4. g[m] = e /\ DOMAIN g = Modes /\ g = [k \in Modes |-> IF k = m THEN e ELSE f[k]]
  BY <1>2
<1> HIDE DEF g
<1>5. \A k \in Modes : g[k] = [ram |-> g[k].ram, delta |-> g[k].delta, vcpu |-> g[k].vcpu]
  BY <1>2, <1>3, <1>4
<1>6. g = [k \in Modes |-> g[k]]
  BY <1>4
<1>7. FilesShape(g)
  BY <1>5, <1>6 DEF FilesShape
<1> QED BY <1>1, <1>4, <1>7 DEF g, e, Holds

\* The same for a write of one of the three files.
LEMMA FileWritten ==
  ASSUME NEW f, FilesShape(f), NEW m \in Modes, NEW x
  PROVE  /\ Holds([f EXCEPT ![m].ram = x], m, x, f[m].delta, f[m].vcpu)
         /\ Holds([f EXCEPT ![m].delta = x], m, f[m].ram, x, f[m].vcpu)
         /\ Holds([f EXCEPT ![m].vcpu = x], m, f[m].ram, f[m].delta, x)
<1> DEFINE r == f[m].ram
           d == f[m].delta
           v == f[m].vcpu
<1>1. f[m] = [ram |-> r, delta |-> d, vcpu |-> v]
  BY DEF FilesShape
<1>2. /\ [f EXCEPT ![m].ram = x] = [f EXCEPT ![m] = [ram |-> x, delta |-> d, vcpu |-> v]]
      /\ [f EXCEPT ![m].delta = x] = [f EXCEPT ![m] = [ram |-> r, delta |-> x, vcpu |-> v]]
      /\ [f EXCEPT ![m].vcpu = x] = [f EXCEPT ![m] = [ram |-> r, delta |-> d, vcpu |-> x]]
  <2> HIDE DEF r, d, v
  <2>1. /\ [f[m] EXCEPT !.ram = x] = [ram |-> x, delta |-> d, vcpu |-> v]
        /\ [f[m] EXCEPT !.delta = x] = [ram |-> r, delta |-> x, vcpu |-> v]
        /\ [f[m] EXCEPT !.vcpu = x] = [ram |-> r, delta |-> d, vcpu |-> x]
    BY <1>1
  <2> QED BY <2>1
<1> HIDE DEF r, d, v
<1>4. Holds([f EXCEPT ![m].ram = x], m, x, d, v)
  <2> DEFINE e == [f EXCEPT ![m] = [ram |-> x, delta |-> d, vcpu |-> v]]
  <2>1. Holds(e, m, x, d, v)
    BY FilesReplaced
  <2>2. [f EXCEPT ![m].ram = x] = e
    BY <1>2
  <2> HIDE DEF e
  <2> QED BY <2>1, <2>2
<1>5. Holds([f EXCEPT ![m].delta = x], m, r, x, v)
  <2> DEFINE e == [f EXCEPT ![m] = [ram |-> r, delta |-> x, vcpu |-> v]]
  <2>1. Holds(e, m, r, x, v)
    BY FilesReplaced
  <2>2. [f EXCEPT ![m].delta = x] = e
    BY <1>2
  <2> HIDE DEF e
  <2> QED BY <2>1, <2>2
<1>6. Holds([f EXCEPT ![m].vcpu = x], m, r, d, x)
  <2> DEFINE e == [f EXCEPT ![m] = [ram |-> r, delta |-> d, vcpu |-> x]]
  <2>1. Holds(e, m, r, d, x)
    BY FilesReplaced
  <2>2. [f EXCEPT ![m].vcpu = x] = e
    BY <1>2
  <2> HIDE DEF e
  <2> QED BY <2>1, <2>2
<1> QED BY <1>4, <1>5, <1>6 DEF r, d, v

\* No store of the program reaches the page of its code.
LEMMA CodeStays ==
  ASSUME RamAssumption, NEW mode \in Modes, NEW prog \in Programs(mode), NEW n \in 0..ProgramLength
  PROVE  MemoryAt(mode, prog, n)[CodePage(mode)] = Code
<1> DEFINE S == {k \in 0..ProgramLength : MemoryAt(mode, prog, k)[CodePage(mode)] = Code}
<1>0. CodePage(mode) \in PageIds /\ ProgramLength \in Nat
  BY DEF RamAssumption, CodePage, PageIds
<1>1. MemorySteps(mode, prog) /\ IsProgram(mode, prog)
  BY MemoryStepsHold, ProgramIs
<1>2. 0 \in S
  BY <1>0, <1>1 DEF MemorySteps, FirstMem
<1>3. ASSUME NEW k \in 1..ProgramLength, k - 1 \in S PROVE k \in S
  <2>1. k \in 0..ProgramLength /\ k - 1 \in 0..ProgramLength
    BY <1>0
  <2> DEFINE m == MemoryAt(mode, prog, k - 1)
             e == MemoryAt(mode, prog, k)
  <2>2. m \in Mems /\ m[CodePage(mode)] = Code /\ e = StepMem(prog, k, m)
    BY <1>1, <1>3, <2>1 DEF MemorySteps
  <2> HIDE DEF m, e
  <2>3. e[CodePage(mode)] = Code
    BY <1>0, <1>1, <2>2 DEF StepMem, IsProgram, Mems
  <2> QED BY <2>1, <2>3 DEF e
<1>4. \A k \in 0..ProgramLength : k \in S
  <2> HIDE DEF S
  <2> QED BY <1>0, <1>2, <1>3, IntervalInduction
<1> QED BY <1>4

\* The invariant is strong enough.
LEMMA SnapshotInvImplies ==
  ASSUME RamAssumption, SnapshotInv PROVE SnapshotExact
<1>1. RamTyped /\ GuestInv /\ RestoreInv
  BY DEF SnapshotInv
<1>2. ProgramLength \in Nat
  BY DEF RamAssumption
<1>3. ASSUME snap.pc \in GuestPcs
      PROVE  /\ snap.mem = MemoryAt(snap.mode, snap.prog, snap.ip - 1)
             /\ snap.mem[CodePage(snap.mode)] = Code
             /\ snap.out = OutputsAt(snap.prog, snap.ip - 1)
             /\ history.files = sfiles
             /\ snap.pc = "exited" => snap.ip = Len(snap.prog) + 1
  <2>1. snap.mode \in Modes /\ snap.prog \in Programs(snap.mode)
    BY <1>1, <1>3 DEF RamTyped, GuestPcs
  <2>2. Len(snap.prog) = ProgramLength
    BY <2>1, ProgramIs DEF IsProgram
  <2>3. snap.ip - 1 \in 0..ProgramLength
    BY <1>1, <1>2, <1>3 DEF GuestInv
  <2>4. MemoryAt(snap.mode, snap.prog, snap.ip - 1)[CodePage(snap.mode)] = Code
    BY <2>1, <2>3, CodeStays
  <2> QED BY <1>1, <1>3, <2>2, <2>4 DEF GuestInv
<1>4. ContinuesExactly /\ MemoryRestored
  BY <1>3 DEF ContinuesExactly, MemoryRestored, GuestPcs
<1>5. SnapshotKept
  BY <1>1, <1>3 DEF SnapshotKept, GuestPcs, RestoreInv
<1> QED BY <1>4, <1>5 DEF SnapshotExact

\* The invariant holds of an idle host.
LEMMA SnapshotInvInit == ASSUME RamAssumption, RamInit PROVE SnapshotInv
<1>1. RamTyped
  BY DEF RamInit, RamTyped, NoVm, Modes, Mems, PageIds, SourcePcs, GuestPcs, FilesShape
<1> QED BY <1>1 DEF RamInit, NoVm, SnapshotInv, BaseInv, SourceInv, RestoreInv, GuestInv, SourcePcs, GuestPcs

\* A call that has ended leaves files of some shape, and nothing else.
LEMMA NoVmKeeps ==
  ASSUME RamAssumption, snap' = NoVm,
         RamTyped' PROVE SnapshotInv'
BY DEF NoVm, SnapshotInv, BaseInv, SourceInv, RestoreInv, GuestInv, SourcePcs, GuestPcs

\* A source VM starts with the code in page 0, or with the stub that the base holds.
LEMMA CreateKeeps ==
  ASSUME RamAssumption, SnapshotInv, NEW mode \in Modes, NEW prog \in Programs(mode), CreateSource(mode, prog)
  PROVE  SnapshotInv'
<1> DEFINE first == [p \in PageIds |-> IF p # 0 THEN 0 ELSE IF mode = "full" THEN Code ELSE Stub]
<1>0. RamTyped
  BY DEF SnapshotInv
<1>1. first \in Mems
  BY DEF Mems, Code, Stub
<1>2. /\ snap' = [NoVm EXCEPT !.pc = IF mode = "full" THEN "run" ELSE "base", !.mode = mode, !.prog = prog,
                              !.mem = first, !.ip = 1, !.backing = Backing(FALSE)]
      /\ history' = [history EXCEPT !.calls = @ + 1] /\ sfiles' = sfiles
  BY DEF CreateSource
<1> HIDE DEF first
<1>3. /\ snap'.pc = (IF mode = "full" THEN "run" ELSE "base") /\ snap'.mode = mode /\ snap'.prog = prog
      /\ snap'.mem = first /\ snap'.ip = 1 /\ snap'.logged = {} /\ snap'.out = <<>> /\ snap'.backing = "memfd"
  BY <1>2 DEF NoVm, Backing
<1>4. RamTyped'
  BY <1>0, <1>1, <1>2, <1>3 DEF RamTyped, NoVm, SourcePcs
<1>5. BaseInv'
  BY <1>3 DEF BaseInv, first, StubOnly, Modes
<1>6. SourceInv'
  <2>1. SUFFICES ASSUME mode = "full" PROVE SourceInv'
    BY <1>3 DEF SourceInv, SourcePcs, Modes
  <2>2. first = FirstMem(mode)
    BY <2>1 DEF first, FirstMem, CodePage
  <2>3. MemorySteps(mode, prog) /\ OutputSteps(prog) /\ ProgramLength \in Nat
    BY MemoryStepsHold, OutputStepsHold DEF RamAssumption
  <2>4. snap'.mem = MemoryAt(snap'.mode, snap'.prog, snap'.ip - 1) /\ snap'.out = OutputsAt(snap'.prog, snap'.ip - 1)
    BY <1>3, <2>2, <2>3 DEF MemorySteps, OutputSteps
  <2> QED BY <1>3, <2>1, <2>3, <2>4 DEF SourceInv, LogCovers
<1>7. RestoreInv' /\ GuestInv'
  BY <1>3 DEF RestoreInv, GuestInv, GuestPcs
<1> QED BY <1>4, <1>5, <1>6, <1>7 DEF SnapshotInv

\* The base is written before the program is stored: it differs in the page of the code only.
LEMMA WriteBaseKeeps ==
  ASSUME RamAssumption, SnapshotInv, WriteBase PROVE SnapshotInv'
<1>0. RamTyped /\ BaseInv
  BY DEF SnapshotInv
<1>1. /\ snap.pc = "base" /\ snap.mode = "dirty" /\ snap.ip = 1 /\ snap.logged = {} /\ snap.out = <<>>
      /\ snap.mem = StubOnly /\ snap.prog \in Programs("dirty")
  BY <1>0 DEF WriteBase, BaseInv, RamTyped
<1>2. WriteSparseMemoryFile(StubOnly, PageIds) = StubOnly
  BY DEF WriteSparseMemoryFile, StubOnly
<1> DEFINE c == CodePage("dirty")
<1>3. c \in PageIds /\ c # 0
  BY DEF CodePage, PageIds, RamAssumption
<1>4. [StubOnly EXCEPT ![c] = Code] = FirstMem("dirty")
  BY <1>3 DEF StubOnly, FirstMem
<1> HIDE DEF c
<1>5. /\ snap' = [snap EXCEPT !.pc = "run", !.mem = FirstMem("dirty")]
      /\ sfiles' = [sfiles EXCEPT !["dirty"].ram = StubOnly]
      /\ history' = history
  <2>1. snap' = [snap EXCEPT !.pc = "run", !.mem[c] = Code]
    BY <1>1 DEF WriteBase, c
  <2> QED BY <1>0, <1>1, <1>2, <1>4, <2>1 DEF WriteBase, RamTyped
<1>6. /\ snap'.pc = "run" /\ snap'.mode = "dirty" /\ snap'.prog = snap.prog /\ snap'.mem = FirstMem("dirty")
      /\ snap'.ip = 1 /\ snap'.logged = {} /\ snap'.out = <<>> /\ snap'.backing = snap.backing
      /\ sfiles'["dirty"].ram = StubOnly
  <2>1. sfiles'["dirty"].ram = StubOnly
    BY <1>0, <1>5, FileWritten DEF RamTyped, Modes, Holds
  <2> QED BY <1>0, <1>1, <1>5, <2>1 DEF RamTyped
<1>7. RamTyped'
  <2>1. FirstMem("dirty") \in Mems
    BY DEF FirstMem, Mems, Code, Stub
  <2>2. FilesShape(sfiles')
    BY <1>0, <1>5, FileWritten DEF RamTyped, Modes, Holds
  <2> QED BY <1>0, <1>1, <1>5, <1>6, <2>1, <2>2 DEF RamTyped, SourcePcs
<1>8. SourceInv'
  <2>3. MemorySteps("dirty", snap.prog) /\ OutputSteps(snap.prog) /\ ProgramLength \in Nat
    BY <1>1, MemoryStepsHold, OutputStepsHold DEF RamAssumption, Modes
  <2>4. snap'.mem = MemoryAt(snap'.mode, snap'.prog, snap'.ip - 1) /\ snap'.out = OutputsAt(snap'.prog, snap'.ip - 1)
    BY <1>6, <2>3 DEF MemorySteps, OutputSteps
  <2>5. \A p \in PageIds \ {CodePage("dirty")} : FirstMem("dirty")[p] = StubOnly[p]
    BY DEF FirstMem, StubOnly
  <2> QED BY <1>6, <2>3, <2>4, <2>5 DEF SourceInv, LogCovers
<1>9. BaseInv' /\ RestoreInv' /\ GuestInv'
  BY <1>6 DEF BaseInv, RestoreInv, GuestInv, GuestPcs
<1> QED BY <1>7, <1>8, <1>9 DEF SnapshotInv

\* What the steps of a guest rely on: its place in the program, and what the
\* program has done up to there.
LEMMA GuestIsAt ==
  ASSUME RamAssumption, SnapshotInv, snap.pc \in SourcePcs \cup GuestPcs
  PROVE  /\ snap.mode \in Modes /\ snap.prog \in Programs(snap.mode) /\ IsProgram(snap.mode, snap.prog)
         /\ MemorySteps(snap.mode, snap.prog) /\ OutputSteps(snap.prog)
         /\ ProgramLength \in Nat /\ snap.ip \in 1..(ProgramLength + 1)
         /\ snap.mem = MemoryAt(snap.mode, snap.prog, snap.ip - 1) /\ snap.mem \in Mems
         /\ snap.pc # "io" => snap.out = OutputsAt(snap.prog, snap.ip - 1)
<1>1. RamTyped /\ SourceInv /\ GuestInv
  BY DEF SnapshotInv
<1>2. snap.mode \in Modes /\ snap.prog \in Programs(snap.mode) /\ ProgramLength \in Nat /\ snap.mem \in Mems
  BY <1>1 DEF RamTyped, SourcePcs, GuestPcs, RamAssumption
<1>3. IsProgram(snap.mode, snap.prog) /\ MemorySteps(snap.mode, snap.prog) /\ OutputSteps(snap.prog)
  BY <1>2, ProgramIs, MemoryStepsHold, OutputStepsHold
<1>4. /\ snap.ip \in 1..(ProgramLength + 1) /\ snap.mem = MemoryAt(snap.mode, snap.prog, snap.ip - 1)
      /\ snap.pc # "io" => snap.out = OutputsAt(snap.prog, snap.ip - 1)
  BY <1>1 DEF SourceInv, GuestInv, SourcePcs, GuestPcs
<1> QED BY <1>2, <1>3, <1>4

\* A store does what the program says, and writes no file.
LEMMA StoreIs ==
  ASSUME RamAssumption, SnapshotInv, NEW place \in {"run", "restored"}, Store(place)
  PROVE  /\ snap.pc = place /\ snap.ip \in 1..ProgramLength
         /\ snap.prog[snap.ip].page \in PageIds \ {CodePage(snap.mode)}
         /\ snap.prog[snap.ip].op = "store"
         /\ snap' = [snap EXCEPT !.mem = MemoryAt(snap.mode, snap.prog, snap.ip), !.ip = snap.ip + 1,
                                 !.logged = @ \cup {snap.prog[snap.ip].page, CodePage(snap.mode)}]
         /\ MemoryAt(snap.mode, snap.prog, snap.ip) = StepMem(snap.prog, snap.ip, snap.mem)
         /\ MemoryAt(snap.mode, snap.prog, snap.ip) \in Mems
         /\ OutputsAt(snap.prog, snap.ip) = snap.out
         /\ sfiles' = sfiles /\ history' = history
<1>0. snap.pc = place /\ RamTyped
  BY DEF Store, Runs, SnapshotInv
<1>1. /\ snap.mode \in Modes /\ snap.prog \in Programs(snap.mode) /\ IsProgram(snap.mode, snap.prog)
      /\ MemorySteps(snap.mode, snap.prog) /\ OutputSteps(snap.prog)
      /\ ProgramLength \in Nat /\ snap.ip \in 1..(ProgramLength + 1)
      /\ snap.mem = MemoryAt(snap.mode, snap.prog, snap.ip - 1) /\ snap.mem \in Mems
      /\ snap.out = OutputsAt(snap.prog, snap.ip - 1)
  BY <1>0, GuestIsAt DEF SourcePcs, GuestPcs
<1> DEFINE k == snap.ip
           i == snap.prog[k]
<1>2. k \in 1..ProgramLength /\ Instruction = i /\ i.op = "store"
  <2>1. Len(snap.prog) = ProgramLength
    BY <1>1 DEF IsProgram
  <2>2. Instruction.op = "store"
    BY DEF Store
  <2>3. k <= ProgramLength
    BY <1>1, <2>1, <2>2 DEF Instruction
  <2> QED BY <1>1, <2>1, <2>2, <2>3 DEF Instruction
<1>3. i.page \in PageIds \ {CodePage(snap.mode)} /\ i.v \in {0, Stored}
  BY <1>1, <1>2 DEF IsProgram
<1>4. [snap.mem EXCEPT ![i.page] = i.v] = StepMem(snap.prog, k, snap.mem)
  BY <1>2 DEF StepMem
<1>5. MemoryAt(snap.mode, snap.prog, k) = StepMem(snap.prog, k, snap.mem)
  BY <1>1, <1>2 DEF MemorySteps
<1>6. OutputsAt(snap.prog, k) = snap.out
  BY <1>1, <1>2 DEF OutputSteps, StepOut
<1>7. MemoryAt(snap.mode, snap.prog, k) \in Mems
  BY <1>1, <1>2 DEF MemorySteps
<1>8. FileAfter(snap, [snap.mem EXCEPT ![i.page] = i.v]) = sfiles
  BY <1>0 DEF FileAfter, RamTyped
<1> DEFINE e == [snap.mem EXCEPT ![i.page] = i.v]
<1>9. /\ snap' = [StoreTo(snap, e) EXCEPT !.ip = @ + 1,
                    !.logged = @ \cup {i.page, CodePage(snap.mode)}]
      /\ sfiles' = sfiles /\ history' = history
  BY <1>2, <1>8 DEF Store
<1> HIDE DEF i, e
<1>10. snap' = [snap EXCEPT !.mem = e, !.ip = k + 1, !.logged = @ \cup {i.page, CodePage(snap.mode)}]
  BY <1>0, <1>9 DEF StoreTo, RamTyped
<1> QED BY <1>0, <1>2, <1>3, <1>4, <1>5, <1>6, <1>7, <1>9, <1>10 DEF i, e

\* A store is logged with the page of the code that was fetched.
LEMMA StoreKeeps ==
  ASSUME RamAssumption, SnapshotInv, NEW place \in {"run", "restored"}, Store(place)
  PROVE  SnapshotInv'
<1> DEFINE e == MemoryAt(snap.mode, snap.prog, snap.ip)
           page == snap.prog[snap.ip].page
           code == CodePage(snap.mode)
<1>0. RamTyped /\ SourceInv /\ GuestInv
  BY DEF SnapshotInv
<1>1. /\ snap.pc = place /\ snap.ip \in 1..ProgramLength /\ page \in PageIds \ {code}
      /\ snap' = [snap EXCEPT !.mem = e, !.ip = snap.ip + 1, !.logged = @ \cup {page, code}]
      /\ e = StepMem(snap.prog, snap.ip, snap.mem) /\ e \in Mems
      /\ OutputsAt(snap.prog, snap.ip) = snap.out
      /\ sfiles' = sfiles /\ history' = history /\ snap.prog[snap.ip].op = "store"
  BY StoreIs
<1>2. ProgramLength \in Nat /\ snap.mode \in Modes /\ snap.prog \in Programs(snap.mode) /\ code \in PageIds
  <2>1. snap.pc # "idle"
    BY <1>1
  <2> QED BY <1>0, <2>1 DEF RamAssumption, RamTyped, CodePage, PageIds
<1>3. \A p \in PageIds : p # page => e[p] = snap.mem[p]
  BY <1>0, <1>1 DEF StepMem, RamTyped, Mems
<1> HIDE DEF e, page, code
<1>4. /\ snap'.pc = snap.pc /\ snap'.mode = snap.mode /\ snap'.prog = snap.prog /\ snap'.mem = e
      /\ snap'.ip = snap.ip + 1 /\ snap'.logged = snap.logged \cup {page, code} /\ snap'.backing = snap.backing
      /\ snap'.out = snap.out
  BY <1>0, <1>1 DEF RamTyped
<1>5. RamTyped'
  BY <1>0, <1>1, <1>2, <1>4 DEF RamTyped
<1>6. snap'.ip \in 1..(ProgramLength + 1) /\ snap'.ip - 1 = snap.ip
  BY <1>1, <1>2, <1>4
<1>7. snap'.mem = MemoryAt(snap'.mode, snap'.prog, snap'.ip - 1) /\ snap'.out = OutputsAt(snap'.prog, snap'.ip - 1)
  BY <1>1, <1>4, <1>6 DEF e
<1>8. SourceInv'
  <2>1. SUFFICES ASSUME place = "run" PROVE SourceInv'
    BY <1>1, <1>4 DEF SourceInv, SourcePcs
  <2>2. LogCovers
    BY <1>0, <1>1, <2>1 DEF SourceInv, SourcePcs
  <2>3. LogCovers'
    <3>1. SUFFICES ASSUME snap.mode = "dirty" PROVE LogCovers'
      BY <1>4 DEF LogCovers
    <3>2. \A p \in PageIds \ {code} : snap.mem[p] # StubOnly[p] => p \in snap.logged
      BY <2>2, <3>1 DEF LogCovers, code
    <3>3. \A p \in PageIds \ {code} : e[p] # StubOnly[p] => p \in snap'.logged
      BY <1>3, <1>4, <3>2
    <3> QED BY <1>1, <1>4, <2>2, <3>1, <3>3 DEF LogCovers, code
  <2> QED BY <1>1, <1>4, <1>6, <1>7, <2>1, <2>3 DEF SourceInv
<1>9. GuestInv'
  <2>1. snap.pc # "run" => history.files = sfiles
    BY <1>0, <1>1 DEF GuestInv, GuestPcs
  <2> QED BY <1>1, <1>4, <1>6, <1>7, <2>1 DEF GuestInv, GuestPcs
<1>10. BaseInv' /\ RestoreInv'
  BY <1>1, <1>4 DEF BaseInv, RestoreInv
<1> QED BY <1>5, <1>8, <1>9, <1>10 DEF SnapshotInv

\* An OUT of either VM is the next output of the program.
LEMMA OutIs ==
  ASSUME RamAssumption, SnapshotInv, NEW place \in {"run", "restored"}, Runs(place), Instruction.op = "out"
  PROVE  /\ snap.pc = place /\ snap.ip \in 1..ProgramLength /\ snap.prog[snap.ip].op = "out"
         /\ OutputsAt(snap.prog, snap.ip) = Append(snap.out, snap.ip)
         /\ MemoryAt(snap.mode, snap.prog, snap.ip) = snap.mem
<1>0. snap.pc = place
  BY DEF Runs
<1>1. /\ IsProgram(snap.mode, snap.prog)
      /\ MemorySteps(snap.mode, snap.prog) /\ OutputSteps(snap.prog)
      /\ ProgramLength \in Nat /\ snap.ip \in 1..(ProgramLength + 1)
      /\ snap.mem = MemoryAt(snap.mode, snap.prog, snap.ip - 1)
      /\ snap.out = OutputsAt(snap.prog, snap.ip - 1)
  BY <1>0, GuestIsAt DEF SourcePcs, GuestPcs
<1>2. Len(snap.prog) = ProgramLength
  BY <1>1 DEF IsProgram
<1>3. snap.ip \in 1..ProgramLength /\ snap.prog[snap.ip].op = "out"
  BY <1>1, <1>2 DEF Instruction
<1>4. OutputsAt(snap.prog, snap.ip) = Append(snap.out, snap.ip)
  <2>1. StepOut(snap.prog, snap.ip, snap.out) = Append(snap.out, snap.ip)
    BY <1>1, <1>2, <1>3 DEF StepOut
  <2>2. OutputsAt(snap.prog, snap.ip) = StepOut(snap.prog, snap.ip, snap.out)
    BY <1>1, <1>3 DEF OutputSteps
  <2> QED BY <2>1, <2>2
<1>5. MemoryAt(snap.mode, snap.prog, snap.ip) = snap.mem
  BY <1>1, <1>3 DEF MemorySteps, StepMem
<1> QED BY <1>0, <1>3, <1>4, <1>5

\* The OUT that ends the source's run is printed, and not completed.
LEMMA SourceIoKeeps ==
  ASSUME RamAssumption, SnapshotInv, SourceIo PROVE SnapshotInv'
<1> DEFINE code == CodePage(snap.mode)
           more == Append(snap.out, snap.ip)
<1>0. RamTyped /\ SourceInv
  BY DEF SnapshotInv
<1>1. /\ snap.pc = "run" /\ snap.ip \in 1..ProgramLength /\ snap.prog[snap.ip].op = "out"
      /\ OutputsAt(snap.prog, snap.ip) = more
  BY OutIs DEF SourceIo
<1>2. /\ snap' = [snap EXCEPT !.pc = "io", !.pending = TRUE, !.out = more, !.logged = @ \cup {code}]
      /\ sfiles' = sfiles /\ history' = history
  BY DEF SourceIo
<1>3. code \in PageIds /\ ProgramLength \in Nat
  BY DEF RamAssumption, CodePage, PageIds
<1> HIDE DEF code, more
<1>4. /\ snap'.pc = "io" /\ snap'.mode = snap.mode /\ snap'.prog = snap.prog /\ snap'.mem = snap.mem
      /\ snap'.ip = snap.ip /\ snap'.logged = snap.logged \cup {code} /\ snap'.backing = snap.backing
      /\ snap'.out = more
  BY <1>0, <1>2 DEF RamTyped
<1>5. RamTyped'
  BY <1>0, <1>1, <1>2, <1>3, <1>4 DEF RamTyped, SourcePcs
<1>6. LogCovers'
  <2>1. LogCovers
    BY <1>0, <1>1 DEF SourceInv, SourcePcs
  <2> QED BY <1>2, <1>4, <2>1 DEF LogCovers, code
<1>7. SourceInv'
  <2>1. snap.mem = MemoryAt(snap.mode, snap.prog, snap.ip - 1) /\ snap.ip \in 1..(ProgramLength + 1)
    BY <1>0, <1>1 DEF SourceInv, SourcePcs
  <2> QED BY <1>1, <1>3, <1>4, <1>6, <2>1 DEF SourceInv
<1>8. BaseInv' /\ RestoreInv' /\ GuestInv'
  BY <1>4 DEF BaseInv, RestoreInv, GuestInv, GuestPcs
<1> QED BY <1>5, <1>7, <1>8 DEF SnapshotInv

\* The restored guest prints the next output of the program.
LEMMA RestoredIoKeeps ==
  ASSUME RamAssumption, SnapshotInv, RestoredIo PROVE SnapshotInv'
<1> DEFINE more == Append(snap.out, snap.ip)
<1>0. RamTyped /\ GuestInv
  BY DEF SnapshotInv
<1>1. /\ snap.pc = "restored" /\ snap.ip \in 1..ProgramLength
      /\ OutputsAt(snap.prog, snap.ip) = more /\ MemoryAt(snap.mode, snap.prog, snap.ip) = snap.mem
  BY OutIs DEF RestoredIo
<1>2. snap' = [snap EXCEPT !.ip = @ + 1, !.out = more] /\ sfiles' = sfiles /\ history' = history
  BY DEF RestoredIo
<1>3. ProgramLength \in Nat
  BY DEF RamAssumption
<1> HIDE DEF more
<1>4. /\ snap'.pc = "restored" /\ snap'.mode = snap.mode /\ snap'.prog = snap.prog /\ snap'.mem = snap.mem
      /\ snap'.ip = snap.ip + 1 /\ snap'.logged = snap.logged /\ snap'.backing = snap.backing
      /\ snap'.out = more
  BY <1>0, <1>1, <1>2 DEF RamTyped
<1>5. RamTyped'
  BY <1>0, <1>1, <1>2, <1>4 DEF RamTyped
<1>6. GuestInv'
  <2>1. snap'.ip \in 1..(ProgramLength + 1) /\ snap'.ip - 1 = snap.ip
    BY <1>1, <1>3, <1>4
  <2>2. history.files = sfiles
    BY <1>0, <1>1 DEF GuestInv, GuestPcs
  <2> QED BY <1>1, <1>2, <1>4, <2>1, <2>2 DEF GuestInv
<1>7. BaseInv' /\ RestoreInv' /\ SourceInv'
  BY <1>4 DEF BaseInv, RestoreInv, SourceInv, SourcePcs
<1> QED BY <1>5, <1>6, <1>7 DEF SnapshotInv

\* The OUT is completed: the source has executed it.
LEMMA CompleteKeeps ==
  ASSUME RamAssumption, SnapshotInv, CompletePendingIoBeforeSnapshot PROVE SnapshotInv'
<1>0. RamTyped /\ SourceInv /\ snap.pc = "io"
  BY DEF SnapshotInv, CompletePendingIoBeforeSnapshot
<1>1. /\ snap' = [snap EXCEPT !.pc = "capture", !.pending = FALSE, !.ip = @ + 1]
      /\ sfiles' = sfiles /\ history' = history
  BY DEF CompletePendingIoBeforeSnapshot
<1>2. /\ ProgramLength \in Nat /\ snap.mode \in Modes /\ snap.prog \in Programs(snap.mode)
      /\ IsProgram(snap.mode, snap.prog) /\ MemorySteps(snap.mode, snap.prog)
      /\ snap.ip \in 1..(ProgramLength + 1) /\ snap.mem = MemoryAt(snap.mode, snap.prog, snap.ip - 1)
  BY <1>0, GuestIsAt DEF SourcePcs
<1>3. /\ snap.ip \in 1..ProgramLength /\ snap.prog[snap.ip].op = "out" /\ snap.out = OutputsAt(snap.prog, snap.ip)
      /\ LogCovers
  BY <1>0, <1>2 DEF SourceInv, SourcePcs
<1>4. snap.mem = MemoryAt(snap.mode, snap.prog, snap.ip)
  BY <1>2, <1>3 DEF MemorySteps, StepMem
<1>5. /\ snap'.pc = "capture" /\ snap'.mode = snap.mode /\ snap'.prog = snap.prog /\ snap'.mem = snap.mem
      /\ snap'.ip = snap.ip + 1 /\ snap'.logged = snap.logged /\ snap'.backing = snap.backing
      /\ snap'.out = snap.out
  BY <1>0, <1>1 DEF RamTyped
<1>6. RamTyped'
  BY <1>0, <1>1, <1>5 DEF RamTyped, SourcePcs
<1>7. SourceInv'
  <2>1. snap'.ip \in 1..(ProgramLength + 1) /\ snap'.ip - 1 = snap.ip
    BY <1>2, <1>3, <1>5
  <2>2. LogCovers'
    BY <1>0, <1>1, <1>3, <1>5 DEF LogCovers
  <2> QED BY <1>3, <1>4, <1>5, <2>1, <2>2 DEF SourceInv
<1>8. BaseInv' /\ RestoreInv' /\ GuestInv'
  BY <1>5 DEF BaseInv, RestoreInv, GuestInv, GuestPcs
<1> QED BY <1>6, <1>7, <1>8 DEF SnapshotInv

\* The registers and the dirty pages are taken.
LEMMA CaptureKeeps ==
  ASSUME RamAssumption, SnapshotInv, Capture PROVE SnapshotInv'
<1>0. RamTyped /\ SourceInv /\ snap.pc = "capture" /\ snap.logged \subseteq PageIds
  BY DEF SnapshotInv, Capture, RamTyped
<1> DEFINE pages == IF snap.mode = "full" THEN {} ELSE snap.logged
<1>1. /\ snap' = [snap EXCEPT !.pc = "writeState", !.st = snap.ip, !.dirty = pages]
      /\ history' = [history EXCEPT !.mem = snap.mem] /\ sfiles' = sfiles
  BY <1>0, DirtyPagesAre DEF Capture
<1>2. snap.mode = "dirty" => pages = snap.logged
  OBVIOUS
<1> HIDE DEF pages
<1>3. /\ snap'.pc = "writeState" /\ snap'.mode = snap.mode /\ snap'.prog = snap.prog /\ snap'.mem = snap.mem
      /\ snap'.ip = snap.ip /\ snap'.logged = snap.logged /\ snap'.backing = snap.backing
      /\ snap'.out = snap.out /\ snap'.st = snap.ip /\ snap'.dirty = pages
  BY <1>0, <1>1 DEF RamTyped
<1>4. RamTyped'
  BY <1>0, <1>1, <1>3 DEF RamTyped, SourcePcs
<1>5. SourceInv'
  <2>1. LogCovers'
    BY <1>0, <1>1, <1>3 DEF LogCovers, SourceInv, SourcePcs
  <2> QED BY <1>0, <1>2, <1>3, <2>1 DEF SourceInv, SourcePcs
<1>6. BaseInv' /\ RestoreInv' /\ GuestInv'
  BY <1>3 DEF BaseInv, RestoreInv, GuestInv, GuestPcs
<1> QED BY <1>4, <1>5, <1>6 DEF SnapshotInv

\* The registers are written, and no other file changes.
LEMMA WriteStateKeeps ==
  ASSUME RamAssumption, SnapshotInv, WriteState PROVE SnapshotInv'
<1>0. RamTyped /\ SourceInv /\ snap.pc = "writeState" /\ snap.mode \in Modes /\ FilesShape(sfiles)
  BY DEF SnapshotInv, WriteState, RamTyped
<1>1. /\ snap' = [snap EXCEPT !.pc = "writeRam"] /\ history' = history
      /\ sfiles' = [sfiles EXCEPT ![snap.mode].vcpu = snap.st]
  BY DEF WriteState
<1>2. Holds(sfiles', snap.mode, sfiles[snap.mode].ram, sfiles[snap.mode].delta, snap.st)
  BY <1>0, <1>1, FileWritten
<1>3. /\ snap'.pc = "writeRam" /\ snap'.mode = snap.mode /\ snap'.prog = snap.prog /\ snap'.mem = snap.mem
      /\ snap'.ip = snap.ip /\ snap'.logged = snap.logged /\ snap'.backing = snap.backing
      /\ snap'.out = snap.out /\ snap'.st = snap.st /\ snap'.dirty = snap.dirty
  BY <1>0, <1>1 DEF RamTyped
<1>4. RamTyped'
  <2>1. FilesShape(sfiles')
    BY <1>2 DEF Holds
  <2> QED BY <1>0, <1>1, <1>3, <2>1 DEF RamTyped, SourcePcs
<1>5. SourceInv'
  <2>1. sfiles'[snap.mode].vcpu = snap.st /\ sfiles'[snap.mode].ram = sfiles[snap.mode].ram
    BY <1>2 DEF Holds
  <2>2. LogCovers'
    BY <1>0, <1>3, <2>1 DEF LogCovers, SourceInv, SourcePcs
  <2> QED BY <1>0, <1>3, <2>1, <2>2 DEF SourceInv, SourcePcs
<1>6. BaseInv' /\ RestoreInv' /\ GuestInv'
  BY <1>3 DEF BaseInv, RestoreInv, GuestInv, GuestPcs
<1> QED BY <1>4, <1>5, <1>6 DEF SnapshotInv

\* The base and the pages that were dirtied since are the memory.
LEMMA DeltaRestores ==
  ASSUME NEW mem \in Mems, NEW pages \in SUBSET PageIds, \A p \in PageIds : mem[p] # StubOnly[p] => p \in pages
  PROVE  ApplyDirtySnapshotFile(WriteDirtySnapshotFile(mem, pages), StubOnly) = mem
<1> DEFINE delta == [p \in pages |-> mem[p]]
<1>1. DOMAIN delta = pages /\ \A p \in pages : delta[p] = mem[p]
  OBVIOUS
<1>2. \A p \in PageIds : mem[p] = IF p \in pages THEN mem[p] ELSE StubOnly[p]
  OBVIOUS
<1> HIDE DEF delta
<1>3. [p \in PageIds |-> IF p \in DOMAIN delta THEN delta[p] ELSE StubOnly[p]] = mem
  BY <1>1, <1>2 DEF Mems
<1> QED BY <1>3 DEF delta, ApplyDirtySnapshotFile, WriteDirtySnapshotFile

\* The memory is written: what is in the files makes it again.
LEMMA WriteRamKeeps ==
  ASSUME RamAssumption, SnapshotInv, WriteRam PROVE SnapshotInv'
<1> DEFINE m == snap.mode
<1>0. RamTyped /\ SourceInv /\ snap.pc = "writeRam" /\ m \in Modes /\ FilesShape(sfiles) /\ snap.mem \in Mems
  BY DEF SnapshotInv, WriteRam, RamTyped
<1>1. /\ snap' = [snap EXCEPT !.pc = "restore", !.mem = [p \in PageIds |-> 0], !.ip = 0]
      /\ history' = [history EXCEPT !.files = sfiles']
  BY DEF WriteRam
<1>2. /\ snap.ip \in 1..(ProgramLength + 1) /\ snap.mem = MemoryAt(m, snap.prog, snap.ip - 1)
      /\ LogCovers /\ snap.out = OutputsAt(snap.prog, snap.ip - 1)
      /\ snap.st = snap.ip /\ (m = "dirty" => snap.dirty = snap.logged) /\ sfiles[m].vcpu = snap.st
  BY <1>0 DEF SourceInv, SourcePcs
<1>3. /\ snap'.pc = "restore" /\ snap'.mode = m /\ snap'.prog = snap.prog /\ snap'.mem = [p \in PageIds |-> 0]
      /\ snap'.logged = snap.logged /\ snap'.backing = snap.backing /\ snap'.out = snap.out
  BY <1>0, <1>1 DEF RamTyped
<1>4. FilesShape(sfiles') /\ sfiles'[m].vcpu = snap.ip /\ RestoredMem(m)' = snap.mem
  <2>1. CASE m = "full"
    <3>1. WriteSparseMemoryFile(snap.mem, PageIds) = snap.mem
      BY <1>0 DEF WriteSparseMemoryFile, Mems
    <3>2. sfiles' = [sfiles EXCEPT ![m].ram = snap.mem]
      BY <2>1, <3>1 DEF WriteRam
    <3>3. Holds(sfiles', m, snap.mem, sfiles[m].delta, sfiles[m].vcpu)
      BY <1>0, <3>2, FileWritten
    <3> QED BY <1>2, <1>3, <2>1, <3>3 DEF Holds, RestoredMem
  <2>2. CASE m = "dirty"
    <3> DEFINE d == WriteDirtySnapshotFile(snap.mem, snap.logged)
    <3>1. sfiles' = [sfiles EXCEPT ![m].delta = d]
      BY <1>2, <2>2 DEF WriteRam
    <3> HIDE DEF d
    <3>2. Holds(sfiles', m, sfiles[m].ram, d, sfiles[m].vcpu)
      BY <1>0, <3>1, FileWritten
    <3>3. sfiles[m].ram = StubOnly
      BY <1>2, <2>2 DEF LogCovers
    <3>4. \A p \in PageIds : snap.mem[p] # StubOnly[p] => p \in snap.logged
      BY <1>0, <1>2, <2>2 DEF LogCovers
    <3>5. ApplyDirtySnapshotFile(d, StubOnly) = snap.mem
      BY <1>0, <3>4, DeltaRestores DEF RamTyped, d
    <3> QED BY <1>2, <1>3, <2>2, <3>2, <3>3, <3>5 DEF Holds, RestoredMem
  <2> QED BY <1>0, <2>1, <2>2 DEF Modes
<1>5. history'.files = sfiles'
  BY <1>0, <1>1 DEF RamTyped
<1>6. RamTyped'
  <2>1. [p \in PageIds |-> 0] \in Mems
    BY DEF Mems
  <2> QED BY <1>0, <1>1, <1>3, <1>4, <2>1 DEF RamTyped
<1>7. RestoreInv'
  BY <1>2, <1>3, <1>4, <1>5 DEF RestoreInv, RestoredMem
<1>8. BaseInv' /\ SourceInv' /\ GuestInv'
  BY <1>3 DEF BaseInv, SourceInv, SourcePcs, GuestInv, GuestPcs
<1> QED BY <1>6, <1>7, <1>8 DEF SnapshotInv

\* A write that fails leaves files of no use, and no VM.
LEMMA WriteFailsKeeps ==
  ASSUME RamAssumption, SnapshotInv, WriteFails PROVE SnapshotInv'
<1>0. RamTyped /\ snap.mode \in Modes /\ FilesShape(sfiles)
  BY DEF SnapshotInv, RamTyped
<1>1. snap' = NoVm /\ history' = [history EXCEPT !.faults = @ + 1]
  BY DEF WriteFails
<1>2. \E x : \/ sfiles' = [sfiles EXCEPT ![snap.mode].vcpu = x]
             \/ sfiles' = [sfiles EXCEPT ![snap.mode].delta = x]
             \/ sfiles' = [sfiles EXCEPT ![snap.mode].ram = x]
  BY DEF WriteFails
<1>3. FilesShape(sfiles')
  <2>1. PICK x : \/ sfiles' = [sfiles EXCEPT ![snap.mode].vcpu = x]
                 \/ sfiles' = [sfiles EXCEPT ![snap.mode].delta = x]
                 \/ sfiles' = [sfiles EXCEPT ![snap.mode].ram = x]
    BY <1>2
  <2>2. /\ FilesShape([sfiles EXCEPT ![snap.mode].vcpu = x])
        /\ FilesShape([sfiles EXCEPT ![snap.mode].delta = x])
        /\ FilesShape([sfiles EXCEPT ![snap.mode].ram = x])
    BY <1>0, FileWritten DEF Holds
  <2> QED BY <2>1, <2>2
<1>4. RamTyped'
  BY <1>0, <1>1, <1>3 DEF RamTyped, NoVm, Modes, Mems
<1> QED BY <1>1, <1>4, NoVmKeeps

\* The second VM reads what the first one wrote, into a private mapping.
LEMMA RestoreKeeps ==
  ASSUME RamAssumption, SnapshotInv, Restore PROVE SnapshotInv'
<1> DEFINE m == snap.mode
           mem == RestoredMem(m)
<1>0. RamTyped /\ RestoreInv /\ snap.pc = "restore" /\ m \in Modes /\ FilesShape(sfiles)
  BY DEF SnapshotInv, Restore, RamTyped
<1>1. /\ snap' = [snap EXCEPT !.pc = "restored", !.backing = "private", !.ip = sfiles[m].vcpu, !.logged = {}, !.mem = mem]
      /\ sfiles' = sfiles /\ history' = history
  <2> DEFINE vm == [snap EXCEPT !.pc = "restored", !.backing = Backing(TRUE), !.ip = sfiles[m].vcpu, !.logged = {}]
  <2>1. snap' = StoreTo(vm, mem) /\ sfiles' = FileAfter(vm, mem) /\ history' = history
    BY DEF Restore, RestoredMem
  <2>2. vm.backing = "private"
    BY <1>0 DEF RamTyped, Backing
  <2> HIDE DEF mem
  <2>3. FileAfter(vm, mem) = sfiles
    BY <2>2 DEF FileAfter
  <2>4. StoreTo(vm, mem) = [snap EXCEPT !.pc = "restored", !.backing = "private", !.ip = sfiles[m].vcpu, !.logged = {}, !.mem = mem]
    BY <1>0 DEF RamTyped, Backing, StoreTo
  <2> QED BY <2>1, <2>3, <2>4
<1>2. /\ sfiles[m].vcpu \in 1..(ProgramLength + 1)
      /\ mem = MemoryAt(m, snap.prog, sfiles[m].vcpu - 1)
      /\ snap.out = OutputsAt(snap.prog, sfiles[m].vcpu - 1) /\ history.files = sfiles
  BY <1>0 DEF RestoreInv
<1> HIDE DEF mem
<1>3. /\ snap'.pc = "restored" /\ snap'.mode = m /\ snap'.prog = snap.prog /\ snap'.mem = mem
      /\ snap'.ip = sfiles[m].vcpu /\ snap'.logged = {} /\ snap'.backing = "private" /\ snap'.out = snap.out
  BY <1>0, <1>1 DEF RamTyped
<1>4. snap.prog \in Programs(m)
  BY <1>0 DEF RamTyped
<1>5. mem \in Mems
  <2>1. MemorySteps(m, snap.prog) /\ ProgramLength \in Nat
    BY <1>0, <1>4, MemoryStepsHold DEF RamAssumption
  <2>2. sfiles[m].vcpu - 1 \in 0..ProgramLength
    BY <1>2, <2>1
  <2> QED BY <1>2, <2>1, <2>2 DEF MemorySteps
<1>6. RamTyped'
  BY <1>0, <1>1, <1>3, <1>4, <1>5 DEF RamTyped, GuestPcs
<1>7. GuestInv'
  BY <1>1, <1>2, <1>3 DEF GuestInv
<1>8. BaseInv' /\ SourceInv' /\ RestoreInv'
  BY <1>3 DEF BaseInv, SourceInv, SourcePcs, RestoreInv
<1> QED BY <1>6, <1>7, <1>8 DEF SnapshotInv

\* The guest exits behind the last instruction.
LEMMA ExitKeeps ==
  ASSUME RamAssumption, SnapshotInv, GuestExits PROVE SnapshotInv'
<1>0. RamTyped /\ GuestInv /\ snap.pc = "restored"
  BY DEF SnapshotInv, GuestExits, Runs
<1>1. snap' = [snap EXCEPT !.pc = "exited"] /\ sfiles' = sfiles /\ history' = history
  BY DEF GuestExits
<1>2. snap.ip = ProgramLength + 1
  <2>1. IsProgram(snap.mode, snap.prog) /\ ProgramLength \in Nat /\ snap.ip \in 1..(ProgramLength + 1)
    BY <1>0, GuestIsAt DEF GuestPcs
  <2>2. Len(snap.prog) = ProgramLength
    BY <2>1 DEF IsProgram
  <2>3. ASSUME snap.ip <= ProgramLength PROVE FALSE
    <3>1. snap.prog[snap.ip].op \in {"out", "store"}
      BY <2>1, <2>3 DEF IsProgram
    <3> QED BY <2>2, <2>3, <3>1 DEF GuestExits, Instruction
  <2> QED BY <2>1, <2>3
<1>3. /\ snap'.pc = "exited" /\ snap'.mode = snap.mode /\ snap'.prog = snap.prog /\ snap'.mem = snap.mem
      /\ snap'.ip = snap.ip /\ snap'.logged = snap.logged /\ snap'.backing = snap.backing /\ snap'.out = snap.out
  BY <1>0, <1>1 DEF RamTyped
<1>4. RamTyped'
  BY <1>0, <1>1, <1>3 DEF RamTyped, GuestPcs
<1>5. GuestInv'
  BY <1>0, <1>1, <1>2, <1>3 DEF GuestInv, GuestPcs
<1>6. BaseInv' /\ SourceInv' /\ RestoreInv'
  BY <1>3 DEF BaseInv, SourceInv, SourcePcs, RestoreInv
<1> QED BY <1>4, <1>5, <1>6 DEF SnapshotInv

\* The call returns, and the files stay.
LEMMA ReturnKeeps ==
  ASSUME RamAssumption, SnapshotInv, CallReturns PROVE SnapshotInv'
<1>1. RamTyped /\ snap' = NoVm /\ sfiles' = sfiles /\ history' = history
  BY DEF SnapshotInv, CallReturns
<1>2. RamTyped'
  BY <1>1 DEF RamTyped, NoVm, Modes, Mems
<1> QED BY <1>1, <1>2, NoVmKeeps

\* Every step keeps the invariant.
LEMMA SnapshotInvNext ==
  ASSUME RamAssumption, SnapshotInv, [RamNext]_ramVars PROVE SnapshotInv'
<1>1. ASSUME NEW mode \in {"full", "dirty"}, NEW p \in Programs(mode), CreateSource(mode, p) PROVE SnapshotInv'
  BY <1>1, CreateKeeps DEF Modes
<1>2. CASE WriteBase
  BY <1>2, WriteBaseKeeps
<1>3. CASE Store("run") \/ Store("restored")
  BY <1>3, StoreKeeps
<1>4. CASE SourceIo
  BY <1>4, SourceIoKeeps
<1>5. CASE CompletePendingIoBeforeSnapshot
  BY <1>5, CompleteKeeps
<1>6. CASE Capture
  BY <1>6, CaptureKeeps
<1>7. CASE WriteState
  BY <1>7, WriteStateKeeps
<1>8. CASE WriteRam
  BY <1>8, WriteRamKeeps
<1>9. CASE WriteFails
  BY <1>9, WriteFailsKeeps
<1>10. CASE Restore
  BY <1>10, RestoreKeeps
<1>11. CASE RestoredIo
  BY <1>11, RestoredIoKeeps
<1>12. CASE GuestExits
  BY <1>12, ExitKeeps
<1>13. CASE CallReturns
  BY <1>13, ReturnKeeps
<1>14. CASE UNCHANGED ramVars
  <2>1. snap' = snap /\ sfiles' = sfiles /\ history' = history
    BY <1>14 DEF ramVars
  <2> QED BY <2>1 DEF SnapshotInv, RamTyped, BaseInv, SourceInv, LogCovers, RestoreInv, RestoredMem, GuestInv
<1> QED BY <1>1, <1>2, <1>3, <1>4, <1>5, <1>6, <1>7, <1>8, <1>9, <1>10, <1>11, <1>12, <1>13, <1>14 DEF RamNext

\* ramSnapshotSmoke and dirtyRamSnapshotSmoke: a guest continues from its
\* snapshot exactly where it was, with the memory and the outputs of a guest
\* that was never interrupted, and never changes the files it runs from.
THEOREM SnapshotExactHolds == RamSpec => []SnapshotExact
<1>1. RamInit => SnapshotInv
  BY RamAssumption, SnapshotInvInit
<1>2. SnapshotInv /\ [RamNext]_ramVars => SnapshotInv'
  BY RamAssumption, SnapshotInvNext
<1>3. SnapshotInv => SnapshotExact
  BY RamAssumption, SnapshotInvImplies
<1> QED BY <1>1, <1>2, <1>3, PTL DEF RamSpec
=============================================================================
