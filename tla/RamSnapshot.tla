----------------------------- MODULE RamSnapshot -----------------------------
(***************************************************************************)
(* The RAM snapshots of the KVM backend (native/kvm/backend.cc,            *)
(* ramSnapshotSmoke and dirtyRamSnapshotSmoke): a guest runs to its first  *)
(* I/O exit, its memory and registers are written to files, whole or as a  *)
(* base and the pages dirtied since, and a second VM continues from them   *)
(* on a private mapping.  Calls may share a directory and writes may fail. *)
(*                                                                         *)
(* The guest is any short program of stores and outputs, in a page of its  *)
(* own; a page holds one value, 0 for a page of zeros.  As in KVM, an OUT  *)
(* is completed by the next KVM_RUN, and the dirty log has the pages the   *)
(* guest touched: the first access maps a page writable and logs it, while *)
(* a store of the host is not logged.                                      *)
(***************************************************************************)
EXTENDS Naturals, Sequences

CONSTANTS PageCount, WordBits,  \* WordBits is 64 in the code
          ProgramLength, MaxSnapCalls, MaxSnapFaults

ASSUME RamAssumption ==
  PageCount \in Nat \ {0, 1} /\ WordBits \in Nat \ {0} /\ {ProgramLength, MaxSnapCalls, MaxSnapFaults} \subseteq Nat

VARIABLES
  snap,    \* the call: its VM (mem, ip, pending, logged, backing), its program, what it printed
  sfiles,  \* the directory: mem.bin and vcpu.bin; base.mem, dirty.mem and dirty-vcpu.bin
  history  \* memory and files at the capture; calls and failures so far

ramVars == <<snap, sfiles, history>>

PageIds == 0..(PageCount - 1)
Stub == 1  \* the hlt that page 0 holds while the base is written
Code == 2
Stored == 3
CodePage(mode) == IF mode = "full" THEN 0 ELSE PageCount - 1

Programs(mode) ==
  {p \in [1..ProgramLength -> {[op |-> "out"]} \cup
          {[op |-> "store", page |-> q, v |-> v] : q \in PageIds \ {CodePage(mode)}, v \in {0, Stored}}] :
   \E k \in DOMAIN p : p[k].op = "out"}

NoVm == [pc |-> "idle", mode |-> "full", prog |-> <<>>, mem |-> [p \in PageIds |-> 0], ip |-> 0,
         pending |-> FALSE, logged |-> {}, backing |-> "memfd", st |-> 0, dirty |-> {}, out |-> <<>>]

RamInit ==
  /\ snap = NoVm
  /\ sfiles = [mode \in {"full", "dirty"} |-> [ram |-> [p \in PageIds |-> 0], delta |-> <<>>, vcpu |-> 0]]
  /\ history = [mem |-> [p \in PageIds |-> 0], files |-> sfiles, calls |-> 0, faults |-> 0]

-----------------------------------------------------------------------------
\* Files.

\* The file is cut to zeros and gets those of the pages that are not zero.
WriteSparseMemoryFile(mem, pages) == [p \in PageIds |-> IF p \in pages /\ mem[p] # 0 THEN mem[p] ELSE 0]

\* The bitmap is read word by word; bits behind the last page are skipped.
GetDirtyPages(logged) ==
  LET words == 0..(((PageCount + WordBits - 1) \div WordBits) - 1)
      bitmap == [w \in words |-> {b \in 0..(WordBits - 1) : w * WordBits + b \in logged}]
  IN  UNION {{p \in {w * WordBits + b : b \in bitmap[w]} : p < PageCount} : w \in words}

WriteDirtySnapshotFile(mem, pages) == [p \in pages |-> mem[p]]
ApplyDirtySnapshotFile(delta, mem) == [p \in PageIds |-> IF p \in DOMAIN delta THEN delta[p] ELSE mem[p]]

\* The mapping of CreateVmWithMemory: both callers ask for a private one.
Backing(ram_path) == IF ram_path THEN "private" ELSE "memfd"

\* A store by the guest, or by the host, into the mapping.
StoreTo(s, mem) == [s EXCEPT !.mem = mem]
FileAfter(s, mem) == IF s.backing = "shared" THEN [sfiles EXCEPT ![s.mode].ram = mem] ELSE sfiles

-----------------------------------------------------------------------------
\* The source VM.

CreateSource(mode, prog) ==
  /\ snap.pc = "idle" /\ history.calls < MaxSnapCalls
  /\ snap' = [NoVm EXCEPT !.pc = IF mode = "full" THEN "run" ELSE "base", !.mode = mode, !.prog = prog,
                          !.mem = [p \in PageIds |-> IF p # 0 THEN 0 ELSE IF mode = "full" THEN Code ELSE Stub],
                          !.ip = 1, !.backing = Backing(FALSE)]
  /\ history' = [history EXCEPT !.calls = @ + 1]
  /\ UNCHANGED sfiles

\* WriteFullRamFile, then the program is stored by the host.
WriteBase ==
  /\ snap.pc = "base"
  /\ sfiles' = [sfiles EXCEPT ![snap.mode].ram = WriteSparseMemoryFile(snap.mem, PageIds)]
  /\ snap' = [snap EXCEPT !.pc = "run", !.mem[CodePage(snap.mode)] = Code]
  /\ UNCHANGED history

\* One instruction; what comes behind the program writes the exit port.
Instruction == IF snap.ip <= Len(snap.prog) THEN snap.prog[snap.ip] ELSE [op |-> "exit"]
Runs(pc) == snap.pc = pc /\ snap.mem[CodePage(snap.mode)] = Code

Store(pc) ==
  /\ Runs(pc) /\ Instruction.op = "store"
  /\ LET mem == [snap.mem EXCEPT ![Instruction.page] = Instruction.v]
     IN  /\ snap' = [StoreTo(snap, mem) EXCEPT !.ip = @ + 1,
                       !.logged = @ \cup {Instruction.page, CodePage(snap.mode)}]
         /\ sfiles' = FileAfter(snap, mem)
  /\ UNCHANGED history

\* KVM_RUN of the source returns with an I/O exit, which HandleIo answers.
SourceIo ==
  /\ Runs("run") /\ Instruction.op = "out"
  /\ snap' = [snap EXCEPT !.pc = "io", !.pending = TRUE, !.out = Append(@, snap.ip),
                          !.logged = @ \cup {CodePage(snap.mode)}]
  /\ UNCHANGED <<sfiles, history>>

\* Plausible bug: the registers are captured with the OUT not completed.
CompletePendingIoBeforeSnapshot_Not ==
  /\ snap.pc = "io"
  /\ snap' = [snap EXCEPT !.pc = "capture"]
  /\ UNCHANGED <<sfiles, history>>

\* KVM_RUN with immediate_exit completes the OUT and returns before the next.
CompletePendingIoBeforeSnapshot ==
  /\ snap.pc = "io"
  /\ snap' = [snap EXCEPT !.pc = "capture", !.pending = FALSE, !.ip = @ + 1]
  /\ UNCHANGED <<sfiles, history>>

Capture ==
  /\ snap.pc = "capture"
  /\ snap' = [snap EXCEPT !.pc = "writeState", !.st = snap.ip,
                          !.dirty = IF snap.mode = "full" THEN {} ELSE GetDirtyPages(snap.logged)]
  /\ history' = [history EXCEPT !.mem = snap.mem]
  /\ UNCHANGED sfiles

WriteState ==
  /\ snap.pc = "writeState"
  /\ sfiles' = [sfiles EXCEPT ![snap.mode].vcpu = snap.st]
  /\ snap' = [snap EXCEPT !.pc = "writeRam"]
  /\ UNCHANGED history

\* mem.bin, or dirty.mem; the source VM is destroyed after it.
WriteRam ==
  /\ snap.pc = "writeRam"
  /\ sfiles' = IF snap.mode = "full"
               THEN [sfiles EXCEPT ![snap.mode].ram = WriteSparseMemoryFile(snap.mem, PageIds)]
               ELSE [sfiles EXCEPT ![snap.mode].delta = WriteDirtySnapshotFile(snap.mem, snap.dirty)]
  /\ snap' = [snap EXCEPT !.pc = "restore", !.mem = [p \in PageIds |-> 0], !.ip = 0]
  /\ history' = [history EXCEPT !.files = sfiles']

\* A write fails: what was written so far stays and the call throws.
WriteFails ==
  /\ snap.pc \in {"base", "writeState", "writeRam"} /\ history.faults < MaxSnapFaults
  /\ \E done \in 0..(PageCount - 1) :
       sfiles' = IF snap.pc = "writeState" THEN [sfiles EXCEPT ![snap.mode].vcpu = 0]
                 ELSE IF snap.pc = "writeRam" /\ snap.mode = "dirty"
                 THEN [sfiles EXCEPT ![snap.mode].delta = WriteDirtySnapshotFile(snap.mem, {p \in snap.dirty : p < done})]
                 ELSE [sfiles EXCEPT ![snap.mode].ram = WriteSparseMemoryFile(snap.mem, {p \in PageIds : p < done})]
  /\ snap' = NoVm
  /\ history' = [history EXCEPT !.faults = @ + 1]

-----------------------------------------------------------------------------
\* The restored VM.

Restore ==
  /\ snap.pc = "restore"
  /\ LET mem == IF snap.mode = "full" THEN sfiles[snap.mode].ram ELSE ApplyDirtySnapshotFile(sfiles[snap.mode].delta, sfiles[snap.mode].ram)
         vm  == [snap EXCEPT !.pc = "restored", !.backing = Backing(TRUE), !.ip = sfiles[snap.mode].vcpu, !.logged = {}]
     IN  snap' = StoreTo(vm, mem) /\ sfiles' = FileAfter(vm, mem)
  /\ UNCHANGED history

RestoredIo ==
  /\ Runs("restored") /\ Instruction.op = "out"
  /\ snap' = [snap EXCEPT !.ip = @ + 1, !.out = Append(@, snap.ip)]
  /\ UNCHANGED <<sfiles, history>>

GuestExits ==
  /\ Runs("restored") /\ Instruction.op = "exit"
  /\ snap' = [snap EXCEPT !.pc = "exited"]
  /\ UNCHANGED <<sfiles, history>>

CallReturns == snap.pc = "exited" /\ snap' = NoVm /\ UNCHANGED <<sfiles, history>>

RamNext ==
  \/ \E mode \in {"full", "dirty"} : \E p \in Programs(mode) : CreateSource(mode, p)
  \/ WriteBase \/ Store("run") \/ SourceIo \/ CompletePendingIoBeforeSnapshot \/ Capture
  \/ WriteState \/ WriteRam \/ WriteFails
  \/ Restore \/ Store("restored") \/ RestoredIo \/ GuestExits \/ CallReturns

RamSpec == RamInit /\ [][RamNext]_ramVars

-----------------------------------------------------------------------------
\* What the program's first n instructions print.
OutputsAt(prog, n) ==
  LET at[k \in 0..n] ==
        IF k = 0 THEN <<>>
        ELSE IF k <= Len(prog) /\ prog[k].op = "out" THEN Append(at[k-1], k) ELSE at[k-1]
  IN  at[n]

\* The guest does not notice the snapshot: every instruction of its program is
\* executed once, each output appears once and in order over both VMs, and the
\* restored VM finds its program (the pending OUT, the captured registers).
ContinuesExactly ==
  /\ snap.pc = "restored" => snap.mem[CodePage(snap.mode)] = Code
  /\ snap.pc \in {"restored", "exited"} => snap.out = OutputsAt(snap.prog, snap.ip - 1)
  /\ snap.pc = "exited" => snap.ip = Len(snap.prog) + 1

\* Memory after the program's first n instructions.
MemoryAt(mode, prog, n) ==
  LET at[k \in 0..n] ==
        IF k = 0 THEN [p \in PageIds |-> IF p = CodePage(mode) THEN Code
                                         ELSE IF p = 0 THEN Stub ELSE 0]
        ELSE IF prog[k].op = "store" THEN [at[k-1] EXCEPT ![prog[k].page] = prog[k].v] ELSE at[k-1]
  IN  at[n]

\* The restored VM has the memory an uninterrupted guest would have, page by
\* page, whatever an earlier call left in the directory: holes of the sparse
\* file are zeros, and the pages of the delta are all those that differ from
\* the base (WriteSparseMemoryFile, GetDirtyPages, ApplyDirtySnapshotFile).
MemoryRestored ==
  snap.pc \in {"restored", "exited"} => snap.mem = MemoryAt(snap.mode, snap.prog, snap.ip - 1)

\* The restored guest never changes the snapshot it runs from: the files stay
\* as they were written (the private mapping of CreateVmWithMemory).
SnapshotKept == snap.pc \in {"restore", "restored", "exited"} => sfiles = history.files

\* A guest continues from its snapshot exactly where it was, and never changes
\* the snapshot.
SnapshotExact == ContinuesExactly /\ MemoryRestored /\ SnapshotKept
===============================================================================
