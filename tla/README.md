# TLA+ models of node-vmm

node-vmm runs a Linux guest from a Node.js process. TypeScript under `src/`
prepares disks, networks and kernels and drives a native addon; the addon
(`native/kvm`, `native/whp`, `native/hvf`) is the virtual machine monitor, and
`guest/` holds the helper it runs inside the guest. This directory holds models
of the parts that are hard to test: threads that meet on shared words, device
registers that guest and host change at once, files swapped while a process may
die, host state that several VMs share.

Source paths below are relative to the repository. `PROJECT.json` maps every
definition to the lines it models and lists the runs, the hazards, the findings
and the theorems.

## Inventory

| Part | State it keeps | Operations | What makes it correct |
| --- | --- | --- | --- |
| KVM run loop (`native/kvm/backend.cc`, `RunVm`) | control words, `vm_done`, `paused_count`, `immediate_exit`, deadline extension, reason, signal disposition | start threads, vCPU loop, pause, stop, finish, watchdog, join | the pause count is exact; a stop or pause takes effect; no thread or signal outlives `RunVm`; the reported reason is the one that ended the VM |
| WHP run loop, console input and writer (`native/whp`) | the same words, a cancel per vCPU; input queue; pending output | vCPU loop, watchdog, reader and pump threads, Ctrl-C, writer thread | the same; console bytes arrive once and in order; every thread ends |
| HVF run loop (`native/hvf/backend.cc`) | vCPU slots with PSCI state, `paused_vcpus`, lifecycle mutex and condition variable | CPU_ON, CPU_OFF, pause, stop, monitor, escape key, join | counts and power states agree; Paused means all parked; requests take effect |
| SDK handle (`src/kvm.ts`) | promises of the calls, the control words | `pause`, `resume`, `stop`, polling, worker message, abort | a resolved `pause()` means the guest stands still; every promise settles |
| Interrupts and timers of WHP (`irq.cc`, `pic.cc`, `pit.cc`, `hpet.cc`, `IoApic`) | pending ExtInt, interrupt window, redirection entries, counters, comparators | raise, inject, EOI, register accesses, polls | no interrupt is lost or injected at a vCPU that cannot take it; timers fire on their grid |
| Serial ports of the three backends | registers, receive queue, held cursor query | register accesses, host input | no byte lost or reordered; the line follows its causes |
| Virtio devices of the three backends (blk, net, rng) | registers, rings, overlay and dirty bits, frame queues | register accesses, notify, transmit, receive, reset, acknowledge | they behave as a disk and a link; every request is answered once and signalled |
| Guest console helper (`guest/node-vmm-console.cc`) | terminal, byte in hand, drain count | relay, reap, drain | all output before the status; no deadlock |
| RAM snapshots (`native/kvm/backend.cc`) | memory, registers, dirty log, files | capture, write, restore | the guest continues exactly; the snapshot stays |
| Persistent disks (`src/disk.ts`) | `NAME.ext4`, `NAME.json`, temporary and backup files | create, reuse, reset, grow, swap, roll back | guest data survives failures and crashes; the metadata tells the truth |
| Host networking (`src/net.ts`) | interfaces, iptables rules, ports, proxied connections | set up, proxy, clean up | one VM's failure or cleanup does not hurt another; the host is left as it was; cleanup ends |
| Pipelines (`src/index.ts`) | temporary directories, overlays, sandboxes, snapshot bundles, rootfs cache | run, start, boot, prepare, close, create and restore a snapshot | only whole images boot; shared images are not written; a session that ended leaves nothing behind |
| Boot setup, OCI client, kernel cache, child processes, rootfs builder, ext4 writer, CLI | - | - | not modelled, see below |

How they interact. A user's `startVm` acquires the network and the disk, then
starts a worker thread that calls the native `RunVm`. From then on the main
thread and the native threads share two 32-bit words, *command* (written by
JavaScript) and *state* (written by the run loop, and once more by JavaScript
when the worker has reported). Inside `RunVm` there is one thread per vCPU, a
watchdog that kicks vCPUs out of the guest, and input, timer, network and
console threads, depending on the backend. A vCPU that leaves the guest for an
MMIO access runs the device code under one mutex, while the other vCPUs keep
changing the rings in guest memory and host threads deliver bytes and frames.
When the VM has ended, network, overlay and temporary files are released.

The hard behaviours, each at its line, are the `hazards` of `PROJECT.json`.

## Modules

| Module | Models |
| --- | --- |
| `VmRunner`, `VmRunnerProofs`, `MCRunner` | `RunVm` of the KVM backend, thread by thread; its invariants, proved |
| `VmHandle` | the SDK handle composed with `VmRunner`; its proof is in `VmRunnerProofs` |
| `BlockStore` | what a block device promises |
| `VirtioBlk`, `VirtioBlkProofs`, `MCVirtioBlk` | the KVM block device, which implements `BlockStore`; the proof that it does, and the proofs about `VirtioMmio` and `VirtioChain` |
| `PersistentDisk`, `VmSession`, `RamSnapshot`, `MCHost` | what the host keeps on disk: named disks, sessions, RAM snapshots |
| `SessionProofs` | proofs about the three |
| `HostNetwork`, `HvfRunner`, `MCMacNet` | automatic networking of several VMs; the run loop of the macOS backend |
| `HvfNetProofs` | proofs about both |
| `ConsoleWriter`, `WhpRunner`, `WhpInput`, `GuestConsole`, `MCWindows` | the threads of the Windows backend and the helper at the guest's end of the console |
| `WhpRunnerProofs` | proofs about the first three, and about `WhpUart` |
| `WhpIrq`, `WhpTimers`, `WhpUart`, `WhpNet` | interrupt delivery, timers, serial port and network card of the Windows backend |
| `WhpIrqProofs` | proofs about interrupt delivery, the timers and the network card |
| `LevelUart` | the serial ports of KVM (16550) and HVF (PL011) |
| `VirtioMmio`, `VirtioChain`, `OverlayDisk`, `NetFrames` | virtio registers, descriptor chains, disk access and frames of the three backends |
| `MCDevices` | the devices of the two rows above, for TLC |
| `DeviceProofs` | proofs about the console helper, the serial ports, the frames of the network devices and the disks of HVF and WHP |
| `DataInduction` | induction over numbers and sequences, what recursive functions return, and quotients, proved from the axioms of set theory |

The MC modules put several components that share no state into one state space,
one of them active in each behaviour (`part`); the others stay in one initial
state. A module's safety property is a conjunction of named parts, among them
its type invariant; the parts are commented where they are defined.

In every module a definition that follows a comment beginning "Plausible bug"
is a mutated form of the definition after it. It is used by no specification; it
serves to show that a property notices such a change.

### VmRunner

A thread is a program counter `pc[t]`; each access to a word that another thread
reads or writes is one step, and what lies between two such accesses belongs to
the step before. `finish` and `interrupt_all` are called by every kind of
thread, so they are subroutines: `CallFinish` and `CallInterruptAll` set `arg`
and `ret`, and `FinishCas`, `FinishReason`, `InterruptImmediate` and
`InterruptKill` are their steps. `EnterKvmRun` returns at once when
`immediateExit` is set, which is how KVM behaves; `InterruptKill` moves a vCPU
in `KVM_RUN` out of it. What the guest and the devices do is reduced to what it
makes the loop do: go on, finish or throw. `winner` and `ran` are history
variables; `handler` says whether the `SIGUSR1` handler of `RunVm` is installed.
The time is `now`, in ticks; `Timeout` is the deadline in ticks and 0 stands for
none.

### WhpRunner and HvfRunner

`WhpRunner` is built like `VmRunner`; a cancel of a vCPU that is not in the guest
stays pending, as the hypervisor documents. In `HvfRunner` the sections under
`lifecycle_mu` are one step and a wait on `lifecycle_cv` is three (predicate
evaluated, asleep, awake again), because `request_stop` notifies without the
mutex. `seen` is history: the first reason, and the two wakes that are missed. Every
`std::thread` constructor may fail (`SpawnFails`, `SpawnHelper`), and so may a
vCPU's creation and the calls of the framework in its loop (`CreateVcpu`,
`VcpuThrows`). After an exception of the caller (`life.thrown`) the vCPU threads use
objects that are gone. That is undefined, and modelled as a choice: a thread goes on
as if they were there, never takes another step, or the process ends
(`UsesDestroyed`).

### WhpInput, ConsoleWriter, GuestConsole

Bytes carry their number, so that order and loss can be stated. Condition
variables are modelled at the same three points. In `WhpInput` the reader that has
tested `input_done` is at "call" until it is in `ReadFile`, where alone
`CancelSynchronousIo` reaches it. In `ConsoleWriter` output is a
sequence of four tokens that the writer's coalescing tells apart (text, newline,
begin and end of a redraw). The writer waits twice: until the deadline for a redraw
to be complete ("coalesce"), and then, with a frame still open, without a limit until
the number of pending bytes is another ("held"). In `GuestConsole` the pseudo-terminal is the kernel's
(external): it expands newlines, echoes, blocks a writer when full and fails once
nobody has it open.

### VmHandle

`calls` holds one record per call of `pause`, `resume` or `stop`. A call is one
step up to its first `await`; then `PollWanted` and `PollEnded` are the turns of
the 1 ms loop of `waitForState`. `WorkerMessage` is the end of the worker.
`Abort` settles the promise and leaves `RunVm` alone, as `handleAbort` does.
`Sequential` says whether the caller awaits each call before the next.

### VirtioBlk and BlockStore

`QueueNotify`, `ProcessRequest`, `PublishUsed` and `FinishNotify` are one notify
under the device mutex; the driver's steps come between them. `ProcessRequest`
covers the request types; a write may fail after any of its descriptors, and the
one that failed may have reached the file in part. Sizes are in sectors. Indices
wrap at `IndexMod`, which is 2^16 in the code and 4 in the runs: twice the queue
size, the smallest value with which a full ring and an empty one differ.

`BlockStore` has no queue and no files: a request is submitted, served once
(success, or failure with any part of a write done) and collected. The
refinement mapping takes its disk to be the overlay where a sector is dirty and
the image elsewhere.

### VirtioMmio, VirtioChain, OverlayDisk, NetFrames

Four views of the virtio devices, which the three backends implement separately;
where their code differs, the module has an operator per backend (`kvm_`, `hvf_`,
`whp_`) and the initial state chooses one.

- `VirtioMmio`: one step per register access, with a driver that probes, starts
  over at any point and then works; a level line on KVM and HVF, a latched edge
  on WHP.
- `VirtioChain`: each operation is one step on an arbitrary small chain and its
  outcome is compared with a definition that does not loop; apart from that, the
  two stores of `push_used` against a driver that polls.
- `OverlayDisk`: block requests byte by byte, with 64-bit arithmetic scaled to
  `Wide`, on an image that does not end with a sector, any host transfer failing
  in part.
- `NetFrames`: numbered frames from tap, libslirp, socket or vmnet into buffers
  that may be too short, with HVF's reader thread and notification pipe. The reader may
  end by itself (end of stream, error, bad length), and a poll of HVF before the
  frames do (32 of them, or a `vmnet_read` that fails).

### WhpIrq, WhpTimers, WhpUart, WhpNet, LevelUart

Exit handlers and device threads that hold a device's mutex are one step. Counter
widths, FIFO and queue sizes are constants, scaled down so that they wrap and
fill. The hypervisor's side of an interrupt (IF, STI shadow, interrupt window,
local APIC) is external. `WhpIrq` has the one slot for an external interrupt that
the code has; `owed` is the history of the lines that were raised and whose vector
nobody has replaced. In `LevelUart` the output is what `write(2)` is called with: the
code ignores its result. In `WhpNet` each section under `VirtioNet::mu_` is a
step of its own, because the lock is taken and left several times per packet.

### PersistentDisk

One action per file operation of `materializePersistentDisk` and
`installPersistentDiskPair`, one for each statement of the `catch` block, and
`DiskCrash`, after which only the files remain. A test whether a file exists may fail,
which the code takes for absence; `overlooked` is the history of the disks that were
not seen this way. A disk is its source, its size
and the last guest run that wrote to it. `precious` is the history of what must
not be lost: data a guest wrote, until a reset the user asked for has installed
the new pair.

### RamSnapshot

`ramSnapshotSmoke` and `dirtyRamSnapshotSmoke`, for any program of
`ProgramLength` stores and outputs. As in KVM an OUT is completed by the next
`KVM_RUN`, and a store of the host is not in the dirty log.

### HostNetwork

One action per command of `setupNetwork` (mode `auto` on Linux) and of
`cleanupAuto`, for several VMs at once. An iptables rule is counted, as the same
rule may be installed by two VMs; `-D` removes one copy. `Listen` to `PeerCloses`
are the TCP proxies, which any running guest of the subnet may answer:
`server.close()` calls back when the last connection is gone, so `ServersClosed`
waits for `conns`. The cleanup of a VM that ran ("closing") destroys its sockets
first; a setup that failed ("aborting") does not.

### VmSession

One session is one call of `runImage`, `startVm`, `bootRootfs`, `createSnapshot`,
`restoreSnapshot` or `prepareSandbox`; `pc[s]` is where it awaits. The file system
is a function from names to inodes: a rename moves an inode to another name, a
hard link gives it a second one, and a VM keeps the inode it opened whatever
happens to the name. Downloads, builds and copies take two steps, between which
their file is not whole. An image is reduced to that and to the set of sessions
whose guest wrote to it. `Fail` is an exception anywhere, `Crash` the death of a
process, `Abort` the caller's signal, after which the call cleans up although the
VM goes on. Between a VM's end and the releases a command's result is read from its
disk, which may fail (`ReadResult`). The runs of a prepared sandbox keep their
temporary directory as the code has it (`KeepsTemp`). Initially the host is fresh, or an image is cached and a disk and a
snapshot exist.

## Runs

All bounds are constants named in the modules.

| Run | Shows | Bounds, and why they are enough |
| --- | --- | --- |
| `runner_pair` | `PausedCountExact`, `SignalsOnlyWithHandler`, `NoThreadOutlivesRunVm`, `ReportsTheWinner`, `ExitedIsFinal`, `ClockAccounting` | two vCPUs, the watchdog, Ctrl-C, a network device, two commands: a pause and its resume or stop, and every race of two finishers. Three ticks and a deadline of one, in behaviours without Ctrl-C in which the second vCPU's thread does not get the processor before the VM is done (`ClockBound`; only CPU 0 extends the deadline). All six are proved for any bounds. |
| `runner_live` | `RequestsComplete` | two vCPUs, one command, thread fairness |
| `runner_ctrlc` | finding: `CtrlCStopsVm` fails | one vCPU, one command |
| `handle_awaited` | `HandleSafe`, `CallsSettle` | one vCPU, three awaited calls (pause, resume, pause is where a stale state could be taken for an answer), an abort |
| `handle_pause` | finding: `PauseParksGuest` fails with two vCPUs | three awaited calls |
| `blk` | `BlkSafe`, `ImplementsStore`, `Completes` | overlay, two sectors, two heads, indices that wrap after four; a read, a write of two descriptors, one that runs off the disk, a request without data, a malformed chain |
| `host` | `DiskKept`, `NeverShrinks`, `ImagesSound`, `SessionsEndClean`, `SnapshotExact` | disks: two sources, two sizes, three calls (create, reset, reuse), two faults (one may hit the rollback), one crash. Sessions: two of any of twelve kinds, on a fresh or a used host, one failing operation, one death; a symmetry set. Snapshots: three pages (one page of code, one in a second bitmap word), programs of three instructions, two calls in one directory, one failing write |
| `disk_source` | finding: `SourceRemembered` fails | two calls |
| `session_sandbox` | finding: `TempCleaned` fails | two sessions, one of which prepares a sandbox that the other runs; nothing fails |
| `devices` | `InterruptsKept`, `SafeInjection`, `TimersExact`, `TimersSteady`, `WhpUartExact`, `WhpNetSafe`, `SerialExact`, `RegistersAgree`, `OverlayExact`, `FramesKept`, `ChainsExact` | queues of two or three with one element more than fits, counters that wrap within the run, host calls that fail at any time, bad buffers, one reset, chains of up to three descriptors with every link, and requests that begin or end inside a sector |
| `windows` | `WhpSafe`, `WhpLive`, `InputSafe`, `InputLive`, `OutputSafe`, `OutputLive`, `HelperSafe`, `HelperLive` | two vCPUs with a deadline and two commands; four typed bytes through a queue of two and one Ctrl-C; four tokens with a flush threshold of three; a terminal that holds one byte |
| `mac_net` | `HvfSafe`, `HvfRequests`, `NetworkSafe`, `Unwinds` | two vCPUs, one CPU_ON, one command, a deadline; three VMs, two of which share a subnet and want one host port and two an interface name, three setups, two failing commands |

Deadlock is checked except in `host`, `session_sandbox`, `devices`, `windows`,
`mac_net` and `disk_source`, where nothing has to happen once guests, users and bounded calls
have fallen silent. A VM of `VmRunner` that has returned stutters explicitly
(`Returned`). `devices` tells states apart by the variables of the device that
runs (`View`); those of the others never change.

### Fairness

- `VmRunner!Fairness`: weak fairness for each vCPU thread, the watchdog and the
  main thread. The kernel schedules every runnable thread. The guest gets none:
  it may compute for ever without an exit.
- `VmHandle!HandleFairSpec` adds weak fairness for the event loop: a timer that
  is due and a message that was posted are handled. Calls and aborts are up to
  the user.
- `VirtioBlk!FairSpec`: the vCPU that exited finishes its exit; the driver sends
  the notify it owes and runs its interrupt handler while the line is high.
- `MCWindows!WindowsFairness`: the threads of the part that is active, timed
  waits end, `WriteFile` returns, and the guest reads its console. Nobody need
  type, the guest owes no exit, and the command in the guest owes nothing.
- `MCMacNet!MacNetFairness`: the threads of the HVF run loop; commands end, and
  an attempt to connect to a guest that is not there times out. An established
  connection may stay open for ever, and so may a VM.

## Findings

Four places where the code does not do what a document, an error text or a test
says. Each is a run that TLC ends with a counterexample.

- `runner_ctrlc`. `finish()` kicks the vCPUs, and so does the watchdog once more as
  it ends (`native/kvm/backend.cc:3693-3695`); after these two kicks nobody is left
  who would. A vCPU that has already looked at `vm_done` and executes
  `immediate_exit = 0` after both enters the guest; so does one that leaves its
  pause loop because of `vm_done`. Until the guest exits by itself `RunVm` does not
  return. The deadline has the same window, its two kicks being the watchdog's.
  Stops and pauses do not have it, since the watchdog repeats their kicks
  (`RequestsComplete`). The Windows backend does not have it either (`WhpLive`): a
  cancel stays pending.
- `handle_pause`. With two vCPUs and pause, resume, pause, a thread still on its
  way out of the first pause is counted for the second one; `pause()` resolves
  and that thread enters the guest.
- `disk_source`. A reset that changes image and size writes the metadata twice,
  the second time from what was read before the swap: the old source is recorded
  for the new disk.
- `session_sandbox`. The runs of a prepared sandbox get `keepRootfs: true`
  (`src/index.ts:1917`) because their root disk is the sandbox's. The same flag keeps
  the run's own directory `node-vmm-run-*` (1341, 1459), which nobody removes later:
  every `run()` leaves one behind, although `docs/sdk.md:3-4` says the API cleans
  the temporary artifacts it owns.

### What the properties leave out, and why

The models have the following behaviours of the code; a property that would
exclude them is false, so the property names them as exceptions.

- HVF: `request_stop` notifies `lifecycle_cv` without the mutex, and a vCPU
  thread between its predicate and its sleep misses it (`seen.missed`). A vCPU
  that is powered off during a pause does not compare the count again, so that
  nobody publishes Paused (`seen.offWhilePausing`).
- HVF: when a vCPU or a thread cannot be created, the exception that leaves `RunVm`
  destroys the mutex, the condition variable and the flags of the vCPU threads before
  `ThreadJoinGuard` joins them (`native/hvf/backend.cc:3265-3272` against 3274-3412).
  What they do then is undefined, so that `RunVm` need not end (`HvfStopEnds`,
  `HvfPauseCompletes`) and reports no reason (`HvfFirstReason`): `life.thrown`.
- HVF: the used index and its entry are plain stores, which an Arm host may make
  visible in either order to a polling driver; `UsedInOrder` leaves HVF out.
  `poll_rx` takes at most 32 frames after it has emptied the pipe, and gives up at a
  `vmnet_read` that fails (2015); the rest waits for the next wake (`PollDue`). A
  frame that does not fit takes a buffer with it that never comes back
  (`NoFrameVanishes` counts the frame only).
- WHP console: a flush by the producer may overtake bytes the writer has taken
  and not yet written, as they hold different locks (`OutputInOrder`); an open
  redraw frame is held back until more output or `stop()`. It is the number of
  pending bytes that ends this wait (`console_writer.h:445-450`), so that text without
  a frame which takes its place after a flush, and is as long, waits too (`Shown`).
  Ctrl-C drops the newest bytes of a full queue (`NoTypedByteLost`). `stop_input` may
  wait for ever in three windows (`StopInputEnds`): the cancel comes when the reader
  has tested `input_done` and not yet called `ReadFile`, on which it has no effect;
  the reader sleeps on a full queue, and is joined before it is notified; the pump
  is between its test and its sleep when the notification comes.
- WHP interrupts: there is one slot for an external interrupt, and a raise replaces
  the vector that waits in it (`native/whp/backend.cc:3692` and 3844): when UART and
  timer meet there, the first of the two is lost (`ExtIntKept`).
- WHP network: packets beyond the backlog's limit are refused, although the
  comment at `native/whp/backend.cc:1899` speaks of holding them
  (`NoPacketVanishes`). A kick of the driver is dropped while the flush of the other
  thread is marked active (2085); if that flush has already found no buffer, packets
  and buffers wait beside each other until the next packet or kick, against the
  comment at 1900-1902 (`HeldForBuffers`, history `refused`).
- Named disks: `pathExists` answers false for every `access()` that fails
  (`src/utils.ts:20-27`). A disk that `src/disk.ts:182` overlooks this way is replaced
  by a new one without a reset, and its backup removed (`DataSafe`, `overlooked`).
- Sessions: the temporary directory of a sandbox's run stays (`NothingLeft`; finding
  `session_sandbox`).
- Host networking: a running VM's interface goes when another VM has the same name
  and its `ip tuntap add` failed, since its cleanup deletes it (`src/net.ts:363`;
  `RunningKeepsNetwork` keeps rules and ports for all VMs, the interface for one that
  does not share its name). A setup that fails closes its servers without destroying
  their sockets (191), and waits as long as the guest of another VM in the same
  subnet keeps one of them open (`Unwinds`).
- KVM: `ExitedIsFinal` is about the Exited of `RunVm`. After an abort the handle
  stores another one (`src/kvm.ts:286-288`), which the vCPUs may still overwrite; and
  a vCPU may store Running over Stopping.
- Serial ports: an answer to a cursor query loses its first bytes when the queue
  has no room (`AnswerWhole`).

### Hazards without a property

Reading the code also showed behaviour that no run states. `sigaction` is
process-wide, so the first of several VMs to end restores the disposition under
the others (`native/kvm/backend.cc:3614`); the KVM watchdog can see `runner_ready`
after the joins (3642), and the extension of a deadline only after the command
that ended the pause (3683). `handleAbort` settles the promise and leaves the
native VM running (`src/kvm.ts:255`), and `pause()` or `resume()` before `stop()`
has settled overwrites the stop (`src/kvm.ts:325`). Two processes using one disk
name take no lock (`src/disk.ts:182`), and a disk whose metadata is missing is
refused at 185 even with `--reset`, which the error text recommends. A bundle may be replaced while a restore is about
to open its disk (`src/index.ts:1265`); a disk grown by a session that failed is
not grown again (`src/index.ts:1085`); a snapshot made from `rootfsPath` on one
file system is a hard link, so that a later run of that `rootfsPath` without an
overlay changes it. Two pulls of one blob in a process share the temporary name
(`src/oci.ts:456`), and a cached blob that does not match its digest is refused
for ever (452). An abort and a timeout of a child process race (`src/process.ts:110`).
In the native code a Slirp timer callback of WHP takes the lock its caller holds
(`native/whp/backend.cc:2331`), the block devices write the status of a failed
request into a descriptor that need not be writable, and the KVM `start_slirp`
that throws leaves what it had opened to a destructor that does not run.

## Proofs

Every theorem holds for all values of the constants that satisfy the module's
assumption; the runs show the same property on one small instance. A proof has
always the same shape: an inductive invariant, a lemma per action or group of
actions that it is preserved, and a last step that combines them. What the
invariant adds to the property is what the code relies on without saying it.

| Theorem | States | For any | Inductive invariant |
| --- | --- | --- | --- |
| `TypeCorrect`, `PausedCountCorrect`, `SignalsHandled`, `ThreadsJoined`, `WinnerReported` | the safety invariants of `VmRunner` | finite set of vCPUs, deadline, number of commands and ticks | `IInv` |
| `ClockExact`, `ExitedStays` | `ClockAccounting`, `ExitedIsFinal` | the same | `RunInv` |
| `HandleSafeHolds` | `HandleSafe` | deadline, number of calls, abort; one vCPU, awaited calls, no Ctrl-C | `HandleIInv` |
| `WhpSafeHolds` | `WhpSafe` | number of vCPUs and commands, with and without a deadline | `WhpIInv` |
| `InputSafeHolds` | `InputSafe` | queue limit, chunk size, size of the UART, number of bytes and Ctrl-Cs | `InIInv` |
| `OutputSafeHolds` | `OutputSafe` | buffer size, flush threshold, number of tokens and queries | `ConIInv` |
| `HvfSafeHolds`, `PausedAllParkedHolds` | `HvfSafe`; `PausedAllParked`, a conjunct of `HvfRequests` | up to 64 vCPUs, any number of commands and CPU_ONs | `HvfIInv` |
| `InterruptsKeptHolds`, `SafeInjectionHolds` | `InterruptsKept`, `SafeInjection` | set of pins, queue limit, failing hypervisor calls | `IrqIInv` |
| `TimersExactHolds`, `TimersSteadyHolds` | `TimersExact`, `TimersSteady` | widths of the HPET's counter and comparators, set of its timers, length of the run, number of writes | `TmrInv` |
| `WhpNetSafeHolds` | `WhpNetSafe` | number of packets, buffers, transmit kicks and resets, backlog limit, bad buffers and long packets | `WnIInv` |
| `BlkSafeHolds`, `ImplementsStoreHolds` | `BlkSafe`; the device implements `BlockStore` | queue size, index modulus, disk, requests | `BlkIInv` |
| `DiskKeptHolds`, `NeverShrinksHolds` | `DiskKept`, `NeverShrinks` | sources, sizes, number of calls, faults and crashes | `DiskIInv` |
| `ImagesSoundHolds`, `SessionsEndCleanHolds` | `ImagesSound`, `SessionsEndClean` | sessions, requests, failures and deaths | `SessIInv` |
| `SnapshotExactHolds` | `SnapshotExact` | number of pages, width of the bitmap's words, programs of any length, number of calls and failing writes | `SnapshotInv` |
| `NetworkSafeHolds` | `NetworkSafe` | finite set of VMs, names, subnets and ports, failing commands | `NetIInv` |
| `HelperSafeHolds` | `HelperSafe` | program of the child, drain limit | `GconInv` |
| `SerialExactHolds` | `SerialExact` | receive limit, console limit, bytes typed and printed | `SerialInv` |
| `WhpUartExactHolds` | `WhpUartExact` | size of the FIFO and the queue, bytes received and sent, register writes | `UartInv` |
| `RegistersAgreeHolds` | `RegistersAgree` | queue size a probe asks for, probes, requests and frames, on each backend's devices | `RegInv` |
| `ChainsExactHolds` | `ChainsExact` | length of the table and every link in it, length and flags of every buffer, number and length of the frames, header, size of the rings and wrap of their indices, number of chains, on every backend's devices | `ChainInv`, `WalkHolds`, `RngHolds`, `TxHolds`, `RxHolds` |
| `FramesKeptHolds` | `FramesKept` | number of frames, buffers, transmits, resets and forwards, limit of a poll, frames too long, buffers too short, on each of the five networks | `FramesInv` |
| `OverlayExactHolds` | `OverlayExact` | size of the image and of the sector, width of the integers, number and lengths of the descriptors, first sector, number of requests, the transfer that fails and how much of it was done | `OverlayInv`, `Did` |

### The run loops

`VmRunner`. `TypeOK` alone is not inductive: `fetch_sub` keeps `pausedCount` in
`Nat` only because the thread that executes it is counted (`PausedCountExact`),
and the extension stays in `Nat` because `pausedAt <= now`. `PausedCountExact` is
preserved because only two actions change the set of parked threads or the count,
and each changes both. `Shape` says where a call of `finish` or `interrupt_all`
returns to (an application processor ends, the boot thread goes on to the joins);
without it a thread could come back to life after it was joined. `Joined` says
what the boot thread has waited for at each place after the joins, and that the
handler is installed until the watchdog was joined. `Outcome` is the race for
`vm_done`: one thread wins the compare-and-swap, and until it has stored its reason
`final_exit_reason` is not to be trusted; the boot thread reads it only after it
joined every thread that could be that winner. `RunInv` adds who may be about to
extend the deadline (`DeadlineShape`) and where the boot thread is once "exited"
is stored (`ExitedShape`).

`VmHandle`. `HandleSafe` is false in general: with two vCPUs a `pause()` can
resolve while a thread enters the guest (finding `handle_pause`), a Ctrl-C takes
a vCPU out of its pause, and calls that are not awaited overwrite each other. The
theorem has these three as its hypothesis, `AwaitedOneVcpu`, which the constants
of run `handle_awaited` satisfy. `Dialogue` relates the last call, the two words
and the place of the vCPU: after `resume()` has resolved, Paused in the state word
is gone, so that the next `pause()` cannot take it for its answer; `Ending` says
who may have stored "exited".

`WhpRunner` has the argument of `VmRunner` with a cancel instead of a signal
(`Race`, `WhpJoined`), and in addition that the error message is recorded before
`finish` is called, so that an error is never reported as a result. `HvfRunner`
counts by the vCPU's place in its loop; the PSCI states agree because a CPU_ON can
only come from a vCPU that runs after every slot was created: creating a vCPU
stores Off, which would lose an earlier CPU_ON (`CreatedBound`). It includes the
executions in which `RunVm` throws: that the joins follow the destruction of what
the threads use does not disturb the counts of a thread that goes on, and a thread
that was never made or no longer moves counts as it stood. The theorem denies
neither that this happens nor that the process may die of it. It assumes at most
64 vCPUs, which `RunVm` checks (`native/hvf/backend.cc:3154`).

### The Windows console

`WhpInput`. The bytes at the UART, with the pump, in the queue and with the reader
form one rising sequence at every moment, apart from the zeros that stand for
Ctrl-C (`Flow`, with a lemma for each way to hand bytes on); a thread holds bytes
only where its pc says so (`InHands`); every byte is somewhere or was displaced
(`InKept`). `ConsoleWriter` likewise: what is on the console, with the writer, with
a flushing producer, pending, and of the producer's own write is one sequence that
only printing extends (`ConKept`); nothing is pending while the producer flushes
(`ConHands`), and the writer ends with nothing left (`ConEnds`). Assumed: a queue
limit above zero (1 MiB, `native/whp/backend.cc`) and room for one write of the
model in the output buffer (256 KiB, `console_writer.h`).

### Interrupts, the network device and the block device

`WhpIrq`. What the loop knows of the guest are copies as old as the last exit. They
may be used while the vCPU is out of the guest and ready (`CopiesHold`), and what
the loop thinks it armed is armed (`WindowsAgree`). An EOI inside the guest leaves
no remote IRR behind because an edge entry never has one (`OnlyLevelWaits`). What the
theorem says of external interrupts is `ExtIntKept`: whoever takes a vector from the
slot injects it, and nothing but a raise of the other source replaces one. It does not
say that no interrupt is lost; that one is.

`WhpTimers`. The HPET's counter is a residue, so that a count lies ahead of it or
behind it only up to half of its range. `DistanceIs` reads this off an integer that
has not been reduced: of the two counts `set_timer` can choose for a 32-bit
comparator one is to come (`NearIs`), and the catch-up of a late poll ends
(`CatchUpIs`: the first period past the counter is found by the minimum of a set of
numbers). `TmrInv` adds to `TimersExact` that a comparator fits its width
(`GoodTimer`) and that a timer whose status is up would still raise the pin it
remembers (`RouteHeld`). `TimersSteady` follows step by step (`AheadStep`,
`CounterStep`). For the PIT, a reload starts a grid (`ResetIs`) and a poll moves by
whole intervals (`NextIrqIs`). Assumed: the comparator's width divides the
counter's, as 2^32 divides 2^64, and the counter has at least eight values. The
model's guest writes comparators and periods of 1 and 3, so a period is far below
half of the range; the word of the PIT is fixed at four.

`WhpNet`. Used packets rise and lie below those that wait, except that the backlog's
first one may be used already while the thread that flushes has not popped it
(`Traffic`, `FrontDone`). This is preserved only because one thread flushes at a
time and `rx_flush_active_` says which (`Roles`), that thread holds the backlog's
first packet, and a packet that skips the backlog is the last one sent and found it
empty (`InHand`). A used buffer was offered because each thread between the two
locked sections has taken one more than it has used, as long as no reset fell
between them (`Positions`); `Signalled` and `Served` say who is about to raise the
interrupt or to move the backlog.

`VirtioBlk`. That each request is in one place needs the heads in the live part of
each ring to be distinct, and the index `handle_queue` runs up to to lie in the
available part; that no slot is overwritten follows by counting. All of this is
arithmetic modulo `IndexMod`, of which the proof uses that the queue size divides
it. The refinement needs that a head has an answer exactly when it has left the
available ring (`Answered`): initial states map to initial states, and each step to
a step of `BlockStore` or to none. Assumed of the constants: well-formed
requests, and a `None` that is no data, no request and no reply.

`VirtioMmio`. `RegistersAgree` speaks of a driver that runs; how it came to run is a
program of 22 or 31 register accesses, which another probe may cut off at any of
them. `RegInv` says what the registers hold after each access: what the accesses
so far have written and, in every other register, what a reset leaves (`Settings`).
That no setting of an earlier driver survives is therefore a consequence of the
first access, the reset, in each of the seven devices. Beside it: the device's
position in a queue and the used index agree also while nobody drives it
(`Positioned`), the rings of a driver that is setting up are new (`Blank`), and a
completion nobody has collected keeps the status bit until the handler reads it and
the line until it starts (`Raising`).

### Descriptor chains

`VirtioChain`. `ChainsExact` compares each loop with a definition that does not loop,
and each of its parts is an induction over the turns. `WalkHolds`: after k turns the
walk has the only path of k descriptors that a chain from the head can begin with, so
where it throws there is none, and no walk is longer than the table since no index
comes twice. `RngHolds`: what the random number device has filled is part of what the
head reaches and closed but for the next index, and adding a descriptor once to a sum
over the table adds its length (`SumAdd`). `TxHolds`: what `process_tx` has copied is
what the descriptors so far hold, without the header (`RestConcat`, wherever the header
ends). `RxHolds`: the loop of `inject_rx_frame` stands where the descriptor begins, and
what it computes from its offset is what the positions of the buffer give (`Shares`);
what lies behind the last buffer used cannot matter because descriptors begin one
behind the other (`BeforeGrows`). Of the rings, `InOrder` says how many of the chains in
flight are taken and how many shown: the slots of entries less than a ring apart differ
although indices wrap (`RingSlotsDiffer`), and an index stands in its own slot because
the wrap is a multiple of the ring. HVF is left out there, as in the property. Assumed:
the header is not empty (12 bytes in the code; with neither header nor frame the loop
would look at a first descriptor that it does not need).

### Byte streams

A stream that is cut, expanded or filtered on its way is compared with the one it
came from by a recursive definition, and what such a definition computes is proved
by induction over the stream. The induction theorems of the library take an operator,
which the provers cannot instantiate; `DataInduction` states induction of sets
instead (`NatSetInduction`, `IntervalInduction`, `SeqInduction`) and proves it from
the existence of a minimum in a well-founded relation. A recursive function over
`0..n` is the one function with its first value and its steps (`Unrolled`):
`RunExists` and `RunsAgree` are its existence and uniqueness, from which follows what
one element more adds to its result.

`GuestConsole`. What is on the serial port is the transmission of what the helper
has consumed, up to the byte it is at and the half of a newline it has sent
(`SerialIsTerminal`), which needs the last byte before that place (`LastKnown`); that
all of it is out before the exit status needs that only a turn which found the
terminal empty after the command had gone counts as silent (`Drained`).

`LevelUart`. The interrupt line follows the registers after every access
(`LineFollows`) and on KVM an edge is kept while the handler is out (`EdgeHeld`).
What was typed is what was read and what waits, but for the answers to cursor queries,
each of which is whole or cut at its end by a full queue (`In`, `Whole`); what was
sent is what came out and a held beginning of a query, with the queries answered taken
out (`Out`, `Only`).

`WhpUart`. `RxInv`: what was read followed by what waits in the receive register, the
FIFO and the staging queue is what was accepted, and a cause is announced by a line,
a handler on its way or a reader that has yet to look. `MarkerInv`: the matcher of the
kernel's halt message holds how much of the message the output ends with, so that a
false start such as one letter too many is resumed and not dropped; this is known only
of output in which the whole message has not come, and it is enough because the
matcher stops there.

### Frames

`NetFrames`. That a frame is in one place and comes out in order follows from where
the places lie: everything delivered comes before what waits on the device, that
before what waits on the host, and each of the three rises (`Passing`). There is one
lemma for each way a frame moves on (`PassToDevice`, `PassToGuest`, `PassThrough`)
or is dropped (`DropWaiting`, `DropPassing`, `DropAll`). KVM's poll repeats one of them
as often as there are frames or `PollLimit` allows; what holds after every turn
(`Receiving`) is carried through by `IntervalInduction`, after the recursive function
that is the loop has been shown to exist. The wake-up of HVF (`PollDue`) needs that
nothing is posted while the queue is not ready, that a pending notification is in
the pipe, and that only a socket or vmnet has a thread that owes one (`Sound`,
`HostInv`); that every used buffer is announced needs of each poll that it raises the
line with the first buffer it uses and never lowers it (`Announced`, `Polled`).

### Bytes on disk

`OverlayDisk`. `OverlayInv` adds to `OverlayExact` only the types: between two
requests the disk reads back what was promised. Within a request it does not, so
`Did` says what holds when the first descriptors are done: the bytes that may have
changed hold their old or their new value, all of them the new one if nothing has
failed; what was read was current; the sector is where the lengths add up to; and
the request still succeeds exactly if each descriptor so far is due (`Served`). One
descriptor carries it on (`TransferDid`: `ReadDid`, `WriteDid`, `GivenUp`). Because
each descriptor is a number of whole sectors, a write needs no copy of what was
there (`NothingCopied`), and a dirty sector is one that was written as a whole
(`WriteShows`). That no check wraps (`RangeIs`) is needed of `Wide` and assumed of
the file only: its size fits `off_t`, half of `Wide`, and leaves room for one sector.

### Disks, sessions, networks

`PersistentDisk`. `DiskKept` says nothing while a call is under way. `Places` says
for every place between two file operations which of the four files hold what the
call found and which hold what it made; `DataSafe` is then preserved whatever
fails and wherever the process dies, for every disk but one that a failing `access()`
hid from the call (`overlooked`). Assumed: there is a source and a size, sizes
are positive, and no disk is the value for a missing file.

`VmSession`. That a VM boots a whole image follows from what was known when its root
disk was chosen: where each call can be (`Control`), which files a name may point
to (`Names`), that nobody but its maker knows a file before it is renamed or linked
(`Private`), what is complete at each place (`Complete`, `WholeImages`), which file
a guest without an overlay writes to (`Written`), the order in which
`writeSnapshotBundle` works (`OneSnapshot`, `BundleSteps`, `BundleWhole`), and what
a session owns (`Leftovers`).

`RamSnapshot`. `SnapshotExact` speaks of the restored guest; `SnapshotInv` follows
the source to it. At every instruction the memory and the outputs of a guest are
those of its program so far (`SourceInv`, `GuestInv`). What differs from the base file
has been logged, but for the page of the code before the first instruction is fetched
from it (`LogCovers`): the host stores the program behind the log's back, and it is in
the delta because running it touches its page. The bitmap gives back what was logged
for any number of pages and any word (`DirtyPagesAre`), so the files make the memory
again (`DeltaRestores`, `RestoreInv`). No store reaches the code (`CodeStays`).

`HostNetwork`. iptables holds each rule at least as often as there are VMs that
count it among theirs, and exactly as often while no cleanup command has failed
(`RulesCounted`); one VM's `-D` therefore leaves the copy of another. Ports are
disjoint because `listen` refuses one that is taken (`PortsDisjoint`), and an
interface belongs to one VM (`OwnLink`, `LinksOwned`), unless it shares its name: a
running VM keeps its rules and ports in any case, the interface only without such a
neighbour.

### Only model-checked

- Every liveness property, and the fairness it needs: `RequestsComplete`,
  `CallsSettle`, `Completes`, `WhpLive`, `InputLive`, `OutputLive`, `HelperLive`,
  `HvfRequests` (but for its conjunct `PausedAllParked`), `Unwinds`. The prover has
  neither fairness nor `ENABLED`.

## Not modelled

Listed in `PROJECT.json` with the reason. In short: what needs the contents of
guest memory (boot tables, device tree, ELF, ext4 layout), what is an external
program or library (mount, tar, mkfs, libslirp, the hypervisors), parsing and
formatting, and devices whose registers nothing else depends on (real-time clock,
GPIO, PM timer). Within the modelled parts: a `write(2)` of a serial port that is short
or fails, a `WriteFile` to the console that fails for good (`console_writer.h:507`), the rewriting of terminal sequences
in `console_writer.h` (249-417) and of newlines in the KVM UART, `run_tty` of the
guest helper, the GIC of HVF, PIT modes other than the periodic ones, the exit
handlers' register work, the death of the process during network setup, two
processes that use one disk name, two snapshots written to one directory at once,
disk sizes in `VmSession`, the Slirp branch of `src/net.ts`, and several VMs in
one process that share the process-wide `SIGUSR1` disposition.

## Plan

Model: disk sizes in `VmSession` (who asks the guest to resize); the blob cache
(`src/oci.ts`, `src/kernel.ts`) with two concurrent users; `runCommand` of
`src/process.ts` with its timers, signals and abort; the WHP exit handlers around
`WhpIrq` and `WhpRunner` composed.

Prove: every safety invariant of a run is a theorem; what is added to the model needs
its own. `TimersExact` would gain most from wider inputs in the model (any comparator
and period).
