------------------------------ MODULE VmRunner ------------------------------
(***************************************************************************)
(* The run loop of the KVM backend: native/kvm/backend.cc, RunVm.           *)
(*                                                                         *)
(* One thread per virtual CPU executes vcpu_loop; CPU Boot runs on the      *)
(* thread that called RunVm and also spawns and joins the others.  The      *)
(* watchdog thread polls the control words, the deadline and the console   *)
(* every 20 ms, and kicks the vCPUs out of KVM_RUN by setting               *)
(* immediate_exit and sending SIGUSR1 (interrupt_all).  The host writes     *)
(* words[0] (command) and reads words[1] (state) of a shared buffer.        *)
(*                                                                         *)
(* Every access to a shared word is a step of its own; what a thread does   *)
(* between two such accesses is local and is part of the step before it.    *)
(* Device emulation is reduced to what it can make the loop do: continue,   *)
(* finish or throw.                                                         *)
(***************************************************************************)
EXTENDS Naturals, FiniteSets

CONSTANTS
  CPUs,         \* the virtual CPUs
  Boot,         \* cpu_index 0
  Watchdog,     \* the watchdog thread
  Timeout,      \* timeout_ms in ticks; 0 disables the deadline
  MaxTime,      \* bound: ticks of the steady clock
  MaxCommands,  \* bound: writes of the command word by the host
  Interactive,  \* is there an input thread that can see Ctrl-C
  Net           \* is there a network device

ASSUME CpusAssumption ==
  /\ IsFiniteSet(CPUs)
  /\ Boot \in CPUs
  /\ Watchdog \notin CPUs
ASSUME BoundsAssumption == Timeout \in Nat /\ MaxTime \in Nat /\ MaxCommands \in Nat
ASSUME FlagsAssumption == Interactive \in BOOLEAN /\ Net \in BOOLEAN

VARIABLES
  command,          \* words[0], written by the host
  state,            \* words[1], written by the runner
  commands,         \* how many times the host has written the command word
  pc,               \* where each thread is
  ret,              \* where a thread continues after finish or interrupt_all
  arg,              \* the reason a thread passes to finish
  immediateExit,    \* kvm_run.immediate_exit of each vCPU
  runnerReady,      \* may the vCPU's thread be signalled
  vmDone,
  watchdogDone,
  watchdogTimeout,
  watchdogHalted,
  pausedCount,
  finalExitReason,
  errorMessage,
  hostInterruptRequested,
  inputDone,
  haltMarker,       \* has the console shown "System halted" or "Restarting system"
  handler,          \* is the SIGUSR1 handler of RunVm installed
  caught,           \* did spawning a thread throw
  result,           \* what RunVm returned or threw
  now, pausedAt, timeoutExtension,
  winner,           \* history: the reason of the finish that set vm_done
  ran               \* history: ticks during which Boot was not in its pause loop

controlVars == <<command, state, commands>>
threadVars == <<pc, ret, arg>>
kickVars == <<immediateExit, runnerReady, handler>>
flagVars == <<vmDone, watchdogDone, watchdogTimeout, watchdogHalted,
              hostInterruptRequested, inputDone, haltMarker, caught>>
outcomeVars == <<finalExitReason, errorMessage, result, winner>>
clockVars == <<now, pausedAt, timeoutExtension, ran>>
vars == <<controlVars, threadVars, kickVars, flagVars, outcomeVars, clockVars, pausedCount>>

Threads == CPUs \union {Watchdog}
APs == CPUs \ {Boot}

Commands == {"run", "pause", "stop"}
States == {"starting", "running", "paused", "stopping", "exited"}
Reasons == {"host-stop", "guest-exit", "halted-console", "hlt", "shutdown", "host-error"}
Errors == {"timeout", "fault"}
Results == {"none", "error"} \union Reasons

\* finish and interrupt_all are called by every kind of thread.
CallPCs == {"cas", "reason", "immediate", "kill"}
LoopPCs == {"thread", "top", "command", "stopping", "count", "publish", "spin",
            "leave", "extend", "recheck", "resume", "publishRun", "clear",
            "enter", "guest", "eintr", "flags", "console"}
MainPCs == {"main", "spawn", "bootDone", "join", "exited", "stopInput", "stopWatchdog",
            "joinWatchdog", "return", "returned"}
WatchdogPCs == {"loop", "interrupt?", "command?", "tap?", "paused?", "deadline?",
                "halted?", "break"}
PCs == CallPCs \union LoopPCs \union MainPCs \union WatchdogPCs
         \union {"unborn", "done"}
Rets == {"done", "bootDone", "join", "tap?", "paused?", "break"}

\* RunVm once the VM is built: the state word says Starting, the SIGUSR1
\* handler is installed and the watchdog is already polling.
Init ==
  /\ command = "run" /\ state = "starting" /\ commands = 0
  /\ pc = [t \in Threads |-> IF t = Boot THEN "main"
                             ELSE IF t = Watchdog THEN "loop" ELSE "unborn"]
  /\ ret = [t \in Threads |-> "done"]
  /\ arg = [t \in Threads |-> "host-stop"]
  /\ immediateExit = [c \in CPUs |-> FALSE]
  /\ runnerReady = [c \in CPUs |-> FALSE]
  /\ handler = TRUE
  /\ vmDone = FALSE /\ watchdogDone = FALSE
  /\ watchdogTimeout = FALSE /\ watchdogHalted = FALSE
  /\ hostInterruptRequested = FALSE /\ inputDone = FALSE
  /\ haltMarker = FALSE /\ caught = FALSE
  /\ finalExitReason = "host-stop" /\ errorMessage = "" /\ result = "none"
  /\ winner = "none"
  /\ pausedCount = 0
  /\ now = 0 /\ pausedAt = 0 /\ timeoutExtension = 0 /\ ran = 0

-----------------------------------------------------------------------------
(* Control flow helpers.                                                    *)

Goto(t, from, to) ==
  /\ pc[t] = from
  /\ pc' = [pc EXCEPT ![t] = to]
  /\ UNCHANGED <<ret, arg>>

\* What a vCPU thread does when vcpu_loop returns or throws: an application
\* processor's thread ends, the boot thread goes on in RunVm.
AfterLoop(c) == IF c = Boot THEN "bootDone" ELSE "done"

\* Call finish(reason) and continue at next.
CallFinish(t, from, reason, next) ==
  /\ pc[t] = from
  /\ pc' = [pc EXCEPT ![t] = "cas"]
  /\ arg' = [arg EXCEPT ![t] = reason]
  /\ ret' = [ret EXCEPT ![t] = next]

\* Call interrupt_all and continue at next.
CallInterruptAll(t, from, next) ==
  /\ pc[t] = from
  /\ pc' = [pc EXCEPT ![t] = "immediate"]
  /\ ret' = [ret EXCEPT ![t] = next]
  /\ UNCHANGED arg

\* An exception leaves vcpu_loop: record_error keeps the first message, then
\* finishes with "host-error".
RecordError(c, from, message) ==
  /\ CallFinish(c, from, "host-error", AfterLoop(c))
  /\ errorMessage' = IF errorMessage = "" THEN message ELSE errorMessage
  /\ UNCHANGED <<finalExitReason, result, winner>>

-----------------------------------------------------------------------------
(* finish and interrupt_all, the steps shared by all threads.               *)

\* Plausible bug: vm_done is stored without looking at its old value.
FinishCasUnchecked(t) ==
  /\ pc[t] = "cas"
  /\ pc' = [pc EXCEPT ![t] = "reason"]
  /\ vmDone' = TRUE
  /\ winner' = IF vmDone THEN winner ELSE arg[t]
  /\ UNCHANGED <<controlVars, ret, arg, kickVars, watchdogDone, watchdogTimeout,
                 watchdogHalted, hostInterruptRequested, inputDone, haltMarker,
                 caught, finalExitReason, errorMessage, result, clockVars, pausedCount>>

FinishCas(t) ==
  /\ pc[t] = "cas"
  /\ pc' = [pc EXCEPT ![t] = IF vmDone THEN ret[t] ELSE "reason"]
  /\ vmDone' = TRUE
  /\ winner' = IF vmDone THEN winner ELSE arg[t]
  /\ UNCHANGED <<controlVars, ret, arg, kickVars, watchdogDone, watchdogTimeout,
                 watchdogHalted, hostInterruptRequested, inputDone, haltMarker,
                 caught, finalExitReason, errorMessage, result, clockVars, pausedCount>>

FinishReason(t) ==
  /\ Goto(t, "reason", "immediate")
  /\ finalExitReason' = arg[t]
  /\ UNCHANGED <<controlVars, kickVars, flagVars, errorMessage, result, winner,
                 clockVars, pausedCount>>

InterruptImmediate(t) ==
  /\ Goto(t, "immediate", "kill")
  /\ immediateExit' = [c \in CPUs |-> TRUE]
  /\ UNCHANGED <<controlVars, runnerReady, handler, flagVars, outcomeVars,
                 clockVars, pausedCount>>

\* pthread_kill of every registered runner.  A thread that is inside KVM_RUN
\* leaves it with EINTR; anywhere else the empty handler runs and the signal
\* is gone.
InterruptKill(t) ==
  /\ pc[t] = "kill"
  /\ pc' = [u \in Threads |->
              IF u = t THEN ret[t]
              ELSE IF u \in CPUs /\ pc[u] = "guest" /\ runnerReady[u] THEN "eintr"
              ELSE pc[u]]
  /\ UNCHANGED <<controlVars, ret, arg, kickVars, flagVars, outcomeVars,
                 clockVars, pausedCount>>

-----------------------------------------------------------------------------
(* vcpu_loop.                                                               *)

SetRunnerThread(c) ==
  /\ Goto(c, "thread", "top")
  /\ runnerReady' = [runnerReady EXCEPT ![c] = TRUE]
  /\ UNCHANGED <<controlVars, immediateExit, handler, flagVars, outcomeVars,
                 clockVars, pausedCount>>

CheckDone(c) ==
  /\ Goto(c, "top", IF vmDone THEN AfterLoop(c) ELSE "command")
  /\ UNCHANGED <<controlVars, kickVars, flagVars, outcomeVars, clockVars, pausedCount>>

ReadCommand(c) ==
  /\ Goto(c, "command", CASE command = "stop" -> "stopping"
                          [] command = "pause" -> "count"
                          [] OTHER -> "clear")
  /\ UNCHANGED <<controlVars, kickVars, flagVars, outcomeVars, clockVars, pausedCount>>

SetStopping(c) ==
  /\ CallFinish(c, "stopping", "host-stop", AfterLoop(c))
  /\ state' = "stopping"
  /\ UNCHANGED <<command, commands, kickVars, flagVars, outcomeVars, clockVars, pausedCount>>

\* Plausible bug: the time a pause begins is not taken.
CountPausedNoClock(c) ==
  /\ Goto(c, "count", IF pausedCount + 1 = Cardinality(CPUs) THEN "publish" ELSE "spin")
  /\ pausedCount' = pausedCount + 1
  /\ UNCHANGED <<controlVars, kickVars, flagVars, outcomeVars, clockVars>>

\* paused_count.fetch_add(1) + 1 == cpus
CountPaused(c) ==
  /\ Goto(c, "count", IF pausedCount + 1 = Cardinality(CPUs) THEN "publish" ELSE "spin")
  /\ pausedCount' = pausedCount + 1
  /\ pausedAt' = IF c = Boot THEN now ELSE pausedAt
  /\ UNCHANGED <<controlVars, kickVars, flagVars, outcomeVars, now, timeoutExtension, ran>>

PublishPaused(c) ==
  /\ Goto(c, "publish", "spin")
  /\ state' = "paused"
  /\ UNCHANGED <<command, commands, kickVars, flagVars, outcomeVars, clockVars, pausedCount>>

\* One more turn of the 1 ms sleep loop.
KeepSpinning(c) == pc[c] = "spin" /\ command = "pause" /\ ~vmDone /\ UNCHANGED vars

\* Plausible bug: the path out of the loop skips the fetch_sub.
LeaveSpinCounted(c) ==
  /\ command # "pause" \/ vmDone
  /\ Goto(c, "spin", "recheck")
  /\ UNCHANGED <<controlVars, kickVars, flagVars, outcomeVars, clockVars, pausedCount>>

\* The sleep loop ends.
LeaveSpin(c) ==
  /\ command # "pause" \/ vmDone
  /\ Goto(c, "spin", "leave")
  /\ UNCHANGED <<controlVars, kickVars, flagVars, outcomeVars, clockVars, pausedCount>>

UncountPaused(c) ==
  /\ Goto(c, "leave", IF Timeout > 0 /\ c = Boot THEN "extend" ELSE "recheck")
  /\ pausedCount' = pausedCount - 1
  /\ UNCHANGED <<controlVars, kickVars, flagVars, outcomeVars, clockVars>>

ExtendDeadline(c) ==
  /\ Goto(c, "extend", "recheck")
  /\ timeoutExtension' = timeoutExtension + (now - pausedAt)
  /\ UNCHANGED <<controlVars, kickVars, flagVars, outcomeVars, now, pausedAt, ran, pausedCount>>

RecheckStop(c) ==
  /\ Goto(c, "recheck", IF command = "stop" THEN "stopping" ELSE "resume")
  /\ UNCHANGED <<controlVars, kickVars, flagVars, outcomeVars, clockVars, pausedCount>>

CheckDoneAfterPause(c) ==
  /\ Goto(c, "resume", IF vmDone THEN "clear" ELSE "publishRun")
  /\ UNCHANGED <<controlVars, kickVars, flagVars, outcomeVars, clockVars, pausedCount>>

PublishRunning(c) ==
  /\ Goto(c, "publishRun", "clear")
  /\ state' = "running"
  /\ UNCHANGED <<command, commands, kickVars, flagVars, outcomeVars, clockVars, pausedCount>>

\* net->poll_rx() runs before KVM_RUN and after EINTR; it changes nothing of
\* the loop unless it throws.
PollRxThrows(c) ==
  /\ Net /\ c = Boot
  /\ \E at \in {"clear", "flags"} : RecordError(c, at, "fault")
  /\ UNCHANGED <<controlVars, kickVars, flagVars, clockVars, pausedCount>>

ClearImmediateExit(c) ==
  /\ Goto(c, "clear", "enter")
  /\ immediateExit' = [immediateExit EXCEPT ![c] = FALSE]
  /\ UNCHANGED <<controlVars, runnerReady, handler, flagVars, outcomeVars,
                 clockVars, pausedCount>>

\* ioctl(KVM_RUN): with immediate_exit set it returns EINTR at once.
EnterKvmRun(c) ==
  /\ Goto(c, "enter", IF immediateExit[c] THEN "eintr" ELSE "guest")
  /\ UNCHANGED <<controlVars, kickVars, flagVars, outcomeVars, clockVars, pausedCount>>

\* EINTR or EAGAIN: the second clearing of immediate_exit.
HandleEintr(c) ==
  /\ Goto(c, "eintr", "flags")
  /\ immediateExit' = [immediateExit EXCEPT ![c] = FALSE]
  /\ UNCHANGED <<controlVars, runnerReady, handler, flagVars, outcomeVars,
                 clockVars, pausedCount>>

CheckWatchdogFlags(c) ==
  /\ \/ /\ watchdogHalted
        /\ CallFinish(c, "flags", "halted-console", AfterLoop(c))
        /\ UNCHANGED outcomeVars
     \/ /\ ~watchdogHalted /\ watchdogTimeout
        /\ RecordError(c, "flags", "timeout")
     \/ /\ ~watchdogHalted /\ ~watchdogTimeout
        /\ Goto(c, "flags", "top")
        /\ UNCHANGED outcomeVars
  /\ UNCHANGED <<controlVars, kickVars, flagVars, clockVars, pausedCount>>

-----------------------------------------------------------------------------
(* KVM_RUN returns: what the guest makes the vCPU do.                       *)

\* A write to the exit port (HandleIo).
GuestExit(c) ==
  /\ CallFinish(c, "guest", "guest-exit", AfterLoop(c))
  /\ UNCHANGED <<controlVars, kickVars, flagVars, outcomeVars, clockVars, pausedCount>>

\* Any other port access; a UART write may complete a halt marker.
GuestIo(c) ==
  /\ Goto(c, "guest", "console")
  /\ haltMarker' \in {haltMarker, TRUE}
  /\ UNCHANGED <<controlVars, kickVars, vmDone, watchdogDone, watchdogTimeout,
                 watchdogHalted, hostInterruptRequested, inputDone, caught,
                 outcomeVars, clockVars, pausedCount>>

\* uart.contains(...) after the port access.
CheckConsole(c) ==
  /\ \/ haltMarker /\ CallFinish(c, "console", "halted-console", AfterLoop(c))
     \/ ~haltMarker /\ Goto(c, "console", "top")
  /\ UNCHANGED <<controlVars, kickVars, flagVars, outcomeVars, clockVars, pausedCount>>

\* MMIO, interrupt window, and HLT of an application processor.
GuestOtherExit(c) ==
  /\ Goto(c, "guest", "top")
  /\ UNCHANGED <<controlVars, kickVars, flagVars, outcomeVars, clockVars, pausedCount>>

\* HLT of the boot processor; SHUTDOWN and SYSTEM_EVENT of any.
GuestStops(c) ==
  /\ \/ c = Boot /\ CallFinish(c, "guest", "hlt", AfterLoop(c))
     \/ CallFinish(c, "guest", "shutdown", AfterLoop(c))
  /\ UNCHANGED <<controlVars, kickVars, flagVars, outcomeVars, clockVars, pausedCount>>

\* INTERNAL_ERROR, FAIL_ENTRY, an unknown exit, a failing ioctl, or an
\* exception of a device handler.
GuestFault(c) ==
  /\ RecordError(c, "guest", "fault")
  /\ UNCHANGED <<controlVars, kickVars, flagVars, clockVars, pausedCount>>

-----------------------------------------------------------------------------
(* RunVm outside vcpu_loop, on the boot thread.                             *)

SetRunning ==
  /\ Goto(Boot, "main", "spawn")
  /\ state' = "running"
  /\ UNCHANGED <<command, commands, kickVars, flagVars, outcomeVars, clockVars, pausedCount>>

SpawnAp(a) ==
  /\ pc[Boot] = "spawn"
  /\ Goto(a, "unborn", "thread")
  /\ UNCHANGED <<controlVars, kickVars, flagVars, outcomeVars, clockVars, pausedCount>>

\* Every application processor has its thread: enter vcpu_loop(0).
EnterBootLoop ==
  /\ \A a \in APs : pc[a] # "unborn"
  /\ Goto(Boot, "spawn", "thread")
  /\ UNCHANGED <<controlVars, kickVars, flagVars, outcomeVars, clockVars, pausedCount>>

\* std::thread throws: the catch(...) of RunVm finishes with "host-error" and
\* joins the threads there are.
SpawnThrows ==
  /\ \E a \in APs : pc[a] = "unborn"
  /\ CallFinish(Boot, "spawn", "host-error", "join")
  /\ caught' = TRUE
  /\ UNCHANGED <<controlVars, kickVars, vmDone, watchdogDone, watchdogTimeout,
                 watchdogHalted, hostInterruptRequested, inputDone, haltMarker,
                 outcomeVars, clockVars, pausedCount>>

\* Plausible bug: "exited" is published before the other threads are joined.
BootLoopReturnedEarly ==
  /\ CallFinish(Boot, "bootDone", "host-stop", "join")
  /\ state' = "exited"
  /\ UNCHANGED <<command, commands, kickVars, flagVars, outcomeVars, clockVars, pausedCount>>

BootLoopReturned ==
  /\ CallFinish(Boot, "bootDone", "host-stop", "join")
  /\ UNCHANGED <<controlVars, kickVars, flagVars, outcomeVars, clockVars, pausedCount>>

\* Plausible bug: the application processors' threads are not joined.
JoinApsNoWait ==
  /\ Goto(Boot, "join", IF caught THEN "stopInput" ELSE "exited")
  /\ UNCHANGED <<controlVars, kickVars, flagVars, outcomeVars, clockVars, pausedCount>>

JoinAps ==
  /\ \A a \in APs : pc[a] \in {"done", "unborn"}
  /\ Goto(Boot, "join", IF caught THEN "stopInput" ELSE "exited")
  /\ UNCHANGED <<controlVars, kickVars, flagVars, outcomeVars, clockVars, pausedCount>>

SetExited ==
  /\ Goto(Boot, "exited", "stopInput")
  /\ state' = "exited"
  /\ UNCHANGED <<command, commands, kickVars, flagVars, outcomeVars, clockVars, pausedCount>>

StopInput ==
  /\ Goto(Boot, "stopInput", "stopWatchdog")
  /\ inputDone' = TRUE
  /\ UNCHANGED <<controlVars, kickVars, vmDone, watchdogDone, watchdogTimeout,
                 watchdogHalted, hostInterruptRequested, haltMarker, caught,
                 outcomeVars, clockVars, pausedCount>>

StopWatchdog ==
  /\ Goto(Boot, "stopWatchdog", "joinWatchdog")
  /\ watchdogDone' = TRUE
  /\ UNCHANGED <<controlVars, kickVars, vmDone, watchdogTimeout, watchdogHalted,
                 hostInterruptRequested, inputDone, haltMarker, caught,
                 outcomeVars, clockVars, pausedCount>>

\* Plausible bug: the disposition is restored without joining the watchdog.
JoinWatchdogNoWait ==
  /\ Goto(Boot, "joinWatchdog", "return")
  /\ handler' = FALSE
  /\ UNCHANGED <<controlVars, immediateExit, runnerReady, flagVars, outcomeVars,
                 clockVars, pausedCount>>

\* watchdog.join(), then the old SIGUSR1 disposition comes back.
JoinWatchdog ==
  /\ pc[Watchdog] = "done"
  /\ Goto(Boot, "joinWatchdog", "return")
  /\ handler' = FALSE
  /\ UNCHANGED <<controlVars, immediateExit, runnerReady, flagVars, outcomeVars,
                 clockVars, pausedCount>>

MakeResult ==
  /\ Goto(Boot, "return", "returned")
  /\ result' = IF caught \/ errorMessage # "" THEN "error" ELSE finalExitReason
  /\ UNCHANGED <<controlVars, kickVars, flagVars, finalExitReason, errorMessage,
                 winner, clockVars, pausedCount>>

-----------------------------------------------------------------------------
(* The watchdog thread: one pass of its loop per 20 ms.                     *)

WatchdogLoop ==
  /\ Goto(Watchdog, "loop", IF watchdogDone THEN "break" ELSE "interrupt?")
  /\ UNCHANGED <<controlVars, kickVars, flagVars, outcomeVars, clockVars, pausedCount>>

WatchdogCheckInterrupt ==
  /\ \/ /\ hostInterruptRequested
        /\ CallFinish(Watchdog, "interrupt?", "host-stop", "break")
     \/ /\ ~hostInterruptRequested
        /\ Goto(Watchdog, "interrupt?", "command?")
  /\ UNCHANGED <<controlVars, kickVars, flagVars, outcomeVars, clockVars, pausedCount>>

\* Plausible bug: the watchdog kicks the vCPUs for a pause only.
WatchdogCheckPauseOnly ==
  /\ \/ command = "pause" /\ CallInterruptAll(Watchdog, "command?", "tap?")
     \/ command # "pause" /\ Goto(Watchdog, "command?", "tap?")
  /\ UNCHANGED <<controlVars, kickVars, flagVars, outcomeVars, clockVars, pausedCount>>

WatchdogCheckCommand ==
  /\ \/ command # "run" /\ CallInterruptAll(Watchdog, "command?", "tap?")
     \/ command = "run" /\ Goto(Watchdog, "command?", "tap?")
  /\ UNCHANGED <<controlVars, kickVars, flagVars, outcomeVars, clockVars, pausedCount>>

\* net && net->tap_readable(): the kernel decides.
WatchdogCheckTap ==
  /\ \/ Net /\ CallInterruptAll(Watchdog, "tap?", "paused?")
     \/ Goto(Watchdog, "tap?", "paused?")
  /\ UNCHANGED <<controlVars, kickVars, flagVars, outcomeVars, clockVars, pausedCount>>

WatchdogCheckPaused ==
  /\ Goto(Watchdog, "paused?", IF command = "pause" THEN "loop" ELSE "deadline?")
  /\ UNCHANGED <<controlVars, kickVars, flagVars, outcomeVars, clockVars, pausedCount>>

WatchdogCheckDeadline ==
  LET expired == Timeout > 0 /\ now > Timeout + timeoutExtension
  IN /\ Goto(Watchdog, "deadline?", IF expired THEN "break" ELSE "halted?")
     /\ watchdogTimeout' = (watchdogTimeout \/ expired)
     /\ UNCHANGED <<controlVars, kickVars, vmDone, watchdogDone, watchdogHalted,
                    hostInterruptRequested, inputDone, haltMarker, caught,
                    outcomeVars, clockVars, pausedCount>>

WatchdogCheckHalted ==
  /\ \/ haltMarker /\ CallFinish(Watchdog, "halted?", "halted-console", "break")
     \/ ~haltMarker /\ Goto(Watchdog, "halted?", "loop")
  /\ watchdogHalted' = (watchdogHalted \/ haltMarker)
  /\ UNCHANGED <<controlVars, kickVars, vmDone, watchdogDone, watchdogTimeout,
                 hostInterruptRequested, inputDone, haltMarker, caught,
                 outcomeVars, clockVars, pausedCount>>

WatchdogBreak ==
  /\ \/ watchdogDone /\ Goto(Watchdog, "break", "done")
     \/ ~watchdogDone /\ CallInterruptAll(Watchdog, "break", "done")
  /\ UNCHANGED <<controlVars, kickVars, flagVars, outcomeVars, clockVars, pausedCount>>

-----------------------------------------------------------------------------
(* The environment.                                                         *)

\* The SDK stores a command in words[0].
HostCommand(cmd) ==
  /\ commands < MaxCommands
  /\ command' = cmd
  /\ commands' = commands + 1
  /\ UNCHANGED <<state, threadVars, kickVars, flagVars, outcomeVars, clockVars, pausedCount>>

\* The input thread reads Ctrl-C.
HostInterrupt ==
  /\ Interactive /\ ~inputDone /\ ~hostInterruptRequested
  /\ hostInterruptRequested' = TRUE
  /\ UNCHANGED <<controlVars, threadVars, kickVars, vmDone, watchdogDone,
                 watchdogTimeout, watchdogHalted, inputDone, haltMarker, caught,
                 outcomeVars, clockVars, pausedCount>>

\* Where Boot is between taking paused_at and adding the pause to the deadline.
PausePCs == {"publish", "spin", "leave", "extend"}

\* The steady clock; it matters only while there is a deadline.
Tick ==
  /\ Timeout > 0 /\ now < MaxTime /\ pc[Boot] # "returned"
  /\ now' = now + 1
  /\ ran' = IF pc[Boot] \in PausePCs THEN ran ELSE ran + 1
  /\ UNCHANGED <<controlVars, threadVars, kickVars, flagVars, outcomeVars,
                 pausedAt, timeoutExtension, pausedCount>>

-----------------------------------------------------------------------------

CallStep(t) ==
  FinishCas(t) \/ FinishReason(t) \/ InterruptImmediate(t) \/ InterruptKill(t)

VcpuStep(c) ==
  \/ SetRunnerThread(c) \/ CheckDone(c) \/ ReadCommand(c) \/ SetStopping(c)
  \/ CountPaused(c) \/ PublishPaused(c) \/ KeepSpinning(c) \/ LeaveSpin(c)
  \/ UncountPaused(c) \/ ExtendDeadline(c) \/ RecheckStop(c) \/ CheckDoneAfterPause(c)
  \/ PublishRunning(c) \/ PollRxThrows(c) \/ ClearImmediateExit(c)
  \/ EnterKvmRun(c) \/ HandleEintr(c) \/ CheckWatchdogFlags(c) \/ CheckConsole(c)

GuestStep(c) ==
  GuestExit(c) \/ GuestIo(c) \/ GuestOtherExit(c) \/ GuestStops(c) \/ GuestFault(c)

MainStep ==
  \/ SetRunning \/ (\E a \in APs : SpawnAp(a)) \/ EnterBootLoop \/ SpawnThrows
  \/ BootLoopReturned \/ JoinAps \/ SetExited \/ StopInput \/ StopWatchdog
  \/ JoinWatchdog \/ MakeResult

WatchdogStep ==
  \/ WatchdogLoop \/ WatchdogCheckInterrupt \/ WatchdogCheckCommand
  \/ WatchdogCheckTap \/ WatchdogCheckPaused \/ WatchdogCheckDeadline
  \/ WatchdogCheckHalted \/ WatchdogBreak

\* The steps of the native threads and of the guest, without the host.
RunnerNext ==
  \/ \E t \in Threads : CallStep(t)
  \/ \E c \in CPUs : VcpuStep(c) \/ GuestStep(c)
  \/ MainStep \/ WatchdogStep
  \/ HostInterrupt \/ Tick

\* RunVm has returned; nothing is left to do.
Returned == pc[Boot] = "returned" /\ UNCHANGED vars

Next == RunnerNext \/ (\E cmd \in Commands : HostCommand(cmd)) \/ Returned

Spec == Init /\ [][Next]_vars

\* The operating system schedules every host thread; the guest owes nothing.
Fairness ==
  /\ \A c \in CPUs : WF_vars(CallStep(c) \/ VcpuStep(c))
  /\ WF_vars(CallStep(Watchdog) \/ WatchdogStep)
  /\ WF_vars(MainStep)

FairSpec == Spec /\ Fairness

-----------------------------------------------------------------------------
(* Properties.                                                              *)

TypeOK ==
  /\ command \in Commands /\ state \in States /\ commands \in 0..MaxCommands
  /\ pc \in [Threads -> PCs]
  /\ ret \in [Threads -> Rets]
  /\ arg \in [Threads -> Reasons]
  /\ immediateExit \in [CPUs -> BOOLEAN]
  /\ runnerReady \in [CPUs -> BOOLEAN]
  /\ handler \in BOOLEAN /\ vmDone \in BOOLEAN /\ watchdogDone \in BOOLEAN
  /\ watchdogTimeout \in BOOLEAN /\ watchdogHalted \in BOOLEAN /\ haltMarker \in BOOLEAN
  /\ hostInterruptRequested \in BOOLEAN /\ inputDone \in BOOLEAN /\ caught \in BOOLEAN
  /\ finalExitReason \in Reasons
  /\ errorMessage \in {""} \union Errors
  /\ result \in Results
  /\ winner \in {"none"} \union Reasons
  /\ pausedCount \in Nat
  /\ now \in Nat /\ pausedAt \in Nat /\ timeoutExtension \in Nat /\ ran \in Nat
ParkedPCs == {"publish", "spin", "leave"}

\* paused_count is exactly the number of vCPU threads between its fetch_add
\* and its fetch_sub, whatever order pause, resume, stop and exits come in:
\* "paused" is published when, and only when, the count reaches cpus.
PausedCountExact == pausedCount = Cardinality({c \in CPUs : pc[c] \in ParkedPCs})

\* SIGUSR1 kills the process by default: interrupt_all may only be running
\* while RunVm's empty handler is installed (stop_watchdog restores the old
\* disposition when no thread can signal any more).
SignalsOnlyWithHandler == (\E t \in Threads : pc[t] \in CallPCs) => handler

\* The lambdas capture RunVm's stack frame by reference: when RunVm has
\* returned, every thread it started has ended.
NoThreadOutlivesRunVm ==
  pc[Boot] = "returned" =>
    /\ \A a \in APs : pc[a] \in {"done", "unborn"}
    /\ pc[Watchdog] = "done"

\* RunVm reports the reason of the one finish that set vm_done, even when that
\* thread was descheduled between the compare_exchange and the assignment of
\* final_exit_reason; and a run ended by an error never looks like a result.
ReportsTheWinner ==
  result \in Reasons => result = winner /\ result # "host-error"

\* Every tick of the steady clock is charged once, to the guest's run time or
\* to the deadline extension of the pause it fell in.
ClockAccounting ==
  now = ran + timeoutExtension
          + (IF pc[Boot] \in PausePCs THEN now - pausedAt ELSE 0)

\* No late set_state: no vCPU overwrites the Exited that RunVm stores at its end.
\* (The Exited that kvm.ts:286-288 stores when a call is aborted, while the VM still
\* runs, may be overwritten: see VmHandle.)
ExitedIsFinal == [][state = "exited" => state' = "exited"]_vars

\* The watchdog repeats interrupt_all while the command is not "run", so a
\* kick lost to a vCPU that was just about to clear immediate_exit is sent
\* again: a stop that is not overwritten makes RunVm return, unless the
\* watchdog had already left its loop because of a halt marker.
StopCompletes ==
  (<>[](command = "stop") /\ []~haltMarker) => <>(pc[Boot] = "returned")

\* In the same way a pause that is not overwritten is published, or the VM ends.
PauseCompletes ==
  <>[](command = "pause") => <>(state = "paused" \/ vmDone)

\* test: "e2e interactive Ctrl-C stops the VM from the host".  Once the input
\* thread has seen Ctrl-C, the VM ends.
CtrlCStopsVm == hostInterruptRequested ~> (pc[Boot] = "returned")

\* Under fair threads a request that is not overwritten takes effect: a stop ends
\* RunVm and a pause is published or the VM ends (command polling, kicks and the
\* watchdog).
RequestsComplete == StopCompletes /\ PauseCompletes
=============================================================================
