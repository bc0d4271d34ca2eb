----------------------------- MODULE WhpRunner -----------------------------
(***************************************************************************)
(* RunVm of the Windows backend (native/whp/backend.cc): one thread per    *)
(* vCPU (the boot vCPU runs on the calling thread, which then joins the    *)
(* others and makes the result), the watchdog and the host's commands.     *)
(* Every access to a shared atomic is a step.  WHvCancelRunVirtualProcessor*)
(* on a vCPU that is not running makes its next run return at once, so a   *)
(* cancel stays pending (external).  Host input is in WhpInput, interrupts *)
(* in WhpIrq.                                                              *)
(***************************************************************************)
EXTENDS Naturals, FiniteSets

CONSTANTS Cpus,          \* 0 is the boot vCPU
          WhpCommands,   \* commands the host issues in a run
          Timed          \* timeout_ms > 0

ASSUME WhpRunnerAssumption == Cpus \in Nat \ {0} /\ WhpCommands \in Nat /\ Timed \in BOOLEAN

VARIABLES ctl,     \* command and state words, commands issued
          cpu,     \* per vCPU: pc, locally_halted, cancel pending, finish's arguments
          dog,     \* the watchdog
          run,     \* vm_done, watchdog_timeout, watchdog_done, counts, outcome
          rootfs   \* rootfs_backed

whpVars == <<ctl, cpu, dog, run, rootfs>>
Vcpus == 0..Cpus - 1

WhpStates  == {"starting", "running", "paused", "stopping", "exited"}
WhpReasons == {"none", "host-stop", "guest-exit", "halted-console", "hlt", "other", "host-error"}
CpuPcs == {"unborn", "top", "command", "stopping", "count", "spin", "leave", "stop?", "resume", "run",
           "exit", "cas", "cancel", "ended", "spawn", "finish", "join", "state", "dogDone", "joinDog",
           "result", "returned"}

WhpTypeOK ==
  /\ ctl \in [command : {"run", "pause", "stop"}, state : WhpStates, issued : 0..WhpCommands]
  /\ cpu \in [Vcpus -> [pc : CpuPcs, halted : BOOLEAN, cancel : BOOLEAN, reason : WhpReasons,
                        ret : CpuPcs]]
  /\ dog \in {"loop", "command", "deadline", "stopping", "cas", "cancelDone", "cancelPause",
              "cancelTimeout", "ended"}
  /\ run \in [done : BOOLEAN, timeout : BOOLEAN, dogDone : BOOLEAN, paused : Nat, halted : Nat,
              reason : WhpReasons, winner : WhpReasons, error : {"none", "timeout", "fault"},
              result : WhpReasons \cup {"timeout", "fault"}]
  /\ rootfs \in BOOLEAN

WhpInit ==
  /\ ctl = [command |-> "run", state |-> "starting", issued |-> 0]
  /\ cpu = [c \in Vcpus |-> [pc |-> IF c = 0 THEN "spawn" ELSE "unborn", halted |-> FALSE,
                             cancel |-> FALSE, reason |-> "none", ret |-> "top"]]
  /\ dog = "loop"
  /\ run = [done |-> FALSE, timeout |-> FALSE, dogDone |-> FALSE, paused |-> 0, halted |-> 0,
            reason |-> "none", winner |-> "none", error |-> "none", result |-> "none"]
  /\ rootfs \in BOOLEAN

CpuAt(c, from, to) == cpu[c].pc = from /\ cpu' = [cpu EXCEPT ![c].pc = to]
CancelAll(f) == [c \in Vcpus |-> [f[c] EXCEPT !.cancel = TRUE]]

\* finish(reason), called at pc `from', going on at `ret'.
Finish(c, reason, ret) ==
  cpu' = [cpu EXCEPT ![c].pc = "cas", ![c].reason = reason, ![c].ret = ret]

Returns(c) == [cpu EXCEPT ![c].pc = cpu[c].ret, ![c].reason = "none", ![c].ret = "top"]

Cas(c) ==
  /\ cpu[c].pc = "cas"
  /\ IF run.done
     THEN cpu' = Returns(c) /\ UNCHANGED run
     ELSE /\ cpu' = [cpu EXCEPT ![c].pc = "cancel"]
          /\ run' = [run EXCEPT !.done = TRUE, !.winner = cpu[c].reason]
  /\ UNCHANGED <<ctl, dog, rootfs>>
\* The reason under result_mu, then cancel_all and wake_halted_vcpus.
PublishAndCancel(c) ==
  /\ cpu[c].pc = "cancel"
  /\ run' = [run EXCEPT !.reason = cpu[c].reason]
  /\ cpu' = CancelAll(Returns(c))
  /\ UNCHANGED <<ctl, dog, rootfs>>

\* record_error keeps the first message, then finishes; the vCPU's loop is over.
LoopEnd(c) == IF c = 0 THEN "finish" ELSE "ended"
record_error(c, kind) ==
  /\ run' = [run EXCEPT !.error = IF @ = "none" THEN kind ELSE @]
  /\ Finish(c, "host-error", LoopEnd(c))

-----------------------------------------------------------------------------
\* vcpu_loop

Top(c) == /\ CpuAt(c, "top", IF run.done THEN LoopEnd(c) ELSE "command")
          /\ UNCHANGED <<ctl, dog, run, rootfs>>

AfterPause(c) == IF cpu[c].halted THEN "top" ELSE "run"
ReadCommand(c) ==
  /\ CpuAt(c, "command", CASE ctl.command = "stop" -> "stopping"
                           [] ctl.command = "pause" -> "count"
                           [] OTHER -> AfterPause(c))
  /\ UNCHANGED <<ctl, dog, run, rootfs>>

Stopping(c) ==
  /\ cpu[c].pc = "stopping"
  /\ ctl' = [ctl EXCEPT !.state = "stopping"] /\ Finish(c, "host-stop", LoopEnd(c))
  /\ UNCHANGED <<dog, run, rootfs>>

PauseCount(c) ==
  /\ CpuAt(c, "count", "spin")
  /\ run' = [run EXCEPT !.paused = @ + 1]
  /\ ctl' = IF run.paused + 1 = Cpus THEN [ctl EXCEPT !.state = "paused"] ELSE ctl
  /\ UNCHANGED <<dog, rootfs>>

PauseSpin(c) == /\ ctl.command # "pause" \/ run.done \/ run.timeout
                /\ CpuAt(c, "spin", "leave")
                /\ UNCHANGED <<ctl, dog, run, rootfs>>

\* Plausible bug: a vCPU that leaves the pause is not taken off the count.
PauseLeave_NoSub(c) == CpuAt(c, "leave", "stop?") /\ UNCHANGED <<ctl, dog, run, rootfs>>
PauseLeave(c) ==
  /\ CpuAt(c, "leave", "stop?") /\ run' = [run EXCEPT !.paused = @ - 1]
  /\ UNCHANGED <<ctl, dog, rootfs>>
PauseStop(c) ==
  /\ CpuAt(c, "stop?", IF ctl.command = "stop" THEN "stopping" ELSE "resume")
  /\ UNCHANGED <<ctl, dog, run, rootfs>>
\* The command is not read again: the vCPU goes on into the guest.
PauseResume(c) ==
  /\ CpuAt(c, "resume", AfterPause(c))
  /\ ctl' = IF run.done THEN ctl ELSE [ctl EXCEPT !.state = "running"]
  /\ UNCHANGED <<dog, run, rootfs>>

\* WHvRunVirtualProcessor returns: with a pending cancel whatever the guest
\* does, or with an exit of the guest.  watchdog_timeout is looked at first.
RunFails(c) ==
  /\ cpu[c].pc = "run" /\ record_error(c, IF run.timeout THEN "timeout" ELSE "fault")
  /\ UNCHANGED <<ctl, dog, rootfs>>
RunCanceled(c) ==
  /\ cpu[c].pc = "run" /\ cpu[c].cancel
  /\ cpu' = [cpu EXCEPT ![c].pc = "exit", ![c].cancel = FALSE, ![c].reason = "none"]
  /\ UNCHANGED <<ctl, dog, run, rootfs>>
RunExits(c) ==
  /\ cpu[c].pc = "run"
  /\ \E r \in {"none", "hlt", "guest-exit", "halted-console", "other"} :
       cpu' = [cpu EXCEPT ![c].pc = "exit", ![c].reason = r]
  /\ UNCHANGED <<ctl, dog, run, rootfs>>

\* "none" stands for the exits that go round the loop (ports, MMIO, EOI, CPUID,
\* MSR, interrupt window, Canceled); HLT of a guest with a root disk waits for a
\* wake or 50 ms and does the same.
ExitHandled(c) ==
  /\ cpu[c].pc = "exit"
  /\ LET r == cpu[c].reason
         loops == r = "none" \/ (r = "hlt" /\ rootfs)
     IN  CASE run.timeout -> record_error(c, "timeout")
           [] ~run.timeout /\ loops ->
                cpu' = [cpu EXCEPT ![c].pc = "top", ![c].reason = "none"] /\ UNCHANGED run
           [] ~run.timeout /\ r = "hlt" /\ ~rootfs ->
                /\ run' = [run EXCEPT !.halted = @ + 1]
                /\ IF run.halted + 1 = Cpus
                   THEN cpu' = [cpu EXCEPT ![c].pc = "cas", ![c].ret = "top", ![c].halted = TRUE]
                   ELSE cpu' = [cpu EXCEPT ![c].pc = "top", ![c].reason = "none", ![c].halted = TRUE]
           [] OTHER -> Finish(c, r, LoopEnd(c)) /\ UNCHANGED run
  /\ UNCHANGED <<ctl, dog, rootfs>>

-----------------------------------------------------------------------------
\* The calling thread before and after its vCPU loop

Spawn ==
  /\ cpu[0].pc = "spawn"
  /\ cpu' = [c \in Vcpus |-> [cpu[c] EXCEPT !.pc = "top"]]
  /\ ctl' = [ctl EXCEPT !.state = "running"]
  /\ UNCHANGED <<dog, run, rootfs>>
BootReturned == /\ cpu[0].pc = "finish" /\ Finish(0, "host-stop", "join")
                /\ UNCHANGED <<ctl, dog, run, rootfs>>
JoinAps == /\ \A c \in Vcpus \ {0} : cpu[c].pc = "ended"
           /\ CpuAt(0, "join", "state") /\ UNCHANGED <<ctl, dog, run, rootfs>>

\* make_result: state, stop_input (WhpInput), stop_watchdog, then the outcome.
SetExited == /\ CpuAt(0, "state", "dogDone") /\ ctl' = [ctl EXCEPT !.state = "exited"]
             /\ UNCHANGED <<dog, run, rootfs>>
SetDogDone == /\ CpuAt(0, "dogDone", "joinDog") /\ run' = [run EXCEPT !.dogDone = TRUE]
              /\ UNCHANGED <<ctl, dog, rootfs>>

JoinDog == /\ dog = "ended" /\ CpuAt(0, "joinDog", "result")
           /\ UNCHANGED <<ctl, dog, run, rootfs>>
MakeResult ==
  /\ CpuAt(0, "result", "returned")
  /\ run' = [run EXCEPT !.result = CASE run.error # "none" -> run.error
                                     [] run.error = "none" /\ run.timeout -> "timeout"
                                     [] OTHER -> run.reason]
  /\ UNCHANGED <<ctl, dog, rootfs>>

-----------------------------------------------------------------------------
\* The watchdog, once every 10 ms

DogStep(from, to) == dog = from /\ dog' = to /\ UNCHANGED rootfs

DogLoop == /\ DogStep("loop", IF run.dogDone THEN "ended" ELSE "command")
           /\ UNCHANGED <<ctl, cpu, run>>
DogCommand ==
  /\ DogStep("command", CASE ctl.command = "stop" -> "stopping"
                          [] ctl.command = "pause" -> "cancelPause"
                          [] OTHER -> "deadline")
  /\ UNCHANGED <<ctl, cpu, run>>
DogStopping == /\ DogStep("stopping", "cas") /\ ctl' = [ctl EXCEPT !.state = "stopping"]
               /\ UNCHANGED <<cpu, run>>
DogCas ==
  /\ DogStep("cas", IF run.done THEN "ended" ELSE "cancelDone")
  /\ run' = IF run.done THEN run ELSE [run EXCEPT !.done = TRUE, !.winner = "host-stop"]
  /\ UNCHANGED <<ctl, cpu>>
DogCancelDone == /\ DogStep("cancelDone", "ended") /\ cpu' = CancelAll(cpu)
                 /\ run' = [run EXCEPT !.reason = "host-stop"] /\ UNCHANGED ctl

DogCancelPause == /\ DogStep("cancelPause", "loop") /\ cpu' = CancelAll(cpu)
                  /\ UNCHANGED <<ctl, run>>
\* The clock is past the deadline, or not yet.
DogDeadline ==
  \/ DogStep("deadline", "loop") /\ UNCHANGED <<ctl, cpu, run>>
  \/ /\ Timed /\ DogStep("deadline", "cancelTimeout")
     /\ run' = [run EXCEPT !.timeout = TRUE] /\ UNCHANGED <<ctl, cpu>>

\* Plausible bug: the watchdog that finds the deadline passed cancels nothing.
DogCancelTimeout_No == DogStep("cancelTimeout", "ended") /\ UNCHANGED <<ctl, cpu, run>>
DogCancelTimeout == /\ DogStep("cancelTimeout", "ended") /\ cpu' = CancelAll(cpu)
                    /\ UNCHANGED <<ctl, run>>

HostIssues(c) == /\ ctl.issued < WhpCommands /\ cpu[0].pc # "returned"
                 /\ ctl' = [ctl EXCEPT !.command = c, !.issued = @ + 1]
                 /\ UNCHANGED <<cpu, dog, run, rootfs>>

VcpuRuns(c) == \/ Cas(c) \/ PublishAndCancel(c) \/ Top(c) \/ ReadCommand(c) \/ Stopping(c)
               \/ PauseCount(c) \/ PauseSpin(c) \/ PauseLeave(c) \/ PauseStop(c) \/ PauseResume(c)
               \/ RunCanceled(c) \/ ExitHandled(c)
MainRuns == Spawn \/ BootReturned \/ JoinAps \/ SetExited \/ SetDogDone \/ JoinDog \/ MakeResult
DogRuns  == \/ DogLoop \/ DogCommand \/ DogStopping \/ DogCas \/ DogCancelDone \/ DogCancelPause
            \/ DogDeadline \/ DogCancelTimeout

WhpNext == \/ \E c \in Vcpus : VcpuRuns(c) \/ RunExits(c) \/ RunFails(c)
           \/ MainRuns \/ DogRuns
           \/ \E c \in {"run", "pause", "stop"} : HostIssues(c)

WhpSpec == WhpInit /\ [][WhpNext]_whpVars

-----------------------------------------------------------------------------
WhpReturned == cpu[0].pc = "returned"

\* paused_count is the number of parked vCPUs, in every order of pauses,
\* resumes, stops, timeouts and exits: the count decides when Paused is shown.
WhpPausedCount ==
  run.paused = Cardinality({c \in Vcpus : cpu[c].pc \in {"spin", "leave"}})

\* The reason RunVm reports is that of the one finish that set vm_done, and a
\* VM that ended with an error is never reported as a result.
WhpReportsWinner ==
  run.result \in WhpReasons \ {"none"} => run.result = run.winner /\ run.result # "host-error"

\* The threads capture RunVm's frame by reference: none of them outlives it.
WhpNoThreadOutlives ==
  WhpReturned => dog = "ended" /\ \A c \in Vcpus \ {0} : cpu[c].pc = "ended"

\* A stop that is not overwritten ends RunVm, a passed deadline always does:
\* one cancel is enough although a vCPU may be anywhere in its loop.
WhpStopCompletes == <>[](ctl.command = "stop") => <>[]WhpReturned
WhpTimeoutEnds   == <>[]run.timeout => <>[]WhpReturned

\* A pause that is not overwritten is published for good, or the VM ends: no
\* late resume of another vCPU replaces it.
WhpPauseCompletes == <>[](ctl.command = "pause") => <>[](ctl.state = "paused" \/ run.done)

\* The pause count is exact between its updates, the reported reason is the
\* winner's, and no thread outlives RunVm.
WhpSafe == WhpTypeOK /\ WhpPausedCount /\ WhpReportsWinner /\ WhpNoThreadOutlives

\* A stop, a timeout and a pause take effect in the end.
WhpLive == WhpStopCompletes /\ WhpTimeoutEnds /\ WhpPauseCompletes
=============================================================================
