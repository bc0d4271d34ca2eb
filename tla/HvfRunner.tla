----------------------------- MODULE HvfRunner -----------------------------
(***************************************************************************)
(* RunVm of the macOS backend (native/hvf/backend.cc): a thread per vCPU,  *)
(* which PSCI calls of the guest power on and off, the monitor thread, the *)
(* Ctrl-] escape of the input thread, and the caller, which waits for the  *)
(* vCPUs to exist, joins them and makes the result.  Sections under        *)
(* lifecycle_mu are one step; a wait on lifecycle_cv is three (predicate   *)
(* evaluated, asleep with the mutex released, awake again), because        *)
(* request_stop notifies without the mutex.  hv_vcpus_exit on a vCPU that  *)
(* is not running makes its next hv_vcpu_run return at once (external).    *)
(*                                                                         *)
(* An exception thrown before the threads are joined destroys the mutex,   *)
(* the condition variable, the flags and the lambdas, and only then does   *)
(* ThreadJoinGuard, which was made before them, join the vCPU threads that *)
(* use them.  What such a thread does is undefined: it goes on as if the   *)
(* objects were there, never takes another step, or ends the process.      *)
(***************************************************************************)
EXTENDS Naturals, FiniteSets

CONSTANTS HvfCpus, HvfCommands, HvfTimed, CpuOns

\* RunVm refuses more than 64 vCPUs (so the other threads' numbers are free).
ASSUME HvfRunnerAssumption ==
  HvfCpus \in 1..64 /\ HvfCommands \in Nat /\ HvfTimed \in BOOLEAN /\ CpuOns \in Nat

VARIABLES hctl,  \* command and state words
          slot,  \* cpu_slots: PSCI state, start_requested, paused, live, exit pending
          at,    \* pc of every thread, and the arguments of request_stop
          life,  \* created, start_vcpus, paused_vcpus, stop_requested, thread_error, result,
                 \* and whether RunVm threw before it had joined the vCPUs
          lmu,   \* holder of lifecycle_mu between a predicate and its sleep
          seen   \* history: first reason, wakes missed, CPU_ONs granted

hvfVars == <<hctl, slot, at, life, lmu, seen>>

HCpus    == 0..HvfCpus - 1
Monitor  == 100
Input    == 101
Caller   == 102
HThreads == HCpus \cup {Monitor, Input, Caller}

HvfPcs == {"create", "waitStart", "drowsyStart", "asleepStart", "off", "drowsyOff", "asleepOff",
           "init", "top", "command", "park", "spin", "unpark", "unparked", "setRunning", "run",
           "claim", "store", "wake", "error", "dead", "ended", "never", "undone", "loop", "pause",
           "spawn", "await", "drowsyAwait", "asleepAwait", "spawnMonitor", "spawnInput", "unwind",
           "join", "joinRest", "returned"}
HvfReasons == {"none", "host-stop", "guest-exit", "trap", "hv-error", "timeout"}
PsciStates == {"Off", "OnPending", "On"}

HvfTypeOK ==
  /\ hctl \in [command : {"run", "pause", "stop"},
               state : {"starting", "running", "paused", "stopping", "exited"}, issued : 0..HvfCommands]
  /\ slot \in [HCpus -> [psci : PsciStates, start : BOOLEAN, paused : BOOLEAN, live : BOOLEAN,
                         exit : BOOLEAN]]
  /\ at \in [HThreads -> [pc : HvfPcs, reason : HvfReasons, ret : HvfPcs]]
  /\ life \in [created : 0..HvfCpus, started : BOOLEAN, paused : 0..HvfCpus, stop : BOOLEAN,
               error : BOOLEAN, resultSet : BOOLEAN, reason : HvfReasons, done : BOOLEAN, thrown : BOOLEAN]
  /\ lmu \in HThreads \cup {103}
  /\ seen \in [first : HvfReasons, missed : BOOLEAN, offWhilePausing : BOOLEAN, ons : 0..CpuOns]

Nobody == 103
HvfInit ==
  /\ hctl = [command |-> "run", state |-> "starting", issued |-> 0]
  /\ slot = [c \in HCpus |-> [psci |-> "Off", start |-> FALSE, paused |-> FALSE, live |-> FALSE,
                              exit |-> FALSE]]
  /\ at = [t \in HThreads |-> [pc |-> CASE t \in HCpus -> "create" [] t = Caller -> "spawn"
                                        [] OTHER -> "dead",
                               reason |-> "none", ret |-> "ended"]]
  /\ life = [created |-> 0, started |-> FALSE, paused |-> 0, stop |-> FALSE, error |-> FALSE,
             resultSet |-> FALSE, reason |-> "none", done |-> FALSE, thrown |-> FALSE]
  /\ lmu = Nobody
  /\ seen = [first |-> "none", missed |-> FALSE, offWhilePausing |-> FALSE, ons |-> 0]

Goes(t, from, to) == at[t].pc = from /\ at' = [at EXCEPT ![t].pc = to]
LifeFree == lmu = Nobody

\* lifecycle_cv.notify_all.
Awake(f) == [t \in HThreads |->
  CASE f[t].pc = "asleepStart" -> [f[t] EXCEPT !.pc = "waitStart"]
    [] f[t].pc = "asleepOff"   -> [f[t] EXCEPT !.pc = "off"]
    [] f[t].pc = "asleepAwait" -> [f[t] EXCEPT !.pc = "await"]
    [] OTHER -> f[t]]

Sleeps(t) ==
  /\ \/ Goes(t, "drowsyStart", "asleepStart") \/ Goes(t, "drowsyOff", "asleepOff")
     \/ Goes(t, "drowsyAwait", "asleepAwait")
  /\ lmu' = Nobody
  /\ UNCHANGED <<hctl, slot, life, seen>>

\* hv_vcpus_exit for the live vCPUs.
ExitLive(s) == [c \in HCpus |-> [s[c] EXCEPT !.exit = @ \/ s[c].live]]

-----------------------------------------------------------------------------
\* request_stop(reason), for any thread: the first reason is kept, the flag is
\* set, the sleepers are notified (without lifecycle_mu), running vCPUs exit.
RequestStop(t, reason, ret) ==
  at' = [at EXCEPT ![t] = [pc |-> "claim", reason |-> reason, ret |-> ret]]

StopClaim(t) ==
  /\ Goes(t, "claim", "store")
  /\ life' = IF life.resultSet THEN life
             ELSE [life EXCEPT !.resultSet = TRUE, !.reason = at[t].reason]
  /\ seen' = [seen EXCEPT !.first = IF life.resultSet THEN @ ELSE at[t].reason]
  /\ UNCHANGED <<hctl, slot, lmu>>

\* Plausible bug: the sleeping vCPUs are not notified.
StopNotify_Not(t) == /\ Goes(t, "store", "wake") /\ life' = [life EXCEPT !.stop = TRUE]
                     /\ UNCHANGED <<hctl, slot, lmu, seen>>
\* The flag and the notification: a predicate evaluated between them sees the flag.
StopNotify(t) ==
  /\ at[t].pc = "store"
  /\ life' = [life EXCEPT !.stop = TRUE]
  /\ at' = Awake([at EXCEPT ![t].pc = "wake"])
  /\ seen' = [seen EXCEPT !.missed = @ \/ \E u \in HThreads :
                at[u].pc \in {"drowsyStart", "drowsyOff", "drowsyAwait"}]
  /\ UNCHANGED <<hctl, slot, lmu>>
wake_all_vcpus(t) ==
  /\ at[t].pc = "wake" /\ LifeFree
  /\ slot' = ExitLive(slot)
  /\ at' = [at EXCEPT ![t] = [pc |-> at[t].ret, reason |-> "none", ret |-> "ended"]]
  /\ UNCHANGED <<hctl, life, lmu, seen>>

-----------------------------------------------------------------------------
\* vcpu_main

CreateVcpu(c) ==
  /\ at[c].pc = "create" /\ LifeFree
  /\ \/ /\ slot' = [slot EXCEPT ![c].live = TRUE, ![c].psci = IF c = 0 THEN "On" ELSE "Off"]
        /\ life' = [life EXCEPT !.created = @ + 1]
        /\ at' = Awake([at EXCEPT ![c].pc = "waitStart"])
     \/ at' = [at EXCEPT ![c].pc = "error"] /\ UNCHANGED <<slot, life>>
  /\ UNCHANGED <<hctl, lmu, seen>>

WaitStart(c) ==
  /\ LifeFree
  /\ IF life.started \/ life.stop
     THEN Goes(c, "waitStart", IF c = 0 THEN "init" ELSE "off") /\ UNCHANGED lmu
     ELSE Goes(c, "waitStart", "drowsyStart") /\ lmu' = c
  /\ UNCHANGED <<hctl, slot, life, seen>>

\* Plausible bug: the request is not consumed.
WaitPowerOn_Keep(c) ==
  /\ LifeFree /\ at[c].pc = "off"
  /\ IF life.stop THEN Goes(c, "off", "dead") /\ UNCHANGED <<slot, lmu>>
     ELSE IF slot[c].start
          THEN Goes(c, "off", "init") /\ slot' = [slot EXCEPT ![c].psci = "On"] /\ UNCHANGED lmu
          ELSE Goes(c, "off", "drowsyOff") /\ slot' = [slot EXCEPT ![c].psci = "Off"] /\ lmu' = c
  /\ UNCHANGED <<hctl, life, seen>>

\* A secondary vCPU is Off until CPU_ON asks for it.  (When it wakes it only
\* evaluates the predicate; writing Off again then changes nothing.)
WaitPowerOn(c) ==
  /\ LifeFree /\ at[c].pc = "off"
  /\ LET s == IF life.stop THEN slot ELSE [slot EXCEPT ![c].psci = "Off", ![c].paused = FALSE]
     IN  \/ life.stop /\ Goes(c, "off", "dead") /\ slot' = s /\ UNCHANGED lmu
         \/ /\ ~life.stop /\ slot[c].start /\ Goes(c, "off", "init") /\ UNCHANGED lmu
            /\ slot' = [s EXCEPT ![c].start = FALSE, ![c].psci = "On"]
         \/ /\ ~life.stop /\ ~slot[c].start /\ Goes(c, "off", "drowsyOff") /\ lmu' = c
            /\ slot' = s
  /\ UNCHANGED <<hctl, life, seen>>

InitVcpu(c) == /\ Goes(c, "init", "top") /\ hctl' = [hctl EXCEPT !.state = "running"]
               /\ UNCHANGED <<slot, life, lmu, seen>>

\* The inner loop left: the boot vCPU and a stopped VM end the thread.
LoopLeft(c) == IF life.stop \/ c = 0 THEN "dead" ELSE "off"
VcpuTop(c) == /\ Goes(c, "top", IF life.stop THEN "dead" ELSE "command")
              /\ UNCHANGED <<hctl, slot, life, lmu, seen>>
VcpuCommand(c) ==
  /\ at[c].pc = "command"
  /\ IF hctl.command = "stop"
     THEN RequestStop(c, "host-stop", "dead") /\ hctl' = [hctl EXCEPT !.state = "stopping"]
     ELSE /\ Goes(c, "command", IF hctl.command = "pause" THEN "park" ELSE "setRunning")
          /\ UNCHANGED hctl
  /\ UNCHANGED <<slot, life, lmu, seen>>

Powered == Cardinality({c \in HCpus : slot[c].psci # "Off"})

\* handle_pause_if_requested.
Park(c) ==
  /\ LifeFree /\ Goes(c, "park", "spin")
  /\ slot' = [slot EXCEPT ![c].paused = TRUE]
  /\ life' = [life EXCEPT !.paused = IF slot[c].paused THEN @ ELSE @ + 1]
  /\ hctl' = IF life'.paused >= Powered THEN [hctl EXCEPT !.state = "paused"] ELSE hctl
  /\ UNCHANGED <<lmu, seen>>
Spin(c) == /\ life.stop \/ hctl.command # "pause"
           /\ Goes(c, "spin", "unpark") /\ UNCHANGED <<hctl, slot, life, lmu, seen>>

Unpark(c) ==
  /\ LifeFree /\ Goes(c, "unpark", "unparked")
  /\ slot' = [slot EXCEPT ![c].paused = FALSE]
  /\ life' = IF slot[c].paused /\ life.paused > 0 THEN [life EXCEPT !.paused = @ - 1] ELSE life
  /\ UNCHANGED <<hctl, lmu, seen>>
Unparked(c) == /\ Goes(c, "unparked", IF life.stop THEN "dead" ELSE "setRunning")
               /\ UNCHANGED <<hctl, slot, life, lmu, seen>>
SetRunning(c) == /\ Goes(c, "setRunning", "run") /\ hctl' = [hctl EXCEPT !.state = "running"]
                 /\ UNCHANGED <<slot, life, lmu, seen>>

\* hv_vcpu_run: forced out, or an exit of the guest that goes round the loop
\* (virtual timer, WFI, handled MMIO and system registers, other PSCI calls).
RunForced(c) == /\ slot[c].exit /\ Goes(c, "run", "top")
                /\ slot' = [slot EXCEPT ![c].exit = FALSE]
                /\ UNCHANGED <<hctl, life, lmu, seen>>
RunRound(c) == Goes(c, "run", "top") /\ UNCHANGED <<hctl, slot, life, lmu, seen>>

\* Exits that stop the VM.  The exit device, SYSTEM_OFF, SYSTEM_RESET and the boot
\* vCPU's CPU_OFF go on to the next round, unhandled traps and a failing
\* hv_vcpu_run leave the loop; the reasons themselves are two of them.
RunStops(c) ==
  /\ at[c].pc = "run"
  /\ \/ RequestStop(c, "guest-exit", "top") \/ RequestStop(c, "trap", "dead")
  /\ UNCHANGED <<hctl, slot, life, lmu, seen>>

PsciCpuOn(c, target) ==
  /\ at[c].pc = "run" /\ LifeFree /\ seen.ons < CpuOns
  /\ LET refused == target = 0 \/ slot[target].psci # "Off" \/ slot[target].start
     IN  /\ ~refused
         /\ slot' = [slot EXCEPT ![target].start = TRUE, ![target].psci = "OnPending"]
         /\ at' = Awake([at EXCEPT ![c].pc = "top"])
         /\ seen' = [seen EXCEPT !.ons = @ + 1]
  /\ UNCHANGED <<hctl, life, lmu>>
PsciCpuOff(c) ==
  /\ at[c].pc = "run" /\ c # 0 /\ LifeFree
  /\ slot' = [slot EXCEPT ![c].psci = "Off", ![c].paused = FALSE]
  /\ at' = Awake([at EXCEPT ![c].pc = LoopLeft(c)])
  /\ seen' = [seen EXCEPT !.offWhilePausing = @ \/ hctl.command = "pause"]
  /\ UNCHANGED <<hctl, life, lmu>>

\* A call of the framework fails when the vCPU's registers are set or the state
\* of its virtual timer is moved.
VcpuThrows(c) == /\ Goes(c, "init", "error") \/ Goes(c, "run", "error")
                 /\ UNCHANGED <<hctl, slot, life, lmu, seen>>

\* An exception in the thread, then its end.
VcpuError(c) ==
  /\ at[c].pc = "error" /\ LifeFree
  /\ life' = [life EXCEPT !.error = TRUE] /\ RequestStop(c, "hv-error", "dead")
  /\ UNCHANGED <<hctl, slot, lmu, seen>>
VcpuDies(c) ==
  /\ LifeFree /\ Goes(c, "dead", "ended")
  /\ slot' = [slot EXCEPT ![c].live = FALSE, ![c].psci = "Off"]
  /\ UNCHANGED <<hctl, life, lmu, seen>>

-----------------------------------------------------------------------------
\* The caller

\* std::thread's constructor throws for vCPU c: that thread and the later ones are
\* never made.  (A thread that exists and has not begun is at create, too.)
SpawnVcpus == Goes(Caller, "spawn", "await") /\ UNCHANGED <<hctl, slot, life, lmu, seen>>
SpawnFails(c) ==
  /\ at[Caller].pc = "spawn" /\ \A d \in HCpus : d >= c => at[d].pc = "create"
  /\ at' = [t \in HThreads |-> CASE t = Caller -> [at[t] EXCEPT !.pc = "unwind"]
                                 [] t \in HCpus /\ t >= c -> [at[t] EXCEPT !.pc = "never"]
                                 [] OTHER -> at[t]]
  /\ life' = [life EXCEPT !.thrown = TRUE]
  /\ UNCHANGED <<hctl, slot, lmu, seen>>

AwaitCreated ==
  /\ at[Caller].pc = "await" /\ LifeFree
  /\ \/ /\ life.error /\ life' = [life EXCEPT !.thrown = TRUE]
        /\ at' = [at EXCEPT ![Caller].pc = "unwind"] /\ UNCHANGED lmu
     \/ /\ ~life.error /\ life.created = HvfCpus
        /\ life' = [life EXCEPT !.started = TRUE]
        /\ at' = Awake([at EXCEPT ![Caller].pc = "spawnMonitor"]) /\ UNCHANGED lmu
     \/ /\ ~life.error /\ life.created # HvfCpus
        /\ at' = [at EXCEPT ![Caller].pc = "drowsyAwait"] /\ lmu' = Caller /\ UNCHANGED life
  /\ UNCHANGED <<hctl, slot, seen>>

\* The two helper threads; when a constructor throws, the monitor is joined first.
SpawnHelper(h, from, to) ==
  /\ at[Caller].pc = from
  /\ \/ at' = [at EXCEPT ![Caller].pc = to, ![h].pc = "loop"] /\ UNCHANGED life
     \/ /\ at' = [at EXCEPT ![Caller].pc = "unwind"]
        /\ life' = [life EXCEPT !.thrown = TRUE, !.done = TRUE]
  /\ UNCHANGED <<hctl, slot, lmu, seen>>
SpawnMonitor == SpawnHelper(Monitor, "spawnMonitor", "spawnInput")
SpawnInput   == SpawnHelper(Input, "spawnInput", "join")

\* The locals go, then ThreadJoinGuard joins.
Unwound == /\ at[Monitor].pc \in {"ended", "dead"} /\ Goes(Caller, "unwind", "join")
           /\ UNCHANGED <<hctl, slot, life, lmu, seen>>
HvfRuns(c) == at[c].pc \notin {"ended", "never", "undone"}
UsesDestroyed ==
  /\ life.thrown /\ at[Caller].pc = "join"
  /\ \E gone \in {{c} : c \in {d \in HCpus : HvfRuns(d)}} \cup {HThreads} :
       /\ \E c \in HCpus : HvfRuns(c)
       /\ at' = [t \in HThreads |-> IF t \in gone THEN [at[t] EXCEPT !.pc = "undone"] ELSE at[t]]
  /\ UNCHANGED <<hctl, slot, life, lmu, seen>>

\* The vCPU threads, then input_done and monitor_done with their joins.
JoinVcpus ==
  /\ \A c \in HCpus : at[c].pc \in {"ended", "never"}
  /\ Goes(Caller, "join", "joinRest") /\ life' = [life EXCEPT !.done = TRUE]
  /\ UNCHANGED <<hctl, slot, lmu, seen>>
JoinRest ==
  /\ \A t \in {Monitor, Input} : at[t].pc \in {"ended", "dead"}
  /\ Goes(Caller, "joinRest", "returned") /\ hctl' = [hctl EXCEPT !.state = "exited"]
  /\ UNCHANGED <<slot, life, lmu, seen>>

\* The monitor, every 10 ms: stop, pause, timeout.  The time is read first, so a
\* deadline that passed just before a pause still counts.
MonitorTimeout == HvfTimed /\ RequestStop(Monitor, "timeout", "ended")
MonitorLoop ==
  /\ at[Monitor].pc = "loop"
  /\ CASE life.done -> Goes(Monitor, "loop", "ended") /\ UNCHANGED hctl
       [] ~life.done /\ hctl.command = "stop" ->
            RequestStop(Monitor, "host-stop", "ended") /\ hctl' = [hctl EXCEPT !.state = "stopping"]
       [] ~life.done /\ hctl.command = "pause" -> Goes(Monitor, "loop", "pause") /\ UNCHANGED hctl
       [] OTHER -> MonitorTimeout /\ UNCHANGED hctl
  /\ UNCHANGED <<slot, life, lmu, seen>>

MonitorPause == /\ LifeFree /\ at[Monitor].pc = "pause" /\ slot' = ExitLive(slot)
                /\ Goes(Monitor, "pause", "loop") \/ MonitorTimeout
                /\ UNCHANGED <<hctl, life, lmu, seen>>

\* The input thread: polls input_done every 20 ms; Ctrl-] stops the VM.
InputStep ==
  /\ at[Input].pc = "loop"
  /\ IF life.done THEN Goes(Input, "loop", "ended") ELSE RequestStop(Input, "host-stop", "ended")
  /\ UNCHANGED <<hctl, slot, life, lmu, seen>>
InputEnds == life.done /\ InputStep

\* The user's pause, resume or stop.  (Writing the command that is there changes nothing.)
HvfHost(c) == /\ hctl.issued < HvfCommands /\ c # hctl.command
              /\ at[Caller].pc \notin {"returned", "undone"}
              /\ hctl' = [hctl EXCEPT !.command = c, !.issued = @ + 1]
              /\ UNCHANGED <<slot, at, life, lmu, seen>>

CallRuns(t) == StopClaim(t) \/ StopNotify(t) \/ wake_all_vcpus(t) \/ Sleeps(t)
HvfVcpuRuns(c) ==
  \/ CallRuns(c) \/ CreateVcpu(c) \/ WaitStart(c) \/ WaitPowerOn(c) \/ InitVcpu(c) \/ VcpuTop(c)
  \/ VcpuCommand(c) \/ Park(c) \/ Spin(c) \/ Unpark(c) \/ Unparked(c) \/ SetRunning(c)
  \/ RunForced(c) \/ VcpuError(c) \/ VcpuDies(c)
CallerRuns  == \/ CallRuns(Caller) \/ SpawnVcpus \/ (\E c \in HCpus : SpawnFails(c)) \/ AwaitCreated
               \/ SpawnMonitor \/ SpawnInput \/ Unwound \/ JoinVcpus \/ JoinRest
MonitorRuns == CallRuns(Monitor) \/ MonitorLoop \/ MonitorPause

HvfNext ==
  \/ \E c \in HCpus : HvfVcpuRuns(c) \/ RunRound(c) \/ RunStops(c) \/ PsciCpuOff(c) \/ VcpuThrows(c)
  \/ \E c, target \in HCpus : PsciCpuOn(c, target)
  \/ CallerRuns \/ MonitorRuns \/ CallRuns(Input) \/ InputStep \/ UsesDestroyed
  \/ \E c \in {"run", "pause", "stop"} : HvfHost(c)

HvfSpec == HvfInit /\ [][HvfNext]_hvfVars

-----------------------------------------------------------------------------
HvfReturned == at[Caller].pc = "returned"

\* paused_vcpus is the number of slots marked paused, whatever CPU_OFF,
\* CPU_ON, resume and stop do in between.
HvfPausedCount == life.paused = Cardinality({c \in HCpus : slot[c].paused})

\* Paused is published only when every vCPU the guest has powered is parked,
\* or on its way out of a park it has not been taken off.
PausedAllParked ==
  [][hctl.state # "paused" /\ hctl'.state = "paused"
       => \A c \in HCpus : slot'[c].psci # "Off" => slot'[c].paused]_hvfVars

\* PSCI: a vCPU that executes guest code is On, a request is pending exactly
\* while AFFINITY_INFO answers OnPending, until the VM stops.
PsciSound ==
  \A c \in HCpus : ~life.stop =>
    /\ at[c].pc \in {"run", "spin", "setRunning"} => slot[c].psci = "On"
    /\ slot[c].psci = "OnPending" <=> slot[c].start

\* The reported reason is that of the first request_stop, when there is a report.
HvfFirstReason ==
  HvfReturned /\ ~life.error /\ ~life.thrown => life.reason = seen.first /\ life.reason # "none"

\* The threads use RunVm's frame: none outlives it, and none is left running when
\* RunVm returns or throws.  (That an exception destroys the frame's objects before
\* the vCPUs are joined is life.thrown; nothing here denies it.)
HvfNoThreadOutlives ==
  HvfReturned => /\ \A c \in HCpus : at[c].pc \in {"ended", "never"}
                 /\ \A h \in {Monitor, Input} : at[h].pc \in {"ended", "dead"}

\* Once stop_requested is set RunVm returns, unless the notification came
\* between a thread's test and its sleep (history missed), or a thread or a vCPU
\* could not be made.
HvfStopEnds == <>[]life.stop => <>[](HvfReturned \/ seen.missed \/ life.thrown)

\* A pause that is not overwritten is published or the VM stops, unless a vCPU
\* was powered off meanwhile: nobody then compares the count again; or unless a
\* thread could not be made.
HvfPauseCompletes ==
  <>[](hctl.command = "pause" /\ life.started) =>
    <>[](hctl.state = "paused" \/ life.stop \/ seen.offWhilePausing \/ life.thrown)

\* The counts and states behind lifecycle_mu agree, and the result is that of
\* the first request, with every thread joined.
HvfSafe == HvfTypeOK /\ HvfPausedCount /\ PsciSound /\ HvfFirstReason /\ HvfNoThreadOutlives

\* Requests do what they say: Paused means all parked, and a pause and a stop
\* take effect, up to the two missed wakes the parts name, in a VM whose threads
\* could all be made.
HvfRequests == PausedAllParked /\ HvfStopEnds /\ HvfPauseCompletes
=============================================================================
