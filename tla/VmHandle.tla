------------------------------ MODULE VmHandle ------------------------------
(***************************************************************************)
(* The handle startVm gives to SDK users (src/kvm.ts, runKvmVmControlled    *)
(* over runKvmVmAsync) composed with the run loop of VmRunner.  The handle  *)
(* lives on the JavaScript main thread, RunVm on a worker thread; they      *)
(* share the control words, and the worker posts one message when RunVm     *)
(* returns.  A call of pause, resume or stop runs to its first await in     *)
(* one step; after it the 1 ms polling of waitForState interleaves with     *)
(* everything else.                                                         *)
(***************************************************************************)
EXTENDS VmRunner

CONSTANTS
  MaxCalls,     \* bound: pause, resume and stop calls made on the handle
  Sequential,   \* does the caller await each call before it makes the next
  Abortable     \* did the caller pass an AbortSignal

ASSUME CallsAssumption == MaxCalls \in Nat /\ Sequential \in BOOLEAN /\ Abortable \in BOOLEAN

VARIABLES
  calls,    \* the sequence position -> call record, for the calls made so far
  settled,  \* has the promise "running" settled
  aborted   \* did the abort listener run

handleVars == <<calls, settled, aborted>>
allVars == <<vars, handleVars>>

Ops == {"pause", "resume", "stop"}
Made == DOMAIN calls
Waiting(i) == calls[i].phase = "waiting"
Wanted(op) == IF op = "pause" THEN "paused" ELSE "running"

HandleInit == Init /\ calls = <<>> /\ settled = FALSE /\ aborted = FALSE

Record(op, phase) ==
  calls' = [i \in 1..(Cardinality(Made) + 1) |->
              IF i \in Made THEN calls[i] ELSE [op |-> op, phase |-> phase]]

\* Bounds on the caller, who makes no call once it has aborted the run.
MayCall ==
  /\ Cardinality(Made) < MaxCalls
  /\ ~aborted
  /\ Sequential => \A i \in Made : ~Waiting(i)

\* pause() and resume(): nothing happens once the state word says exited.
PauseOrResume(op) ==
  /\ op \in {"pause", "resume"}
  /\ MayCall
  /\ IF state = "exited"
     THEN Record(op, "ended") /\ UNCHANGED command
     ELSE /\ Record(op, "waiting")
          /\ command' = IF op = "pause" THEN "pause" ELSE "run"
  /\ UNCHANGED <<state, commands, threadVars, kickVars, flagVars, outcomeVars,
                 clockVars, pausedCount, settled, aborted>>

\* Plausible bug: stop() is ignored unless the VM is running.
StopOnlyRunning ==
  /\ MayCall
  /\ Record("stop", "waiting")
  /\ command' = IF state = "running" THEN "stop" ELSE command
  /\ UNCHANGED <<state, commands, threadVars, kickVars, flagVars, outcomeVars,
                 clockVars, pausedCount, settled, aborted>>

\* stop() stores the command whatever the state and returns "running".
Stop ==
  /\ MayCall
  /\ Record("stop", "waiting")
  /\ command' = "stop"
  /\ UNCHANGED <<state, commands, threadVars, kickVars, flagVars, outcomeVars,
                 clockVars, pausedCount, settled, aborted>>

\* Plausible bug: waitForState does not wait.
PollWantedAtOnce(i) ==
  /\ Waiting(i) /\ calls[i].op # "stop"
  /\ calls' = [calls EXCEPT ![i].phase = "resolved"]
  /\ UNCHANGED <<vars, settled, aborted>>

\* waitForState finds the state it wants.
PollWanted(i) ==
  /\ Waiting(i) /\ calls[i].op # "stop"
  /\ state = Wanted(calls[i].op)
  /\ calls' = [calls EXCEPT ![i].phase = "resolved"]
  /\ UNCHANGED <<vars, settled, aborted>>

\* The VM is over: waitForState and stop() settle with "running".
PollEnded(i) ==
  /\ Waiting(i) /\ settled
  /\ calls' = [calls EXCEPT ![i].phase = "ended"]
  /\ UNCHANGED <<vars, settled, aborted>>

\* The worker's message arrives and "running" settles; its finally stores
\* Exited.
WorkerMessage ==
  /\ result # "none" /\ ~settled
  /\ settled' = TRUE
  /\ state' = "exited"
  /\ UNCHANGED <<command, commands, threadVars, kickVars, flagVars, outcomeVars,
                 clockVars, pausedCount, calls, aborted>>

\* handleAbort: worker.terminate() cannot interrupt native code, and the
\* promise settles at once.
Abort ==
  /\ Abortable /\ ~settled
  /\ settled' = TRUE /\ aborted' = TRUE
  /\ state' = "exited"
  /\ UNCHANGED <<command, commands, threadVars, kickVars, flagVars, outcomeVars,
                 clockVars, pausedCount, calls>>

HandleStep ==
  \/ \E op \in Ops : PauseOrResume(op)
  \/ Stop
  \/ \E i \in Made : PollWanted(i) \/ PollEnded(i)
  \/ WorkerMessage
  \/ Abort

HandleNext ==
  \/ RunnerNext /\ UNCHANGED handleVars
  \/ HandleStep
  \/ Returned /\ UNCHANGED handleVars

HandleSpec == HandleInit /\ [][HandleNext]_allVars

\* The event loop turns: a timer that is due and a message that was posted
\* are handled.  Whether calls are made is up to the user.
EventLoopStep == WorkerMessage \/ (\E i \in Made : PollWanted(i) \/ PollEnded(i))

HandleFairSpec ==
  /\ HandleSpec
  /\ \A c \in CPUs : WF_allVars((CallStep(c) \/ VcpuStep(c)) /\ UNCHANGED handleVars)
  /\ WF_allVars((CallStep(Watchdog) \/ WatchdogStep) /\ UNCHANGED handleVars)
  /\ WF_allVars(MainStep /\ UNCHANGED handleVars)
  /\ WF_allVars(EventLoopStep)

-----------------------------------------------------------------------------
(* Properties.                                                              *)

HandleTypeOK ==
  /\ TypeOK
  /\ \A i \in Made : /\ calls[i].op \in Ops
                     /\ calls[i].phase \in {"waiting", "resolved", "ended"}
  /\ settled \in BOOLEAN /\ aborted \in BOOLEAN

LastCall == calls[Cardinality(Made)]

\* docs: "`pause()` interrupts the runner and stops entering `KVM_RUN`".
\* Between a pause() that resolved because the VM is paused and the next call,
\* no vCPU is in the guest or about to enter it (unless the run was aborted).
PauseParksGuest ==
  (~aborted /\ Made # {} /\ LastCall.op = "pause" /\ LastCall.phase = "resolved") =>
    \A c \in CPUs : pc[c] \notin {"clear", "enter", "guest"}

\* A pause() or resume() a caller awaits always settles: the state it waits
\* for is published, or the VM ends.
PauseAndResumeSettle ==
  \A i \in 1..MaxCalls :
    (i \in Made /\ calls[i].op # "stop" /\ Waiting(i)) ~> (i \in Made /\ ~Waiting(i))

\* docs: "`stop()` exits through the same controlled channel": once stop() has
\* been called its promise settles.
StopSettles ==
  \A i \in 1..MaxCalls :
    (i \in Made /\ calls[i].op = "stop" /\ Waiting(i)) ~> (i \in Made /\ ~Waiting(i))

\* What a settled call of the handle promises about the guest, with the types of
\* the handle's state.
HandleSafe == HandleTypeOK /\ PauseParksGuest

\* Every call of the handle settles: pause and resume when the native side
\* answers or ends, stop when it ends (waitForState, the worker's message).
CallsSettle == PauseAndResumeSettle /\ StopSettles
=============================================================================
