--------------------------- MODULE VmRunnerProofs ---------------------------
(***************************************************************************)
(* Proofs about the KVM run loop, for every number of vCPUs, every deadline *)
(* and every number of host commands.                                       *)
(*                                                                         *)
(* The safety properties are proved together from IInv.  None of them is   *)
(* inductive: TypeOK needs the exact pause count (paused_count never drops  *)
(* below zero) and pausedAt <= now; the thread lifetimes need Shape (where  *)
(* a call of finish or interrupt_all returns to); what RunVm reports needs  *)
(* Outcome, the race for vm_done.  The clock and the finality of "exited"    *)
(* follow from RunInv, which adds who may extend the deadline and where the *)
(* boot thread is once "exited" is stored.                                  *)
(*                                                                         *)
(* The last part is about the SDK handle composed with the run loop.        *)
(***************************************************************************)
EXTENDS VmHandle, FiniteSetTheorems, TLAPS

USE DEF controlVars, threadVars, kickVars, flagVars, outcomeVars, clockVars

\* The boot thread after JoinAps.
JoinedPCs == {"exited", "stopInput", "stopWatchdog", "joinWatchdog", "return", "returned"}

ThreadTypes ==
  /\ pc \in [Threads -> PCs]
  /\ ret \in [Threads -> Rets]
  /\ arg \in [Threads -> Reasons]

\* An application processor's thread ends after finish; the boot thread goes
\* on to join the others.
Shape ==
  /\ \A a \in APs : ret[a] = "done"
  /\ pc[Boot] \in CallPCs => ret[Boot] \in {"bootDone", "join"}

\* What the boot thread has waited for, by the time it is past the joins.
Joined ==
  /\ pc[Boot] \in JoinedPCs => \A a \in APs : pc[a] \in {"done", "unborn"}
  /\ pc[Boot] \in {"return", "returned"} => pc[Watchdog] = "done"
  /\ handler \/ pc[Boot] \in {"return", "returned"}

Parked == {c \in CPUs : pc[c] \in ParkedPCs}

\* One thread wins the compare_exchange of vm_done; until it has stored its
\* reason, final_exit_reason is not to be trusted.
Outcome ==
  /\ vmDone => winner # "none"
  /\ ~vmDone => winner = "none"
  /\ \A t \in Threads : pc[t] = "reason" => vmDone /\ arg[t] = winner
  /\ \A t, u \in Threads : pc[t] = "reason" /\ pc[u] = "reason" => t = u
  /\ vmDone => finalExitReason = winner \/ \E t \in Threads : pc[t] = "reason"
  /\ \A t \in Threads : pc[t] \in {"cas", "reason"} /\ arg[t] = "host-error" =>
                           errorMessage # "" \/ caught
  /\ winner = "host-error" => errorMessage # "" \/ caught
  /\ pc[Boot] \in {"reason", "immediate", "kill", "join"} \union JoinedPCs => vmDone
  /\ result \in Reasons => result = winner /\ result # "host-error"

IInv ==
  /\ TypeOK
  /\ PausedCountExact
  /\ pausedAt <= now
  /\ Shape
  /\ Joined
  /\ Outcome

-----------------------------------------------------------------------------
(* Facts about the constants and the control helpers.                       *)

\* Every vCPU and the watchdog have a thread of their own.
LEMMA CpuThread ==
  /\ Boot \in CPUs /\ Boot \in Threads /\ Watchdog \in Threads
  /\ CPUs \subseteq Threads /\ Watchdog \notin CPUs /\ APs \subseteq CPUs
  BY CpusAssumption DEF Threads, APs

\* Membership of the values the actions assign.
LEMMA Members ==
  /\ Rets \subseteq PCs /\ "none" \notin Reasons
  /\ "cas" \in PCs /\ "reason" \in PCs /\ "immediate" \in PCs /\ "kill" \in PCs
  /\ "thread" \in PCs /\ "top" \in PCs /\ "command" \in PCs /\ "stopping" \in PCs
  /\ "count" \in PCs /\ "publish" \in PCs /\ "spin" \in PCs /\ "leave" \in PCs
  /\ "extend" \in PCs /\ "recheck" \in PCs /\ "resume" \in PCs /\ "publishRun" \in PCs
  /\ "clear" \in PCs /\ "enter" \in PCs /\ "guest" \in PCs /\ "eintr" \in PCs
  /\ "flags" \in PCs /\ "console" \in PCs /\ "main" \in PCs /\ "spawn" \in PCs
  /\ "join" \in PCs /\ "exited" \in PCs /\ "stopInput" \in PCs
  /\ "stopWatchdog" \in PCs /\ "joinWatchdog" \in PCs /\ "return" \in PCs
  /\ "returned" \in PCs /\ "loop" \in PCs /\ "interrupt?" \in PCs
  /\ "command?" \in PCs /\ "tap?" \in PCs /\ "paused?" \in PCs
  /\ "deadline?" \in PCs /\ "halted?" \in PCs /\ "break" \in PCs
  /\ "unborn" \in PCs /\ "done" \in PCs
  /\ {"done", "bootDone", "join", "tap?", "paused?", "break"} \subseteq Rets
  /\ {"host-stop", "guest-exit", "halted-console", "hlt", "shutdown", "host-error"}
       \subseteq Reasons
  /\ Reasons \subseteq Results /\ "error" \in Results
  /\ {"running", "paused", "stopping", "exited"} \subseteq States
  /\ {"timeout", "fault"} \subseteq Errors
  BY DEF PCs, CallPCs, LoopPCs, MainPCs, WatchdogPCs, Rets, Reasons, Results, States, Errors

\* The numeric part of TypeOK.
LEMMA Numbers ==
  ASSUME TypeOK
  PROVE /\ commands \in 0..MaxCommands /\ pausedCount \in Nat
        /\ now \in Nat /\ pausedAt \in Nat /\ timeoutExtension \in Nat /\ ran \in Nat
  BY Zenon DEF TypeOK

\* Moving one thread keeps the thread variables typed.
LEMMA GotoType ==
  ASSUME ThreadTypes, NEW t \in Threads, NEW from, NEW to \in PCs, Goto(t, from, to)
  PROVE ThreadTypes'
  BY DEF Goto, ThreadTypes

\* So does a call of finish.
LEMMA CallFinishType ==
  ASSUME ThreadTypes, NEW t \in Threads, NEW from, NEW r \in Reasons, NEW n \in Rets,
         CallFinish(t, from, r, n)
  PROVE ThreadTypes'
  BY Members DEF CallFinish, ThreadTypes

\* And a call of interrupt_all.
LEMMA CallInterruptType ==
  ASSUME ThreadTypes, NEW t \in Threads, NEW from, NEW n \in Rets,
         CallInterruptAll(t, from, n)
  PROVE ThreadTypes'
  BY Members DEF CallInterruptAll, ThreadTypes

-----------------------------------------------------------------------------
(* paused_count.                                                            *)

\* A step that leaves the parked threads and the counter alone.
LEMMA KeepCount ==
  ASSUME PausedCountExact, Parked' = Parked, pausedCount' = pausedCount
  PROVE PausedCountExact'
  BY DEF PausedCountExact, Parked

\* The fetch_add parks one more thread.
LEMMA CountPausedCount ==
  ASSUME TypeOK, PausedCountExact, NEW c \in CPUs, CountPaused(c)
  PROVE PausedCountExact'
  <1>1. Parked' = Parked \union {c} /\ c \notin Parked
    <2>1. pc \in [Threads -> PCs]
      BY DEF TypeOK
    <2>2. /\ pc[c] = "count"
          /\ pc' = [pc EXCEPT ![c] = IF pausedCount + 1 = Cardinality(CPUs)
                                     THEN "publish" ELSE "spin"]
      BY DEF CountPaused, Goto
    <2> QED
      BY <2>1, <2>2, CpuThread DEF Parked, ParkedPCs
  <1>2. IsFiniteSet(Parked)
    BY CpusAssumption, FS_Subset DEF Parked
  <1>3. Cardinality(Parked \union {c}) = Cardinality(Parked) + 1
    BY <1>1, <1>2, FS_AddElement
  <1>4. pausedCount = Cardinality(Parked)
    BY DEF PausedCountExact, Parked
  <1>5. pausedCount' = Cardinality(Parked')
    BY <1>1, <1>3, <1>4 DEF CountPaused
  <1> QED
    BY <1>5 DEF PausedCountExact, Parked

\* The fetch_sub unparks one, and there was one to unpark.
LEMMA UncountPausedCount ==
  ASSUME TypeOK, PausedCountExact, NEW c \in CPUs, UncountPaused(c)
  PROVE PausedCountExact' /\ pausedCount >= 1
  <1>1. Parked' = Parked \ {c} /\ c \in Parked
    BY CpuThread DEF UncountPaused, Goto, Parked, ParkedPCs, TypeOK
  <1>2. IsFiniteSet(Parked)
    BY CpusAssumption, FS_Subset DEF Parked
  <1>3. Cardinality(Parked \ {c}) = Cardinality(Parked) - 1
    BY <1>1, <1>2, FS_RemoveElement
  <1>4. Cardinality(Parked) \in Nat /\ Cardinality(Parked) # 0
    BY <1>1, <1>2, FS_CardinalityType, FS_EmptySet
  <1> QED
    BY <1>1, <1>3, <1>4 DEF PausedCountExact, Parked, UncountPaused

\* No other step moves a thread in or out of the counted region.
LEMMA ParkedStep ==
  ASSUME ThreadTypes, [Next]_vars
  PROVE \/ \E c \in CPUs : CountPaused(c) \/ UncountPaused(c)
        \/ Parked' = Parked /\ pausedCount' = pausedCount
  <1> USE DEF ThreadTypes
<1>1. ASSUME NEW t \in Threads, FinishCas(t) PROVE Parked' = Parked /\ pausedCount' =
    pausedCount
  BY <1>1, CpuThread DEF FinishCas, Parked, ParkedPCs, Rets
<1>2. ASSUME NEW t \in Threads, FinishReason(t) PROVE Parked' = Parked /\ pausedCount' =
    pausedCount
  BY <1>2, CpuThread DEF FinishReason, Goto, Parked, ParkedPCs
<1>3. ASSUME NEW t \in Threads, InterruptImmediate(t) PROVE Parked' = Parked /\
    pausedCount' = pausedCount
  BY <1>3, CpuThread DEF InterruptImmediate, Goto, Parked, ParkedPCs
<1>4. ASSUME NEW t \in Threads, InterruptKill(t) PROVE Parked' = Parked /\ pausedCount'
    = pausedCount
  BY <1>4, CpuThread DEF InterruptKill, Parked, ParkedPCs, Rets
<1>5. ASSUME NEW c \in CPUs, SetRunnerThread(c) PROVE Parked' = Parked /\ pausedCount' =
    pausedCount
  BY <1>5, CpuThread DEF SetRunnerThread, Goto, Parked, ParkedPCs
<1>6. ASSUME NEW c \in CPUs, CheckDone(c) PROVE Parked' = Parked /\ pausedCount' =
    pausedCount
  BY <1>6, CpuThread DEF CheckDone, Goto, AfterLoop, Parked, ParkedPCs
<1>7. ASSUME NEW c \in CPUs, ReadCommand(c) PROVE Parked' = Parked /\ pausedCount' =
    pausedCount
  BY <1>7, CpuThread DEF ReadCommand, Goto, Parked, ParkedPCs
<1>8. ASSUME NEW c \in CPUs, SetStopping(c) PROVE Parked' = Parked /\ pausedCount' =
    pausedCount
  BY <1>8, CpuThread DEF SetStopping, CallFinish, AfterLoop, Parked, ParkedPCs
<1>9. ASSUME NEW c \in CPUs, CountPaused(c) PROVE \E d \in CPUs : CountPaused(d) \/
    UncountPaused(d)
  BY <1>9
<1>10. ASSUME NEW c \in CPUs, PublishPaused(c) PROVE Parked' = Parked /\ pausedCount' =
    pausedCount
  BY <1>10, CpuThread DEF PublishPaused, Goto, Parked, ParkedPCs
<1>11. ASSUME NEW c \in CPUs, LeaveSpin(c) PROVE Parked' = Parked /\ pausedCount' =
    pausedCount
  BY <1>11, CpuThread DEF LeaveSpin, Goto, Parked, ParkedPCs
<1>12. ASSUME NEW c \in CPUs, UncountPaused(c) PROVE \E d \in CPUs : CountPaused(d) \/
    UncountPaused(d)
  BY <1>12
<1>13. ASSUME NEW c \in CPUs, ExtendDeadline(c) PROVE Parked' = Parked /\ pausedCount' =
    pausedCount
  BY <1>13, CpuThread DEF ExtendDeadline, Goto, Parked, ParkedPCs
<1>14. ASSUME NEW c \in CPUs, RecheckStop(c) PROVE Parked' = Parked /\ pausedCount' =
    pausedCount
  BY <1>14, CpuThread DEF RecheckStop, Goto, Parked, ParkedPCs
<1>15. ASSUME NEW c \in CPUs, CheckDoneAfterPause(c) PROVE Parked' = Parked /\
    pausedCount' = pausedCount
  BY <1>15, CpuThread DEF CheckDoneAfterPause, Goto, Parked, ParkedPCs
<1>16. ASSUME NEW c \in CPUs, PublishRunning(c) PROVE Parked' = Parked /\ pausedCount' =
    pausedCount
  BY <1>16, CpuThread DEF PublishRunning, Goto, Parked, ParkedPCs
<1>17. ASSUME NEW c \in CPUs, PollRxThrows(c) PROVE Parked' = Parked /\ pausedCount' =
    pausedCount
  BY <1>17, CpuThread, ZenonT(60) DEF PollRxThrows, RecordError, CallFinish, AfterLoop, Parked,
      ParkedPCs
<1>18. ASSUME NEW c \in CPUs, ClearImmediateExit(c) PROVE Parked' = Parked /\
    pausedCount' = pausedCount
  BY <1>18, CpuThread DEF ClearImmediateExit, Goto, Parked, ParkedPCs
<1>19. ASSUME NEW c \in CPUs, EnterKvmRun(c) PROVE Parked' = Parked /\ pausedCount' =
    pausedCount
  BY <1>19, CpuThread DEF EnterKvmRun, Goto, Parked, ParkedPCs
<1>20. ASSUME NEW c \in CPUs, HandleEintr(c) PROVE Parked' = Parked /\ pausedCount' =
    pausedCount
  BY <1>20, CpuThread DEF HandleEintr, Goto, Parked, ParkedPCs
<1>21. ASSUME NEW c \in CPUs, CheckWatchdogFlags(c) PROVE Parked' = Parked /\
    pausedCount' = pausedCount
  BY <1>21, CpuThread DEF CheckWatchdogFlags, Goto, CallFinish, RecordError, AfterLoop,
      Parked, ParkedPCs
<1>22. ASSUME NEW c \in CPUs, CheckConsole(c) PROVE Parked' = Parked /\ pausedCount' =
    pausedCount
  BY <1>22, CpuThread DEF CheckConsole, Goto, CallFinish, AfterLoop, Parked, ParkedPCs
<1>23. ASSUME NEW c \in CPUs, GuestExit(c) PROVE Parked' = Parked /\ pausedCount' =
    pausedCount
  BY <1>23, CpuThread DEF GuestExit, CallFinish, AfterLoop, Parked, ParkedPCs
<1>24. ASSUME NEW c \in CPUs, GuestIo(c) PROVE Parked' = Parked /\ pausedCount' =
    pausedCount
  BY <1>24, CpuThread DEF GuestIo, Goto, Parked, ParkedPCs
<1>25. ASSUME NEW c \in CPUs, GuestOtherExit(c) PROVE Parked' = Parked /\ pausedCount' =
    pausedCount
  BY <1>25, CpuThread DEF GuestOtherExit, Goto, Parked, ParkedPCs
<1>26. ASSUME NEW c \in CPUs, GuestStops(c) PROVE Parked' = Parked /\ pausedCount' =
    pausedCount
  BY <1>26, CpuThread DEF GuestStops, CallFinish, AfterLoop, Parked, ParkedPCs
<1>27. ASSUME NEW c \in CPUs, GuestFault(c) PROVE Parked' = Parked /\ pausedCount' =
    pausedCount
  BY <1>27, CpuThread DEF GuestFault, RecordError, CallFinish, AfterLoop, Parked,
      ParkedPCs
<1>28. ASSUME NEW a \in APs, SpawnAp(a) PROVE Parked' = Parked /\ pausedCount' =
    pausedCount
  BY <1>28, CpuThread DEF SpawnAp, Goto, Parked, ParkedPCs
<1>29. ASSUME SetRunning PROVE Parked' = Parked /\ pausedCount' = pausedCount
  BY <1>29, CpuThread DEF SetRunning, Goto, Parked, ParkedPCs
<1>30. ASSUME EnterBootLoop PROVE Parked' = Parked /\ pausedCount' = pausedCount
  BY <1>30, CpuThread DEF EnterBootLoop, Goto, Parked, ParkedPCs
<1>31. ASSUME SpawnThrows PROVE Parked' = Parked /\ pausedCount' = pausedCount
  BY <1>31, CpuThread DEF SpawnThrows, CallFinish, Parked, ParkedPCs
<1>32. ASSUME BootLoopReturned PROVE Parked' = Parked /\ pausedCount' = pausedCount
  BY <1>32, CpuThread DEF BootLoopReturned, CallFinish, Parked, ParkedPCs
<1>33. ASSUME JoinAps PROVE Parked' = Parked /\ pausedCount' = pausedCount
  BY <1>33, CpuThread DEF JoinAps, Goto, Parked, ParkedPCs
<1>34. ASSUME SetExited PROVE Parked' = Parked /\ pausedCount' = pausedCount
  BY <1>34, CpuThread DEF SetExited, Goto, Parked, ParkedPCs
<1>35. ASSUME StopInput PROVE Parked' = Parked /\ pausedCount' = pausedCount
  BY <1>35, CpuThread DEF StopInput, Goto, Parked, ParkedPCs
<1>36. ASSUME StopWatchdog PROVE Parked' = Parked /\ pausedCount' = pausedCount
  BY <1>36, CpuThread DEF StopWatchdog, Goto, Parked, ParkedPCs
<1>37. ASSUME JoinWatchdog PROVE Parked' = Parked /\ pausedCount' = pausedCount
  BY <1>37, CpuThread DEF JoinWatchdog, Goto, Parked, ParkedPCs
<1>38. ASSUME MakeResult PROVE Parked' = Parked /\ pausedCount' = pausedCount
  BY <1>38, CpuThread DEF MakeResult, Goto, Parked, ParkedPCs
<1>39. ASSUME WatchdogLoop PROVE Parked' = Parked /\ pausedCount' = pausedCount
  BY <1>39, CpuThread DEF WatchdogLoop, Goto, Parked, ParkedPCs
<1>40. ASSUME WatchdogCheckInterrupt PROVE Parked' = Parked /\ pausedCount' =
    pausedCount
  BY <1>40, CpuThread DEF WatchdogCheckInterrupt, Goto, CallFinish, Parked, ParkedPCs
<1>41. ASSUME WatchdogCheckCommand PROVE Parked' = Parked /\ pausedCount' = pausedCount
  BY <1>41, CpuThread DEF WatchdogCheckCommand, Goto, CallInterruptAll, Parked,
      ParkedPCs
<1>42. ASSUME WatchdogCheckTap PROVE Parked' = Parked /\ pausedCount' = pausedCount
  BY <1>42, CpuThread DEF WatchdogCheckTap, Goto, CallInterruptAll, Parked, ParkedPCs
<1>43. ASSUME WatchdogCheckPaused PROVE Parked' = Parked /\ pausedCount' = pausedCount
  BY <1>43, CpuThread DEF WatchdogCheckPaused, Goto, Parked, ParkedPCs
<1>44. ASSUME WatchdogCheckDeadline PROVE Parked' = Parked /\ pausedCount' = pausedCount
  BY <1>44, CpuThread DEF WatchdogCheckDeadline, Goto, Parked, ParkedPCs
<1>45. ASSUME WatchdogCheckHalted PROVE Parked' = Parked /\ pausedCount' = pausedCount
  BY <1>45, CpuThread DEF WatchdogCheckHalted, Goto, CallFinish, Parked, ParkedPCs
<1>46. ASSUME WatchdogBreak PROVE Parked' = Parked /\ pausedCount' = pausedCount
  BY <1>46, CpuThread DEF WatchdogBreak, Goto, CallInterruptAll, Parked, ParkedPCs
<1>47. ASSUME HostInterrupt PROVE Parked' = Parked /\ pausedCount' = pausedCount
  BY <1>47, CpuThread DEF HostInterrupt, Parked, ParkedPCs
<1>48. ASSUME Tick PROVE Parked' = Parked /\ pausedCount' = pausedCount
  BY <1>48, CpuThread DEF Tick, Parked, ParkedPCs
<1>49. ASSUME NEW cmd \in Commands, HostCommand(cmd) PROVE Parked' = Parked /\
    pausedCount' = pausedCount
  BY <1>49, CpuThread DEF HostCommand, Parked, ParkedPCs
<1>50. CASE UNCHANGED vars
  BY <1>50, CpuThread DEF vars, Parked, ParkedPCs
<1> QED
  BY <1>1, <1>2, <1>3, <1>4, <1>5, <1>6, <1>7, <1>8, <1>9, <1>10, <1>11, <1>12, <1>13,
     <1>14, <1>15, <1>16, <1>17, <1>18, <1>19, <1>20, <1>21, <1>22, <1>23, <1>24,
     <1>25, <1>26, <1>27, <1>28, <1>29, <1>30, <1>31, <1>32, <1>33, <1>34, <1>35,
     <1>36, <1>37, <1>38, <1>39, <1>40, <1>41, <1>42, <1>43, <1>44, <1>45, <1>46,
     <1>47, <1>48, <1>49, <1>50 DEF Next, RunnerNext, CallStep, VcpuStep, GuestStep,
     MainStep, WatchdogStep, Returned, KeepSpinning

\* Every step keeps paused_count exact.
LEMMA PausedCountStep ==
  ASSUME TypeOK, PausedCountExact, [Next]_vars
  PROVE PausedCountExact'
  <1>1. ThreadTypes
    BY DEF TypeOK, ThreadTypes
  <1> QED
    BY <1>1, ParkedStep, KeepCount, CountPausedCount, UncountPausedCount

-----------------------------------------------------------------------------
(* Types.                                                                   *)

\* Every step keeps TypeOK, given the exact pause count and the clock order.
LEMMA TypeStep ==
  ASSUME TypeOK, PausedCountExact, pausedAt <= now, [Next]_vars
  PROVE TypeOK'
<1>1. ASSUME NEW t \in Threads, FinishCas(t) PROVE TypeOK'
  BY <1>1, Members, CpuThread, ZenonT(60) DEF FinishCas, TypeOK
<1>2. ASSUME NEW t \in Threads, FinishReason(t) PROVE TypeOK'
  BY <1>2, Members, CpuThread, ZenonT(60) DEF FinishReason, Goto, TypeOK
<1>3. ASSUME NEW t \in Threads, InterruptImmediate(t) PROVE TypeOK'
  BY <1>3, Members, CpuThread, ZenonT(60) DEF InterruptImmediate, Goto, TypeOK
<1>4. ASSUME NEW t \in Threads, InterruptKill(t) PROVE TypeOK'
  BY <1>4, Members, CpuThread, ZenonT(60) DEF InterruptKill, TypeOK
<1>5. ASSUME NEW c \in CPUs, SetRunnerThread(c) PROVE TypeOK'
  BY <1>5, Members, CpuThread, ZenonT(60) DEF SetRunnerThread, Goto, TypeOK
<1>6. ASSUME NEW c \in CPUs, CheckDone(c) PROVE TypeOK'
  BY <1>6, Members, CpuThread, ZenonT(60) DEF CheckDone, Goto, AfterLoop, TypeOK
<1>7. ASSUME NEW c \in CPUs, ReadCommand(c) PROVE TypeOK'
  BY <1>7, Members, CpuThread, ZenonT(60) DEF ReadCommand, Goto, TypeOK
<1>8. ASSUME NEW c \in CPUs, SetStopping(c) PROVE TypeOK'
  BY <1>8, Members, CpuThread, ZenonT(60) DEF SetStopping, CallFinish, AfterLoop, TypeOK
<1>9. ASSUME NEW c \in CPUs, CountPaused(c) PROVE TypeOK'
  <2>1. ThreadTypes'
    BY <1>9, GotoType, Members, CpuThread DEF CountPaused, TypeOK, ThreadTypes
  <2>2. pausedCount' = pausedCount + 1 /\ pausedAt' \in {pausedAt, now}
    BY <1>9 DEF CountPaused
  <2>3. pausedCount' \in Nat /\ pausedAt' \in Nat
    BY <2>2, Numbers
  <2> QED
    BY <1>9, <2>1, <2>3, ZenonT(60) DEF CountPaused, TypeOK, ThreadTypes
<1>10. ASSUME NEW c \in CPUs, PublishPaused(c) PROVE TypeOK'
  BY <1>10, Members, CpuThread, ZenonT(60) DEF PublishPaused, Goto, TypeOK
<1>11. ASSUME NEW c \in CPUs, LeaveSpin(c) PROVE TypeOK'
  BY <1>11, Members, CpuThread, ZenonT(60) DEF LeaveSpin, Goto, TypeOK
<1>12. ASSUME NEW c \in CPUs, UncountPaused(c) PROVE TypeOK'
  <2>1. ThreadTypes'
    BY <1>12, GotoType, Members, CpuThread DEF UncountPaused, TypeOK, ThreadTypes
  <2>2. pausedCount' = pausedCount - 1
    BY <1>12 DEF UncountPaused
  <2>3. pausedCount' \in Nat
    BY <2>2, Numbers, <1>12, UncountPausedCount
  <2> QED
    BY <1>12, <2>1, <2>3, ZenonT(60) DEF UncountPaused, TypeOK, ThreadTypes
<1>13. ASSUME NEW c \in CPUs, ExtendDeadline(c) PROVE TypeOK'
  <2>1. ThreadTypes'
    BY <1>13, GotoType, Members, CpuThread DEF ExtendDeadline, TypeOK, ThreadTypes
  <2>2. timeoutExtension' = timeoutExtension + (now - pausedAt)
    BY <1>13 DEF ExtendDeadline
  <2>3. timeoutExtension' \in Nat
    BY <2>2, Numbers
  <2> QED
    BY <1>13, <2>1, <2>3, ZenonT(60) DEF ExtendDeadline, TypeOK, ThreadTypes
<1>14. ASSUME NEW c \in CPUs, RecheckStop(c) PROVE TypeOK'
  BY <1>14, Members, CpuThread, ZenonT(60) DEF RecheckStop, Goto, TypeOK
<1>15. ASSUME NEW c \in CPUs, CheckDoneAfterPause(c) PROVE TypeOK'
  BY <1>15, Members, CpuThread, ZenonT(60) DEF CheckDoneAfterPause, Goto, TypeOK
<1>16. ASSUME NEW c \in CPUs, PublishRunning(c) PROVE TypeOK'
  BY <1>16, Members, CpuThread, ZenonT(60) DEF PublishRunning, Goto, TypeOK
<1>17. ASSUME NEW c \in CPUs, PollRxThrows(c) PROVE TypeOK'
  <2>1. ThreadTypes'
    BY <1>17, GotoType, CallFinishType, CallInterruptType, Members, CpuThread DEF
        PollRxThrows, RecordError, AfterLoop, TypeOK, ThreadTypes
  <2>2. errorMessage' \in {""} \union Errors
    BY <1>17, Members DEF PollRxThrows, RecordError, TypeOK
  <2> QED
    BY <1>17, <2>1, <2>2, ZenonT(60) DEF PollRxThrows, RecordError, TypeOK, ThreadTypes
<1>18. ASSUME NEW c \in CPUs, ClearImmediateExit(c) PROVE TypeOK'
  BY <1>18, Members, CpuThread, ZenonT(60) DEF ClearImmediateExit, Goto, TypeOK
<1>19. ASSUME NEW c \in CPUs, EnterKvmRun(c) PROVE TypeOK'
  BY <1>19, Members, CpuThread, ZenonT(60) DEF EnterKvmRun, Goto, TypeOK
<1>20. ASSUME NEW c \in CPUs, HandleEintr(c) PROVE TypeOK'
  BY <1>20, Members, CpuThread, ZenonT(60) DEF HandleEintr, Goto, TypeOK
<1>21. ASSUME NEW c \in CPUs, CheckWatchdogFlags(c) PROVE TypeOK'
  <2>1. ThreadTypes'
    BY <1>21, GotoType, CallFinishType, CallInterruptType, Members, CpuThread DEF
        CheckWatchdogFlags, RecordError, AfterLoop, TypeOK, ThreadTypes
  <2>2. errorMessage' \in {""} \union Errors
    BY <1>21, Members DEF CheckWatchdogFlags, RecordError, TypeOK
  <2> QED
    BY <1>21, <2>1, <2>2, ZenonT(60) DEF CheckWatchdogFlags, RecordError, TypeOK, ThreadTypes
<1>22. ASSUME NEW c \in CPUs, CheckConsole(c) PROVE TypeOK'
  <2>1. ThreadTypes'
    BY <1>22, GotoType, CallFinishType, CallInterruptType, Members, CpuThread DEF
        CheckConsole, AfterLoop, TypeOK, ThreadTypes
  <2> QED
    BY <1>22, <2>1, ZenonT(60) DEF CheckConsole, TypeOK, ThreadTypes
<1>23. ASSUME NEW c \in CPUs, GuestExit(c) PROVE TypeOK'
  BY <1>23, Members, CpuThread, ZenonT(60) DEF GuestExit, CallFinish, AfterLoop, TypeOK
<1>24. ASSUME NEW c \in CPUs, GuestIo(c) PROVE TypeOK'
  <2>1. ThreadTypes'
    BY <1>24, GotoType, Members, CpuThread DEF GuestIo, TypeOK, ThreadTypes
  <2>2. haltMarker' \in BOOLEAN
    BY <1>24, Zenon DEF GuestIo, TypeOK
  <2> QED
    BY <1>24, <2>1, <2>2, ZenonT(60) DEF GuestIo, TypeOK, ThreadTypes
<1>25. ASSUME NEW c \in CPUs, GuestOtherExit(c) PROVE TypeOK'
  BY <1>25, Members, CpuThread, ZenonT(60) DEF GuestOtherExit, Goto, TypeOK
<1>26. ASSUME NEW c \in CPUs, GuestStops(c) PROVE TypeOK'
  <2>1. ThreadTypes'
    BY <1>26, GotoType, CallFinishType, CallInterruptType, Members, CpuThread DEF
        GuestStops, AfterLoop, TypeOK, ThreadTypes
  <2> QED
    BY <1>26, <2>1, ZenonT(60) DEF GuestStops, TypeOK, ThreadTypes
<1>27. ASSUME NEW c \in CPUs, GuestFault(c) PROVE TypeOK'
  BY <1>27, Members, CpuThread, ZenonT(60) DEF GuestFault, RecordError, CallFinish, AfterLoop,
      TypeOK
<1>28. ASSUME NEW a \in APs, SpawnAp(a) PROVE TypeOK'
  BY <1>28, Members, CpuThread, ZenonT(60) DEF SpawnAp, Goto, TypeOK
<1>29. ASSUME SetRunning PROVE TypeOK'
  BY <1>29, Members, CpuThread, ZenonT(60) DEF SetRunning, Goto, TypeOK
<1>30. ASSUME EnterBootLoop PROVE TypeOK'
  BY <1>30, Members, CpuThread, ZenonT(60) DEF EnterBootLoop, Goto, TypeOK
<1>31. ASSUME SpawnThrows PROVE TypeOK'
  BY <1>31, Members, CpuThread, ZenonT(60) DEF SpawnThrows, CallFinish, TypeOK
<1>32. ASSUME BootLoopReturned PROVE TypeOK'
  BY <1>32, Members, CpuThread, ZenonT(60) DEF BootLoopReturned, CallFinish, TypeOK
<1>33. ASSUME JoinAps PROVE TypeOK'
  BY <1>33, Members, CpuThread, ZenonT(60) DEF JoinAps, Goto, TypeOK
<1>34. ASSUME SetExited PROVE TypeOK'
  BY <1>34, Members, CpuThread, ZenonT(60) DEF SetExited, Goto, TypeOK
<1>35. ASSUME StopInput PROVE TypeOK'
  BY <1>35, Members, CpuThread, ZenonT(60) DEF StopInput, Goto, TypeOK
<1>36. ASSUME StopWatchdog PROVE TypeOK'
  BY <1>36, Members, CpuThread, ZenonT(60) DEF StopWatchdog, Goto, TypeOK
<1>37. ASSUME JoinWatchdog PROVE TypeOK'
  BY <1>37, Members, CpuThread, ZenonT(60) DEF JoinWatchdog, Goto, TypeOK
<1>38. ASSUME MakeResult PROVE TypeOK'
  BY <1>38, Members, CpuThread, ZenonT(60) DEF MakeResult, Goto, TypeOK
<1>39. ASSUME WatchdogLoop PROVE TypeOK'
  BY <1>39, Members, CpuThread, ZenonT(60) DEF WatchdogLoop, Goto, TypeOK
<1>40. ASSUME WatchdogCheckInterrupt PROVE TypeOK'
  <2>1. ThreadTypes'
    BY <1>40, GotoType, CallFinishType, CallInterruptType, Members, CpuThread DEF
        WatchdogCheckInterrupt, TypeOK, ThreadTypes
  <2> QED
    BY <1>40, <2>1, ZenonT(60) DEF WatchdogCheckInterrupt, TypeOK, ThreadTypes
<1>41. ASSUME WatchdogCheckCommand PROVE TypeOK'
  <2>1. ThreadTypes'
    BY <1>41, GotoType, CallFinishType, CallInterruptType, Members, CpuThread DEF
        WatchdogCheckCommand, TypeOK, ThreadTypes
  <2> QED
    BY <1>41, <2>1, ZenonT(60) DEF WatchdogCheckCommand, TypeOK, ThreadTypes
<1>42. ASSUME WatchdogCheckTap PROVE TypeOK'
  <2>1. ThreadTypes'
    BY <1>42, GotoType, CallFinishType, CallInterruptType, Members, CpuThread DEF
        WatchdogCheckTap, TypeOK, ThreadTypes
  <2> QED
    BY <1>42, <2>1, ZenonT(60) DEF WatchdogCheckTap, TypeOK, ThreadTypes
<1>43. ASSUME WatchdogCheckPaused PROVE TypeOK'
  BY <1>43, Members, CpuThread, ZenonT(60) DEF WatchdogCheckPaused, Goto, TypeOK
<1>44. ASSUME WatchdogCheckDeadline PROVE TypeOK'
  BY <1>44, Members, CpuThread, ZenonT(60) DEF WatchdogCheckDeadline, Goto, TypeOK
<1>45. ASSUME WatchdogCheckHalted PROVE TypeOK'
  <2>1. ThreadTypes'
    BY <1>45, GotoType, CallFinishType, CallInterruptType, Members, CpuThread DEF
        WatchdogCheckHalted, TypeOK, ThreadTypes
  <2> QED
    BY <1>45, <2>1, ZenonT(60) DEF WatchdogCheckHalted, TypeOK, ThreadTypes
<1>46. ASSUME WatchdogBreak PROVE TypeOK'
  <2>1. ThreadTypes'
    BY <1>46, GotoType, CallFinishType, CallInterruptType, Members, CpuThread DEF
        WatchdogBreak, TypeOK, ThreadTypes
  <2> QED
    BY <1>46, <2>1, ZenonT(60) DEF WatchdogBreak, TypeOK, ThreadTypes
<1>47. ASSUME HostInterrupt PROVE TypeOK'
  BY <1>47, Members, CpuThread DEF HostInterrupt, TypeOK
<1>48. ASSUME Tick PROVE TypeOK'
  <2>1. now' = now + 1 /\ ran' \in {ran, ran + 1}
    BY <1>48 DEF Tick
  <2>2. now' \in Nat /\ ran' \in Nat
    BY <2>1, Numbers
  <2> QED
    BY <1>48, <2>2, ZenonT(60) DEF Tick, TypeOK
<1>49. ASSUME NEW cmd \in Commands, HostCommand(cmd) PROVE TypeOK'
  <2>1. commands' = commands + 1 /\ commands < MaxCommands
    BY <1>49 DEF HostCommand
  <2>2. commands' \in 0..MaxCommands
    BY <2>1, Numbers, BoundsAssumption
  <2> QED
    BY <1>49, <2>2, ZenonT(60) DEF HostCommand, TypeOK
<1>50. CASE UNCHANGED vars
  BY <1>50, ZenonT(60) DEF vars, TypeOK
<1> QED
  BY <1>1, <1>2, <1>3, <1>4, <1>5, <1>6, <1>7, <1>8, <1>9, <1>10, <1>11, <1>12, <1>13,
     <1>14, <1>15, <1>16, <1>17, <1>18, <1>19, <1>20, <1>21, <1>22, <1>23, <1>24,
     <1>25, <1>26, <1>27, <1>28, <1>29, <1>30, <1>31, <1>32, <1>33, <1>34, <1>35,
     <1>36, <1>37, <1>38, <1>39, <1>40, <1>41, <1>42, <1>43, <1>44, <1>45, <1>46,
     <1>47, <1>48, <1>49, <1>50 DEF Next, RunnerNext, CallStep, VcpuStep, GuestStep,
     MainStep, WatchdogStep, Returned, KeepSpinning

\* paused_at is a moment of the past.
LEMMA ClockStep ==
  ASSUME TypeOK, pausedAt <= now, [Next]_vars
  PROVE (pausedAt <= now)'
<1>1. ASSUME NEW t \in Threads, FinishCas(t) PROVE (pausedAt <= now)'
  BY <1>1 DEF FinishCas
<1>2. ASSUME NEW t \in Threads, FinishReason(t) PROVE (pausedAt <= now)'
  BY <1>2 DEF FinishReason, Goto
<1>3. ASSUME NEW t \in Threads, InterruptImmediate(t) PROVE (pausedAt <= now)'
  BY <1>3 DEF InterruptImmediate, Goto
<1>4. ASSUME NEW t \in Threads, InterruptKill(t) PROVE (pausedAt <= now)'
  BY <1>4 DEF InterruptKill
<1>5. ASSUME NEW c \in CPUs, SetRunnerThread(c) PROVE (pausedAt <= now)'
  BY <1>5 DEF SetRunnerThread, Goto
<1>6. ASSUME NEW c \in CPUs, CheckDone(c) PROVE (pausedAt <= now)'
  BY <1>6 DEF CheckDone, Goto, AfterLoop
<1>7. ASSUME NEW c \in CPUs, ReadCommand(c) PROVE (pausedAt <= now)'
  BY <1>7 DEF ReadCommand, Goto
<1>8. ASSUME NEW c \in CPUs, SetStopping(c) PROVE (pausedAt <= now)'
  BY <1>8 DEF SetStopping, CallFinish, AfterLoop
<1>9. ASSUME NEW c \in CPUs, CountPaused(c) PROVE (pausedAt <= now)'
  <2>1. now' = now /\ pausedAt' \in {pausedAt, now}
    BY <1>9 DEF CountPaused
  <2> QED
    BY <2>1, Numbers
<1>10. ASSUME NEW c \in CPUs, PublishPaused(c) PROVE (pausedAt <= now)'
  BY <1>10 DEF PublishPaused, Goto
<1>11. ASSUME NEW c \in CPUs, LeaveSpin(c) PROVE (pausedAt <= now)'
  BY <1>11 DEF LeaveSpin, Goto
<1>12. ASSUME NEW c \in CPUs, UncountPaused(c) PROVE (pausedAt <= now)'
  BY <1>12 DEF UncountPaused, Goto
<1>13. ASSUME NEW c \in CPUs, ExtendDeadline(c) PROVE (pausedAt <= now)'
  BY <1>13 DEF ExtendDeadline, Goto
<1>14. ASSUME NEW c \in CPUs, RecheckStop(c) PROVE (pausedAt <= now)'
  BY <1>14 DEF RecheckStop, Goto
<1>15. ASSUME NEW c \in CPUs, CheckDoneAfterPause(c) PROVE (pausedAt <= now)'
  BY <1>15 DEF CheckDoneAfterPause, Goto
<1>16. ASSUME NEW c \in CPUs, PublishRunning(c) PROVE (pausedAt <= now)'
  BY <1>16 DEF PublishRunning, Goto
<1>17. ASSUME NEW c \in CPUs, PollRxThrows(c) PROVE (pausedAt <= now)'
  BY <1>17 DEF PollRxThrows, RecordError, CallFinish, AfterLoop
<1>18. ASSUME NEW c \in CPUs, ClearImmediateExit(c) PROVE (pausedAt <= now)'
  BY <1>18 DEF ClearImmediateExit, Goto
<1>19. ASSUME NEW c \in CPUs, EnterKvmRun(c) PROVE (pausedAt <= now)'
  BY <1>19 DEF EnterKvmRun, Goto
<1>20. ASSUME NEW c \in CPUs, HandleEintr(c) PROVE (pausedAt <= now)'
  BY <1>20 DEF HandleEintr, Goto
<1>21. ASSUME NEW c \in CPUs, CheckWatchdogFlags(c) PROVE (pausedAt <= now)'
  BY <1>21 DEF CheckWatchdogFlags, Goto, CallFinish, RecordError, AfterLoop
<1>22. ASSUME NEW c \in CPUs, CheckConsole(c) PROVE (pausedAt <= now)'
  BY <1>22 DEF CheckConsole, Goto, CallFinish, AfterLoop
<1>23. ASSUME NEW c \in CPUs, GuestExit(c) PROVE (pausedAt <= now)'
  BY <1>23 DEF GuestExit, CallFinish, AfterLoop
<1>24. ASSUME NEW c \in CPUs, GuestIo(c) PROVE (pausedAt <= now)'
  BY <1>24 DEF GuestIo, Goto
<1>25. ASSUME NEW c \in CPUs, GuestOtherExit(c) PROVE (pausedAt <= now)'
  BY <1>25 DEF GuestOtherExit, Goto
<1>26. ASSUME NEW c \in CPUs, GuestStops(c) PROVE (pausedAt <= now)'
  BY <1>26 DEF GuestStops, CallFinish, AfterLoop
<1>27. ASSUME NEW c \in CPUs, GuestFault(c) PROVE (pausedAt <= now)'
  BY <1>27 DEF GuestFault, RecordError, CallFinish, AfterLoop
<1>28. ASSUME NEW a \in APs, SpawnAp(a) PROVE (pausedAt <= now)'
  BY <1>28 DEF SpawnAp, Goto
<1>29. ASSUME SetRunning PROVE (pausedAt <= now)'
  BY <1>29 DEF SetRunning, Goto
<1>30. ASSUME EnterBootLoop PROVE (pausedAt <= now)'
  BY <1>30 DEF EnterBootLoop, Goto
<1>31. ASSUME SpawnThrows PROVE (pausedAt <= now)'
  BY <1>31 DEF SpawnThrows, CallFinish
<1>32. ASSUME BootLoopReturned PROVE (pausedAt <= now)'
  BY <1>32 DEF BootLoopReturned, CallFinish
<1>33. ASSUME JoinAps PROVE (pausedAt <= now)'
  BY <1>33 DEF JoinAps, Goto
<1>34. ASSUME SetExited PROVE (pausedAt <= now)'
  BY <1>34 DEF SetExited, Goto
<1>35. ASSUME StopInput PROVE (pausedAt <= now)'
  BY <1>35 DEF StopInput, Goto
<1>36. ASSUME StopWatchdog PROVE (pausedAt <= now)'
  BY <1>36 DEF StopWatchdog, Goto
<1>37. ASSUME JoinWatchdog PROVE (pausedAt <= now)'
  BY <1>37 DEF JoinWatchdog, Goto
<1>38. ASSUME MakeResult PROVE (pausedAt <= now)'
  BY <1>38 DEF MakeResult, Goto
<1>39. ASSUME WatchdogLoop PROVE (pausedAt <= now)'
  BY <1>39 DEF WatchdogLoop, Goto
<1>40. ASSUME WatchdogCheckInterrupt PROVE (pausedAt <= now)'
  BY <1>40 DEF WatchdogCheckInterrupt, Goto, CallFinish
<1>41. ASSUME WatchdogCheckCommand PROVE (pausedAt <= now)'
  BY <1>41 DEF WatchdogCheckCommand, Goto, CallInterruptAll
<1>42. ASSUME WatchdogCheckTap PROVE (pausedAt <= now)'
  BY <1>42 DEF WatchdogCheckTap, Goto, CallInterruptAll
<1>43. ASSUME WatchdogCheckPaused PROVE (pausedAt <= now)'
  BY <1>43 DEF WatchdogCheckPaused, Goto
<1>44. ASSUME WatchdogCheckDeadline PROVE (pausedAt <= now)'
  BY <1>44 DEF WatchdogCheckDeadline, Goto
<1>45. ASSUME WatchdogCheckHalted PROVE (pausedAt <= now)'
  BY <1>45 DEF WatchdogCheckHalted, Goto, CallFinish
<1>46. ASSUME WatchdogBreak PROVE (pausedAt <= now)'
  BY <1>46 DEF WatchdogBreak, Goto, CallInterruptAll
<1>47. ASSUME HostInterrupt PROVE (pausedAt <= now)'
  BY <1>47 DEF HostInterrupt
<1>48. ASSUME Tick PROVE (pausedAt <= now)'
  <2>1. pausedAt' = pausedAt /\ now' = now + 1
    BY <1>48 DEF Tick
  <2> QED
    BY <2>1, Numbers
<1>49. ASSUME NEW cmd \in Commands, HostCommand(cmd) PROVE (pausedAt <= now)'
  BY <1>49 DEF HostCommand
<1>50. CASE UNCHANGED vars
  BY <1>50 DEF vars
<1> QED
  BY <1>1, <1>2, <1>3, <1>4, <1>5, <1>6, <1>7, <1>8, <1>9, <1>10, <1>11, <1>12, <1>13,
     <1>14, <1>15, <1>16, <1>17, <1>18, <1>19, <1>20, <1>21, <1>22, <1>23, <1>24,
     <1>25, <1>26, <1>27, <1>28, <1>29, <1>30, <1>31, <1>32, <1>33, <1>34, <1>35,
     <1>36, <1>37, <1>38, <1>39, <1>40, <1>41, <1>42, <1>43, <1>44, <1>45, <1>46,
     <1>47, <1>48, <1>49, <1>50 DEF Next, RunnerNext, CallStep, VcpuStep, GuestStep,
     MainStep, WatchdogStep, Returned, KeepSpinning

-----------------------------------------------------------------------------
(* Thread lifetimes.                                                        *)

\* Every step keeps where finish and interrupt_all return to.
LEMMA ShapeStep ==
  ASSUME ThreadTypes, Shape, [Next]_vars
  PROVE Shape'
  <1> USE DEF ThreadTypes
<1>1. ASSUME NEW t \in Threads, FinishCas(t) PROVE Shape'
  BY <1>1, CpuThread DEF FinishCas, Shape, APs, CallPCs
<1>2. ASSUME NEW t \in Threads, FinishReason(t) PROVE Shape'
  BY <1>2, CpuThread DEF FinishReason, Goto, Shape, APs, CallPCs
<1>3. ASSUME NEW t \in Threads, InterruptImmediate(t) PROVE Shape'
  BY <1>3, CpuThread DEF InterruptImmediate, Goto, Shape, APs, CallPCs
<1>4. ASSUME NEW t \in Threads, InterruptKill(t) PROVE Shape'
  BY <1>4, CpuThread DEF InterruptKill, Shape, APs, CallPCs
<1>5. ASSUME NEW c \in CPUs, SetRunnerThread(c) PROVE Shape'
  BY <1>5, CpuThread DEF SetRunnerThread, Goto, Shape, APs, CallPCs
<1>6. ASSUME NEW c \in CPUs, CheckDone(c) PROVE Shape'
  BY <1>6, CpuThread DEF CheckDone, Goto, AfterLoop, Shape, APs, CallPCs
<1>7. ASSUME NEW c \in CPUs, ReadCommand(c) PROVE Shape'
  BY <1>7, CpuThread DEF ReadCommand, Goto, Shape, APs, CallPCs
<1>8. ASSUME NEW c \in CPUs, SetStopping(c) PROVE Shape'
  BY <1>8, CpuThread DEF SetStopping, CallFinish, AfterLoop, Shape, APs, CallPCs
<1>9. ASSUME NEW c \in CPUs, CountPaused(c) PROVE Shape'
  BY <1>9, CpuThread DEF CountPaused, Goto, Shape, APs, CallPCs
<1>10. ASSUME NEW c \in CPUs, PublishPaused(c) PROVE Shape'
  BY <1>10, CpuThread DEF PublishPaused, Goto, Shape, APs, CallPCs
<1>11. ASSUME NEW c \in CPUs, LeaveSpin(c) PROVE Shape'
  BY <1>11, CpuThread DEF LeaveSpin, Goto, Shape, APs, CallPCs
<1>12. ASSUME NEW c \in CPUs, UncountPaused(c) PROVE Shape'
  BY <1>12, CpuThread DEF UncountPaused, Goto, Shape, APs, CallPCs
<1>13. ASSUME NEW c \in CPUs, ExtendDeadline(c) PROVE Shape'
  BY <1>13, CpuThread DEF ExtendDeadline, Goto, Shape, APs, CallPCs
<1>14. ASSUME NEW c \in CPUs, RecheckStop(c) PROVE Shape'
  BY <1>14, CpuThread DEF RecheckStop, Goto, Shape, APs, CallPCs
<1>15. ASSUME NEW c \in CPUs, CheckDoneAfterPause(c) PROVE Shape'
  BY <1>15, CpuThread DEF CheckDoneAfterPause, Goto, Shape, APs, CallPCs
<1>16. ASSUME NEW c \in CPUs, PublishRunning(c) PROVE Shape'
  BY <1>16, CpuThread DEF PublishRunning, Goto, Shape, APs, CallPCs
<1>17. ASSUME NEW c \in CPUs, PollRxThrows(c) PROVE Shape'
  BY <1>17, CpuThread DEF PollRxThrows, RecordError, CallFinish, AfterLoop, Shape, APs,
      CallPCs
<1>18. ASSUME NEW c \in CPUs, ClearImmediateExit(c) PROVE Shape'
  BY <1>18, CpuThread DEF ClearImmediateExit, Goto, Shape, APs, CallPCs
<1>19. ASSUME NEW c \in CPUs, EnterKvmRun(c) PROVE Shape'
  BY <1>19, CpuThread DEF EnterKvmRun, Goto, Shape, APs, CallPCs
<1>20. ASSUME NEW c \in CPUs, HandleEintr(c) PROVE Shape'
  BY <1>20, CpuThread DEF HandleEintr, Goto, Shape, APs, CallPCs
<1>21. ASSUME NEW c \in CPUs, CheckWatchdogFlags(c) PROVE Shape'
  BY <1>21, CpuThread DEF CheckWatchdogFlags, Goto, CallFinish, RecordError, AfterLoop,
      Shape, APs, CallPCs
<1>22. ASSUME NEW c \in CPUs, CheckConsole(c) PROVE Shape'
  BY <1>22, CpuThread DEF CheckConsole, Goto, CallFinish, AfterLoop, Shape, APs, CallPCs
<1>23. ASSUME NEW c \in CPUs, GuestExit(c) PROVE Shape'
  BY <1>23, CpuThread DEF GuestExit, CallFinish, AfterLoop, Shape, APs, CallPCs
<1>24. ASSUME NEW c \in CPUs, GuestIo(c) PROVE Shape'
  BY <1>24, CpuThread DEF GuestIo, Goto, Shape, APs, CallPCs
<1>25. ASSUME NEW c \in CPUs, GuestOtherExit(c) PROVE Shape'
  BY <1>25, CpuThread DEF GuestOtherExit, Goto, Shape, APs, CallPCs
<1>26. ASSUME NEW c \in CPUs, GuestStops(c) PROVE Shape'
  BY <1>26, CpuThread DEF GuestStops, CallFinish, AfterLoop, Shape, APs, CallPCs
<1>27. ASSUME NEW c \in CPUs, GuestFault(c) PROVE Shape'
  BY <1>27, CpuThread DEF GuestFault, RecordError, CallFinish, AfterLoop, Shape, APs,
      CallPCs
<1>28. ASSUME NEW a \in APs, SpawnAp(a) PROVE Shape'
  BY <1>28, CpuThread DEF SpawnAp, Goto, Shape, APs, CallPCs
<1>29. ASSUME SetRunning PROVE Shape'
  BY <1>29, CpuThread DEF SetRunning, Goto, Shape, APs, CallPCs
<1>30. ASSUME EnterBootLoop PROVE Shape'
  BY <1>30, CpuThread DEF EnterBootLoop, Goto, Shape, APs, CallPCs
<1>31. ASSUME SpawnThrows PROVE Shape'
  BY <1>31, CpuThread DEF SpawnThrows, CallFinish, Shape, APs, CallPCs
<1>32. ASSUME BootLoopReturned PROVE Shape'
  BY <1>32, CpuThread DEF BootLoopReturned, CallFinish, Shape, APs, CallPCs
<1>33. ASSUME JoinAps PROVE Shape'
  BY <1>33, CpuThread DEF JoinAps, Goto, Shape, APs, CallPCs
<1>34. ASSUME SetExited PROVE Shape'
  BY <1>34, CpuThread DEF SetExited, Goto, Shape, APs, CallPCs
<1>35. ASSUME StopInput PROVE Shape'
  BY <1>35, CpuThread DEF StopInput, Goto, Shape, APs, CallPCs
<1>36. ASSUME StopWatchdog PROVE Shape'
  BY <1>36, CpuThread DEF StopWatchdog, Goto, Shape, APs, CallPCs
<1>37. ASSUME JoinWatchdog PROVE Shape'
  BY <1>37, CpuThread DEF JoinWatchdog, Goto, Shape, APs, CallPCs
<1>38. ASSUME MakeResult PROVE Shape'
  BY <1>38, CpuThread DEF MakeResult, Goto, Shape, APs, CallPCs
<1>39. ASSUME WatchdogLoop PROVE Shape'
  BY <1>39, CpuThread DEF WatchdogLoop, Goto, Shape, APs, CallPCs
<1>40. ASSUME WatchdogCheckInterrupt PROVE Shape'
  BY <1>40, CpuThread DEF WatchdogCheckInterrupt, Goto, CallFinish, Shape, APs, CallPCs
<1>41. ASSUME WatchdogCheckCommand PROVE Shape'
  BY <1>41, CpuThread DEF WatchdogCheckCommand, Goto, CallInterruptAll, Shape, APs,
      CallPCs
<1>42. ASSUME WatchdogCheckTap PROVE Shape'
  BY <1>42, CpuThread DEF WatchdogCheckTap, Goto, CallInterruptAll, Shape, APs, CallPCs
<1>43. ASSUME WatchdogCheckPaused PROVE Shape'
  BY <1>43, CpuThread DEF WatchdogCheckPaused, Goto, Shape, APs, CallPCs
<1>44. ASSUME WatchdogCheckDeadline PROVE Shape'
  BY <1>44, CpuThread DEF WatchdogCheckDeadline, Goto, Shape, APs, CallPCs
<1>45. ASSUME WatchdogCheckHalted PROVE Shape'
  BY <1>45, CpuThread DEF WatchdogCheckHalted, Goto, CallFinish, Shape, APs, CallPCs
<1>46. ASSUME WatchdogBreak PROVE Shape'
  BY <1>46, CpuThread DEF WatchdogBreak, Goto, CallInterruptAll, Shape, APs, CallPCs
<1>47. ASSUME HostInterrupt PROVE Shape'
  BY <1>47, CpuThread DEF HostInterrupt, Shape, APs, CallPCs
<1>48. ASSUME Tick PROVE Shape'
  BY <1>48, CpuThread DEF Tick, Shape, APs, CallPCs
<1>49. ASSUME NEW cmd \in Commands, HostCommand(cmd) PROVE Shape'
  BY <1>49, CpuThread DEF HostCommand, Shape, APs, CallPCs
<1>50. CASE UNCHANGED vars
  BY <1>50, CpuThread DEF vars, Shape, APs, CallPCs
<1> QED
  BY <1>1, <1>2, <1>3, <1>4, <1>5, <1>6, <1>7, <1>8, <1>9, <1>10, <1>11, <1>12, <1>13,
     <1>14, <1>15, <1>16, <1>17, <1>18, <1>19, <1>20, <1>21, <1>22, <1>23, <1>24,
     <1>25, <1>26, <1>27, <1>28, <1>29, <1>30, <1>31, <1>32, <1>33, <1>34, <1>35,
     <1>36, <1>37, <1>38, <1>39, <1>40, <1>41, <1>42, <1>43, <1>44, <1>45, <1>46,
     <1>47, <1>48, <1>49, <1>50 DEF Next, RunnerNext, CallStep, VcpuStep, GuestStep,
     MainStep, WatchdogStep, Returned, KeepSpinning

\* No thread that was joined comes back, and none signals after the handler
\* has been restored.
LEMMA JoinedStep ==
  ASSUME ThreadTypes, Shape, Joined, [Next]_vars
  PROVE Joined'
  <1> USE DEF ThreadTypes
<1>1. ASSUME NEW t \in Threads, FinishCas(t) PROVE Joined'
  BY <1>1, CpuThread DEF FinishCas, Joined, Shape, APs, Threads, CallPCs, JoinedPCs
<1>2. ASSUME NEW t \in Threads, FinishReason(t) PROVE Joined'
  BY <1>2, CpuThread DEF FinishReason, Goto, Joined, Shape, APs, JoinedPCs
<1>3. ASSUME NEW t \in Threads, InterruptImmediate(t) PROVE Joined'
  BY <1>3, CpuThread DEF InterruptImmediate, Goto, Joined, Shape, APs, JoinedPCs
<1>4. ASSUME NEW t \in Threads, InterruptKill(t) PROVE Joined'
  BY <1>4, CpuThread DEF InterruptKill, Joined, Shape, APs, Threads, CallPCs, JoinedPCs
<1>5. ASSUME NEW c \in CPUs, SetRunnerThread(c) PROVE Joined'
  BY <1>5, CpuThread DEF SetRunnerThread, Goto, Joined, Shape, APs, JoinedPCs
<1>6. ASSUME NEW c \in CPUs, CheckDone(c) PROVE Joined'
  BY <1>6, CpuThread DEF CheckDone, Goto, AfterLoop, Joined, Shape, APs, JoinedPCs
<1>7. ASSUME NEW c \in CPUs, ReadCommand(c) PROVE Joined'
  BY <1>7, CpuThread DEF ReadCommand, Goto, Joined, Shape, APs, JoinedPCs
<1>8. ASSUME NEW c \in CPUs, SetStopping(c) PROVE Joined'
  BY <1>8, CpuThread DEF SetStopping, CallFinish, AfterLoop, Joined, Shape, APs,
      JoinedPCs
<1>9. ASSUME NEW c \in CPUs, CountPaused(c) PROVE Joined'
  BY <1>9, CpuThread DEF CountPaused, Goto, Joined, Shape, APs, JoinedPCs
<1>10. ASSUME NEW c \in CPUs, PublishPaused(c) PROVE Joined'
  BY <1>10, CpuThread DEF PublishPaused, Goto, Joined, Shape, APs, JoinedPCs
<1>11. ASSUME NEW c \in CPUs, LeaveSpin(c) PROVE Joined'
  BY <1>11, CpuThread DEF LeaveSpin, Goto, Joined, Shape, APs, JoinedPCs
<1>12. ASSUME NEW c \in CPUs, UncountPaused(c) PROVE Joined'
  BY <1>12, CpuThread DEF UncountPaused, Goto, Joined, Shape, APs, JoinedPCs
<1>13. ASSUME NEW c \in CPUs, ExtendDeadline(c) PROVE Joined'
  BY <1>13, CpuThread DEF ExtendDeadline, Goto, Joined, Shape, APs, JoinedPCs
<1>14. ASSUME NEW c \in CPUs, RecheckStop(c) PROVE Joined'
  BY <1>14, CpuThread DEF RecheckStop, Goto, Joined, Shape, APs, JoinedPCs
<1>15. ASSUME NEW c \in CPUs, CheckDoneAfterPause(c) PROVE Joined'
  BY <1>15, CpuThread DEF CheckDoneAfterPause, Goto, Joined, Shape, APs, JoinedPCs
<1>16. ASSUME NEW c \in CPUs, PublishRunning(c) PROVE Joined'
  BY <1>16, CpuThread DEF PublishRunning, Goto, Joined, Shape, APs, JoinedPCs
<1>17. ASSUME NEW c \in CPUs, PollRxThrows(c) PROVE Joined'
  BY <1>17, CpuThread DEF PollRxThrows, RecordError, CallFinish, AfterLoop, Joined,
      Shape, APs, JoinedPCs
<1>18. ASSUME NEW c \in CPUs, ClearImmediateExit(c) PROVE Joined'
  BY <1>18, CpuThread DEF ClearImmediateExit, Goto, Joined, Shape, APs, JoinedPCs
<1>19. ASSUME NEW c \in CPUs, EnterKvmRun(c) PROVE Joined'
  BY <1>19, CpuThread DEF EnterKvmRun, Goto, Joined, Shape, APs, JoinedPCs
<1>20. ASSUME NEW c \in CPUs, HandleEintr(c) PROVE Joined'
  BY <1>20, CpuThread DEF HandleEintr, Goto, Joined, Shape, APs, JoinedPCs
<1>21. ASSUME NEW c \in CPUs, CheckWatchdogFlags(c) PROVE Joined'
  BY <1>21, CpuThread DEF CheckWatchdogFlags, Goto, CallFinish, RecordError, AfterLoop,
      Joined, Shape, APs, JoinedPCs
<1>22. ASSUME NEW c \in CPUs, CheckConsole(c) PROVE Joined'
  BY <1>22, CpuThread DEF CheckConsole, Goto, CallFinish, AfterLoop, Joined, Shape, APs,
      JoinedPCs
<1>23. ASSUME NEW c \in CPUs, GuestExit(c) PROVE Joined'
  BY <1>23, CpuThread DEF GuestExit, CallFinish, AfterLoop, Joined, Shape, APs,
      JoinedPCs
<1>24. ASSUME NEW c \in CPUs, GuestIo(c) PROVE Joined'
  BY <1>24, CpuThread DEF GuestIo, Goto, Joined, Shape, APs, JoinedPCs
<1>25. ASSUME NEW c \in CPUs, GuestOtherExit(c) PROVE Joined'
  BY <1>25, CpuThread DEF GuestOtherExit, Goto, Joined, Shape, APs, JoinedPCs
<1>26. ASSUME NEW c \in CPUs, GuestStops(c) PROVE Joined'
  BY <1>26, CpuThread DEF GuestStops, CallFinish, AfterLoop, Joined, Shape, APs,
      JoinedPCs
<1>27. ASSUME NEW c \in CPUs, GuestFault(c) PROVE Joined'
  BY <1>27, CpuThread DEF GuestFault, RecordError, CallFinish, AfterLoop, Joined, Shape,
      APs, JoinedPCs
<1>28. ASSUME NEW a \in APs, SpawnAp(a) PROVE Joined'
  BY <1>28, CpuThread DEF SpawnAp, Goto, Joined, Shape, APs, JoinedPCs
<1>29. ASSUME SetRunning PROVE Joined'
  BY <1>29, CpuThread DEF SetRunning, Goto, Joined, Shape, APs, JoinedPCs
<1>30. ASSUME EnterBootLoop PROVE Joined'
  BY <1>30, CpuThread DEF EnterBootLoop, Goto, Joined, Shape, APs, JoinedPCs
<1>31. ASSUME SpawnThrows PROVE Joined'
  BY <1>31, CpuThread DEF SpawnThrows, CallFinish, Joined, Shape, APs, JoinedPCs
<1>32. ASSUME BootLoopReturned PROVE Joined'
  BY <1>32, CpuThread DEF BootLoopReturned, CallFinish, Joined, Shape, APs, JoinedPCs
<1>33. ASSUME JoinAps PROVE Joined'
  BY <1>33, CpuThread DEF JoinAps, Goto, Joined, Shape, APs, JoinedPCs
<1>34. ASSUME SetExited PROVE Joined'
  BY <1>34, CpuThread DEF SetExited, Goto, Joined, Shape, APs, JoinedPCs
<1>35. ASSUME StopInput PROVE Joined'
  BY <1>35, CpuThread DEF StopInput, Goto, Joined, Shape, APs, JoinedPCs
<1>36. ASSUME StopWatchdog PROVE Joined'
  BY <1>36, CpuThread DEF StopWatchdog, Goto, Joined, Shape, APs, JoinedPCs
<1>37. ASSUME JoinWatchdog PROVE Joined'
  BY <1>37, CpuThread DEF JoinWatchdog, Goto, Joined, Shape, APs, JoinedPCs
<1>38. ASSUME MakeResult PROVE Joined'
  BY <1>38, CpuThread DEF MakeResult, Goto, Joined, Shape, APs, JoinedPCs
<1>39. ASSUME WatchdogLoop PROVE Joined'
  BY <1>39, CpuThread DEF WatchdogLoop, Goto, Joined, Shape, APs, JoinedPCs
<1>40. ASSUME WatchdogCheckInterrupt PROVE Joined'
  BY <1>40, CpuThread DEF WatchdogCheckInterrupt, Goto, CallFinish, Joined, Shape, APs,
      JoinedPCs
<1>41. ASSUME WatchdogCheckCommand PROVE Joined'
  BY <1>41, CpuThread DEF WatchdogCheckCommand, Goto, CallInterruptAll, Joined, Shape,
      APs, JoinedPCs
<1>42. ASSUME WatchdogCheckTap PROVE Joined'
  BY <1>42, CpuThread DEF WatchdogCheckTap, Goto, CallInterruptAll, Joined, Shape, APs,
      JoinedPCs
<1>43. ASSUME WatchdogCheckPaused PROVE Joined'
  BY <1>43, CpuThread DEF WatchdogCheckPaused, Goto, Joined, Shape, APs, JoinedPCs
<1>44. ASSUME WatchdogCheckDeadline PROVE Joined'
  BY <1>44, CpuThread DEF WatchdogCheckDeadline, Goto, Joined, Shape, APs, JoinedPCs
<1>45. ASSUME WatchdogCheckHalted PROVE Joined'
  BY <1>45, CpuThread DEF WatchdogCheckHalted, Goto, CallFinish, Joined, Shape, APs,
      JoinedPCs
<1>46. ASSUME WatchdogBreak PROVE Joined'
  BY <1>46, CpuThread DEF WatchdogBreak, Goto, CallInterruptAll, Joined, Shape, APs,
      JoinedPCs
<1>47. ASSUME HostInterrupt PROVE Joined'
  BY <1>47, CpuThread DEF HostInterrupt, Joined, Shape, APs, JoinedPCs
<1>48. ASSUME Tick PROVE Joined'
  BY <1>48, CpuThread DEF Tick, Joined, Shape, APs, JoinedPCs
<1>49. ASSUME NEW cmd \in Commands, HostCommand(cmd) PROVE Joined'
  BY <1>49, CpuThread DEF HostCommand, Joined, Shape, APs, JoinedPCs
<1>50. CASE UNCHANGED vars
  BY <1>50, CpuThread DEF vars, Joined, Shape, APs, JoinedPCs
<1> QED
  BY <1>1, <1>2, <1>3, <1>4, <1>5, <1>6, <1>7, <1>8, <1>9, <1>10, <1>11, <1>12, <1>13,
     <1>14, <1>15, <1>16, <1>17, <1>18, <1>19, <1>20, <1>21, <1>22, <1>23, <1>24,
     <1>25, <1>26, <1>27, <1>28, <1>29, <1>30, <1>31, <1>32, <1>33, <1>34, <1>35,
     <1>36, <1>37, <1>38, <1>39, <1>40, <1>41, <1>42, <1>43, <1>44, <1>45, <1>46,
     <1>47, <1>48, <1>49, <1>50 DEF Next, RunnerNext, CallStep, VcpuStep, GuestStep,
     MainStep, WatchdogStep, Returned, KeepSpinning

-----------------------------------------------------------------------------
(* The outcome.                                                             *)

\* The thread that wins vm_done.
LEMMA FinishCasOutcome ==
  ASSUME TypeOK, Outcome, NEW t \in Threads, FinishCas(t), ~vmDone
  PROVE Outcome'
  <1>1. /\ winner' = arg[t] /\ arg[t] \in Reasons
        /\ vmDone' /\ arg' = arg /\ pc' = [pc EXCEPT ![t] = "reason"]
    BY DEF FinishCas, TypeOK
  <1>2. \A u \in Threads : pc[u] # "reason"
    BY DEF Outcome
  <1>3. \A u \in Threads : pc'[u] = IF u = t THEN "reason" ELSE pc[u]
    BY <1>1 DEF TypeOK
  <1>4. UNCHANGED <<errorMessage, caught, result, finalExitReason>>
    BY DEF FinishCas
  <1>5. result \notin Reasons
    BY Members DEF Outcome
  <1>6. winner' # "none"
    BY <1>1, Members
  <1>7. pc[t] = "cas"
    BY DEF FinishCas
  <1>8. \A u \in Threads : pc[u] \in {"cas", "reason"} /\ arg[u] = "host-error" =>
                             errorMessage # "" \/ caught
    BY DEF Outcome
  <1>9. winner' = "host-error" => errorMessage' # "" \/ caught'
    BY <1>1, <1>4, <1>7, <1>8
  <1>10. \A u \in Threads : pc'[u] \in {"cas", "reason"} /\ arg'[u] = "host-error" =>
                              errorMessage' # "" \/ caught'
    BY <1>1, <1>3, <1>4, <1>7, <1>8
  <1> QED
    BY <1>1, <1>2, <1>3, <1>4, <1>5, <1>6, <1>9, <1>10, CpuThread DEF Outcome

\* An exception stores its message before it races for vm_done.
LEMMA RecordErrorOutcome ==
  ASSUME TypeOK, Outcome, NEW c \in CPUs, NEW from \in {"clear", "flags", "guest"},
         NEW m \in Errors, RecordError(c, from, m), UNCHANGED <<vmDone, caught>>
  PROVE Outcome'
  <1>1. errorMessage' # ""
    BY DEF RecordError, Errors
  <1>2. \A u \in Threads : pc'[u] = IF u = c THEN "cas" ELSE pc[u]
    BY CpuThread DEF RecordError, CallFinish, TypeOK
  <1>3. \A u \in Threads : arg'[u] = IF u = c THEN "host-error" ELSE arg[u]
    BY CpuThread DEF RecordError, CallFinish, TypeOK
  <1>4. UNCHANGED <<finalExitReason, result, winner>>
    BY DEF RecordError
  <1>5. pc[c] # "reason"
    BY DEF RecordError, CallFinish
  <1>6. \A u \in Threads : pc[u] = "reason" => pc'[u] = "reason"
    BY <1>2, <1>5
  <1>7. vmDone => finalExitReason = winner \/ \E t \in Threads : pc[t] = "reason"
    BY DEF Outcome
  <1>8. vmDone' => finalExitReason' = winner' \/ \E t \in Threads : pc'[t] = "reason"
    BY <1>4, <1>6, <1>7
  <1>9. pc'[Boot] \in {"reason", "immediate", "kill", "join"} \union JoinedPCs => vmDone'
    BY <1>2, CpuThread DEF Outcome, JoinedPCs
  <1> QED
    BY <1>1, <1>2, <1>3, <1>4, <1>8, <1>9, CpuThread DEF Outcome

\* RunVm builds its result when no thread is between the compare_exchange
\* and the store of the reason.
LEMMA MakeResultOutcome ==
  ASSUME TypeOK, Joined, Outcome, MakeResult
  PROVE Outcome'
  <1>1. pc[Boot] = "return" /\ pc' = [pc EXCEPT ![Boot] = "returned"]
    BY DEF MakeResult, Goto
  <1>2. \A t \in Threads : pc[t] # "reason"
    BY <1>1, CpuThread DEF Joined, JoinedPCs, APs, Threads
  <1>3. vmDone /\ finalExitReason = winner
    BY <1>1, <1>2 DEF Outcome, JoinedPCs
  <1>4. UNCHANGED <<vmDone, winner, arg, errorMessage, caught, finalExitReason>>
    BY DEF MakeResult, Goto
  <1>5. \A u \in Threads : pc'[u] = IF u = Boot THEN "returned" ELSE pc[u]
    BY <1>1, CpuThread DEF TypeOK
  <1>6. result' \in Reasons => result' = winner /\ result' # "host-error"
    BY <1>3, Members DEF MakeResult, Outcome, Reasons
  <1>7. vmDone => winner # "none"
    BY DEF Outcome
  <1>8. winner = "host-error" => errorMessage # "" \/ caught
    BY DEF Outcome
  <1>9. \A u \in Threads : pc[u] \in {"cas", "reason"} /\ arg[u] = "host-error" =>
                             errorMessage # "" \/ caught
    BY DEF Outcome
  <1> QED
    BY <1>2, <1>3, <1>4, <1>5, <1>6, <1>7, <1>8, <1>9, CpuThread DEF Outcome

\* Every step keeps the race for vm_done consistent.
LEMMA OutcomeStep ==
  ASSUME TypeOK, Shape, Joined, Outcome, [Next]_vars
  PROVE Outcome'
<1>1. ASSUME NEW t \in Threads, FinishCas(t) PROVE Outcome'
  <2>1. CASE vmDone
    BY <1>1, <2>1, CpuThread DEF FinishCas, TypeOK, Shape, Outcome, JoinedPCs, Rets,
        CallPCs
  <2>2. CASE ~vmDone
    BY <1>1, <2>2, FinishCasOutcome
  <2> QED
    BY <2>1, <2>2
<1>2. ASSUME NEW t \in Threads, FinishReason(t) PROVE Outcome'
  BY <1>2, CpuThread DEF FinishReason, Goto, TypeOK, Outcome, JoinedPCs
<1>3. ASSUME NEW t \in Threads, InterruptImmediate(t) PROVE Outcome'
  BY <1>3, CpuThread DEF InterruptImmediate, Goto, TypeOK, Outcome, JoinedPCs
<1>4. ASSUME NEW t \in Threads, InterruptKill(t) PROVE Outcome'
  BY <1>4, CpuThread DEF TypeOK, Shape, InterruptKill, Outcome, JoinedPCs, Rets, CallPCs
<1>5. ASSUME NEW c \in CPUs, SetRunnerThread(c) PROVE Outcome'
  BY <1>5, CpuThread DEF SetRunnerThread, Goto, TypeOK, Outcome, JoinedPCs
<1>6. ASSUME NEW c \in CPUs, CheckDone(c) PROVE Outcome'
  BY <1>6, CpuThread DEF CheckDone, Goto, AfterLoop, TypeOK, Outcome, JoinedPCs
<1>7. ASSUME NEW c \in CPUs, ReadCommand(c) PROVE Outcome'
  BY <1>7, CpuThread DEF ReadCommand, Goto, TypeOK, Outcome, JoinedPCs
<1>8. ASSUME NEW c \in CPUs, SetStopping(c) PROVE Outcome'
  BY <1>8, CpuThread DEF SetStopping, CallFinish, AfterLoop, TypeOK, Outcome, JoinedPCs
<1>9. ASSUME NEW c \in CPUs, CountPaused(c) PROVE Outcome'
  BY <1>9, CpuThread DEF CountPaused, Goto, TypeOK, Outcome, JoinedPCs
<1>10. ASSUME NEW c \in CPUs, PublishPaused(c) PROVE Outcome'
  BY <1>10, CpuThread DEF PublishPaused, Goto, TypeOK, Outcome, JoinedPCs
<1>11. ASSUME NEW c \in CPUs, LeaveSpin(c) PROVE Outcome'
  BY <1>11, CpuThread DEF LeaveSpin, Goto, TypeOK, Outcome, JoinedPCs
<1>12. ASSUME NEW c \in CPUs, UncountPaused(c) PROVE Outcome'
  BY <1>12, CpuThread DEF UncountPaused, Goto, TypeOK, Outcome, JoinedPCs
<1>13. ASSUME NEW c \in CPUs, ExtendDeadline(c) PROVE Outcome'
  BY <1>13, CpuThread DEF ExtendDeadline, Goto, TypeOK, Outcome, JoinedPCs
<1>14. ASSUME NEW c \in CPUs, RecheckStop(c) PROVE Outcome'
  BY <1>14, CpuThread DEF RecheckStop, Goto, TypeOK, Outcome, JoinedPCs
<1>15. ASSUME NEW c \in CPUs, CheckDoneAfterPause(c) PROVE Outcome'
  BY <1>15, CpuThread DEF CheckDoneAfterPause, Goto, TypeOK, Outcome, JoinedPCs
<1>16. ASSUME NEW c \in CPUs, PublishRunning(c) PROVE Outcome'
  BY <1>16, CpuThread DEF PublishRunning, Goto, TypeOK, Outcome, JoinedPCs
<1>17. ASSUME NEW c \in CPUs, PollRxThrows(c) PROVE Outcome'
  BY <1>17, RecordErrorOutcome, Members DEF PollRxThrows
<1>18. ASSUME NEW c \in CPUs, ClearImmediateExit(c) PROVE Outcome'
  BY <1>18, CpuThread DEF ClearImmediateExit, Goto, TypeOK, Outcome, JoinedPCs
<1>19. ASSUME NEW c \in CPUs, EnterKvmRun(c) PROVE Outcome'
  BY <1>19, CpuThread DEF EnterKvmRun, Goto, TypeOK, Outcome, JoinedPCs
<1>20. ASSUME NEW c \in CPUs, HandleEintr(c) PROVE Outcome'
  BY <1>20, CpuThread DEF HandleEintr, Goto, TypeOK, Outcome, JoinedPCs
<1>21. ASSUME NEW c \in CPUs, CheckWatchdogFlags(c) PROVE Outcome'
  <2>1. CASE CallFinish(c, "flags", "halted-console", AfterLoop(c)) /\ UNCHANGED
      outcomeVars
    BY <1>21, <2>1, CpuThread DEF CallFinish, Outcome, JoinedPCs, TypeOK,
        CheckWatchdogFlags
  <2>2. CASE Goto(c, "flags", "top") /\ UNCHANGED outcomeVars
    BY <1>21, <2>2, CpuThread DEF Goto, Outcome, JoinedPCs, TypeOK, CheckWatchdogFlags
  <2>3. CASE RecordError(c, "flags", "timeout")
    BY <1>21, <2>3, RecordErrorOutcome, Members DEF CheckWatchdogFlags
  <2> QED
    BY <1>21, <2>1, <2>2, <2>3 DEF CheckWatchdogFlags
<1>22. ASSUME NEW c \in CPUs, CheckConsole(c) PROVE Outcome'
  <2>1. CASE CallFinish(c, "console", "halted-console", AfterLoop(c))
    BY <1>22, <2>1, CpuThread DEF CallFinish, Outcome, JoinedPCs, TypeOK, CheckConsole
  <2>2. CASE Goto(c, "console", "top")
    BY <1>22, <2>2, CpuThread DEF Goto, Outcome, JoinedPCs, TypeOK, CheckConsole
  <2> QED
    BY <1>22, <2>1, <2>2 DEF CheckConsole
<1>23. ASSUME NEW c \in CPUs, GuestExit(c) PROVE Outcome'
  BY <1>23, CpuThread DEF GuestExit, CallFinish, AfterLoop, TypeOK, Outcome, JoinedPCs
<1>24. ASSUME NEW c \in CPUs, GuestIo(c) PROVE Outcome'
  BY <1>24, CpuThread DEF GuestIo, Goto, TypeOK, Outcome, JoinedPCs
<1>25. ASSUME NEW c \in CPUs, GuestOtherExit(c) PROVE Outcome'
  BY <1>25, CpuThread DEF GuestOtherExit, Goto, TypeOK, Outcome, JoinedPCs
<1>26. ASSUME NEW c \in CPUs, GuestStops(c) PROVE Outcome'
  <2>1. CASE CallFinish(c, "guest", "hlt", AfterLoop(c))
    BY <1>26, <2>1, CpuThread DEF CallFinish, Outcome, JoinedPCs, TypeOK, GuestStops
  <2>2. CASE CallFinish(c, "guest", "shutdown", AfterLoop(c))
    BY <1>26, <2>2, CpuThread DEF CallFinish, Outcome, JoinedPCs, TypeOK, GuestStops
  <2> QED
    BY <1>26, <2>1, <2>2 DEF GuestStops
<1>27. ASSUME NEW c \in CPUs, GuestFault(c) PROVE Outcome'
  BY <1>27, RecordErrorOutcome, Members DEF GuestFault
<1>28. ASSUME NEW a \in APs, SpawnAp(a) PROVE Outcome'
  BY <1>28, CpuThread DEF SpawnAp, Goto, TypeOK, Outcome, JoinedPCs
<1>29. ASSUME SetRunning PROVE Outcome'
  BY <1>29, CpuThread DEF SetRunning, Goto, TypeOK, Outcome, JoinedPCs
<1>30. ASSUME EnterBootLoop PROVE Outcome'
  BY <1>30, CpuThread DEF EnterBootLoop, Goto, TypeOK, Outcome, JoinedPCs
<1>31. ASSUME SpawnThrows PROVE Outcome'
  BY <1>31, CpuThread DEF SpawnThrows, CallFinish, TypeOK, Outcome, JoinedPCs
<1>32. ASSUME BootLoopReturned PROVE Outcome'
  BY <1>32, CpuThread DEF BootLoopReturned, CallFinish, TypeOK, Outcome, JoinedPCs
<1>33. ASSUME JoinAps PROVE Outcome'
  BY <1>33, CpuThread DEF JoinAps, Goto, TypeOK, Outcome, JoinedPCs
<1>34. ASSUME SetExited PROVE Outcome'
  BY <1>34, CpuThread DEF SetExited, Goto, TypeOK, Outcome, JoinedPCs
<1>35. ASSUME StopInput PROVE Outcome'
  BY <1>35, CpuThread DEF StopInput, Goto, TypeOK, Outcome, JoinedPCs
<1>36. ASSUME StopWatchdog PROVE Outcome'
  BY <1>36, CpuThread DEF StopWatchdog, Goto, TypeOK, Outcome, JoinedPCs
<1>37. ASSUME JoinWatchdog PROVE Outcome'
  BY <1>37, CpuThread DEF JoinWatchdog, Goto, TypeOK, Outcome, JoinedPCs
<1>38. ASSUME MakeResult PROVE Outcome'
  BY <1>38, MakeResultOutcome
<1>39. ASSUME WatchdogLoop PROVE Outcome'
  BY <1>39, CpuThread DEF WatchdogLoop, Goto, TypeOK, Outcome, JoinedPCs
<1>40. ASSUME WatchdogCheckInterrupt PROVE Outcome'
  <2>1. CASE CallFinish(Watchdog, "interrupt?", "host-stop", "break")
    BY <1>40, <2>1, CpuThread DEF CallFinish, Outcome, JoinedPCs, TypeOK,
        WatchdogCheckInterrupt
  <2>2. CASE Goto(Watchdog, "interrupt?", "command?")
    BY <1>40, <2>2, CpuThread DEF Goto, Outcome, JoinedPCs, TypeOK,
        WatchdogCheckInterrupt
  <2> QED
    BY <1>40, <2>1, <2>2 DEF WatchdogCheckInterrupt
<1>41. ASSUME WatchdogCheckCommand PROVE Outcome'
  <2>1. CASE CallInterruptAll(Watchdog, "command?", "tap?")
    BY <1>41, <2>1, CpuThread DEF CallInterruptAll, Outcome, JoinedPCs, TypeOK,
        WatchdogCheckCommand
  <2>2. CASE Goto(Watchdog, "command?", "tap?")
    BY <1>41, <2>2, CpuThread DEF Goto, Outcome, JoinedPCs, TypeOK, WatchdogCheckCommand
  <2> QED
    BY <1>41, <2>1, <2>2 DEF WatchdogCheckCommand
<1>42. ASSUME WatchdogCheckTap PROVE Outcome'
  <2>1. CASE CallInterruptAll(Watchdog, "tap?", "paused?")
    BY <1>42, <2>1, CpuThread DEF CallInterruptAll, Outcome, JoinedPCs, TypeOK,
        WatchdogCheckTap
  <2>2. CASE Goto(Watchdog, "tap?", "paused?")
    BY <1>42, <2>2, CpuThread DEF Goto, Outcome, JoinedPCs, TypeOK, WatchdogCheckTap
  <2> QED
    BY <1>42, <2>1, <2>2 DEF WatchdogCheckTap
<1>43. ASSUME WatchdogCheckPaused PROVE Outcome'
  BY <1>43, CpuThread DEF WatchdogCheckPaused, Goto, TypeOK, Outcome, JoinedPCs
<1>44. ASSUME WatchdogCheckDeadline PROVE Outcome'
  BY <1>44, CpuThread DEF WatchdogCheckDeadline, Goto, TypeOK, Outcome, JoinedPCs
<1>45. ASSUME WatchdogCheckHalted PROVE Outcome'
  <2>1. CASE CallFinish(Watchdog, "halted?", "halted-console", "break")
    BY <1>45, <2>1, CpuThread DEF CallFinish, Outcome, JoinedPCs, TypeOK,
        WatchdogCheckHalted
  <2>2. CASE Goto(Watchdog, "halted?", "loop")
    BY <1>45, <2>2, CpuThread DEF Goto, Outcome, JoinedPCs, TypeOK, WatchdogCheckHalted
  <2> QED
    BY <1>45, <2>1, <2>2 DEF WatchdogCheckHalted
<1>46. ASSUME WatchdogBreak PROVE Outcome'
  <2>1. CASE CallInterruptAll(Watchdog, "break", "done")
    BY <1>46, <2>1, CpuThread DEF CallInterruptAll, Outcome, JoinedPCs, TypeOK,
        WatchdogBreak
  <2>2. CASE Goto(Watchdog, "break", "done")
    BY <1>46, <2>2, CpuThread DEF Goto, Outcome, JoinedPCs, TypeOK, WatchdogBreak
  <2> QED
    BY <1>46, <2>1, <2>2 DEF WatchdogBreak
<1>47. ASSUME HostInterrupt PROVE Outcome'
  BY <1>47, CpuThread DEF HostInterrupt, TypeOK, Outcome, JoinedPCs
<1>48. ASSUME Tick PROVE Outcome'
  BY <1>48, CpuThread DEF Tick, TypeOK, Outcome, JoinedPCs
<1>49. ASSUME NEW cmd \in Commands, HostCommand(cmd) PROVE Outcome'
  BY <1>49, CpuThread DEF HostCommand, TypeOK, Outcome, JoinedPCs
<1>50. CASE UNCHANGED vars
  BY <1>50, CpuThread DEF vars, TypeOK, Outcome, JoinedPCs
<1> QED
  BY <1>1, <1>2, <1>3, <1>4, <1>5, <1>6, <1>7, <1>8, <1>9, <1>10, <1>11, <1>12, <1>13,
     <1>14, <1>15, <1>16, <1>17, <1>18, <1>19, <1>20, <1>21, <1>22, <1>23, <1>24,
     <1>25, <1>26, <1>27, <1>28, <1>29, <1>30, <1>31, <1>32, <1>33, <1>34, <1>35,
     <1>36, <1>37, <1>38, <1>39, <1>40, <1>41, <1>42, <1>43, <1>44, <1>45, <1>46,
     <1>47, <1>48, <1>49, <1>50 DEF Next, RunnerNext, CallStep, VcpuStep, GuestStep,
     MainStep, WatchdogStep, Returned, KeepSpinning

-----------------------------------------------------------------------------
(* The theorems.                                                            *)

\* The initial state of RunVm satisfies the inductive invariant.
LEMMA InitIInv == Init => IInv
  <1> SUFFICES ASSUME Init PROVE IInv
    OBVIOUS
  <1>1. TypeOK
    <2>1. pc \in [Threads -> PCs] /\ ret \in [Threads -> Rets] /\ arg \in [Threads -> Reasons]
      BY Members DEF Init
    <2>2. commands \in 0..MaxCommands
      <3>1. commands = 0
        BY DEF Init
      <3> QED
        BY <3>1, BoundsAssumption
    <2>3. command \in Commands /\ state \in States /\ result \in Results
      BY DEF Init, Commands, States, Results
    <2>4. finalExitReason \in Reasons
      BY Members DEF Init
    <2> QED
      BY <2>1, <2>2, <2>3, <2>4 DEF Init, TypeOK
  <1>2. PausedCountExact
    <2>1. {c \in CPUs : pc[c] \in ParkedPCs} = {}
      BY CpuThread DEF Init, ParkedPCs
    <2> QED
      BY <2>1, FS_EmptySet DEF Init, PausedCountExact
  <1>3. pausedAt <= now
    <2>1. pausedAt = 0 /\ now = 0
      BY DEF Init
    <2> QED
      BY <2>1
  <1>4. Shape /\ Joined /\ Outcome
    BY CpuThread DEF Init, Shape, Joined, Outcome, JoinedPCs, CallPCs, APs, Reasons
  <1> QED
    BY <1>1, <1>2, <1>3, <1>4 DEF IInv

\* Every step of every thread keeps it.
LEMMA StepIInv == IInv /\ [Next]_vars => IInv'
  <1> SUFFICES ASSUME IInv, [Next]_vars PROVE IInv'
    OBVIOUS
  <1>1. ThreadTypes
    BY DEF IInv, TypeOK, ThreadTypes
  <1> QED
    BY <1>1, TypeStep, PausedCountStep, ClockStep, ShapeStep, JoinedStep, OutcomeStep DEF IInv

\* The inductive invariant holds in every state of RunVm.
THEOREM Invariance == Spec => []IInv
  BY InitIInv, StepIInv, PTL DEF Spec

\* Type correctness of the run loop; paused_count never becomes negative.
THEOREM TypeCorrect == Spec => []TypeOK
  <1>1. IInv => TypeOK
    BY DEF IInv
  <1> QED
    BY <1>1, Invariance, PTL

\* paused_count is exact for any number of vCPUs: "paused" is published by the
\* last thread to park.
THEOREM PausedCountCorrect == Spec => []PausedCountExact
  <1>1. IInv => PausedCountExact
    BY DEF IInv
  <1> QED
    BY <1>1, Invariance, PTL

\* SIGUSR1 is never sent with the default disposition.
THEOREM SignalsHandled == Spec => []SignalsOnlyWithHandler
  <1>1. IInv => SignalsOnlyWithHandler
    BY CpuThread DEF IInv, Joined, SignalsOnlyWithHandler, JoinedPCs, CallPCs, APs, Threads
  <1> QED
    BY <1>1, Invariance, PTL

\* No thread outlives the stack frame its lambda captured.
THEOREM ThreadsJoined == Spec => []NoThreadOutlivesRunVm
  <1>1. IInv => NoThreadOutlivesRunVm
    BY DEF IInv, Joined, NoThreadOutlivesRunVm, JoinedPCs
  <1> QED
    BY <1>1, Invariance, PTL

\* RunVm reports the reason of the finish that won vm_done, and never returns
\* a result after an error.
THEOREM WinnerReported == Spec => []ReportsTheWinner
  <1>1. IInv => ReportsTheWinner
    BY DEF IInv, Outcome, ReportsTheWinner
  <1> QED
    BY <1>1, Invariance, PTL

-----------------------------------------------------------------------------
(* The deadline and the last state word.                                    *)

\* Only the boot thread extends the deadline, and without one no time counts.
DeadlineShape ==
  /\ \A a \in APs : pc[a] # "extend"
  /\ Timeout > 0 \/ now = 0

\* "exited" is stored when every thread that stores states has been joined.
ExitedShape == state = "exited" => pc[Boot] \in JoinedPCs \ {"exited"}

\* A step that is of no interest to the clock, nor to the end of the run.
Quiet ==
  /\ UNCHANGED <<now, pausedAt, timeoutExtension, ran>>
  /\ pc'[Boot] \in PausePCs <=> pc[Boot] \in PausePCs
  /\ \A a \in APs : pc'[a] # "extend"
  /\ pc[Boot] \in JoinedPCs \ {"exited"} => pc'[Boot] \in JoinedPCs \ {"exited"}
  /\ \/ state' = state
     \/ /\ state' # "exited"
        /\ pc[Boot] = "main" \/ \E c \in CPUs : pc[c] \in {"stopping", "publish", "publishRun"}
     \/ pc'[Boot] = "stopInput" /\ state' = "exited"

ClockMoves ==
  \/ Tick \/ CountPaused(Boot) \/ UncountPaused(Boot) \/ ExtendDeadline(Boot)

\* Every step is quiet but the clock's and three of the boot thread's.
LEMMA QuietOrClock ==
  ASSUME ThreadTypes, Shape, DeadlineShape, [Next]_vars
  PROVE Quiet \/ ClockMoves
<1> USE CpuThread DEF ThreadTypes, Quiet, PausePCs, JoinedPCs, APs
<1>1. ASSUME NEW t \in Threads, FinishCas(t) PROVE Quiet
  BY <1>1 DEF FinishCas, Shape, CallPCs, DeadlineShape, Rets
<1>2. ASSUME NEW t \in Threads, FinishReason(t) \/ InterruptImmediate(t) PROVE Quiet
  BY <1>2 DEF FinishReason, InterruptImmediate, Goto, DeadlineShape
<1>3. ASSUME NEW t \in Threads, InterruptKill(t) PROVE Quiet
  BY <1>3 DEF InterruptKill, Shape, CallPCs, DeadlineShape, Rets
<1>4. ASSUME NEW c \in CPUs, SetRunnerThread(c) \/ CheckDone(c) PROVE Quiet
  BY <1>4 DEF SetRunnerThread, CheckDone, Goto, AfterLoop, DeadlineShape
<1>5. ASSUME NEW c \in CPUs, ReadCommand(c) PROVE Quiet
  BY <1>5 DEF ReadCommand, Goto, DeadlineShape
<1>6. ASSUME NEW c \in CPUs, SetStopping(c) \/ PublishPaused(c) \/ PublishRunning(c) PROVE Quiet
  BY <1>6 DEF SetStopping, PublishPaused, PublishRunning, Goto, CallFinish, DeadlineShape
<1>7. ASSUME NEW c \in APs, CountPaused(c) \/ UncountPaused(c) PROVE Quiet
  BY <1>7 DEF CountPaused, UncountPaused, Goto, DeadlineShape
<1>8. ASSUME NEW c \in APs, ExtendDeadline(c) PROVE FALSE
  BY <1>8 DEF ExtendDeadline, Goto, DeadlineShape
<1>9. ASSUME NEW c \in CPUs, LeaveSpin(c) \/ RecheckStop(c) \/ CheckDoneAfterPause(c) PROVE Quiet
  BY <1>9 DEF LeaveSpin, RecheckStop, CheckDoneAfterPause, Goto, DeadlineShape
<1>10. ASSUME NEW c \in CPUs, PollRxThrows(c) \/ GuestFault(c) PROVE Quiet
  BY <1>10 DEF PollRxThrows, GuestFault, RecordError, CallFinish, DeadlineShape
<1>11. ASSUME NEW c \in CPUs, ClearImmediateExit(c) \/ EnterKvmRun(c) \/ HandleEintr(c) PROVE Quiet
  BY <1>11 DEF ClearImmediateExit, EnterKvmRun, HandleEintr, Goto, DeadlineShape
<1>12. ASSUME NEW c \in CPUs, CheckWatchdogFlags(c) PROVE Quiet
  BY <1>12 DEF CheckWatchdogFlags, RecordError, CallFinish, Goto, DeadlineShape
<1>13. ASSUME NEW c \in CPUs, CheckConsole(c) \/ GuestIo(c) \/ GuestOtherExit(c) PROVE Quiet
  BY <1>13 DEF CheckConsole, GuestIo, GuestOtherExit, CallFinish, Goto, DeadlineShape
<1>14. ASSUME NEW c \in CPUs, GuestExit(c) \/ GuestStops(c) PROVE Quiet
  BY <1>14 DEF GuestExit, GuestStops, CallFinish, DeadlineShape
<1>15. ASSUME NEW a \in APs, SpawnAp(a) PROVE Quiet
  BY <1>15 DEF SpawnAp, Goto, DeadlineShape
<1>16. CASE SetRunning \/ EnterBootLoop \/ SpawnThrows \/ BootLoopReturned
  <2>1. Quiet
    BY <1>16 DEF SetRunning, EnterBootLoop, SpawnThrows, BootLoopReturned, CallFinish, Goto,
                 DeadlineShape
  <2> QED
    BY <2>1
<1>17. CASE JoinAps \/ SetExited \/ StopInput \/ StopWatchdog \/ JoinWatchdog \/ MakeResult
  <2>1. Quiet
    BY <1>17 DEF JoinAps, SetExited, StopInput, StopWatchdog, JoinWatchdog, MakeResult, Goto,
                 DeadlineShape
  <2> QED
    BY <2>1
<1>18. CASE WatchdogStep
  <2>1. pc' = [pc EXCEPT ![Watchdog] = pc'[Watchdog]]
    BY <1>18 DEF WatchdogStep, WatchdogLoop, WatchdogCheckInterrupt, WatchdogCheckCommand,
         WatchdogCheckTap, WatchdogCheckPaused, WatchdogCheckDeadline, WatchdogCheckHalted,
         WatchdogBreak, Goto, CallFinish, CallInterruptAll
  <2>2. UNCHANGED <<now, pausedAt, timeoutExtension, ran, state>>
    BY <1>18 DEF WatchdogStep, WatchdogLoop, WatchdogCheckInterrupt, WatchdogCheckCommand,
         WatchdogCheckTap, WatchdogCheckPaused, WatchdogCheckDeadline, WatchdogCheckHalted,
         WatchdogBreak
  <2>3. Quiet
    BY <2>1, <2>2 DEF DeadlineShape
  <2> QED
    BY <2>3
<1>19. CASE HostInterrupt \/ (\E cmd \in Commands : HostCommand(cmd)) \/ UNCHANGED vars
  <2>1. Quiet
    BY <1>19 DEF HostInterrupt, HostCommand, vars, DeadlineShape
  <2> QED
    BY <2>1
<1> QED
  BY <1>1, <1>2, <1>3, <1>4, <1>5, <1>6, <1>7, <1>8, <1>9, <1>10, <1>11, <1>12, <1>13, <1>14,
     <1>15, <1>16, <1>17, <1>18, <1>19
     DEF ClockMoves, Next, RunnerNext, CallStep, VcpuStep, GuestStep, MainStep, Returned, KeepSpinning

RunInv == IInv /\ DeadlineShape /\ ExitedShape /\ ClockAccounting

\* A pause that ends with a deadline set is added to it; without a deadline no
\* time passed.
LEMMA AccountingStep ==
  ASSUME RunInv, [Next]_vars
  PROVE DeadlineShape' /\ ClockAccounting'
<1>1. /\ now \in Nat /\ pausedAt \in Nat /\ timeoutExtension \in Nat /\ ran \in Nat
      /\ pausedAt <= now /\ pc \in [Threads -> PCs]
  BY Numbers DEF RunInv, IInv, TypeOK
<1>2. DeadlineShape /\ ClockAccounting
  BY DEF RunInv
<1> DEFINE paused == pc[Boot] \in PausePCs
<1>3. CASE Quiet
  <2>1. DeadlineShape'
    BY <1>2, <1>3 DEF Quiet, DeadlineShape
  <2>2. ClockAccounting'
    BY <1>2, <1>3 DEF Quiet, ClockAccounting
  <2> QED
    BY <2>1, <2>2
<1>4. CASE Tick
  <2>1. /\ now' = now + 1 /\ ran' = (IF paused THEN ran ELSE ran + 1)
        /\ UNCHANGED <<pc, pausedAt, timeoutExtension>> /\ Timeout > 0
    BY <1>4 DEF Tick
  <2>2. DeadlineShape'
    BY <1>2, <2>1 DEF DeadlineShape
  <2>3. ClockAccounting'
    BY <1>1, <1>2, <2>1 DEF ClockAccounting
  <2> QED
    BY <2>2, <2>3
<1>5. CASE CountPaused(Boot)
  <2>1. /\ UNCHANGED <<now, timeoutExtension, ran>> /\ pausedAt' = now
        /\ pc[Boot] \notin PausePCs /\ pc'[Boot] \in PausePCs
        /\ \A a \in APs : pc'[a] = pc[a]
    BY <1>1, <1>5, CpuThread DEF CountPaused, Goto, PausePCs, APs
  <2> QED
    BY <1>1, <1>2, <2>1 DEF DeadlineShape, ClockAccounting
<1>6. CASE UncountPaused(Boot)
  <2>1. /\ UNCHANGED <<now, pausedAt, timeoutExtension, ran>> /\ pc[Boot] \in PausePCs
        /\ pc'[Boot] = (IF Timeout > 0 THEN "extend" ELSE "recheck")
        /\ \A a \in APs : pc'[a] = pc[a]
    BY <1>1, <1>6, CpuThread DEF UncountPaused, Goto, PausePCs, APs
  <2>2. CASE Timeout > 0
    BY <1>2, <2>1, <2>2 DEF DeadlineShape, ClockAccounting, PausePCs
  <2>3. CASE ~(Timeout > 0)
    <3>1. now = 0 /\ pausedAt = 0
      BY <1>1, <1>2, <2>3 DEF DeadlineShape
    <3> QED
      BY <1>1, <1>2, <2>1, <2>3, <3>1 DEF DeadlineShape, ClockAccounting, PausePCs
  <2> QED
    BY <2>2, <2>3
<1>7. CASE ExtendDeadline(Boot)
  <2>1. /\ UNCHANGED <<now, pausedAt, ran>> /\ timeoutExtension' = timeoutExtension + (now - pausedAt)
        /\ pc[Boot] \in PausePCs /\ pc'[Boot] \notin PausePCs
        /\ \A a \in APs : pc'[a] = pc[a]
    BY <1>1, <1>7, CpuThread DEF ExtendDeadline, Goto, PausePCs, APs
  <2> QED
    BY <1>1, <1>2, <2>1 DEF DeadlineShape, ClockAccounting
<1>8. Quiet \/ ClockMoves
  BY QuietOrClock DEF RunInv, IInv, TypeOK, ThreadTypes
<1> QED
  BY <1>3, <1>4, <1>5, <1>6, <1>7, <1>8 DEF ClockMoves

\* Once the boot thread has stored "exited", no thread that could store another
\* state is alive.
LEMMA ExitedStep ==
  ASSUME RunInv, [Next]_vars
  PROVE ExitedShape' /\ (state = "exited" => state' = "exited")
<1>1. pc \in [Threads -> PCs] /\ Joined /\ ExitedShape
  BY DEF RunInv, IInv, TypeOK
<1>2. CASE Quiet
  <2>1. CASE state = "exited"
    <3>1. /\ pc[Boot] \in JoinedPCs \ {"exited"} /\ pc'[Boot] \in JoinedPCs \ {"exited"}
          /\ \A a \in APs : pc[a] \in {"done", "unborn"}
      BY <1>1, <1>2, <2>1 DEF ExitedShape, Joined, Quiet
    <3>2. \A c \in CPUs : pc[c] \notin {"stopping", "publish", "publishRun"}
      BY <3>1 DEF JoinedPCs, APs
    <3>3. pc[Boot] # "main"
      BY <3>1 DEF JoinedPCs
    <3> QED
      BY <1>2, <2>1, <3>1, <3>2, <3>3 DEF Quiet, ExitedShape
  <2>2. CASE state # "exited"
    <3>1. state' = "exited" => pc'[Boot] \in JoinedPCs \ {"exited"}
      <4>1. CASE state' = state \/ pc'[Boot] = "stopInput"
        BY <2>2, <4>1 DEF JoinedPCs
      <4>2. CASE state' # state /\ pc'[Boot] # "stopInput"
        BY <1>2, <2>2, <4>2 DEF Quiet
      <4> QED
        BY <4>1, <4>2
    <3> QED
      BY <2>2, <3>1 DEF ExitedShape
  <2> QED
    BY <2>1, <2>2
<1>3. CASE ClockMoves
  <2>1. state' = state
    BY <1>3 DEF ClockMoves, Tick, CountPaused, UncountPaused, ExtendDeadline
  <2>2. pc' = pc \/ pc[Boot] \in {"count", "leave", "extend"}
    BY <1>3 DEF ClockMoves, Tick, CountPaused, UncountPaused, ExtendDeadline, Goto
  <2> QED
    BY <1>1, <2>1, <2>2 DEF ExitedShape, JoinedPCs
<1>4. Quiet \/ ClockMoves
  BY QuietOrClock DEF RunInv, IInv, TypeOK, ThreadTypes
<1> QED
  BY <1>2, <1>3, <1>4

LEMMA RunInvariance == Spec => []RunInv
<1>1. Init => RunInv
  <2> SUFFICES ASSUME Init PROVE RunInv
    OBVIOUS
  <2>1. DeadlineShape /\ ExitedShape
    BY CpuThread DEF Init, DeadlineShape, ExitedShape, APs
  <2>2. ClockAccounting
    <3>1. now = 0 /\ ran = 0 /\ timeoutExtension = 0 /\ pausedAt = 0
      BY DEF Init
    <3> QED
      BY <3>1 DEF ClockAccounting
  <2> QED
    BY <2>1, <2>2, InitIInv DEF RunInv
<1>2. RunInv /\ [Next]_vars => RunInv'
  BY AccountingStep, ExitedStep, StepIInv DEF RunInv
<1> QED
  BY <1>1, <1>2, PTL DEF Spec

\* The deadline is extended by exactly the time the boot thread was paused, over
\* any number of pauses.
THEOREM ClockExact == Spec => []ClockAccounting
<1>1. RunInv => ClockAccounting
  BY DEF RunInv
<1> QED
  BY <1>1, RunInvariance, PTL

\* No thread stores another state over the Exited that RunVm stores at its end,
\* after it has joined its threads.
THEOREM ExitedStays == Spec => ExitedIsFinal
<1>1. RunInv /\ [Next]_vars => [state = "exited" => state' = "exited"]_vars
  BY ExitedStep
<1> QED
  BY <1>1, RunInvariance, PTL DEF Spec, ExitedIsFinal

-----------------------------------------------------------------------------
(* The SDK handle of a VM with one vCPU and no console input.               *)

\* handle_pause shows that a pause() may resolve too early with two vCPUs; and
\* a Ctrl-C takes a vCPU out of its pause.
AwaitedOneVcpu == CPUs = {Boot} /\ ~Interactive /\ Sequential

\* The boot thread has left vcpu_loop for good.
OverPCs == CallPCs \union {"bootDone", "join"} \union JoinedPCs
LeavingPCs == {"leave", "extend", "recheck", "resume", "publishRun"}

CallsShape ==
  /\ Cardinality(Made) \in Nat /\ Made = 1..Cardinality(Made)
  /\ calls \in [Made -> [op : Ops, phase : {"waiting", "resolved", "ended"}]]
  /\ \A i \in Made : Waiting(i) => i = Cardinality(Made)
  /\ settled \in BOOLEAN /\ aborted \in BOOLEAN

\* Only the boot thread ends the VM, or the watchdog when the guest has halted.
Ending ==
  /\ ~hostInterruptRequested
  /\ pc[Watchdog] = "cas" => haltMarker
  /\ haltMarker => pc[Boot] \in {"console"} \union OverPCs
  /\ vmDone => pc[Boot] \in OverPCs \/ haltMarker
  /\ result # "none" => pc[Boot] = "returned"
  /\ settled => aborted \/ result # "none"
  /\ state = "exited" => settled \/ pc[Boot] \in JoinedPCs

\* The last call; a VM that was just started is like one that was resumed.
Asked == IF Made = {} THEN [op |-> "resume", phase |-> "resolved"] ELSE LastCall

\* What a call says about the two words and the boot thread, while it runs.
Told(call, cmd, st, at) ==
  /\ call.phase # "ended"
  /\ call.op = "resume" =>
       /\ cmd = "run" /\ at \notin {"count", "publish"}
       /\ at \in {"spin"} \union LeavingPCs <=> st = "paused"
       /\ call.phase = "resolved" => st # "paused"
  /\ call.op = "pause" =>
       /\ cmd = "pause" /\ at \notin LeavingPCs
       /\ st = "paused" => at = "spin"
       /\ call.phase = "resolved" => st = "paused"
  /\ call.op = "stop" => call.phase = "waiting"
Dialogue == Told(Asked, command, state, pc[Boot])

HandleIInv == IInv /\ CallsShape /\ Ending /\ (aborted \/ pc[Boot] \in OverPCs \/ Dialogue)

\* The threads there are.
LEMMA TwoThreads ==
  ASSUME AwaitedOneVcpu
  PROVE Threads = {Boot, Watchdog} /\ Boot # Watchdog /\ APs = {} /\ CPUs = {Boot}
  BY CpuThread DEF AwaitedOneVcpu, Threads, APs

\* A step of the native threads: who ended the VM, and when.
LEMMA NativeEnding ==
  ASSUME AwaitedOneVcpu, IInv, Ending, RunnerNext, UNCHANGED handleVars
  PROVE Ending'
<1>1. ThreadTypes /\ Shape /\ finalExitReason \in Reasons /\ "none" \notin Reasons
      /\ settled' = settled /\ aborted' = aborted
  BY Members DEF IInv, TypeOK, ThreadTypes, handleVars
<1> USE <1>1, TwoThreads DEF Ending, OverPCs, JoinedPCs, CallPCs, ThreadTypes
<1>2. ASSUME NEW t \in Threads, FinishCas(t) PROVE Ending'
  <2>1. CASE t = Boot
    BY <1>2, <2>1 DEF FinishCas, Shape
  <2>2. CASE t = Watchdog
    BY <1>2, <2>2 DEF FinishCas, Rets
  <2> QED
    BY <2>1, <2>2
<1>3. ASSUME NEW t \in Threads, FinishReason(t) \/ InterruptImmediate(t) PROVE Ending'
  BY <1>3 DEF FinishReason, InterruptImmediate, Goto
<1>4. ASSUME NEW t \in Threads, InterruptKill(t) PROVE Ending'
  <2>1. CASE t = Boot
    BY <1>4, <2>1 DEF InterruptKill, Shape
  <2>2. CASE t = Watchdog
    BY <1>4, <2>2 DEF InterruptKill, Rets
  <2> QED
    BY <2>1, <2>2
<1>5. ASSUME NEW c \in CPUs, SetRunnerThread(c) \/ CheckDone(c) \/ ReadCommand(c) PROVE Ending'
  BY <1>5 DEF SetRunnerThread, CheckDone, ReadCommand, Goto, AfterLoop
<1>6. ASSUME NEW c \in CPUs, SetStopping(c) \/ PublishPaused(c) \/ PublishRunning(c) PROVE Ending'
  BY <1>6 DEF SetStopping, PublishPaused, PublishRunning, Goto, CallFinish
<1>7. ASSUME NEW c \in CPUs, CountPaused(c) \/ LeaveSpin(c) \/ UncountPaused(c) \/ ExtendDeadline(c)
      PROVE Ending'
  BY <1>7 DEF CountPaused, LeaveSpin, UncountPaused, ExtendDeadline, Goto
<1>8. ASSUME NEW c \in CPUs, RecheckStop(c) \/ CheckDoneAfterPause(c) PROVE Ending'
  BY <1>8 DEF RecheckStop, CheckDoneAfterPause, Goto
<1>9. ASSUME NEW c \in CPUs, PollRxThrows(c) \/ GuestFault(c) PROVE Ending'
  <2>1. /\ c = Boot /\ pc[Boot] \in {"clear", "flags", "guest"} /\ pc' = [pc EXCEPT ![Boot] = "cas"]
        /\ result' = result /\ UNCHANGED <<controlVars, flagVars>>
    BY <1>9 DEF PollRxThrows, GuestFault, RecordError, CallFinish
  <2> QED
    BY <2>1
<1>10. ASSUME NEW c \in CPUs, ClearImmediateExit(c) \/ EnterKvmRun(c) \/ HandleEintr(c) PROVE Ending'
  BY <1>10 DEF ClearImmediateExit, EnterKvmRun, HandleEintr, Goto
<1>11. ASSUME NEW c \in CPUs, CheckWatchdogFlags(c) PROVE Ending'
  <2>1. /\ pc[Boot] = "flags" /\ (pc' = [pc EXCEPT ![Boot] = "cas"] \/ pc' = [pc EXCEPT ![Boot] = "top"])
        /\ result' = result /\ UNCHANGED <<controlVars, flagVars>>
    BY <1>11 DEF CheckWatchdogFlags, RecordError, CallFinish, Goto
  <2> QED
    BY <2>1
<1>12. ASSUME NEW c \in CPUs, CheckConsole(c) \/ GuestIo(c) \/ GuestOtherExit(c) PROVE Ending'
  <2>1. CASE CheckConsole(c)
    <3>1. /\ pc[Boot] = "console" /\ result' = result /\ UNCHANGED <<controlVars, flagVars>>
          /\ \/ pc' = [pc EXCEPT ![Boot] = "cas"]
             \/ pc' = [pc EXCEPT ![Boot] = "top"] /\ ~haltMarker
      BY <2>1 DEF CheckConsole, CallFinish, Goto
    <3> QED
      BY <3>1
  <2>2. CASE GuestIo(c)
    BY <2>2 DEF GuestIo, Goto
  <2>3. CASE GuestOtherExit(c)
    BY <2>3 DEF GuestOtherExit, Goto
  <2> QED
    BY <1>12, <2>1, <2>2, <2>3
<1>13. ASSUME NEW c \in CPUs, GuestExit(c) \/ GuestStops(c) PROVE Ending'
  BY <1>13 DEF GuestExit, GuestStops, CallFinish
<1>14. CASE SetRunning \/ EnterBootLoop \/ SpawnThrows \/ BootLoopReturned
  BY <1>14 DEF SetRunning, EnterBootLoop, SpawnThrows, BootLoopReturned, CallFinish, Goto
<1>15. CASE JoinAps \/ SetExited \/ StopInput \/ StopWatchdog \/ JoinWatchdog
  BY <1>15 DEF JoinAps, SetExited, StopInput, StopWatchdog, JoinWatchdog, Goto
<1>16. CASE MakeResult
  BY <1>16 DEF MakeResult, Goto
<1>17. CASE WatchdogLoop \/ WatchdogCheckInterrupt \/ WatchdogCheckCommand \/ WatchdogCheckTap
            \/ WatchdogCheckPaused \/ WatchdogCheckDeadline \/ WatchdogBreak
  BY <1>17 DEF WatchdogLoop, WatchdogCheckInterrupt, WatchdogCheckCommand, WatchdogCheckTap,
       WatchdogCheckPaused, WatchdogCheckDeadline, WatchdogBreak, Goto, CallFinish, CallInterruptAll
<1>18. CASE WatchdogCheckHalted
  BY <1>18 DEF WatchdogCheckHalted, Goto, CallFinish
<1>19. CASE HostInterrupt \/ Tick
  BY <1>19 DEF HostInterrupt, Tick, AwaitedOneVcpu
<1>20. ASSUME NEW c \in CPUs, KeepSpinning(c) PROVE Ending'
  BY <1>20 DEF KeepSpinning, vars
<1> QED
  BY <1>2, <1>3, <1>4, <1>5, <1>6, <1>7, <1>8, <1>9, <1>10, <1>11, <1>12, <1>13, <1>14,
     <1>15, <1>16, <1>17, <1>18, <1>19, <1>20
     DEF RunnerNext, CallStep, VcpuStep, GuestStep, MainStep, WatchdogStep

\* A step of the native threads: the boot thread does what it was told.
LEMMA NativeDialogue ==
  ASSUME AwaitedOneVcpu, IInv, Ending, RunnerNext, UNCHANGED handleVars, pc[Boot] \in OverPCs \/ Dialogue
  PROVE pc'[Boot] \in OverPCs \/ Dialogue'
<1>1. ThreadTypes /\ Shape
  BY DEF IInv, TypeOK, ThreadTypes
<1>2. PICK call : call = Asked
  OBVIOUS
<1>3. Asked' = call
  BY <1>2 DEF Asked, LastCall, Made, handleVars
<1> DEFINE Kept == pc'[Boot] \in OverPCs \/ Told(call, command', state', pc'[Boot])
<1>4. SUFFICES Kept
  BY <1>3 DEF Dialogue
<1>5. pc[Boot] \in OverPCs \/ Told(call, command, state, pc[Boot])
  BY <1>2 DEF Dialogue
<1> HIDE <1>2
<1>6. vmDone => pc[Boot] \in OverPCs \union {"console"}
  BY DEF Ending
<1> USE <1>1, <1>5, TwoThreads DEF Told, OverPCs, JoinedPCs, LeavingPCs, CallPCs, ThreadTypes
<1>7. ASSUME NEW t \in Threads, CallStep(t) PROVE Kept
  <2>1. command' = command /\ state' = state
    BY <1>7 DEF CallStep, FinishCas, FinishReason, InterruptImmediate, InterruptKill
  <2>2. CASE t = Boot
    <3>1. pc'[Boot] \in {"reason", "immediate", "kill", ret[Boot]} /\ pc[Boot] \in CallPCs
      BY <1>7, <2>2 DEF CallStep, FinishCas, FinishReason, InterruptImmediate, InterruptKill, Goto
    <3> QED
      BY <3>1 DEF Shape
  <2>3. CASE t = Watchdog
    <3>1. pc'[Boot] = pc[Boot] \/ (pc[Boot] = "guest" /\ pc'[Boot] = "eintr")
      BY <1>7, <2>3 DEF CallStep, FinishCas, FinishReason, InterruptImmediate, InterruptKill, Goto
    <3> QED
      BY <2>1, <3>1
  <2> QED
    BY <2>2, <2>3
<1>8. ASSUME NEW c \in CPUs, SetRunnerThread(c) \/ CheckDone(c) PROVE Kept
  BY <1>8 DEF SetRunnerThread, CheckDone, Goto, AfterLoop
<1>9. ASSUME NEW c \in CPUs, ReadCommand(c) PROVE Kept
  BY <1>9 DEF ReadCommand, Goto
<1>10. ASSUME NEW c \in CPUs, SetStopping(c) PROVE Kept
  BY <1>10 DEF SetStopping, CallFinish
<1>11. ASSUME NEW c \in CPUs, CountPaused(c) \/ PublishPaused(c) PROVE Kept
  BY <1>11 DEF CountPaused, PublishPaused, Goto
<1>12. ASSUME NEW c \in CPUs, LeaveSpin(c) PROVE Kept
  BY <1>6, <1>12 DEF LeaveSpin, Goto
<1>13. ASSUME NEW c \in CPUs, UncountPaused(c) \/ ExtendDeadline(c) \/ RecheckStop(c) PROVE Kept
  BY <1>13 DEF UncountPaused, ExtendDeadline, RecheckStop, Goto
<1>14. ASSUME NEW c \in CPUs, CheckDoneAfterPause(c) \/ PublishRunning(c) PROVE Kept
  BY <1>6, <1>14 DEF CheckDoneAfterPause, PublishRunning, Goto
<1>15. ASSUME NEW c \in CPUs, PollRxThrows(c) \/ GuestFault(c) PROVE Kept
  BY <1>15 DEF PollRxThrows, GuestFault, RecordError, CallFinish
<1>16. ASSUME NEW c \in CPUs, ClearImmediateExit(c) \/ EnterKvmRun(c) \/ HandleEintr(c) PROVE Kept
  BY <1>16 DEF ClearImmediateExit, EnterKvmRun, HandleEintr, Goto
<1>17. ASSUME NEW c \in CPUs, CheckWatchdogFlags(c) PROVE Kept
  BY <1>17 DEF CheckWatchdogFlags, RecordError, CallFinish, Goto
<1>18. ASSUME NEW c \in CPUs, CheckConsole(c) \/ GuestIo(c) \/ GuestOtherExit(c) PROVE Kept
  BY <1>18 DEF CheckConsole, GuestIo, GuestOtherExit, CallFinish, Goto
<1>19. ASSUME NEW c \in CPUs, GuestExit(c) \/ GuestStops(c) PROVE Kept
  BY <1>19 DEF GuestExit, GuestStops, CallFinish
<1>20. CASE SetRunning \/ EnterBootLoop \/ SpawnThrows \/ BootLoopReturned
  BY <1>20 DEF SetRunning, EnterBootLoop, SpawnThrows, BootLoopReturned, CallFinish, Goto
<1>21. CASE JoinAps \/ SetExited \/ StopInput \/ StopWatchdog \/ JoinWatchdog \/ MakeResult
  BY <1>21 DEF JoinAps, SetExited, StopInput, StopWatchdog, JoinWatchdog, MakeResult, Goto
<1>22. CASE WatchdogStep \/ HostInterrupt \/ Tick
  <2>1. pc'[Boot] = pc[Boot] /\ command' = command /\ state' = state
    BY <1>22 DEF WatchdogStep, WatchdogLoop, WatchdogCheckInterrupt, WatchdogCheckCommand,
         WatchdogCheckTap, WatchdogCheckPaused, WatchdogCheckDeadline, WatchdogCheckHalted,
         WatchdogBreak, Goto, CallFinish, CallInterruptAll, HostInterrupt, Tick
  <2> QED
    BY <2>1
<1>23. ASSUME NEW c \in CPUs, KeepSpinning(c) PROVE Kept
  BY <1>23 DEF KeepSpinning, vars
<1> QED
  BY <1>7, <1>8, <1>9, <1>10, <1>11, <1>12, <1>13, <1>14, <1>15, <1>16, <1>17, <1>18, <1>19, <1>20,
     <1>21, <1>22, <1>23 DEF RunnerNext, VcpuStep, GuestStep, MainStep

\* The handle changes the two words only; nothing of the run loop is lost.
LEMMA HandleKeepsRunner ==
  ASSUME IInv, HandleStep
  PROVE IInv'
<1>1. /\ UNCHANGED <<commands, threadVars, kickVars, flagVars, outcomeVars, clockVars, pausedCount>>
      /\ command' \in {command, "run", "pause", "stop"} /\ state' \in {state, "exited"}
  <2>1. CASE \E op \in Ops : PauseOrResume(op)
    BY <2>1 DEF PauseOrResume
  <2>2. CASE Stop
    BY <2>2 DEF Stop
  <2>3. CASE \E i \in Made : PollWanted(i) \/ PollEnded(i)
    BY <2>3 DEF PollWanted, PollEnded, vars
  <2>4. CASE WorkerMessage \/ Abort
    BY <2>4 DEF WorkerMessage, Abort
  <2> QED
    BY <2>1, <2>2, <2>3, <2>4 DEF HandleStep
<1>2. TypeOK'
  <2>1. command' \in Commands /\ state' \in States
    BY <1>1, Members DEF IInv, TypeOK, Commands
  <2> QED
    BY <1>1, <2>1, Zenon DEF IInv, TypeOK
<1>3. PausedCountExact' /\ Shape' /\ Joined' /\ Outcome' /\ (pausedAt <= now)'
  BY <1>1 DEF IInv, PausedCountExact, Shape, Joined, Outcome
<1> QED
  BY <1>2, <1>3 DEF IInv

\* A new call is the last one.
LEMMA RecordLast ==
  ASSUME CallsShape, NEW op \in Ops, NEW phase \in {"waiting", "resolved", "ended"},
         Record(op, phase), \A i \in Made : ~Waiting(i), settled' \in BOOLEAN, aborted' \in BOOLEAN
  PROVE CallsShape' /\ Asked' = [op |-> op, phase |-> phase]
<1>1. PICK n \in Nat : n = Cardinality(Made) /\ Made = 1..n
  BY DEF CallsShape
<1>2. calls' = [i \in 1..(n + 1) |-> IF i \in 1..n THEN calls[i] ELSE [op |-> op, phase |-> phase]]
  BY <1>1 DEF Record
<1>3. Made' = 1..(n + 1)
  BY <1>2 DEF Made
<1>4. Cardinality(Made)' = n + 1
  BY <1>3, FS_Interval
<1>5. \A i \in 1..n : calls'[i] = calls[i]
  BY <1>2
<1>6. calls'[n + 1] = [op |-> op, phase |-> phase]
  BY <1>2
<1>7. calls' \in [1..(n + 1) -> [op : Ops, phase : {"waiting", "resolved", "ended"}]]
  BY <1>1, <1>2 DEF CallsShape
<1>8. ASSUME NEW i \in 1..(n + 1), Waiting(i)' PROVE i = n + 1
  <2>1. i \in 1..n => ~Waiting(i)'
    BY <1>1, <1>5 DEF Waiting
  <2> QED
    BY <1>8, <2>1
<1>9. CallsShape'
  <2>1. Ops' = Ops
    BY DEF Ops
  <2> QED
    BY <1>3, <1>4, <1>7, <1>8, <2>1 DEF CallsShape
<1>10. Asked' = calls'[n + 1]
  BY <1>3, <1>4 DEF Asked, LastCall
<1> QED
  BY <1>6, <1>9, <1>10

\* The call that waits, the last one, settles.
LEMMA SettleLast ==
  ASSUME CallsShape, NEW i \in Made, Waiting(i), NEW phase \in {"resolved", "ended"},
         calls' = [calls EXCEPT ![i].phase = phase], UNCHANGED <<settled, aborted>>
  PROVE CallsShape' /\ i = Cardinality(Made) /\ Made # {} /\ Asked' = [op |-> Asked.op, phase |-> phase]
<1>1. PICK n \in Nat : n = Cardinality(Made) /\ Made = 1..n
  BY DEF CallsShape
<1>2. i = n /\ calls[n] \in [op : Ops, phase : {"waiting", "resolved", "ended"}]
  BY <1>1 DEF CallsShape
<1>3. Made' = Made /\ Cardinality(Made)' = n
  BY <1>1 DEF Made
<1>4. calls'[n] = [calls[n] EXCEPT !.phase = phase] /\ \A j \in Made : j # n => calls'[j] = calls[j]
  BY <1>1, <1>2 DEF Made, CallsShape
<1>5. calls'[n] = [op |-> calls[n].op, phase |-> phase]
  BY <1>2, <1>4
<1>6. calls' \in [Made -> [op : Ops, phase : {"waiting", "resolved", "ended"}]]
  BY <1>1, <1>2, <1>4, <1>5 DEF CallsShape, Made
<1>7. ASSUME NEW j \in Made, Waiting(j)' PROVE j = n
  BY <1>1, <1>4, <1>7 DEF Waiting, CallsShape
<1>8. CallsShape'
  <2>1. Ops' = Ops
    BY DEF Ops
  <2> QED
    BY <1>1, <1>3, <1>6, <1>7, <2>1 DEF CallsShape
<1>9. Asked = calls[n] /\ Asked' = calls'[n]
  BY <1>1, <1>3 DEF Asked, LastCall
<1> QED
  BY <1>1, <1>2, <1>5, <1>8, <1>9

\* The words and the boot thread after a step of the handle.
LEMMA HandleTells ==
  ASSUME AwaitedOneVcpu, IInv, CallsShape, Ending, aborted \/ pc[Boot] \in OverPCs \/ Dialogue, HandleStep
  PROVE CallsShape' /\ Ending' /\ (aborted \/ pc[Boot] \in OverPCs \/ Dialogue)'
<1>1. UNCHANGED <<commands, threadVars, kickVars, flagVars, outcomeVars, clockVars, pausedCount>>
  BY DEF HandleStep, PauseOrResume, Stop, PollWanted, PollEnded, WorkerMessage, Abort, vars
<1>2. settled \in BOOLEAN /\ aborted \in BOOLEAN /\ Ops = {"pause", "resume", "stop"}
  BY DEF CallsShape, Ops
<1>3. "returned" \in JoinedPCs /\ JoinedPCs \subseteq OverPCs
  BY DEF JoinedPCs, OverPCs
<1>4. CASE \E op \in Ops : PauseOrResume(op)
  <2>1. PICK op \in {"pause", "resume"} : PauseOrResume(op)
    BY <1>4 DEF PauseOrResume
  <2>2. ~aborted /\ UNCHANGED <<state, settled, aborted>> /\ \A i \in Made : ~Waiting(i)
    BY <2>1 DEF PauseOrResume, MayCall, AwaitedOneVcpu
  <2>3. Ending'
    BY <1>1, <2>2 DEF Ending
  <2>4. CASE state = "exited"
    <3>1. Record(op, "ended")
      BY <2>1, <2>4 DEF PauseOrResume
    <3>2. CallsShape'
      BY <1>2, <2>2, <3>1, RecordLast
    <3>3. pc[Boot] \in OverPCs
      BY <1>3, <2>2, <2>4 DEF Ending
    <3> QED
      BY <1>1, <2>3, <3>2, <3>3
  <2>5. CASE state # "exited"
    <3>1. Record(op, "waiting") /\ command' = IF op = "pause" THEN "pause" ELSE "run"
      BY <2>1, <2>5 DEF PauseOrResume
    <3>2. CallsShape' /\ Asked' = [op |-> op, phase |-> "waiting"]
      BY <1>2, <2>2, <3>1, RecordLast
    <3>3. Asked.phase \in {"resolved", "ended"} /\ Asked.op \in Ops
      BY <1>2, <2>2 DEF Asked, LastCall, CallsShape, Waiting
    <3>4. pc[Boot] \in OverPCs \/ Dialogue'
      <4>1. CASE pc[Boot] \in OverPCs
        BY <4>1
      <4>2. CASE Dialogue
        <5>1. PICK call : call = Asked
          OBVIOUS
        <5>2. call.phase \in {"resolved", "ended"} /\ call.op \in Ops /\ Told(call, command, state, pc[Boot])
          BY <3>3, <4>2, <5>1 DEF Dialogue
        <5>3. call.phase = "resolved" /\ call.op \in {"pause", "resume"}
          BY <1>2, <5>2 DEF Told
        <5>4. command' = (IF op = "pause" THEN "pause" ELSE "run") /\ state' = state /\ pc' = pc
          BY <1>1, <2>2, <3>1
        <5>5. Told([op |-> op, phase |-> "waiting"], command', state', pc'[Boot])
          <6>1. CASE op = "pause"
            BY <5>2, <5>3, <5>4, <6>1 DEF Told, LeavingPCs
          <6>2. CASE op = "resume"
            BY <5>2, <5>3, <5>4, <6>2 DEF Told, LeavingPCs
          <6> QED
            BY <6>1, <6>2
        <5> QED
          BY <3>2, <5>5 DEF Dialogue
      <4> QED
        BY <2>2, <4>1, <4>2
    <3> QED
      BY <1>1, <2>3, <3>2, <3>4
  <2> QED
    BY <2>4, <2>5
<1>5. CASE Stop
  <2>1. ~aborted /\ UNCHANGED <<state, settled, aborted>> /\ (\A i \in Made : ~Waiting(i))
        /\ Record("stop", "waiting")
    BY <1>5 DEF Stop, MayCall, AwaitedOneVcpu
  <2>2. Ending'
    BY <1>1, <2>1 DEF Ending
  <2>3. CallsShape' /\ Asked' = [op |-> "stop", phase |-> "waiting"]
    BY <1>2, <2>1, RecordLast
  <2>4. Dialogue'
    BY <2>3 DEF Dialogue, Told
  <2> QED
    BY <2>2, <2>3, <2>4
<1>6. ASSUME NEW i \in Made, PollWanted(i)
      PROVE CallsShape' /\ Ending' /\ (aborted \/ pc[Boot] \in OverPCs \/ Dialogue)'
  <2>1. /\ Waiting(i) /\ calls[i].op # "stop" /\ state = Wanted(calls[i].op)
        /\ calls' = [calls EXCEPT ![i].phase = "resolved"]
        /\ UNCHANGED <<command, state, settled, aborted>>
    BY <1>6 DEF PollWanted, vars
  <2>2. Ending'
    BY <1>1, <2>1 DEF Ending
  <2>3. CallsShape' /\ i = Cardinality(Made) /\ Made # {} /\ Asked' = [op |-> Asked.op, phase |-> "resolved"]
    BY <2>1, SettleLast
  <2>4. Asked = calls[i] /\ Asked.op \in Ops
    BY <2>3 DEF Asked, LastCall, CallsShape
  <2>5. ASSUME Dialogue PROVE Dialogue'
    <3>1. PICK op \in {"pause", "resume"} : op = Asked.op
      BY <1>2, <2>1, <2>4
    <3>2. PICK call : call = Asked
      OBVIOUS
    <3>3. call.op = op /\ Told(call, command, state, pc[Boot]) /\ state = Wanted(op)
      BY <2>1, <2>4, <2>5, <3>1, <3>2 DEF Dialogue
    <3>4. command' = command /\ state' = state /\ pc' = pc
      BY <1>1, <2>1
    <3>5. Told([op |-> op, phase |-> "resolved"], command', state', pc'[Boot])
      <4>1. CASE op = "pause"
        BY <3>3, <3>4, <4>1 DEF Told, Wanted
      <4>2. CASE op = "resume"
        BY <3>3, <3>4, <4>2 DEF Told, Wanted
      <4> QED
        BY <4>1, <4>2
    <3> QED
      BY <2>3, <3>1, <3>5 DEF Dialogue
  <2> QED
    BY <1>1, <2>1, <2>2, <2>3, <2>5
<1>7. ASSUME NEW i \in Made, PollEnded(i)
      PROVE CallsShape' /\ Ending' /\ (aborted \/ pc[Boot] \in OverPCs \/ Dialogue)'
  <2>1. /\ Waiting(i) /\ settled /\ calls' = [calls EXCEPT ![i].phase = "ended"]
        /\ UNCHANGED <<command, state, settled, aborted>>
    BY <1>7 DEF PollEnded, vars
  <2>2. Ending'
    BY <1>1, <2>1 DEF Ending
  <2>3. CallsShape'
    BY <2>1, SettleLast
  <2>4. aborted \/ pc[Boot] \in OverPCs
    BY <1>3, <2>1 DEF Ending
  <2> QED
    BY <1>1, <2>1, <2>2, <2>3, <2>4
<1>8. CASE WorkerMessage
  <2>1. result # "none" /\ settled' = TRUE /\ state' = "exited" /\ UNCHANGED <<calls, aborted>>
    BY <1>8 DEF WorkerMessage
  <2>2. Ending'
    BY <1>1, <2>1 DEF Ending
  <2>3. CallsShape'
    BY <2>1 DEF CallsShape, Made, Waiting, Ops
  <2>4. pc[Boot] \in OverPCs
    BY <1>3, <2>1 DEF Ending
  <2> QED
    BY <1>1, <2>2, <2>3, <2>4
<1>9. CASE Abort
  <2>1. settled' = TRUE /\ aborted' = TRUE /\ UNCHANGED calls
    BY <1>9 DEF Abort
  <2>2. Ending'
    BY <1>1, <2>1 DEF Ending
  <2>3. CallsShape'
    BY <2>1 DEF CallsShape, Made, Waiting, Ops
  <2> QED
    BY <2>1, <2>2, <2>3
<1> QED
  BY <1>4, <1>5, <1>6, <1>7, <1>8, <1>9 DEF HandleStep

LEMMA InitHandle == ASSUME AwaitedOneVcpu, HandleInit PROVE HandleIInv
<1>1. IInv
  BY InitIInv DEF HandleInit
<1>2. Made = {} /\ Cardinality(Made) = 0
  BY FS_EmptySet DEF HandleInit, Made
<1>3. CallsShape
  <2>1. calls \in [1..0 -> [op : Ops, phase : {"waiting", "resolved", "ended"}]]
    BY DEF HandleInit
  <2>2. 1..0 = {}
    OBVIOUS
  <2>3. settled \in BOOLEAN /\ aborted \in BOOLEAN
    BY DEF HandleInit
  <2>4. Made = 1..0
    BY <1>2, <2>2
  <2>5. calls \in [Made -> [op : Ops, phase : {"waiting", "resolved", "ended"}]]
    BY <2>1, <2>4
  <2>6. Cardinality(Made) \in Nat /\ Made = 1..Cardinality(Made)
    BY <1>2, <2>2
  <2>7. \A i \in Made : Waiting(i) => i = Cardinality(Made)
    BY <1>2
  <2> QED
    BY <2>3, <2>5, <2>6, <2>7 DEF CallsShape
<1>4. pc[Boot] = "main" /\ pc[Watchdog] = "loop"
  BY TwoThreads DEF HandleInit, Init
<1>5. Ending
  BY <1>4 DEF Ending, HandleInit, Init
<1>6. Dialogue
  BY <1>2, <1>4 DEF Dialogue, Asked, Told, LeavingPCs, HandleInit, Init
<1> QED
  BY <1>1, <1>3, <1>5, <1>6 DEF HandleIInv

LEMMA StepHandle == ASSUME AwaitedOneVcpu, HandleIInv, [HandleNext]_allVars PROVE HandleIInv'
<1>1. ASSUME UNCHANGED allVars PROVE HandleIInv'
  <2>1. IInv'
    BY <1>1, StepIInv DEF HandleIInv, allVars
  <2>2. CallsShape' /\ Ending' /\ (aborted \/ pc[Boot] \in OverPCs \/ Dialogue)'
    BY <1>1 DEF HandleIInv, allVars, vars, handleVars, CallsShape, Made, Waiting, Ops, Ending, Dialogue,
         Asked, LastCall
  <2> QED
    BY <2>1, <2>2 DEF HandleIInv
<1>2. CASE RunnerNext /\ UNCHANGED handleVars
  <2>1. IInv'
    BY <1>2, StepIInv DEF HandleIInv, Next
  <2>2. Ending'
    BY <1>2, NativeEnding DEF HandleIInv
  <2>3. CallsShape' /\ aborted' = aborted
    BY <1>2 DEF HandleIInv, handleVars, CallsShape, Made, Waiting, Ops
  <2>4. aborted \/ pc'[Boot] \in OverPCs \/ Dialogue'
    BY <1>2, NativeDialogue DEF HandleIInv
  <2> QED
    BY <2>1, <2>2, <2>3, <2>4 DEF HandleIInv
<1>3. CASE HandleStep
  BY <1>3, HandleKeepsRunner, HandleTells DEF HandleIInv
<1>4. CASE Returned /\ UNCHANGED handleVars
  BY <1>1, <1>4 DEF Returned, allVars
<1> QED
  BY <1>1, <1>2, <1>3, <1>4 DEF HandleNext

\* A pause() that resolved and was not followed by another call has parked the
\* vCPU.
LEMMA HandleIsSafe == ASSUME AwaitedOneVcpu, HandleIInv PROVE HandleSafe
<1>1. HandleTypeOK
  BY DEF HandleIInv, HandleTypeOK, IInv, CallsShape, Made
<1>2. ASSUME ~aborted, Made # {}, LastCall.op = "pause", LastCall.phase = "resolved"
      PROVE \A c \in CPUs : pc[c] \notin {"clear", "enter", "guest"}
  <2>1. CASE pc[Boot] \in OverPCs
    BY <2>1, TwoThreads DEF OverPCs, CallPCs, JoinedPCs
  <2>2. CASE Dialogue
    BY <1>2, <2>2, TwoThreads DEF Dialogue, Asked, Told
  <2> QED
    BY <1>2, <2>1, <2>2 DEF HandleIInv
<1> QED
  BY <1>1, <1>2 DEF HandleSafe, PauseParksGuest

\* startVm's handle over RunVm, for a VM with one vCPU and no console input, and
\* a caller that awaits each call: between a pause() that resolved and the next
\* call the vCPU is not in the guest and not about to enter it, whatever the
\* watchdog, the deadline and the abort signal do.
THEOREM HandleSafeHolds == AwaitedOneVcpu => (HandleSpec => []HandleSafe)
<1>1. AwaitedOneVcpu /\ HandleInit => HandleIInv
  BY InitHandle
<1>2. AwaitedOneVcpu /\ HandleIInv /\ [HandleNext]_allVars => HandleIInv'
  BY StepHandle
<1>3. AwaitedOneVcpu /\ HandleIInv => HandleSafe
  BY HandleIsSafe
<1>4. CASE AwaitedOneVcpu
  BY <1>1, <1>2, <1>3, <1>4, PTL DEF HandleSpec
<1> QED
  BY <1>4
=============================================================================
