------------------------------ MODULE MCWindows ------------------------------
(* The threads of the Windows backend: the console writer, the run loop and  *)
(* the input threads, and the helper at the guest's end of the console, one  *)
(* of them in each behaviour, with the fairness assumed of that one alone.   *)
EXTENDS ConsoleWriter, WhpRunner, WhpInput, GuestConsole

VARIABLE part

WindowsInit ==
  /\ part \in {"console", "run", "input", "guest"}
  /\ ConInit /\ WhpInit /\ InInit /\ GconInit
  /\ part # "run" => rootfs = TRUE

WindowsNext ==
  \/ part = "console" /\ ConNext /\ UNCHANGED <<whpVars, inVars, gconVars, part>>
  \/ part = "run" /\ WhpNext /\ UNCHANGED <<conVars, inVars, gconVars, part>>
  \/ part = "input" /\ InNext /\ UNCHANGED <<conVars, whpVars, gconVars, part>>
  \/ part = "guest" /\ GconNext /\ UNCHANGED <<conVars, whpVars, inVars, part>>

\* The operating system schedules every thread, condition variables wake their
\* sleepers and WriteFile returns; the guest reads its console but owes no
\* exit, and nobody need type.  Of the guest's processes only the helper is fair.
WindowsFairness ==
  /\ WF_conVars(part = "console" /\ WriterSteps) /\ WF_conVars(part = "console" /\ StopJoins)
  /\ WF_conVars(part = "console" /\ (FlushWrite \/ AppendOwn \/ CursorReply))
  /\ \A c \in Vcpus : WF_whpVars(part = "run" /\ VcpuRuns(c))
  /\ WF_whpVars(part = "run" /\ MainRuns) /\ WF_whpVars(part = "run" /\ DogRuns)
  /\ WF_inVars(part = "input" /\ ReaderRuns) /\ WF_inVars(part = "input" /\ PumpRuns)
  /\ WF_inVars(part = "input" /\ StopRuns) /\ WF_inVars(part = "input" /\ GuestReads)
  /\ WF_gconVars(part = "guest" /\ HelperRuns)

WindowsSpec ==
  WindowsInit /\ [][WindowsNext]_<<conVars, whpVars, inVars, gconVars, part>> /\ WindowsFairness
=============================================================================
