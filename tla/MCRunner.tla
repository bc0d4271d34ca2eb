------------------------------ MODULE MCRunner ------------------------------
(* The run loop with two vCPUs.  For TLC the clock starts only before the    *)
(* second vCPU's thread has begun its loop and before Ctrl-C; from then on   *)
(* nobody presses Ctrl-C, and that thread waits until the VM is done.        *)
EXTENDS VmRunner

ApsWait == \A a \in APs : pc[a] \in {"unborn", "thread"}

ClockBound ==
  now' > 0 => /\ ~hostInterruptRequested'
              /\ ApsWait' \/ (vmDone /\ now' = now)
=============================================================================
