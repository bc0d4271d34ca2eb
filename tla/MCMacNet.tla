------------------------------ MODULE MCMacNet ------------------------------
(* The run loop of the macOS backend and the host's network set-up, one of   *)
(* them in each behaviour, with the fairness assumed of that one alone.      *)
(* Host network: v1 shares its subnet with v2 and wants the host port v2     *)
(* wants; the names of v2 and v3 give the same interface name.               *)
EXTENDS HvfRunner, HostNetwork

CONSTANTS v1, v2, v3

VARIABLE part

MCVMs == {v1, v2, v3}
MCTaps == {"jcalpha", "jcbeta"}
MCOctets == {80, 81}
MCTapOf == [v \in MCVMs |-> IF v = v1 THEN "jcalpha" ELSE "jcbeta"]
MCOctetOf == [v \in MCVMs |-> IF v = v3 THEN 81 ELSE 80]
MCForwards == [v \in MCVMs |-> CASE v = v1 -> <<1, 0>> [] v = v2 -> <<1>> [] v = v3 -> <<>>]

MacNetInit == part \in {"hvf", "net"} /\ HvfInit /\ Init

MacNetNext ==
  \/ part = "hvf" /\ HvfNext /\ UNCHANGED <<vars, part>>
  \/ part = "net" /\ Next /\ UNCHANGED <<hvfVars, part>>

\* Every thread is scheduled (lifecycle_mu is held briefly); the guest owes no
\* exit and the user need not press Ctrl-].  Commands end and the event loop
\* turns; a connection attempt to a guest that is not there times out, but an
\* established connection may stay open for ever, and so may a VM.
MacNetFairness ==
  /\ \A c \in HCpus : WF_hvfVars(part = "hvf" /\ HvfVcpuRuns(c))
  /\ WF_hvfVars(part = "hvf" /\ CallerRuns) /\ WF_hvfVars(part = "hvf" /\ MonitorRuns)
  /\ WF_hvfVars(part = "hvf" /\ CallRuns(Input)) /\ WF_hvfVars(part = "hvf" /\ InputEnds)
  /\ \A v \in VMs :
       /\ WF_vars(part = "net" /\ SetupStep(v)) /\ WF_vars(part = "net" /\ UnwindStep(v))
       /\ \A p \in HostPorts : WF_vars(part = "net" /\ UpstreamFails(v, p))

MacNetSpec == MacNetInit /\ [][MacNetNext]_<<hvfVars, vars, part>> /\ MacNetFairness
=============================================================================
