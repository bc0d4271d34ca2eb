---------------------------- MODULE HostNetwork ----------------------------
(***************************************************************************)
(* Automatic networking on Linux: src/net.ts, setupNetwork in mode "auto",  *)
(* its cleanupAuto, and the TCP proxies of setupPortForwards.  Several VMs  *)
(* set up, run and unwind at the same time on one host; every command may   *)
(* fail, and a host port may be taken by another VM.                        *)
(***************************************************************************)
EXTENDS Integers, Sequences, FiniteSets

CONSTANTS
  VMs,
  Taps, Octets, HostPorts,  \* interface names, subnets, TCP ports of the host
  TapOf,      \* compactIdForTap: the interface of a VM
  OctetOf,    \* randomSubnetOctet: its subnet
  NoLink,     \* the state of an interface that does not exist
  Forwards,   \* the host ports it asks for, in order; 0 takes any free one
  MaxRuns,    \* bound: calls of setupNetwork, of all VMs
  MaxFaults   \* bound: commands that fail

ASSUME NetAssumption ==
  /\ IsFiniteSet(VMs)
  /\ TapOf \in [VMs -> Taps] /\ OctetOf \in [VMs -> Octets]
  /\ HostPorts \subseteq Nat \ {0}
  /\ Forwards \in [VMs -> Seq(HostPorts \union {0})]
  /\ MaxRuns \in Nat /\ MaxFaults \in Nat

VARIABLES
  pc,        \* where each VM's setup or cleanup stands
  links,     \* the state of each interface of the host
  rules,     \* how often each iptables rule is installed
  created,   \* Len(createdRules) of each VM
  bound,     \* the host ports each VM's proxies listen on
  conns,     \* the proxied connection, at most one per VM and host port
  runs, faults,
  leaks      \* history: cleanup commands that failed

cmdVars == <<links, rules, created>>
proxyVars == <<bound, conns>>
vars == <<pc, cmdVars, proxyVars, runs, faults, leaks>>

\* natRule, fwdIn and fwdOut.
Rules == {<<"nat", o>> : o \in Octets} \union ({"in", "out"} \X Taps)
RuleOf(v, i) == << <<"nat", OctetOf[v]>>, <<"in", TapOf[v]>>, <<"out", TapOf[v]>> >>[i]

Listening(v) == {bound[v][i] : i \in DOMAIN bound[v]}
Taken == UNION {Listening(v) : v \in VMs}
Connected(v) == {p \in HostPorts : conns[v][p] # "none"}
NoConns == [p \in HostPorts |-> "none"]

Init ==
  /\ pc = [v \in VMs |-> "idle"]
  /\ links = [t \in Taps |-> NoLink] /\ rules = [r \in Rules |-> 0]
  /\ created = [v \in VMs |-> 0] /\ bound = [v \in VMs |-> <<>>]
  /\ conns = [v \in VMs |-> NoConns]
  /\ runs = 0 /\ faults = 0 /\ leaks = 0

Goto(v, from, to) == pc[v] = from /\ pc' = [pc EXCEPT ![v] = to]

\* A command that fails by itself.
Fault == faults < MaxFaults /\ faults' = faults + 1

-----------------------------------------------------------------------------
(* setupNetwork.                                                            *)

Start(v) ==
  /\ runs < MaxRuns /\ runs' = runs + 1
  /\ Goto(v, "idle", "tuntap")
  /\ created' = [created EXCEPT ![v] = 0] /\ bound' = [bound EXCEPT ![v] = <<>>]
  /\ UNCHANGED <<links, rules, conns, faults, leaks>>

\* ip tuntap add refuses an interface that exists, the other commands one that
\* does not; ip addr add refuses an address the interface has.
Possible(v) ==
  CASE pc[v] = "tuntap" -> links[TapOf[v]] = NoLink
    [] pc[v] = "addr" -> links[TapOf[v]] # NoLink /\ OctetOf[v] \notin links[TapOf[v]].addrs
    [] pc[v] = "linkup" -> links[TapOf[v]] # NoLink
    [] OTHER -> TRUE

TunTapAdd(v) ==
  /\ Possible(v)
  /\ Goto(v, "tuntap", "addr")
  /\ links' = [links EXCEPT ![TapOf[v]] = [addrs |-> {}, up |-> FALSE]]
  /\ UNCHANGED <<rules, created, proxyVars, runs, faults, leaks>>

AddrAdd(v) ==
  /\ Possible(v)
  /\ Goto(v, "addr", "linkup")
  /\ links' = [links EXCEPT ![TapOf[v]].addrs = @ \union {OctetOf[v]}]
  /\ UNCHANGED <<rules, created, proxyVars, runs, faults, leaks>>

\* The sysctl that follows may fail and nothing depends on its result.
LinkUp(v) ==
  /\ Possible(v)
  /\ Goto(v, "linkup", "rules")
  /\ links' = [links EXCEPT ![TapOf[v]].up = TRUE]
  /\ UNCHANGED <<rules, created, proxyVars, runs, faults, leaks>>

\* One turn of the loop over the rules; the last one goes on to the proxies.
AddRule(v) ==
  /\ Goto(v, "rules", IF created[v] = 2 THEN "listen" ELSE "rules")
  /\ created' = [created EXCEPT ![v] = @ + 1]
  /\ rules' = [rules EXCEPT ![RuleOf(v, created[v] + 1)] = @ + 1]
  /\ UNCHANGED <<links, proxyVars, runs, faults, leaks>>

\* Into cleanupAuto, where portForwards is still undefined.
CommandFails(v) ==
  /\ pc[v] \in {"tuntap", "addr", "linkup", "rules"}
  /\ \/ Fault
     \/ ~Possible(v) /\ UNCHANGED faults
  /\ pc' = [pc EXCEPT ![v] = "unrule"]
  /\ UNCHANGED <<cmdVars, proxyVars, runs, leaks>>

Wanted(v) == Forwards[v][Len(bound[v]) + 1]
Free(v) == {p \in HostPorts \ Taken : Wanted(v) \in {0, p}}

Listen(v) ==
  /\ pc[v] = "listen" /\ Len(bound[v]) < Len(Forwards[v])
  /\ \E p \in Free(v) : bound' = [bound EXCEPT ![v] = Append(@, p)]
  /\ UNCHANGED <<pc, cmdVars, conns, runs, faults, leaks>>

\* Plausible bug: the servers that already listen stay open.
ListenFailsOpen(v) ==
  /\ Len(bound[v]) < Len(Forwards[v])
  /\ \/ Free(v) = {} /\ UNCHANGED faults
     \/ Fault
  /\ Goto(v, "listen", "unrule")
  /\ UNCHANGED <<cmdVars, proxyVars, runs, leaks>>

\* The address is in use, or listen fails: setupPortForwards closes the
\* servers it has, destroys no socket, and waits for the connections to end.
ListenFails(v) ==
  /\ Len(bound[v]) < Len(Forwards[v])
  /\ \/ Free(v) = {} /\ UNCHANGED faults
     \/ Fault
  /\ Goto(v, "listen", "aborting")
  /\ bound' = [bound EXCEPT ![v] = <<>>]
  /\ UNCHANGED <<cmdVars, conns, runs, leaks>>

\* setupNetwork returns and the guest boots.
Ready(v) ==
  /\ Len(bound[v]) = Len(Forwards[v])
  /\ Goto(v, "listen", "running")
  /\ UNCHANGED <<cmdVars, proxyVars, runs, faults, leaks>>

-----------------------------------------------------------------------------
(* cleanupAuto.                                                             *)

\* Plausible bug: cleanup leaves it to the peers to close their connections.
CleanupKeepsSockets(v) ==
  /\ Goto(v, "running", "closing")
  /\ bound' = [bound EXCEPT ![v] = <<>>]
  /\ UNCHANGED <<cmdVars, conns, runs, faults, leaks>>

\* The cleanup of the proxies: every server is closed and every socket
\* destroyed before the first await.
Cleanup(v) ==
  /\ Goto(v, "running", "closing")
  /\ bound' = [bound EXCEPT ![v] = <<>>]
  /\ conns' = [conns EXCEPT ![v] = NoConns]
  /\ UNCHANGED <<cmdVars, runs, faults, leaks>>

\* server.close() calls back when the last connection is gone.
ServersClosed(v) ==
  /\ Connected(v) = {}
  /\ Goto(v, "closing", "unrule") \/ Goto(v, "aborting", "unrule")
  /\ UNCHANGED <<cmdVars, proxyVars, runs, faults, leaks>>

\* iptables -D of the rules in reverse order; a failure is ignored.
DeleteRule(v) ==
  /\ pc[v] = "unrule" /\ created[v] > 0
  /\ created' = [created EXCEPT ![v] = @ - 1]
  /\ \/ rules' = [rules EXCEPT ![RuleOf(v, created[v])] = @ - 1] /\ UNCHANGED <<faults, leaks>>
     \/ Fault /\ leaks' = leaks + 1 /\ UNCHANGED rules
  /\ UNCHANGED <<pc, links, proxyVars, runs>>

\* ip link delete, whether or not this VM created the interface.
DeleteLink(v) ==
  /\ created[v] = 0
  /\ Goto(v, "unrule", "idle")
  /\ \/ links' = [links EXCEPT ![TapOf[v]] = NoLink] /\ UNCHANGED <<faults, leaks>>
     \/ Fault /\ leaks' = leaks + 1 /\ UNCHANGED links
  /\ UNCHANGED <<rules, created, proxyVars, runs>>

-----------------------------------------------------------------------------
(* The proxies' clients and the guest.                                      *)

\* A client connects and the proxy starts to connect to the guest.
Connect(v, p) ==
  /\ p \in Listening(v) /\ conns[v][p] = "none"
  /\ conns' = [conns EXCEPT ![v][p] = "connecting"]
  /\ UNCHANGED <<pc, cmdVars, bound, runs, faults, leaks>>

\* The proxy connects to an address, which the guest of any VM of the subnet has:
\* during v's own setup another VM's guest answers.
Establish(v, p) ==
  /\ \E w \in VMs : pc[w] = "running" /\ OctetOf[w] = OctetOf[v]
  /\ conns[v][p] = "connecting"
  /\ conns' = [conns EXCEPT ![v][p] = "established"]
  /\ UNCHANGED <<pc, cmdVars, bound, runs, faults, leaks>>

\* closeBoth: the guest does not answer, or an end closes.
UpstreamFails(v, p) ==
  /\ conns[v][p] = "connecting"
  /\ conns' = [conns EXCEPT ![v][p] = "none"]
  /\ UNCHANGED <<pc, cmdVars, bound, runs, faults, leaks>>

PeerCloses(v, p) ==
  /\ conns[v][p] = "established"
  /\ conns' = [conns EXCEPT ![v][p] = "none"]
  /\ UNCHANGED <<pc, cmdVars, bound, runs, faults, leaks>>

-----------------------------------------------------------------------------

SetupStep(v) ==
  \/ TunTapAdd(v) \/ AddrAdd(v) \/ LinkUp(v) \/ AddRule(v) \/ CommandFails(v)
  \/ Listen(v) \/ ListenFails(v) \/ Ready(v)

UnwindStep(v) == ServersClosed(v) \/ DeleteRule(v) \/ DeleteLink(v)

Next ==
  \E v \in VMs :
    \/ Start(v) \/ SetupStep(v) \/ Cleanup(v) \/ UnwindStep(v)
    \/ \E p \in HostPorts :
         Connect(v, p) \/ Establish(v, p) \/ UpstreamFails(v, p) \/ PeerCloses(v, p)

Spec == Init /\ [][Next]_vars

-----------------------------------------------------------------------------
(* Properties.                                                              *)

Places == {"idle", "tuntap", "addr", "linkup", "rules", "listen", "running",
           "closing", "aborting", "unrule"}

TypeOK ==
  /\ pc \in [VMs -> Places]
  /\ links \in [Taps -> [addrs : SUBSET Octets, up : BOOLEAN] \union {NoLink}]
  /\ rules \in [Rules -> Nat]
  /\ created \in [VMs -> 0..3]
  /\ bound \in [VMs -> Seq(HostPorts)]
  /\ conns \in [VMs -> [HostPorts -> {"none", "connecting", "established"}]]
  /\ runs \in 0..MaxRuns /\ faults \in 0..MaxFaults /\ leaks \in 0..faults

OwnTap(v) == \A w \in VMs \ {v} : TapOf[w] # TapOf[v]

\* A running VM keeps its three rules and its ports, whatever the others set up,
\* fail at or unwind, also when one shares its subnet, and so its NAT rule, or wants
\* its port; and its interface, unless another VM has its name and deletes it.
RunningKeepsNetwork ==
  \A v \in VMs : pc[v] = "running" =>
    /\ OwnTap(v) => links[TapOf[v]] = [addrs |-> {OctetOf[v]}, up |-> TRUE]
    /\ \A i \in 1..3 : rules[RuleOf(v, i)] > 0
    /\ Len(bound[v]) = Len(Forwards[v])
    /\ \A w \in VMs \ {v} : Listening(v) \intersect Listening(w) = {}

\* When every VM is gone, after whatever failed in its setup, and no command
\* of a cleanup failed, the host is as it was: no interface, rule, listening
\* port or connection is left.
HostRestored ==
  (\A v \in VMs : pc[v] = "idle") /\ leaks = 0 =>
    /\ \A t \in Taps : links[t] = NoLink
    /\ \A r \in Rules : rules[r] = 0
    /\ Taken = {} /\ \A v \in VMs : Connected(v) = {}

\* A failed setup whose proxies are connected to another VM's guest, in the same subnet.
WaitsForStranger(v) ==
  /\ pc[v] = "aborting" /\ \E p \in HostPorts : conns[v][p] = "established"
  /\ \E w \in VMs \ {v} : OctetOf[w] = OctetOf[v]

\* A cleanup ends, although closing its servers waits for the proxied connections.
\* So does a failed setup, unless a proxy that was listening already has been
\* connected to the guest of another VM: that one may keep it for ever.
Unwinds ==
  \A v \in VMs : []<>(pc[v] \notin {"closing", "aborting", "unrule"} \/ WaitsForStranger(v))

\* A running VM keeps its rules and proxies, and its interface if no other VM has
\* its name (else that one's cleanup deletes it); what the VMs set up is gone when
\* all are done and no removal failed.
NetworkSafe == TypeOK /\ RunningKeepsNetwork /\ HostRestored
=============================================================================
