------------------------------- MODULE MCHost -------------------------------
(* What the host keeps on disk: the named root disks of PersistentDisk, the *)
(* sessions of VmSession and the RAM snapshots of RamSnapshot, one of the   *)
(* three in each behaviour.  The interchangeable sessions are a symmetry    *)
(* set.                                                                     *)
EXTENDS PersistentDisk, VmSession, RamSnapshot, TLC

VARIABLE part

Request(op, sandbox, keep) == [op |-> op, sandbox |-> sandbox, keep |-> keep]

MCRequests ==
  {Request("image", FALSE, {}), Request("build", FALSE, {"rootfs"}),
   Request("rootfs", FALSE, {}), Request("boot", TRUE, {"overlay"}),
   Request("disk", FALSE, {}), Request("diskReset", FALSE, {}),
   Request("snapshot", FALSE, {}), Request("snapshotOf", FALSE, {}),
   Request("restore", TRUE, {}),
   Request("prepare", FALSE, {}),
   Request("template", TRUE, {}), Request("template", FALSE, {})}

\* A user who prepares a sandbox and runs a command in it.
SandboxRequests == {Request("prepare", FALSE, {}), Request("template", TRUE, {})}

Symmetry == Permutations(Sessions)

HostInit ==
  /\ DiskInit /\ Init /\ RamInit
  /\ part \in {"disk", "session", "ram"} /\ (part # "session" => ~manifest)

HostNext ==
  \/ part = "disk" /\ DiskNext /\ UNCHANGED <<vars, ramVars, part>>
  \/ part = "session" /\ Next /\ UNCHANGED <<diskVars, ramVars, part>>
  \/ part = "ram" /\ RamNext /\ UNCHANGED <<diskVars, vars, part>>

HostSpec == HostInit /\ [][HostNext]_<<diskVars, vars, ramVars, part>>
=============================================================================
