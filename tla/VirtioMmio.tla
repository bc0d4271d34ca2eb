----------------------------- MODULE VirtioMmio -----------------------------
(***************************************************************************)
(* The virtio-mmio registers of the block, network and random number        *)
(* devices of the three backends, between the Linux virtio-mmio driver,     *)
(* which probes a device register by register, may start over at any point *)
(* (a reset by a new driver or a kexec), and then works with its queues,   *)
(* and the host, whose frames a network device stores.  A register access  *)
(* is one step: an MMIO exit handled under the backend's device lock.      *)
(* What a request does is left to VirtioBlk, OverlayDisk, NetFrames.       *)
(*                                                                         *)
(* KVM and HVF drive a level-triggered line; WHP latches an edge for each  *)
(* raise_irq_.  Register values are abstracted: a status is a set of bits, *)
(* a 64-bit register is its two halves, and an address or a feature word   *)
(* is a number that tells its driver.                                      *)
(***************************************************************************)
EXTENDS Naturals, Sequences

CONSTANTS
  kMaxQueueSize,  \* 256 in the code
  RngQueueSize,   \* 64 in the code
  MaxProbes, MaxSubmits

ASSUME MmioAssumption ==
  kMaxQueueSize \in Nat \ {0} /\ RngQueueSize \in Nat \ {0} /\ MaxProbes \in Nat /\ MaxSubmits \in Nat

VARIABLES
  dev,     \* the registers of the device and the level (or latch) of its line
  vring,   \* guest memory, for each queue: avail and used index, what the driver collected
  mdrv     \* the driver: its program, where it is, what it was offered, its handler

mmioVars == <<dev, vring, mdrv>>

Nets  == {"kvmNet", "hvfNet"}
Kinds == Nets \cup {"kvmBlk", "hvfBlk", "whpBlk", "rng"}
Slots(kind) == CASE kind \in Nets -> 0..1 [] kind = "rng" -> {0}
                 [] OTHER -> 0..2                        \* queues_[8]
Uses(kind)  == IF kind \in Nets THEN <<0, 1>> ELSE <<0>>
Rings == {"desc", "driver", "device"}
Zero  == [lo |-> 0, hi |-> 0]

NumMax(kind) == IF kind = "rng" THEN RngQueueSize ELSE kMaxQueueSize
NewQueue(kind) == [size |-> NumMax(kind), ready |-> FALSE, last |-> 0,
                     desc |-> Zero, driver |-> Zero, device |-> Zero]
Fresh(kind) ==
  [kind |-> kind, status |-> {}, drv |-> Zero, dsel |-> 0, fsel |-> 0, qsel |-> 0,
   isr |-> FALSE, line |-> FALSE, queues |-> [q \in Slots(kind) |-> NewQueue(kind)]]

NewRing == [avail |-> 0, used |-> 0, seen |-> 0]

-----------------------------------------------------------------------------
\* The driver's program: reset, negotiate, set up each queue, go.
Wr(reg, half, v) == <<reg, half, v>>
SetUp(q, n, gen) ==
  <<Wr("QueueSel", "", q), Wr("QueueNum", "", n),
    Wr("desc", "lo", gen), Wr("desc", "hi", gen), Wr("driver", "lo", gen), Wr("driver", "hi", gen),
    Wr("device", "lo", gen), Wr("device", "hi", gen), Wr("QueueReady", "", 1)>>
Program(kind, n, gen) ==
  <<Wr("Status", "", "reset"), Wr("Status", "", "acknowledge"), Wr("Status", "", "driver"),
    Wr("DeviceFeaturesSel", "", 1), Wr("ReadOffer", "hi", 0),
    Wr("DeviceFeaturesSel", "", 0), Wr("ReadOffer", "lo", 0),
    Wr("DriverFeaturesSel", "", 1), Wr("DriverFeatures", "hi", 0),
    Wr("DriverFeaturesSel", "", 0), Wr("DriverFeatures", "lo", 0),
    Wr("Status", "", "featuresOk")>>
  \o SetUp(0, n, gen) \o (IF Len(Uses(kind)) = 2 THEN SetUp(1, n, gen) ELSE <<>>)
  \o <<Wr("Status", "", "driverOk")>>

MmioInit ==
  \E kind \in Kinds :
    /\ dev = Fresh(kind)
    /\ vring = [q \in Slots(kind) |-> NewRing]
    /\ mdrv = [size |-> 0, gen |-> 0, pc |-> 0, offer |-> Zero, isr |-> "idle", submits |-> 0, quiet |-> FALSE]

Running == mdrv.gen > 0 /\ mdrv.pc > Len(Program(dev.kind, mdrv.size, mdrv.gen))

-----------------------------------------------------------------------------
\* read_reg of the features the driver negotiates over; VERSION_1 is in the
\* high half, what the device itself offers in the low one.
Offers(d, low) == IF d.dsel = 1 THEN 1 ELSE low
kvm_blk_read_reg(d) == Offers(d, 9)
hvf_blk_read_reg(d) == Offers(d, 9)
whp_blk_read_reg(d) == Offers(d, 9)
rng_read_reg(d)     == Offers(d, 0)
kvm_net_read_reg(d) == Offers(d, 21)
hvf_net_read_reg(d) == Offers(d, 21)
DeviceFeatures(d) ==
  CASE d.kind = "kvmBlk" -> kvm_blk_read_reg(d) [] d.kind = "hvfBlk" -> hvf_blk_read_reg(d)
    [] d.kind = "whpBlk" -> whp_blk_read_reg(d) [] d.kind = "rng" -> rng_read_reg(d)
    [] d.kind = "kvmNet" -> kvm_net_read_reg(d) [] d.kind = "hvfNet" -> hvf_net_read_reg(d)

\* The registers every device treats alike: a write to one half keeps the other.
Common(d, reg, half, v) ==
  CASE reg = "DeviceFeaturesSel" -> [d EXCEPT !.dsel = v]
    [] reg = "DriverFeaturesSel" -> [d EXCEPT !.fsel = v]
    [] reg = "DriverFeatures"    -> [d EXCEPT !.drv[IF d.fsel = 0 THEN "lo" ELSE "hi"] = v]
    [] reg \in Rings             -> [d EXCEPT !.queues[d.qsel][reg][half] = v]
    [] reg = "Status"            -> [d EXCEPT !.status = v]

Select(d, v)  == IF v \in Slots(d.kind) THEN [d EXCEPT !.qsel = v] ELSE d
Size(d, v)    == IF v \in 1..NumMax(d.kind) THEN [d EXCEPT !.queues[d.qsel].size = v] ELSE d
Ready(d, v)   == [d EXCEPT !.queues[d.qsel].ready = v # 0]
Resets(reg, v) == reg = "Status" /\ v = {}

\* handle_queue takes what the avail index read at its start covers.
Handled(d, q) == [d EXCEPT !.queues[q].last = vring[q].avail]

Raised(d) == [d EXCEPT !.isr = TRUE, !.line = TRUE]
Acked(d)  == [d EXCEPT !.isr = FALSE, !.line = FALSE]

\* Plausible bug: the queues keep their position.
reset_KeepLast(d) ==
  [Fresh(d.kind) EXCEPT !.queues = [q \in Slots(d.kind) |->
     [NewQueue(d.kind) EXCEPT !.last = d.queues[q].last]]]
kvm_reset(d) == Fresh(d.kind)
hvf_reset(d) == Fresh(d.kind)
\* WHP has no line to lower: a latched edge stays.
whp_reset(d) == [Fresh(d.kind) EXCEPT !.line = d.line]
rng_reset(d) == [Fresh(d.kind) EXCEPT !.line = d.line]
kvm_net_reset(d) == Fresh(d.kind)
hvf_net_reset(d) == Fresh(d.kind)

kvm_blk_write_reg(d, reg, half, v) ==
  CASE reg = "QueueSel" -> Select(d, v) [] reg = "QueueNum" -> Size(d, v)
    [] reg = "QueueReady" -> Ready(d, v)
    [] reg = "QueueNotify" -> IF d.queues[v].ready THEN Raised(Handled(d, v)) ELSE d
    [] reg = "InterruptAck" -> Acked(d)
    [] Resets(reg, v) -> kvm_reset(d)
    [] OTHER -> Common(d, reg, half, v)

IsPowerOfTwo(n) == \E k \in 0..8 : n = 2^k
ValidVirtQueue(q) == IsPowerOfTwo(q.size) /\ q.size <= kMaxQueueSize
\* HVF refuses a queue it could not use and asks for a reset.
ReadyIfValid(d, v) ==
  IF v # 0 /\ ~ValidVirtQueue(d.queues[d.qsel])
  THEN [d EXCEPT !.queues[d.qsel].ready = FALSE, !.status = @ \cup {"needsReset"}]
  ELSE Ready(d, v)

hvf_blk_write_reg(d, reg, half, v) ==
  CASE reg = "QueueSel" -> Select(d, v) [] reg = "QueueNum" -> Size(d, v)
    [] reg = "QueueReady" -> ReadyIfValid(d, v)
    [] reg = "QueueNotify" -> IF d.queues[v].ready THEN Raised(Handled(d, v)) ELSE d
    [] reg = "InterruptAck" -> Acked(d)
    [] Resets(reg, v) -> hvf_reset(d)
    [] OTHER -> Common(d, reg, half, v)

whp_blk_write_reg(d, reg, half, v) ==
  CASE reg = "QueueSel" -> Select(d, v) [] reg = "QueueNum" -> Size(d, v)
    [] reg = "QueueReady" -> Ready(d, v)
    [] reg = "QueueNotify" -> IF d.queues[v].ready THEN Raised(Handled(d, v)) ELSE d
    [] reg = "InterruptAck" -> [d EXCEPT !.isr = FALSE]
    [] Resets(reg, v) -> whp_reset(d)
    [] OTHER -> Common(d, reg, half, v)

\* Nothing handled, or a driver that set the ring's NO_INTERRUPT flag: silent.
rng_handle_queue(d) ==
  IF ~d.queues[0].ready \/ \E r \in Rings : d.queues[0][r] = Zero THEN d
  ELSE IF d.queues[0].last = vring[0].avail THEN d
  ELSE IF mdrv.quiet THEN Handled(d, 0) ELSE Raised(Handled(d, 0))
rng_write_reg(d, reg, half, v) ==
  CASE reg = "QueueSel" -> [d EXCEPT !.qsel = v]
    [] reg = "QueueNum" -> IF d.qsel = 0 THEN Size(d, v) ELSE d
    [] reg = "QueueReady" -> IF d.qsel = 0 THEN Ready(d, v) ELSE d
    [] reg = "QueueNotify" -> IF v = 0 THEN rng_handle_queue(d) ELSE d
    [] reg = "InterruptAck" -> [d EXCEPT !.isr = FALSE]
    [] Resets(reg, v) -> rng_reset(d)
    [] OTHER -> Common(d, reg, half, v)

\* Notifying the receive queue polls (HostFrame); a transmit notify signals
\* each packet it takes.
TransmitNotify(d, v) ==
  IF v = 1 /\ d.queues[1].ready /\ d.queues[1].last # vring[1].avail THEN Raised(Handled(d, 1)) ELSE d
kvm_net_write_reg(d, reg, half, v) ==
  CASE reg = "QueueSel" -> Select(d, v) [] reg = "QueueNum" -> Size(d, v)
    [] reg = "QueueReady" -> Ready(d, v) [] reg = "QueueNotify" -> TransmitNotify(d, v)
    [] reg = "InterruptAck" -> Acked(d)
    [] Resets(reg, v) -> kvm_net_reset(d)
    [] OTHER -> Common(d, reg, half, v)
hvf_net_write_reg(d, reg, half, v) ==
  CASE reg = "QueueSel" -> Select(d, v) [] reg = "QueueNum" -> Size(d, v)
    [] reg = "QueueReady" -> ReadyIfValid(d, v) [] reg = "QueueNotify" -> TransmitNotify(d, v)
    [] reg = "InterruptAck" -> Acked(d)
    [] Resets(reg, v) -> hvf_net_reset(d)
    [] OTHER -> Common(d, reg, half, v)

MmioWriteReg(d, reg, half, v) ==
  CASE d.kind = "kvmBlk" -> kvm_blk_write_reg(d, reg, half, v)
    [] d.kind = "hvfBlk" -> hvf_blk_write_reg(d, reg, half, v)
    [] d.kind = "whpBlk" -> whp_blk_write_reg(d, reg, half, v)
    [] d.kind = "rng"    -> rng_write_reg(d, reg, half, v)
    [] d.kind = "kvmNet" -> kvm_net_write_reg(d, reg, half, v)
    [] d.kind = "hvfNet" -> hvf_net_write_reg(d, reg, half, v)

\* The device wrote to the used ring what it took.
Writes(d) ==
  /\ dev' = d
  /\ vring' = [q \in DOMAIN vring |-> [vring[q] EXCEPT !.used = @ + d.queues[q].last - dev.queues[q].last]]

-----------------------------------------------------------------------------
\* A driver starts, or starts over, with rings of its own.
Probe(n) ==
  /\ mdrv.gen < MaxProbes /\ mdrv.isr = "idle"
  /\ mdrv' = [mdrv EXCEPT !.gen = @ + 1, !.pc = 1, !.size = n, !.quiet = FALSE]
  /\ UNCHANGED <<dev, vring>>

ProbeStep ==
  /\ mdrv.gen > 0 /\ ~Running
  /\ LET step == Program(dev.kind, mdrv.size, mdrv.gen)[mdrv.pc]
         reg == step[1]  half == step[2]
         v == CASE reg = "Status" -> IF step[3] = "reset" THEN {} ELSE dev.status \cup {step[3]}
                [] reg = "DriverFeatures" -> mdrv.offer[half]
                [] OTHER -> step[3]
     IN  IF reg = "ReadOffer"
         THEN /\ mdrv' = [mdrv EXCEPT !.pc = @ + 1, !.offer[half] = DeviceFeatures(dev)]
              /\ UNCHANGED <<dev, vring>>
         ELSE /\ mdrv' = [mdrv EXCEPT !.pc = @ + 1]
              /\ dev' = MmioWriteReg(dev, reg, half, v)
              /\ vring' = IF Resets(reg, v) THEN [q \in DOMAIN vring |-> NewRing] ELSE vring

Submit(q) ==
  /\ Running /\ mdrv.submits < MaxSubmits /\ \E i \in DOMAIN Uses(dev.kind) : Uses(dev.kind)[i] = q
  /\ vring' = [vring EXCEPT ![q].avail = @ + 1]
  /\ mdrv' = [mdrv EXCEPT !.submits = @ + 1]
  /\ UNCHANGED dev
Notify(q) ==
  /\ Running /\ q \in Slots(dev.kind) /\ dev.queues[q].last # vring[q].avail
  /\ Writes(MmioWriteReg(dev, "QueueNotify", "", q))
  /\ UNCHANGED mdrv

\* poll_rx with a frame waiting: the next receive buffer is used.
HostFrame ==
  /\ dev.kind \in Nets /\ dev.queues[0].ready /\ dev.queues[0].last # vring[0].avail
  /\ Writes(Raised([dev EXCEPT !.queues[0].last = @ + 1]))
  /\ UNCHANGED mdrv

\* vm_interrupt: a latched edge is consumed by being taken.
TakeMmioInterrupt ==
  /\ Running /\ dev.line /\ mdrv.isr = "idle"
  /\ mdrv' = [mdrv EXCEPT !.isr = "read"]
  /\ dev' = IF dev.kind \in {"whpBlk", "rng"} THEN [dev EXCEPT !.line = FALSE] ELSE dev
  /\ UNCHANGED vring
\* Status 0 is no interrupt of this device.
AckInterrupt ==
  /\ mdrv.isr = "read"
  /\ IF dev.isr THEN dev' = MmioWriteReg(dev, "InterruptAck", "", 1) /\ mdrv' = [mdrv EXCEPT !.isr = "acked"]
                ELSE mdrv' = [mdrv EXCEPT !.isr = "idle"] /\ UNCHANGED dev
  /\ UNCHANGED vring
Collect ==
  /\ mdrv.isr = "acked"
  /\ vring' = [q \in DOMAIN vring |-> [vring[q] EXCEPT !.seen = vring[q].used]]
  /\ mdrv' = [mdrv EXCEPT !.isr = "idle"]
  /\ UNCHANGED dev
SetQuiet == /\ Running /\ dev.kind = "rng" /\ ~mdrv.quiet /\ mdrv' = [mdrv EXCEPT !.quiet = TRUE]
            /\ UNCHANGED <<dev, vring>>

MmioNext ==
  \/ \E n \in 1..NumMax(dev.kind) : Probe(n)
  \/ ProbeStep
  \/ \E q \in 0..2 : Submit(q) \/ Notify(q)
  \/ HostFrame \/ TakeMmioInterrupt \/ AckInterrupt \/ Collect \/ SetQuiet

MmioSpec == MmioInit /\ [][MmioNext]_mmioVars

-----------------------------------------------------------------------------
\* When a driver has finished its probe the device holds what this driver
\* wrote and nothing of an earlier one, which may have stopped anywhere in its
\* own probe: the features it was offered, its queues and no others.  HVF has
\* refused a queue size that is no power of two and said so.
ConfiguredAsAsked ==
  Running =>
    LET good == dev.kind \in {"hvfBlk", "hvfNet"} => IsPowerOfTwo(mdrv.size)
        addr == [lo |-> mdrv.gen, hi |-> mdrv.gen]
    IN  /\ dev.drv = mdrv.offer /\ dev.drv.hi = 1
        /\ dev.status = {"acknowledge", "driver", "featuresOk", "driverOk"}
                          \cup (IF good THEN {} ELSE {"needsReset"})
        /\ \A q \in Slots(dev.kind) :
             IF \E i \in DOMAIN Uses(dev.kind) : Uses(dev.kind)[i] = q
             THEN dev.queues[q] = [size |-> mdrv.size, ready |-> good, last |-> dev.queues[q].last,
                                   desc |-> addr, driver |-> addr, device |-> addr]
             ELSE dev.queues[q] = NewQueue(dev.kind)

\* The device's position in a queue and the used index it publishes agree, also
\* for a driver that found the device half way through another's work.
PositionsAgree ==
  Running => \A q \in Slots(dev.kind) :
    dev.queues[q].last = vring[q].used /\ vring[q].used <= vring[q].avail

\* A completion the driver has not collected keeps the line high or its edge
\* latched, or the driver is in its handler and will look again, unless it
\* asked not to be interrupted.
CompletionSignalled ==
  (/\ Running /\ mdrv.isr = "idle" /\ ~mdrv.quiet
   /\ \E q \in Slots(dev.kind) : vring[q].seen # vring[q].used) => dev.line

\* Device and driver agree on configuration, ring positions and outstanding
\* completions after any sequence of register accesses.
RegistersAgree == ConfiguredAsAsked /\ PositionsAgree /\ CompletionSignalled
=============================================================================
