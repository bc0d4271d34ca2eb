---------------------------- MODULE WhpIrqProofs ----------------------------
(***************************************************************************)
(* Proofs about interrupt delivery, the network device and the timers on   *)
(* Windows.  Interrupt delivery comes first: for every set of I/O APIC     *)
(* pins, every limit of the pending queue and every failure of             *)
(* WHvRequestInterrupt.                                                    *)
(*                                                                         *)
(* The parts of InterruptsKept are not inductive.  What the guest's state  *)
(* is known from are copies as old as the last exit, so two invariants     *)
(* relate them to it: CopiesHold (they may be used while the vCPU is out   *)
(* of the guest and ready) and WindowsAgree (what the loop thinks it armed *)
(* is armed).  An EOI inside the guest cannot leave a remote IRR behind,   *)
(* because an edge entry never has one (OnlyLevelWaits).                   *)
(*                                                                         *)
(* The second part is about the network device (WhpNet), for any number of *)
(* packets, buffers, kicks and resets.  V and D are what the vCPU and the  *)
(* delivering thread are doing, Rx and Tx the queues.  The order of the    *)
(* packets is inductive only together with who may flush (Roles), what the *)
(* flusher holds (InHand) and whether it has delivered the backlog's first *)
(* packet without popping it yet (FrontDone).                              *)
(*                                                                         *)
(* The third part is about the HPET and the PIT (WhpTimers).               *)
(***************************************************************************)
EXTENDS WhpIrq, WhpNet, WhpTimers, DataInduction, Integers, TLAPS

\* Between an exit and the next run, a vCPU marked ready whose copies say that it
\* can take an interrupt really can.
CopiesHold ==
  vcpu.pc = "pre" /\ vcpu.ready /\ vcpu.interruptable /\ vcpu.interrupt_flag
      /\ ~vcpu.interruption_pending
    => guest.if /\ ~guest.shadow /\ guest.event = NoVector

\* interrupt_window_armed is the state of the window.
WindowsAgree == vcpu.window = guest.window

\* Remote IRR belongs to level-triggered entries.
OnlyLevelWaits == \A p \in Pins : rte[p].remoteIrr => rte[p].level

-----------------------------------------------------------------------------
(* The two halves of the state: the vCPU with its slot, and the I/O APIC.   *)

Events == {Vector(i) : i \in PicIrqs} \cup {NoVector}
Entries == [mask : BOOLEAN, level : BOOLEAN, remoteIrr : BOOLEAN]
Elements(q) == {q[i] : i \in DOMAIN q}

VcpuTypes ==
  /\ vcpu \in [pc : {"pre", "run"}, ready : BOOLEAN, interruptable : BOOLEAN,
               interrupt_flag : BOOLEAN, interruption_pending : BOOLEAN, window : BOOLEAN]
  /\ ext \in [pending : BOOLEAN, vector : Events]
  /\ guest \in [if : BOOLEAN, shadow : BOOLEAN, halted : BOOLEAN, window : BOOLEAN,
                cancel : BOOLEAN, event : Events]
VcpuInv == VcpuTypes /\ CopiesHold /\ WindowsAgree /\ ExtIntNoticed

PicType == pic \in [init_step : {0, 2, 3, 4}, remapped : BOOLEAN, mask : SUBSET PicIrqs]

ApicTypes ==
  /\ rte \in [Pins -> Entries] /\ line \in [Pins -> BOOLEAN]
  /\ queue \in Seq(Pins) /\ Len(queue) <= PendingLimit + 1
  /\ lapic \in [irr : SUBSET Pins, isr : SUBSET Pins]
  /\ dropped \subseteq Pins
ApicInv == ApicTypes /\ OnlyLevelWaits /\ LevelNotLost /\ RemoteIrrAnswered

IrqIInv == VcpuInv /\ ApicInv /\ PicType

-----------------------------------------------------------------------------
(* The I/O APIC.                                                            *)

\* drain_pending_locked hands a prefix to the local APIC and keeps the rest:
\* no request is lost, and none that is in service changes.
LEMMA DrainKeeps ==
  ASSUME NEW q \in Seq(Pins), Len(q) <= PendingLimit + 1,
         NEW l \in [irr : SUBSET Pins, isr : SUBSET Pins], Drain(q, l)
  PROVE /\ queue' \in Seq(Pins) /\ Len(queue') <= PendingLimit + 1
        /\ lapic' \in [irr : SUBSET Pins, isr : SUBSET Pins]
        /\ lapic'.isr = l.isr
        /\ l.irr \cup Elements(q) \subseteq lapic'.irr \cup Elements(queue')
<1>1. PICK k \in 0..Len(q) :
        /\ queue' = SubSeq(q, k + 1, Len(q))
        /\ lapic' = [l EXCEPT !.irr = @ \cup {q[i] : i \in 1..k}]
  BY DEF Drain
<1>2. Len(q) \in Nat /\ DOMAIN q = 1..Len(q) /\ \A i \in 1..Len(q) : q[i] \in Pins
  OBVIOUS
<1>3. /\ queue' \in Seq(Pins) /\ Len(queue') = Len(q) - k
      /\ \A i \in 1..Len(q) - k : queue'[i] = q[i + k]
  BY <1>1, <1>2
<1>4. /\ lapic'.irr = l.irr \cup {q[i] : i \in 1..k} /\ lapic'.isr = l.isr
      /\ lapic' \in [irr : SUBSET Pins, isr : SUBSET Pins]
  BY <1>1, <1>2
<1>5. ASSUME NEW i \in 1..Len(q) PROVE q[i] \in lapic'.irr \cup Elements(queue')
  <2>1. CASE i <= k
    BY <2>1, <1>4
  <2>2. CASE i > k
    <3>1. i - k \in DOMAIN queue' /\ queue'[i - k] = q[i]
      BY <2>2, <1>2, <1>3
    <3> QED
      BY <3>1 DEF Elements
  <2> QED
    BY <2>1, <2>2
<1>6. Len(queue') <= PendingLimit + 1
  BY <1>2, <1>3, IrqAssumption
<1>7. l.irr \subseteq lapic'.irr
  BY <1>4
<1>8. Elements(q) \subseteq lapic'.irr \cup Elements(queue')
  BY <1>2, <1>5 DEF Elements
<1> QED
  BY <1>3, <1>4, <1>6, <1>7, <1>8

\* Queueing one more request below the limit.
LEMMA Queued ==
  ASSUME queue \in Seq(Pins), ~(Len(queue) > PendingLimit), NEW p \in Pins
  PROVE /\ Append(queue, p) \in Seq(Pins) /\ Len(Append(queue, p)) <= PendingLimit + 1
        /\ Elements(Append(queue, p)) = Elements(queue) \cup {p}
<1> DEFINE q == Append(queue, p)
<1>1. /\ q \in Seq(Pins) /\ Len(q) = Len(queue) + 1 /\ Len(queue) \in Nat
      /\ DOMAIN q = 1..Len(queue) + 1 /\ DOMAIN queue = 1..Len(queue)
      /\ q[Len(queue) + 1] = p
      /\ \A i \in 1..Len(queue) : q[i] = queue[i]
  OBVIOUS
<1>2. Len(q) <= PendingLimit + 1
  BY <1>1, IrqAssumption
<1>3. ASSUME NEW x \in Elements(q) PROVE x \in Elements(queue) \cup {p}
  <2>1. PICK i \in DOMAIN q : x = q[i]
    BY <1>3 DEF Elements
  <2>2. i = Len(queue) + 1 \/ i \in 1..Len(queue)
    BY <1>1, <2>1
  <2> QED
    BY <1>1, <2>1, <2>2 DEF Elements
<1>4. ASSUME NEW x \in Elements(queue) PROVE x \in Elements(q)
  <2>1. PICK i \in DOMAIN queue : x = queue[i]
    BY <1>4 DEF Elements
  <2>2. i \in DOMAIN q /\ q[i] = x
    BY <1>1, <2>1
  <2> QED
    BY <2>2 DEF Elements
<1>5. p \in Elements(q)
  <2>1. Len(queue) + 1 \in DOMAIN q
    BY <1>1
  <2> QED
    BY <2>1, <1>1 DEF Elements
<1> QED
  BY <1>1, <1>2, <1>3, <1>4, <1>5

Answered(x) == x \in lapic.irr \cup lapic.isr \cup Elements(queue)

\* request_irq_locked, called with entries r that may already differ from rte
\* in pin p: the other pins keep what they had, pin p is masked, waits for an
\* EOI, was just queued, or met the full queue.
LEMMA RequestKeeps ==
  ASSUME ApicTypes, NEW p \in Pins, NEW r \in [Pins -> Entries],
         line' \in [Pins -> BOOLEAN],
         \A x \in Pins : r[x].remoteIrr => r[x].level /\ Answered(x),
         \A x \in Pins \ {p} : line'[x] /\ r[x].level /\ ~r[x].mask
                                 => r[x].remoteIrr \/ x \in dropped,
         request_irq_locked(p, r)
  PROVE ApicInv'
<1> DEFINE refused == r[p].mask \/ (r[p].level /\ r[p].remoteIrr)
<1>0. r[p] \in Entries /\ r[p].mask \in BOOLEAN /\ r[p].level \in BOOLEAN
      /\ r[p].remoteIrr \in BOOLEAN
  BY DEF Entries
<1>1. CASE refused \/ Len(queue) > PendingLimit
  <2>1. /\ rte' = r /\ queue' = queue /\ lapic' = lapic
        /\ dropped' = IF refused \/ ~r[p].level THEN dropped ELSE dropped \cup {p}
    BY <1>1 DEF request_irq_locked
  <2>2. ApicTypes'
    BY <2>1 DEF ApicTypes
  <2>3. OnlyLevelWaits'
    BY <2>1 DEF OnlyLevelWaits
  <2>4. RemoteIrrAnswered'
    BY <2>1 DEF RemoteIrrAnswered, Answered, Elements
  <2>5. LevelNotLost'
    BY <2>1, <1>0 DEF LevelNotLost
  <2> QED
    BY <2>2, <2>3, <2>4, <2>5 DEF ApicInv
<1>2. CASE ~(refused \/ Len(queue) > PendingLimit)
  <2>1. /\ rte' = [r EXCEPT ![p].remoteIrr = r[p].level]
        /\ Drain(Append(queue, p), lapic) /\ dropped' = dropped \ {p}
    BY <1>2 DEF request_irq_locked
  <2>2. /\ queue' \in Seq(Pins) /\ Len(queue') <= PendingLimit + 1
        /\ lapic' \in [irr : SUBSET Pins, isr : SUBSET Pins]
        /\ lapic'.isr = lapic.isr
        /\ lapic.irr \cup Elements(queue) \cup {p} \subseteq lapic'.irr \cup Elements(queue')
    BY <2>1, <1>2, Queued, DrainKeeps DEF ApicTypes
  <2>3. /\ rte' \in [Pins -> Entries]
        /\ rte'[p] = [r[p] EXCEPT !.remoteIrr = r[p].level]
        /\ \A x \in Pins \ {p} : rte'[x] = r[x]
    BY <2>1, <1>0 DEF Entries
  <2>4. ApicTypes'
    BY <2>1, <2>2, <2>3 DEF ApicTypes
  <2>5. rte'[p].remoteIrr = r[p].level /\ rte'[p].level = r[p].level
    BY <2>3, <1>0 DEF Entries
  <2>6. OnlyLevelWaits'
    BY <2>3, <2>5 DEF OnlyLevelWaits
  <2>7. RemoteIrrAnswered'
    BY <2>2, <2>3 DEF RemoteIrrAnswered, Answered, Elements
  <2>8. LevelNotLost'
    BY <2>1, <2>3, <2>5 DEF LevelNotLost
  <2> QED
    BY <2>4, <2>6, <2>7, <2>8 DEF ApicInv
<1> QED
  BY <1>1, <1>2

\* eoi: the pin that waited is requested again when its line is still up, and
\* nothing else changes for the others.
LEMMA EoiKeeps ==
  ASSUME ApicInv, NEW p \in Pins, line' = line, eoi(p)
  PROVE ApicInv'
<1> DEFINE r     == [rte EXCEPT ![p].remoteIrr = FALSE]
           again == rte[p].level /\ rte[p].remoteIrr /\ line[p] /\ ~r[p].mask
           room  == Len(queue) <= PendingLimit
           q     == IF again /\ room THEN Append(queue, p) ELSE queue
           l     == [lapic EXCEPT !.isr = @ \ {p}]
<1>1. /\ rte' = IF again /\ room THEN rte ELSE r
      /\ dropped' = IF again THEN (IF room THEN dropped \ {p} ELSE dropped \cup {p}) ELSE dropped
      /\ Drain(q, l)
  BY DEF eoi
<1>2. /\ r \in [Pins -> Entries]
      /\ \A x \in Pins \ {p} : r[x] = rte[x]
      /\ r[p].remoteIrr = FALSE /\ r[p].mask = rte[p].mask /\ r[p].level = rte[p].level
      /\ rte[p] \in Entries
  BY DEF ApicInv, ApicTypes, Entries
<1>3. l \in [irr : SUBSET Pins, isr : SUBSET Pins] /\ l.irr = lapic.irr /\ l.isr = lapic.isr \ {p}
  BY DEF ApicInv, ApicTypes
<1>4. /\ q \in Seq(Pins) /\ Len(q) <= PendingLimit + 1 /\ Elements(queue) \subseteq Elements(q)
      /\ again /\ room => p \in Elements(q)
  <2>1. CASE again /\ room
    <3>1. ~(Len(queue) > PendingLimit)
      BY <2>1, IrqAssumption DEF ApicInv, ApicTypes
    <3> QED
      BY <2>1, <3>1, Queued DEF ApicInv, ApicTypes
  <2>2. CASE ~(again /\ room)
    BY <2>2 DEF ApicInv, ApicTypes
  <2> QED
    BY <2>1, <2>2
<1> HIDE DEF q, l, r
<1>5. /\ queue' \in Seq(Pins) /\ Len(queue') <= PendingLimit + 1
      /\ lapic' \in [irr : SUBSET Pins, isr : SUBSET Pins]
      /\ lapic'.isr = l.isr
      /\ l.irr \cup Elements(q) \subseteq lapic'.irr \cup Elements(queue')
  BY <1>1, <1>3, <1>4, DrainKeeps
<1>6. ApicTypes'
  BY <1>1, <1>2, <1>5 DEF ApicInv, ApicTypes
<1>7. OnlyLevelWaits'
  BY <1>1, <1>2 DEF ApicInv, OnlyLevelWaits
<1>8. RemoteIrrAnswered'
  BY <1>1, <1>2, <1>3, <1>4, <1>5 DEF ApicInv, RemoteIrrAnswered, Elements
<1>9. LevelNotLost'
  BY <1>1, <1>2 DEF ApicInv, LevelNotLost
<1> QED
  BY <1>6, <1>7, <1>8, <1>9 DEF ApicInv

\* write_reg: an entry that leaves level mode drops its remote IRR; unmasking a
\* pin whose line is up requests it.
LEMMA WriteRegKeeps ==
  ASSUME ApicInv, NEW p \in Pins, NEW m \in BOOLEAN, NEW lv \in BOOLEAN, line' = line,
         lv # rte[p].level => m, write_reg(p, m, lv)
  PROVE ApicInv'
<1> DEFINE r == [rte EXCEPT ![p] = [mask |-> m, level |-> lv, remoteIrr |-> @.remoteIrr /\ lv]]
<1>1. /\ r \in [Pins -> Entries]
      /\ \A x \in Pins \ {p} : r[x] = rte[x]
      /\ r[p].mask = m /\ r[p].level = lv /\ r[p].remoteIrr = (rte[p].remoteIrr /\ lv)
      /\ rte[p] \in Entries
  BY DEF ApicInv, ApicTypes, Entries
<1>2. /\ ApicTypes /\ line' \in [Pins -> BOOLEAN]
  BY DEF ApicInv, ApicTypes
<1>3. \A x \in Pins : r[x].remoteIrr => r[x].level /\ Answered(x)
  BY <1>1 DEF ApicInv, OnlyLevelWaits, RemoteIrrAnswered, Answered, Elements
<1>4. \A x \in Pins \ {p} : line'[x] /\ r[x].level /\ ~r[x].mask
                              => r[x].remoteIrr \/ x \in dropped
  BY <1>1 DEF ApicInv, LevelNotLost
<1>5. CASE rte[p].mask /\ ~m /\ line[p]
  <2>1. request_irq_locked(p, r)
    BY <1>5 DEF write_reg
  <2> HIDE DEF r
  <2> QED
    BY <2>1, <1>1, <1>2, <1>3, <1>4, RequestKeeps
<1>6. CASE ~(rte[p].mask /\ ~m /\ line[p])
  <2>1. rte' = r /\ UNCHANGED <<queue, lapic, dropped>>
    BY <1>6 DEF write_reg
  <2> HIDE DEF r
  <2>2. ApicTypes' /\ OnlyLevelWaits' /\ RemoteIrrAnswered'
    BY <2>1, <1>1, <1>2, <1>3
       DEF ApicTypes, OnlyLevelWaits, RemoteIrrAnswered, Answered, Elements
  <2>3. line[p] /\ r[p].level /\ ~r[p].mask => r[p].remoteIrr \/ p \in dropped
    BY <1>1, <1>6 DEF ApicInv, LevelNotLost, Entries
  <2>4. LevelNotLost'
    BY <2>1, <2>3, <1>4 DEF LevelNotLost
  <2> QED
    BY <2>2, <2>4 DEF ApicInv
<1> QED
  BY <1>5, <1>6

\* A drain by itself (before a run, after an interrupt window).
LEMMA DrainInv ==
  ASSUME ApicInv, Drain(queue, lapic), rte' = rte, line' = line, dropped' = dropped
  PROVE ApicInv'
<1>1. /\ queue' \in Seq(Pins) /\ Len(queue') <= PendingLimit + 1
      /\ lapic' \in [irr : SUBSET Pins, isr : SUBSET Pins]
      /\ lapic'.isr = lapic.isr
      /\ lapic.irr \cup Elements(queue) \subseteq lapic'.irr \cup Elements(queue')
  BY DrainKeeps DEF ApicInv, ApicTypes
<1> QED
  BY <1>1 DEF ApicInv, ApicTypes, OnlyLevelWaits, LevelNotLost, RemoteIrrAnswered, Elements

\* The I/O APIC is left alone.
LEMMA ApicUnchanged ==
  ASSUME ApicInv, UNCHANGED <<rte, line, queue, lapic, dropped>>
  PROVE ApicInv'
  BY DEF ApicInv, ApicTypes, OnlyLevelWaits, LevelNotLost, RemoteIrrAnswered

-----------------------------------------------------------------------------
(* The vCPU and its ExtInt slot.                                            *)

Vcpus == [pc : {"pre", "run"}, ready : BOOLEAN, interruptable : BOOLEAN,
          interrupt_flag : BOOLEAN, interruption_pending : BOOLEAN, window : BOOLEAN]
Guests == [if : BOOLEAN, shadow : BOOLEAN, halted : BOOLEAN, window : BOOLEAN,
           cancel : BOOLEAN, event : Events]

\* NoVector is not the vector of a line.
LEMMA VectorIsReal == \A i \in PicIrqs : Vector(i) # NoVector /\ Vector(i) \in Events
<1>1. ASSUME NEW i \in PicIrqs PROVE Vector(i).irq # NoVector.irq
  BY DEF Vector, NoVector, PicIrqs
<1> QED
  BY <1>1 DEF Events

\* CopiesHold for the vCPU state v and the guest state g.
Fits(v, g) ==
  v.pc = "pre" /\ v.ready /\ v.interruptable /\ v.interrupt_flag /\ ~v.interruption_pending
    => g.if /\ ~g.shadow /\ g.event = NoVector

\* TryDeliverPendingExtInt injects, arms the window, or has nothing to do; in
\* the guest, what stays pending has its window armed.
LEMMA TryDeliverKeeps ==
  ASSUME NEW v \in Vcpus, NEW g \in Guests, ext \in [pending : BOOLEAN, vector : Events],
         v.window = g.window, Fits(v, g), TryDeliverPendingExtInt(v, g)
  PROVE VcpuInv'
<1>1. CASE EvaluateInjectDecision(v) = "none"
  <2>1. vcpu' = v /\ guest' = g /\ ext' = ext /\ ~ext.pending
    BY <1>1 DEF TryDeliverPendingExtInt, EvaluateInjectDecision
  <2> QED
    BY <2>1 DEF VcpuInv, VcpuTypes, CopiesHold, WindowsAgree, ExtIntNoticed, Vcpus, Guests, Fits
<1>2. CASE EvaluateInjectDecision(v) = "arm"
  <2>1. /\ vcpu' = [v EXCEPT !.window = TRUE] /\ ext' = ext
        /\ guest' = IF v.window THEN g ELSE [g EXCEPT !.window = TRUE]
    BY <1>2 DEF TryDeliverPendingExtInt, ArmInterruptWindow
  <2>2. /\ guest' \in Guests /\ guest'.window = TRUE /\ guest'.if = g.if
        /\ guest'.shadow = g.shadow /\ guest'.event = g.event
    BY <2>1 DEF Guests, Vcpus
  <2> QED
    BY <2>1, <2>2 DEF VcpuInv, VcpuTypes, CopiesHold, WindowsAgree, ExtIntNoticed, Vcpus, Guests, Fits
<1>3. CASE EvaluateInjectDecision(v) \notin {"none", "arm"}
  <2>1. /\ guest' = [g EXCEPT !.event = ext.vector, !.halted = FALSE,
                               !.window = @ /\ ~v.window]
        /\ vcpu' = [v EXCEPT !.ready = FALSE, !.window = FALSE]
        /\ ext' = [pending |-> FALSE, vector |-> NoVector]
    BY <1>3 DEF TryDeliverPendingExtInt
  <2>2. ext.vector \in Events /\ NoVector \in Events
    BY DEF Events
  <2>3. guest' \in Guests /\ guest'.window = FALSE
    BY <2>1, <2>2 DEF Guests, Vcpus
  <2>4. vcpu' \in Vcpus /\ vcpu'.ready = FALSE /\ vcpu'.window = FALSE
    BY <2>1 DEF Vcpus
  <2>5. ext' \in [pending : BOOLEAN, vector : Events] /\ ext'.pending = FALSE
    BY <2>1, <2>2
  <2> QED
    BY <2>3, <2>4, <2>5 DEF VcpuInv, VcpuTypes, CopiesHold, WindowsAgree, ExtIntNoticed, Vcpus, Guests
<1> QED
  BY <1>1, <1>2, <1>3

\* UpdateVcpuFromExit copies the guest's state; ready and the rest stay.
LEMMA CopiesAreExact ==
  ASSUME VcpuInv, NEW g \in Guests
  PROVE LET u == UpdateVcpuFromExit(g)
        IN  /\ u \in Vcpus /\ u.pc = vcpu.pc /\ u.window = vcpu.window /\ u.ready = vcpu.ready
            /\ u.interruption_pending = (g.event # NoVector)
            /\ u.interruptable = ~g.shadow /\ u.interrupt_flag = g.if
  BY DEF VcpuInv, VcpuTypes, Vcpus, Guests, UpdateVcpuFromExit

\* An exit that only refreshes the copies, with an instruction that may end the
\* STI shadow or take the pending cancel down.
LEMMA RefreshKeeps ==
  ASSUME VcpuInv, vcpu' = [UpdateVcpuFromExit(guest) EXCEPT !.pc = "pre"], ext' = ext,
         \/ guest' = [guest EXCEPT !.shadow = FALSE]
         \/ guest' = [guest EXCEPT !.cancel = FALSE]
  PROVE VcpuInv'
<1>1. guest \in Guests /\ vcpu \in Vcpus /\ vcpu.window = guest.window
  BY DEF VcpuInv, VcpuTypes, WindowsAgree, Guests, Vcpus
<1> DEFINE u == UpdateVcpuFromExit(guest)
<1>2. /\ u \in Vcpus /\ u.window = vcpu.window
      /\ u.interruption_pending = (guest.event # NoVector)
      /\ u.interruptable = ~guest.shadow /\ u.interrupt_flag = guest.if
  BY <1>1, CopiesAreExact
<1> HIDE DEF u
<1>3. /\ vcpu' \in Vcpus /\ vcpu'.pc = "pre" /\ vcpu'.window = guest.window
      /\ vcpu'.interruption_pending = (guest.event # NoVector)
      /\ vcpu'.interruptable = ~guest.shadow /\ vcpu'.interrupt_flag = guest.if
  BY <1>1, <1>2 DEF Vcpus, u
<1>4. /\ guest' \in Guests /\ guest'.window = guest.window /\ guest'.event = guest.event
      /\ guest'.if = guest.if /\ guest'.shadow => guest.shadow
  BY <1>1 DEF Guests
<1> QED
  BY <1>1, <1>3, <1>4 DEF VcpuInv, VcpuTypes, CopiesHold, WindowsAgree, ExtIntNoticed, Guests, Vcpus

\* A step of the guest: it runs, and its window and its cancel stay.
LEMMA GuestStepKeeps ==
  ASSUME VcpuInv, vcpu.pc = "run", vcpu' = vcpu, ext' = ext, guest' \in Guests,
         guest'.window = guest.window, guest'.cancel = guest.cancel
  PROVE VcpuInv'
  BY DEF VcpuInv, VcpuTypes, CopiesHold, WindowsAgree, ExtIntNoticed, Guests, Vcpus

\* The vCPU and its slot are left alone.
LEMMA VcpuUnchanged ==
  ASSUME VcpuInv, UNCHANGED <<vcpu, ext, guest>>
  PROVE VcpuInv'
  BY DEF VcpuInv, VcpuTypes, CopiesHold, WindowsAgree, ExtIntNoticed

-----------------------------------------------------------------------------
(* The actions.                                                             *)

\* deliver_timer_irq and the UART's raiser: through the I/O APIC when the pin is
\* unmasked, else through the 8259 and the ExtInt slot, with a cancel.
LEMMA DeliverStep ==
  ASSUME IrqIInv, NEW p \in Pins, NEW irq \in PicIrqs, NEW level \in BOOLEAN,
         deliver_irq(p, irq, level)
  PROVE IrqIInv'
<1>0. VcpuInv /\ ApicInv /\ PicType
  BY DEF IrqIInv
<1>1. CASE /\ ~rte[p].mask
           /\ line' = IF level THEN [line EXCEPT ![p] = TRUE] ELSE line
           /\ request_irq_locked(p, rte)
           /\ UNCHANGED <<vcpu, ext, guest, pic>>
  <2>1. /\ ApicTypes /\ rte \in [Pins -> Entries] /\ line' \in [Pins -> BOOLEAN]
        /\ \A x \in Pins \ {p} : line'[x] = line[x]
    BY <1>0, <1>1 DEF ApicInv, ApicTypes
  <2>2. \A x \in Pins : rte[x].remoteIrr => rte[x].level /\ Answered(x)
    BY <1>0 DEF ApicInv, OnlyLevelWaits, RemoteIrrAnswered, Answered, Elements
  <2>3. \A x \in Pins \ {p} : line'[x] /\ rte[x].level /\ ~rte[x].mask
                                => rte[x].remoteIrr \/ x \in dropped
    BY <1>0, <2>1 DEF ApicInv, LevelNotLost
  <2>4. ApicInv'
    BY <1>1, <2>1, <2>2, <2>3, RequestKeeps
  <2> QED
    BY <1>0, <1>1, <2>4, VcpuUnchanged DEF IrqIInv, PicType
<1>2. CASE /\ RaiseExtInt(irq)
           /\ UNCHANGED <<vcpu, pic, rte, line, queue, lapic, dropped>>
  <2>1. /\ ext' = [pending |-> TRUE, vector |-> Vector(irq)]
        /\ guest' = [guest EXCEPT !.cancel = TRUE] /\ vcpu' = vcpu
    BY <1>2 DEF RaiseExtInt
  <2>2. /\ guest' \in Guests /\ guest'.cancel = TRUE /\ guest'.window = guest.window
        /\ guest'.if = guest.if /\ guest'.shadow = guest.shadow /\ guest'.event = guest.event
    BY <1>0, <2>1 DEF VcpuInv, VcpuTypes, Guests
  <2>3. ext' \in [pending : BOOLEAN, vector : Events]
    BY <2>1, VectorIsReal
  <2>4. VcpuInv'
    BY <1>0, <2>1, <2>2, <2>3
       DEF VcpuInv, VcpuTypes, CopiesHold, WindowsAgree, ExtIntNoticed, Guests
  <2> QED
    BY <1>0, <1>2, <2>4, ApicUnchanged DEF IrqIInv, PicType
<1> QED
  BY <1>1, <1>2 DEF deliver_irq

\* set_irq(pin, false).
LEMMA LowerLineStep == ASSUME IrqIInv, LowerLine PROVE IrqIInv'
<1>0. VcpuInv /\ ApicInv /\ PicType
  BY DEF IrqIInv
<1>1. PICK p \in Pins : /\ line' = [line EXCEPT ![p] = FALSE] /\ dropped' = dropped \ {p}
                        /\ UNCHANGED <<vcpu, ext, guest, pic, rte, queue, lapic>>
  BY DEF LowerLine
<1>2. ApicInv'
  BY <1>0, <1>1 DEF ApicInv, ApicTypes, OnlyLevelWaits, LevelNotLost, RemoteIrrAnswered
<1> QED
  BY <1>0, <1>1, <1>2, VcpuUnchanged DEF IrqIInv, PicType

\* Before WHvRunVirtualProcessor.
LEMMA PreRunStep == ASSUME IrqIInv, PreRun PROVE IrqIInv'
<1>0. VcpuInv /\ ApicInv /\ PicType
  BY DEF IrqIInv
<1> DEFINE v == [vcpu EXCEPT !.pc = "run"]
<1>1. /\ v \in Vcpus /\ guest \in Guests /\ v.window = guest.window /\ v.pc = "run"
      /\ ext \in [pending : BOOLEAN, vector : Events]
  BY <1>0 DEF VcpuInv, VcpuTypes, WindowsAgree, Vcpus, Guests
<1>2. TryDeliverPendingExtInt(v, guest)
  BY DEF PreRun
<1> HIDE DEF v
<1>3. Fits(v, guest)
  BY <1>1 DEF Fits
<1>4. VcpuInv'
  BY <1>1, <1>2, <1>3, TryDeliverKeeps
<1>5. ApicInv'
  BY <1>0, DrainInv DEF PreRun
<1> QED
  BY <1>0, <1>4, <1>5 DEF IrqIInv, PreRun, PicType

\* What an exit that delivers makes of the vCPU: ready when the copies it has just
\* taken say so, and the copies are the guest's.
LEMMA BoundaryKeeps ==
  ASSUME VcpuInv, NEW g \in Guests, NEW v,
         LET u == UpdateVcpuFromExit(g)
         IN  \/ v = [u EXCEPT !.ready = u.interruptable /\ u.interrupt_flag, !.pc = "pre"]
                  /\ vcpu.window = g.window
             \/ v = [u EXCEPT !.pc = "pre", !.window = FALSE,
                              !.ready = u.interruptable /\ u.interrupt_flag]
                  /\ g.window = FALSE,
         IF ext.pending THEN TryDeliverPendingExtInt(v, g)
                        ELSE vcpu' = v /\ guest' = g /\ UNCHANGED ext
  PROVE VcpuInv'
<1> DEFINE u == UpdateVcpuFromExit(g)
<1>1. /\ u \in Vcpus /\ u.window = vcpu.window
      /\ u.interruption_pending = (g.event # NoVector)
      /\ u.interruptable = ~g.shadow /\ u.interrupt_flag = g.if
  BY CopiesAreExact
<1>2. \/ v = [u EXCEPT !.ready = u.interruptable /\ u.interrupt_flag, !.pc = "pre"]
           /\ vcpu.window = g.window
      \/ v = [u EXCEPT !.pc = "pre", !.window = FALSE,
                       !.ready = u.interruptable /\ u.interrupt_flag]
           /\ g.window = FALSE
  OBVIOUS
<1> HIDE DEF u
<1>3. /\ v \in Vcpus /\ v.window = g.window
      /\ v.interruption_pending = (g.event # NoVector)
      /\ v.interruptable = ~g.shadow /\ v.interrupt_flag = g.if
  BY <1>1, <1>2 DEF Vcpus
<1>4. Fits(v, g)
  BY <1>3 DEF Fits
<1>5. ext \in [pending : BOOLEAN, vector : Events]
  BY DEF VcpuInv, VcpuTypes
<1>6. CASE ext.pending
  BY <1>3, <1>4, <1>5, <1>6, TryDeliverKeeps
<1>7. CASE ~ext.pending
  <2>1. vcpu' = v /\ guest' = g /\ ext' = ext
    BY <1>7
  <2> QED
    BY <1>3, <1>4, <1>5, <1>7, <2>1
       DEF VcpuInv, VcpuTypes, CopiesHold, WindowsAgree, ExtIntNoticed, Fits, Vcpus, Guests
<1> QED
  BY <1>6, <1>7

\* The HLT exit.
LEMMA ExitHaltStep == ASSUME IrqIInv, ExitHalt PROVE IrqIInv'
<1>0. VcpuInv /\ ApicInv /\ PicType
  BY DEF IrqIInv
<1> DEFINE g == [guest EXCEPT !.halted = TRUE, !.shadow = FALSE]
           u == UpdateVcpuFromExit(g)
           v == [u EXCEPT !.ready = u.interruptable /\ u.interrupt_flag, !.pc = "pre"]
<1>1. g \in Guests /\ g.window = vcpu.window
  BY <1>0 DEF VcpuInv, VcpuTypes, WindowsAgree, Guests
<1>2. IF ext.pending THEN TryDeliverPendingExtInt(v, g)
                     ELSE vcpu' = v /\ guest' = g /\ UNCHANGED ext
  BY DEF ExitHalt
<1> HIDE DEF g
<1>3. VcpuInv'
  BY <1>0, <1>1, <1>2, BoundaryKeeps
<1> QED
  BY <1>0, <1>3, ApicUnchanged DEF IrqIInv, ExitHalt, PicType

\* The interrupt-window exit.
LEMMA ExitInterruptWindowStep == ASSUME IrqIInv, ExitInterruptWindow PROVE IrqIInv'
<1>0. VcpuInv /\ ApicInv /\ PicType
  BY DEF IrqIInv
<1> DEFINE g == [guest EXCEPT !.window = FALSE]
           u == UpdateVcpuFromExit(g)
           v == [u EXCEPT !.pc = "pre", !.window = FALSE,
                          !.ready = u.interruptable /\ u.interrupt_flag]
<1>1. g \in Guests /\ g.window = FALSE
  BY <1>0 DEF VcpuInv, VcpuTypes, Guests
<1>2. IF ext.pending THEN TryDeliverPendingExtInt(v, g)
                     ELSE vcpu' = v /\ guest' = g /\ UNCHANGED ext
  BY DEF ExitInterruptWindow
<1> HIDE DEF g
<1>3. VcpuInv'
  BY <1>0, <1>1, <1>2, BoundaryKeeps
<1>4. ApicInv'
  BY <1>0, DrainInv DEF ExitInterruptWindow
<1> QED
  BY <1>0, <1>3, <1>4 DEF IrqIInv, ExitInterruptWindow, PicType

\* A canceled run.
LEMMA ExitCanceledStep == ASSUME IrqIInv, ExitCanceled PROVE IrqIInv'
<1>0. VcpuInv /\ ApicInv /\ PicType
  BY DEF IrqIInv
<1>1. VcpuInv'
  BY <1>0, RefreshKeeps DEF ExitCanceled
<1> QED
  BY <1>0, <1>1, ApicUnchanged DEF IrqIInv, ExitCanceled, PicType

\* The EOI exit of a level-triggered interrupt.
LEMMA ExitApicEoiStep ==
  ASSUME IrqIInv, NEW p \in Pins, ExitApicEoi(p) PROVE IrqIInv'
<1>0. VcpuInv /\ ApicInv /\ PicType
  BY DEF IrqIInv
<1>1. VcpuInv'
  BY <1>0, RefreshKeeps DEF ExitApicEoi
<1>2. ApicInv'
  BY <1>0, EoiKeeps DEF ExitApicEoi
<1> QED
  BY <1>0, <1>1, <1>2 DEF IrqIInv, ExitApicEoi, PicType

\* A write of a redirection entry.
LEMMA ExitWriteRteStep ==
  ASSUME IrqIInv, NEW p \in Pins, NEW m \in BOOLEAN, NEW lv \in BOOLEAN, ExitWriteRte(p, m, lv)
  PROVE IrqIInv'
<1>0. VcpuInv /\ ApicInv /\ PicType
  BY DEF IrqIInv
<1>1. VcpuInv'
  BY <1>0, RefreshKeeps DEF ExitWriteRte
<1>2. ApicInv'
  BY <1>0, WriteRegKeeps DEF ExitWriteRte
<1> QED
  BY <1>0, <1>1, <1>2 DEF IrqIInv, ExitWriteRte, PicType

\* A write to the 8259.
LEMMA ExitWritePicStep == ASSUME IrqIInv, ExitWritePic PROVE IrqIInv'
<1>0. VcpuInv /\ ApicInv /\ PicType
  BY DEF IrqIInv
<1>1. VcpuInv'
  BY <1>0, RefreshKeeps DEF ExitWritePic
<1>2. PicType'
  <2>1. CASE pic_write_command
    BY <2>1, <1>0 DEF pic_write_command, PicType
  <2>2. CASE pic_write_data
    <3>1. PICK m \in {{}, PicIrqs} :
            pic' = CASE pic.init_step = 2 -> [pic EXCEPT !.init_step = 3, !.remapped = TRUE]
                     [] pic.init_step = 3 -> [pic EXCEPT !.init_step = 4]
                     [] pic.init_step = 4 -> [pic EXCEPT !.init_step = 0]
                     [] OTHER -> [pic EXCEPT !.mask = m]
      BY <2>2 DEF pic_write_data
    <3> QED
      BY <3>1, <1>0 DEF PicType
  <2> QED
    BY <2>1, <2>2 DEF ExitWritePic
<1> QED
  BY <1>0, <1>1, <1>2, ApicUnchanged DEF IrqIInv, ExitWritePic

\* The guest takes the injected event, or executes an instruction.
LEMMA GuestStep == ASSUME IrqIInv, TakeEvent \/ Sti \/ Cli \/ Instruction PROVE IrqIInv'
<1>0. VcpuInv /\ ApicInv /\ PicType
  BY DEF IrqIInv
<1>1. /\ vcpu.pc = "run" /\ UNCHANGED <<vcpu, ext, pic, rte, line, queue, lapic, dropped>>
      /\ \/ guest' = [guest EXCEPT !.event = NoVector, !.if = FALSE, !.halted = FALSE]
         \/ guest' = [guest EXCEPT !.if = TRUE, !.shadow = TRUE]
         \/ guest' = [guest EXCEPT !.if = FALSE, !.shadow = FALSE]
         \/ guest' = [guest EXCEPT !.shadow = FALSE]
  BY DEF TakeEvent, TakesInterrupt, Sti, Cli, Instruction, Executes
<1>2. guest' \in Guests /\ guest'.window = guest.window /\ guest'.cancel = guest.cancel
  <2>1. NoVector \in Events
    BY DEF Events
  <2> QED
    BY <1>0, <1>1, <2>1 DEF VcpuInv, VcpuTypes, Guests
<1>3. VcpuInv'
  BY <1>0, <1>1, <1>2, GuestStepKeeps
<1> QED
  BY <1>0, <1>1, <1>3, ApicUnchanged DEF IrqIInv, PicType

\* The local APIC hands a message to the guest: it stays in service.
LEMMA TakeFixedStep == ASSUME IrqIInv, NEW p \in Pins, TakeFixed(p) PROVE IrqIInv'
<1>0. VcpuInv /\ ApicInv /\ PicType
  BY DEF IrqIInv
<1>1. guest' \in Guests /\ guest'.window = guest.window /\ guest'.cancel = guest.cancel
  BY <1>0 DEF TakeFixed, VcpuInv, VcpuTypes, Guests
<1>2. VcpuInv'
  BY <1>0, <1>1, GuestStepKeeps DEF TakeFixed, TakesInterrupt
<1>3. lapic' \in [irr : SUBSET Pins, isr : SUBSET Pins]
      /\ lapic.irr \cup lapic.isr \subseteq lapic'.irr \cup lapic'.isr
  BY <1>0 DEF TakeFixed, ApicInv, ApicTypes
<1>4. ApicInv'
  BY <1>0, <1>3 DEF TakeFixed, ApicInv, ApicTypes, OnlyLevelWaits, LevelNotLost, RemoteIrrAnswered
<1> QED
  BY <1>0, <1>2, <1>4 DEF IrqIInv, TakeFixed, PicType

\* The EOI of an edge interrupt: it has no remote IRR to leave behind.
LEMMA EdgeEoiStep == ASSUME IrqIInv, NEW p \in Pins, EdgeEoi(p) PROVE IrqIInv'
<1>0. VcpuInv /\ ApicInv /\ PicType
  BY DEF IrqIInv
<1>1. guest' \in Guests /\ guest'.window = guest.window /\ guest'.cancel = guest.cancel
  BY <1>0 DEF EdgeEoi, VcpuInv, VcpuTypes, Guests
<1>2. VcpuInv'
  BY <1>0, <1>1, GuestStepKeeps DEF EdgeEoi, Executes
<1>3. lapic' \in [irr : SUBSET Pins, isr : SUBSET Pins]
      /\ lapic'.irr = lapic.irr /\ lapic'.isr = lapic.isr \ {p}
  BY <1>0 DEF EdgeEoi, ApicInv, ApicTypes
<1>4. ApicInv'
  BY <1>0, <1>3 DEF EdgeEoi, ApicInv, ApicTypes, OnlyLevelWaits, LevelNotLost, RemoteIrrAnswered
<1> QED
  BY <1>0, <1>2, <1>4 DEF IrqIInv, EdgeEoi, PicType

-----------------------------------------------------------------------------
(* The theorems.                                                            *)

\* The devices as they are created satisfy the invariant.
LEMMA IrqInitial == IrqInit => IrqIInv
<1> SUFFICES ASSUME IrqInit PROVE IrqIInv
  OBVIOUS
<1>1. VcpuInv
  <2>1. NoVector \in Events
    BY DEF Events
  <2> QED
    BY <2>1 DEF IrqInit, VcpuInv, VcpuTypes, CopiesHold, WindowsAgree, ExtIntNoticed
<1>2. ApicInv
  <2>1. \A p \in Pins : rte[p] = [mask |-> TRUE, level |-> FALSE, remoteIrr |-> FALSE]
    BY DEF IrqInit
  <2>2. ApicTypes
    BY <2>1, IrqAssumption DEF IrqInit, ApicTypes, Entries
  <2> QED
    BY <2>1, <2>2 DEF ApicInv, OnlyLevelWaits, LevelNotLost, RemoteIrrAnswered
<1>3. PicType
  BY DEF IrqInit, PicType
<1> QED
  BY <1>1, <1>2, <1>3 DEF IrqIInv

\* Every step keeps the invariant.
LEMMA IrqInductive == IrqIInv /\ [IrqNext]_irqVars => IrqIInv'
<1> SUFFICES ASSUME IrqIInv, [IrqNext]_irqVars PROVE IrqIInv'
  OBVIOUS
<1>0. TimerPin \in Pins /\ UartPin \in Pins /\ 0 \in PicIrqs /\ 4 \in PicIrqs
  BY IrqAssumption DEF PicIrqs
<1>1. CASE TimerIrq
  BY <1>0, <1>1, DeliverStep DEF TimerIrq
<1>2. CASE UartIrq
  BY <1>0, <1>2, DeliverStep DEF UartIrq
<1>3. CASE LowerLine
  BY <1>3, LowerLineStep
<1>4. CASE PreRun
  BY <1>4, PreRunStep
<1>5. CASE ExitHalt
  BY <1>5, ExitHaltStep
<1>6. CASE ExitInterruptWindow
  BY <1>6, ExitInterruptWindowStep
<1>7. CASE ExitCanceled
  BY <1>7, ExitCanceledStep
<1>8. CASE ExitWritePic
  BY <1>8, ExitWritePicStep
<1>9. CASE TakeEvent \/ Sti \/ Cli \/ Instruction
  BY <1>9, GuestStep
<1>10. CASE \E p \in Pins : ExitApicEoi(p) \/ TakeFixed(p) \/ EdgeEoi(p)
  BY <1>10, ExitApicEoiStep, TakeFixedStep, EdgeEoiStep
<1>11. CASE \E p \in Pins, m, lv \in BOOLEAN : ExitWriteRte(p, m, lv)
  BY <1>11, ExitWriteRteStep
<1>12. CASE UNCHANGED irqVars
  <2>1. UNCHANGED <<vcpu, ext, guest>> /\ UNCHANGED <<rte, line, queue, lapic, dropped>>
        /\ pic' = pic
    BY <1>12 DEF irqVars
  <2> QED
    BY <2>1, VcpuUnchanged, ApicUnchanged DEF IrqIInv, PicType
<1> QED
  BY <1>1, <1>2, <1>3, <1>4, <1>5, <1>6, <1>7, <1>8, <1>9, <1>10, <1>11, <1>12 DEF IrqNext

\* The inductive invariant, for the specification.
LEMMA IrqInvariant == IrqSpec => []IrqIInv
  BY IrqInitial, IrqInductive, PTL DEF IrqSpec

\* The slot and the event register hold what the guest is owed.
OwedInv == owed \subseteq PicIrqs /\ ExtIntKept

\* Nothing about the external interrupts changes.
ExtSame == ext' = ext /\ guest'.event = guest.event /\ owed' = owed

\* An injection empties the slot into the event register.
Injects == /\ ext.pending /\ ext'.pending = FALSE /\ guest.event = NoVector
           /\ guest'.event = ext.vector /\ owed' = owed

\* What TryDeliverPendingExtInt does to them, when a vCPU that is ready for an
\* injection has no event.
LEMMA TryDeliverMoves ==
  ASSUME NEW v, NEW g \in Guests, ext \in [pending : BOOLEAN, vector : Events],
         g.event = guest.event, owed' = owed,
         EvaluateInjectDecision(v) \notin {"none", "arm"} => guest.event = NoVector,
         TryDeliverPendingExtInt(v, g)
  PROVE ExtSame \/ Injects
<1>1. CASE EvaluateInjectDecision(v) = "none"
  BY <1>1 DEF TryDeliverPendingExtInt, ExtSame
<1>2. CASE EvaluateInjectDecision(v) = "arm"
  BY <1>2 DEF TryDeliverPendingExtInt, ArmInterruptWindow, ExtSame, Guests
<1>3. CASE EvaluateInjectDecision(v) \notin {"none", "arm"}
  <2>1. ext.pending
    BY <1>3 DEF EvaluateInjectDecision
  <2>2. /\ guest' = [g EXCEPT !.event = ext.vector, !.halted = FALSE, !.window = @ /\ ~v.window]
        /\ ext' = [pending |-> FALSE, vector |-> NoVector]
    BY <1>3 DEF TryDeliverPendingExtInt
  <2> QED
    BY <1>3, <2>1, <2>2 DEF Injects, Guests
<1> QED
  BY <1>1, <1>2, <1>3

\* The steps that touch the slot or the event register.
LEMMA ExtMoves ==
  ASSUME IrqIInv, IrqNext
  PROVE \/ ExtSame
        \/ Injects
        \/ TakeEvent
        \/ \E irq \in PicIrqs : RaiseExtInt(irq)
<1>0. VcpuInv /\ guest \in Guests /\ ext \in [pending : BOOLEAN, vector : Events]
  BY DEF IrqIInv, VcpuInv, VcpuTypes, Guests
<1>1. CASE TimerIrq \/ UartIrq
  BY <1>1 DEF TimerIrq, UartIrq, deliver_irq, PicIrqs, ExtSame
<1>2. CASE PreRun
  <2> DEFINE v == [vcpu EXCEPT !.pc = "run"]
  <2>1. TryDeliverPendingExtInt(v, guest) /\ vcpu.pc = "pre" /\ owed' = owed
    BY <1>2 DEF PreRun
  <2>2. /\ v.ready = vcpu.ready /\ v.interruptable = vcpu.interruptable
        /\ v.interrupt_flag = vcpu.interrupt_flag
        /\ v.interruption_pending = vcpu.interruption_pending
    BY <1>0 DEF VcpuInv, VcpuTypes
  <2> HIDE DEF v
  <2>3. EvaluateInjectDecision(v) \notin {"none", "arm"} => guest.event = NoVector
    BY <1>0, <2>1, <2>2 DEF EvaluateInjectDecision, VcpuInv, CopiesHold
  <2> QED
    BY <1>0, <2>1, <2>3, TryDeliverMoves
<1>3. CASE ExitHalt
  <2> DEFINE g == [guest EXCEPT !.halted = TRUE, !.shadow = FALSE]
             u == UpdateVcpuFromExit(g)
             v == [u EXCEPT !.ready = u.interruptable /\ u.interrupt_flag, !.pc = "pre"]
  <2>1. /\ guest.event = NoVector /\ owed' = owed
        /\ IF ext.pending THEN TryDeliverPendingExtInt(v, g)
                          ELSE vcpu' = v /\ guest' = g /\ UNCHANGED ext
    BY <1>3 DEF ExitHalt
  <2>2. g \in Guests /\ g.event = guest.event
    BY <1>0 DEF Guests
  <2> HIDE DEF g, v
  <2> QED
    BY <1>0, <2>1, <2>2, TryDeliverMoves DEF ExtSame
<1>4. CASE ExitInterruptWindow
  <2> DEFINE g == [guest EXCEPT !.window = FALSE]
             u == UpdateVcpuFromExit(g)
             v == [u EXCEPT !.pc = "pre", !.window = FALSE,
                            !.ready = u.interruptable /\ u.interrupt_flag]
  <2>1. /\ guest.event = NoVector /\ owed' = owed
        /\ IF ext.pending THEN TryDeliverPendingExtInt(v, g)
                          ELSE vcpu' = v /\ guest' = g /\ UNCHANGED ext
    BY <1>4 DEF ExitInterruptWindow, WindowDue
  <2>2. g \in Guests /\ g.event = guest.event
    BY <1>0 DEF Guests
  <2> HIDE DEF g, v
  <2> QED
    BY <1>0, <2>1, <2>2, TryDeliverMoves DEF ExtSame
<1>5. CASE \/ LowerLine \/ ExitCanceled \/ ExitWritePic \/ Sti \/ Cli \/ Instruction
           \/ \E p \in Pins : ExitApicEoi(p) \/ TakeFixed(p) \/ EdgeEoi(p)
           \/ \E p \in Pins, m, lv \in BOOLEAN : ExitWriteRte(p, m, lv)
  BY <1>0, <1>5 DEF LowerLine, ExitCanceled, ExitWritePic, Sti, Cli, Instruction, ExitApicEoi, TakeFixed,
                    EdgeEoi, ExitWriteRte, ExtSame, Guests
<1> QED
  BY <1>1, <1>2, <1>3, <1>4, <1>5 DEF IrqNext

\* A raise, an injection and the guest's taking keep the account.
LEMMA OwedInductive == IrqIInv /\ OwedInv /\ [IrqNext]_irqVars => OwedInv'
<1> SUFFICES ASSUME IrqIInv, OwedInv, [IrqNext]_irqVars PROVE OwedInv'
  OBVIOUS
<1>0. /\ guest \in Guests /\ ext \in [pending : BOOLEAN, vector : Events]
      /\ owed \subseteq PicIrqs /\ owed = InSlot \cup InEvent
      /\ NoVector.irq \notin PicIrqs /\ \A i \in PicIrqs : Vector(i).irq = i
  BY DEF IrqIInv, VcpuInv, VcpuTypes, Guests, OwedInv, ExtIntKept, PicIrqs, NoVector, Vector
<1>1. CASE ExtSame
  <2>1. InSlot' = InSlot /\ InEvent' = InEvent
    BY <1>1 DEF ExtSame, InSlot, InEvent
  <2> QED
    BY <1>0, <1>1, <2>1 DEF ExtSame, OwedInv, ExtIntKept
<1>2. CASE Injects
  <2>1. InEvent = {} /\ InSlot = {ext.vector.irq} /\ InSlot' = {}
    BY <1>2 DEF Injects, InSlot, InEvent
  <2>2. InEvent' = {ext.vector.irq}
    BY <1>0, <1>2, <2>1 DEF Injects, InEvent
  <2> QED
    BY <1>0, <1>2, <2>1, <2>2 DEF Injects, OwedInv, ExtIntKept
<1>3. CASE TakeEvent
  <2>1. guest'.event = NoVector /\ ext' = ext /\ owed' = owed \ (InEvent \ InSlot)
    BY <1>0, <1>3 DEF TakeEvent, Guests
  <2>2. InEvent' = {} /\ InSlot' = InSlot
    BY <2>1 DEF InEvent, InSlot
  <2> QED
    BY <1>0, <2>1, <2>2 DEF OwedInv, ExtIntKept
<1>4. ASSUME NEW irq \in PicIrqs, RaiseExtInt(irq) PROVE OwedInv'
  <2>1. /\ owed' = (owed \ (InSlot \ InEvent)) \cup {irq}
        /\ ext' = [pending |-> TRUE, vector |-> Vector(irq)] /\ guest'.event = guest.event
    BY <1>0, <1>4 DEF RaiseExtInt, Guests
  <2>2. InEvent' = InEvent /\ InSlot' = {irq}
    BY <1>0, <2>1 DEF InEvent, InSlot
  <2> QED
    BY <1>0, <2>1, <2>2 DEF OwedInv, ExtIntKept
<1>5. CASE UNCHANGED irqVars
  BY <1>1, <1>5 DEF irqVars, ExtSame
<1> QED
  BY <1>1, <1>2, <1>3, <1>4, <1>5, ExtMoves

\* What the guest is still to be told is on its way (irq.cc, pic.cc, class
\* IoApic): a level held over an EOI has its request in progress or met the full
\* queue, a remote IRR has its EOI coming, a vCPU in the guest with an ExtInt
\* pending will leave it, and an ExtInt that no other has replaced in the slot is
\* there or in the event register until the guest takes it.
THEOREM InterruptsKeptHolds == IrqSpec => []InterruptsKept
<1>1. IrqIInv /\ OwedInv => InterruptsKept
  BY DEF IrqIInv, VcpuInv, VcpuTypes, ApicInv, ApicTypes, PicType, Events, Entries, OwedInv, IrqTypeOK,
         InterruptsKept
<1>2. IrqInit => OwedInv
  BY DEF IrqInit, OwedInv, ExtIntKept, InSlot, InEvent
<1> QED
  BY <1>1, <1>2, IrqInvariant, OwedInductive, PTL DEF IrqSpec

\* EvaluateInjectDecision may trust copies as old as the last exit: an ExtInt is
\* written only into a guest that can take it, over no earlier event.
THEOREM SafeInjectionHolds == IrqSpec => SafeInjection
<1> DEFINE Writes == guest'.event # guest.event /\ guest'.event # NoVector
           Safe   == guest.event = NoVector /\ guest.if /\ ~guest'.shadow
<1>1. ASSUME IrqIInv, IrqNext, Writes PROVE Safe
  <2>0. VcpuInv
    BY <1>1 DEF IrqIInv
  <2>1. CASE PreRun
    <3> DEFINE v == [vcpu EXCEPT !.pc = "run"]
    <3>1. TryDeliverPendingExtInt(v, guest) /\ vcpu.pc = "pre"
      BY <2>1 DEF PreRun
    <3>2. /\ v.ready = vcpu.ready /\ v.interruptable = vcpu.interruptable
          /\ v.interrupt_flag = vcpu.interrupt_flag
          /\ v.interruption_pending = vcpu.interruption_pending
      BY <2>0 DEF VcpuInv, VcpuTypes
    <3> HIDE DEF v
    <3>3. EvaluateInjectDecision(v) \notin {"none", "arm"}
      BY <1>1, <2>0, <3>1 DEF TryDeliverPendingExtInt, ArmInterruptWindow, VcpuInv, VcpuTypes
    <3>4. guest.if /\ ~guest.shadow /\ guest.event = NoVector
      BY <2>0, <3>1, <3>2, <3>3 DEF EvaluateInjectDecision, VcpuInv, CopiesHold
    <3>5. guest' = [guest EXCEPT !.event = ext.vector, !.halted = FALSE, !.window = @ /\ ~v.window]
      BY <3>1, <3>3 DEF TryDeliverPendingExtInt
    <3>6. guest'.shadow = guest.shadow
      BY <3>5, <2>0 DEF VcpuInv, VcpuTypes
    <3> QED
      BY <3>4, <3>6
  <2>2. CASE ExitHalt
    <3> DEFINE g == [guest EXCEPT !.halted = TRUE, !.shadow = FALSE]
               u == UpdateVcpuFromExit(g)
               v == [u EXCEPT !.ready = u.interruptable /\ u.interrupt_flag, !.pc = "pre"]
    <3>1. /\ guest.if /\ guest.event = NoVector
          /\ IF ext.pending THEN TryDeliverPendingExtInt(v, g)
                            ELSE vcpu' = v /\ guest' = g /\ UNCHANGED ext
      BY <2>2 DEF ExitHalt
    <3>2. g \in Guests /\ g.shadow = FALSE
      BY <2>0 DEF VcpuInv, VcpuTypes, Guests
    <3> HIDE DEF g, v
    <3>3. guest'.shadow = FALSE
      BY <3>1, <3>2 DEF TryDeliverPendingExtInt, ArmInterruptWindow, Guests
    <3> QED
      BY <3>1, <3>3
  <2>3. CASE ExitInterruptWindow
    <3> DEFINE g == [guest EXCEPT !.window = FALSE]
               u == UpdateVcpuFromExit(g)
               v == [u EXCEPT !.pc = "pre", !.window = FALSE,
                              !.ready = u.interruptable /\ u.interrupt_flag]
    <3>1. /\ guest.if /\ ~guest.shadow /\ guest.event = NoVector
          /\ IF ext.pending THEN TryDeliverPendingExtInt(v, g)
                            ELSE vcpu' = v /\ guest' = g /\ UNCHANGED ext
      BY <2>3 DEF ExitInterruptWindow, WindowDue
    <3>2. g \in Guests /\ g.shadow = guest.shadow
      BY <2>0 DEF VcpuInv, VcpuTypes, Guests
    <3> HIDE DEF g, v
    <3>3. guest'.shadow = guest.shadow
      BY <3>1, <3>2 DEF TryDeliverPendingExtInt, ArmInterruptWindow, Guests
    <3> QED
      BY <3>1, <3>3
  <2>4. CASE ~(PreRun \/ ExitHalt \/ ExitInterruptWindow)
    <3>1. guest \in Guests
      BY <2>0 DEF VcpuInv, VcpuTypes, Guests
    <3>2. guest'.event \in {guest.event, NoVector}
      BY <1>1, <2>4, <3>1
         DEF IrqNext, TimerIrq, UartIrq, deliver_irq, RaiseExtInt, LowerLine, ExitCanceled,
             ExitWritePic, TakeEvent, Sti, Cli, Instruction, ExitApicEoi, TakeFixed, EdgeEoi,
             ExitWriteRte, Guests
    <3> QED
      BY <1>1, <3>2
  <2> QED
    BY <2>1, <2>2, <2>3, <2>4
<1>2. IrqIInv /\ [IrqNext]_irqVars => [Writes => Safe]_irqVars
  BY <1>1
<1> QED
  BY <1>2, IrqInvariant, PTL DEF IrqSpec, SafeInjection

-----------------------------------------------------------------------------
(* The network device: the invariant.                                       *)

FlushPcs == {"front", "take", "push", "raise", "request", "pop", "leave"}
TxPcs    == {"txTake", "txInput", "txPush", "txRaise", "txRequest"}
DonePcs  == {"raise", "request", "pop"}
RaisePcs == {"raise", "txRaise"}
AskPcs   == {"request", "txRequest"}

Thread   == [pc : NetPcs, pkt : 0..Packets, flush : BOOLEAN, gen : 0..MaxResets]
NetQueue == [ready : BOOLEAN, posted : Nat, last : Nat, used : Nat, seen : Nat]

V  == thr["V"]
D  == thr["D"]
Rx == ring["rx"]
Tx == ring["tx"]

\* A thread inside flush_rx_backlog.
Flushes(k) == k.flush /\ k.pc \in FlushPcs
\* A packet on its way that was never in the backlog.
Direct(k) == k.pc \in {"take", "push"} /\ ~k.flush
Fresh(k)  == k.pc \in {"empty", "append"} \/ Direct(k)

\* Where each thread can be, and rx_flush_active_.
Roles ==
  /\ V.pc \notin {"empty", "append"} /\ (V.pc \in FlushPcs => V.flush)
  /\ D.pc \notin TxPcs /\ (D.pc \in {"front", "pop", "leave"} => D.flush)
  /\ D.pc \in {"empty", "append", "enter"} => ~D.flush
  /\ active = (Flushes(V) \/ Flushes(D)) /\ ~(Flushes(V) /\ Flushes(D))

\* The packet in hand: the backlog's first, or the last one sent.
AtFront(k) == Flushes(k) /\ k.pc # "front" => backlog # <<>> /\ backlog[1] = k.pkt
InHand ==
  /\ AtFront(V) /\ AtFront(D)
  /\ Fresh(D) => D.pkt = sent /\ sent > 0
  /\ Direct(D) => backlog = <<>>

\* The backlog's first packet was delivered or dropped and is not yet popped.
Handed(k) == Flushes(k) /\ k.pc \in DonePcs
FrontDone == Handed(V) \/ Handed(D)

\* Used packets u and backlog b rise, none is above top, and used ones are below
\* those that wait, but for a first one that is done.
InOrder(u, b, top, done) ==
  /\ \A i \in DOMAIN u : u[i] <= top
  /\ \A j \in DOMAIN b : b[j] <= top
  /\ \A i, j \in DOMAIN u : i < j => u[i] < u[j]
  /\ \A i, j \in DOMAIN b : i < j => b[i] < b[j]
  /\ \A i \in DOMAIN u, j \in DOMAIN b : u[i] < b[j] \/ (j = 1 /\ done)

\* The n packets sent are used, waiting, lost or, the last one, fresh.
Somewhere(u, l, b, n, fresh, done) ==
  /\ \A p \in 1..n : p \in Elements(u) \/ p \in Elements(b) \/ p \in l \/ (fresh /\ p = n)
  /\ done => b[1] \in Elements(u) \/ b[1] \in l

Top == IF Fresh(D) THEN sent - 1 ELSE sent
Traffic == /\ InOrder(past.used, backlog, Top, FrontDone)
           /\ Somewhere(past.used, past.lost, backlog, sent, Fresh(D), FrontDone)

\* A buffer taken and not yet used.
Taken(k) == k.pc = "push" /\ k.gen = resets => Rx.used < Rx.last
Positions ==
  /\ Tx.used <= Tx.last /\ (V.pc \in {"txInput", "txPush"} => Tx.used < Tx.last)
  /\ ~past.stale => Rx.used <= Rx.last /\ Taken(V) /\ Taken(D)
  /\ V.gen <= resets /\ D.gen <= resets
  /\ Rx.ready = Tx.ready
  /\ resets = 0 /\ ~Rx.ready => Rx = FreshQueue

\* Used buffers the driver will not look for by itself have an interrupt coming.
Raises(k) == k.pc \in RaisePcs \/ (k.pc \in AskPcs /\ intr.status)
Coming == (intr.request /\ intr.status) \/ Raises(V) \/ Raises(D)
Signalled ==
  /\ driver.noInt <=> driver.handler = "poll"
  /\ /\ Rx.ready /\ Rx.used > Rx.seen /\ resets = 0
     /\ driver.handler = "idle" \/ (driver.handler = "ack" /\ ~driver.status)
     => Coming

\* A backlog with buffers left has somebody to move it.
Serves(k) == k.pc = "enter" \/ Fresh(k) \/ k.pc \in FlushPcs \ {"leave"}
Unserved == resets = 0 /\ ~past.refused /\ Rx.last # Rx.posted
Served ==
  /\ Unserved /\ backlog # <<>> => driver.kick \/ Serves(V) \/ Serves(D)
  /\ Unserved /\ V.pc = "leave" => driver.kick
  /\ Unserved /\ D.pc = "leave" => driver.kick \/ V.pc = "enter"

WnIInv == NetTypeOK /\ Roles /\ InHand /\ Traffic /\ Positions /\ Signalled /\ Served

-----------------------------------------------------------------------------
(* Packets on their way.                                                    *)

Packet == 1..Packets

LEMMA Numbered ==
  ASSUME NEW s \in Seq(Packet)
  PROVE Len(s) \in Nat /\ DOMAIN s = 1..Len(s) /\ \A i \in DOMAIN s : s[i] \in Packet /\ s[i] \in Nat
<1>1. Len(s) \in Nat /\ DOMAIN s = 1..Len(s) /\ \A i \in DOMAIN s : s[i] \in Packet
  OBVIOUS
<1>2. Packet \subseteq Nat
  BY NetAssumption DEF Packet
<1> QED
  BY <1>1, <1>2

LEMMA Appended ==
  ASSUME NEW s \in Seq(Packet), NEW p \in Packet
  PROVE /\ Append(s, p) \in Seq(Packet) /\ Elements(Append(s, p)) = Elements(s) \cup {p}
        /\ Append(s, p) # <<>> /\ (s # <<>> => Append(s, p)[1] = s[1])
        /\ \A i \in DOMAIN Append(s, p) : i \in Nat /\ IF i <= Len(s) THEN i \in DOMAIN s /\ Append(s, p)[i] = s[i]
                                                       ELSE i = Len(s) + 1 /\ Append(s, p)[i] = p
<1> DEFINE a == Append(s, p)
<1>1. /\ a \in Seq(Packet) /\ Len(a) = Len(s) + 1 /\ Len(s) \in Nat /\ a # <<>> /\ a[Len(s) + 1] = p
      /\ \A i \in 1..Len(s) : a[i] = s[i]
  OBVIOUS
<1>2. DOMAIN a = 1..(Len(s) + 1) /\ DOMAIN s = 1..Len(s)
  BY <1>1
<1> HIDE DEF a
<1>3. \A i \in DOMAIN a : i \in Nat /\ IF i <= Len(s) THEN i \in DOMAIN s /\ a[i] = s[i]
                                       ELSE i = Len(s) + 1 /\ a[i] = p
  BY <1>1, <1>2
<1>4. Elements(a) = Elements(s) \cup {p}
  BY <1>1, <1>2, <1>3 DEF Elements
<1>5. s # <<>> => a[1] = s[1]
  BY <1>1
<1> QED
  BY <1>1, <1>3, <1>4, <1>5 DEF a

LEMMA Popped ==
  ASSUME NEW s \in Seq(Packet), s # <<>>
  PROVE /\ Tail(s) \in Seq(Packet) /\ Elements(s) = Elements(Tail(s)) \cup {s[1]}
        /\ 1 \in DOMAIN s /\ s[1] \in Packet /\ Head(s) = s[1]
        /\ \A i \in DOMAIN Tail(s) : i \in Nat /\ i >= 1 /\ i + 1 \in DOMAIN s /\ Tail(s)[i] = s[i + 1]
<1> DEFINE t == Tail(s)
<1>1. /\ t \in Seq(Packet) /\ Len(t) = Len(s) - 1 /\ Len(s) \in Nat /\ Len(s) > 0 /\ Head(s) = s[1]
      /\ \A i \in 1..Len(t) : t[i] = s[i + 1]
  OBVIOUS
<1>2. DOMAIN t = 1..Len(t) /\ DOMAIN s = 1..Len(s)
  BY <1>1
<1> HIDE DEF t
<1>3. \A i \in DOMAIN t : i \in Nat /\ i >= 1 /\ i + 1 \in DOMAIN s /\ t[i] = s[i + 1]
  BY <1>1, <1>2
<1>4. 1 \in DOMAIN s /\ s[1] \in Packet
  BY <1>1, <1>2
<1>5. ASSUME NEW j \in DOMAIN s, j # 1 PROVE s[j] \in Elements(t)
  <2>1. j - 1 \in DOMAIN t /\ (j - 1) + 1 = j
    BY <1>1, <1>2, <1>5
  <2> QED
    BY <1>3, <2>1 DEF Elements
<1>6. Elements(s) = Elements(t) \cup {s[1]}
  BY <1>3, <1>4, <1>5 DEF Elements
<1> QED
  BY <1>1, <1>3, <1>4, <1>6 DEF t

\* The last packet sent joins the backlog.
LEMMA OrderQueued ==
  ASSUME NEW u \in Seq(Packet), NEW b \in Seq(Packet), NEW n \in Packet, NEW done,
         InOrder(u, b, n - 1, done)
  PROVE InOrder(u, Append(b, n), n, done)
<1> DEFINE a == Append(b, n)
<1>1. /\ \A i \in DOMAIN a : i \in Nat /\ IF i <= Len(b) THEN i \in DOMAIN b /\ a[i] = b[i]
                                          ELSE i = Len(b) + 1 /\ a[i] = n
  BY Appended
<1>2. (\A i \in DOMAIN u : u[i] \in Nat) /\ (\A i \in DOMAIN b : b[i] \in Nat) /\ n \in Nat /\ Len(b) \in Nat
  BY Numbered, NetAssumption DEF Packet
<1> HIDE DEF a
<1>3. \A i \in DOMAIN u : u[i] <= n
  BY <1>2 DEF InOrder
<1>4. \A j \in DOMAIN a : a[j] <= n
  BY <1>1, <1>2 DEF InOrder
<1>5. \A i, j \in DOMAIN a : i < j => a[i] < a[j]
  BY <1>1, <1>2 DEF InOrder
<1>6. \A i \in DOMAIN u, j \in DOMAIN a : u[i] < a[j] \/ (j = 1 /\ done)
  BY <1>1, <1>2 DEF InOrder
<1> QED
  BY <1>3, <1>4, <1>5, <1>6 DEF InOrder, a

\* It is used at once, when nothing waits.
LEMMA OrderUsed ==
  ASSUME NEW u \in Seq(Packet), NEW n \in Packet, NEW done, NEW more, InOrder(u, <<>>, n - 1, done)
  PROVE InOrder(Append(u, n), <<>>, n, more)
<1> DEFINE a == Append(u, n)
<1>1. /\ \A i \in DOMAIN a : i \in Nat /\ IF i <= Len(u) THEN i \in DOMAIN u /\ a[i] = u[i]
                                          ELSE i = Len(u) + 1 /\ a[i] = n
  BY Appended
<1>2. (\A i \in DOMAIN u : u[i] \in Nat) /\ n \in Nat /\ Len(u) \in Nat /\ DOMAIN <<>> = {}
  BY Numbered, NetAssumption DEF Packet
<1> HIDE DEF a
<1>3. \A i \in DOMAIN a : a[i] <= n
  BY <1>1, <1>2 DEF InOrder
<1>4. \A i, j \in DOMAIN a : i < j => a[i] < a[j]
  BY <1>1, <1>2 DEF InOrder
<1> QED
  BY <1>2, <1>3, <1>4 DEF InOrder, a

\* The first of the backlog is used.
LEMMA OrderServed ==
  ASSUME NEW u \in Seq(Packet), NEW b \in Seq(Packet), b # <<>>, NEW top \in Int, InOrder(u, b, top, FALSE)
  PROVE InOrder(Append(u, b[1]), b, top, TRUE)
<1> DEFINE a == Append(u, b[1])
<1>0. 1 \in DOMAIN b /\ b[1] \in Packet /\ DOMAIN b = 1..Len(b)
  BY Popped
<1>1. /\ \A i \in DOMAIN a : i \in Nat /\ IF i <= Len(u) THEN i \in DOMAIN u /\ a[i] = u[i]
                                          ELSE i = Len(u) + 1 /\ a[i] = b[1]
  BY <1>0, Appended
<1>2. (\A i \in DOMAIN u : u[i] \in Nat) /\ (\A i \in DOMAIN b : b[i] \in Nat) /\ Len(u) \in Nat
  BY Numbered
<1>3. \A j \in DOMAIN b : j \in Nat /\ j >= 1
  BY <1>0
<1> HIDE DEF a
<1>4. \A i \in DOMAIN u : u[i] < b[1]
  BY <1>0 DEF InOrder
<1>5. \A i \in DOMAIN a : a[i] <= top
  BY <1>0, <1>1 DEF InOrder
<1>6. \A i, j \in DOMAIN a : i < j => a[i] < a[j]
  BY <1>0, <1>1, <1>2, <1>4 DEF InOrder
<1>7. \A i \in DOMAIN a, j \in DOMAIN b : a[i] < b[j] \/ (j = 1 /\ TRUE)
  BY <1>0, <1>1, <1>2, <1>3 DEF InOrder
<1> QED
  BY <1>5, <1>6, <1>7 DEF InOrder, a

\* It is popped.
LEMMA OrderPopped ==
  ASSUME NEW u \in Seq(Packet), NEW b \in Seq(Packet), b # <<>>, NEW top, InOrder(u, b, top, TRUE)
  PROVE InOrder(u, Tail(b), top, FALSE)
<1> DEFINE t == Tail(b)
<1>1. \A i \in DOMAIN t : i \in Nat /\ i >= 1 /\ i + 1 \in DOMAIN b /\ t[i] = b[i + 1]
  BY Popped
<1> HIDE DEF t
<1>2. \A i \in DOMAIN t : t[i] <= top
  BY <1>1 DEF InOrder
<1>3. \A i, j \in DOMAIN t : i < j => t[i] < t[j]
  BY <1>1 DEF InOrder
<1>4. \A i \in DOMAIN u, j \in DOMAIN t : u[i] < t[j] \/ (j = 1 /\ FALSE)
  BY <1>1 DEF InOrder
<1> QED
  BY <1>2, <1>3, <1>4 DEF InOrder, t

\* What is said of the order may be weakened.
LEMMA OrderWeaker ==
  ASSUME NEW u \in Seq(Packet), NEW b \in Seq(Packet), NEW n \in Nat, NEW done, InOrder(u, b, n - 1, done)
  PROVE InOrder(u, b, n, done)
<1>1. (\A i \in DOMAIN u : u[i] \in Nat) /\ (\A i \in DOMAIN b : b[i] \in Nat)
  BY Numbered
<1> QED
  BY <1>1 DEF InOrder

LEMMA OrderAny ==
  ASSUME NEW u, NEW b, NEW n, NEW done, NEW more, InOrder(u, b, n, done), done => more
  PROVE InOrder(u, b, n, more)
  BY DEF InOrder

LEMMA SomewhereAny ==
  ASSUME NEW u, NEW l, NEW b, NEW n, NEW fresh, NEW done, NEW freshNow, NEW doneNow,
         Somewhere(u, l, b, n, fresh, done), fresh => freshNow, doneNow => done
  PROVE Somewhere(u, l, b, n, freshNow, doneNow)
  BY DEF Somewhere

-----------------------------------------------------------------------------
(* The state and its changes.                                               *)

Both == {"V", "D"}
Threads == [Both -> Thread]

LEMMA Typed ==
  ASSUME NetTypeOK
  PROVE /\ V \in Thread /\ D \in Thread /\ Rx \in NetQueue /\ Tx \in NetQueue /\ thr \in Threads
        /\ ring \in [Queues -> NetQueue]
        /\ \A t \in Both : thr[t] \in Thread /\ (t = "V" => thr[t] = V) /\ (t = "D" => thr[t] = D)
  BY DEF NetTypeOK, V, D, Rx, Tx, Thread, NetQueue, Threads, Both, Queues

\* Thread t becomes k, the other stays.
Moves(t, k) == /\ thr' \in Threads
               /\ t = "V" => V' = k /\ D' = D
               /\ t = "D" => V' = V /\ D' = k

LEMMA ThreadMoves ==
  ASSUME NetTypeOK, NEW t \in Both, NEW k \in Thread, thr' = [thr EXCEPT ![t] = k]
  PROVE Moves(t, k)
<1>1. thr \in Threads
  BY Typed
<1> QED
  BY <1>1 DEF Moves, Threads, V, D, Both

LEMMA ToMoves ==
  ASSUME NetTypeOK, NEW t \in Both, NEW pc \in NetPcs, To(t, pc)
  PROVE Moves(t, [thr[t] EXCEPT !.pc = pc])
<1>1. thr[t] \in Thread /\ thr \in Threads
  BY Typed
<1>2. [thr[t] EXCEPT !.pc = pc] \in Thread
  BY <1>1 DEF Thread
<1>3. thr' = [thr EXCEPT ![t] = [thr[t] EXCEPT !.pc = pc]]
  BY <1>1 DEF To, Threads
<1> QED
  BY <1>2, <1>3, ThreadMoves

LEMMA IdleIsThread == IdleThread \in Thread
  BY NetAssumption DEF IdleThread, Thread, NetPcs

LEMMA ReturnMoves ==
  ASSUME NetTypeOK, NEW t \in Both, Return(t)
  PROVE Moves(t, IdleThread)
  BY IdleIsThread, ThreadMoves DEF Return

LEMMA RingSame == ASSUME UNCHANGED ring PROVE Rx' = Rx /\ Tx' = Tx
  BY DEF Rx, Tx
LEMMA ThreadsSame == ASSUME UNCHANGED thr PROVE V' = V /\ D' = D
  BY DEF V, D

\* The types, part by part.
LEMMA Types ==
  NetTypeOK <=>
    /\ ring \in [Queues -> NetQueue] /\ backlog \in Seq(Packet) /\ active \in BOOLEAN
    /\ thr \in Threads /\ slirpMu \in {"none", "S", "V"} /\ sent \in 0..Packets
    /\ intr \in [status : BOOLEAN, request : BOOLEAN]
    /\ driver \in [kick : BOOLEAN, handler : {"idle", "ack", "poll", "enable"}, status : BOOLEAN,
                   noInt : BOOLEAN, total : Nat, sends : Nat]
    /\ resets \in 0..MaxResets
    /\ past \in [used : Seq(Packet), lost : SUBSET Packet, refused : BOOLEAN, stale : BOOLEAN]
  BY DEF NetTypeOK, NetQueue, Thread, Threads, Both, Packet

LEMMA TypesNext ==
  ASSUME ring' \in [Queues -> NetQueue], backlog' \in Seq(Packet), active' \in BOOLEAN,
         thr' \in Threads, slirpMu' \in {"none", "S", "V"}, sent' \in 0..Packets,
         intr' \in [status : BOOLEAN, request : BOOLEAN],
         driver' \in [kick : BOOLEAN, handler : {"idle", "ack", "poll", "enable"}, status : BOOLEAN,
                      noInt : BOOLEAN, total : Nat, sends : Nat],
         resets' \in 0..MaxResets,
         past' \in [used : Seq(Packet), lost : SUBSET Packet, refused : BOOLEAN, stale : BOOLEAN]
  PROVE NetTypeOK'
  BY DEF NetTypeOK, NetQueue, Thread, Threads, Both, Packet

\* Traffic is not touched.
LEMMA TrafficSame ==
  ASSUME Traffic, UNCHANGED <<past, backlog, sent>>, Fresh(D)' <=> Fresh(D), FrontDone' => FrontDone,
         FrontDone => FrontDone'
  PROVE Traffic'
<1>1. Top' = Top
  BY DEF Top
<1>2. InOrder(past.used, backlog, Top, FrontDone')
  BY OrderAny DEF Traffic
<1>3. Somewhere(past.used, past.lost, backlog, sent, Fresh(D)', FrontDone')
  BY SomewhereAny DEF Traffic
<1> QED
  BY <1>1, <1>2, <1>3 DEF Traffic

-----------------------------------------------------------------------------
(* The receive path.                                                        *)

LEMMA DeliverPacketStep == ASSUME WnIInv, NEW t \in Both, deliver_rx_packet(t) PROVE WnIInv'
<1> USE DEF WnIInv
<1>1. V \in Thread /\ D \in Thread /\ Rx' = Rx /\ Tx' = Tx
  BY Typed, RingSame DEF deliver_rx_packet
<1>2. /\ D.pc = "empty" /\ ~D.flush /\ V' = V /\ thr' \in Threads
      /\ D' = [D EXCEPT !.pc = IF backlog = <<>> THEN "take" ELSE "append"]
  BY Typed, ToMoves DEF deliver_rx_packet, At, Moves, Both, Roles, NetPcs
<1>3. NetTypeOK'
  BY <1>2, Types, TypesNext DEF deliver_rx_packet
<1>4. Roles'
  BY <1>1, <1>2 DEF deliver_rx_packet, Roles, Flushes, FlushPcs, TxPcs, Thread
<1>5. InHand'
  BY <1>1, <1>2 DEF deliver_rx_packet, InHand, AtFront, Fresh, Direct, Flushes, FlushPcs, Thread
<1>6. Traffic'
  BY <1>1, <1>2, TrafficSame DEF deliver_rx_packet, Fresh, Direct, FrontDone, Handed, DonePcs, Thread
<1>7. Positions'
  BY <1>1, <1>2 DEF deliver_rx_packet, Positions, Taken, Thread
<1>8. Signalled'
  BY <1>1, <1>2 DEF deliver_rx_packet, Signalled, Coming, Raises, RaisePcs, AskPcs, Thread
<1>9. Served'
  BY <1>1, <1>2 DEF deliver_rx_packet, Served, Unserved, Serves, Fresh, Direct, FlushPcs, Thread
<1> QED
  BY <1>3, <1>4, <1>5, <1>6, <1>7, <1>8, <1>9

\* The packet of thread t is dropped.
LEMMA TrafficLost ==
  ASSUME NetTypeOK, Roles, InHand, Traffic, NEW t \in Both, thr[t].pc \in {"take", "push"},
         UNCHANGED <<backlog, sent>>, past'.used = past.used, past'.lost = past.lost \cup {thr[t].pkt},
         NEW g, Moves(t, [thr[t] EXCEPT !.pc = AfterTrue(t), !.gen = g])
  PROVE Traffic'
<1>1. /\ V \in Thread /\ D \in Thread /\ thr[t] \in Thread /\ (t = "V" => thr[t] = V) /\ (t = "D" => thr[t] = D)
      /\ backlog \in Seq(Packet) /\ past.used \in Seq(Packet) /\ sent \in Nat
  BY Typed, Types, NetAssumption
<1>2. CASE thr[t].flush
  <2>1. /\ (Fresh(D)' <=> Fresh(D)) /\ FrontDone' /\ ~FrontDone /\ backlog[1] = thr[t].pkt
    BY <1>1, <1>2 DEF Moves, AfterTrue, Fresh, Direct, FrontDone, Handed, DonePcs, Flushes, FlushPcs, Thread,
                      Both, Roles, InHand, AtFront
  <2>2. Top' = Top
    BY <2>1 DEF Top
  <2>3. InOrder(past.used, backlog, Top, FrontDone')
    BY <2>1, OrderAny DEF Traffic
  <2>4. Somewhere(past.used, past'.lost, backlog, sent, Fresh(D)', FrontDone')
    BY <2>1 DEF Traffic, Somewhere
  <2> QED
    BY <2>2, <2>3, <2>4 DEF Traffic
<1>3. CASE ~thr[t].flush
  <2>1. Fresh(D) /\ ~Fresh(D)' /\ D.pkt = sent /\ t = "D" /\ (FrontDone' => FrontDone) /\ (FrontDone => FrontDone')
    BY <1>1, <1>3 DEF Moves, AfterTrue, Fresh, Direct, FrontDone, Handed, DonePcs, Flushes, FlushPcs, Thread,
                      Both, Roles, InHand, AtFront
  <2>2. Top = sent - 1 /\ Top' = sent
    BY <2>1 DEF Top
  <2>3. InOrder(past.used, backlog, sent, FrontDone')
    <3>1. InOrder(past.used, backlog, sent, FrontDone)
      BY <1>1, <2>2, OrderWeaker DEF Traffic
    <3> QED
      BY <2>1, <3>1, OrderAny
  <2>4. Somewhere(past.used, past'.lost, backlog, sent, Fresh(D)', FrontDone')
    BY <1>1, <2>1 DEF Traffic, Somewhere
  <2> QED
    BY <2>2, <2>3, <2>4 DEF Traffic
<1> QED
  BY <1>2, <1>3

\* It is used.
LEMMA TrafficUsed ==
  ASSUME NetTypeOK, Roles, InHand, Traffic, NEW t \in Both, thr[t].pc = "push",
         UNCHANGED <<backlog, sent>>, past'.used = Append(past.used, thr[t].pkt), past'.lost = past.lost,
         Moves(t, [thr[t] EXCEPT !.pc = "raise"])
  PROVE Traffic'
<1>1. /\ V \in Thread /\ D \in Thread /\ thr[t] \in Thread /\ (t = "V" => thr[t] = V) /\ (t = "D" => thr[t] = D)
      /\ backlog \in Seq(Packet) /\ past.used \in Seq(Packet) /\ sent \in Nat /\ sent <= Packets
  BY Typed, Types, NetAssumption
<1>2. CASE thr[t].flush
  <2>1. (Fresh(D)' <=> Fresh(D)) /\ FrontDone' /\ ~FrontDone /\ backlog # <<>> /\ backlog[1] = thr[t].pkt
    BY <1>1, <1>2 DEF Moves, Fresh, Direct, FrontDone, Handed, DonePcs, Flushes, FlushPcs, Thread,
                      Both, Roles, InHand, AtFront
  <2>2. Top' = Top /\ Top \in Int
    BY <1>1, <2>1 DEF Top
  <2>3. thr[t].pkt \in Packet
    BY <1>1, <2>1, Popped
  <2>4. InOrder(past'.used, backlog, Top, FrontDone')
    <3>1. InOrder(past.used, backlog, Top, FALSE)
      BY <2>1 DEF Traffic, InOrder
    <3>2. InOrder(past'.used, backlog, Top, TRUE)
      BY <1>1, <2>1, <2>2, <3>1, OrderServed
    <3> QED
      BY <2>1, <3>2, OrderAny
  <2>5. Elements(past'.used) = Elements(past.used) \cup {thr[t].pkt}
    BY <1>1, <2>3, Appended
  <2>6. Somewhere(past'.used, past.lost, backlog, sent, Fresh(D)', FrontDone')
    BY <2>1, <2>5 DEF Traffic, Somewhere
  <2> QED
    BY <2>2, <2>4, <2>6 DEF Traffic
<1>3. CASE ~thr[t].flush
  <2>1. /\ Fresh(D) /\ ~Fresh(D)' /\ D.pkt = sent /\ sent > 0 /\ t = "D" /\ backlog = <<>> 
        /\ ~FrontDone' /\ thr[t].pkt = sent
    BY <1>1, <1>3 DEF Moves, Fresh, Direct, FrontDone, Handed, DonePcs, Flushes, FlushPcs, Thread,
                      Both, Roles, InHand, AtFront
  <2>2. Top = sent - 1 /\ Top' = sent /\ sent \in Packet
    BY <1>1, <2>1, NetAssumption DEF Top, Packet
  <2>3. InOrder(past'.used, backlog, sent, FrontDone')
    BY <1>1, <2>1, <2>2, OrderUsed DEF Traffic
  <2>4. Elements(past'.used) = Elements(past.used) \cup {sent}
    BY <1>1, <2>1, <2>2, Appended
  <2>5. Somewhere(past'.used, past.lost, backlog, sent, Fresh(D)', FrontDone')
    BY <1>1, <2>1, <2>4 DEF Traffic, Somewhere
  <2> QED
    BY <2>2, <2>3, <2>5 DEF Traffic
<1> QED
  BY <1>2, <1>3

\* What TakeBuffer makes of the thread and the ring.
LEMMA Taking ==
  ASSUME NetTypeOK, NEW t \in Both, TakeBuffer(t)
  PROVE /\ ring' \in [Queues -> NetQueue] /\ Tx' = Tx
        /\ \/ Rx' = Rx /\ past' = past /\ Moves(t, [thr[t] EXCEPT !.pc = AfterFalse(t)]) /\ (~Rx.ready \/ Rx.last = Rx.posted)
           \/ Rx' = Rx /\ Lose(t) /\ Moves(t, [thr[t] EXCEPT !.pc = AfterTrue(t)])
           \/ /\ Rx.ready /\ Rx.last # Rx.posted /\ Rx' = [Rx EXCEPT !.last = @ + 1] /\ Lose(t)
              /\ Moves(t, [thr[t] EXCEPT !.pc = AfterTrue(t), !.gen = resets])
           \/ /\ Rx.ready /\ Rx.last # Rx.posted /\ Rx' = [Rx EXCEPT !.last = @ + 1] /\ past' = past
              /\ Moves(t, [thr[t] EXCEPT !.pc = "push", !.gen = resets])
<1>1. /\ thr[t] \in Thread /\ thr \in Threads /\ ring \in [Queues -> NetQueue] /\ Rx \in NetQueue
      /\ AfterTrue(t) \in NetPcs /\ AfterFalse(t) \in NetPcs /\ resets \in 0..MaxResets
  BY Typed, Types DEF AfterTrue, AfterFalse, NetPcs
<1>2. CASE ring' = ring
  <2>1. \/ past' = past /\ To(t, AfterFalse(t)) /\ (~Rx.ready \/ Rx.last = Rx.posted)
        \/ Lose(t) /\ To(t, AfterTrue(t))
    <3>1. ring' # [ring EXCEPT !["rx"].last = @ + 1]
      <4>1. Rx' = Rx /\ Rx.last # Rx.last + 1
        BY <1>1, <1>2, RingSame DEF NetQueue
      <4> QED
        BY <1>1, <1>2, <4>1 DEF Rx, Queues, NetQueue
    <3> QED
      BY <3>1 DEF TakeBuffer, Rx
  <2> QED
    BY <1>1, <1>2, <2>1, RingSame, ToMoves
<1>3. CASE ring' = [ring EXCEPT !["rx"].last = @ + 1]
  <2>1. /\ Rx' = [Rx EXCEPT !.last = @ + 1] /\ Tx' = Tx /\ ring' \in [Queues -> NetQueue]
    BY <1>1, <1>3 DEF Rx, Tx, Queues, NetQueue
  <2>2. ring' # ring
    BY <1>1, <2>1 DEF Rx, NetQueue
  <2>3. \/ Lose(t) /\ thr' = [thr EXCEPT ![t].pc = AfterTrue(t), ![t].gen = resets]
        \/ past' = past /\ thr' = [thr EXCEPT ![t].pc = "push", ![t].gen = resets]
    BY <2>2 DEF TakeBuffer
  <2>8. Rx.ready /\ Rx.last # Rx.posted
    BY <2>2 DEF TakeBuffer, Rx
  <2>4. \A pc \in NetPcs : [thr[t] EXCEPT !.pc = pc, !.gen = resets] \in Thread
    BY <1>1 DEF Thread
  <2>5. \A pc \in NetPcs : [thr EXCEPT ![t].pc = pc, ![t].gen = resets]
                             = [thr EXCEPT ![t] = [thr[t] EXCEPT !.pc = pc, !.gen = resets]]
    BY <1>1 DEF Threads
  <2>6. "push" \in NetPcs
    BY DEF NetPcs
  <2>7. ASSUME NEW pc \in NetPcs, thr' = [thr EXCEPT ![t].pc = pc, ![t].gen = resets]
        PROVE  Moves(t, [thr[t] EXCEPT !.pc = pc, !.gen = resets])
    <3>1. thr' = [thr EXCEPT ![t] = [thr[t] EXCEPT !.pc = pc, !.gen = resets]]
      BY <2>5, <2>7
    <3> QED
      BY <2>4, <3>1, ThreadMoves
  <2>9. \/ Lose(t) /\ Moves(t, [thr[t] EXCEPT !.pc = AfterTrue(t), !.gen = resets])
        \/ past' = past /\ Moves(t, [thr[t] EXCEPT !.pc = "push", !.gen = resets])
    BY <1>1, <2>3, <2>6, <2>7
  <2> QED
    BY <2>1, <2>8, <2>9
<1> QED
  BY <1>2, <1>3 DEF TakeBuffer

\* A thread about to deliver has a packet.
LEMMA InHandPacket ==
  ASSUME NetTypeOK, Roles, InHand, NEW t \in Both, thr[t].pc \in {"take", "push", "append"}
  PROVE thr[t].pkt \in Packet
<1>1. /\ V \in Thread /\ D \in Thread /\ (t = "V" => thr[t] = V) /\ (t = "D" => thr[t] = D) /\ t \in {"V", "D"}
      /\ backlog \in Seq(Packet)
  BY Typed, Types DEF Both
<1>2. CASE thr[t].flush /\ thr[t].pc # "append"
  BY <1>1, <1>2, Popped DEF InHand, AtFront, Flushes, FlushPcs
<1>3. CASE ~thr[t].flush \/ thr[t].pc = "append"
  <2>1. t = "D" /\ D.pkt = sent /\ sent > 0
    BY <1>1, <1>3 DEF Roles, FlushPcs, InHand, Fresh, Direct
  <2> QED
    BY <1>1, <2>1, Types, NetAssumption DEF Packet
<1> QED
  BY <1>2, <1>3

LEMMA TakeBufferStep == ASSUME WnIInv, NEW t \in Both, TakeBuffer(t) PROVE WnIInv'
<1> USE DEF WnIInv
<1>1. /\ V \in Thread /\ D \in Thread /\ Rx \in NetQueue /\ Tx \in NetQueue
      /\ (t = "V" => thr[t] = V) /\ (t = "D" => thr[t] = D) /\ t \in {"V", "D"}
      /\ thr[t].pc = "take" /\ thr[t] \in Thread
  BY Typed DEF TakeBuffer, At, Both
<1>2. UNCHANGED <<backlog, active, slirpMu, sent, intr, driver, resets>>
  BY DEF TakeBuffer
<1>3. /\ resets \in Nat /\ past \in [used : Seq(Packet), lost : SUBSET Packet, refused : BOOLEAN, stale : BOOLEAN]
      /\ backlog \in Seq(Packet)
  BY Types, NetAssumption
<1>4. thr[t].pkt \in Packet
  BY <1>1, InHandPacket
<1>5. CASE /\ Rx' = Rx /\ past' = past /\ Moves(t, [thr[t] EXCEPT !.pc = AfterFalse(t)])
           /\ ~Rx.ready \/ Rx.last = Rx.posted
  <2>1. Tx' = Tx /\ ring' \in [Queues -> NetQueue] /\ thr' \in Threads
    BY <1>5, Taking DEF Moves
  <2>2. /\ t = "V" => D' = D /\ V'.pc = "leave" /\ V.flush /\ V'.flush = V.flush /\ V'.pkt = V.pkt /\ V'.gen = V.gen
        /\ t = "D" => V' = V /\ D'.pc = (IF D.flush THEN "leave" ELSE "append") /\ D'.flush = D.flush
                       /\ D'.pkt = D.pkt /\ D'.gen = D.gen
    BY <1>1, <1>5 DEF Moves, AfterFalse, Thread, Roles, FlushPcs
  <2>3. NetTypeOK'
    BY <1>2, <1>5, <2>1, Types, TypesNext
  <2>4. Roles'
    BY <1>1, <1>2, <2>2 DEF Roles, Flushes, FlushPcs, TxPcs
  <2>5. InHand'
    BY <1>1, <1>2, <2>2 DEF InHand, AtFront, Roles, Fresh, Direct, Flushes, FlushPcs
  <2>6. Traffic'
    BY <1>1, <1>2, <1>5, <2>2, TrafficSame DEF Roles, Fresh, Direct, FrontDone, Handed, DonePcs, Flushes, FlushPcs
  <2>7. Positions'
    BY <1>1, <1>2, <1>5, <2>1, <2>2 DEF Positions, Taken
  <2>8. Signalled'
    BY <1>1, <1>2, <1>5, <2>2 DEF Signalled, Coming, Raises, RaisePcs, AskPcs
  <2>9. Served'
    <3>1. Rx'.last # Rx'.posted /\ resets = 0 => FALSE
      BY <1>5 DEF Positions, FreshQueue
    <3> QED
      BY <1>2, <3>1 DEF Served, Unserved
  <2> QED
    BY <2>3, <2>4, <2>5, <2>6, <2>7, <2>8, <2>9
<1>6. ASSUME NEW g \in 0..MaxResets, g <= resets, Lose(t), Moves(t, [thr[t] EXCEPT !.pc = AfterTrue(t), !.gen = g]),
             Rx' = Rx \/ (Rx.ready /\ Rx.last # Rx.posted /\ Rx' = [Rx EXCEPT !.last = @ + 1])
      PROVE  WnIInv'
  <2>1. Tx' = Tx /\ ring' \in [Queues -> NetQueue] /\ thr' \in Threads
    BY <1>6, Taking DEF Moves
  <2>2. /\ Rx'.used = Rx.used /\ Rx'.posted = Rx.posted /\ Rx'.ready = Rx.ready /\ Rx'.seen = Rx.seen
        /\ Rx'.last = Rx.last \/ (Rx.last # Rx.posted /\ Rx'.last = Rx.last + 1)
        /\ ~Rx.ready => Rx' = Rx
        /\ Rx.used \in Nat /\ Rx.last \in Nat
    BY <1>1, <1>6 DEF NetQueue
  <2>3. past'.stale = past.stale /\ past'.refused = past.refused
    BY <1>3, <1>6 DEF Lose
  <2>4. /\ t = "V" => D' = D /\ V'.pc = "pop" /\ V.flush /\ V'.flush = V.flush /\ V'.pkt = V.pkt /\ V'.gen = g
        /\ t = "D" => V' = V /\ D'.pc = (IF D.flush THEN "pop" ELSE "enter") /\ D'.flush = D.flush
                       /\ D'.pkt = D.pkt /\ D'.gen = g
    BY <1>1, <1>6 DEF Moves, AfterTrue, Thread, Roles, FlushPcs
  <2>5. NetTypeOK'
    BY <1>2, <1>3, <1>4, <1>6, <2>1, Types, TypesNext DEF Lose
  <2>6. Roles'
    BY <1>1, <1>2, <2>4 DEF Roles, Flushes, FlushPcs, TxPcs
  <2>7. InHand'
    BY <1>1, <1>2, <2>4 DEF InHand, AtFront, Roles, Fresh, Direct, Flushes, FlushPcs
  <2>8. Traffic'
    BY <1>1, <1>2, <1>3, <1>6, TrafficLost DEF Lose
  <2>9. Positions'
    <3>1. ~past'.stale => Rx'.used <= Rx'.last /\ Taken(V)' /\ Taken(D)'
      BY <1>1, <1>2, <2>2, <2>3, <2>4 DEF Positions, Taken
    <3>2. V'.gen <= resets' /\ D'.gen <= resets'
      BY <1>1, <1>2, <1>6, <2>4 DEF Positions
    <3> QED
      BY <1>1, <1>2, <2>1, <2>2, <2>4, <3>1, <3>2 DEF Positions
  <2>10. Signalled'
    BY <1>1, <1>2, <2>2, <2>4 DEF Signalled, Coming, Raises, RaisePcs, AskPcs
  <2>11. Served'
    BY <1>1, <1>2, <2>2, <2>3, <2>4 DEF Served, Unserved, Serves, Roles, Fresh, Direct, FlushPcs
  <2> QED
    BY <2>5, <2>6, <2>7, <2>8, <2>9, <2>10, <2>11
<1>7. CASE /\ Rx.ready /\ Rx.last # Rx.posted /\ Rx' = [Rx EXCEPT !.last = @ + 1] /\ past' = past
           /\ Moves(t, [thr[t] EXCEPT !.pc = "push", !.gen = resets])
  <2>1. Tx' = Tx /\ ring' \in [Queues -> NetQueue] /\ thr' \in Threads
    BY <1>7, Taking DEF Moves
  <2>2. /\ Rx'.used = Rx.used /\ Rx'.posted = Rx.posted /\ Rx'.ready = Rx.ready /\ Rx'.seen = Rx.seen
        /\ Rx'.last = Rx.last + 1 /\ Rx.used \in Nat /\ Rx.last \in Nat /\ Rx.ready /\ Rx.last # Rx.posted
    BY <1>1, <1>7 DEF NetQueue
  <2>3. past' = past /\ past'.stale = past.stale /\ past'.refused = past.refused
    BY <1>7
  <2>4. /\ t = "V" => D' = D /\ V'.pc = "push" /\ V'.flush = V.flush /\ V'.pkt = V.pkt /\ V'.gen = resets
        /\ t = "D" => V' = V /\ D'.pc = "push" /\ D'.flush = D.flush /\ D'.pkt = D.pkt /\ D'.gen = resets
    BY <1>1, <1>7 DEF Moves, Thread
  <2>5. NetTypeOK'
    BY <1>2, <2>1, <2>3, Types, TypesNext
  <2>6. Roles'
    BY <1>1, <1>2, <2>4 DEF Roles, Flushes, FlushPcs, TxPcs
  <2>7. InHand'
    BY <1>1, <1>2, <2>4 DEF InHand, AtFront, Roles, Fresh, Direct, Flushes, FlushPcs
  <2>8. Traffic'
    BY <1>1, <1>2, <1>7, <2>4, TrafficSame DEF Roles, Fresh, Direct, FrontDone, Handed, DonePcs, Flushes, FlushPcs
  <2>9. Positions'
    <3>1. ~past'.stale => Rx'.used <= Rx'.last /\ Taken(V)' /\ Taken(D)'
      BY <1>1, <1>2, <2>2, <2>3, <2>4 DEF Positions, Taken
    <3>2. V'.gen <= resets' /\ D'.gen <= resets'
      BY <1>1, <1>2, <1>3, <2>4 DEF Positions
    <3> QED
      BY <1>1, <2>1, <2>2, <2>4, <3>1, <3>2 DEF Positions
  <2>10. Signalled'
    BY <1>1, <1>2, <2>2, <2>4 DEF Signalled, Coming, Raises, RaisePcs, AskPcs
  <2>11. Served'
    BY <1>1, <1>2, <2>2, <2>3, <2>4 DEF Served, Unserved, Serves, Roles, Fresh, Direct, FlushPcs
  <2> QED
    BY <2>5, <2>6, <2>7, <2>8, <2>9, <2>10, <2>11
<1>8. [thr[t] EXCEPT !.pc = AfterTrue(t)] = [thr[t] EXCEPT !.pc = AfterTrue(t), !.gen = thr[t].gen]
      /\ thr[t].gen \in 0..MaxResets /\ thr[t].gen <= resets
  BY <1>1 DEF Thread, Positions
<1>9. resets \in 0..MaxResets /\ resets <= resets
  BY <1>3, Types
<1> QED
  BY <1>5, <1>6, <1>7, <1>8, <1>9, Taking

LEMMA PushUsedStep == ASSUME WnIInv, NEW t \in Both, PushUsed(t) PROVE WnIInv'
<1> USE DEF WnIInv
<1>1. /\ V \in Thread /\ D \in Thread /\ Rx \in NetQueue /\ Tx \in NetQueue /\ ring \in [Queues -> NetQueue]
      /\ (t = "V" => thr[t] = V) /\ (t = "D" => thr[t] = D) /\ t \in {"V", "D"}
      /\ thr[t].pc = "push" /\ thr[t] \in Thread
  BY Typed DEF PushUsed, At, Both
<1>2. UNCHANGED <<backlog, active, slirpMu, sent, intr, driver, resets>>
  BY DEF PushUsed
<1>3. /\ resets \in Nat /\ past \in [used : Seq(Packet), lost : SUBSET Packet, refused : BOOLEAN, stale : BOOLEAN]
      /\ backlog \in Seq(Packet)
  BY Types, NetAssumption
<1>4. thr[t].pkt \in Packet
  BY <1>1, InHandPacket
<1>5. CASE Rx.ready
  <2>1. ring' = [ring EXCEPT !["rx"].used = @ + 1] /\ To(t, "raise")
        /\ past' = [past EXCEPT !.used = Append(@, thr[t].pkt), !.stale = @ \/ thr[t].gen # resets]
    BY <1>5 DEF PushUsed, Rx
  <2>2. Moves(t, [thr[t] EXCEPT !.pc = "raise"])
    BY <2>1, ToMoves DEF NetPcs
  <2>3. Tx' = Tx /\ Rx' = [Rx EXCEPT !.used = @ + 1] /\ ring' \in [Queues -> NetQueue]
    BY <1>1, <2>1 DEF Rx, Tx, Queues, NetQueue
  <2>4. /\ Rx'.used = Rx.used + 1 /\ Rx'.last = Rx.last /\ Rx'.posted = Rx.posted /\ Rx'.ready = Rx.ready
    BY <1>1, <2>3 DEF NetQueue
  <2>5. /\ past'.used = Append(past.used, thr[t].pkt) /\ past'.lost = past.lost /\ past'.refused = past.refused
        /\ past'.stale = (past.stale \/ thr[t].gen # resets) /\ Append(past.used, thr[t].pkt) \in Seq(Packet)
    BY <1>3, <1>4, <2>1, Appended
  <2>6. /\ t = "V" => D' = D /\ V'.pc = "raise" /\ V'.flush = V.flush /\ V'.pkt = V.pkt /\ V'.gen = V.gen
        /\ t = "D" => V' = V /\ D'.pc = "raise" /\ D'.flush = D.flush /\ D'.pkt = D.pkt /\ D'.gen = D.gen
    BY <1>1, <2>2 DEF Moves, Thread
  <2>7. NetTypeOK'
    <3>1. past' \in [used : Seq(Packet), lost : SUBSET Packet, refused : BOOLEAN, stale : BOOLEAN]
      BY <1>3, <2>1, <2>5
    <3> QED
      BY <1>2, <2>2, <2>3, <3>1, Types, TypesNext DEF Moves
  <2>8. Roles'
    BY <1>1, <1>2, <2>6 DEF Roles, Flushes, FlushPcs, TxPcs
  <2>9. InHand'
    BY <1>1, <1>2, <2>6 DEF InHand, AtFront, Roles, Fresh, Direct, Flushes, FlushPcs
  <2>10. Traffic'
    BY <1>1, <1>2, <2>2, <2>5, TrafficUsed
  <2>11. Positions'
    <3>1. Rx.used \in Nat /\ Rx.last \in Nat
      BY <1>1 DEF NetQueue
    <3>2. ASSUME ~past'.stale PROVE Rx'.used <= Rx'.last /\ Taken(V)' /\ Taken(D)'
      <4>1. ~past.stale /\ thr[t].gen = resets
        BY <2>5, <3>2
      <4>2. Rx.used < Rx.last
        BY <1>1, <4>1 DEF Positions, Taken
      <4>3. CASE t = "V" /\ D.pc = "push"
        BY <1>1, <4>3 DEF Roles, Fresh, Direct, Flushes, FlushPcs, InHand, AtFront
      <4>4. CASE t = "D" /\ V.pc = "push"
        BY <1>1, <4>4 DEF Roles, Fresh, Direct, Flushes, FlushPcs, InHand, AtFront
      <4> QED
        BY <1>1, <2>4, <2>6, <3>1, <4>2, <4>3, <4>4 DEF Taken
    <3> QED
      BY <1>1, <1>2, <1>5, <2>3, <2>4, <2>6, <3>2 DEF Positions
  <2>12. Signalled'
    BY <1>1, <1>2, <2>6 DEF Signalled, Coming, Raises, RaisePcs
  <2>13. Served'
    BY <1>1, <1>2, <2>4, <2>5, <2>6 DEF Served, Unserved, Serves, Roles, Fresh, Direct, FlushPcs
  <2> QED
    BY <2>7, <2>8, <2>9, <2>10, <2>11, <2>12, <2>13
<1>6. CASE ~Rx.ready
  <2>1. ring' = ring /\ Lose(t) /\ To(t, AfterTrue(t))
    BY <1>6 DEF PushUsed, Rx
  <2>2. Moves(t, [thr[t] EXCEPT !.pc = AfterTrue(t)]) /\ Rx' = Rx /\ Tx' = Tx
    BY <2>1, ToMoves, RingSame DEF AfterTrue, NetPcs
  <2>3. /\ past'.used = past.used /\ past'.lost = past.lost \cup {thr[t].pkt} /\ past'.refused = past.refused
        /\ past'.stale = past.stale
        /\ past' \in [used : Seq(Packet), lost : SUBSET Packet, refused : BOOLEAN, stale : BOOLEAN]
    BY <1>3, <1>4, <2>1 DEF Lose
  <2>4. /\ t = "V" => D' = D /\ V'.pc = "pop" /\ V'.flush = V.flush /\ V'.pkt = V.pkt /\ V'.gen = V.gen
        /\ t = "D" => V' = V /\ D'.pc = (IF D.flush THEN "pop" ELSE "enter") /\ D'.flush = D.flush /\ D'.pkt = D.pkt
                      /\ D'.gen = D.gen
    BY <1>1, <2>2 DEF Moves, AfterTrue, Thread, Roles, FlushPcs
  <2>5. NetTypeOK'
    BY <1>2, <2>1, <2>2, <2>3, Types, TypesNext DEF Moves
  <2>6. Roles'
    BY <1>1, <1>2, <2>4 DEF Roles, Flushes, FlushPcs, TxPcs
  <2>7. InHand'
    BY <1>1, <1>2, <2>4 DEF InHand, AtFront, Roles, Fresh, Direct, Flushes, FlushPcs
  <2>8. Traffic'
    <3>1. [thr[t] EXCEPT !.pc = AfterTrue(t)] = [thr[t] EXCEPT !.pc = AfterTrue(t), !.gen = thr[t].gen]
      BY <1>1 DEF Thread
    <3> QED
      BY <1>1, <1>2, <2>2, <2>3, <3>1, TrafficLost
  <2>9. Positions'
    BY <1>1, <1>2, <2>2, <2>3, <2>4 DEF Positions, Taken
  <2>10. Signalled'
    BY <1>1, <1>2, <1>6, <2>2 DEF Signalled
  <2>11. Served'
    BY <1>1, <1>2, <2>2, <2>3, <2>4 DEF Served, Unserved, Serves, Roles, Fresh, Direct, FlushPcs
  <2> QED
    BY <2>5, <2>6, <2>7, <2>8, <2>9, <2>10, <2>11
<1> QED
  BY <1>5, <1>6

LEMMA RaiseStep ==
  ASSUME WnIInv, NEW t \in Both, raise_used_buffer_irq(t, "raise", "request", AfterTrue(t))
  PROVE WnIInv'
<1> USE DEF WnIInv
<1>1. /\ V \in Thread /\ D \in Thread /\ Rx \in NetQueue /\ (t = "V" => thr[t] = V) /\ (t = "D" => thr[t] = D)
      /\ t \in {"V", "D"} /\ thr[t].pc = "raise" /\ thr[t] \in Thread
  BY Typed DEF raise_used_buffer_irq, At, Both
<1>2. UNCHANGED <<backlog, active, slirpMu, sent, driver, resets, past>> /\ UNCHANGED ring /\ Rx' = Rx /\ Tx' = Tx
  BY RingSame DEF raise_used_buffer_irq
<1>3. /\ intr' \in [status : BOOLEAN, request : BOOLEAN] /\ intr'.request = intr.request
      /\ intr.status => intr'.status
  BY Types DEF raise_used_buffer_irq
<1>4. PICK pc \in {"request", AfterTrue(t)} :
        /\ Moves(t, [thr[t] EXCEPT !.pc = pc])
        /\ Rx.ready /\ ~driver.noInt => pc = "request" /\ intr'.status
        /\ ~(Rx.ready /\ ~driver.noInt) => intr' = intr
  <2>1. AfterTrue(t) \in NetPcs /\ "request" \in NetPcs
    BY DEF AfterTrue, NetPcs
  <2>2. CASE Rx.ready /\ ~driver.noInt
    <3>1. To(t, "request") /\ intr' = [intr EXCEPT !.status = TRUE]
      BY <2>2 DEF raise_used_buffer_irq, Rx
    <3> QED
      BY <2>1, <2>2, <3>1, Types, ToMoves
  <2>3. CASE ~(Rx.ready /\ ~driver.noInt)
    <3>1. To(t, AfterTrue(t)) /\ intr' = intr
      BY <2>3 DEF raise_used_buffer_irq, Rx
    <3> QED
      BY <2>1, <2>3, <3>1, ToMoves
  <2> QED
    BY <2>2, <2>3
<1>5. /\ t = "V" => D' = D /\ V'.pc = pc /\ V.flush /\ V'.flush = V.flush /\ V'.pkt = V.pkt /\ V'.gen = V.gen
      /\ t = "D" => V' = V /\ D'.pc = pc /\ D'.flush = D.flush /\ D'.pkt = D.pkt /\ D'.gen = D.gen
      /\ pc = "request" \/ pc = (IF thr[t].flush THEN "pop" ELSE "enter")
  BY <1>1, <1>4 DEF Moves, AfterTrue, Thread, Roles, FlushPcs
<1>6. NetTypeOK'
  BY <1>2, <1>3, <1>4, Types, TypesNext DEF Moves
<1>7. Roles'
  BY <1>1, <1>2, <1>5 DEF Roles, Flushes, FlushPcs, TxPcs
<1>8. InHand'
  BY <1>1, <1>2, <1>5 DEF InHand, AtFront, Roles, Fresh, Direct, Flushes, FlushPcs
<1>9. Traffic'
  BY <1>1, <1>2, <1>5, TrafficSame DEF Roles, Fresh, Direct, FrontDone, Handed, DonePcs, Flushes, FlushPcs
<1>10. Positions'
  BY <1>1, <1>2, <1>5 DEF Positions, Taken
<1>11. Signalled'
  BY <1>1, <1>2, <1>3, <1>4, <1>5 DEF Signalled, Coming, Raises, RaisePcs, AskPcs
<1>12. Served'
  BY <1>1, <1>2, <1>5 DEF Served, Unserved, Serves, Roles, Fresh, Direct, FlushPcs
<1> QED
  BY <1>6, <1>7, <1>8, <1>9, <1>10, <1>11, <1>12

LEMMA RequestStep ==
  ASSUME WnIInv, NEW t \in Both, request_irq(t, "request", AfterTrue(t))
  PROVE WnIInv'
<1> USE DEF WnIInv
<1>1. /\ V \in Thread /\ D \in Thread /\ (t = "V" => thr[t] = V) /\ (t = "D" => thr[t] = D)
      /\ t \in {"V", "D"} /\ thr[t].pc = "request" /\ thr[t] \in Thread
  BY Typed DEF request_irq, At, Both
<1>2. UNCHANGED <<backlog, active, slirpMu, sent, driver, resets, past>> /\ UNCHANGED ring /\ Rx' = Rx /\ Tx' = Tx
  BY RingSame DEF request_irq
<1>3. intr' \in [status : BOOLEAN, request : BOOLEAN] /\ intr'.request /\ intr'.status = intr.status
  BY Types DEF request_irq
<1>4. Moves(t, [thr[t] EXCEPT !.pc = AfterTrue(t)])
  BY ToMoves DEF request_irq, AfterTrue, NetPcs
<1>5. /\ t = "V" => D' = D /\ V'.pc = "pop" /\ V.flush /\ V'.flush = V.flush /\ V'.pkt = V.pkt /\ V'.gen = V.gen
      /\ t = "D" => V' = V /\ D'.pc = (IF D.flush THEN "pop" ELSE "enter") /\ D'.flush = D.flush /\ D'.pkt = D.pkt
                    /\ D'.gen = D.gen
  BY <1>1, <1>4 DEF Moves, AfterTrue, Thread, Roles, FlushPcs
<1>6. NetTypeOK'
  BY <1>2, <1>3, <1>4, Types, TypesNext DEF Moves
<1>7. Roles'
  BY <1>1, <1>2, <1>5 DEF Roles, Flushes, FlushPcs, TxPcs
<1>8. InHand'
  BY <1>1, <1>2, <1>5 DEF InHand, AtFront, Roles, Fresh, Direct, Flushes, FlushPcs
<1>9. Traffic'
  BY <1>1, <1>2, <1>5, TrafficSame DEF Roles, Fresh, Direct, FrontDone, Handed, DonePcs, Flushes, FlushPcs
<1>10. Positions'
  BY <1>1, <1>2, <1>5 DEF Positions, Taken
<1>11. Signalled'
  BY <1>1, <1>2, <1>3, <1>5 DEF Signalled, Coming, Raises, RaisePcs, AskPcs
<1>12. Served'
  BY <1>1, <1>2, <1>5 DEF Served, Unserved, Serves, Roles, Fresh, Direct, FlushPcs
<1> QED
  BY <1>6, <1>7, <1>8, <1>9, <1>10, <1>11, <1>12

LEMMA AppendBacklogStep == ASSUME WnIInv, NEW t \in Both, AppendBacklog(t) PROVE WnIInv'
<1> USE DEF WnIInv
<1>1. V \in Thread /\ D \in Thread /\ Rx' = Rx /\ Tx' = Tx
  BY Typed, RingSame DEF AppendBacklog
<1>2. UNCHANGED <<ring, active, slirpMu, sent, intr, driver, resets>>
  BY DEF AppendBacklog
<1>3. /\ backlog \in Seq(Packet) /\ sent \in Nat
      /\ past \in [used : Seq(Packet), lost : SUBSET Packet, refused : BOOLEAN, stale : BOOLEAN]
  BY Types, NetAssumption
<1>4. D.pc = "append" /\ ~D.flush /\ t = "D" /\ thr[t] = D /\ Fresh(D) /\ D.pkt = sent /\ thr[t].pkt \in Packet
  BY <1>1, Typed, InHandPacket DEF AppendBacklog, At, Both, Roles, InHand, Fresh
<1>5. /\ V' = V /\ D'.pc = "enter" /\ D'.flush = D.flush /\ D'.pkt = D.pkt /\ D'.gen = D.gen /\ thr' \in Threads
  BY <1>1, <1>4, ToMoves DEF AppendBacklog, Moves, NetPcs, Thread
<1>6. /\ ~Fresh(D)' /\ (FrontDone' <=> FrontDone) /\ Top = sent - 1 /\ Top' = sent
      /\ InOrder(past.used, backlog, sent - 1, FrontDone)
  BY <1>2, <1>4, <1>5 DEF Fresh, Direct, FrontDone, Handed, DonePcs, Top, Traffic
<1>7. Roles'
  BY <1>1, <1>2, <1>4, <1>5 DEF Roles, Flushes, FlushPcs, TxPcs
<1>8. Signalled'
  BY <1>1, <1>2, <1>4, <1>5 DEF Signalled, Coming, Raises, RaisePcs, AskPcs
<1>9. CASE backlog' = Append(backlog, thr[t].pkt) /\ UNCHANGED past
  <2>1. /\ backlog' \in Seq(Packet) /\ Elements(backlog') = Elements(backlog) \cup {sent}
        /\ backlog' # <<>> /\ (backlog # <<>> => backlog'[1] = backlog[1])
    BY <1>3, <1>4, <1>9, Appended
  <2>2. NetTypeOK'
    BY <1>2, <1>5, <1>9, <2>1, Types, TypesNext
  <2>3. InHand'
    BY <1>1, <1>4, <1>5, <2>1 DEF InHand, AtFront, Roles, Fresh, Direct, Flushes, FlushPcs
  <2>4. FrontDone => backlog # <<>>
    BY DEF FrontDone, Handed, InHand, AtFront, DonePcs, Flushes
  <2>5. InOrder(past.used, backlog', sent, FrontDone')
    <3>1. InOrder(past.used, backlog', sent, FrontDone)
      BY <1>3, <1>4, <1>6, <1>9, OrderQueued
    <3> QED
      BY <1>6, <3>1 DEF InOrder
  <2>6. Somewhere(past.used, past.lost, backlog', sent, Fresh(D)', FrontDone')
    BY <1>6, <2>1, <2>4 DEF Traffic, Somewhere
  <2>7. Traffic'
    BY <1>2, <1>6, <1>9, <2>5, <2>6 DEF Traffic
  <2>8. Positions'
    BY <1>1, <1>2, <1>4, <1>5, <1>9 DEF Positions, Taken
  <2>9. Served'
    BY <1>1, <1>2, <1>4, <1>5, <1>9 DEF Served, Unserved, Serves
  <2> QED
    BY <1>7, <1>8, <2>2, <2>3, <2>7, <2>8, <2>9
<1>10. CASE Lose(t) /\ UNCHANGED backlog
  <2>1. /\ past'.used = past.used /\ past'.lost = past.lost \cup {sent} /\ past'.refused = past.refused
        /\ past'.stale = past.stale
        /\ past' \in [used : Seq(Packet), lost : SUBSET Packet, refused : BOOLEAN, stale : BOOLEAN]
    BY <1>3, <1>4, <1>10 DEF Lose
  <2>2. NetTypeOK'
    BY <1>2, <1>5, <1>10, <2>1, Types, TypesNext
  <2>3. InHand'
    BY <1>1, <1>4, <1>5, <1>10 DEF InHand, AtFront, Roles, Fresh, Direct, Flushes, FlushPcs
  <2>4. InOrder(past.used, backlog, sent, FrontDone')
    <3>1. InOrder(past.used, backlog, sent, FrontDone)
      BY <1>3, <1>6, OrderWeaker
    <3> QED
      BY <1>6, <3>1 DEF InOrder
  <2>5. Somewhere(past.used, past'.lost, backlog, sent, Fresh(D)', FrontDone')
    BY <1>6, <2>1 DEF Traffic, Somewhere
  <2>6. Traffic'
    BY <1>2, <1>6, <1>10, <2>1, <2>4, <2>5 DEF Traffic
  <2>7. Positions'
    BY <1>1, <1>2, <1>4, <1>5, <2>1 DEF Positions, Taken
  <2>8. Served'
    BY <1>1, <1>2, <1>4, <1>5, <1>10, <2>1 DEF Served, Unserved, Serves
  <2> QED
    BY <1>7, <1>8, <2>2, <2>3, <2>6, <2>7, <2>8
<1> QED
  BY <1>9, <1>10 DEF AppendBacklog

-----------------------------------------------------------------------------
(* The flush.                                                               *)

LEMMA EnterFlushStep == ASSUME WnIInv, NEW t \in Both, EnterFlush(t) PROVE WnIInv'
<1> USE DEF WnIInv
<1>1. /\ V \in Thread /\ D \in Thread /\ thr \in Threads /\ (t = "V" => thr[t] = V) /\ (t = "D" => thr[t] = D)
      /\ t \in {"V", "D"} /\ thr[t].pc = "enter" /\ thr[t] \in Thread /\ Rx' = Rx /\ Tx' = Tx
  BY Typed, RingSame DEF EnterFlush, At, Both
<1>2. UNCHANGED <<ring, backlog, slirpMu, sent, intr, driver, resets>>
  BY DEF EnterFlush
<1>3. past \in [used : Seq(Packet), lost : SUBSET Packet, refused : BOOLEAN, stale : BOOLEAN] /\ resets \in Nat
  BY Types, NetAssumption
<1>4. CASE active
  <2>1. Moves(t, IdleThread) /\ UNCHANGED active /\ past' = [past EXCEPT !.refused = @ \/ t = "V"]
    BY <1>4, ReturnMoves DEF EnterFlush
  <2>2. /\ t = "V" => D' = D /\ V' = IdleThread
        /\ t = "D" => V' = V /\ D' = IdleThread
        /\ IdleThread.pc = "idle" /\ IdleThread.gen = 0 /\ ~IdleThread.flush
    BY <1>1, <2>1 DEF Moves, IdleThread
  <2>3. /\ past'.used = past.used /\ past'.lost = past.lost /\ past'.stale = past.stale
        /\ past'.refused = (past.refused \/ t = "V")
        /\ past' \in [used : Seq(Packet), lost : SUBSET Packet, refused : BOOLEAN, stale : BOOLEAN]
    BY <1>3, <2>1
  <2>4. NetTypeOK'
    BY <1>2, <2>1, <2>3, Types, TypesNext DEF Moves
  <2>5. Roles'
    BY <1>1, <2>1, <2>2 DEF Roles, Flushes, FlushPcs, TxPcs
  <2>6. InHand'
    BY <1>1, <1>2, <2>2 DEF InHand, AtFront, Fresh, Direct, Flushes, FlushPcs
  <2>7. Traffic'
    <3>1. /\ (Fresh(D)' <=> Fresh(D)) /\ (FrontDone' => FrontDone) /\ (FrontDone => FrontDone')
      BY <1>1, <2>2 DEF Fresh, Direct, FrontDone, Handed, DonePcs
    <3> QED
      BY <1>2, <2>3, <3>1 DEF Traffic, Top, InOrder, Somewhere
  <2>8. Positions'
    BY <1>1, <1>2, <1>3, <2>2, <2>3 DEF Positions, Taken
  <2>9. Signalled'
    BY <1>1, <1>2, <2>2 DEF Signalled, Coming, Raises, RaisePcs, AskPcs
  <2>10. Served'
    BY <1>1, <1>2, <1>4, <2>2, <2>3 DEF Served, Unserved, Serves, Roles, Flushes, Fresh, Direct, FlushPcs
  <2> QED
    BY <2>4, <2>5, <2>6, <2>7, <2>8, <2>9, <2>10
<1>5. CASE ~active
  <2>1. active' = TRUE /\ UNCHANGED past /\ thr' = [thr EXCEPT ![t].pc = "front", ![t].flush = TRUE]
    BY <1>5 DEF EnterFlush
  <2>2. Moves(t, [thr[t] EXCEPT !.pc = "front", !.flush = TRUE])
    <3>1. [thr[t] EXCEPT !.pc = "front", !.flush = TRUE] \in Thread
      BY <1>1 DEF Thread, NetPcs
    <3>2. thr' = [thr EXCEPT ![t] = [thr[t] EXCEPT !.pc = "front", !.flush = TRUE]]
      BY <1>1, <2>1 DEF Threads
    <3> QED
      BY <3>1, <3>2, ThreadMoves
  <2>3. /\ t = "V" => D' = D /\ V'.pc = "front" /\ V'.flush = TRUE /\ V'.gen = V.gen
        /\ t = "D" => V' = V /\ D'.pc = "front" /\ D'.flush = TRUE /\ D'.gen = D.gen
    <3> DEFINE k == [thr[t] EXCEPT !.pc = "front", !.flush = TRUE]
    <3>1. k.pc = "front" /\ k.flush = TRUE /\ k.gen = thr[t].gen
      BY <1>1 DEF Thread
    <3> HIDE DEF k
    <3>2. (t = "V" => D' = D /\ V' = k) /\ (t = "D" => V' = V /\ D' = k)
      BY <2>2 DEF Moves, k
    <3> QED
      BY <1>1, <3>1, <3>2
  <2>4. NetTypeOK'
    BY <1>2, <2>1, <2>2, Types, TypesNext DEF Moves
  <2>5. Roles'
    BY <1>1, <1>5, <2>1, <2>3 DEF Roles, Flushes, FlushPcs, TxPcs
  <2>6. InHand'
    BY <1>1, <1>2, <2>3 DEF InHand, AtFront, Fresh, Direct, Flushes, FlushPcs
  <2>7. Traffic'
    BY <1>1, <1>2, <2>1, <2>3, TrafficSame DEF Fresh, Direct, FrontDone, Handed, DonePcs
  <2>8. Positions'
    BY <1>1, <1>2, <2>1, <2>3 DEF Positions, Taken
  <2>9. Signalled'
    BY <1>1, <1>2, <2>3 DEF Signalled, Coming, Raises, RaisePcs, AskPcs
  <2>10. Served'
    BY <1>1, <1>2, <1>5, <2>1, <2>3 DEF Served, Unserved, Serves, Roles, Flushes, FlushPcs
  <2> QED
    BY <2>4, <2>5, <2>6, <2>7, <2>8, <2>9, <2>10
<1> QED
  BY <1>4, <1>5

LEMMA FlushFrontStep == ASSUME WnIInv, NEW t \in Both, FlushFront(t) PROVE WnIInv'
<1> USE DEF WnIInv
<1>1. /\ V \in Thread /\ D \in Thread /\ thr \in Threads /\ (t = "V" => thr[t] = V) /\ (t = "D" => thr[t] = D)
      /\ t \in {"V", "D"} /\ thr[t].pc = "front" /\ thr[t] \in Thread /\ Rx' = Rx /\ Tx' = Tx
  BY Typed, RingSame DEF FlushFront, At, Both
<1>2. UNCHANGED <<ring, backlog, slirpMu, sent, intr, driver, resets, past>>
  BY DEF FlushFront
<1>3. backlog \in Seq(Packet) /\ resets \in Nat
  BY Types, NetAssumption
<1>4. CASE backlog = <<>>
  <2>1. active' = FALSE /\ Moves(t, IdleThread)
    BY <1>4, ReturnMoves DEF FlushFront
  <2>2. /\ t = "V" => D' = D /\ V' = IdleThread
        /\ t = "D" => V' = V /\ D' = IdleThread
        /\ IdleThread.pc = "idle" /\ IdleThread.gen = 0 /\ ~IdleThread.flush
    BY <1>1, <2>1 DEF Moves, IdleThread
  <2>3. NetTypeOK'
    BY <1>2, <2>1, Types, TypesNext DEF Moves
  <2>4. Roles'
    BY <1>1, <2>1, <2>2 DEF Roles, Flushes, FlushPcs, TxPcs
  <2>5. InHand'
    BY <1>1, <1>2, <2>2 DEF InHand, AtFront, Fresh, Direct, Flushes, FlushPcs
  <2>6. Traffic'
    BY <1>1, <1>2, <2>2, TrafficSame DEF Fresh, Direct, FrontDone, Handed, DonePcs
  <2>7. Positions'
    BY <1>1, <1>2, <1>3, <2>2 DEF Positions, Taken
  <2>8. Signalled'
    BY <1>1, <1>2, <2>2 DEF Signalled, Coming, Raises, RaisePcs, AskPcs
  <2>9. Served'
    BY <1>1, <1>2, <1>4, <2>2 DEF Served, Unserved, Roles, Flushes, FlushPcs
  <2> QED
    BY <2>3, <2>4, <2>5, <2>6, <2>7, <2>8, <2>9
<1>5. CASE backlog # <<>>
  <2>1. UNCHANGED active /\ thr' = [thr EXCEPT ![t].pc = "take", ![t].pkt = Head(backlog)]
    BY <1>5 DEF FlushFront
  <2>2. Moves(t, [thr[t] EXCEPT !.pc = "take", !.pkt = Head(backlog)]) /\ Head(backlog) = backlog[1]
    <3>1. Head(backlog) = backlog[1] /\ backlog[1] \in 0..Packets
      BY <1>3, <1>5, Popped DEF Packet
    <3>2. [thr[t] EXCEPT !.pc = "take", !.pkt = Head(backlog)] \in Thread
      BY <1>1, <3>1 DEF Thread, NetPcs
    <3>3. thr' = [thr EXCEPT ![t] = [thr[t] EXCEPT !.pc = "take", !.pkt = Head(backlog)]]
      BY <1>1, <2>1 DEF Threads
    <3> QED
      BY <3>1, <3>2, <3>3, ThreadMoves
  <2>3. /\ t = "V" => D' = D /\ V'.pc = "take" /\ V'.flush /\ V'.gen = V.gen /\ V'.pkt = backlog[1] /\ V.flush
        /\ t = "D" => V' = V /\ D'.pc = "take" /\ D'.flush /\ D'.gen = D.gen /\ D'.pkt = backlog[1] /\ D.flush
    BY <1>1, <2>2 DEF Moves, Thread, Roles, FlushPcs
  <2>4. NetTypeOK'
    BY <1>2, <2>1, <2>2, Types, TypesNext DEF Moves
  <2>5. Roles'
    BY <1>1, <2>1, <2>3 DEF Roles, Flushes, FlushPcs, TxPcs
  <2>6. InHand'
    BY <1>1, <1>2, <1>5, <2>3 DEF InHand, AtFront, Fresh, Direct, Flushes, FlushPcs
  <2>7. Traffic'
    BY <1>1, <1>2, <2>1, <2>3, TrafficSame DEF Fresh, Direct, FrontDone, Handed, DonePcs
  <2>8. Positions'
    BY <1>1, <1>2, <2>3 DEF Positions, Taken
  <2>9. Signalled'
    BY <1>1, <1>2, <2>3 DEF Signalled, Coming, Raises, RaisePcs, AskPcs
  <2>10. Served'
    BY <1>1, <1>2, <2>3 DEF Served, Unserved, Serves, FlushPcs
  <2> QED
    BY <2>4, <2>5, <2>6, <2>7, <2>8, <2>9, <2>10
<1> QED
  BY <1>4, <1>5

LEMMA FlushPopStep == ASSUME WnIInv, NEW t \in Both, FlushPop(t) PROVE WnIInv'
<1> USE DEF WnIInv
<1>1. /\ V \in Thread /\ D \in Thread /\ (t = "V" => thr[t] = V) /\ (t = "D" => thr[t] = D)
      /\ t \in {"V", "D"} /\ thr[t].pc = "pop" /\ thr[t] \in Thread /\ Rx' = Rx /\ Tx' = Tx
  BY Typed, RingSame DEF FlushPop, At, Both
<1>2. UNCHANGED <<ring, active, slirpMu, sent, intr, driver, resets, past>> /\ backlog \in Seq(Packet)
      /\ past.used \in Seq(Packet)
  BY Types DEF FlushPop
<1>3. Moves(t, [thr[t] EXCEPT !.pc = "front"])
  BY ToMoves DEF FlushPop, NetPcs
<1>4. /\ t = "V" => D' = D /\ V'.pc = "front" /\ V'.flush /\ V'.gen = V.gen /\ V.flush
      /\ t = "D" => V' = V /\ D'.pc = "front" /\ D'.flush /\ D'.gen = D.gen /\ D.flush
  BY <1>1, <1>3 DEF Moves, Thread, Roles, FlushPcs
<1>5. backlog # <<>> /\ backlog' = Tail(backlog)
  <2>1. backlog # <<>>
    BY <1>1, <1>4 DEF InHand, AtFront, Flushes, FlushPcs
  <2> QED
    BY <2>1 DEF FlushPop
<1>6. backlog' \in Seq(Packet) /\ Elements(backlog) = Elements(backlog') \cup {backlog[1]}
  BY <1>2, <1>5, Popped
<1>7. NetTypeOK'
  BY <1>2, <1>3, <1>6, Types, TypesNext DEF Moves
<1>8. Roles'
  BY <1>1, <1>2, <1>4 DEF Roles, Flushes, FlushPcs, TxPcs
<1>9. InHand'
  BY <1>1, <1>2, <1>4, <1>5 DEF InHand, AtFront, Roles, Fresh, Direct, Flushes, FlushPcs
<1>10. Traffic'
  <2>1. FrontDone /\ ~FrontDone' /\ (Fresh(D)' <=> Fresh(D))
    BY <1>1, <1>4 DEF Fresh, Direct, FrontDone, Handed, DonePcs, Flushes, FlushPcs, Roles
  <2>2. Top' = Top
    BY <1>2, <2>1 DEF Top
  <2>3. InOrder(past.used, backlog, Top, TRUE)
    BY DEF Traffic, InOrder
  <2>4. InOrder(past.used, backlog', Top, FALSE)
    BY <1>2, <1>5, <2>3, OrderPopped
  <2>5. InOrder(past.used, backlog', Top, FrontDone')
    BY <2>4 DEF InOrder
  <2>6. Somewhere(past.used, past.lost, backlog', sent, Fresh(D)', FrontDone')
    BY <1>6, <2>1 DEF Traffic, Somewhere
  <2> QED
    BY <1>2, <2>2, <2>5, <2>6 DEF Traffic
<1>11. Positions'
  BY <1>1, <1>2, <1>4 DEF Positions, Taken
<1>12. Signalled'
  BY <1>1, <1>2, <1>4 DEF Signalled, Coming, Raises, RaisePcs, AskPcs
<1>13. Served'
  BY <1>1, <1>2, <1>4 DEF Served, Unserved, Serves, FlushPcs
<1> QED
  BY <1>7, <1>8, <1>9, <1>10, <1>11, <1>12, <1>13

LEMMA FlushLeaveStep == ASSUME WnIInv, NEW t \in Both, FlushLeave(t) PROVE WnIInv'
<1> USE DEF WnIInv
<1>1. /\ V \in Thread /\ D \in Thread /\ (t = "V" => thr[t] = V) /\ (t = "D" => thr[t] = D)
      /\ t \in {"V", "D"} /\ thr[t].pc = "leave" /\ Rx' = Rx /\ Tx' = Tx
  BY Typed, RingSame DEF FlushLeave, At, Both
<1>2. UNCHANGED <<ring, backlog, slirpMu, sent, intr, driver, resets, past>> /\ active' = FALSE /\ resets \in Nat
  BY Types, NetAssumption DEF FlushLeave
<1>3. Moves(t, IdleThread)
  BY ReturnMoves DEF FlushLeave
<1>4. /\ t = "V" => D' = D /\ V' = IdleThread
      /\ t = "D" => V' = V /\ D' = IdleThread
      /\ IdleThread.pc = "idle" /\ IdleThread.gen = 0 /\ ~IdleThread.flush
  BY <1>1, <1>3 DEF Moves, IdleThread
<1>5. NetTypeOK'
  BY <1>2, <1>3, Types, TypesNext DEF Moves
<1>6. Roles'
  BY <1>1, <1>2, <1>4 DEF Roles, Flushes, FlushPcs, TxPcs
<1>7. InHand'
  BY <1>1, <1>2, <1>4 DEF InHand, AtFront, Fresh, Direct, Flushes, FlushPcs
<1>8. Traffic'
  BY <1>1, <1>2, <1>4, TrafficSame DEF Fresh, Direct, FrontDone, Handed, DonePcs
<1>9. Positions'
  BY <1>1, <1>2, <1>4 DEF Positions, Taken
<1>10. Signalled'
  BY <1>1, <1>2, <1>4 DEF Signalled, Coming, Raises, RaisePcs, AskPcs
<1>11. Served'
  BY <1>1, <1>2, <1>4 DEF Served, Unserved, Serves, Roles, Flushes, FlushPcs
<1> QED
  BY <1>5, <1>6, <1>7, <1>8, <1>9, <1>10, <1>11

-----------------------------------------------------------------------------
(* libslirp and the transmit queue.                                         *)

\* Neither thread, nor the packets, nor the flush.
LEMMA HandsOff ==
  ASSUME Roles, InHand, Traffic, UNCHANGED <<thr, backlog, active, past, sent>>
  PROVE V' = V /\ D' = D /\ Roles' /\ InHand' /\ Traffic'
<1>1. V' = V /\ D' = D
  BY ThreadsSame
<1>2. Roles' /\ InHand'
  BY <1>1 DEF Roles, InHand, AtFront, Flushes, Fresh, Direct
<1>3. Traffic'
  BY <1>1, TrafficSame DEF Fresh, Direct, FrontDone, Handed, Flushes
<1> QED
  BY <1>1, <1>2, <1>3

LEMMA LockStep == ASSUME WnIInv, PollLock \/ PollUnlock \/ TxLock PROVE WnIInv'
<1> USE DEF WnIInv
<1>1. /\ UNCHANGED <<ring, backlog, active, thr, sent, intr, driver, resets, past>>
      /\ slirpMu' \in {"none", "S", "V"} /\ Rx' = Rx /\ Tx' = Tx
  BY RingSame DEF PollLock, PollUnlock, TxLock
<1>2. V' = V /\ D' = D /\ Roles' /\ InHand' /\ Traffic'
  BY <1>1, HandsOff
<1>3. NetTypeOK'
  BY <1>1, Types, TypesNext
<1>4. Positions' /\ Signalled'
  BY <1>1, <1>2 DEF Positions, Taken, Signalled, Coming, Raises
<1>5. Served'
  BY <1>1, <1>2 DEF Served, Unserved, Serves, Fresh, Direct
<1> QED
  BY <1>2, <1>3, <1>4, <1>5

LEMMA on_send_packetStep == ASSUME WnIInv, on_send_packet PROVE WnIInv'
<1> USE DEF WnIInv
<1>1. /\ V \in Thread /\ D \in Thread /\ thr["D"] = D /\ D.pc = "idle" /\ Rx' = Rx /\ Tx' = Tx
      /\ UNCHANGED <<ring, backlog, active, slirpMu, intr, driver, resets, past>>
  BY Typed, RingSame DEF on_send_packet, At, Both
<1>2. sent \in Nat /\ sent' = sent + 1 /\ sent' \in 0..Packets /\ resets \in Nat /\ MaxResets \in Nat /\ "D" \in Both
  BY Types, NetAssumption DEF on_send_packet, Both
<1>3. [IdleThread EXCEPT !.pc = "empty", !.pkt = sent + 1] \in Thread
  <2>1. sent + 1 \in 0..Packets /\ 0 \in 0..MaxResets /\ "empty" \in NetPcs
    BY <1>2 DEF NetPcs
  <2> QED
    BY <2>1, IdleIsThread DEF Thread
<1>4. Moves("D", [IdleThread EXCEPT !.pc = "empty", !.pkt = sent + 1])
  BY <1>2, <1>3, ThreadMoves DEF on_send_packet
<1>5. V' = V /\ D'.pc = "empty" /\ D'.pkt = sent + 1 /\ ~D'.flush /\ D'.gen = 0
  BY <1>4 DEF Moves, IdleThread
<1>6. NetTypeOK'
  BY <1>1, <1>2, <1>4, Types, TypesNext DEF Moves
<1>7. Roles'
  BY <1>1, <1>5 DEF Roles, Flushes, FlushPcs, TxPcs
<1>8. InHand'
  BY <1>1, <1>2, <1>5 DEF InHand, AtFront, Flushes, Direct
<1>9. Traffic'
  <2>1. Fresh(D)' /\ ~Fresh(D) /\ (FrontDone' <=> FrontDone)
    BY <1>1, <1>5 DEF Fresh, Direct, FrontDone, Handed, DonePcs
  <2>2. Top' = Top
    BY <1>2, <2>1 DEF Top
  <2>3. InOrder(past.used, backlog, Top, FrontDone')
    BY <2>1 DEF Traffic, InOrder
  <2>4. Somewhere(past.used, past.lost, backlog, sent', Fresh(D)', FrontDone')
    BY <1>2, <2>1 DEF Traffic, Somewhere
  <2> QED
    BY <1>1, <2>2, <2>3, <2>4 DEF Traffic
<1>10. Positions'
  BY <1>1, <1>2, <1>5 DEF Positions, Taken
<1>11. Signalled'
  BY <1>1, <1>5 DEF Signalled, Coming, Raises, RaisePcs, AskPcs
<1>12. Served'
  BY <1>1, <1>5 DEF Served, Unserved, Serves, Fresh
<1> QED
  BY <1>6, <1>7, <1>8, <1>9, <1>10, <1>11, <1>12

\* The vCPU between two points outside the receive path.
Outside == TxPcs \cup {"idle"}
LEMMA VcpuSame ==
  ASSUME Roles, InHand, Traffic, V.pc \in Outside, V'.pc \in Outside, D' = D,
         UNCHANGED <<backlog, active, past, sent>>
  PROVE Roles' /\ InHand' /\ Traffic'
<1>1. Roles' /\ InHand'
  BY DEF Roles, InHand, AtFront, Flushes, Fresh, Direct, FlushPcs, Outside, TxPcs
<1>2. Traffic'
  BY TrafficSame DEF Fresh, Direct, FrontDone, Handed, DonePcs, Flushes, FlushPcs, Outside, TxPcs
<1> QED
  BY <1>1, <1>2

LEMMA TxTakeStep == ASSUME WnIInv, TxTake PROVE WnIInv'
<1> USE DEF WnIInv
<1>1. /\ V \in Thread /\ thr["V"] = V /\ V.pc = "txTake" /\ ring \in [Queues -> NetQueue] /\ Tx \in NetQueue
      /\ UNCHANGED <<backlog, active, slirpMu, sent, intr, driver, resets, past>> /\ "V" \in Both /\ resets \in Nat
  BY Typed, Types, NetAssumption DEF TxTake, At, Both
<1>2. CASE ~Tx.ready
  <2>1. Return("V") /\ UNCHANGED ring
    BY <1>2 DEF TxTake, Tx
  <2>2. Moves("V", IdleThread) /\ Rx' = Rx /\ Tx' = Tx
    BY <1>1, <2>1, ReturnMoves, RingSame
  <2>3. D' = D /\ V'.pc = "idle" /\ V'.gen = 0
    BY <2>2 DEF Moves, IdleThread
  <2>4. Roles' /\ InHand' /\ Traffic'
    BY <1>1, <2>3, VcpuSame DEF Outside, TxPcs
  <2>5. NetTypeOK'
    BY <1>1, <2>1, <2>2, Types, TypesNext DEF Moves
  <2>6. Positions' /\ Signalled'
    BY <1>1, <1>2, <2>2, <2>3 DEF Positions, Taken, Signalled
  <2>7. Served'
    BY <1>1, <2>2, <2>3 DEF Served, Unserved, Serves, Fresh, Direct, FlushPcs
  <2> QED
    BY <2>4, <2>5, <2>6, <2>7
<1>3. CASE Tx.ready /\ Tx.last = Tx.posted
  <2>1. To("V", IF V.flush THEN "txRaise" ELSE "idle") /\ UNCHANGED ring
    BY <1>1, <1>3 DEF TxTake, Tx
  <2>2. PICK pc \in {"txRaise", "idle"} : To("V", pc)
    BY <2>1
  <2>3. Moves("V", [V EXCEPT !.pc = pc]) /\ Rx' = Rx /\ Tx' = Tx
    BY <1>1, <2>1, <2>2, ToMoves, RingSame DEF NetPcs
  <2>4. D' = D /\ V'.pc = pc /\ V'.gen = V.gen
    BY <1>1, <2>3 DEF Moves, Thread
  <2>5. Roles' /\ InHand' /\ Traffic'
    BY <1>1, <2>4, VcpuSame DEF Outside, TxPcs
  <2>6. NetTypeOK'
    BY <1>1, <2>1, <2>3, Types, TypesNext DEF Moves
  <2>7. Positions'
    BY <1>1, <2>3, <2>4 DEF Positions, Taken
  <2>8. Signalled'
    BY <1>1, <2>3, <2>4 DEF Signalled, Coming, Raises, RaisePcs, AskPcs
  <2>9. Served'
    BY <1>1, <2>3, <2>4 DEF Served, Unserved, Serves, Fresh, Direct, FlushPcs
  <2> QED
    BY <2>5, <2>6, <2>7, <2>8, <2>9
<1>4. CASE Tx.ready /\ Tx.last # Tx.posted
  <2>1. To("V", "txInput") /\ ring' = [ring EXCEPT !["tx"].last = @ + 1]
    BY <1>4 DEF TxTake, Tx
  <2>2. Moves("V", [V EXCEPT !.pc = "txInput"])
    BY <1>1, <2>1, ToMoves DEF NetPcs
  <2>3. D' = D /\ V'.pc = "txInput" /\ V'.gen = V.gen
    BY <1>1, <2>2 DEF Moves, Thread
  <2>4. Rx' = Rx /\ Tx' = [Tx EXCEPT !.last = @ + 1] /\ ring' \in [Queues -> NetQueue]
    BY <1>1, <2>1 DEF Rx, Tx, Queues, NetQueue
  <2>5. Tx'.last = Tx.last + 1 /\ Tx'.used = Tx.used /\ Tx'.ready = Tx.ready /\ Tx.used \in Nat /\ Tx.last \in Nat
    BY <1>1, <2>4 DEF NetQueue
  <2>6. Roles' /\ InHand' /\ Traffic'
    BY <1>1, <2>3, VcpuSame DEF Outside, TxPcs
  <2>7. NetTypeOK'
    BY <1>1, <2>2, <2>4, Types, TypesNext DEF Moves
  <2>8. Positions'
    BY <1>1, <2>3, <2>4, <2>5 DEF Positions, Taken
  <2>9. Signalled'
    BY <1>1, <2>3, <2>4 DEF Signalled, Coming, Raises, RaisePcs, AskPcs
  <2>10. Served'
    BY <1>1, <2>3, <2>4 DEF Served, Unserved, Serves, Fresh, Direct, FlushPcs
  <2> QED
    BY <2>6, <2>7, <2>8, <2>9, <2>10
<1> QED
  BY <1>2, <1>3, <1>4

LEMMA TxUnlockStep == ASSUME WnIInv, TxUnlock PROVE WnIInv'
<1> USE DEF WnIInv
<1>1. /\ V \in Thread /\ thr["V"] = V /\ V.pc = "txInput" /\ slirpMu' = "none" /\ Rx' = Rx /\ Tx' = Tx
      /\ UNCHANGED <<ring, backlog, active, sent, intr, driver, resets, past>>
  BY Typed, RingSame DEF TxUnlock, At, Both
<1>2. Moves("V", [V EXCEPT !.pc = "txPush"])
  BY <1>1, ToMoves DEF TxUnlock, NetPcs, Both
<1>3. D' = D /\ V'.pc = "txPush" /\ V'.gen = V.gen
  BY <1>1, <1>2 DEF Moves, Thread
<1>4. Roles' /\ InHand' /\ Traffic'
  BY <1>1, <1>3, VcpuSame DEF Outside, TxPcs
<1>5. NetTypeOK'
  BY <1>1, <1>2, Types, TypesNext DEF Moves
<1>6. Positions'
  BY <1>1, <1>3 DEF Positions, Taken
<1>7. Signalled'
  BY <1>1, <1>3 DEF Signalled, Coming, Raises, RaisePcs, AskPcs
<1>8. Served'
  BY <1>1, <1>3 DEF Served, Unserved, Serves, Fresh, Direct, FlushPcs
<1> QED
  BY <1>4, <1>5, <1>6, <1>7, <1>8

LEMMA TxPushStep == ASSUME WnIInv, TxPush PROVE WnIInv'
<1> USE DEF WnIInv
<1>1. /\ V \in Thread /\ thr["V"] = V /\ thr \in Threads /\ V.pc = "txPush" /\ ring \in [Queues -> NetQueue] /\ Tx \in NetQueue
      /\ UNCHANGED <<backlog, active, slirpMu, sent, intr, driver, resets, past>>
  BY Typed DEF TxPush, At, Both
<1>2. Moves("V", [V EXCEPT !.pc = "txTake", !.flush = @ \/ Tx.ready])
  <2>1. [V EXCEPT !.pc = "txTake", !.flush = @ \/ Tx.ready] \in Thread
    BY <1>1 DEF Thread, NetPcs
  <2>2. thr' = [thr EXCEPT !["V"] = [V EXCEPT !.pc = "txTake", !.flush = @ \/ Tx.ready]]
    BY <1>1 DEF TxPush, Threads, Tx
  <2> QED
    BY <2>1, <2>2, ThreadMoves DEF Both
<1>3. D' = D /\ V'.pc = "txTake" /\ V'.gen = V.gen
  BY <1>1, <1>2 DEF Moves, Thread
<1>4. Rx' = Rx /\ Tx'.last = Tx.last /\ Tx'.ready = Tx.ready /\ ring' \in [Queues -> NetQueue]
      /\ (Tx'.used = Tx.used \/ Tx'.used = Tx.used + 1) /\ Tx.used \in Nat /\ Tx.last \in Nat
  <2>1. CASE Tx.ready
    <3>1. ring' = [ring EXCEPT !["tx"].used = @ + 1]
      BY <2>1 DEF TxPush, Tx
    <3>2. Rx' = Rx /\ Tx' = [Tx EXCEPT !.used = @ + 1] /\ ring' \in [Queues -> NetQueue]
      BY <1>1, <3>1 DEF Rx, Tx, Queues, NetQueue
    <3> QED
      BY <1>1, <3>2 DEF NetQueue
  <2>2. CASE ~Tx.ready
    <3>1. ring' = ring
      BY <2>2 DEF TxPush, Tx
    <3>2. Rx' = Rx /\ Tx' = Tx
      BY <3>1, RingSame
    <3> QED
      BY <1>1, <3>1, <3>2 DEF NetQueue
  <2> QED
    BY <2>1, <2>2
<1>5. Roles' /\ InHand' /\ Traffic'
  BY <1>1, <1>3, VcpuSame DEF Outside, TxPcs
<1>6. NetTypeOK'
  BY <1>1, <1>2, <1>4, Types, TypesNext DEF Moves
<1>7. Positions'
  BY <1>1, <1>3, <1>4 DEF Positions, Taken
<1>8. Signalled'
  BY <1>1, <1>3, <1>4 DEF Signalled, Coming, Raises, RaisePcs, AskPcs
<1>9. Served'
  BY <1>1, <1>3, <1>4 DEF Served, Unserved, Serves, Fresh, Direct, FlushPcs
<1> QED
  BY <1>5, <1>6, <1>7, <1>8, <1>9

LEMMA TxRaiseStep == ASSUME WnIInv, TxRaise PROVE WnIInv'
<1> USE DEF WnIInv
<1>1. /\ V \in Thread /\ thr["V"] = V /\ V.pc = "txRaise" /\ Rx' = Rx /\ Tx' = Tx
      /\ UNCHANGED <<ring, backlog, active, slirpMu, sent, driver, resets, past>>
  BY Typed, RingSame DEF TxRaise, raise_used_buffer_irq, At, Both
<1>2. CASE Tx.ready
  <2>1. intr' = [intr EXCEPT !.status = TRUE] /\ To("V", "txRequest")
    BY <1>2 DEF TxRaise, raise_used_buffer_irq, Tx
  <2>2. Moves("V", [V EXCEPT !.pc = "txRequest"])
    BY <1>1, <2>1, ToMoves DEF NetPcs, Both
  <2>3. D' = D /\ V'.pc = "txRequest" /\ V'.gen = V.gen
    BY <1>1, <2>2 DEF Moves, Thread
  <2>4. intr' \in [status : BOOLEAN, request : BOOLEAN] /\ intr'.status = TRUE
    BY <2>1, Types
  <2>5. Roles' /\ InHand' /\ Traffic'
    BY <1>1, <2>3, VcpuSame DEF Outside, TxPcs
  <2>6. NetTypeOK'
    BY <1>1, <2>2, <2>4, Types, TypesNext DEF Moves
  <2>7. Positions'
    BY <1>1, <2>3 DEF Positions, Taken
  <2>8. Signalled'
    BY <1>1, <2>3, <2>4 DEF Signalled, Coming, Raises, AskPcs
  <2>9. Served'
    BY <1>1, <2>3 DEF Served, Unserved, Serves, Fresh, Direct, FlushPcs
  <2> QED
    BY <2>5, <2>6, <2>7, <2>8, <2>9
<1>3. CASE ~Tx.ready
  <2>1. intr' = intr /\ To("V", "idle")
    BY <1>3 DEF TxRaise, raise_used_buffer_irq, Tx
  <2>2. Moves("V", [V EXCEPT !.pc = "idle"])
    BY <1>1, <2>1, ToMoves DEF NetPcs, Both
  <2>3. D' = D /\ V'.pc = "idle" /\ V'.gen = V.gen
    BY <1>1, <2>2 DEF Moves, Thread
  <2>4. Roles' /\ InHand' /\ Traffic'
    BY <1>1, <2>3, VcpuSame DEF Outside, TxPcs
  <2>5. NetTypeOK'
    BY <1>1, <2>1, <2>2, Types, TypesNext DEF Moves
  <2>6. Positions' /\ Signalled'
    BY <1>1, <1>3, <2>3 DEF Positions, Taken, Signalled
  <2>7. Served'
    BY <1>1, <2>3 DEF Served, Unserved, Serves, Fresh, Direct, FlushPcs
  <2> QED
    BY <2>4, <2>5, <2>6, <2>7
<1> QED
  BY <1>2, <1>3

LEMMA TxRequestStep == ASSUME WnIInv, TxRequest PROVE WnIInv'
<1> USE DEF WnIInv
<1>1. /\ thr["V"] = V /\ V.pc = "txRequest" /\ Rx' = Rx /\ Tx' = Tx /\ resets \in Nat
      /\ UNCHANGED <<ring, backlog, active, slirpMu, sent, driver, resets, past>>
  BY Typed, Types, NetAssumption, RingSame DEF TxRequest, At, Both
<1>2. intr' \in [status : BOOLEAN, request : BOOLEAN] /\ intr'.request = TRUE /\ intr'.status = intr.status
  BY Types DEF TxRequest
<1>3. Moves("V", IdleThread)
  BY ReturnMoves DEF TxRequest, Both
<1>4. D' = D /\ V'.pc = "idle" /\ V'.gen = 0
  BY <1>3 DEF Moves, IdleThread
<1>5. Roles' /\ InHand' /\ Traffic'
  BY <1>1, <1>4, VcpuSame DEF Outside, TxPcs
<1>6. NetTypeOK'
  BY <1>1, <1>2, <1>3, Types, TypesNext DEF Moves
<1>7. Positions'
  BY <1>1, <1>4 DEF Positions, Taken
<1>8. Signalled'
  BY <1>1, <1>2, <1>4 DEF Signalled, Coming, Raises, RaisePcs, AskPcs
<1>9. Served'
  BY <1>1, <1>4 DEF Served, Unserved, Serves, Fresh, Direct, FlushPcs
<1> QED
  BY <1>5, <1>6, <1>7, <1>8, <1>9

-----------------------------------------------------------------------------
(* Register writes and the driver.                                          *)

Drivers == [kick : BOOLEAN, handler : {"idle", "ack", "poll", "enable"}, status : BOOLEAN,
            noInt : BOOLEAN, total : Nat, sends : Nat]

\* What Served says of the threads, while both stay where they are.
LEMMA ServesSame ==
  ASSUME V' = V, D' = D
  PROVE (Serves(V)' <=> Serves(V)) /\ (Serves(D)' <=> Serves(D))
  BY DEF Serves, Fresh, Direct

LEMMA WriteQueueReadyStep == ASSUME WnIInv, WriteQueueReady PROVE WnIInv'
<1> USE DEF WnIInv
<1>1. /\ ring \in [Queues -> NetQueue] /\ Rx \in NetQueue /\ Tx \in NetQueue /\ ~Rx.ready /\ resets \in Nat
      /\ UNCHANGED <<backlog, active, thr, slirpMu, sent, intr, driver, resets, past>>
      /\ ring' = [q \in Queues |-> [ring[q] EXCEPT !.ready = TRUE]]
  BY Typed, Types, NetAssumption DEF WriteQueueReady, Rx
<1>2. V' = V /\ D' = D /\ Roles' /\ InHand' /\ Traffic'
  BY <1>1, HandsOff
<1>3. Rx' = [Rx EXCEPT !.ready = TRUE] /\ Tx' = [Tx EXCEPT !.ready = TRUE] /\ ring' \in [Queues -> NetQueue]
  BY <1>1 DEF Rx, Tx, Queues, NetQueue
<1>4. /\ Rx'.used = Rx.used /\ Rx'.last = Rx.last /\ Rx'.seen = Rx.seen /\ Rx'.posted = Rx.posted /\ Rx'.ready = TRUE
      /\ Tx'.used = Tx.used /\ Tx'.last = Tx.last /\ Tx'.ready = TRUE
  BY <1>1, <1>3 DEF NetQueue
<1>5. resets = 0 => Rx.used = 0 /\ Rx.seen = 0 /\ Rx.last = 0 /\ Rx.posted = 0
  BY <1>1 DEF Positions, FreshQueue
<1>6. NetTypeOK'
  BY <1>1, <1>3, Types, TypesNext
<1>7. Positions'
  BY <1>1, <1>2, <1>4 DEF Positions, Taken
<1>8. Signalled'
  BY <1>1, <1>2, <1>4, <1>5 DEF Signalled
<1>9. Served'
  BY <1>1, <1>2, <1>4, <1>5 DEF Served, Unserved
<1> QED
  BY <1>2, <1>6, <1>7, <1>8, <1>9

LEMMA NotifyRxStep == ASSUME WnIInv, NotifyRx PROVE WnIInv'
<1> USE DEF WnIInv
<1>1. /\ V \in Thread /\ D \in Thread /\ thr["V"] = V /\ V.pc = "idle" /\ Rx' = Rx /\ Tx' = Tx
      /\ UNCHANGED <<ring, backlog, active, slirpMu, sent, intr, resets, past>>
  BY Typed, RingSame DEF NotifyRx, VIdle, At, Both
<1>2. /\ driver' \in Drivers /\ driver'.handler = driver.handler /\ driver'.noInt = driver.noInt
      /\ driver'.status = driver.status
  BY Types DEF NotifyRx, Drivers
<1>3. Moves("V", [V EXCEPT !.pc = "enter"])
  BY <1>1, ToMoves DEF NotifyRx, NetPcs, Both
<1>4. D' = D /\ V'.pc = "enter" /\ V'.gen = V.gen
  BY <1>1, <1>3 DEF Moves, Thread
<1>5. NetTypeOK'
  BY <1>1, <1>2, <1>3, Types, TypesNext DEF Moves, Drivers
<1>6. Roles'
  BY <1>1, <1>4 DEF Roles, Flushes, FlushPcs
<1>7. InHand'
  BY <1>1, <1>4 DEF InHand, AtFront, Flushes, FlushPcs, Fresh, Direct
<1>8. Traffic'
  BY <1>1, <1>4, TrafficSame DEF Fresh, Direct, FrontDone, Handed, DonePcs, Flushes
<1>9. Positions'
  BY <1>1, <1>4 DEF Positions, Taken
<1>10. Signalled'
  BY <1>1, <1>2, <1>4 DEF Signalled, Coming, Raises, RaisePcs, AskPcs
<1>11. Served'
  BY <1>1, <1>4 DEF Served, Unserved, Serves
<1> QED
  BY <1>5, <1>6, <1>7, <1>8, <1>9, <1>10, <1>11

LEMMA NotifyTxStep == ASSUME WnIInv, NotifyTx PROVE WnIInv'
<1> USE DEF WnIInv
<1>1. /\ thr["V"] = V /\ V.pc = "idle" /\ ring \in [Queues -> NetQueue] /\ Tx \in NetQueue /\ resets \in Nat
      /\ UNCHANGED <<backlog, active, slirpMu, sent, intr, resets, past>>
      /\ ring' = [ring EXCEPT !["tx"].posted = @ + 1] /\ driver' = [driver EXCEPT !.sends = @ + 1]
      /\ thr' = [thr EXCEPT !["V"] = [IdleThread EXCEPT !.pc = "txTake"]]
  BY Typed, Types, NetAssumption DEF NotifyTx, VIdle, At, Both
<1>2. /\ driver' \in Drivers /\ driver'.handler = driver.handler /\ driver'.noInt = driver.noInt
      /\ driver'.status = driver.status /\ driver'.kick = driver.kick
  <2>1. driver \in Drivers
    BY Types DEF Drivers
  <2> QED
    BY <1>1, <2>1 DEF Drivers
<1>3. Moves("V", [IdleThread EXCEPT !.pc = "txTake"])
  <2>1. [IdleThread EXCEPT !.pc = "txTake"] \in Thread
    BY IdleIsThread DEF Thread, NetPcs
  <2> QED
    BY <1>1, <2>1, ThreadMoves DEF Both
<1>4. D' = D /\ V'.pc = "txTake" /\ V'.gen = 0
  BY <1>3 DEF Moves, IdleThread
<1>5. /\ Rx' = Rx /\ Tx'.last = Tx.last /\ Tx'.used = Tx.used /\ Tx'.ready = Tx.ready
      /\ ring' \in [Queues -> NetQueue]
  <2>1. Rx' = Rx /\ Tx' = [Tx EXCEPT !.posted = @ + 1] /\ ring' \in [Queues -> NetQueue]
    BY <1>1 DEF Rx, Tx, Queues, NetQueue
  <2> QED
    BY <1>1, <2>1 DEF NetQueue
<1>6. Roles' /\ InHand' /\ Traffic'
  BY <1>1, <1>4, VcpuSame DEF Outside, TxPcs
<1>7. NetTypeOK'
  BY <1>1, <1>2, <1>3, <1>5, Types, TypesNext DEF Moves, Drivers
<1>8. Positions'
  BY <1>1, <1>4, <1>5 DEF Positions, Taken
<1>9. Signalled'
  BY <1>1, <1>2, <1>4, <1>5 DEF Signalled, Coming, Raises, RaisePcs, AskPcs
<1>10. Served'
  BY <1>1, <1>2, <1>4, <1>5 DEF Served, Unserved, Serves, Fresh, Direct, FlushPcs
<1> QED
  BY <1>6, <1>7, <1>8, <1>9, <1>10

LEMMA StatusStep == ASSUME WnIInv, update_status_locked PROVE WnIInv'
<1> USE DEF WnIInv
<1>1. /\ V.pc = "idle" /\ ring \in [Queues -> NetQueue] /\ Rx \in NetQueue /\ Tx \in NetQueue
      /\ V \in Thread /\ D \in Thread
      /\ resets \in Nat /\ resets' = resets + 1 /\ resets' \in 0..MaxResets
      /\ UNCHANGED <<backlog, active, thr, slirpMu, sent, past>>
  BY Typed, Types, NetAssumption DEF update_status_locked, VIdle, At, Both
<1>2. /\ driver' \in Drivers /\ driver'.handler = driver.handler /\ driver'.noInt = driver.noInt
  BY Types DEF update_status_locked, Drivers
<1>3. V' = V /\ D' = D /\ Roles' /\ InHand' /\ Traffic'
  BY <1>1, HandsOff
<1>4. intr' \in [status : BOOLEAN, request : BOOLEAN]
  BY Types DEF update_status_locked
<1>5. /\ ring' \in [Queues -> NetQueue] /\ Rx'.ready = Tx'.ready
      /\ Rx.used <= Rx.last => Rx'.used <= Rx'.last
      /\ Tx.used <= Tx.last => Tx'.used <= Tx'.last
  <2>1. CASE ring' = [q \in Queues |-> FreshQueue]
    BY <2>1 DEF Rx, Tx, Queues, NetQueue, FreshQueue
  <2>2. CASE ring' = [q \in Queues |-> [ring[q] EXCEPT !.ready = FALSE]]
    <3>1. Rx' = [Rx EXCEPT !.ready = FALSE] /\ Tx' = [Tx EXCEPT !.ready = FALSE] /\ ring' \in [Queues -> NetQueue]
      BY <1>1, <2>2 DEF Rx, Tx, Queues, NetQueue
    <3> QED
      BY <1>1, <3>1 DEF NetQueue
  <2> QED
    BY <2>1, <2>2 DEF update_status_locked
<1>6. NetTypeOK'
  BY <1>1, <1>2, <1>4, <1>5, Types, TypesNext DEF Drivers
<1>7. Positions'
  <2>1. V.gen \in Nat /\ D.gen \in Nat /\ resets' # 0
    BY <1>1 DEF Thread
  <2> QED
    BY <1>1, <1>3, <1>5, <2>1 DEF Positions, Taken
<1>8. Signalled'
  BY <1>1, <1>2 DEF Signalled
<1>9. Served'
  BY <1>1 DEF Served, Unserved
<1> QED
  BY <1>3, <1>6, <1>7, <1>8, <1>9

LEMMA PostStep == ASSUME WnIInv, Post PROVE WnIInv'
<1> USE DEF WnIInv
<1>1. /\ ring \in [Queues -> NetQueue] /\ Rx \in NetQueue /\ Tx \in NetQueue /\ Rx.ready
      /\ UNCHANGED <<backlog, active, thr, slirpMu, sent, intr, resets, past>>
      /\ ring' = [ring EXCEPT !["rx"].posted = @ + 1]
  BY Typed DEF Post, Rx
<1>2. /\ driver' \in Drivers /\ driver'.handler = driver.handler /\ driver'.noInt = driver.noInt
      /\ driver'.status = driver.status /\ driver'.kick = TRUE
  <2>1. driver \in Drivers
    BY Types DEF Drivers
  <2>2. driver' = [driver EXCEPT !.kick = TRUE, !.total = @ + 1]
    BY DEF Post
  <2>3. driver' \in Drivers
    <3>1. driver.total + 1 \in Nat
      BY <2>1 DEF Drivers
    <3>2. driver' = [[driver EXCEPT !.kick = TRUE] EXCEPT !.total = driver.total + 1]
      BY <2>1, <2>2 DEF Drivers
    <3>3. [driver EXCEPT !.kick = TRUE] \in Drivers
      BY <2>1 DEF Drivers
    <3> QED
      BY <3>1, <3>2, <3>3 DEF Drivers
  <2>4. /\ driver'.handler = driver.handler /\ driver'.noInt = driver.noInt
        /\ driver'.status = driver.status /\ driver'.kick = TRUE
    BY <2>1, <2>2 DEF Drivers
  <2> QED
    BY <2>3, <2>4
<1>3. V' = V /\ D' = D /\ Roles' /\ InHand' /\ Traffic'
  BY <1>1, HandsOff
<1>4. Rx' = [Rx EXCEPT !.posted = @ + 1] /\ Tx' = Tx /\ ring' \in [Queues -> NetQueue]
  BY <1>1 DEF Rx, Tx, Queues, NetQueue
<1>5. Rx'.used = Rx.used /\ Rx'.last = Rx.last /\ Rx'.seen = Rx.seen /\ Rx'.ready = Rx.ready
  BY <1>1, <1>4 DEF NetQueue
<1>6. NetTypeOK'
  BY <1>1, <1>2, <1>4, Types, TypesNext DEF Drivers
<1>7. Positions'
  BY <1>1, <1>3, <1>4, <1>5 DEF Positions, Taken
<1>8. Signalled'
  BY <1>1, <1>2, <1>3, <1>5 DEF Signalled, Coming, Raises
<1>9. Served'
  BY <1>2 DEF Served
<1> QED
  BY <1>3, <1>6, <1>7, <1>8, <1>9

LEMMA TakeNetIrqStep == ASSUME WnIInv, TakeNetIrq PROVE WnIInv'
<1> USE DEF WnIInv
<1>1. /\ driver.handler = "idle" /\ Rx' = Rx /\ Tx' = Tx
      /\ UNCHANGED <<ring, backlog, active, thr, slirpMu, sent, resets, past>>
  BY RingSame DEF TakeNetIrq
<1>2. /\ intr' \in [status : BOOLEAN, request : BOOLEAN] /\ intr'.status = intr.status
      /\ driver' \in Drivers /\ driver'.handler = "ack" /\ driver'.noInt = driver.noInt
      /\ driver'.status = intr.status /\ driver'.kick = driver.kick
  BY Types DEF TakeNetIrq, Drivers
<1>3. V' = V /\ D' = D /\ Roles' /\ InHand' /\ Traffic'
  BY <1>1, HandsOff
<1>4. NetTypeOK'
  BY <1>1, <1>2, Types, TypesNext DEF Drivers
<1>5. Positions'
  BY <1>1, <1>3 DEF Positions, Taken
<1>6. Signalled'
  BY <1>1, <1>2, <1>3 DEF Signalled, Coming, Raises
<1>7. Served'
  BY <1>1, <1>2, <1>3, ServesSame DEF Served, Unserved
<1> QED
  BY <1>3, <1>4, <1>5, <1>6, <1>7

LEMMA AckIrqStep == ASSUME WnIInv, AckIrq PROVE WnIInv'
<1> USE DEF WnIInv
<1>1. /\ driver.handler = "ack" /\ Rx' = Rx /\ Tx' = Tx
      /\ UNCHANGED <<ring, backlog, active, thr, slirpMu, sent, resets, past>>
  BY RingSame DEF AckIrq
<1>2. /\ intr' \in [status : BOOLEAN, request : BOOLEAN] /\ intr'.request = intr.request
      /\ ~driver.status => intr'.status = intr.status
      /\ driver' \in Drivers /\ driver'.kick = driver.kick
      /\ driver'.handler = (IF driver.status THEN "poll" ELSE "idle") /\ driver'.noInt = driver.status
  BY Types DEF AckIrq, Drivers
<1>3. V' = V /\ D' = D /\ Roles' /\ InHand' /\ Traffic'
  BY <1>1, HandsOff
<1>4. NetTypeOK'
  BY <1>1, <1>2, Types, TypesNext DEF Drivers
<1>5. Positions'
  BY <1>1, <1>3 DEF Positions, Taken
<1>6. Signalled'
  BY <1>1, <1>2, <1>3 DEF Signalled, Coming, Raises
<1>7. Served'
  BY <1>1, <1>2, <1>3, ServesSame DEF Served, Unserved
<1> QED
  BY <1>3, <1>4, <1>5, <1>6, <1>7

LEMMA PollRingStep == ASSUME WnIInv, PollRing PROVE WnIInv'
<1> USE DEF WnIInv
<1>1. /\ ring \in [Queues -> NetQueue] /\ Rx \in NetQueue /\ Tx \in NetQueue
      /\ UNCHANGED <<backlog, active, thr, slirpMu, sent, intr, resets, past>>
      /\ ring' = [q \in Queues |-> [ring[q] EXCEPT !.seen = ring[q].used]]
  BY Typed DEF PollRing
<1>2. /\ driver' \in Drivers /\ driver'.handler = "enable" /\ driver'.noInt = FALSE /\ driver'.kick = driver.kick
  BY Types DEF PollRing, Drivers
<1>3. V' = V /\ D' = D /\ Roles' /\ InHand' /\ Traffic'
  BY <1>1, HandsOff
<1>4. Rx' = [Rx EXCEPT !.seen = Rx.used] /\ Tx' = [Tx EXCEPT !.seen = Tx.used] /\ ring' \in [Queues -> NetQueue]
  BY <1>1 DEF Rx, Tx, Queues, NetQueue
<1>5. /\ Rx'.used = Rx.used /\ Rx'.last = Rx.last /\ Rx'.posted = Rx.posted /\ Rx'.ready = Rx.ready
      /\ Tx'.used = Tx.used /\ Tx'.last = Tx.last /\ Tx'.ready = Tx.ready
  BY <1>1, <1>4 DEF NetQueue
<1>10. Rx = FreshQueue => Rx' = FreshQueue
  BY <1>4 DEF FreshQueue
<1>6. NetTypeOK'
  BY <1>1, <1>2, <1>4, Types, TypesNext DEF Drivers
<1>7. Positions'
  BY <1>1, <1>3, <1>5, <1>10 DEF Positions, Taken
<1>8. Signalled'
  BY <1>2 DEF Signalled
<1>9. Served'
  BY <1>1, <1>2, <1>3, <1>5, ServesSame DEF Served, Unserved
<1> QED
  BY <1>3, <1>6, <1>7, <1>8, <1>9

LEMMA RecheckStep == ASSUME WnIInv, Recheck PROVE WnIInv'
<1> USE DEF WnIInv
<1>1. /\ Rx \in NetQueue /\ Rx' = Rx /\ Tx' = Tx
      /\ UNCHANGED <<ring, backlog, active, thr, slirpMu, sent, intr, resets, past>>
  BY Typed, RingSame DEF Recheck
<1>2. /\ driver' \in Drivers /\ driver'.kick = driver.kick
      /\ driver'.handler = (IF Rx.used # Rx.seen THEN "poll" ELSE "idle") /\ driver'.noInt = (Rx.used # Rx.seen)
  BY Types DEF Recheck, Drivers, Rx
<1>3. V' = V /\ D' = D /\ Roles' /\ InHand' /\ Traffic'
  BY <1>1, HandsOff
<1>4. NetTypeOK'
  BY <1>1, <1>2, Types, TypesNext DEF Drivers
<1>5. Positions'
  BY <1>1, <1>3 DEF Positions, Taken
<1>6. Signalled'
  <2>1. Rx.used \in Nat /\ Rx.seen \in Nat
    BY <1>1 DEF NetQueue
  <2>2. driver'.noInt <=> driver'.handler = "poll"
    BY <1>2
  <2>3. driver'.handler \in {"idle", "ack"} => Rx'.used = Rx'.seen
    BY <1>1, <1>2
  <2> QED
    BY <1>1, <2>1, <2>2, <2>3 DEF Signalled
<1>7. Served'
  BY <1>1, <1>2, <1>3, ServesSame DEF Served, Unserved
<1> QED
  BY <1>3, <1>4, <1>5, <1>6, <1>7

-----------------------------------------------------------------------------

LEMMA NetInitial == NetInit => WnIInv
<1> SUFFICES ASSUME NetInit PROVE WnIInv
  OBVIOUS
<1>1. /\ V = IdleThread /\ D = IdleThread /\ Rx = FreshQueue /\ Tx = FreshQueue /\ backlog = <<>> /\ sent = 0
      /\ past.used = <<>> /\ past.lost = {} /\ active = FALSE /\ resets = 0
      /\ driver.handler = "idle" /\ driver.noInt = FALSE
  BY DEF NetInit, V, D, Rx, Tx, Queues
<1>2. IdleThread.pc = "idle" /\ IdleThread.gen = 0 /\ ~IdleThread.flush
  BY DEF IdleThread
<1>3. FreshQueue \in NetQueue /\ FreshQueue.used = 0 /\ FreshQueue.last = 0 /\ FreshQueue.posted = 0
      /\ FreshQueue.seen = 0
  BY DEF FreshQueue, NetQueue
<1>4. NetTypeOK
  <2>1. ring \in [Queues -> NetQueue] /\ thr \in Threads
    BY <1>3, IdleIsThread DEF NetInit, Threads, Both
  <2>2. 0 \in 0..Packets /\ 0 \in 0..MaxResets
    BY NetAssumption
  <2>3. backlog \in Seq(Packet) /\ past \in [used : Seq(Packet), lost : SUBSET Packet, refused : BOOLEAN, stale : BOOLEAN]
    BY DEF NetInit
  <2> QED
    BY <2>1, <2>2, <2>3, Types DEF NetInit
<1>5. Roles
  BY <1>1, <1>2 DEF Roles, Flushes, FlushPcs, TxPcs
<1>6. InHand
  BY <1>1, <1>2 DEF InHand, AtFront, Flushes, FlushPcs, Fresh, Direct
<1>7. Traffic
  <2>1. ~FrontDone /\ Top = 0
    BY <1>1, <1>2 DEF FrontDone, Handed, DonePcs, Top, Fresh, Direct
  <2>2. InOrder(<<>>, <<>>, Top, FrontDone)
    BY DEF InOrder
  <2>3. Somewhere(<<>>, {}, <<>>, 0, Fresh(D), FrontDone)
    BY <2>1 DEF Somewhere
  <2> QED
    BY <1>1, <2>2, <2>3 DEF Traffic
<1>8. Positions
  BY <1>1, <1>2, <1>3 DEF Positions, Taken
<1>9. Signalled
  BY <1>1, <1>3 DEF Signalled
<1>10. Served
  BY <1>1, <1>3 DEF Served, Unserved
<1> QED
  BY <1>4, <1>5, <1>6, <1>7, <1>8, <1>9, <1>10 DEF WnIInv

LEMMA NetInductive == WnIInv /\ [NetNext]_netVars => WnIInv'
<1> SUFFICES ASSUME WnIInv, [NetNext]_netVars PROVE WnIInv'
  OBVIOUS
<1>1. ASSUME NEW t \in {"V", "D"},
             \/ deliver_rx_packet(t) \/ TakeBuffer(t) \/ PushUsed(t) \/ AppendBacklog(t)
             \/ raise_used_buffer_irq(t, "raise", "request", AfterTrue(t))
             \/ request_irq(t, "request", AfterTrue(t))
             \/ EnterFlush(t) \/ FlushFront(t) \/ FlushPop(t) \/ FlushLeave(t)
      PROVE  WnIInv'
  <2>1. t \in Both
    BY DEF Both
  <2> QED
    BY <1>1, <2>1, DeliverPacketStep, TakeBufferStep, PushUsedStep, AppendBacklogStep, RaiseStep, RequestStep,
       EnterFlushStep, FlushFrontStep, FlushPopStep, FlushLeaveStep
<1>2. CASE PollLock \/ PollUnlock \/ TxLock
  BY <1>2, LockStep
<1>3. CASE on_send_packet
  BY <1>3, on_send_packetStep
<1>4. CASE TxTake \/ TxUnlock \/ TxPush \/ TxRaise \/ TxRequest
  BY <1>4, TxTakeStep, TxUnlockStep, TxPushStep, TxRaiseStep, TxRequestStep
<1>5. CASE WriteQueueReady \/ NotifyRx \/ NotifyTx \/ update_status_locked
  BY <1>5, WriteQueueReadyStep, NotifyRxStep, NotifyTxStep, StatusStep
<1>6. CASE Post \/ TakeNetIrq \/ AckIrq \/ PollRing \/ Recheck
  BY <1>6, PostStep, TakeNetIrqStep, AckIrqStep, PollRingStep, RecheckStep
<1>7. CASE UNCHANGED netVars
  <2> USE DEF WnIInv
  <2>1. /\ UNCHANGED <<ring, backlog, active, thr, slirpMu, sent, intr, driver, resets, past>>
        /\ Rx' = Rx /\ Tx' = Tx
    BY <1>7, RingSame DEF netVars
  <2>2. V' = V /\ D' = D /\ Roles' /\ InHand' /\ Traffic'
    BY <2>1, HandsOff
  <2>3. NetTypeOK'
    BY <2>1, Types, TypesNext
  <2>4. Positions' /\ Signalled'
    BY <2>1, <2>2 DEF Positions, Taken, Signalled, Coming, Raises
  <2>5. Served'
    BY <2>1, <2>2, ServesSame DEF Served, Unserved
  <2> QED
    BY <2>2, <2>3, <2>4, <2>5
<1> QED
  BY <1>1, <1>2, <1>3, <1>4, <1>5, <1>6, <1>7 DEF NetNext

LEMMA NetInvariant == NetSpec => []WnIInv
  BY NetInitial, NetInductive, PTL DEF NetSpec

\* The invariant says what the run checks.
LEMMA NetSafeFollows == WnIInv => WhpNetSafe
<1> SUFFICES ASSUME WnIInv PROVE WhpNetSafe
  OBVIOUS
<1> USE DEF WnIInv
<1>1. /\ V \in Thread /\ D \in Thread /\ thr["V"] = V /\ thr["D"] = D /\ ring["rx"] = Rx /\ ring["tx"] = Tx
      /\ backlog \in Seq(Packet) /\ past.used \in Seq(Packet) /\ sent \in Nat
  BY Typed, Types, NetAssumption DEF Both, Rx, Tx
<1>2. RxInOrder
  BY DEF Traffic, InOrder, RxInOrder
<1>3. NoPacketVanishes
  <2> SUFFICES ASSUME NEW p \in 1..sent
               PROVE  \/ \E i \in DOMAIN past.used : past.used[i] = p
                      \/ \E i \in DOMAIN backlog : backlog[i] = p
                      \/ p \in past.lost
                      \/ thr["D"].pkt = p /\ thr["D"].pc \in {"empty", "take", "push", "append"}
    BY DEF NoPacketVanishes
  <2>1. p \in Elements(past.used) \/ p \in Elements(backlog) \/ p \in past.lost \/ (Fresh(D) /\ p = sent)
    BY DEF Traffic, Somewhere
  <2>2. Fresh(D) => D.pkt = sent /\ D.pc \in {"empty", "take", "push", "append"}
    BY DEF InHand, Fresh, Direct
  <2> QED
    BY <1>1, <2>1, <2>2 DEF Elements
<1>4. UsedWasAvailable
  BY <1>1 DEF UsedWasAvailable, Positions, Queues
<1>5. NoLostRxInterrupt
  BY <1>1 DEF NoLostRxInterrupt, Signalled, Coming, Raises, RaisePcs, AskPcs
<1>6. HeldForBuffers
  BY <1>1 DEF HeldForBuffers, Quiet, At, Served, Unserved, Serves, Fresh, Direct, FlushPcs
<1> QED
  BY <1>2, <1>3, <1>4, <1>5, <1>6 DEF WhpNetSafe

\* Packets from Slirp reach the guest at most once, in order, in buffers the
\* driver offered and with an interrupt, and are dropped only for the code's
\* reasons, with any number of packets, buffers, kicks and resets and any backlog
\* limit (Slirp and VirtioNet of backend.cc).  Until a kick finds the other
\* thread's flush active and is dropped (2085), they wait only for buffers.
THEOREM WhpNetSafeHolds == NetSpec => []WhpNetSafe
  BY NetInvariant, NetSafeFollows, PTL

-----------------------------------------------------------------------------
\* The timers (WhpTimers), for any widths of counter and comparator the second of
\* which divides the first.
\*
\* TimersExact is inductive only together with three facts: a comparator fits its
\* width and a 32-bit one is never above it (GoodTimer), the comparator of an armed
\* timer is the one shown (Shown), and a timer whose status is up would raise the pin
\* it remembers (RouteHeld).  The counter is a residue, so what is past and what is
\* to come are distances around a circle: DistanceIs reads them off an integer that
\* has not been reduced, NearIs finds the next match of a 32-bit comparator, and
\* CatchUpIs shows that the catch-up of a late poll ends.

\* What is assumed of the widths.
Widths(H) ==
  /\ Full \in Nat /\ Full >= 8 /\ Low \in Nat /\ Low >= 2 /\ 2 * Low <= Full
  /\ H \in Nat /\ 2 * H <= Full /\ Full <= 2 * H + 1 /\ H >= 4 /\ Low <= H

\* Half of the counter's range is not below a comparator's.
LEMMA WidthsAre == ASSUME TimersAssumption PROVE Widths(Full \div 2) /\ Full % Low = 0
<1>1. Full \in Nat /\ Low \in Nat /\ Full >= 8 /\ Low >= 2 /\ 2 * Low <= Full /\ Full % Low = 0
  BY DEF TimersAssumption
<1> DEFINE H == Full \div 2
<1>2. H \in Nat /\ 2 * H <= Full /\ Full <= 2 * H + 1
  BY <1>1
<1> HIDE DEF H
<1>3. H >= 4 /\ Low <= H
  BY <1>1, <1>2
<1> QED BY <1>1, <1>2, <1>3 DEF Widths, H

\* Up to laps of the counter, x is d ahead of now.
Ahead(x, now, q, d) == x - now = (q * Full) + d

\* A distance below half of the counter is not past, whatever the counter's value.
LEMMA DistanceIs ==
  ASSUME TimersAssumption, NEW now \in Int, NEW d \in 0..(Full - 1), NEW x \in Int, NEW q \in Int,
         Ahead(x, now, q, d)
  PROVE  /\ (x % Full) \in 0..(Full - 1) /\ ((x % Full) - now) % Full = d
         /\ Past(now, x % Full) <=> d >= Full \div 2
         /\ counter_reached(now, x % Full) <=> (d = 0 \/ d >= Full \div 2)
<1>1. Full \in Nat \ {0}
  BY DEF TimersAssumption
<1>2. (x % Full) \in 0..(Full - 1)
  BY <1>1, ModParts
<1> DEFINE r == x % Full
<1>3. (r - now) % Full = d
  <2>1. -now \in Int /\ x - now \in Int
    OBVIOUS
  <2>2. (r + (-now)) % Full = (x + (-now)) % Full
    BY <1>1, <2>1, ModPlus
  <2>3. (x - now) % Full = d
    BY <1>1, <2>1, ModIs DEF Ahead
  <2>4. x + (-now) = x - now
    OBVIOUS
  <2>5. r \in Int
    BY <1>1, <1>2
  <2> HIDE DEF r
  <2>6. r + (-now) = r - now
    BY <2>5
  <2> QED BY <2>2, <2>3, <2>4, <2>6
<1> HIDE DEF r
<1>4. /\ Past(now, r) <=> d >= Full \div 2
      /\ counter_reached(now, r) <=> (d = 0 \/ d >= Full \div 2)
  BY <1>3 DEF Past, counter_reached
<1> QED BY <1>2, <1>3, <1>4 DEF r

\* Where a 32-bit comparator next matches, and that its successor is to come if it does not.
Near(now, cmp) == (Low * (now \div Low) + (cmp % Low)) % Full

\* Both candidates of set_timer show the value written, and one of them is to come.
LEMMA NearIs ==
  ASSUME TimersAssumption, NEW now \in 0..(Full - 1), NEW cmp \in Nat
  PROVE  LET near == Near(now, cmp)
             next == (near + Low) % Full
         IN  /\ near \in 0..(Full - 1) /\ near % Low = cmp % Low
             /\ next \in 0..(Full - 1) /\ next % Low = cmp % Low
             /\ Past(now, near) => ~Past(now, next)
<1> DEFINE H == Full \div 2
           q == now \div Low
           n0 == now % Low
           c == cmp % Low
           x == Low * q + c
           near == x % Full
           y == near + Low
           next == y % Full
<1>0. Widths(H) /\ Full % Low = 0 /\ Full \in Nat \ {0} /\ Low \in Nat \ {0} /\ now \in Nat
  BY WidthsAre DEF Widths
<1>1. q \in Nat /\ n0 \in Nat /\ n0 < Low /\ now = (Low * q) + n0
  BY <1>0, DivIs
<1>2. c \in 0..(Low - 1)
  BY <1>0
<1> HIDE DEF H, q, n0, c
<1>3. Low * q \in Nat /\ Low * q = q * Low
  BY <1>0, <1>1
<1>4. x \in Int /\ x = (q * Low) + c /\ x - now = c - n0
  <2> DEFINE a == Low * q
             b == q * Low
  <2>1. a \in Nat /\ a = b /\ now = a + n0
    BY <1>1, <1>3
  <2> HIDE DEF a, b
  <2>2. a + c \in Int /\ a + c = b + c /\ (a + c) - now = c - n0
    BY <1>0, <1>1, <1>2, <2>1
  <2> QED BY <2>2 DEF a, b
<1> HIDE DEF x
<1>5. near \in 0..(Full - 1) /\ near % Low = c
  <2>1. near % Low = x % Low
    BY <1>0, <1>4, ModMod
  <2>2. x % Low = c
    BY <1>0, <1>1, <1>2, <1>4, ModIs
  <2>3. near \in 0..(Full - 1)
    BY <1>0, <1>4, ModParts
  <2> QED BY <2>1, <2>2, <2>3
<1>6. (y \in Int) /\ next \in 0..(Full - 1) /\ next % Low = c
  <2>1. y \in Int /\ near \in Int
    BY <1>0, <1>5
  <2>2. next % Low = y % Low
    <3> HIDE DEF y
    <3> QED BY <1>0, <2>1, ModMod
  <2>3. y % Low = ((near % Low) + Low) % Low
    <3>1. Low \in Int
      BY <1>0
    <3> HIDE DEF near
    <3>2. ((near % Low) + Low) % Low = (near + Low) % Low
      BY <1>0, <2>1, <3>1, ModPlus
    <3> QED BY <3>2
  <2>4. (c + Low) % Low = c
    <3>1. c + Low \in Int /\ c + Low = (1 * Low) + c
      BY <1>0, <1>2
    <3> QED BY <1>0, <1>2, <3>1, ModIs
  <2>5. next \in 0..(Full - 1)
    <3> HIDE DEF y
    <3> QED BY <1>0, <2>1, ModParts
  <2>6. y % Low = c
    BY <1>5, <2>3, <2>4
  <2> QED BY <2>1, <2>2, <2>5, <2>6
<1>7. ASSUME c >= n0 PROVE ~Past(now, near)
  <2> DEFINE d == c - n0
  <2>1. d \in 0..(Full - 1) /\ ~(d >= H) /\ Ahead(x, now, 0, d) /\ now \in Int
    BY <1>0, <1>1, <1>2, <1>4, <1>7 DEF Widths, Ahead
  <2>2. ~(d >= Full \div 2)
    BY <2>1 DEF H
  <2> DEFINE zero == 0
  <2>3. zero \in Int /\ Ahead(x, now, zero, d)
    BY <2>1
  <2> HIDE DEF d, zero
  <2>4. Past(now, x % Full) <=> d >= Full \div 2
    BY <1>4, <2>1, <2>3, DistanceIs
  <2> QED BY <2>2, <2>4
<1>8. ASSUME c < n0 PROVE ~Past(now, next)
  <2> DEFINE d == (c - n0) + Low
             z == x + Low
  <2>1. d \in 0..(Full - 1) /\ ~(d >= H) /\ now \in Int
    BY <1>0, <1>1, <1>2, <1>8 DEF Widths
  <2>2. z \in Int /\ Ahead(z, now, 0, d)
    BY <1>0, <1>1, <1>2, <1>4 DEF Ahead
  <2>3. next = z % Full
    BY <1>0, <1>4, ModPlus
  <2>5. ~(d >= Full \div 2)
    BY <2>1 DEF H
  <2> DEFINE zero == 0
  <2>6. zero \in Int /\ Ahead(z, now, zero, d)
    BY <2>2
  <2> HIDE DEF d, z, zero
  <2>7. Past(now, z % Full) <=> d >= Full \div 2
    BY <2>1, <2>2, <2>6, DistanceIs
  <2>4. ~Past(now, z % Full)
    BY <2>5, <2>7
  <2> QED BY <2>3, <2>4
<1>9. n0 \in Int /\ c \in Int
  BY <1>0, <1>1, <1>2
<1>10. Past(now, near) => ~Past(now, next)
  <2> HIDE DEF next, near
  <2> QED BY <1>7, <1>8, <1>9
<1> QED BY <1>5, <1>6, <1>10 DEF Near, x, c, q

\* The catch-up of a late poll ends, at the first period the counter has not reached.
LEMMA CatchUpIs ==
  ASSUME TimersAssumption, NEW now \in 0..(Full - 1), NEW tm, tm.cmp64 \in 0..(Full - 1), tm.period \in 1..3
  PROVE  CatchUp(now, tm) \in 0..(Full - 1) /\ ~counter_reached(now, CatchUp(now, tm))
<1> DEFINE a == tm.cmp64
           p == tm.period
           H == Full \div 2
           at(k) == (a + k * p) % Full
           e == (now - a) % Full
           S == {k \in 1..Full : ~counter_reached(now, at(k))}
           Is(k) == k \in 1..Full /\ ~counter_reached(now, at(k)) /\ \A j \in 1..k - 1 : counter_reached(now, at(j))
<1>0. Widths(H) /\ Full \in Nat \ {0} /\ now \in Int /\ a \in Int /\ a \in Nat /\ p \in 1..3
  BY WidthsAre DEF Widths
<1> HIDE DEF a, p, H
<1>1. e \in 0..(Full - 1) /\ \E q \in Int : now - a = (q * Full) + e
  <2>1. now - a \in Int
    BY <1>0
  <2> QED BY <1>0, <2>1, ModParts
<1> HIDE DEF e
<1>2. PICK q \in Int : now - a = (q * Full) + e
  BY <1>1
<1>3. \E k \in 1..Full, s \in 1..3 : k * p = e + s
  <2>1. e \in Nat /\ e + 1 <= Full /\ Full \in Nat
    BY <1>0, <1>1
  <2>2. CASE p = 1
    <3>1. e + 1 \in 1..Full /\ (e + 1) * p = e + 1
      BY <2>1, <2>2
    <3> QED BY <3>1
  <2>3. CASE p = 2
    <3> DEFINE k == e \div 2 + 1
    <3>1. k \in Nat /\ k >= 1 /\ k <= e + 1 /\ (k * 2 = e + 1 \/ k * 2 = e + 2)
      BY <2>1
    <3> HIDE DEF k
    <3>2. k \in 1..Full /\ (k * p = e + 1 \/ k * p = e + 2)
      BY <2>1, <2>3, <3>1
    <3> QED BY <3>2
  <2>4. CASE p = 3
    <3> DEFINE k == e \div 3 + 1
    <3>1. k \in Nat /\ k >= 1 /\ k <= e + 1 /\ (k * 3 = e + 1 \/ k * 3 = e + 2 \/ k * 3 = e + 3)
      BY <2>1
    <3> HIDE DEF k
    <3>2. k \in 1..Full /\ (k * p = e + 1 \/ k * p = e + 2 \/ k * p = e + 3)
      BY <2>1, <2>4, <3>1
    <3> QED BY <3>2
  <2>5. p = 1 \/ p = 2 \/ p = 3
    BY <1>0
  <2> QED BY <2>2, <2>3, <2>4, <2>5
<1>4. PICK k0 \in 1..Full, s \in 1..3 : k0 * p = e + s
  BY <1>3
<1>5. ~counter_reached(now, at(k0))
  <2> DEFINE x == a + k0 * p
  <2>1. x \in Int /\ Ahead(x, now, -q, s)
    <3> DEFINE b == q * Full
               g == k0 * p
    <3>1. b \in Int /\ (-q) * Full = -b /\ now - a = b + e /\ g = e + s
      BY <1>0, <1>2, <1>4
    <3> HIDE DEF b, g
    <3>2. a + g \in Int /\ (a + g) - now = (-b) + s
      BY <1>0, <1>1, <1>4, <3>1
    <3> QED BY <3>1, <3>2 DEF g, Ahead
  <2> HIDE DEF x
  <2>2. s \in 0..(Full - 1) /\ ~(s = 0 \/ s >= H) /\ -q \in Int
    BY <1>0, <1>4 DEF Widths
  <2>3. ~(s = 0 \/ s >= Full \div 2)
    BY <2>2 DEF H
  <2> DEFINE nq == -q
  <2>4. nq \in Int /\ Ahead(x, now, nq, s)
    BY <2>1, <2>2
  <2> HIDE DEF nq
  <2>5. ~counter_reached(now, x % Full)
    BY <1>0, <2>1, <2>2, <2>3, <2>4, DistanceIs
  <2> QED BY <2>5 DEF x
<1> HIDE DEF at
<1>6. \E k : Is(k)
  <2>1. k0 \in S /\ S \subseteq Nat
    BY <1>4, <1>5
  <2>2. PICK n \in S : \A j \in S : n <= j
    <3> HIDE DEF S
    <3> QED BY <2>1, LeastNat
  <2>3. \A j \in 1..n - 1 : counter_reached(now, at(j))
    <3> SUFFICES ASSUME NEW j \in 1..n - 1, ~counter_reached(now, at(j)) PROVE FALSE
      OBVIOUS
    <3>1. n \in 1..Full
      OBVIOUS
    <3>2. j \in 1..Full /\ ~(n <= j)
      BY <1>0, <3>1
    <3> QED BY <2>2, <3>2
  <2> QED BY <2>3
<1>8. CatchUp(now, tm) = at(CHOOSE k \in 1..Full : /\ ~counter_reached(now, at(k))
                                                 /\ \A j \in 1..k - 1 : counter_reached(now, at(j)))
  BY DEF CatchUp, at, a, p
<1>9. (CHOOSE k \in 1..Full : /\ ~counter_reached(now, at(k))
                              /\ \A j \in 1..k - 1 : counter_reached(now, at(j))) \in S
  BY <1>6
<1> DEFINE u == CHOOSE k \in 1..Full : /\ ~counter_reached(now, at(k))
                                       /\ \A j \in 1..k - 1 : counter_reached(now, at(j))
<1>10. u \in 1..Full /\ ~counter_reached(now, at(u)) /\ CatchUp(now, tm) = at(u)
  BY <1>8, <1>9
<1> HIDE DEF u
<1>11. at(u) \in 0..(Full - 1)
  <2>1. u \in Nat
    BY <1>10
  <2>2. a + u * p \in Int
    BY <1>0, <2>1
  <2> QED BY <1>0, <2>2, ModParts DEF at
<1> QED BY <1>10, <1>11

\* The records of the HPET, of one of its timers and of channel 0 of the PIT.
HpetSet == [enabled : BOOLEAN, legacy : BOOLEAN, base : 0..Full - 1, started_at : 0..MaxClock]
TimerSet == [enabled : BOOLEAN, level : BOOLEAN, periodic : BOOLEAN,
             setval : BOOLEAN, b32 : BOOLEAN, route : {0, 2}, armed : BOOLEAN,
             cmp : 0..Full - 1, cmp64 : 0..Full - 1, period : 0..Full - 1]
PitSet == [lo : 0..1, hi : 0..1, access : 1..3, mode : {0, 2}, write_phase : 0..1,
           read_phase : 0..1, latch : 0..Word - 1, latch_valid : BOOLEAN,
           start : 0..MaxClock, next_irq : 0..MaxClock + Word]

\* A timer whose values fit the width it has.
GoodTimer(tm) == tm \in TimerSet /\ tm.period \in 0..3 /\ (tm.b32 => tm.cmp < Low)
Shown(tm) == tm.armed => tm.cmp = IF tm.b32 THEN tm.cmp64 % Low ELSE tm.cmp64

\* A timer remembers the pin it would raise now: it is not moved while its status is up.
RouteHeld == \A t \in isr : asserted[t] = route_for_timer(hpet, t)

\* What holds of the HPET, of the PIT, and of both.
HpetInv ==
  /\ clock \in 0..MaxClock /\ hpet \in HpetSet /\ hpet.started_at <= clock
  /\ timers \in [Timers -> TimerSet] /\ \A t \in Timers : GoodTimer(timers[t]) /\ Shown(timers[t])
  /\ isr \subseteq Timers /\ asserted \in [Timers -> {0, 2, 8, NoPin}] /\ high \subseteq {0, 2, 8}
  /\ NoStuckLine /\ RouteHeld

PitInv ==
  /\ clock \in 0..MaxClock /\ pit \in PitSet
  /\ firstRead \in {NoPin} \cup 0..Word - 1 /\ half \in BOOLEAN
  /\ PitGrid /\ LatchWhole

TmrInv == HpetInv /\ PitInv /\ writes \in 0..MaxWrites

\* What ArmedAhead and CounterSteady say of a step.
AheadStep ==
  \A t \in Timers : timers'[t] # timers[t] /\ timers'[t].armed /\ timers'[t].b32
    => ~Past(counter(hpet)', timers'[t].cmp64)
CounterStep ==
  hpet.enabled \/ hpet'.enabled
    => counter(hpet)' = (counter(hpet) + (IF hpet.enabled THEN clock' - clock ELSE 0)) % Full

\* The invariant is strong enough.
LEMMA TmrInvImplies == TmrInv => TimersExact
<1> SUFFICES ASSUME TmrInv PROVE TimersExact
  OBVIOUS
<1>1. TmrTypeOK
  BY DEF TmrInv, HpetInv, PitInv, TmrTypeOK, HpetSet, TimerSet, PitSet
<1>2. ComparatorShown
  BY DEF TmrInv, HpetInv, ComparatorShown, Shown
<1> QED BY <1>1, <1>2 DEF TmrInv, HpetInv, PitInv, TimersExact

\* The widths and bounds, as far as the steps need them.
LEMMA TmrBounds ==
  ASSUME TimersAssumption
  PROVE  /\ Full \in Nat /\ Full >= 8 /\ Low \in Nat /\ Low >= 2 /\ 2 * Low <= Full /\ Word = 4
         /\ MaxClock \in Nat /\ MaxWrites \in Nat /\ Timers \subseteq 0..2
BY DEF TimersAssumption

\* The counter stays within its width.
LEMMA CounterRange ==
  ASSUME TimersAssumption, clock \in Int, NEW h \in HpetSet
  PROVE  counter(h) \in 0..(Full - 1)
<1>1. Full \in Nat \ {0} /\ h.base \in 0..(Full - 1) /\ h.started_at \in Int /\ h.base \in Int
  BY TmrBounds DEF HpetSet
<1>2. h.base + (clock - h.started_at) \in Int
  BY <1>1
<1>3. (h.base + (clock - h.started_at)) % Full \in 0..(Full - 1)
  BY <1>1, <1>2, ModParts
<1> QED BY <1>1, <1>3 DEF counter

\* set_timer arms a timer for the comparator it shows, and a 32-bit one ahead of the counter.
LEMMA SetTimerIs ==
  ASSUME TimersAssumption, NEW h, h.enabled \in BOOLEAN, counter(h) \in 0..(Full - 1), NEW tm, GoodTimer(tm)
  PROVE  LET new == set_timer(h, tm)
         IN  /\ GoodTimer(new) /\ Shown(new) /\ new.route = tm.route
             /\ new.armed /\ new.b32 => ~Past(counter(h), new.cmp64)
<1> DEFINE now == counter(h)
           near == Near(now, tm.cmp)
           next == (near + Low) % Full
           new == set_timer(h, tm)
           c64 == IF ~tm.b32 THEN tm.cmp ELSE IF Past(now, near) THEN next ELSE near
<1>0. tm \in TimerSet /\ tm.period \in 0..3 /\ (tm.b32 => tm.cmp < Low)
  BY DEF GoodTimer
<1>1. tm.cmp \in Nat /\ tm.cmp \in 0..(Full - 1) /\ Full \in Nat /\ Low \in Nat
  BY <1>0, TmrBounds DEF TimerSet
<1>2. /\ near \in 0..(Full - 1) /\ near % Low = tm.cmp % Low
      /\ next \in 0..(Full - 1) /\ next % Low = tm.cmp % Low
      /\ Past(now, near) => ~Past(now, next)
  BY <1>1, NearIs
<1>3. new = IF ~h.enabled \/ ~tm.enabled THEN [tm EXCEPT !.armed = FALSE]
            ELSE [tm EXCEPT !.armed = TRUE, !.cmp64 = c64]
  BY DEF set_timer, Near
<1>4. tm.b32 => tm.cmp % Low = tm.cmp
  BY <1>0, <1>1, TmrBounds, ModSmall
<1> HIDE DEF near, next, now, new
<1>5. c64 \in 0..(Full - 1) /\ (tm.b32 => c64 % Low = tm.cmp /\ ~Past(now, c64)) /\ (~tm.b32 => c64 = tm.cmp)
  BY <1>1, <1>2, <1>4
<1> HIDE DEF c64
<1>6. CASE ~h.enabled \/ ~tm.enabled
  <2>1. new = [tm EXCEPT !.armed = FALSE]
    BY <1>3, <1>6
  <2>2. new \in TimerSet /\ ~new.armed /\ new.b32 = tm.b32 /\ new.cmp = tm.cmp /\ new.period = tm.period /\ new.route = tm.route
    BY <1>0, <2>1 DEF TimerSet
  <2> QED BY <1>0, <2>2 DEF GoodTimer, Shown, new
<1>7. CASE h.enabled /\ tm.enabled
  <2>1. new = [tm EXCEPT !.armed = TRUE, !.cmp64 = c64]
    BY <1>3, <1>7
  <2>2. /\ new \in TimerSet /\ new.cmp64 = c64 /\ new.b32 = tm.b32 /\ new.cmp = tm.cmp /\ new.period = tm.period
        /\ new.route = tm.route /\ new.b32 \in BOOLEAN
    BY <1>0, <1>5, <2>1 DEF TimerSet
  <2>3. Shown(new)
    BY <1>5, <2>2 DEF Shown
  <2> QED BY <1>0, <1>5, <2>2, <2>3 DEF GoodTimer, new, now
<1> QED BY <1>0, <1>6, <1>7 DEF TimerSet

\* A timer that fired is disarmed, or armed for a count the counter has not reached.
LEMMA FiredIs ==
  ASSUME TimersAssumption, NEW now \in 0..(Full - 1), NEW tm, GoodTimer(tm)
  PROVE  LET new == Fired(now, tm)
         IN  /\ GoodTimer(new) /\ Shown(new) /\ new.route = tm.route
             /\ new.armed => ~Past(now, new.cmp64)
<1> DEFINE c == CatchUp(now, tm)
           shown == IF tm.b32 THEN c % Low ELSE c
           new == Fired(now, tm)
<1>0. tm \in TimerSet /\ tm.period \in 0..3 /\ (tm.b32 => tm.cmp < Low) /\ tm.b32 \in BOOLEAN
  BY DEF GoodTimer, TimerSet
<1>1. CASE tm.periodic /\ tm.period # 0
  <2>1. tm.cmp64 \in 0..(Full - 1) /\ tm.period \in 1..3
    BY <1>0, <1>1 DEF TimerSet
  <2>2. c \in 0..(Full - 1) /\ ~counter_reached(now, c)
    BY <2>1, CatchUpIs
  <2>3. new = [tm EXCEPT !.cmp64 = c, !.cmp = shown]
    BY <1>1 DEF Fired
  <2> HIDE DEF c, new
  <2>4. Full \in Nat /\ Low \in Nat /\ Low >= 2 /\ 2 * Low <= Full
    BY TmrBounds
  <2>5. c % Low \in Nat /\ c % Low < Low
    BY <2>2, <2>4
  <2>6. shown \in 0..(Full - 1) /\ (tm.b32 => shown < Low)
    BY <2>2, <2>4, <2>5
  <2>7. shown = IF tm.b32 THEN c % Low ELSE c
    OBVIOUS
  <2> HIDE DEF shown
  <2>8. /\ new \in TimerSet /\ new.cmp64 = c /\ new.cmp = shown /\ new.b32 = tm.b32 /\ new.period = tm.period
        /\ new.route = tm.route
    BY <1>0, <2>2, <2>3, <2>6 DEF TimerSet
  <2>9. ~Past(now, c)
    BY <2>2 DEF Past, counter_reached
  <2> QED BY <1>0, <2>6, <2>7, <2>8, <2>9 DEF GoodTimer, Shown, new
<1>2. CASE ~(tm.periodic /\ tm.period # 0)
  <2>1. new = [tm EXCEPT !.armed = FALSE]
    BY <1>2 DEF Fired
  <2> HIDE DEF new
  <2>2. /\ new \in TimerSet /\ ~new.armed /\ new.b32 = tm.b32 /\ new.cmp = tm.cmp /\ new.period = tm.period
        /\ new.route = tm.route
    BY <1>0, <2>1 DEF TimerSet
  <2> QED BY <1>0, <2>2 DEF GoodTimer, Shown, new
<1> QED BY <1>1, <1>2

\* Clearing status bits lowers the lines of exactly the timers that are cleared.
LEMMA DeassertIs ==
  ASSUME HpetInv, NEW cleared, deassert_cleared_irqs(cleared)
  PROVE  /\ isr' = isr \ cleared /\ \A t \in isr' : asserted'[t] = asserted[t]
         /\ asserted' \in [Timers -> {0, 2, 8, NoPin}] /\ high' \subseteq {0, 2, 8}
         /\ NoStuckLine'
<1>1. /\ isr' = isr \ cleared
      /\ asserted' = [t \in Timers |-> IF t \in cleared THEN NoPin ELSE asserted[t]]
      /\ high' = high \ {asserted[t] : t \in cleared \cap isr}
  BY DEF deassert_cleared_irqs
<1>2. isr \subseteq Timers /\ asserted \in [Timers -> {0, 2, 8, NoPin}] /\ high \subseteq {0, 2, 8} /\ NoStuckLine
  BY DEF HpetInv
<1>3. \A t \in isr' : asserted'[t] = asserted[t]
  BY <1>1, <1>2
<1>4. asserted' \in [Timers -> {0, 2, 8, NoPin}]
  BY <1>1, <1>2
<1>5. ASSUME NEW p \in high' PROVE \E t \in isr' : asserted'[t] = p
  <2>1. PICK t \in isr : asserted[t] = p
    BY <1>1, <1>2 DEF NoStuckLine
  <2>2. t \notin cleared
    BY <1>1, <2>1
  <2> QED BY <1>1, <1>3, <2>1, <2>2
<1> QED BY <1>1, <1>2, <1>3, <1>4, <1>5 DEF NoStuckLine

\* The counter between the steps that leave it alone.
LEMMA CounterKept ==
  ASSUME TimersAssumption, HpetInv, clock' = clock, NEW h, h = hpet', h \in HpetSet,
         h.started_at = hpet.started_at \/ h.started_at = clock,
         hpet.enabled /\ h.enabled => h.started_at = hpet.started_at /\ h.base = hpet.base,
         hpet.enabled /\ ~h.enabled => h.base = counter(hpet),
         ~hpet.enabled /\ h.enabled => h.started_at = clock /\ h.base = hpet.base
  PROVE  CounterStep /\ counter(hpet)' = counter(h) /\ h.started_at <= clock
<1>1. Full \in Nat \ {0} /\ clock \in Int /\ hpet \in HpetSet /\ hpet.started_at <= clock /\ MaxClock \in Nat
  BY TmrBounds DEF HpetInv
<1>2. counter(hpet)' = counter(h)
  BY DEF counter
<1>3. counter(hpet) \in 0..(Full - 1) /\ counter(h) \in 0..(Full - 1)
  BY <1>1, CounterRange
<1>4. hpet.enabled \/ h.enabled => counter(h) = counter(hpet)
  <2>1. CASE hpet.enabled /\ h.enabled
    BY <2>1 DEF counter
  <2>2. CASE hpet.enabled /\ ~h.enabled
    BY <2>2 DEF counter
  <2>3. CASE ~hpet.enabled /\ h.enabled
    <3>1. counter(h) = (h.base + (clock - h.started_at)) % Full /\ counter(hpet) = hpet.base
      BY <2>3 DEF counter
    <3>2. h.base \in Nat /\ h.base < Full /\ h.base + (clock - h.started_at) = h.base
      BY <1>1, <2>3 DEF HpetSet
    <3>3. h.base % Full = h.base
      BY <1>1, <3>2, ModSmall
    <3> QED BY <2>3, <3>1, <3>2, <3>3
  <2> QED BY <2>1, <2>2, <2>3
<1>5. (counter(hpet) + (IF hpet.enabled THEN clock' - clock ELSE 0)) % Full = counter(hpet)
  <2> DEFINE c == counter(hpet)
             d == IF hpet.enabled THEN clock' - clock ELSE 0
  <2>1. d = 0
    BY <1>1
  <2>2. c \in Nat /\ c < Full
    BY <1>1, <1>3
  <2> HIDE DEF c, d
  <2>3. c + d = c
    BY <2>1, <2>2
  <2>4. c % Full = c
    BY <1>1, <2>2, ModSmall
  <2> QED BY <2>3, <2>4 DEF c, d
<1>6. CounterStep
  BY <1>2, <1>4, <1>5 DEF CounterStep
<1>7. h.started_at <= clock
  BY <1>1 DEF HpetSet
<1> QED BY <1>2, <1>6, <1>7

\* A step that does not touch the HPET keeps its part of the invariant.
LEMMA HpetUntouched ==
  ASSUME TimersAssumption, HpetInv, clock' = clock, UNCHANGED hpetVars
  PROVE  HpetInv' /\ AheadStep /\ CounterStep
<1>1. hpet' = hpet /\ timers' = timers /\ isr' = isr /\ asserted' = asserted /\ high' = high
  BY DEF hpetVars
<1>2. HpetInv'
  BY <1>1 DEF HpetInv, NoStuckLine, RouteHeld, route_for_timer
<1>3. CounterStep
  <2>1. hpet \in HpetSet
    BY DEF HpetInv
  <2> QED BY <1>1, <2>1, CounterKept
<1>4. AheadStep
  BY <1>1 DEF AheadStep
<1> QED BY <1>2, <1>3, <1>4

\* Time passes.
LEMMA TickHpet ==
  ASSUME TimersAssumption, HpetInv, Tick
  PROVE  HpetInv' /\ AheadStep /\ CounterStep
<1>1. /\ clock' = clock + 1 /\ clock < MaxClock
      /\ hpet' = hpet /\ timers' = timers /\ isr' = isr /\ asserted' = asserted /\ high' = high
  BY DEF Tick, hpetVars
<1>2. clock \in 0..MaxClock /\ MaxClock \in Nat /\ hpet \in HpetSet /\ hpet.started_at <= clock /\ Full \in Nat \ {0}
  BY TmrBounds DEF HpetInv
<1>3. clock' \in 0..MaxClock /\ hpet.started_at <= clock' /\ hpet.started_at \in Int /\ hpet.base \in Int
  BY <1>1, <1>2 DEF HpetSet
<1>4. HpetInv'
  BY <1>1, <1>3 DEF HpetInv, NoStuckLine, RouteHeld, route_for_timer
<1>5. CounterStep
  <2> SUFFICES ASSUME hpet.enabled PROVE counter(hpet)' = (counter(hpet) + (clock' - clock)) % Full
    BY <1>1 DEF CounterStep
  <2> DEFINE x == hpet.base + (clock - hpet.started_at)
             y == clock' - clock
  <2>1. counter(hpet) = x % Full /\ counter(hpet)' = (hpet.base + (clock' - hpet.started_at)) % Full
    BY <1>1 DEF counter
  <2>2. x \in Int /\ y \in Int /\ hpet.base + (clock' - hpet.started_at) = x + y
    BY <1>1, <1>2, <1>3
  <2> HIDE DEF x, y
  <2>3. ((x % Full) + y) % Full = (x + y) % Full
    BY <1>2, <2>2, ModPlus
  <2> QED BY <2>1, <2>2, <2>3 DEF y
<1>6. AheadStep
  BY <1>1 DEF AheadStep
<1> QED BY <1>4, <1>5, <1>6

\* A poll arms what it catches up ahead of the counter, and each level timer
\* that fires remembers the pin it may raise.
LEMMA PollHpetKeeps ==
  ASSUME TimersAssumption, HpetInv, PollHpet
  PROVE  HpetInv' /\ AheadStep /\ CounterStep
<1> DEFINE levels == {t \in Expired : timers[t].level}
           now == counter(hpet)
<1>1. /\ isr' = isr \cup levels
      /\ asserted' = [t \in Timers |-> IF t \in levels THEN route_for_timer(hpet, t) ELSE asserted[t]]
      /\ timers' = [t \in Timers |-> IF t \in Expired THEN Fired(now, timers[t]) ELSE timers[t]]
      /\ clock' = clock /\ hpet' = hpet
  BY DEF PollHpet
<1>2. PICK up \in SUBSET levels : high' = high \cup {route_for_timer(hpet, t) : t \in up}
  BY DEF PollHpet
<1>3. levels \subseteq Timers /\ up \subseteq levels
  BY DEF Expired
<1> HIDE DEF levels, now
<1>4. /\ clock \in 0..MaxClock /\ hpet \in HpetSet /\ hpet.started_at <= clock /\ MaxClock \in Nat
      /\ timers \in [Timers -> TimerSet] /\ \A t \in Timers : GoodTimer(timers[t]) /\ Shown(timers[t])
      /\ isr \subseteq Timers /\ asserted \in [Timers -> {0, 2, 8, NoPin}] /\ high \subseteq {0, 2, 8}
      /\ NoStuckLine /\ RouteHeld
  BY TmrBounds DEF HpetInv
<1>5. now \in 0..(Full - 1)
  BY <1>4, CounterRange DEF now
<1>6. \A t \in Timers : /\ GoodTimer(timers'[t]) /\ Shown(timers'[t]) /\ timers'[t].route = timers[t].route
                        /\ timers'[t] # timers[t] /\ timers'[t].armed => ~Past(now, timers'[t].cmp64)
  <2> SUFFICES ASSUME NEW t \in Timers
               PROVE  /\ GoodTimer(timers'[t]) /\ Shown(timers'[t]) /\ timers'[t].route = timers[t].route
                      /\ timers'[t] # timers[t] /\ timers'[t].armed => ~Past(now, timers'[t].cmp64)
    OBVIOUS
  <2>1. CASE t \in Expired
    <3>1. timers'[t] = Fired(now, timers[t]) /\ GoodTimer(timers[t])
      BY <1>1, <1>4, <2>1
    <3> QED BY <1>5, <3>1, FiredIs
  <2>2. CASE t \notin Expired
    BY <1>1, <1>4, <2>2
  <2> QED BY <2>1, <2>2
<1>7. timers' \in [Timers -> TimerSet]
  <2>1. \A t \in Timers : timers'[t] \in TimerSet
    BY <1>6 DEF GoodTimer
  <2>2. timers' = [t \in Timers |-> timers'[t]]
    BY <1>1
  <2> QED BY <2>1, <2>2
<1>8. \A t \in Timers : route_for_timer(hpet, t) \in {0, 2, 8}
  BY <1>4 DEF route_for_timer, TimerSet
<1>9. \A t \in Timers : route_for_timer(hpet, t)' = route_for_timer(hpet, t)
  BY <1>1, <1>6 DEF route_for_timer
<1>10. isr' \subseteq Timers /\ asserted' \in [Timers -> {0, 2, 8, NoPin}] /\ high' \subseteq {0, 2, 8}
  <2>1. high' \subseteq {0, 2, 8}
    BY <1>2, <1>3, <1>4, <1>8
  <2>2. asserted' \in [Timers -> {0, 2, 8, NoPin}]
    BY <1>1, <1>4, <1>8
  <2> QED BY <1>1, <1>3, <1>4, <2>1, <2>2
<1>11. \A t \in isr' : asserted'[t] = route_for_timer(hpet, t)
  BY <1>1, <1>3, <1>4 DEF RouteHeld
<1>12. RouteHeld'
  BY <1>1, <1>9, <1>10, <1>11 DEF RouteHeld
<1>13. NoStuckLine'
  <2> SUFFICES ASSUME NEW p \in high' PROVE \E t \in isr' : asserted'[t] = p
    BY DEF NoStuckLine
  <2>1. CASE p \in high
    <3>1. PICK t \in isr : asserted[t] = p
      BY <1>4, <2>1 DEF NoStuckLine
    <3>2. t \in isr' /\ asserted'[t] = p
      BY <1>1, <1>4, <1>11, <3>1 DEF RouteHeld
    <3> QED BY <3>2
  <2>2. CASE p \notin high
    <3>1. PICK t \in up : p = route_for_timer(hpet, t)
      BY <1>2, <2>2
    <3>2. t \in isr' /\ asserted'[t] = p
      BY <1>1, <1>3, <1>11, <3>1
    <3> QED BY <3>2
  <2> QED BY <2>1, <2>2
<1>14. CounterStep /\ counter(hpet)' = now
  <2>1. CounterStep /\ counter(hpet)' = counter(hpet)
    BY <1>1, <1>4, CounterKept
  <2> QED BY <2>1 DEF now
<1>15. AheadStep
  BY <1>6, <1>14 DEF AheadStep
<1> QED BY <1>1, <1>4, <1>6, <1>7, <1>10, <1>12, <1>13, <1>14, <1>15 DEF HpetInv

\* The configuration register starts, stops and reroutes the HPET.
LEMMA WriteConfigKeeps ==
  ASSUME TimersAssumption, HpetInv, WriteConfig
  PROVE  HpetInv' /\ AheadStep /\ CounterStep
<1>1. PICK en \in BOOLEAN, leg \in BOOLEAN : (leg # hpet.legacy => isr = {}) /\ write_config(en, leg)
  BY DEF WriteConfig
<1> DEFINE h == [enabled |-> en, legacy |-> leg,
                 base |-> IF hpet.enabled /\ ~en THEN counter(hpet) ELSE hpet.base,
                 started_at |-> IF ~hpet.enabled /\ en THEN clock ELSE hpet.started_at]
<1>2. /\ hpet' = h /\ clock' = clock
      /\ timers' = [t \in Timers |-> set_timer(h, timers[t])]
      /\ IF en THEN UNCHANGED <<isr, asserted, high>> ELSE deassert_cleared_irqs(isr)
  BY <1>1 DEF write_config, WriteConfig, Write
<1>3. /\ clock \in 0..MaxClock /\ hpet \in HpetSet /\ hpet.started_at <= clock /\ MaxClock \in Nat
      /\ timers \in [Timers -> TimerSet] /\ \A t \in Timers : GoodTimer(timers[t]) /\ Shown(timers[t])
      /\ isr \subseteq Timers /\ asserted \in [Timers -> {0, 2, 8, NoPin}] /\ high \subseteq {0, 2, 8}
      /\ NoStuckLine /\ RouteHeld
  BY TmrBounds DEF HpetInv
<1>4. counter(hpet) \in 0..(Full - 1)
  BY <1>3, CounterRange
<1>5. /\ h \in HpetSet /\ h.enabled = en /\ h.legacy = leg
      /\ h.base = (IF hpet.enabled /\ ~en THEN counter(hpet) ELSE hpet.base)
      /\ h.started_at = (IF ~hpet.enabled /\ en THEN clock ELSE hpet.started_at)
      /\ hpet.enabled \in BOOLEAN
  BY <1>3, <1>4 DEF HpetSet
<1> HIDE DEF h
<1>6. CounterStep /\ counter(hpet)' = counter(h) /\ h.started_at <= clock
  BY <1>2, <1>5, CounterKept
<1>7. counter(h) \in 0..(Full - 1)
  BY <1>3, <1>5, CounterRange
<1>8. \A t \in Timers : /\ GoodTimer(timers'[t]) /\ Shown(timers'[t]) /\ timers'[t].route = timers[t].route
                        /\ timers'[t].armed /\ timers'[t].b32 => ~Past(counter(h), timers'[t].cmp64)
  <2> SUFFICES ASSUME NEW t \in Timers
               PROVE  /\ GoodTimer(timers'[t]) /\ Shown(timers'[t]) /\ timers'[t].route = timers[t].route
                      /\ timers'[t].armed /\ timers'[t].b32 => ~Past(counter(h), timers'[t].cmp64)
    OBVIOUS
  <2>1. timers'[t] = set_timer(h, timers[t]) /\ GoodTimer(timers[t])
    BY <1>2, <1>3
  <2> QED BY <1>5, <1>7, <2>1, SetTimerIs
<1>9. timers' \in [Timers -> TimerSet]
  <2>1. \A t \in Timers : timers'[t] \in TimerSet
    BY <1>8 DEF GoodTimer
  <2>2. timers' = [t \in Timers |-> timers'[t]]
    BY <1>2
  <2> QED BY <2>1, <2>2
<1>10. /\ isr' \subseteq Timers /\ asserted' \in [Timers -> {0, 2, 8, NoPin}] /\ high' \subseteq {0, 2, 8}
       /\ NoStuckLine' /\ isr' \subseteq isr /\ \A t \in isr' : asserted'[t] = asserted[t]
  <2>1. CASE en
    BY <1>2, <1>3, <2>1 DEF NoStuckLine
  <2>2. CASE ~en
    BY <1>2, <1>3, <2>2, DeassertIs
  <2> QED BY <2>1, <2>2
<1>11. RouteHeld'
  <2> SUFFICES ASSUME NEW t \in isr' PROVE asserted'[t] = route_for_timer(hpet, t)'
    BY DEF RouteHeld
  <2>1. hpet'.legacy = hpet.legacy /\ t \in Timers /\ asserted[t] = route_for_timer(hpet, t)
    BY <1>1, <1>2, <1>3, <1>5, <1>10 DEF RouteHeld
  <2>2. asserted'[t] = asserted[t]
    BY <1>10
  <2> QED BY <1>8, <2>1, <2>2 DEF route_for_timer
<1>12. AheadStep
  BY <1>6, <1>8 DEF AheadStep
<1> QED BY <1>2, <1>3, <1>5, <1>6, <1>8, <1>9, <1>10, <1>11, <1>12 DEF HpetInv

\* One timer is set anew by a write to its registers.
LEMMA OneTimerSet ==
  ASSUME TimersAssumption, HpetInv, clock' = clock, hpet' = hpet, NEW t \in Timers, NEW new, GoodTimer(new),
         timers' = [timers EXCEPT ![t] = set_timer(hpet, new)],
         isr' \subseteq isr, asserted' \in [Timers -> {0, 2, 8, NoPin}], high' \subseteq {0, 2, 8}, NoStuckLine',
         \A u \in isr' : asserted'[u] = asserted[u],
         t \in isr' => new.route = timers[t].route
  PROVE  HpetInv' /\ AheadStep /\ CounterStep
<1>3. /\ clock \in 0..MaxClock /\ hpet \in HpetSet /\ hpet.started_at <= clock /\ MaxClock \in Nat
      /\ timers \in [Timers -> TimerSet] /\ \A u \in Timers : GoodTimer(timers[u]) /\ Shown(timers[u])
      /\ isr \subseteq Timers /\ RouteHeld
  BY TmrBounds DEF HpetInv
<1>4. counter(hpet) \in 0..(Full - 1) /\ hpet.enabled \in BOOLEAN
  BY <1>3, CounterRange DEF HpetSet
<1> DEFINE e == set_timer(hpet, new)
<1>5. /\ GoodTimer(e) /\ Shown(e) /\ e.route = new.route
      /\ e.armed /\ e.b32 => ~Past(counter(hpet), e.cmp64)
  BY <1>4, SetTimerIs
<1> HIDE DEF e
<1>6. timers' = [timers EXCEPT ![t] = e]
  BY DEF e
<1>7. timers'[t] = e /\ \A u \in Timers : u # t => timers'[u] = timers[u]
  BY <1>3, <1>6
<1>8. timers' \in [Timers -> TimerSet]
  BY <1>3, <1>5, <1>6 DEF GoodTimer
<1>9. \A u \in Timers : GoodTimer(timers'[u]) /\ Shown(timers'[u])
  BY <1>3, <1>5, <1>7
<1>10. CounterStep /\ counter(hpet)' = counter(hpet)
  BY <1>3, CounterKept
<1>11. AheadStep
  BY <1>5, <1>7, <1>10 DEF AheadStep
<1>12. RouteHeld'
  <2> SUFFICES ASSUME NEW u \in isr' PROVE asserted'[u] = route_for_timer(hpet, u)'
    BY DEF RouteHeld
  <2>1. u \in Timers /\ asserted[u] = route_for_timer(hpet, u) /\ asserted'[u] = asserted[u]
    BY <1>3 DEF RouteHeld
  <2>2. timers'[u].route = timers[u].route
    BY <1>5, <1>7, <2>1
  <2> QED BY <2>1, <2>2 DEF route_for_timer
<1>13. isr' \subseteq Timers
  BY <1>3
<1> QED BY <1>3, <1>8, <1>9, <1>10, <1>11, <1>12, <1>13 DEF HpetInv

\* A narrower timer keeps the low bits of what it had; one that stops being a level
\* timer lowers its line.
LEMMA WriteTimerConfigKeeps ==
  ASSUME TimersAssumption, HpetInv, WriteTimerConfig
  PROVE  HpetInv' /\ AheadStep /\ CounterStep
<1>1. PICK t \in Timers, en \in BOOLEAN, level \in BOOLEAN, per \in BOOLEAN, b32 \in BOOLEAN :
        /\ timers[t].route = 0 => t \notin isr
        /\ write_timer_config(t, [enabled |-> en, level |-> level, periodic |-> per, b32 |-> b32, route |-> 2])
  BY DEF WriteTimerConfig
<1> DEFINE old == timers[t]
           new == [old EXCEPT !.enabled = en, !.level = level, !.periodic = per,
                              !.setval = per, !.b32 = b32, !.route = 2,
                              !.cmp = IF b32 THEN @ % Low ELSE @,
                              !.period = IF b32 THEN @ % Low ELSE @]
<1>2. /\ timers' = [timers EXCEPT ![t] = set_timer(hpet, new)] /\ clock' = clock /\ hpet' = hpet
      /\ IF old.level /\ (~level \/ ~en) THEN deassert_cleared_irqs({t}) ELSE UNCHANGED <<isr, asserted, high>>
  <2> DEFINE w == [enabled |-> en, level |-> level, periodic |-> per, b32 |-> b32, route |-> 2]
  <2>1. w.enabled = en /\ w.level = level /\ w.periodic = per /\ w.b32 = b32 /\ w.route = 2
    OBVIOUS
  <2>2. write_timer_config(t, w)
    BY <1>1
  <2> HIDE DEF w
  <2> DEFINE nw == [old EXCEPT !.enabled = w.enabled, !.level = w.level, !.periodic = w.periodic,
                               !.setval = w.periodic, !.b32 = w.b32, !.route = w.route,
                               !.cmp = IF w.b32 THEN @ % Low ELSE @,
                               !.period = IF w.b32 THEN @ % Low ELSE @]
  <2>3. /\ timers' = [timers EXCEPT ![t] = set_timer(hpet, nw)]
        /\ IF old.level /\ (~w.level \/ ~w.enabled) THEN deassert_cleared_irqs({t}) ELSE UNCHANGED <<isr, asserted, high>>
    BY <2>2 DEF write_timer_config
  <2>4. nw = new
    <3> HIDE DEF old
    <3> QED BY <2>1
  <2> HIDE DEF new, nw
  <2>5. clock' = clock /\ hpet' = hpet
    BY DEF WriteTimerConfig, Write
  <2> QED BY <2>1, <2>3, <2>4, <2>5
<1>3. /\ old \in TimerSet /\ GoodTimer(old) /\ old.cmp \in Nat /\ old.period \in 0..3
      /\ isr \subseteq Timers /\ asserted \in [Timers -> {0, 2, 8, NoPin}] /\ high \subseteq {0, 2, 8} /\ NoStuckLine
  BY DEF HpetInv, GoodTimer, TimerSet
<1> HIDE DEF old
<1> DEFINE c == old.cmp % Low
           p == old.period % Low
<1>4. Low \in Nat /\ Low >= 2 /\ Full \in Nat /\ 2 * Low <= Full /\ Full >= 8
  BY TmrBounds
<1>5. c \in Nat /\ c < Low /\ p \in 0..3
  <2>1. c \in Nat /\ c < Low /\ p \in Nat /\ p < Low
    BY <1>3, <1>4
  <2>2. p <= old.period
    <3>1. CASE old.period < Low
      BY <1>3, <1>4, <3>1, ModSmall
    <3>2. CASE ~(old.period < Low)
      BY <1>3, <1>4, <2>1, <3>2
    <3> QED BY <3>1, <3>2
  <2> HIDE DEF c, p
  <2> QED BY <1>3, <2>1, <2>2
<1>6. GoodTimer(new) /\ new.route = 2
  <2>1. new = [old EXCEPT !.enabled = en, !.level = level, !.periodic = per,
                          !.setval = per, !.b32 = b32, !.route = 2,
                          !.cmp = IF b32 THEN c ELSE old.cmp, !.period = IF b32 THEN p ELSE old.period]
    BY <1>3 DEF TimerSet
  <2> HIDE DEF new, c, p
  <2> DEFINE cc == IF b32 THEN c ELSE old.cmp
             pp == IF b32 THEN p ELSE old.period
  <2>2. cc \in 0..(Full - 1) /\ pp \in 0..(Full - 1) /\ pp \in 0..3 /\ (b32 => cc < Low)
    BY <1>3, <1>4, <1>5 DEF TimerSet
  <2>3. new = [old EXCEPT !.enabled = en, !.level = level, !.periodic = per,
                          !.setval = per, !.b32 = b32, !.route = 2, !.cmp = cc, !.period = pp]
    BY <2>1
  <2> HIDE DEF cc, pp
  <2>5. /\ en \in BOOLEAN /\ level \in BOOLEAN /\ per \in BOOLEAN /\ b32 \in BOOLEAN
        /\ old.armed \in BOOLEAN /\ old.cmp64 \in 0..(Full - 1)
    BY <1>3 DEF TimerSet
  <2>6. new = [enabled |-> en, level |-> level, periodic |-> per, setval |-> per, b32 |-> b32, route |-> 2,
               armed |-> old.armed, cmp |-> cc, cmp64 |-> old.cmp64, period |-> pp]
    BY <1>3, <2>3 DEF TimerSet
  <2>4. new \in TimerSet /\ new.cmp = cc /\ new.period = pp /\ new.b32 = b32 /\ new.route = 2
    BY <2>2, <2>5, <2>6 DEF TimerSet
  <2> QED BY <2>2, <2>4 DEF GoodTimer
<1> HIDE DEF new
<1>7. /\ isr' \subseteq isr /\ asserted' \in [Timers -> {0, 2, 8, NoPin}] /\ high' \subseteq {0, 2, 8} /\ NoStuckLine'
      /\ \A u \in isr' : asserted'[u] = asserted[u]
  <2>1. CASE old.level /\ (~level \/ ~en)
    BY <1>2, <2>1, DeassertIs
  <2>2. CASE ~(old.level /\ (~level \/ ~en))
    BY <1>2, <1>3, <2>2 DEF NoStuckLine
  <2> QED BY <2>1, <2>2
<1>8. t \in isr' => new.route = timers[t].route
  BY <1>1, <1>3, <1>6, <1>7 DEF TimerSet, old
<1> QED BY <1>1, <1>2, <1>6, <1>7, <1>8, OneTimerSet

\* A comparator or period that is written is cut to the timer's width.
LEMMA WriteTimerCmpKeeps ==
  ASSUME TimersAssumption, HpetInv, WriteTimerCmp
  PROVE  HpetInv' /\ AheadStep /\ CounterStep
<1>1. PICK t \in Timers, v \in {1, 3} : write_timer_cmp(t, v)
  BY DEF WriteTimerCmp
<1> DEFINE old == timers[t]
           val == IF old.b32 THEN v % Low ELSE v
           cc == IF ~old.periodic \/ old.setval THEN val ELSE old.cmp
           pp == IF old.periodic THEN val ELSE old.period
           new == [old EXCEPT !.cmp = cc, !.period = pp, !.setval = FALSE]
<1>2. old \in TimerSet /\ GoodTimer(old) /\ isr \subseteq Timers /\ NoStuckLine
      /\ asserted \in [Timers -> {0, 2, 8, NoPin}] /\ high \subseteq {0, 2, 8}
  BY DEF HpetInv
<1>3. /\ timers' = [timers EXCEPT ![t] = set_timer(hpet, new)] /\ clock' = clock /\ hpet' = hpet
      /\ isr' = isr /\ asserted' = asserted /\ high' = high
  <2>1. [old EXCEPT !.cmp = IF ~old.periodic \/ old.setval THEN val ELSE @,
                    !.period = IF old.periodic THEN val ELSE @, !.setval = FALSE] = new
    <3> HIDE DEF old, val
    <3> QED BY <1>2 DEF TimerSet
  <2> QED BY <1>1, <2>1 DEF write_timer_cmp, WriteTimerCmp, Write
<1> HIDE DEF old
<1>4. Low \in Nat /\ Low >= 2 /\ Full \in Nat /\ Full >= 8
  BY TmrBounds
<1>5. val \in 0..3 /\ (old.b32 => val < Low)
  <2>1. v % Low \in Nat /\ v % Low < Low /\ v % Low <= v
    <3>1. CASE v < Low
      BY <1>4, <3>1, ModSmall
    <3>2. CASE ~(v < Low)
      BY <1>4, <3>2
    <3> QED BY <3>1, <3>2
  <2> DEFINE w == v % Low
  <2> HIDE DEF w
  <2> QED BY <2>1 DEF w
<1> HIDE DEF val
<1>6. cc \in 0..(Full - 1) /\ pp \in 0..(Full - 1) /\ pp \in 0..3 /\ (old.b32 => cc < Low)
  BY <1>2, <1>4, <1>5 DEF GoodTimer, TimerSet
<1> HIDE DEF cc, pp
<1>7. new \in TimerSet /\ new.cmp = cc /\ new.period = pp /\ new.b32 = old.b32 /\ new.route = old.route
  BY <1>2, <1>6 DEF TimerSet
<1>8. GoodTimer(new)
  BY <1>6, <1>7 DEF GoodTimer
<1> HIDE DEF new
<1>9. NoStuckLine'
  BY <1>2, <1>3 DEF NoStuckLine
<1> QED BY <1>2, <1>3, <1>7, <1>8, <1>9, OneTimerSet DEF old

\* A status bit takes its line with it.
LEMMA WriteStatusKeeps ==
  ASSUME TimersAssumption, HpetInv, WriteStatus
  PROVE  HpetInv' /\ AheadStep /\ CounterStep
<1>1. PICK t \in isr : deassert_cleared_irqs({t})
  BY DEF WriteStatus
<1>2. clock' = clock /\ hpet' = hpet /\ timers' = timers
  BY DEF WriteStatus, Write
<1>3. /\ isr' = isr \ {t} /\ \A u \in isr' : asserted'[u] = asserted[u]
      /\ asserted' \in [Timers -> {0, 2, 8, NoPin}] /\ high' \subseteq {0, 2, 8} /\ NoStuckLine'
  BY <1>1, DeassertIs
<1>4. RouteHeld'
  BY <1>2, <1>3 DEF HpetInv, RouteHeld, route_for_timer
<1>5. HpetInv'
  BY <1>2, <1>3, <1>4 DEF HpetInv
<1>6. hpet \in HpetSet
  BY DEF HpetInv
<1>7. CounterStep
  BY <1>2, <1>6, CounterKept
<1> QED BY <1>2, <1>5, <1>7 DEF AheadStep

\* The counter is written only while it stands still.
LEMMA WriteCounterKeeps ==
  ASSUME TimersAssumption, HpetInv, WriteCounter
  PROVE  HpetInv' /\ AheadStep /\ CounterStep
<1>1. PICK v \in {0, Full - 2} : hpet' = [hpet EXCEPT !.base = v]
  BY DEF WriteCounter
<1>2. clock' = clock /\ timers' = timers /\ isr' = isr /\ asserted' = asserted /\ high' = high /\ ~hpet.enabled
  BY DEF WriteCounter, Write
<1>3. hpet \in HpetSet /\ v \in 0..(Full - 1)
  BY TmrBounds DEF HpetInv
<1>4. hpet' \in HpetSet /\ hpet'.enabled = hpet.enabled /\ hpet'.legacy = hpet.legacy /\ hpet'.started_at = hpet.started_at
  BY <1>1, <1>3 DEF HpetSet
<1>5. HpetInv'
  BY <1>2, <1>4 DEF HpetInv, NoStuckLine, RouteHeld, route_for_timer
<1>6. CounterStep
  BY <1>2, <1>4 DEF CounterStep
<1> QED BY <1>2, <1>5, <1>6 DEF AheadStep

\* The interval of the PIT's interrupts.
LEMMA IntervalIs ==
  ASSUME TimersAssumption, NEW c \in PitSet PROVE irq_interval(c) \in 1..4
<1>1. c.lo \in 0..1 /\ c.hi \in 0..1 /\ Word = 4
  BY TmrBounds DEF PitSet
<1> QED BY <1>1 DEF irq_interval, divisor

\* The next interrupt of a poll at `now': whole intervals after n.
GridNext(n, now, i) == n + ((now - n) \div i + 1) * i

\* A late poll skips whole intervals: it stays on the grid and ends after the clock.
LEMMA NextIrqIs ==
  ASSUME NEW i \in 1..4, NEW n \in Nat, NEW start \in Nat, NEW now \in Nat, n <= now
  PROVE  /\ GridNext(n, now, i) \in Nat /\ GridNext(n, now, i) <= now + i
         /\ (n - start) % i = 0 => (GridNext(n, now, i) - start) % i = 0
<1>1. CASE i = 1
  BY <1>1 DEF GridNext
<1>2. CASE i = 2
  BY <1>2 DEF GridNext
<1>3. CASE i = 3
  BY <1>3 DEF GridNext
<1>4. CASE i = 4
  BY <1>4 DEF GridNext
<1> QED BY <1>1, <1>2, <1>3, <1>4

\* A reload starts a grid of its own.
LEMMA ResetIs ==
  ASSUME TimersAssumption, clock \in 0..MaxClock, NEW c \in PitSet
  PROVE  LET new == reset_channel_timer(c)
         IN  /\ new = [c EXCEPT !.start = clock, !.next_irq = clock + irq_interval(c)]
             /\ new \in PitSet /\ (new.next_irq - new.start) % irq_interval(new) = 0
             /\ new.access = c.access /\ new.read_phase = c.read_phase
             /\ new.latch_valid = c.latch_valid /\ new.latch = c.latch
<1> DEFINE i == irq_interval(c)
           new == reset_channel_timer(c)
<1>1. i \in 1..4
  BY IntervalIs
<1>2. new = [c EXCEPT !.start = clock, !.next_irq = clock + i]
  BY DEF reset_channel_timer
<1>3. new.lo = c.lo /\ new.hi = c.hi
  BY <1>2 DEF PitSet
<1>4. irq_interval(new) = i
  BY <1>3 DEF irq_interval, divisor
<1> HIDE DEF i, new
<1>5. clock \in Nat /\ clock + i \in 0..(MaxClock + Word) /\ MaxClock \in Nat
  BY <1>1, TmrBounds
<1>6. /\ new \in PitSet /\ new.start = clock /\ new.next_irq = clock + i
      /\ new.access = c.access /\ new.read_phase = c.read_phase
      /\ new.latch_valid = c.latch_valid /\ new.latch = c.latch
  BY <1>2, <1>5 DEF PitSet
<1>7. ((clock + i) - clock) % i = 0
  <2>1. (clock + i) - clock = i
    BY <1>1, <1>5
  <2>2. i % i = 0
    BY <1>1
  <2> QED BY <2>1, <2>2
<1> QED BY <1>2, <1>4, <1>6, <1>7 DEF i, new

\* A latch command and a command of access and mode.
Latched(c, n) == [c EXCEPT !.latch = n, !.latch_valid = TRUE, !.read_phase = 0]
Commanded(c, a, m) == [c EXCEPT !.access = a, !.mode = m, !.write_phase = 0, !.read_phase = 0,
                                !.latch_valid = FALSE]
HalfWritten(c, b) == [c EXCEPT !.lo = b, !.write_phase = 1]

\* Latching changes neither the reload value nor the grid.
LEMMA LatchedIs ==
  ASSUME NEW c \in PitSet, NEW n \in 0..(Word - 1)
  PROVE  /\ Latched(c, n) \in PitSet /\ Latched(c, n).write_phase = c.write_phase
         /\ Latched(c, n).next_irq = c.next_irq /\ Latched(c, n).start = c.start
         /\ Latched(c, n).lo = c.lo /\ Latched(c, n).hi = c.hi
<1> DEFINE S == 0..(Word - 1)
           T == 0..MaxClock
           U == 0..(MaxClock + Word)
           P == [lo : 0..1, hi : 0..1, access : 1..3, mode : {0, 2}, write_phase : 0..1,
                 read_phase : 0..1, latch : S, latch_valid : BOOLEAN, start : T, next_irq : U]
<1>1. c \in P /\ n \in S /\ 0 \in 0..1 /\ 1 \in 0..1
  BY DEF PitSet
<1> HIDE DEF S, T, U
<1>2. Latched(c, n) \in P
  BY <1>1 DEF Latched
<1>3. Latched(c, n) \in PitSet
  BY <1>2 DEF PitSet, S, T, U
<1> QED BY <1>3 DEF Latched, PitSet

\* Neither does a new access mode,
LEMMA CommandedIs ==
  ASSUME NEW c \in PitSet, NEW a \in 1..3, NEW m \in {0, 2}
  PROVE  /\ Commanded(c, a, m) \in PitSet /\ Commanded(c, a, m).next_irq = c.next_irq
         /\ Commanded(c, a, m).start = c.start /\ Commanded(c, a, m).lo = c.lo
         /\ Commanded(c, a, m).hi = c.hi
<1> DEFINE S == 0..(Word - 1)
           T == 0..MaxClock
           U == 0..(MaxClock + Word)
           P == [lo : 0..1, hi : 0..1, access : 1..3, mode : {0, 2}, write_phase : 0..1,
                 read_phase : 0..1, latch : S, latch_valid : BOOLEAN, start : T, next_irq : U]
<1>1. c \in P /\ 0 \in 0..1 /\ 1 \in 0..1
  BY DEF PitSet
<1> HIDE DEF S, T, U
<1>2. Commanded(c, a, m) \in P
  BY <1>1 DEF Commanded
<1>3. Commanded(c, a, m) \in PitSet
  BY <1>2 DEF PitSet, S, T, U
<1> QED BY <1>3 DEF Commanded, PitSet

\* and the first byte of two leaves the latch alone.
LEMMA HalfWrittenIs ==
  ASSUME NEW c \in PitSet, NEW b \in 0..1
  PROVE  /\ HalfWritten(c, b) \in PitSet /\ HalfWritten(c, b).write_phase = 1
         /\ HalfWritten(c, b).access = c.access /\ HalfWritten(c, b).read_phase = c.read_phase
         /\ HalfWritten(c, b).latch_valid = c.latch_valid /\ HalfWritten(c, b).latch = c.latch
<1> DEFINE S == 0..(Word - 1)
           T == 0..MaxClock
           U == 0..(MaxClock + Word)
           P == [lo : 0..1, hi : 0..1, access : 1..3, mode : {0, 2}, write_phase : 0..1,
                 read_phase : 0..1, latch : S, latch_valid : BOOLEAN, start : T, next_irq : U]
<1>1. c \in P /\ 0 \in 0..1 /\ 1 \in 0..1
  BY DEF PitSet
<1> HIDE DEF S, T, U
<1>2. HalfWritten(c, b) \in P
  BY <1>1 DEF HalfWritten
<1>3. HalfWritten(c, b) \in PitSet
  BY <1>2 DEF PitSet, S, T, U
<1> QED BY <1>3 DEF HalfWritten, PitSet

\* A step that does not touch the PIT keeps its part of the invariant.
LEMMA PitUntouched ==
  ASSUME PitInv, clock' \in 0..MaxClock, UNCHANGED pitVars PROVE PitInv'
BY DEF PitInv, pitVars, PitGrid, LatchWhole, irq_interval, divisor

\* A poll, however late, moves the next interrupt by whole intervals.
LEMMA PollPitKeeps ==
  ASSUME TimersAssumption, PitInv, PollPit PROVE PitInv'
<1> DEFINE i == irq_interval(pit)
           n == pit.next_irq
           next == GridNext(n, clock, i)
<1>1. /\ clock >= n /\ pit' = [pit EXCEPT !.next_irq = next]
      /\ clock' = clock /\ firstRead' = firstRead /\ half' = half
  BY DEF PollPit, NextIrq, GridNext
<1>2. pit \in PitSet /\ clock \in 0..MaxClock /\ PitGrid /\ LatchWhole /\ firstRead \in {NoPin} \cup 0..Word - 1 /\ half \in BOOLEAN
  BY DEF PitInv
<1>3. i \in 1..4
  BY <1>2, IntervalIs
<1>4. n \in Nat /\ pit.start \in Nat /\ clock \in Nat /\ MaxClock \in Nat /\ Word = 4
  BY <1>2, TmrBounds DEF PitSet
<1> HIDE DEF i, n
<1>5. next \in Nat /\ next <= clock + i /\ ((n - pit.start) % i = 0 => (next - pit.start) % i = 0)
  BY <1>1, <1>3, <1>4, NextIrqIs
<1> HIDE DEF next
<1>6. next \in 0..(MaxClock + Word)
  BY <1>2, <1>3, <1>4, <1>5
<1>7. /\ pit' \in PitSet /\ pit'.next_irq = next /\ pit'.start = pit.start /\ pit'.lo = pit.lo /\ pit'.hi = pit.hi
      /\ pit'.write_phase = pit.write_phase /\ pit'.access = pit.access /\ pit'.read_phase = pit.read_phase
      /\ pit'.latch_valid = pit.latch_valid /\ pit'.latch = pit.latch
  BY <1>1, <1>2, <1>6 DEF PitSet
<1>8. irq_interval(pit)' = i
  BY <1>7 DEF irq_interval, divisor, i
<1>9. PitGrid'
  BY <1>1, <1>2, <1>5, <1>7, <1>8 DEF PitGrid, i, n
<1>10. LatchWhole'
  BY <1>1, <1>2, <1>7 DEF LatchWhole
<1> QED BY <1>1, <1>2, <1>7, <1>9, <1>10 DEF PitInv

\* A latch command keeps the grid; a mode command may leave a reload half written.
LEMMA CommandKeeps ==
  ASSUME TimersAssumption, PitInv, write_command PROVE PitInv'
<1>1. pit \in PitSet /\ clock \in 0..MaxClock /\ PitGrid /\ half \in BOOLEAN /\ Word = 4 /\ MaxClock \in Nat
  BY TmrBounds DEF PitInv
<1>2. firstRead' = NoPin /\ clock' = clock
  BY DEF write_command, Write
<1>3. LatchWhole'
  BY <1>2 DEF LatchWhole
<1>4. CASE pit' = [pit EXCEPT !.latch = current_count(pit), !.latch_valid = TRUE, !.read_phase = 0] /\ UNCHANGED half
  <2> DEFINE n == current_count(pit)
  <2>1. n \in 0..(Word - 1)
    <3> DEFINE ticks == clock - pit.start
               d == divisor(pit)
    <3>1. d \in 1..4 /\ ticks \in Int
      BY <1>1, IntervalIs DEF irq_interval, PitSet
    <3>2. n = IF pit.mode = 2 THEN (d - (ticks % d)) % 4 ELSE (d - ticks) % 4
      BY <1>1 DEF current_count
    <3> HIDE DEF ticks, d, n
    <3>3. ticks % d \in Int
      BY <3>1
    <3> DEFINE u == ticks % d
    <3> HIDE DEF u
    <3>4. u \in Int /\ n = IF pit.mode = 2 THEN (d - u) % 4 ELSE (d - ticks) % 4
      BY <3>2, <3>3 DEF u
    <3>5. n \in 0..3
      BY <3>1, <3>4
    <3> QED BY <1>1, <3>5
  <2> HIDE DEF n
  <2>2. pit' = Latched(pit, n) /\ half' = half
    BY <1>4 DEF n, Latched
  <2>3. /\ pit' \in PitSet /\ pit'.write_phase = pit.write_phase /\ pit'.next_irq = pit.next_irq
        /\ pit'.start = pit.start /\ pit'.lo = pit.lo /\ pit'.hi = pit.hi
    BY <1>1, <2>1, <2>2, LatchedIs
  <2>4. PitGrid'
    BY <1>1, <2>2, <2>3 DEF PitGrid, irq_interval, divisor
  <2> QED BY <1>1, <1>2, <1>3, <2>2, <2>3, <2>4 DEF PitInv
<1>5. ASSUME NEW a \in 1..3, NEW m \in {0, 2},
             pit' = Commanded(pit, a, m),
             half' = (half \/ pit.write_phase = 1)
      PROVE  PitInv'
  <2>1. /\ pit' \in PitSet /\ pit'.next_irq = pit.next_irq
        /\ pit'.start = pit.start /\ pit'.lo = pit.lo /\ pit'.hi = pit.hi
    BY <1>1, <1>5, CommandedIs
  <2>2. half' \in BOOLEAN /\ (~half' => ~half /\ pit.write_phase = 0)
    <3>1. pit.write_phase # 1 => pit.write_phase = 0
      BY <1>1 DEF PitSet
    <3>2. half' \in BOOLEAN /\ (~half' => ~half /\ pit.write_phase # 1)
      BY <1>5, Zenon
    <3> QED BY <3>1, <3>2
  <2>3. PitGrid'
    BY <1>1, <2>1, <2>2 DEF PitGrid, irq_interval, divisor
  <2> QED BY <1>1, <1>2, <1>3, <2>1, <2>2, <2>3 DEF PitInv
<1> QED BY <1>4, <1>5 DEF write_command, Commanded

\* A complete reload starts a new grid; the first byte of two starts none.
LEMMA ChannelWriteKeeps ==
  ASSUME TimersAssumption, PitInv, write_channel PROVE PitInv'
<1>1. /\ pit \in PitSet /\ clock \in 0..MaxClock /\ half \in BOOLEAN /\ LatchWhole
      /\ firstRead \in {NoPin} \cup 0..Word - 1
  BY DEF PitInv
<1>2. firstRead' = firstRead /\ clock' = clock
  BY DEF write_channel, Write
<1>3. ASSUME NEW c \in PitSet, c.access = pit.access, c.read_phase = pit.read_phase,
             c.latch_valid = pit.latch_valid, c.latch = pit.latch,
             pit' = reset_channel_timer(c), half' = FALSE
      PROVE  PitInv'
  <2> DEFINE new == reset_channel_timer(c)
  <2>1. /\ new \in PitSet /\ (new.next_irq - new.start) % irq_interval(new) = 0
        /\ new.access = c.access /\ new.read_phase = c.read_phase
        /\ new.latch_valid = c.latch_valid /\ new.latch = c.latch
    BY <1>1, ResetIs
  <2>2. pit' = new
    BY <1>3
  <2> HIDE DEF new
  <2>3. PitGrid'
    BY <2>1, <2>2 DEF PitGrid, irq_interval, divisor
  <2>4. LatchWhole'
    BY <1>1, <1>2, <1>3, <2>1, <2>2 DEF LatchWhole
  <2> QED BY <1>1, <1>2, <1>3, <2>1, <2>2, <2>3, <2>4 DEF PitInv
<1>4. PICK b \in 0..1 :
       \/ /\ pit.access = 1
          /\ pit' = reset_channel_timer([pit EXCEPT !.lo = b]) /\ half' = FALSE
       \/ /\ pit.access = 2 \/ (pit.access = 3 /\ pit.write_phase = 1)
          /\ pit' = reset_channel_timer([pit EXCEPT !.hi = b,
                                           !.write_phase = IF pit.access = 3 THEN 0 ELSE @])
          /\ half' = FALSE
       \/ /\ pit.access = 3 /\ pit.write_phase = 0
          /\ pit' = [pit EXCEPT !.lo = b, !.write_phase = 1] /\ UNCHANGED half
  BY DEF write_channel
<1>5. CASE pit' = reset_channel_timer([pit EXCEPT !.lo = b]) /\ half' = FALSE
  <2> DEFINE c == [pit EXCEPT !.lo = b]
  <2>1. /\ c \in PitSet /\ c.access = pit.access /\ c.read_phase = pit.read_phase
        /\ c.latch_valid = pit.latch_valid /\ c.latch = pit.latch
    BY <1>1 DEF PitSet
  <2> QED BY <1>3, <1>5, <2>1
<1>6. CASE /\ pit' = reset_channel_timer([pit EXCEPT !.hi = b, !.write_phase = IF pit.access = 3 THEN 0 ELSE @])
           /\ half' = FALSE
  <2> DEFINE w == IF pit.access = 3 THEN 0 ELSE pit.write_phase
             c == [pit EXCEPT !.hi = b, !.write_phase = w]
  <2>1. w \in 0..1
    BY <1>1 DEF PitSet
  <2>2. pit' = reset_channel_timer(c)
    BY <1>6
  <2> HIDE DEF w
  <2>3. /\ c \in PitSet /\ c.access = pit.access /\ c.read_phase = pit.read_phase
        /\ c.latch_valid = pit.latch_valid /\ c.latch = pit.latch
    BY <1>1, <2>1 DEF PitSet
  <2> HIDE DEF c
  <2> QED BY <1>3, <1>6, <2>2, <2>3
<1>7. CASE pit.access = 3 /\ pit' = [pit EXCEPT !.lo = b, !.write_phase = 1] /\ half' = half
  <2>1. /\ pit' \in PitSet /\ pit'.write_phase = 1 /\ pit'.access = pit.access /\ pit'.read_phase = pit.read_phase
        /\ pit'.latch_valid = pit.latch_valid /\ pit'.latch = pit.latch
    BY <1>1, <1>7, HalfWrittenIs DEF HalfWritten
  <2>2. PitGrid' /\ LatchWhole'
    BY <1>1, <1>2, <2>1 DEF PitGrid, LatchWhole
  <2> QED BY <1>1, <1>2, <1>7, <2>1, <2>2 DEF PitInv
<1> QED BY <1>4, <1>5, <1>6, <1>7

\* Reading the low byte of a latched count leaves the latch for the high byte.
LEMMA ChannelReadKeeps ==
  ASSUME TimersAssumption, PitInv, read_channel PROVE PitInv'
<1> DEFINE first == pit.access = 3 /\ pit.read_phase = 0
           phase == IF pit.access = 3 THEN 1 - pit.read_phase ELSE pit.read_phase
           valid == pit.latch_valid /\ first
<1>1. /\ pit \in PitSet /\ clock \in 0..MaxClock /\ half \in BOOLEAN /\ PitGrid /\ pit.latch \in 0..(Word - 1)
      /\ pit.read_phase \in 0..1 /\ pit.latch_valid \in BOOLEAN
  BY DEF PitInv, PitSet
<1>2. /\ clock' = clock /\ half' = half
      /\ pit' = [pit EXCEPT !.read_phase = phase, !.latch_valid = valid]
      /\ firstRead' = IF first /\ pit.latch_valid THEN pit.latch ELSE NoPin
  BY <1>1 DEF read_channel, PitSet
<1>3. phase \in 0..1 /\ valid \in BOOLEAN /\ (valid <=> first /\ pit.latch_valid)
  BY <1>1
<1> HIDE DEF phase, valid, first
<1>4. /\ pit' \in PitSet /\ pit'.latch_valid = valid /\ pit'.latch = pit.latch
      /\ pit'.write_phase = pit.write_phase /\ pit'.next_irq = pit.next_irq
      /\ pit'.start = pit.start /\ pit'.lo = pit.lo /\ pit'.hi = pit.hi
  BY <1>1, <1>2, <1>3 DEF PitSet
<1>5. firstRead' \in {NoPin} \cup 0..(Word - 1)
  BY <1>1, <1>2
<1>6. LatchWhole'
  BY <1>2, <1>3, <1>4 DEF LatchWhole
<1>7. PitGrid'
  BY <1>1, <1>2, <1>4 DEF PitGrid, irq_interval, divisor
<1> QED BY <1>1, <1>2, <1>4, <1>5, <1>6, <1>7 DEF PitInv

\* The reset state of both timers.
LEMMA TmrInvInit == ASSUME TimersAssumption, TmrInit PROVE TmrInv
<1>1. /\ Full \in Nat /\ Full >= 8 /\ Low \in Nat /\ Word = 4 /\ MaxClock \in Nat /\ MaxWrites \in Nat
  BY TmrBounds
<1>2. clock \in 0..MaxClock /\ writes \in 0..MaxWrites
  BY <1>1 DEF TmrInit
<1> DEFINE tm == [enabled |-> FALSE, level |-> FALSE, periodic |-> FALSE,
                  setval |-> FALSE, b32 |-> FALSE, route |-> 0, armed |-> FALSE,
                  cmp |-> Full - 1, cmp64 |-> Full - 1, period |-> 0]
<1>3. tm \in TimerSet /\ GoodTimer(tm) /\ Shown(tm)
  BY <1>1 DEF TimerSet, GoodTimer, Shown
<1>4. hpet \in HpetSet /\ hpet.started_at <= clock
  BY <1>1 DEF TmrInit, HpetSet
<1>5. timers = [t \in Timers |-> tm]
  BY DEF TmrInit
<1> HIDE DEF tm
<1>6. timers \in [Timers -> TimerSet] /\ \A t \in Timers : GoodTimer(timers[t]) /\ Shown(timers[t])
  BY <1>3, <1>5
<1>7. /\ isr \subseteq Timers /\ asserted \in [Timers -> {0, 2, 8, NoPin}] /\ high \subseteq {0, 2, 8}
      /\ NoStuckLine /\ RouteHeld
  BY DEF TmrInit, NoStuckLine, RouteHeld
<1>8. pit \in PitSet /\ irq_interval(pit) = 4 /\ pit.next_irq - pit.start = 4
  BY <1>1 DEF TmrInit, PitSet, irq_interval, divisor
<1>9. PitGrid /\ LatchWhole
  <2>1. 4 % 4 = 0
    OBVIOUS
  <2> QED BY <1>8, <2>1 DEF PitGrid, LatchWhole, TmrInit
<1>10. firstRead \in {NoPin} \cup 0..Word - 1 /\ half \in BOOLEAN
  BY DEF TmrInit
<1> QED BY <1>2, <1>4, <1>6, <1>7, <1>8, <1>9, <1>10 DEF TmrInv, HpetInv, PitInv

\* Every step of either timer keeps the invariant and is steady.
LEMMA TmrInvNext ==
  ASSUME TimersAssumption, TmrInv, [HpetNext \/ PitNext]_tmrVars
  PROVE  TmrInv' /\ (AheadStep /\ CounterStep)
<1>0. HpetInv /\ PitInv /\ writes \in 0..MaxWrites /\ MaxWrites \in Nat /\ clock \in 0..MaxClock
  BY TmrBounds DEF TmrInv, HpetInv
<1>1. ASSUME Write PROVE clock' = clock /\ writes' \in 0..MaxWrites
  BY <1>0, <1>1 DEF Write
<1>2. CASE Tick
  <2>1. HpetInv' /\ AheadStep /\ CounterStep
    BY <1>0, <1>2, TickHpet
  <2>2. PitInv'
    BY <1>0, <1>2, <2>1, PitUntouched DEF Tick, HpetInv
  <2> QED BY <1>0, <1>2, <2>1, <2>2 DEF Tick, TmrInv
<1>3. ASSUME HpetInv' /\ AheadStep /\ CounterStep, UNCHANGED pitVars, writes' \in 0..MaxWrites
      PROVE  TmrInv' /\ (AheadStep /\ CounterStep)
  <2>1. PitInv'
    BY <1>0, <1>3, PitUntouched DEF HpetInv
  <2> QED BY <1>3, <2>1 DEF TmrInv
<1>4. ASSUME PitInv', clock' = clock, UNCHANGED hpetVars, writes' \in 0..MaxWrites
      PROVE  TmrInv' /\ (AheadStep /\ CounterStep)
  <2>1. HpetInv' /\ AheadStep /\ CounterStep
    BY <1>0, <1>4, HpetUntouched
  <2> QED BY <1>4, <2>1 DEF TmrInv
<1>5. CASE PollHpet
  BY <1>0, <1>3, <1>5, PollHpetKeeps DEF PollHpet
<1>6. CASE WriteConfig
  BY <1>0, <1>1, <1>3, <1>6, WriteConfigKeeps DEF WriteConfig
<1>7. CASE WriteTimerConfig
  BY <1>0, <1>1, <1>3, <1>7, WriteTimerConfigKeeps DEF WriteTimerConfig
<1>8. CASE WriteTimerCmp
  BY <1>0, <1>1, <1>3, <1>8, WriteTimerCmpKeeps DEF WriteTimerCmp
<1>9. CASE WriteStatus
  BY <1>0, <1>1, <1>3, <1>9, WriteStatusKeeps DEF WriteStatus
<1>10. CASE WriteCounter
  BY <1>0, <1>1, <1>3, <1>10, WriteCounterKeeps DEF WriteCounter
<1>11. CASE PollPit
  BY <1>0, <1>4, <1>11, PollPitKeeps DEF PollPit
<1>12. CASE write_command
  BY <1>0, <1>1, <1>4, <1>12, CommandKeeps DEF write_command
<1>13. CASE write_channel
  BY <1>0, <1>1, <1>4, <1>13, ChannelWriteKeeps DEF write_channel
<1>14. CASE read_channel
  BY <1>0, <1>4, <1>14, ChannelReadKeeps DEF read_channel
<1>15. CASE UNCHANGED tmrVars
  <2>1. clock' = clock /\ UNCHANGED hpetVars /\ UNCHANGED pitVars /\ writes' = writes
    BY <1>15 DEF tmrVars, hpetVars, pitVars
  <2>2. PitInv'
    BY <1>0, <2>1, PitUntouched
  <2> QED BY <1>0, <1>4, <2>1, <2>2
<1>16. CASE HpetNext
  BY <1>2, <1>5, <1>6, <1>7, <1>8, <1>9, <1>10, <1>16 DEF HpetNext
<1>17. CASE PitNext
  BY <1>2, <1>11, <1>12, <1>13, <1>14, <1>17 DEF PitNext
<1> QED BY <1>15, <1>16, <1>17

\* For any widths of the HPET counter and of its 32-bit comparators, any set of HPET
\* timers and any number of polls and guest writes: a line the HPET holds up belongs
\* to a timer whose status bit will lower it, the comparator the guest reads is the
\* one the timer is armed for, also after the catch-up of a late poll (set_timer,
\* poll_expired and deassert_cleared_irqs of devices/hpet.cc); PIT interrupts stay on
\* the grid of the last complete reload and the two bytes read of a latched count are
\* of one count (devices/pit.cc).
THEOREM TimersExactHolds == TmrSpec => []TimersExact
<1>1. TmrInit => TmrInv
  BY TimersAssumption, TmrInvInit
<1>2. TmrInv /\ [HpetNext \/ PitNext]_tmrVars => TmrInv'
  BY TimersAssumption, TmrInvNext
<1> QED BY <1>1, <1>2, TmrInvImplies, PTL DEF TmrSpec

\* For the same widths and runs: no write and no late poll arms a 32-bit timer for a
\* count that the counter has passed, and enabling, disabling or reprogramming the
\* HPET neither sets its counter back nor lets it jump (set_timer, poll_expired and
\* the configuration register of devices/hpet.cc).
THEOREM TimersSteadyHolds == TmrSpec => TimersSteady
<1>1. TmrInit => TmrInv
  BY TimersAssumption, TmrInvInit
<1>2. TmrInv /\ [HpetNext \/ PitNext]_tmrVars => TmrInv' /\ (AheadStep /\ CounterStep)
  BY TimersAssumption, TmrInvNext
<1>3. TmrSpec => [][AheadStep]_tmrVars
  BY <1>1, <1>2, PTL DEF TmrSpec
<1>4. TmrSpec => [][CounterStep]_tmrVars
  BY <1>1, <1>2, PTL DEF TmrSpec
<1> QED BY <1>3, <1>4 DEF TimersSteady, ArmedAhead, CounterSteady, AheadStep, CounterStep
=============================================================================
