------------------------------- MODULE WhpIrq -------------------------------
(***************************************************************************)
(* Interrupt delivery of the Windows (WHP) backend: the ExtInt slot of the *)
(* boot vCPU with its interrupt window (native/whp/irq.cc), the 8259       *)
(* (devices/pic.cc), the I/O APIC (class IoApic of native/whp/backend.cc)  *)
(* and the exits of vcpu_loop that touch them.  Producers (timer thread,   *)
(* UART) and exit handlers hold device_mu, so each is one step; the guest  *)
(* runs between PreRun and an exit.                                        *)
(*                                                                         *)
(* `guest' and `lapic' are the hypervisor's side (external): interrupts    *)
(* are taken as soon as IF is set and no STI shadow is up, and an armed    *)
(* interrupt window exits before the next instruction.                     *)
(***************************************************************************)
EXTENDS Naturals, Sequences, FiniteSets

CONSTANTS Pins,        \* I/O APIC pins in use
          TimerPin, UartPin,
          PendingLimit \* the 64 of "pending_.size() > 64"

ASSUME IrqAssumption == /\ {TimerPin, UartPin} \subseteq Pins
                        /\ Pins \subseteq Nat /\ PendingLimit \in Nat

NoVector == [irq |-> 99]
Vector(irq) == [irq |-> irq]
PicIrqs == {0, 4}

VARIABLES vcpu,    \* WhpVcpuIrqState of the boot vCPU, and where its loop is
          ext,     \* ext_int_pending, ext_int_vector (NoVector once it is dead)
          guest,   \* IF, STI shadow, pending event, HLT, armed window, cancel
          pic,     \* the master 8259: init_step, vector base, mask
          rte,     \* redirection entries: mask, trigger, remote IRR
          line,    \* line_level_
          queue,   \* pending_
          lapic,   \* irr and isr of the virtual local APIC, by pin
          dropped, \* history: level pins whose request met a full queue, while
                   \* the line stays up and nothing else requested it
          owed     \* history: the lines of the 8259 that were raised and whose
                   \* vector the guest has not taken; without those whose vector
                   \* another raise has replaced in the slot

irqVars == <<vcpu, ext, guest, pic, rte, line, queue, lapic, dropped, owed>>

IrqTypeOK ==
  /\ vcpu \in [pc : {"pre", "run"}, ready : BOOLEAN, interruptable : BOOLEAN,
               interrupt_flag : BOOLEAN, interruption_pending : BOOLEAN, window : BOOLEAN]
  /\ ext \in [pending : BOOLEAN, vector : {Vector(i) : i \in PicIrqs} \cup {NoVector}]
  /\ guest \in [if : BOOLEAN, shadow : BOOLEAN, halted : BOOLEAN, window : BOOLEAN,
                cancel : BOOLEAN, event : {Vector(i) : i \in PicIrqs} \cup {NoVector}]
  /\ pic \in [init_step : {0, 2, 3, 4}, remapped : BOOLEAN, mask : SUBSET PicIrqs]
  /\ rte \in [Pins -> [mask : BOOLEAN, level : BOOLEAN, remoteIrr : BOOLEAN]]
  /\ line \in [Pins -> BOOLEAN]
  /\ queue \in Seq(Pins) /\ Len(queue) <= PendingLimit + 1
  /\ lapic \in [irr : SUBSET Pins, isr : SUBSET Pins]
  /\ dropped \subseteq Pins /\ owed \subseteq PicIrqs

IrqInit ==
  /\ vcpu = [pc |-> "pre", ready |-> FALSE, interruptable |-> TRUE, interrupt_flag |-> TRUE,
             interruption_pending |-> FALSE, window |-> FALSE]
  /\ ext = [pending |-> FALSE, vector |-> NoVector]
  /\ guest = [if |-> FALSE, shadow |-> FALSE, halted |-> FALSE, window |-> FALSE,
              cancel |-> FALSE, event |-> NoVector]
  /\ pic = [init_step |-> 0, remapped |-> FALSE, mask |-> PicIrqs \ {0}]
  /\ rte = [p \in Pins |-> [mask |-> TRUE, level |-> FALSE, remoteIrr |-> FALSE]]
  /\ line = [p \in Pins |-> FALSE]
  /\ queue = <<>> /\ lapic = [irr |-> {}, isr |-> {}]
  /\ dropped = {} /\ owed = {}

-----------------------------------------------------------------------------
\* ExtInt injection (irq.cc)

\* Plausible bug: the ready flag is not asked for.
EvaluateInjectDecision_NoReady(v) ==
  IF ~ext.pending THEN "none"
  ELSE IF v.interruptable /\ v.interrupt_flag /\ ~v.interruption_pending
       THEN "inject" ELSE "arm"

EvaluateInjectDecision(v) ==
  IF ~ext.pending THEN "none"
  ELSE IF v.ready /\ v.interruptable /\ v.interrupt_flag /\ ~v.interruption_pending
       THEN "inject" ELSE "arm"

ArmInterruptWindow(v, g) ==
  /\ vcpu' = [v EXCEPT !.window = TRUE]
  /\ guest' = IF v.window THEN g ELSE [g EXCEPT !.window = TRUE]

\* Plausible bug: the window is not armed when the vCPU cannot take the interrupt.
TryDeliverPendingExtInt_NoArm(v, g) ==
  LET inject == EvaluateInjectDecision(v) = "inject"
  IN  IF inject
      THEN /\ guest' = [g EXCEPT !.event = ext.vector, !.halted = FALSE, !.window = FALSE]
           /\ vcpu' = [v EXCEPT !.ready = FALSE, !.window = FALSE]
           /\ ext' = [pending |-> FALSE, vector |-> NoVector]
      ELSE vcpu' = v /\ guest' = g /\ UNCHANGED ext

\* The three register writes are taken to succeed (one that fails keeps the
\* request and is tried again before the next run).
\* SetPendingExtInt, KickVcpuOutOfHlt and DisarmInterruptWindow on success; the
\* window is armed when the guest cannot take it.
TryDeliverPendingExtInt(v, g) ==
  CASE EvaluateInjectDecision(v) = "none" ->
         vcpu' = v /\ guest' = g /\ UNCHANGED ext
    [] EvaluateInjectDecision(v) = "arm" ->
         ArmInterruptWindow(v, g) /\ UNCHANGED ext
    [] OTHER ->
         /\ guest' = [g EXCEPT !.event = ext.vector, !.halted = FALSE,
                               !.window = @ /\ ~v.window]
         /\ vcpu' = [v EXCEPT !.ready = FALSE, !.window = FALSE]
         /\ ext' = [pending |-> FALSE, vector |-> NoVector]

UpdateVcpuFromExit(g) ==
  [vcpu EXCEPT !.interruption_pending = g.event # NoVector,
               !.interruptable = ~g.shadow, !.interrupt_flag = g.if]

-----------------------------------------------------------------------------
\* I/O APIC

\* drain_pending_locked: a call that fails leaves the rest queued.
Drain(q, l) ==
  \E k \in 0..Len(q) :
    /\ queue' = SubSeq(q, k + 1, Len(q))
    /\ lapic' = [l EXCEPT !.irr = @ \cup {q[i] : i \in 1..k}]

request_irq_locked(p, r) ==
  LET refused == r[p].mask \/ (r[p].level /\ r[p].remoteIrr)
  IN  IF refused \/ Len(queue) > PendingLimit
      THEN /\ rte' = r /\ UNCHANGED <<queue, lapic>>
           /\ dropped' = IF refused \/ ~r[p].level THEN dropped ELSE dropped \cup {p}
      ELSE /\ rte' = [r EXCEPT ![p].remoteIrr = r[p].level]
           /\ Drain(Append(queue, p), lapic) /\ dropped' = dropped \ {p}

\* eoi: remote IRR falls, a line still high is requested again, the queue is
\* drained.  (Vectors are distinct, so that one pin answers.)
eoi(p) ==
  LET r     == [rte EXCEPT ![p].remoteIrr = FALSE]
      again == rte[p].level /\ rte[p].remoteIrr /\ line[p] /\ ~r[p].mask
      room  == Len(queue) <= PendingLimit
  IN  /\ rte' = IF again /\ room THEN rte ELSE r
      /\ dropped' = IF again THEN (IF room THEN dropped \ {p} ELSE dropped \cup {p}) ELSE dropped
      /\ Drain(IF again /\ room THEN Append(queue, p) ELSE queue,
               [lapic EXCEPT !.isr = @ \ {p}])

\* write_reg, low half: remote IRR is kept for a level entry; unmasking a pin
\* whose line is high requests it.
write_reg(p, m, lv) ==
  LET r == [rte EXCEPT ![p] = [mask |-> m, level |-> lv, remoteIrr |-> @.remoteIrr /\ lv]]
  IN  IF rte[p].mask /\ ~m /\ line[p]
      THEN request_irq_locked(p, r)
      ELSE rte' = r /\ UNCHANGED <<queue, lapic, dropped>>

-----------------------------------------------------------------------------
\* Producers

picReady(irq) == pic.remapped /\ irq \notin pic.mask

\* The lines whose vector is in the slot, and in WHvRegisterPendingEvent.
InSlot  == IF ext.pending THEN {ext.vector.irq} ELSE {}
InEvent == {guest.event.irq} \ {NoVector.irq}

\* The ExtInt slot is overwritten whatever it holds; cancel_all follows.
RaiseExtInt(irq) ==
  /\ owed' = (owed \ (InSlot \ InEvent)) \cup {irq}
  /\ ext' = [pending |-> TRUE, vector |-> Vector(irq)]
  /\ guest' = [guest EXCEPT !.cancel = TRUE]

\* deliver_timer_irq for an edge timer (the PIT) or a level one (the HPET), and
\* the UART's raiser, which is the edge case on its own pin.
deliver_irq(p, irq, level) ==
  \/ /\ ~rte[p].mask
     /\ line' = IF level THEN [line EXCEPT ![p] = TRUE] ELSE line
     /\ request_irq_locked(p, rte)
     /\ UNCHANGED <<vcpu, ext, guest, pic, owed>>
  \/ /\ rte[p].mask /\ picReady(irq)
     /\ RaiseExtInt(irq)
     /\ UNCHANGED <<vcpu, pic, rte, line, queue, lapic, dropped>>

TimerIrq == \E level \in BOOLEAN : deliver_irq(TimerPin, 0, level)
UartIrq  == deliver_irq(UartPin, 4, FALSE)

\* set_irq(pin, false): the HPET's status bit was cleared.
LowerLine == \E p \in Pins : line[p] /\ line' = [line EXCEPT ![p] = FALSE]
                /\ dropped' = dropped \ {p}
                /\ UNCHANGED <<vcpu, ext, guest, pic, rte, queue, lapic, owed>>

-----------------------------------------------------------------------------
\* The vCPU loop

PreRun ==
  /\ vcpu.pc = "pre"
  /\ TryDeliverPendingExtInt([vcpu EXCEPT !.pc = "run"], guest)
  /\ Drain(queue, lapic)
  /\ UNCHANGED <<pic, rte, line, dropped, owed>>

WindowDue == guest.window /\ guest.if /\ ~guest.shadow /\ guest.event = NoVector

\* HLT exit: a stable boundary; inject at once, or wait at most 50 ms on
\* run_wake_cv and go on before the next run, where what came meanwhile is seen.
ExitHalt ==
  /\ vcpu.pc = "run" /\ ~WindowDue /\ guest.if /\ guest.event = NoVector
  /\ lapic.irr = {} /\ lapic.isr = {}
  /\ LET g == [guest EXCEPT !.halted = TRUE, !.shadow = FALSE]
         u == UpdateVcpuFromExit(g)
         v == [u EXCEPT !.ready = u.interruptable /\ u.interrupt_flag, !.pc = "pre"]
     IN  IF ext.pending THEN TryDeliverPendingExtInt(v, g)
                        ELSE vcpu' = v /\ guest' = g /\ UNCHANGED ext
  /\ UNCHANGED <<pic, rte, line, queue, lapic, dropped, owed>>

ExitInterruptWindow ==
  /\ vcpu.pc = "run" /\ WindowDue
  /\ LET g == [guest EXCEPT !.window = FALSE]
         u == UpdateVcpuFromExit(g)
         v == [u EXCEPT !.pc = "pre", !.window = FALSE,
                        !.ready = u.interruptable /\ u.interrupt_flag]
     IN  IF ext.pending THEN TryDeliverPendingExtInt(v, g)
                        ELSE vcpu' = v /\ guest' = g /\ UNCHANGED ext
  /\ Drain(queue, lapic)
  /\ UNCHANGED <<pic, rte, line, dropped, owed>>

ExitCanceled ==
  /\ vcpu.pc = "run" /\ guest.cancel
  /\ vcpu' = [UpdateVcpuFromExit(guest) EXCEPT !.pc = "pre"]
  /\ guest' = [guest EXCEPT !.cancel = FALSE]
  /\ UNCHANGED <<ext, pic, rte, line, queue, lapic, dropped, owed>>

Executes == vcpu.pc = "run" /\ ~WindowDue /\ ~guest.halted
            /\ ~(guest.if /\ ~guest.shadow /\ guest.event # NoVector)

ExitApicEoi(p) ==
  /\ Executes /\ p \in lapic.isr /\ rte[p].level
  /\ vcpu' = [UpdateVcpuFromExit(guest) EXCEPT !.pc = "pre"]
  /\ eoi(p)
  /\ guest' = [guest EXCEPT !.shadow = FALSE]
  /\ UNCHANGED <<ext, pic, line, owed>>

\* MMIO exit: the guest programs a redirection entry.  Only the
\* HPET's pin is ever level triggered, and its mode changes only while it is masked
\* and not in flight.
ExitWriteRte(p, m, lv) ==
  /\ Executes /\ (lv => p = TimerPin)
  /\ lv # rte[p].level => /\ m /\ rte[p].mask
                          /\ p \notin lapic.irr \cup lapic.isr
                          /\ \A i \in DOMAIN queue : queue[i] # p
  /\ <<m, lv>> # <<rte[p].mask, rte[p].level>>
  /\ vcpu' = [UpdateVcpuFromExit(guest) EXCEPT !.pc = "pre"]
  /\ write_reg(p, m, lv)
  /\ guest' = [guest EXCEPT !.shadow = FALSE]
  /\ UNCHANGED <<ext, pic, line, owed>>

\* Port exit: the 8259's ICW1, ICW2..4, then the mask.  The guest initialises it
\* once (again, it would mask all lines, which the mask register can do too).
pic_write_command == ~pic.remapped /\ pic' = [pic EXCEPT !.init_step = 2, !.mask = PicIrqs]
pic_write_data ==
  \E m \in {{}, PicIrqs} :
    pic' = CASE pic.init_step = 2 -> [pic EXCEPT !.init_step = 3, !.remapped = TRUE]
             [] pic.init_step = 3 -> [pic EXCEPT !.init_step = 4]
             [] pic.init_step = 4 -> [pic EXCEPT !.init_step = 0]
             [] OTHER -> [pic EXCEPT !.mask = m]
ExitWritePic ==
  /\ Executes
  /\ pic_write_command \/ pic_write_data
  /\ vcpu' = [UpdateVcpuFromExit(guest) EXCEPT !.pc = "pre"]
  /\ guest' = [guest EXCEPT !.shadow = FALSE]
  /\ UNCHANGED <<ext, rte, line, queue, lapic, dropped, owed>>

-----------------------------------------------------------------------------
\* The guest inside WHvRunVirtualProcessor

TakesInterrupt == vcpu.pc = "run" /\ guest.if /\ ~guest.shadow

TakeEvent ==
  /\ TakesInterrupt /\ guest.event # NoVector
  /\ guest' = [guest EXCEPT !.event = NoVector, !.if = FALSE, !.halted = FALSE]
  /\ owed' = owed \ (InEvent \ InSlot)      \* a line raised again stays owed
  /\ UNCHANGED <<vcpu, ext, pic, rte, line, queue, lapic, dropped>>

\* The vectors are of one priority class: one in service holds back the others.
TakeFixed(p) ==
  /\ TakesInterrupt /\ ~WindowDue /\ guest.event = NoVector
  /\ p \in lapic.irr /\ lapic.isr = {}
  /\ guest' = [guest EXCEPT !.if = FALSE, !.halted = FALSE]
  /\ lapic' = [irr |-> lapic.irr \ {p}, isr |-> {p}]
  /\ UNCHANGED <<vcpu, ext, pic, rte, line, queue, dropped, owed>>

\* An edge interrupt ends inside the guest.
EdgeEoi(p) ==
  /\ Executes /\ p \in lapic.isr /\ ~rte[p].level
  /\ lapic' = [lapic EXCEPT !.isr = @ \ {p}]
  /\ guest' = [guest EXCEPT !.shadow = FALSE]
  /\ UNCHANGED <<vcpu, ext, pic, rte, line, queue, dropped, owed>>

Sti == /\ Executes /\ ~guest.if /\ guest' = [guest EXCEPT !.if = TRUE, !.shadow = TRUE]
       /\ UNCHANGED <<vcpu, ext, pic, rte, line, queue, lapic, dropped, owed>>
Cli == /\ Executes /\ guest.if /\ guest' = [guest EXCEPT !.if = FALSE, !.shadow = FALSE]
       /\ UNCHANGED <<vcpu, ext, pic, rte, line, queue, lapic, dropped, owed>>
Instruction == /\ Executes /\ guest.shadow /\ guest' = [guest EXCEPT !.shadow = FALSE]
               /\ UNCHANGED <<vcpu, ext, pic, rte, line, queue, lapic, dropped, owed>>

IrqNext ==
  \/ TimerIrq \/ UartIrq \/ LowerLine
  \/ PreRun \/ ExitHalt \/ ExitInterruptWindow \/ ExitCanceled \/ ExitWritePic
  \/ TakeEvent \/ Sti \/ Cli \/ Instruction
  \/ \E p \in Pins : ExitApicEoi(p) \/ TakeFixed(p) \/ EdgeEoi(p)
  \/ \E p \in Pins, m, lv \in BOOLEAN : ExitWriteRte(p, m, lv)

IrqSpec == IrqInit /\ [][IrqNext]_irqVars

-----------------------------------------------------------------------------
\* An ExtInt is written into WHvRegisterPendingEvent only when the guest can
\* take it (IF set, no shadow) and no earlier event waits there: the next one
\* would overwrite it.  The vCPU's copies are as old as its last exit.
SafeInjection ==
  [][guest'.event # guest.event /\ guest'.event # NoVector
       => guest.event = NoVector /\ guest.if /\ ~guest'.shadow]_irqVars

\* A level line that is up on an unmasked pin has its interrupt in progress
\* (unless the request met a full queue): no unmask, EOI or re-raise loses it.
LevelNotLost ==
  \A p \in Pins : line[p] /\ rte[p].level /\ ~rte[p].mask
                    => rte[p].remoteIrr \/ p \in dropped

\* Remote IRR blocks further requests of the pin until an EOI: while it is set,
\* the message is queued, in the local APIC, or in service, so an EOI will come.
RemoteIrrAnswered ==
  \A p \in Pins : rte[p].remoteIrr =>
    p \in lapic.irr \cup lapic.isr \cup {queue[i] : i \in DOMAIN queue}

\* A vCPU that enters, or is in, WHvRunVirtualProcessor with an ExtInt pending
\* leaves it again: an interrupt window is armed or a cancel is on its way.  The
\* slot is filled by other threads at any moment, the window is armed from copies
\* as old as the last exit, and both are taken down again on other paths.
ExtIntNoticed == ext.pending /\ vcpu.pc = "run" => guest.window \/ guest.cancel

\* A vector in the slot stays until it is injected, an injected one until the
\* guest takes it, and neither comes twice: only a raise of the other source, which
\* replaces what waits in the one slot (backend.cc:3692 and 3844), loses an
\* external interrupt.
ExtIntKept == owed = InSlot \cup InEvent

\* What the guest is still to be told is somewhere on its way to it: a level held
\* over an EOI, the EOI owed to a remote IRR, and the external interrupts but for
\* those that another source replaced in the slot, which the code loses.
InterruptsKept ==
  IrqTypeOK /\ LevelNotLost /\ RemoteIrrAnswered /\ ExtIntNoticed /\ ExtIntKept
=============================================================================
