------------------------------- MODULE WhpNet -------------------------------
(***************************************************************************)
(* The virtio-net device of the Windows backend and its libslirp adapter   *)
(* (classes Slirp and VirtioNet of native/whp/backend.cc).  Two threads    *)
(* meet in the device: the vCPU that handles a queue notification (V, one  *)
(* at a time: MMIO exits hold device_mu) and the thread inside libslirp    *)
(* that delivers a packet (D).  D holds Slirp::mu_, and is the poll thread *)
(* or V itself, when a packet it sends is answered at once.  VirtioNet::mu_*)
(* is taken and left several times per packet: every locked section is a   *)
(* step.  The guest driver (external) posts buffers, polls the used ring   *)
(* with interrupts off as NAPI does, and may reset the device.             *)
(***************************************************************************)
EXTENDS Naturals, Sequences, FiniteSets

CONSTANTS Packets,         \* packets libslirp sends, in this order: 1..Packets
          Jumbo,           \* those longer than 1518 bytes
          Buffers,         \* receive buffers the guest posts in a run
          BadBuffers,      \* those whose descriptor chain is unusable
          kRxBacklogLimit, \* 256 in the code
          MaxSends,        \* transmit kicks in a run
          MaxResets

ASSUME NetAssumption == /\ {Packets, Buffers, kRxBacklogLimit, MaxSends, MaxResets} \subseteq Nat
                        /\ Jumbo \subseteq 1..Packets /\ BadBuffers \subseteq 1..Buffers

VARIABLES ring,    \* queues_: ready, posted, last_avail_idx, used, guest's view
          backlog, \* rx_backlog_
          active,  \* rx_flush_active_
          thr,     \* where V and D are: pc, packet in hand, in a flush
          slirpMu, \* holder of Slirp::mu_: "none", "S" (poll thread) or "V"
          sent,    \* packets libslirp has sent so far
          intr,    \* interrupt_status_ and the edge request in the I/O APIC
          driver,  \* the guest: kick owed, handler, NO_INTERRUPT flag
          resets,
          past     \* history: order of used packets, packets lost, kicks refused

netVars == <<ring, backlog, active, thr, slirpMu, sent, intr, driver, resets, past>>

Queues  == {"rx", "tx"}
FreshQueue == [ready |-> FALSE, posted |-> 0, last |-> 0, used |-> 0, seen |-> 0]
IdleThread == [pc |-> "idle", pkt |-> 0, flush |-> FALSE, gen |-> 0]
NetPcs  == {"idle", "empty", "take", "push", "raise", "request", "append", "enter", "front",
            "pop", "leave", "txTake", "txInput", "txPush", "txRaise", "txRequest"}

NetTypeOK ==
  /\ ring \in [Queues -> [ready : BOOLEAN, posted : Nat, last : Nat, used : Nat, seen : Nat]]
  /\ backlog \in Seq(1..Packets) /\ active \in BOOLEAN
  /\ thr \in [{"V", "D"} -> [pc : NetPcs, pkt : 0..Packets, flush : BOOLEAN,
                             gen : 0..MaxResets]]
  /\ slirpMu \in {"none", "S", "V"} /\ sent \in 0..Packets
  /\ intr \in [status : BOOLEAN, request : BOOLEAN]
  /\ driver \in [kick : BOOLEAN, handler : {"idle", "ack", "poll", "enable"}, status : BOOLEAN,
                 noInt : BOOLEAN, total : Nat, sends : Nat]
  /\ resets \in 0..MaxResets
  /\ past \in [used : Seq(1..Packets), lost : SUBSET (1..Packets), refused : BOOLEAN, stale : BOOLEAN]

NetInit ==
  /\ ring = [q \in Queues |-> FreshQueue]
  /\ backlog = <<>> /\ active = FALSE
  /\ thr = [t \in {"V", "D"} |-> IdleThread]
  /\ slirpMu = "none" /\ sent = 0
  /\ intr = [status |-> FALSE, request |-> FALSE]
  /\ driver = [kick |-> FALSE, handler |-> "idle", status |-> FALSE, noInt |-> FALSE,
               total |-> 0, sends |-> 0]
  /\ resets = 0
  /\ past = [used |-> <<>>, lost |-> {}, refused |-> FALSE, stale |-> FALSE]

-----------------------------------------------------------------------------
\* The receive path, for either thread

To(t, pc) == thr' = [thr EXCEPT ![t].pc = pc]
At(t, pc) == thr[t].pc = pc

\* deliver_rx_packet: a packet goes to the ring only if none waits before it.
deliver_rx_packet(t) ==
  /\ At(t, "empty") /\ To(t, IF backlog = <<>> THEN "take" ELSE "append")
  /\ UNCHANGED <<ring, backlog, active, slirpMu, sent, intr, driver, resets, past>>

\* What deliver_rx_packet_now's result leads to.
AfterTrue(t)  == IF thr[t].flush THEN "pop" ELSE "enter"
AfterFalse(t) == IF thr[t].flush THEN "leave" ELSE "append"
Lose(t) == past' = [past EXCEPT !.lost = @ \cup {thr[t].pkt}]

\* deliver_rx_packet_now, first locked section: the next available buffer.
TakeBuffer(t) ==
  /\ At(t, "take")
  /\ LET q == ring["rx"]
         none == ~q.ready \/ q.last = q.posted
         bad  == driver.total - (q.posted - q.last) + 1 \in BadBuffers
     IN  \/ /\ thr[t].pkt \in Jumbo /\ To(t, AfterTrue(t)) /\ Lose(t) /\ UNCHANGED ring
         \/ /\ thr[t].pkt \notin Jumbo /\ none /\ To(t, AfterFalse(t)) /\ UNCHANGED <<ring, past>>
         \/ /\ thr[t].pkt \notin Jumbo /\ ~none
            /\ ring' = [ring EXCEPT !["rx"].last = @ + 1]
            /\ thr' = [thr EXCEPT ![t].pc = IF bad THEN AfterTrue(t) ELSE "push", ![t].gen = resets]
            /\ IF bad THEN Lose(t) ELSE UNCHANGED past
  /\ UNCHANGED <<backlog, active, slirpMu, sent, intr, driver, resets>>

\* Its last locked section: the used element, unless the queue was taken away.
PushUsed(t) ==
  /\ At(t, "push")
  /\ IF ring["rx"].ready
     THEN /\ ring' = [ring EXCEPT !["rx"].used = @ + 1]
          /\ past' = [past EXCEPT !.used = Append(@, thr[t].pkt),
                                  !.stale = @ \/ thr[t].gen # resets]
          /\ To(t, "raise")
     ELSE Lose(t) /\ To(t, AfterTrue(t)) /\ UNCHANGED ring
  /\ UNCHANGED <<backlog, active, slirpMu, sent, intr, driver, resets>>

\* raise_used_buffer_irq: the status bit under the lock, the request after it.
raise_used_buffer_irq(t, from, request, skip) ==
  LET q == IF from = "raise" THEN "rx" ELSE "tx"
  IN  /\ At(t, from)
      /\ IF ring[q].ready /\ ~(q = "rx" /\ driver.noInt)
         THEN intr' = [intr EXCEPT !.status = TRUE] /\ To(t, request)
         ELSE UNCHANGED intr /\ To(t, skip)
      /\ UNCHANGED <<ring, backlog, active, slirpMu, sent, driver, resets, past>>
request_irq(t, from, next) ==
  /\ At(t, from) /\ intr' = [intr EXCEPT !.request = TRUE] /\ To(t, next)
  /\ UNCHANGED <<ring, backlog, active, slirpMu, sent, driver, resets, past>>

\* deliver_rx_packet, when the packet must wait.
AppendBacklog(t) ==
  /\ At(t, "append")
  /\ IF Len(backlog) < kRxBacklogLimit
     THEN backlog' = Append(backlog, thr[t].pkt) /\ UNCHANGED past
     ELSE Lose(t) /\ UNCHANGED backlog
  /\ To(t, "enter")
  /\ UNCHANGED <<ring, active, slirpMu, sent, intr, driver, resets>>

\* flush_rx_backlog returns to deliver_rx_packet's or write_reg's end.
Return(t) == thr' = [thr EXCEPT ![t] = IdleThread]

\* Plausible bug: two threads may flush at once.
EnterFlush_Both(t) ==
  /\ At(t, "enter") /\ active' = TRUE
  /\ thr' = [thr EXCEPT ![t].pc = "front", ![t].flush = TRUE]
  /\ UNCHANGED <<ring, backlog, slirpMu, sent, intr, driver, resets, past>>

EnterFlush(t) ==
  /\ At(t, "enter")
  /\ IF active
     THEN /\ Return(t) /\ UNCHANGED active
          /\ past' = [past EXCEPT !.refused = @ \/ t = "V"]
     ELSE /\ active' = TRUE /\ UNCHANGED past
          /\ thr' = [thr EXCEPT ![t].pc = "front", ![t].flush = TRUE]
  /\ UNCHANGED <<ring, backlog, slirpMu, sent, intr, driver, resets>>

FlushFront(t) ==
  /\ At(t, "front")
  /\ IF backlog = <<>>
     THEN active' = FALSE /\ Return(t)
     ELSE thr' = [thr EXCEPT ![t].pc = "take", ![t].pkt = Head(backlog)] /\ UNCHANGED active
  /\ UNCHANGED <<ring, backlog, slirpMu, sent, intr, driver, resets, past>>
FlushPop(t) ==
  /\ At(t, "pop") /\ To(t, "front")
  /\ backlog' = IF backlog = <<>> THEN backlog ELSE Tail(backlog)
  /\ UNCHANGED <<ring, active, slirpMu, sent, intr, driver, resets, past>>
FlushLeave(t) ==
  /\ At(t, "leave") /\ active' = FALSE /\ Return(t)
  /\ UNCHANGED <<ring, backlog, slirpMu, sent, intr, driver, resets, past>>

-----------------------------------------------------------------------------
\* libslirp: the poll thread and a guest packet enter it under Slirp::mu_ and
\* it sends any number of packets (on_send_packet) before it is left.

PollLock == slirpMu = "none" /\ slirpMu' = "S"
            /\ UNCHANGED <<ring, backlog, active, thr, sent, intr, driver, resets, past>>
PollUnlock == slirpMu = "S" /\ At("D", "idle") /\ slirpMu' = "none"
            /\ UNCHANGED <<ring, backlog, active, thr, sent, intr, driver, resets, past>>

on_send_packet ==
  /\ slirpMu # "none" /\ At("D", "idle") /\ sent < Packets
  /\ sent' = sent + 1
  /\ thr' = [thr EXCEPT !["D"] = [IdleThread EXCEPT !.pc = "empty", !.pkt = sent + 1]]
  /\ UNCHANGED <<ring, backlog, active, slirpMu, intr, driver, resets, past>>

-----------------------------------------------------------------------------
\* process_tx_queue: one chain at a time, handed to libslirp between two locks

TxTake ==
  /\ At("V", "txTake")
  /\ LET q == ring["tx"]
     IN  CASE ~q.ready -> Return("V") /\ UNCHANGED ring
           [] q.ready /\ q.last = q.posted -> To("V", IF thr["V"].flush THEN "txRaise" ELSE "idle")
                                              /\ UNCHANGED ring
           [] OTHER -> ring' = [ring EXCEPT !["tx"].last = @ + 1] /\ To("V", "txInput")
  /\ UNCHANGED <<backlog, active, slirpMu, sent, intr, driver, resets, past>>

\* input_packet.
TxLock == /\ At("V", "txInput") /\ slirpMu = "none" /\ slirpMu' = "V"
          /\ UNCHANGED <<ring, backlog, active, thr, sent, intr, driver, resets, past>>
TxUnlock == /\ At("V", "txInput") /\ slirpMu = "V" /\ At("D", "idle")
            /\ slirpMu' = "none" /\ To("V", "txPush")
            /\ UNCHANGED <<ring, backlog, active, sent, intr, driver, resets, past>>

\* Here `flush' is the local `processed'.
TxPush ==
  /\ At("V", "txPush")
  /\ ring' = IF ring["tx"].ready THEN [ring EXCEPT !["tx"].used = @ + 1] ELSE ring
  /\ thr' = [thr EXCEPT !["V"].pc = "txTake", !["V"].flush = @ \/ ring["tx"].ready]
  /\ UNCHANGED <<backlog, active, slirpMu, sent, intr, driver, resets, past>>

TxRaise == raise_used_buffer_irq("V", "txRaise", "txRequest", "idle")
TxRequest == /\ At("V", "txRequest") /\ intr' = [intr EXCEPT !.request = TRUE] /\ Return("V")
             /\ UNCHANGED <<ring, backlog, active, slirpMu, sent, driver, resets, past>>

-----------------------------------------------------------------------------
\* Register writes; V handles one at a time

VIdle == At("V", "idle")

\* QueueReady of both queues, then DRIVER_OK.
WriteQueueReady ==
  /\ VIdle /\ ~ring["rx"].ready
  /\ ring' = [q \in Queues |-> [ring[q] EXCEPT !.ready = TRUE]]
  /\ UNCHANGED <<backlog, active, thr, slirpMu, sent, intr, driver, resets, past>>

\* QueueNotify 0 and 1.
NotifyRx == /\ VIdle /\ driver.kick
            /\ driver' = [driver EXCEPT !.kick = FALSE] /\ To("V", "enter")
            /\ UNCHANGED <<ring, backlog, active, slirpMu, sent, intr, resets, past>>
NotifyTx == /\ VIdle /\ ring["tx"].ready /\ driver.sends < MaxSends
            /\ driver' = [driver EXCEPT !.sends = @ + 1]
            /\ ring' = [ring EXCEPT !["tx"].posted = @ + 1]
            /\ thr' = [thr EXCEPT !["V"] = [IdleThread EXCEPT !.pc = "txTake"]]
            /\ UNCHANGED <<backlog, active, slirpMu, sent, intr, resets, past>>

\* Status := 0, and Status := FAILED, which only takes the queues away.  The
\* backlog and a packet between two locks survive both.
update_status_locked ==
  /\ VIdle /\ resets < MaxResets /\ ring["rx"].ready /\ driver.handler = "idle"
  /\ \/ /\ ring' = [q \in Queues |-> FreshQueue]
        /\ intr' = [intr EXCEPT !.status = FALSE]
     \/ ring' = [q \in Queues |-> [ring[q] EXCEPT !.ready = FALSE]] /\ UNCHANGED intr
  /\ driver' = [driver EXCEPT !.kick = FALSE]
  /\ resets' = resets + 1
  /\ UNCHANGED <<backlog, active, thr, slirpMu, sent, past>>

-----------------------------------------------------------------------------
\* The guest driver

Post ==
  /\ ring["rx"].ready /\ driver.total < Buffers
  /\ ring' = [ring EXCEPT !["rx"].posted = @ + 1]
  /\ driver' = [driver EXCEPT !.kick = TRUE, !.total = @ + 1]
  /\ UNCHANGED <<backlog, active, thr, slirpMu, sent, intr, resets, past>>

\* vm_interrupt: read the status, acknowledge it (InterruptAck), poll the ring
\* with NO_INTERRUPT set, clear it and look once more.
TakeNetIrq == /\ VIdle /\ intr.request /\ driver.handler = "idle" /\ ring["rx"].ready
           /\ intr' = [intr EXCEPT !.request = FALSE]
           /\ driver' = [driver EXCEPT !.handler = "ack", !.status = intr.status]
           /\ UNCHANGED <<ring, backlog, active, thr, slirpMu, sent, resets, past>>
AckIrq == /\ VIdle /\ driver.handler = "ack"
          /\ intr' = [intr EXCEPT !.status = @ /\ ~driver.status]
          /\ driver' = [driver EXCEPT !.handler = IF driver.status THEN "poll" ELSE "idle",
                                      !.noInt = driver.status]
          /\ UNCHANGED <<ring, backlog, active, thr, slirpMu, sent, resets, past>>
PollRing == /\ driver.handler = "poll"
            /\ ring' = [q \in Queues |-> [ring[q] EXCEPT !.seen = ring[q].used]]
            /\ driver' = [driver EXCEPT !.handler = "enable", !.noInt = FALSE]
            /\ UNCHANGED <<backlog, active, thr, slirpMu, sent, intr, resets, past>>
Recheck == /\ driver.handler = "enable"
           /\ LET more == ring["rx"].used # ring["rx"].seen
              IN  driver' = [driver EXCEPT !.handler = IF more THEN "poll" ELSE "idle", !.noInt = more]
           /\ UNCHANGED <<ring, backlog, active, thr, slirpMu, sent, intr, resets, past>>

NetNext ==
  \/ \E t \in {"V", "D"} :
       \/ deliver_rx_packet(t) \/ TakeBuffer(t) \/ PushUsed(t) \/ AppendBacklog(t)
       \/ raise_used_buffer_irq(t, "raise", "request", AfterTrue(t))
       \/ request_irq(t, "request", AfterTrue(t))
       \/ EnterFlush(t) \/ FlushFront(t) \/ FlushPop(t) \/ FlushLeave(t)
  \/ PollLock \/ PollUnlock \/ on_send_packet
  \/ TxTake \/ TxLock \/ TxUnlock \/ TxPush \/ TxRaise \/ TxRequest
  \/ WriteQueueReady \/ NotifyRx \/ NotifyTx \/ update_status_locked
  \/ Post \/ TakeNetIrq \/ AckIrq \/ PollRing \/ Recheck

NetSpec == NetInit /\ [][NetNext]_netVars

-----------------------------------------------------------------------------
\* Packets reach the used ring in the order libslirp sent them and at most
\* once, although two threads move them and no lock is held across a delivery.
RxInOrder == \A i, j \in DOMAIN past.used : i < j => past.used[i] < past.used[j]

\* A packet libslirp sent is in the used ring, in the backlog, in a thread's
\* hands, or was dropped for a reason the code gives (too long, backlog full,
\* unusable buffer, queue taken away): concurrent flushes drop none.
NoPacketVanishes ==
  \A p \in 1..sent :
    \/ \E i \in DOMAIN past.used : past.used[i] = p
    \/ \E i \in DOMAIN backlog : backlog[i] = p
    \/ p \in past.lost
    \/ thr["D"].pkt = p /\ thr["D"].pc \in {"empty", "take", "push", "append"}

\* The device never returns a buffer the driver did not give it, unless a
\* reset fell between the two locked sections of one delivery (history stale).
UsedWasAvailable == ~past.stale => \A q \in Queues : ring[q].used <= ring[q].last

\* While a used buffer is unseen and the driver waits with interrupts on, one
\* is on its way: the request with its status bit, or a thread about to raise.
NoLostRxInterrupt ==
  /\ ring["rx"].ready /\ ring["rx"].used > ring["rx"].seen
  /\ driver.handler = "idle" /\ ~driver.noInt /\ resets = 0
  => \/ intr.request /\ intr.status
     \/ \E t \in {"V", "D"} : thr[t].pc \in {"raise", "request", "txRaise", "txRequest"}

\* Held packets wait only for buffers, as long as no kick has found the other
\* thread's flush still marked active: with both threads out of the device and no
\* kick owed, a backlog means that no buffer is available.  flush_rx_backlog drops
\* such a kick (backend.cc:2085; history refused), and when the flush has already
\* found no buffer the packets wait beside the buffers the kick announced, until
\* the next packet or kick, against the comment at 1900-1902.
Quiet == /\ \A t \in {"V", "D"} : At(t, "idle")
         /\ ~driver.kick /\ resets = 0
HeldForBuffers ==
  Quiet /\ backlog # <<>> /\ ~past.refused => ring["rx"].last = ring["rx"].posted

\* Packets from Slirp reach the guest at most once, in order, in buffers it
\* offered and with an interrupt; they are dropped only for the reasons the code
\* gives, and wait while there is no buffer or after a kick that was dropped.
WhpNetSafe ==
  /\ NetTypeOK /\ RxInOrder /\ NoPacketVanishes
  /\ UsedWasAvailable /\ NoLostRxInterrupt /\ HeldForBuffers
=============================================================================
