------------------------------ MODULE WhpUart ------------------------------
(***************************************************************************)
(* The 16550 of the WHP backend (native/whp/devices/uart.cc) with the host *)
(* loop that feeds it (deliver_uart_input of native/whp/backend.cc).  Each *)
(* register access and each enqueue_rx is one step under the UART's mutex; *)
(* the guest's interrupt handler reads IIR until nothing is pending.       *)
(*                                                                         *)
(* The receive capacity (4096), the FIFO (16), the reply to ESC[6n and the *)
(* halt marker are scaled down; THRE is set again by every transmit path,  *)
(* so it is always set here, and the divisor latch changes nothing.        *)
(***************************************************************************)
EXTENDS Naturals, Sequences, SequencesExt

CONSTANTS kRxCapacity, kFifoSize,
          HostBytes,   \* length of the host's input 1..HostBytes
          MaxTx, MaxUartWrites

ASSUME UartAssumption == {kRxCapacity, kFifoSize, HostBytes, MaxTx, MaxUartWrites} \subseteq Nat \ {0}

Query  == <<"esc", "6n">>         \* the cursor position query
Reply  == <<101, 102>>            \* cursor_position_report()
Marker == <<"h", "h", "a">>       \* "reboot: System halted"
TxBytes == {"esc", "6n", "x"}
Enables == {"rdi", "thri", "rlsi", "msi"}

VARIABLES u,        \* registers and receive queues
          irq,      \* IRQ4 was raised and not taken
          handler,  \* the guest is in its interrupt handler
          query,    \* terminal_query_, as a prefix of Query
          match,    \* halted_match_
          seen,     \* halted_seen_
          host,     \* bytes of the host's input accepted so far
          accepted, \* history: bytes accepted since RX was last cleared
          got,      \* history: of those, bytes the guest read
          txTail,   \* history: the last bytes emitted
          shown,    \* history: the marker was emitted
          disturbed,\* history: a FIFO switch or a break hit queued data
          txs, uwrites

uartVars == <<u, irq, handler, query, match, seen, host, accepted, got, txTail, shown,
              disturbed, txs, uwrites>>
txVars == <<query, match, seen, txTail, shown, txs>>

UartTypeOK ==
  /\ u \in [ier : SUBSET Enables, fifoOn : BOOLEAN, trigger : 1..kFifoSize, dr : BOOLEAN,
            oe : BOOLEAN, bi : BOOLEAN, rbr : Nat, fifo : Seq(Nat), staging : Seq(Nat),
            thrIp : BOOLEAN, timeoutIp : BOOLEAN, loop : BOOLEAN, delta : BOOLEAN,
            iir : {"none", "line", "timeout", "data", "thr", "modem"}]
  /\ Len(u.fifo) <= kFifoSize /\ Len(u.staging) <= kRxCapacity
  /\ {irq, handler, seen, shown, disturbed} \subseteq BOOLEAN
  /\ query \in {<<>>, <<"esc">>} /\ match \in 0..Len(Marker)
  /\ host \in 0..HostBytes /\ txs \in 0..2 * MaxTx /\ uwrites \in 0..MaxUartWrites

UartInit ==
  /\ u = [ier |-> {}, fifoOn |-> FALSE, trigger |-> 1, dr |-> FALSE, oe |-> FALSE, bi |-> FALSE,
          rbr |-> 0, fifo |-> <<>>, staging |-> <<>>, thrIp |-> FALSE, timeoutIp |-> FALSE,
          loop |-> FALSE, delta |-> FALSE, iir |-> "none"]
  /\ irq = FALSE /\ handler = FALSE /\ query = <<>> /\ match = 0 /\ seen = FALSE
  /\ host = 0 /\ accepted = <<>> /\ got = <<>> /\ txTail = <<>> /\ shown = FALSE
  /\ disturbed = FALSE /\ txs = 0 /\ uwrites = 0

-----------------------------------------------------------------------------
\* What update_interrupt_locked finds, in its order of priority.
Cause(r) ==
  CASE "rlsi" \in r.ier /\ (r.oe \/ r.bi) -> "line"
    [] "rdi" \in r.ier /\ r.timeoutIp -> "timeout"
    [] /\ "rdi" \in r.ier
       /\ IF r.fifoOn THEN r.fifo # <<>> /\ Len(r.fifo) >= r.trigger ELSE r.dr -> "data"
    [] "thri" \in r.ier /\ r.thrIp -> "thr"
    [] "msi" \in r.ier /\ r.delta -> "modem"
    [] OTHER -> "none"

\* IRQ4 is raised by every update that finds a cause.
update_interrupt_locked(r) ==
  /\ u' = [r EXCEPT !.iir = Cause(r)]
  /\ irq' = (irq \/ Cause(r) # "none")

\* Plausible bug: the staged bytes go in front of the FIFO's.
drain_rx_staging_locked_Swap(r) ==
  IF r.fifoOn
  THEN [r EXCEPT !.fifo = r.staging \o @, !.staging = <<>>,
                 !.dr = TRUE, !.timeoutIp = FALSE]
  ELSE r

drain_rx_staging_locked(r) ==
  IF r.fifoOn
  THEN LET free == kFifoSize - Len(r.fifo)
           n    == IF Len(r.staging) < free THEN Len(r.staging) ELSE free
           f    == r.fifo \o SubSeq(r.staging, 1, n)
       IN  [r EXCEPT !.fifo = f, !.staging = SubSeq(@, n + 1, Len(@)),
                     !.dr = f # <<>>, !.timeoutIp = f # <<>> /\ Len(f) < r.trigger]
  ELSE IF ~r.dr /\ r.staging # <<>>
       THEN [r EXCEPT !.rbr = Head(r.staging), !.staging = Tail(@), !.dr = TRUE,
                      !.timeoutIp = FALSE]
       ELSE [r EXCEPT !.timeoutIp = FALSE]

RxQueued(r) == Len(r.staging) + (IF r.fifoOn THEN Len(r.fifo) ELSE IF r.dr THEN 1 ELSE 0)

\* enqueue_rx_locked up to its update: how many bytes fit, overrun otherwise.
Fits(r, bytes) == LET room == IF RxQueued(r) < kRxCapacity THEN kRxCapacity - RxQueued(r) ELSE 0
                  IN  IF Len(bytes) < room THEN Len(bytes) ELSE room
Enqueued(r, bytes) ==
  LET n == Fits(r, bytes)
  IN  drain_rx_staging_locked([r EXCEPT !.staging = @ \o SubSeq(bytes, 1, n),
                                        !.oe = @ \/ n < Len(bytes)])

-----------------------------------------------------------------------------

\* Host: deliver_uart_input retries the bytes that were not accepted.
HostEnqueue ==
  \E n \in 1..2 :
    LET bytes == [i \in 1..n |-> host + i]
        k     == Fits(u, bytes)
    IN  /\ host + n <= HostBytes
        /\ host' = host + k
        /\ accepted' = accepted \o SubSeq(bytes, 1, k)
        /\ update_interrupt_locked(Enqueued(u, bytes))
        /\ UNCHANGED <<handler, got, disturbed, uwrites, txVars>>

\* Guest register reads
ReadRbr ==
  LET val == IF u.fifoOn THEN (IF u.fifo = <<>> THEN <<>> ELSE <<Head(u.fifo)>>)
             ELSE IF u.dr THEN <<u.rbr>> ELSE <<>>
      r   == IF u.fifoOn
             THEN [u EXCEPT !.fifo = IF @ = <<>> THEN @ ELSE Tail(@), !.timeoutIp = FALSE]
             ELSE [u EXCEPT !.dr = FALSE, !.timeoutIp = FALSE]
  IN  /\ val # <<>> \/ u.dr
      /\ got' = got \o val
      /\ update_interrupt_locked(drain_rx_staging_locked(r))
      /\ UNCHANGED <<handler, host, accepted, disturbed, uwrites, txVars>>

ReadIir ==
  /\ handler
  /\ IF u.iir = "thr" THEN update_interrupt_locked([u EXCEPT !.thrIp = FALSE])
                      ELSE UNCHANGED <<u, irq>>
  /\ handler' = (u.iir # "none")
  /\ UNCHANGED <<host, accepted, got, disturbed, uwrites, txVars>>

ReadLsr == /\ u.oe \/ u.bi
           /\ update_interrupt_locked([u EXCEPT !.oe = FALSE, !.bi = FALSE])
           /\ UNCHANGED <<handler, host, accepted, got, disturbed, uwrites, txVars>>

ReadMsr == /\ u.delta
           /\ update_interrupt_locked([u EXCEPT !.delta = FALSE])
           /\ UNCHANGED <<handler, host, accepted, got, disturbed, uwrites, txVars>>

TakeIrq == /\ irq /\ ~handler /\ irq' = FALSE /\ handler' = TRUE
           /\ UNCHANGED <<u, host, accepted, got, disturbed, uwrites, txVars>>

-----------------------------------------------------------------------------
\* Transmission

\* Falls back one position at a time until the byte fits.
AdvanceMatch(m, b) ==
  LET at == {k \in 0..m : b = Marker[k + 1]}
  IN  IF at = {} THEN 0 ELSE (CHOOSE k \in at : \A j \in at : j <= k) + 1

Match(m, b) == IF m = Len(Marker) THEN m ELSE AdvanceMatch(m, b)

\* emit_tx_locked and track_console_markers, for one or two bytes.
Emit(bytes) ==
  LET one  == Match(match, bytes[1])
      m2   == IF Len(bytes) = 1 THEN one ELSE Match(one, bytes[2])
      tail == txTail \o bytes
      last == SubSeq(tail, IF Len(tail) > 4 THEN Len(tail) - 3 ELSE 1, Len(tail))
  IN  /\ match' = m2 /\ seen' = (m2 = Len(Marker))
      /\ txTail' = last
      /\ shown' = (shown \/ \E i \in 1..Len(last) - 2 : SubSeq(last, i, i + 2) = Marker)

\* The paravirtual console port (0x600) writes straight to the console.
emit_bytes ==
  \E b \in {"h", "a", "x"} :
    /\ txs < 2 * MaxTx /\ txs' = txs + 1 /\ Emit(<<b>>)
    /\ UNCHANGED <<u, irq, handler, query, host, accepted, got, disturbed, uwrites>>

\* Writing THR: loopback, the cursor query, or output.
handle_tx_byte ==
  \E b \in TxBytes :
    /\ txs < MaxTx /\ txs' = txs + 1
    /\ LET q == Append(query, b)
           done == [u EXCEPT !.thrIp = TRUE]
       IN \/ /\ u.loop
             /\ update_interrupt_locked([Enqueued(u, <<100>>) EXCEPT !.thrIp = TRUE])
             /\ accepted' = accepted \o SubSeq(<<100>>, 1, Fits(u, <<100>>))
             /\ UNCHANGED <<query, match, seen, txTail, shown>>
          \/ /\ ~u.loop /\ query = <<>> /\ b # "esc"
             /\ Emit(<<b>>) /\ update_interrupt_locked(done)
             /\ UNCHANGED <<query, accepted>>
          \* No query; or one a console is to answer (NODE_VMM_WHP_DSR=passthrough).
          \/ /\ ~u.loop /\ (query # <<>> \/ b = "esc") /\ (q = Query \/ ~IsPrefix(q, Query))
             /\ Emit(q) /\ query' = <<>> /\ update_interrupt_locked(done)
             /\ UNCHANGED accepted
          \/ /\ ~u.loop /\ IsPrefix(q, Query) /\ q # Query
             /\ query' = q /\ update_interrupt_locked(done)
             /\ UNCHANGED <<match, seen, txTail, shown, accepted>>
          \/ /\ ~u.loop /\ q = Query
             /\ query' = <<>>
             /\ accepted' = accepted \o SubSeq(Reply, 1, Fits(u, Reply))
             /\ update_interrupt_locked([Enqueued(u, Reply) EXCEPT !.thrIp = TRUE])
             /\ UNCHANGED <<match, seen, txTail, shown>>
    /\ UNCHANGED <<handler, host, got, disturbed, uwrites>>

-----------------------------------------------------------------------------
\* Guest register writes

UWrite == uwrites < MaxUartWrites /\ uwrites' = uwrites + 1

\* A change of the THRI bit sets thr_ipending from THRE.
WriteIer ==
  /\ UWrite
  /\ \E e \in {{}, {"rdi"}, {"rdi", "thri"}, Enables} :
       update_interrupt_locked([u EXCEPT !.ier = e,
         !.thrIp = IF ("thri" \in e) # ("thri" \in u.ier) THEN "thri" \in e ELSE @])
  /\ UNCHANGED <<handler, host, accepted, got, disturbed, txVars>>

Cleared(r) == [r EXCEPT !.fifo = <<>>, !.staging = <<>>, !.rbr = 0, !.timeoutIp = FALSE,
                        !.dr = FALSE, !.oe = FALSE, !.bi = FALSE]

WriteFcr ==
  /\ UWrite
  /\ \E on, clearRx, clearTx \in BOOLEAN, trig \in 1..kFifoSize :
       LET r  == [u EXCEPT !.fifoOn = on, !.trigger = trig]
           r2 == IF clearRx THEN Cleared(r) ELSE drain_rx_staging_locked(r)
       IN  /\ update_interrupt_locked([r2 EXCEPT !.thrIp = @ \/ clearTx])
           /\ query' = IF clearTx THEN <<>> ELSE query
           /\ IF clearRx THEN accepted' = <<>> /\ got' = <<>> /\ disturbed' = FALSE
              ELSE /\ disturbed' = (disturbed \/ (on # u.fifoOn /\ (u.dr \/ u.fifo # <<>>)))
                   /\ UNCHANGED <<accepted, got>>
  /\ UNCHANGED <<handler, host, match, seen, txTail, shown, txs>>

\* The break bit of LCR goes up.
WriteLcrBreak ==
  /\ UWrite
  /\ disturbed' = (disturbed \/ u.dr)
  /\ update_interrupt_locked([u EXCEPT !.bi = TRUE, !.dr = TRUE, !.rbr = 0])
  /\ accepted' = IF u.fifoOn THEN accepted ELSE Append(accepted, 0)
  /\ UNCHANGED <<handler, host, got, txVars>>

\* Loopback is switched, and the modem status bits with it.
WriteMcr ==
  /\ UWrite
  /\ update_interrupt_locked([u EXCEPT !.loop = ~@, !.delta = TRUE])
  /\ UNCHANGED <<handler, host, accepted, got, disturbed, txVars>>

UartNext ==
  \/ HostEnqueue \/ TakeIrq \/ ReadRbr \/ ReadIir \/ ReadLsr \/ ReadMsr
  \/ handle_tx_byte \/ WriteIer \/ WriteFcr \/ WriteLcrBreak \/ WriteMcr

\* The transmit side with the port beside THR: it shares only the marker's state
\* and the query with the rest.
TxNext == handle_tx_byte \/ emit_bytes \/ WriteFcr \/ WriteMcr

UartSpec == UartInit /\ [][UartNext \/ TxNext]_uartVars

-----------------------------------------------------------------------------
\* What the guest read, then what is still queued, is exactly what the UART
\* accepted from the host, from loopback and as query replies, in that order,
\* since RX was last cleared: no byte is lost, doubled or overtaken at a full
\* FIFO, a full queue or a retry of the host loop.
InOrder ==
  ~disturbed =>
    got \o (IF u.fifoOn THEN u.fifo ELSE IF u.dr THEN <<u.rbr>> ELSE <<>>) \o u.staging = accepted

\* No cause waits unannounced: whenever a condition is up, IIR shows it and
\* IRQ4 is on its way or the handler, which reads IIR to the end, is running.
CauseSignalled ==
  Cause(u) # "none" => u.iir = Cause(u) /\ (irq \/ handler)

\* The halt marker is never missed, also when it begins inside a false start:
\* the VM would otherwise not end.
MarkerSeen == shown => seen

\* Bytes for the guest keep their order through FIFO and staging queue, every
\* cause is signalled, and no marker of the kernel is overlooked.
WhpUartExact == UartTypeOK /\ InOrder /\ CauseSignalled /\ MarkerSeen
=============================================================================
