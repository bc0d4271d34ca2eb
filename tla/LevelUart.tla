------------------------------ MODULE LevelUart ------------------------------
(***************************************************************************)
(* The serial ports of the KVM backend (class Uart, a 16550 on the edge-   *)
(* triggered COM1 line) and of the HVF backend (class Pl011Uart on a       *)
(* level-triggered SPI), native/kvm/backend.cc and native/hvf/backend.cc.  *)
(* Both hold their registers under one mutex that the input thread and the *)
(* vCPU threads share, so that a call of either is one step; both answer   *)
(* the guest's cursor query ESC [ 6 n themselves, ahead of what the user   *)
(* typed.  A host byte is its number, the query is two tokens long, and so *)
(* is its answer; which of the two ports it is, is chosen in SerialInit.   *)
(***************************************************************************)
EXTENDS Integers, Sequences, FiniteSets, SequencesExt

CONSTANTS
    RxLimit,        \* bytes the receive queue takes (4096 in the code)
    Typed,          \* bytes the user types, a bound
    MaxSent,        \* bytes the guest transmits, a bound
    MaxMasks,       \* writes of the guest to the mask register, a bound
    ConsoleLimit    \* bytes of output kept for the caller

ASSUME SerialAssumption ==
    /\ RxLimit \in Nat \ {0} /\ Typed \in Nat /\ MaxSent \in Nat
    /\ MaxMasks \in Nat /\ ConsoleLimit \in Nat

VARIABLES
    port,           \* the registers and the queues of the device
    edge,           \* the interrupt controller's latch of a rising COM1 line
    serialIsr,         \* the guest's interrupt handler: "out" or "in"
    serial          \* what was typed, accepted, read, sent and written out

serialVars == <<port, edge, serialIsr, serial>>

Esc == 1
Cpr == 2
SerialQuery == <<Esc, Cpr>>
Response == <<-1, -2>>

SerialInit ==
    /\ port \in [kind : {"kvm", "pl011"}, echo : BOOLEAN, mask : {{}},
                 ris : {{}}, iir : {"none"}, line : {FALSE},
                 rx : {<<>>}, terminal_query : {<<>>}, console : {<<>>}]
    /\ edge = FALSE
    /\ serialIsr = "out"
    /\ serial = [typed |-> 0, accepted |-> <<>>, read |-> <<>>, sent |-> <<>>,
                 out |-> <<>>, answered |-> 0, torn |-> FALSE, masks |-> 0]

-----------------------------------------------------------------------------
(* The interrupt line.                                                     *)

\* Plausible bug: the received-data cause is shown only once no transmit
\* interrupt is enabled.
Uart_update_interrupt_locked_TxFirst(p) ==
    LET cause == IF "tx" \in p.mask THEN "tx"
                 ELSE IF "rx" \in p.mask /\ p.rx # <<>> THEN "rx" ELSE "none"
    IN  [p EXCEPT !.iir = cause, !.line = cause = "rx"]

\* Uart::update_interrupt_locked: received data first, then an empty
\* transmitter, which is always empty.
Uart_update_interrupt_locked(p) ==
    LET cause == IF "rx" \in p.mask /\ p.rx # <<>> THEN "rx"
                 ELSE IF "tx" \in p.mask THEN "tx" ELSE "none"
    IN  [p EXCEPT !.iir = cause, !.line = cause # "none"]

\* Pl011Uart::update_irq_locked: the raw receive status is the queue's.
update_irq_locked(p) ==
    LET ris == IF p.rx # <<>> THEN p.ris \cup {"rx"} ELSE p.ris \ {"rx"}
    IN  [p EXCEPT !.ris = ris, !.line = ris \cap p.mask # {}]

Refresh(p) == IF p.kind = "kvm" THEN Uart_update_interrupt_locked(p)
                                ELSE update_irq_locked(p)

\* KVM_IRQ_LINE on an ISA line latches every change from low to high.
Signal(p) ==
    /\ port' = p
    /\ edge' = (edge \/ (p.kind = "kvm" /\ ~port.line /\ p.line))

-----------------------------------------------------------------------------
(* The host's side.                                                        *)

Room(p) == RxLimit - Len(p.rx)

\* Uart::enqueue_rx: what does not fit is dropped.
enqueue_rx(p, bytes) ==
    [p EXCEPT !.rx = @ \o SubSeq(bytes, 1, Min({Len(bytes), Room(p)}))]
\* Pl011Uart::inject_bytes sets the raw status too.
inject_bytes(p, bytes) ==
    [p EXCEPT !.rx = @ \o SubSeq(bytes, 1, Min({Len(bytes), Room(p)})),
              !.ris = @ \cup {"rx"}]

\* The input thread hands over what one read of the terminal returned.
Inject(n) ==
    LET bytes == [i \in 1..n |-> serial.typed + i]
        kept == SubSeq(bytes, 1, Min({n, Room(port)}))
    IN  /\ serial.typed + n <= Typed
        /\ Signal(Refresh(IF port.kind = "kvm" THEN enqueue_rx(port, bytes)
                                              ELSE inject_bytes(port, bytes)))
        /\ serial' = [serial EXCEPT !.typed = @ + n,
                                    !.accepted = @ \o kept]
        /\ UNCHANGED serialIsr

-----------------------------------------------------------------------------
(* The guest's side.                                                       *)

\* Uart::emit_tx_locked: everything goes to stdout; the first ConsoleLimit
\* bytes are kept for the result (KeepConsole).  out is what write is called with:
\* both ports ignore its result, so a short or failing write loses its bytes.
emit_tx_locked(s, bytes) == [s EXCEPT !.out = @ \o bytes]
\* Pl011Uart::emit_tx_locked, one byte at a time.
Pl011_emit_tx_locked(s, bytes) == [s EXCEPT !.out = @ \o bytes]

WriteOut(s, bytes) ==
    IF port.kind = "kvm" THEN emit_tx_locked(s, bytes) ELSE Pl011_emit_tx_locked(s, bytes)

KeepConsole(p, bytes) ==
    [p EXCEPT !.console =
        @ \o SubSeq(bytes, 1, Min({Len(bytes), ConsoleLimit - Len(@)}))]

\* The answer is pushed to the front from its last byte on, while there is
\* room: its first bytes are the ones a full queue costs.
push_front(rx, bytes) ==
    LET n == Min({Len(bytes), RxLimit - Len(rx)})
    IN  SubSeq(bytes, Len(bytes) - n + 1, Len(bytes)) \o rx

\* The device and the output after a transmitted byte that is not plain: it may
\* belong to a query, which is held back; the complete query is answered, any
\* other sequence is written out.
HandleQuery(c) ==
    LET s == [serial EXCEPT !.sent = Append(@, c)]
        held == Append(port.terminal_query, c)
    IN  IF held = SerialQuery
          THEN [p |-> [port EXCEPT !.terminal_query = <<>>, !.rx = push_front(@, Response)],
                s |-> [s EXCEPT !.answered = @ + 1, !.torn = @ \/ Room(port) < Len(Response)]]
        ELSE IF IsPrefix(held, SerialQuery)
          THEN [p |-> [port EXCEPT !.terminal_query = held], s |-> s]
        ELSE [p |-> KeepConsole([port EXCEPT !.terminal_query = <<>>], held), s |-> WriteOut(s, held)]
Plain(c) ==
    [p |-> KeepConsole(port, <<c>>), s |-> WriteOut([serial EXCEPT !.sent = Append(@, c)], <<c>>)]

kvm_handle_tx_byte(c) ==
    IF port.terminal_query = <<>> /\ c # Esc THEN Plain(c)
    ELSE HandleQuery(c)
\* Pl011Uart looks for queries only when no terminal shows the output.
handle_tx_locked(c) ==
    IF port.echo \/ (port.terminal_query = <<>> /\ c # Esc) THEN Plain(c)
    ELSE HandleQuery(c)

\* The write of the data register: the PL011 also sets its raw transmit status.
Uart_write(c) ==
    /\ port.kind = "kvm"
    /\ Signal(Refresh(kvm_handle_tx_byte(c).p)) /\ serial' = kvm_handle_tx_byte(c).s
Pl011_write_mmio(c) ==
    /\ port.kind = "pl011"
    /\ Signal(Refresh([handle_tx_locked(c).p EXCEPT !.ris = @ \cup {"tx"}]))
    /\ serial' = handle_tx_locked(c).s

Transmit(c) ==
    /\ Len(serial.sent) < MaxSent
    /\ Uart_write(c) \/ Pl011_write_mmio(c)
    /\ UNCHANGED serialIsr

\* A write to IER, or to IMSC.
WriteMask(mask) ==
    /\ serial.masks < MaxMasks
    /\ mask # port.mask
    /\ Signal(Refresh([port EXCEPT !.mask = mask]))
    /\ serial' = [serial EXCEPT !.masks = @ + 1]
    /\ UNCHANGED serialIsr

\* A write to ICR of the PL011 clears the raw status, which update_irq_locked
\* sets again while there is data.
WriteIcr ==
    /\ port.kind = "pl011"
    /\ Signal(Refresh([port EXCEPT !.ris = {}]))
    /\ UNCHANGED <<serialIsr, serial>>

\* A read of the data register takes one byte, when there is one; the PL011's
\* raw status falls with the last.
Uart_read == port.kind = "kvm" /\ Signal(Refresh([port EXCEPT !.rx = Tail(@)]))
Pl011_read_mmio ==
    /\ port.kind = "pl011"
    /\ Signal(Refresh([port EXCEPT !.rx = Tail(@),
                                   !.ris = IF Len(port.rx) = 1 THEN @ \ {"rx"} ELSE @]))
ReadData ==
    /\ port.rx # <<>>
    /\ Uart_read \/ Pl011_read_mmio
    /\ serial' = [serial EXCEPT !.read = Append(@, Head(port.rx))]
    /\ UNCHANGED serialIsr

\* External: the guest takes the interrupt and enters the driver's handler.
TakeInterrupt ==
    /\ serialIsr = "out"
    /\ IF port.kind = "kvm" THEN edge ELSE port.line
    /\ serialIsr' = "in"
    /\ edge' = FALSE
    /\ UNCHANGED <<port, serial>>

\* A read of IIR (of MIS): the driver leaves its handler when it shows no
\* cause.  The read of a transmit cause lowers the COM1 line before the
\* interrupt is computed again, so that the next cause is a new edge.
ReadCause ==
    LET lowered == [port EXCEPT !.line = FALSE]
        pulsed == Uart_update_interrupt_locked(lowered)
    IN  /\ serialIsr = "in"
        /\ IF port.kind = "kvm" /\ port.iir = "tx"
             THEN port' = pulsed /\ edge' = (edge \/ pulsed.line)
             ELSE UNCHANGED <<port, edge>>
        /\ serialIsr' = IF (port.kind = "kvm" /\ port.iir = "none")
                        \/ (port.kind = "pl011" /\ ~port.line)
                     THEN "out" ELSE "in"
        /\ UNCHANGED serial

SerialNext ==
    \/ \E n \in 1..2 : Inject(n)
    \/ \E c \in {Esc, Cpr, 3 + Len(serial.sent)} : Transmit(c)
    \/ \E mask \in SUBSET {"rx", "tx"} : WriteMask(mask)
    \/ WriteIcr
    \/ ReadData
    \/ TakeInterrupt
    \/ ReadCause

SerialSpec == SerialInit /\ [][SerialNext]_serialVars

-----------------------------------------------------------------------------
(* Properties.                                                             *)

SerialTypeOK ==
    /\ port.mask \subseteq {"rx", "tx"} /\ port.ris \subseteq {"rx", "tx"}
    /\ port.iir \in {"none", "rx", "tx"}
    /\ Len(port.rx) <= RxLimit
    /\ Len(port.console) <= ConsoleLimit
    /\ IsStrictPrefix(port.terminal_query, SerialQuery)
    /\ edge \in BOOLEAN /\ serialIsr \in {"out", "in"}

\* The members of s that are in A, in their order.
Only(s, A) ==
    LET at[k \in 0..Len(s)] ==
          IF k = 0 THEN <<>> ELSE IF s[k] \in A THEN Append(at[k-1], s[k]) ELSE at[k-1]
    IN  at[Len(s)]
UserBytes == Nat \ {0}
PlainBytes == Nat \ 0..Cpr

\* What the guest has read of the typed bytes, followed by what the queue
\* still holds of them, is what was accepted, in order, whatever answers to
\* queries were put in front of it.
SerialInOrder ==
    Only(serial.read \o port.rx, UserBytes) = serial.accepted

\* While received bytes wait, their interrupt is enabled and the driver is
\* not in its handler, a request is on its way: a latched edge for KVM, whose
\* line may have been high all the time, a high line for the PL011, even just
\* after ICR cleared the status.
SerialSignalled ==
    port.rx # <<>> /\ "rx" \in port.mask /\ serialIsr = "out"
        => IF port.kind = "kvm" THEN edge ELSE port.line

\* Every byte the guest transmits is written out, held back as the start of a
\* query, or part of a query that was answered; nothing else is swallowed
\* and the order is kept.  The caller gets the first ConsoleLimit bytes.
NothingSwallowed ==
    /\ Len(serial.out) + Len(port.terminal_query)
         + Len(SerialQuery) * serial.answered = Len(serial.sent)
    /\ Only(serial.out, PlainBytes) = Only(serial.sent, PlainBytes)
    /\ port.console = SubSeq(serial.out, 1, Min({Len(serial.out), ConsoleLimit}))

\* As long as the queue had room for every answer, no end of an answer reaches
\* the guest before its beginning.
AnswerWhole ==
    LET all == serial.read \o port.rx
        count(n, b) == Cardinality({i \in 1..n : all[i] = b})
    IN  ~serial.torn =>
            \A n \in 1..Len(all) : count(n, -1) >= count(n, -2)

\* The serial line loses, reorders and invents nothing in either direction, and
\* its level follows its causes.
SerialExact == SerialTypeOK /\ SerialInOrder /\ SerialSignalled /\ NothingSwallowed /\ AnswerWhole
=============================================================================
