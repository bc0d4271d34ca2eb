------------------------------ MODULE WhpInput ------------------------------
(***************************************************************************)
(* Host input of an interactive VM on Windows (native/whp/backend.cc,      *)
(* RunVm): the thread that reads stdin into host_input_queue, the pump     *)
(* thread that moves it to the UART, the console control handler, which    *)
(* puts Ctrl-C in front, and stop_input, which ends both threads.          *)
(*                                                                         *)
(* A condition variable is modelled at its three points: the predicate is  *)
(* evaluated with host_input_mu held, the thread then falls asleep and     *)
(* lets the mutex go in one step, and only a notification that comes       *)
(* afterwards wakes it.  ReadFile, CancelSynchronousIo and the guest that  *)
(* reads the UART are external.  The CR/LF rewriting of a read buffer      *)
(* happens before it is queued and is left out.                            *)
(***************************************************************************)
EXTENDS Naturals, Sequences, FiniteSets

CONSTANTS TypedBytes,            \* bytes the user types, in this order
          ReadChunks,            \* sizes ReadFile may return
          kHostInputQueueLimit,  \* 1 MiB in the code
          kHostInputPumpChunk,   \* 256 in the code
          UartRoom,              \* what the UART accepts before the guest reads
          MaxInterrupts

ASSUME InputAssumption ==
  /\ {TypedBytes, kHostInputQueueLimit, kHostInputPumpChunk, UartRoom, MaxInterrupts} \subseteq Nat
  /\ kHostInputQueueLimit > 0 /\ ReadChunks \subseteq 1..kHostInputQueueLimit

VARIABLES reader, \* input_thread: pc and the bytes read
          pump,   \* input_pump_thread: pc and its chunk
          closer,\* stop_input
          mu,     \* holder of host_input_mu
          inq,    \* host_input_queue; 0 stands for Ctrl-C
          done,   \* input_done
          typed,  \* bytes the user has typed so far
          uart,   \* delivered: everything; room: what it accepts now
          ctrlc,  \* control handler calls left
          cut     \* history: bytes dropped for Ctrl-C, a notification and a cancel that came too early

inVars == <<reader, pump, closer, mu, inq, done, typed, uart, ctrlc, cut>>

Bytes == 0..TypedBytes
InTypeOK ==
  /\ reader \in [pc : {"loop", "call", "read", "put", "drowsy", "asleep", "notify", "ended"}, buf : Seq(Bytes)]
  /\ pump \in [pc : {"put", "drowsy", "asleep", "notify", "deliver", "ended"}, buf : Seq(Bytes)]
  /\ closer \in {"no", "cancel", "joinReader", "notify", "joinPump", "returned"}
  /\ mu \in {"free", "reader", "pump"}
  /\ inq \in Seq(Bytes) /\ Len(inq) <= kHostInputQueueLimit + 1
  /\ done \in BOOLEAN /\ typed \in Bytes
  /\ uart \in [delivered : Seq(Bytes), room : 0..UartRoom]
  /\ ctrlc \in 0..MaxInterrupts
  /\ cut \in [bytes : SUBSET Bytes, missed : BOOLEAN, late : BOOLEAN]

InInit ==
  /\ reader = [pc |-> "loop", buf |-> <<>>] /\ pump = [pc |-> "put", buf |-> <<>>]
  /\ closer = "no" /\ mu = "free" /\ inq = <<>> /\ done = FALSE /\ typed = 0
  /\ uart = [delivered |-> <<>>, room |-> UartRoom]
  /\ ctrlc = MaxInterrupts
  /\ cut = [bytes |-> {}, missed |-> FALSE, late |-> FALSE]

\* notify_all: the sleepers evaluate their predicates again.
Woken(t) == IF t.pc = "asleep" THEN [t EXCEPT !.pc = "put"] ELSE t

-----------------------------------------------------------------------------
\* The reader

ReaderLoop ==
  /\ reader.pc = "loop" /\ reader' = [reader EXCEPT !.pc = IF done THEN "ended" ELSE "call"]
  /\ UNCHANGED <<pump, closer, mu, inq, done, typed, uart, ctrlc, cut>>

\* It has seen input_done unset; only from here on can a cancel reach its ReadFile.
CallsReadFile ==
  /\ reader.pc = "call" /\ reader' = [reader EXCEPT !.pc = "read"]
  /\ UNCHANGED <<pump, closer, mu, inq, done, typed, uart, ctrlc, cut>>

\* ReadFile returns bytes, or fails at the end of a pipe.
ReadFile ==
  /\ reader.pc = "read"
  /\ \/ \E n \in ReadChunks :
          /\ typed + n <= TypedBytes /\ typed' = typed + n
          /\ reader' = [pc |-> "put", buf |-> [i \in 1..n |-> typed + i]]
     \/ reader' = [reader EXCEPT !.pc = "ended"] /\ UNCHANGED typed
  /\ UNCHANGED <<pump, closer, mu, inq, done, uart, ctrlc, cut>>

\* queue_host_input for typed bytes waits until they fit or input is over.
QueueHostInput ==
  /\ reader.pc = "put" /\ mu = "free"
  /\ LET fits == Len(inq) + Len(reader.buf) <= kHostInputQueueLimit
     IN  \/ /\ ~done /\ ~fits
            /\ reader' = [reader EXCEPT !.pc = "drowsy"] /\ mu' = "reader" /\ UNCHANGED inq
         \/ done /\ reader' = [pc |-> "loop", buf |-> <<>>] /\ UNCHANGED <<mu, inq>>
         \/ /\ ~done /\ fits
            /\ inq' = inq \o reader.buf
            /\ reader' = [pc |-> "notify", buf |-> <<>>] /\ UNCHANGED mu
  /\ UNCHANGED <<pump, closer, done, typed, uart, ctrlc, cut>>
ReaderSleeps ==
  /\ reader.pc = "drowsy" /\ reader' = [reader EXCEPT !.pc = "asleep"] /\ mu' = "free"
  /\ UNCHANGED <<pump, closer, inq, done, typed, uart, ctrlc, cut>>
ReaderNotifies ==
  /\ reader.pc = "notify" /\ reader' = [reader EXCEPT !.pc = "loop"] /\ pump' = Woken(pump)
  /\ UNCHANGED <<closer, mu, inq, done, typed, uart, ctrlc, cut>>

\* The console control handler: Ctrl-C goes to the front, the newest bytes make room.
CtrlC ==
  /\ ctrlc > 0 /\ mu = "free" /\ closer # "returned"
  /\ ctrlc' = ctrlc - 1
  /\ LET keep == IF Len(inq) + 1 > kHostInputQueueLimit /\ inq # <<>>
                 THEN kHostInputQueueLimit - 1 ELSE Len(inq)
     IN  /\ inq' = <<0>> \o SubSeq(inq, 1, keep)
         /\ cut' = [cut EXCEPT !.bytes = @ \cup {inq[i] : i \in keep + 1..Len(inq)}]
  /\ reader' = Woken(reader) /\ pump' = Woken(pump)
  /\ UNCHANGED <<closer, mu, done, typed, uart>>

-----------------------------------------------------------------------------
\* The pump

PumpTake ==
  /\ pump.pc = "put" /\ mu = "free"
  /\ LET n == IF Len(inq) < kHostInputPumpChunk THEN Len(inq) ELSE kHostInputPumpChunk
     IN  \/ ~done /\ n = 0 /\ pump' = [pump EXCEPT !.pc = "drowsy"] /\ mu' = "pump" /\ UNCHANGED inq
         \/ done /\ pump' = [pump EXCEPT !.pc = "ended"] /\ UNCHANGED <<mu, inq>>
         \/ /\ ~done /\ n > 0
            /\ pump' = [pc |-> "notify", buf |-> SubSeq(inq, 1, n)]
            /\ inq' = SubSeq(inq, n + 1, Len(inq)) /\ UNCHANGED mu
  /\ UNCHANGED <<reader, closer, done, typed, uart, ctrlc, cut>>
PumpSleeps ==
  /\ pump.pc = "drowsy" /\ pump' = [pump EXCEPT !.pc = "asleep"] /\ mu' = "free"
  /\ UNCHANGED <<reader, closer, inq, done, typed, uart, ctrlc, cut>>

PumpNotifies ==
  /\ pump.pc = "notify" /\ pump' = [pump EXCEPT !.pc = "deliver"] /\ reader' = Woken(reader)
  /\ UNCHANGED <<closer, mu, inq, done, typed, uart, ctrlc, cut>>

\* Plausible bug: a chunk the UART takes in part is sent again from its start.
deliver_uart_input_Restart ==
  /\ pump.pc = "deliver"
  /\ LET n == IF Len(pump.buf) < uart.room THEN Len(pump.buf) ELSE uart.room
     IN  /\ n > 0
         /\ uart' = [delivered |-> uart.delivered \o SubSeq(pump.buf, 1, n), room |-> uart.room - n]
         /\ pump' = IF n = Len(pump.buf) THEN [pc |-> "put", buf |-> <<>>] ELSE pump
  /\ UNCHANGED <<reader, closer, mu, inq, done, typed, ctrlc, cut>>

\* deliver_uart_input: what the UART accepts, again until all of it or the end.
deliver_uart_input ==
  /\ pump.pc = "deliver"
  /\ LET n == IF Len(pump.buf) < uart.room THEN Len(pump.buf) ELSE uart.room
         rest == SubSeq(pump.buf, n + 1, Len(pump.buf))
     IN  IF done \/ pump.buf = <<>>
         THEN pump' = [pc |-> "put", buf |-> <<>>] /\ UNCHANGED uart
         ELSE /\ n > 0 /\ pump' = [pump EXCEPT !.buf = rest]
              /\ uart' = [delivered |-> uart.delivered \o SubSeq(pump.buf, 1, n), room |-> uart.room - n]
  /\ UNCHANGED <<reader, closer, mu, inq, done, typed, ctrlc, cut>>
GuestReads == /\ uart.room < UartRoom /\ uart' = [uart EXCEPT !.room = UartRoom]
              /\ UNCHANGED <<reader, pump, closer, mu, inq, done, typed, ctrlc, cut>>

-----------------------------------------------------------------------------
\* stop_input

StopInputBegins ==
  /\ closer = "no" /\ closer' = "cancel" /\ done' = TRUE
  /\ UNCHANGED <<reader, pump, mu, inq, typed, uart, ctrlc, cut>>
\* Plausible bug: the reader is joined without cancelling its ReadFile.
StopInputCancels_Not ==
  /\ closer = "cancel" /\ closer' = "joinReader"
  /\ UNCHANGED <<reader, pump, mu, inq, done, typed, uart, ctrlc, cut>>

\* CancelIoEx and CancelSynchronousIo end a ReadFile that is under way; one that
\* the reader is about to call blocks all the same.
StopInputCancels ==
  /\ closer = "cancel" /\ closer' = "joinReader"
  /\ reader' = IF reader.pc = "read" THEN [reader EXCEPT !.pc = "ended"] ELSE reader
  /\ cut' = [cut EXCEPT !.late = reader.pc = "call"]
  /\ UNCHANGED <<pump, mu, inq, done, typed, uart, ctrlc>>

StopInputJoinsReader ==
  /\ closer = "joinReader" /\ reader.pc = "ended" /\ closer' = "notify"
  /\ UNCHANGED <<reader, pump, mu, inq, done, typed, uart, ctrlc, cut>>

StopInputNotifies ==
  /\ closer = "notify" /\ closer' = "joinPump"
  /\ pump' = Woken(pump) /\ reader' = Woken(reader)
  /\ cut' = [cut EXCEPT !.missed = pump.pc = "drowsy"]
  /\ UNCHANGED <<mu, inq, done, typed, uart, ctrlc>>
StopInputReturns ==
  /\ closer = "joinPump" /\ pump.pc = "ended" /\ closer' = "returned"
  /\ UNCHANGED <<reader, pump, mu, inq, done, typed, uart, ctrlc, cut>>

ReaderRuns == ReaderLoop \/ CallsReadFile \/ QueueHostInput \/ ReaderSleeps \/ ReaderNotifies
PumpRuns   == PumpTake \/ PumpSleeps \/ PumpNotifies \/ deliver_uart_input
StopRuns   == StopInputCancels \/ StopInputJoinsReader \/ StopInputNotifies \/ StopInputReturns
InNext == \/ ReaderRuns \/ ReadFile \/ CtrlC \/ PumpRuns \/ GuestReads
          \/ StopInputBegins \/ StopRuns

InSpec == InInit /\ [][InNext]_inVars

-----------------------------------------------------------------------------
Queued == {inq[i] : i \in DOMAIN inq} \cup {pump.buf[i] : i \in DOMAIN pump.buf}
          \cup {reader.buf[i] : i \in DOMAIN reader.buf}

\* What is typed reaches the UART in order and once, across a full queue, a
\* UART that accepts a part of a chunk, and Ctrl-C.
TypedInOrder == \A i, j \in DOMAIN uart.delivered :
  i < j /\ uart.delivered[i] # 0 /\ uart.delivered[j] # 0 => uart.delivered[i] < uart.delivered[j]

\* Until input is stopped no typed byte is lost, except the newest ones, which
\* a Ctrl-C drops from a full queue.
NoTypedByteLost ==
  ~done => \A b \in 1..typed : b \in Queued \cup cut.bytes \/ \E i \in DOMAIN uart.delivered : uart.delivered[i] = b

\* Ctrl-C overtakes: no typed byte waits before one in the queue.
CtrlCFirst == \A i, j \in DOMAIN inq : inq[j] = 0 /\ i < j => inq[i] = 0

\* The reader and the pump use RunVm's frame: both have ended when stop_input returns.
InputThreadsEnd == closer = "returned" => reader.pc = "ended" /\ pump.pc = "ended"

\* What is queued is taken and a full queue is refilled, or input is stopped:
\* neither thread sleeps through the other's notification.
InputFlows == []<>(inq = <<>> \/ done) /\ []<>(reader.pc # "asleep" \/ done)

\* stop_input returns unless it is caught in one of three windows: it cancelled
\* between the reader's test of input_done and its ReadFile, which then waits for
\* the user; the reader sleeps on a full queue, since it is joined before the
\* notification; the pump was between its test and its sleep when the
\* notification came.  A ReadFile that the cancel met under way is never waited for.
HangsHere == \/ closer = "joinReader" /\ reader.pc = "read" /\ cut.late
             \/ closer = "joinReader" /\ reader.pc \in {"drowsy", "asleep"}
             \/ cut.missed
StopInputEnds == []<>(closer \in {"no", "returned"} \/ HangsHere)

\* Until input is stopped, what the user types arrives once and in order, but for
\* the newest bytes of a full queue that Ctrl-C displaces; Ctrl-C is first; and
\* the input threads have ended when stop_input returns.
InputSafe == InTypeOK /\ TypedInOrder /\ NoTypedByteLost /\ CtrlCFirst /\ InputThreadsEnd

\* Queued bytes are taken, and stop_input returns but for the three windows that
\* HangsHere names.
InputLive == InputFlows /\ StopInputEnds
=============================================================================
