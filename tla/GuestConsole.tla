----------------------------- MODULE GuestConsole -----------------------------
(***************************************************************************)
(* The console helper inside the guest (guest/node-vmm-console.cc): it     *)
(* runs a command on a pseudo-terminal and copies between the terminal's   *)
(* master and the serial port until the command has ended and the terminal *)
(* has been silent for kExitDrainPolls turns.                              *)
(*                                                                         *)
(* Bytes are "cr", "nl", and the typed text "k1", "k2", ..., which the     *)
(* command need not repeat: what is not a return or a newline is copied.   *)
(* The terminal is the kernel's: it expands newlines and echoes unless the *)
(* command made it raw, blocks a writer when its output is full, refuses   *)
(* input when that is full, and fails writes once no process has it open.  *)
(***************************************************************************)
EXTENDS Naturals, Sequences

CONSTANTS BufBytes,         \* bytes of one read, 512 in the code
          RxBurst,          \* serial bytes taken in one turn, 512 in the code
          kExitDrainPolls,  \* 5 in the code
          MaxAttempts,      \* tries to write one byte, 1000 in the code
          PtyLimit,         \* bytes the terminal holds in each direction
          MaxWritten, MaxKeys

ASSUME GuestConsoleAssumption ==
  /\ {BufBytes, RxBurst, kExitDrainPolls, MaxAttempts} \subseteq Nat \ {0}
  /\ {PtyLimit, MaxWritten, MaxKeys} \subseteq Nat

VARIABLES
  helper,  \* pc, child_done, drain_ticks, did_work, i, attempts, ch, g_last_serial_byte, exit code
  child,   \* the command: running or ended with a status; a background process; written so far
  pty,     \* out, in: queues; raw; made: all its output; atExit: its length at the command's end
  com1     \* rx: typed and not read; tx: what the helper sent; typed

gconVars == <<helper, child, pty, com1>>

Keys == <<"k1", "k2", "k3", "k4">>
Statuses == {[signal |-> FALSE, n |-> 3], [signal |-> TRUE, n |-> 2]}

GconInit ==
  /\ helper = [pc |-> "start", child_done |-> FALSE, ticks |-> 0, did_work |-> FALSE, i |-> 0,
               attempts |-> 0, ch |-> "", last |-> "", code |-> 0, failed |-> FALSE]
  /\ child = [st |-> "none", status |-> [signal |-> FALSE, n |-> 0], background |-> FALSE, written |-> 0]
  /\ pty = [out |-> <<>>, in |-> <<>>, raw |-> FALSE, made |-> <<>>, atExit |-> 0]
  /\ com1 = [rx |-> <<>>, tx |-> <<>>, typed |-> 0]

child_status_code(s) == IF s.signal THEN 128 + s.n ELSE s.n

-----------------------------------------------------------------------------
\* The helper.

\* main until the loop: die() answers a failed ioperm, openpty or fork.
Starts ==
  /\ helper.pc = "start"
  /\ \/ /\ helper' = [helper EXCEPT !.pc = "poll"]
        /\ child' = [child EXCEPT !.st = "running"]
     \/ /\ helper' = [helper EXCEPT !.pc = "done", !.code = 127, !.failed = TRUE]
        /\ UNCHANGED child
  /\ UNCHANGED <<pty, com1>>

\* poll() returns for data, a timeout or a signal, and seldom fails.
PollMaster ==
  /\ helper.pc = "poll"
  /\ \/ helper' = [helper EXCEPT !.pc = "read", !.did_work = FALSE]
     \/ helper' = [helper EXCEPT !.pc = "done", !.failed = TRUE]
  /\ UNCHANGED <<child, pty, com1>>

\* What serial_write sends for the bytes s after the byte last.
SerialBytes(s, last) ==
  LET at[k \in 0..Len(s)] ==
        IF k = 0 THEN <<>>
        ELSE at[k-1] \o
             (IF s[k] = "nl" /\ (IF k = 1 THEN last ELSE s[k-1]) # "cr"
              THEN <<"cr", "nl">> ELSE <<s[k]>>)
  IN  at[Len(s)]

serial_write(s) ==
  /\ com1' = [com1 EXCEPT !.tx = @ \o SerialBytes(s, helper.last)]
  /\ helper' = [helper EXCEPT !.last = s[Len(s)], !.ticks = 0, !.did_work = TRUE]

ReadMaster ==
  /\ helper.pc = "read"
  /\ \/ \E n \in 1..BufBytes :
          /\ n <= Len(pty.out)
          /\ serial_write(SubSeq(pty.out, 1, n))
          /\ pty' = [pty EXCEPT !.out = SubSeq(@, n + 1, Len(@))]
     \/ /\ pty.out = <<>>
        /\ helper' = [helper EXCEPT !.pc = "rx", !.i = 0]
        /\ UNCHANGED <<pty, com1>>
  /\ UNCHANGED child

ReadSerial ==
  /\ helper.pc = "rx"
  /\ IF helper.i < RxBurst /\ com1.rx # <<>>
     THEN /\ helper' = [helper EXCEPT !.pc = "put", !.ch = Head(com1.rx), !.attempts = 0]
          /\ com1' = [com1 EXCEPT !.rx = Tail(@)]
     ELSE helper' = [helper EXCEPT !.pc = "wait"] /\ UNCHANGED com1
  /\ UNCHANGED <<child, pty>>

PtyOpen == child.st = "running" \/ child.background
PtyPut(b, echo) ==
  [pty EXCEPT !.in = Append(@, b),
              !.out = IF echo THEN Append(@, b) ELSE @, !.made = IF echo THEN Append(@, b) ELSE @]
PutDone == helper' = [helper EXCEPT !.pc = "rx", !.i = @ + 1, !.did_work = TRUE, !.ch = ""]

\* Plausible bug: the byte is retried until the terminal takes it.
write_master_byte_Forever ==
  /\ helper.pc = "put"
  /\ \/ /\ PtyOpen /\ Len(pty.in) < PtyLimit
        /\ pty' = PtyPut(helper.ch, ~pty.raw /\ Len(pty.out) < PtyLimit)
        /\ PutDone
     \/ ~PtyOpen /\ PutDone /\ UNCHANGED pty
  /\ UNCHANGED <<child, com1>>

\* One attempt of write_master_byte; its answer is ignored.
write_master_byte ==
  /\ helper.pc = "put"
  /\ \/ /\ PtyOpen /\ Len(pty.in) < PtyLimit
        /\ pty' = PtyPut(helper.ch, ~pty.raw /\ Len(pty.out) < PtyLimit)
        /\ PutDone
     \/ /\ PtyOpen /\ Len(pty.in) >= PtyLimit
        /\ IF helper.attempts + 1 < MaxAttempts
           THEN helper' = [helper EXCEPT !.attempts = @ + 1] ELSE PutDone
        /\ UNCHANGED pty
     \/ ~PtyOpen /\ PutDone /\ UNCHANGED pty
  /\ UNCHANGED <<child, com1>>

\* Plausible bug: the loop ends as soon as the command is reaped.
Reaped_Ends ==
  /\ ~helper.child_done /\ child.st # "running"
  /\ helper' = [helper EXCEPT !.pc = "done", !.child_done = TRUE,
                              !.code = child_status_code(child.status)]

\* A turn ends: the first one that sees the command gone only notes it.
Reaped ==
  /\ ~helper.child_done /\ child.st # "running"
  /\ helper' = [helper EXCEPT !.pc = "poll", !.child_done = TRUE,
                              !.code = child_status_code(child.status)]

\* A turn with the command gone: did_work keeps the loop alive.
DrainTick ==
  /\ helper.child_done
  /\ helper' = IF helper.did_work THEN [helper EXCEPT !.pc = "poll"]
               ELSE [helper EXCEPT !.ticks = @ + 1,
                                   !.pc = IF helper.ticks + 1 >= kExitDrainPolls THEN "done" ELSE "poll"]

TurnEnds ==
  /\ helper.pc = "wait"
  /\ \/ Reaped
     \/ DrainTick
     \/ ~helper.child_done /\ child.st = "running" /\ helper' = [helper EXCEPT !.pc = "poll"]
  /\ UNCHANGED <<child, pty, com1>>

HelperRuns == Starts \/ PollMaster \/ ReadMaster \/ ReadSerial \/ write_master_byte \/ TurnEnds

-----------------------------------------------------------------------------
\* The guest's other processes, the terminal and the user.

\* The terminal expands a newline unless it is raw.
Output(b) == IF b = "nl" /\ ~pty.raw THEN <<"cr", "nl">> ELSE <<b>>

CommandWrites(b) ==
  /\ PtyOpen /\ child.written < MaxWritten /\ Len(pty.out) < PtyLimit
  /\ pty' = [pty EXCEPT !.out = @ \o Output(b), !.made = @ \o Output(b)]
  /\ child' = [child EXCEPT !.written = @ + 1]
  /\ UNCHANGED <<helper, com1>>

CommandReads ==
  /\ PtyOpen /\ pty.in # <<>>
  /\ pty' = [pty EXCEPT !.in = Tail(@)]
  /\ UNCHANGED <<helper, child, com1>>

CommandSetsRaw ==
  /\ child.st = "running" /\ ~pty.raw
  /\ pty' = [pty EXCEPT !.raw = TRUE]
  /\ UNCHANGED <<helper, child, com1>>

\* The command ends and may leave a process behind that holds the terminal.
CommandExits ==
  /\ child.st = "running"
  /\ \E s \in Statuses, b \in BOOLEAN :
       child' = [child EXCEPT !.st = "exited", !.status = s, !.background = b]
  /\ pty' = [pty EXCEPT !.atExit = Len(pty.made)]
  /\ UNCHANGED <<helper, com1>>

Types ==
  /\ com1.typed < MaxKeys
  /\ com1' = [com1 EXCEPT !.typed = @ + 1, !.rx = Append(@, Keys[com1.typed + 1])]
  /\ UNCHANGED <<helper, child, pty>>

\* Once the helper has ended the guest is shut down.
GconNext ==
  \/ HelperRuns
  \/ /\ helper.pc # "done"
     /\ \/ \E b \in {"cr", "nl"} : CommandWrites(b)
        \/ CommandReads \/ CommandSetsRaw \/ CommandExits \/ Types

GconSpec == GconInit /\ [][GconNext]_gconVars

-----------------------------------------------------------------------------
\* What was read of the terminal's output.
Consumed == SubSeq(pty.made, 1, Len(pty.made) - Len(pty.out))

\* What reaches the serial port is the terminal's output with a return before
\* each newline that lacks one, wherever the reads cut it: a return and its
\* newline that arrive in two reads get no second return (serial_write).
SerialIsTerminal == com1.tx = SerialBytes(Consumed, "")

\* The helper ends, unless poll() or its start failed, only after the command
\* did, with the command's status, and with every byte shown that the terminal
\* held when the command ended (the drain at the end of main).
CommandShown ==
  helper.pc = "done" /\ ~helper.failed =>
    /\ child.st = "exited" /\ helper.code = child_status_code(child.status)
    /\ Len(Consumed) >= pty.atExit

\* Output is read again and again even while a typed byte finds no room and
\* the command waits to write: neither waits for the other for ever
\* (write_master_byte gives up).
OutputFlows == []<>(pty.out = <<>> \/ helper.pc = "done")

\* When the command has ended the helper ends, even with a process left in the
\* background that reads nothing (the drain's count of silent turns).
HelperEnds == <>[](child.st = "exited") => <>[](helper.pc = "done")

\* The serial line shows what the terminal shows, and all of the command's
\* output before its status.
HelperSafe == SerialIsTerminal /\ CommandShown

\* Output keeps flowing while input is blocked, and the helper ends after its
\* command.
HelperLive == OutputFlows /\ HelperEnds
===============================================================================
