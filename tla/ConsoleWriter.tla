--------------------------- MODULE ConsoleWriter ---------------------------
(***************************************************************************)
(* The host console of the WHP backend (native/whp/console_writer.h): the  *)
(* vCPU that holds the UART's mutex (producer) appends guest output, the   *)
(* writer thread coalesces it and writes it, a full buffer or a cursor     *)
(* query makes the producer flush by itself, and stop() joins the writer.  *)
(*                                                                         *)
(* Output is a sequence of tokens: "x" text, "n" a newline, "7" the start  *)
(* of a DEC redraw frame and "K" the restore and clear that end it; sizes  *)
(* count tokens.  write_file holds file_mu_ and loops until all is         *)
(* written: one step.  A WriteFile that fails for good, which gives up the *)
(* rest of its bytes (507), is left out.                                   *)
(***************************************************************************)
EXTENDS Naturals, Sequences, FiniteSets

CONSTANTS kFlushThreshold, kMaxPending,
          MaxTokens,  \* tokens the guest prints
          MaxReports  \* cursor queries

ASSUME ConAssumption == /\ {kFlushThreshold, kMaxPending, MaxTokens, MaxReports} \subseteq Nat
                        /\ kFlushThreshold \in 1..kMaxPending
                        /\ kMaxPending >= 2  \* 256 KiB in the code: a whole write fits

Tokens == {"x", "n", "7", "K"}

VARIABLES pending,  \* pending_, tokens with their number
          conOut,   \* what reached the console
          writer,   \* the writer thread: pc, the bytes it took, and its view of
                    \* pending_: observed_pending_size, open_redraw
          prod,     \* the producer: pc, the bytes it flushes, its own write
          stopper,  \* stop(): "run", "stopping", "stopped"
          printed,  \* number of tokens the producer wrote
          reports,  \* cursor queries made
          overtook, \* history: a flush wrote while the writer held older bytes
          report    \* history: tokens on the console at the last cursor report
conVars == <<pending, conOut, writer, prod, stopper, printed, reports, overtook, report>>

Numbered == [id : 1..MaxTokens, k : Tokens]

ConTypeOK ==
  /\ pending \in Seq(Numbered) /\ conOut \in Seq(Numbered)
  /\ writer \in [pc : {"wait", "coalesce", "held", "write", "done"}, buf : Seq(Numbered),
                 size : 0..kMaxPending, open : BOOLEAN]
  /\ prod \in [pc : {"idle", "flush", "append", "query", "reply"}, buf : Seq(Numbered),
               own : Seq(Numbered)]
  /\ stopper \in {"run", "stopping", "stopped"}
  /\ printed \in 0..MaxTokens /\ reports \in 0..MaxReports
  /\ overtook \in BOOLEAN /\ report \in 0..MaxTokens
  /\ Len(pending) <= kMaxPending

ConInit ==
  /\ pending = <<>> /\ conOut = <<>> /\ stopper = "run" /\ printed = 0 /\ reports = 0
  /\ writer = [pc |-> "wait", buf |-> <<>>, size |-> 0, open |-> FALSE]
  /\ prod = [pc |-> "idle", buf |-> <<>>, own |-> <<>>]
  /\ overtook = FALSE /\ report = 0

stopping == stopper # "run"

\* The longest prefix that ends a line or an escape sequence.
terminal_safe_prefix(s) ==
  LET ends == {i \in DOMAIN s : s[i].k # "x"}
  IN  IF ends = {} THEN 0 ELSE CHOOSE i \in ends : \A j \in ends : j <= i

\* The first frame of the buffer is not closed; a closed one ends the search.
has_open_dec_redraw_frame(s) ==
  \E i \in DOMAIN s : /\ s[i].k = "7"
                      /\ \A j \in DOMAIN s : s[j].k # (IF j < i THEN "7" ELSE "K")

-----------------------------------------------------------------------------
\* Plausible bug: the new bytes are queued before the flushed ones are written.
write_AppendFirst ==
  /\ prod.pc = "idle" /\ stopper = "run" /\ Len(pending) < kMaxPending /\ printed < MaxTokens
  /\ printed' = printed + 1
  /\ LET own == <<[id |-> printed + 1, k |-> "x"]>>
     IN  IF Len(pending) + 1 >= kMaxPending
         THEN pending' = own /\ prod' = [pc |-> "flush", buf |-> pending, own |-> <<>>]
         ELSE pending' = pending \o own /\ UNCHANGED prod
  /\ UNCHANGED <<conOut, writer, stopper, reports, overtook, report>>

\* Producer.  write(): waits for room, flushes first when the bytes do not fit.
write ==
  /\ prod.pc = "idle" /\ stopper = "run" /\ Len(pending) < kMaxPending
  /\ \E ks \in {<<a>> : a \in Tokens} \cup {<<"x", "x">>} :
       LET own == [i \in DOMAIN ks |-> [id |-> printed + i, k |-> ks[i]]]
       IN  /\ printed + Len(ks) <= MaxTokens
           /\ printed' = printed + Len(ks)
           /\ IF Len(pending) + Len(ks) > kMaxPending
              THEN /\ prod' = [pc |-> "flush", buf |-> pending, own |-> own]
                   /\ pending' = <<>>
              ELSE pending' = pending \o own /\ UNCHANGED prod
  /\ UNCHANGED <<conOut, writer, stopper, reports, overtook, report>>

\* flush_locked: the bytes were taken under mu_, they are written under file_mu_.
FlushWrite ==
  /\ prod.pc \in {"flush", "query"}
  /\ conOut' = conOut \o prod.buf
  /\ overtook' = (overtook \/ (prod.buf # <<>> /\ writer.buf # <<>>))
  /\ prod' = [prod EXCEPT !.buf = <<>>, !.pc = IF @ = "flush" THEN "append" ELSE "reply"]
  /\ UNCHANGED <<pending, writer, stopper, printed, reports, report>>

AppendOwn ==
  /\ prod.pc = "append"
  /\ pending' = pending \o prod.own
  /\ prod' = [prod EXCEPT !.pc = "idle", !.own = <<>>]
  /\ UNCHANGED <<conOut, writer, stopper, printed, reports, overtook, report>>

\* cursor_position_report: flush_pending, then the position under file_mu_.
CursorQuery ==
  /\ prod.pc = "idle" /\ stopper = "run" /\ reports < MaxReports
  /\ reports' = reports + 1
  /\ prod' = [prod EXCEPT !.pc = "query", !.buf = pending]
  /\ pending' = <<>>
  /\ UNCHANGED <<conOut, writer, stopper, printed, overtook, report>>

CursorReply ==
  /\ prod.pc = "reply"
  /\ report' = Len(conOut)
  /\ prod' = [prod EXCEPT !.pc = "idle"]
  /\ UNCHANGED <<pending, conOut, writer, stopper, printed, reports, overtook>>

-----------------------------------------------------------------------------
\* Writer thread

Take(all) ==
  LET safe == IF all THEN Len(pending) ELSE terminal_safe_prefix(pending)
  IN  /\ writer' = [pc |-> "write", buf |-> SubSeq(pending, 1, safe), size |-> 0, open |-> FALSE]
      /\ pending' = SubSeq(pending, safe + 1, Len(pending))

Full == stopping \/ Len(pending) >= kFlushThreshold

\* The writer, awake and holding mu_, looks at pending_: it goes on waiting while
\* there is no safe prefix or a redraw frame is open, or takes what is safe.
LookAround ==
  LET open == has_open_dec_redraw_frame(pending)
  IN  IF ~Full /\ (terminal_safe_prefix(pending) = 0 \/ open)
      THEN /\ writer' = [writer EXCEPT !.pc = "coalesce", !.size = Len(pending), !.open = open]
           /\ pending' = pending
      ELSE Take(Full)

writerSame == <<conOut, prod, stopper, printed, reports, overtook, report>>

WriterWakes == writer.pc = "wait" /\ pending # <<>> /\ LookAround /\ UNCHANGED writerSame

\* More output, a flush or stop() wakes it before its deadline.
WriterLooksAgain ==
  /\ writer.pc = "coalesce"
  /\ \/ Full \/ Len(pending) # writer.size
     \/ has_open_dec_redraw_frame(pending) # writer.open
  /\ LookAround /\ UNCHANGED writerSame

\* The deadline: with a frame open at its last look it waits again, without a
\* limit; else it takes all, which may be more than it has looked at.
WriterTimesOut ==
  /\ writer.pc = "coalesce"
  /\ IF writer.open /\ ~Full
     THEN writer' = [writer EXCEPT !.pc = "held"] /\ pending' = pending
     ELSE Take(TRUE)
  /\ UNCHANGED writerSame

\* Plausible bug: the wait for the end of a frame does not look at stopping_.
HeldOver_NoStop == Len(pending) # writer.size \/ Len(pending) >= kFlushThreshold

\* It is the number of pending bytes that ends that wait: after a flush, as many
\* bytes as the frame had look like the frame.
HeldOver == Full \/ Len(pending) # writer.size

WriterGoesOn == writer.pc = "held" /\ HeldOver /\ LookAround /\ UNCHANGED writerSame

WriterWrites ==
  /\ writer.pc = "write"
  /\ conOut' = conOut \o writer.buf
  /\ writer' = [writer EXCEPT !.pc = "wait", !.buf = <<>>]
  /\ UNCHANGED <<pending, prod, stopper, printed, reports, overtook, report>>

WriterEnds ==
  /\ writer.pc = "wait" /\ pending = <<>> /\ stopping
  /\ writer' = [writer EXCEPT !.pc = "done"]
  /\ UNCHANGED <<pending, conOut, prod, stopper, printed, reports, overtook, report>>

\* stop(), called when no vCPU uses the UART any more.
Stop == /\ stopper = "run" /\ prod.pc = "idle" /\ stopper' = "stopping"
        /\ UNCHANGED <<pending, conOut, writer, prod, printed, reports, overtook, report>>
StopJoins == /\ stopper = "stopping" /\ writer.pc = "done" /\ stopper' = "stopped"
             /\ UNCHANGED <<pending, conOut, writer, prod, printed, reports, overtook, report>>

WriterSteps == \/ WriterWakes \/ WriterLooksAgain \/ WriterTimesOut \/ WriterGoesOn
               \/ WriterWrites \/ WriterEnds

ConNext == \/ write \/ FlushWrite \/ AppendOwn \/ CursorQuery \/ CursorReply
           \/ WriterSteps \/ Stop \/ StopJoins

ConSpec == ConInit /\ [][ConNext]_conVars

-----------------------------------------------------------------------------
AllBytes == conOut \o writer.buf \o prod.buf \o pending \o prod.own

\* Every token printed is on the console, in one thread's hands or pending, and
\* nowhere twice; once stop() returns it is on the console.
NothingLost ==
  /\ Len(AllBytes) = printed /\ {AllBytes[i].id : i \in DOMAIN AllBytes} = 1..printed
  /\ stopper = "stopped" => Len(conOut) = printed

\* Output keeps the guest's order, unless a flush overtook bytes that the writer
\* had taken and not yet written (mu_ and file_mu_ are different locks).
OutputInOrder == overtook \/ \A i \in DOMAIN AllBytes : AllBytes[i].id = i

\* What is printed reaches the console without further output, unless the writer
\* has held back a redraw frame past its deadline and the number of pending bytes
\* is the one it saw then.  So the frame itself waits for more output or stop(), and
\* so does text without a frame that took its place after a flush (445-450).
Shown == []<>(pending = <<>> \/ (writer.pc = "held" /\ Len(pending) = writer.size))

\* stop() returns.
StopReturns == []<>(stopper # "stopping")

\* Guest output reaches the console once, in order unless a flush by the producer
\* overtook the writer, and all of it by the time stop() has returned.
OutputSafe == ConTypeOK /\ NothingLost /\ OutputInOrder

\* The writer shows what it was given, but for an open redraw frame or as many
\* bytes in its place, and stop() returns.
OutputLive == Shown /\ StopReturns
=============================================================================
