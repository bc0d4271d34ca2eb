-------------------------- MODULE WhpRunnerProofs --------------------------
(***************************************************************************)
(* Proofs about the Windows run loop, for every number of vCPUs and of host *)
(* commands, with and without a deadline.                                   *)
(*                                                                         *)
(* WhpSafe is not inductive.  What RunVm reports needs the race for vm_done: *)
(* one vCPU or the watchdog wins it, and until that thread has stored its    *)
(* reason the stored one is not to be trusted (Race).  That the boot thread  *)
(* only makes the result after the winner stored it needs Joined, and that   *)
(* an error is never reported as a result needs the message to be recorded   *)
(* before finish is called (CpuInv).                                         *)
(*                                                                           *)
(* The last part is about the UART behind the console, for any queue sizes.  *)
(* Its invariant has one part for what the guest receives (RxInv: what was   *)
(* read and what waits in the FIFO and the staging queue is, in this order,  *)
(* what was accepted) and one for what it sends (MarkerInv: the state of the *)
(* marker is how much of it the output ends with, which is only known        *)
(* because a full match stops the comparison).                               *)
(***************************************************************************)
EXTENDS WhpRunner, WhpInput, WhpUart, ConsoleWriter, FiniteSetTheorems, SequenceTheorems,
        WellFoundedInduction, TLAPS

\* The boot thread behind its own finish, behind the joins of the other vCPUs,
\* and behind the join of the watchdog.
FinishedPcs == {"join", "state", "dogDone", "joinDog", "result", "returned"}
JoinedPcs   == {"state", "dogDone", "joinDog", "result", "returned"}
EndPcs      == {"result", "returned"}
ParkedPcs   == {"spin", "leave"}

\* What holds of vCPU c with record k while the shared flags are r.
CpuInv(c, k, r) ==
  /\ k.ret \in (IF c = 0 THEN {"top", "finish", "join"} ELSE {"top", "ended"})
  /\ c # 0 => k.pc \notin FinishedPcs \cup {"spawn", "finish"}
  /\ k.pc = "exit" => k.reason # "host-error"
  /\ k.pc \in {"cas", "cancel"} =>
       k.reason # "none" /\ (k.reason = "host-error" => r.error # "none")
  /\ k.pc = "cancel" => r.done /\ k.reason = r.winner
  /\ k.pc \in FinishedPcs => r.done

Cancels(c) == cpu[c].pc = "cancel"

\* One thread wins the compare_exchange of vm_done.
Race ==
  /\ run.done <=> run.winner # "none"
  /\ \A c, d \in Vcpus : Cancels(c) /\ Cancels(d) => c = d
  /\ dog = "cancelDone" => run.winner = "host-stop" /\ \A c \in Vcpus : ~Cancels(c)
  /\ run.done => run.reason = run.winner \/ dog = "cancelDone" \/ \E c \in Vcpus : Cancels(c)
  /\ run.winner = "host-error" => run.error # "none"

\* What the boot thread has waited for.
WhpJoined ==
  /\ cpu[0].pc = "spawn" => \A c \in Vcpus \ {0} : cpu[c].pc = "unborn"
  /\ cpu[0].pc \in JoinedPcs => \A c \in Vcpus \ {0} : cpu[c].pc = "ended"
  /\ cpu[0].pc \in EndPcs => dog = "ended"

WhpCore ==
  /\ WhpTypeOK
  /\ \A c \in Vcpus : CpuInv(c, cpu[c], run)
  /\ Race /\ WhpJoined /\ WhpReportsWinner

WhpIInv == WhpCore /\ WhpPausedCount

-----------------------------------------------------------------------------
(* Counting the parked vCPUs.                                               *)

Parked(f) == {c \in Vcpus : f[c].pc \in ParkedPcs}

\* The boot vCPU exists, and there are finitely many.
LEMMA VcpusFinite == 0 \in Vcpus /\ IsFiniteSet(Vcpus)
<1>1. 0 \in Vcpus
  BY WhpRunnerAssumption DEF Vcpus
<1>2. IsFiniteSet(Vcpus)
  BY FS_Interval, WhpRunnerAssumption DEF Vcpus
<1> QED
  BY <1>1, <1>2

\* Any set of parked vCPUs is finite.
LEMMA ParkedFinite ==
  ASSUME NEW f PROVE IsFiniteSet(Parked(f)) /\ Cardinality(Parked(f)) \in Nat
<1>1. Parked(f) \subseteq Vcpus
  BY DEF Parked
<1>2. IsFiniteSet(Parked(f))
  BY <1>1, VcpusFinite, FS_Subset
<1> QED
  BY <1>2, FS_CardinalityType

\* A step after which the same vCPUs are parked leaves the count exact.
LEMMA CountSame ==
  ASSUME WhpPausedCount, Parked(cpu') = Parked(cpu), run'.paused = run.paused
  PROVE WhpPausedCount'
  BY DEF WhpPausedCount, Parked, ParkedPcs

\* A vCPU parks.
LEMMA CountUp ==
  ASSUME WhpPausedCount, NEW c \in Vcpus, c \notin Parked(cpu),
         Parked(cpu') = Parked(cpu) \cup {c}, run'.paused = run.paused + 1
  PROVE WhpPausedCount'
<1>1. Cardinality(Parked(cpu) \cup {c}) = Cardinality(Parked(cpu)) + 1
  BY ParkedFinite, FS_AddElement
<1> QED
  BY <1>1 DEF WhpPausedCount, Parked, ParkedPcs

\* A vCPU goes on; paused_count was not zero.
LEMMA CountDown ==
  ASSUME WhpPausedCount, NEW c \in Vcpus, c \in Parked(cpu),
         Parked(cpu') = Parked(cpu) \ {c}, run'.paused = run.paused - 1
  PROVE WhpPausedCount' /\ run.paused - 1 \in Nat
<1>1. /\ Cardinality(Parked(cpu) \ {c}) = Cardinality(Parked(cpu)) - 1
      /\ Cardinality(Parked(cpu) \ {c}) \in Nat
  <2>1. Cardinality(Parked(cpu) \ {c}) = Cardinality(Parked(cpu)) - 1
    BY ParkedFinite, FS_RemoveElement
  <2>2. IsFiniteSet(Parked(cpu) \ {c})
    BY ParkedFinite, FS_Subset, Parked(cpu) \ {c} \subseteq Parked(cpu)
  <2> QED
    BY <2>1, <2>2, FS_CardinalityType
<1> QED
  BY <1>1 DEF WhpPausedCount, Parked, ParkedPcs

-----------------------------------------------------------------------------
(* Steps of one vCPU.                                                       *)

WhpCpus == [pc : CpuPcs, halted : BOOLEAN, cancel : BOOLEAN, reason : WhpReasons, ret : CpuPcs]
WhpRuns == [done : BOOLEAN, timeout : BOOLEAN, dogDone : BOOLEAN, paused : Nat, halted : Nat,
            reason : WhpReasons, winner : WhpReasons, error : {"none", "timeout", "fault"},
            result : WhpReasons \cup {"timeout", "fault"}]
WhpCtls == [command : {"run", "pause", "stop"}, state : WhpStates, issued : 0..WhpCommands]

\* The part of a vCPU's record the invariant speaks of: a cancel changes nothing.
Alike(a, b) == a.pc = b.pc /\ a.reason = b.reason /\ a.ret = b.ret

\* Only vCPU c moves, to record n.
Moves(c, n) ==
  /\ cpu' \in [Vcpus -> WhpCpus] /\ Alike(cpu'[c], n)
  /\ \A d \in Vcpus \ {c} : Alike(cpu'[d], cpu[d])

\* The parked set after a move.
LEMMA MovesParked ==
  ASSUME NEW c \in Vcpus, NEW n, Moves(c, n)
  PROVE /\ n.pc \in ParkedPcs => Parked(cpu') = Parked(cpu) \cup {c}
        /\ n.pc \notin ParkedPcs => Parked(cpu') = Parked(cpu) \ {c}
        /\ c \in Parked(cpu) <=> cpu[c].pc \in ParkedPcs
  BY DEF Moves, Alike, Parked

\* A vCPU's step outside the race for vm_done.
LEMMA QuietStep ==
  ASSUME WhpCore, NEW c \in Vcpus, NEW n, Moves(c, n), CpuInv(c, n, run'),
         ctl' \in WhpCtls, run' \in WhpRuns, dog' = dog, rootfs' = rootfs,
         run'.done = run.done, run'.winner = run.winner, run'.reason = run.reason,
         run.error # "none" => run'.error # "none",
         run'.result \in WhpReasons \ {"none"} =>
           run'.result = run.winner /\ run'.result # "host-error",
         cpu[c].pc \notin {"cancel", "ended", "unborn"}, n.pc \notin {"cancel", "spawn"},
         c = 0 /\ n.pc \in JoinedPcs => \A d \in Vcpus \ {0} : cpu[d].pc = "ended",
         c = 0 /\ n.pc \in EndPcs => dog = "ended"
  PROVE WhpCore'
<1>1. WhpTypeOK'
  BY DEF WhpCore, WhpTypeOK, Moves, WhpCpus, WhpRuns, WhpCtls
<1>2. ASSUME NEW d \in Vcpus PROVE CpuInv(d, cpu'[d], run')
  <2>1. CASE d = c
    BY <2>1 DEF Moves, Alike, CpuInv
  <2>2. CASE d # c
    <3>1. Alike(cpu'[d], cpu[d]) /\ CpuInv(d, cpu[d], run)
      BY <2>2 DEF Moves, WhpCore
    <3> QED
      BY <3>1 DEF Alike, CpuInv
  <2> QED
    BY <2>1, <2>2
<1>3. \A d \in Vcpus : Cancels(d)' <=> Cancels(d)
  BY DEF Moves, Alike, Cancels
<1>4. Race'
  BY <1>3 DEF WhpCore, Race
<1>5. WhpJoined'
  <2>1. CASE c = 0
    <3>1. cpu'[0].pc = n.pc /\ \A d \in Vcpus \ {0} : cpu'[d].pc = cpu[d].pc
      BY <2>1 DEF Moves, Alike
    <3> QED
      BY <2>1, <3>1 DEF WhpJoined
  <2>2. CASE c # 0
    <3>1. cpu'[0].pc = cpu[0].pc /\ \A d \in Vcpus \ {0, c} : cpu'[d].pc = cpu[d].pc
      BY <2>2, VcpusFinite DEF Moves, Alike
    <3>2. cpu[0].pc # "spawn" /\ cpu[0].pc \notin JoinedPcs
      BY <2>2 DEF WhpCore, WhpJoined
    <3>3. EndPcs \subseteq JoinedPcs
      BY DEF EndPcs, JoinedPcs
    <3> QED
      BY <3>1, <3>2, <3>3 DEF WhpJoined
  <2> QED
    BY <2>1, <2>2
<1>6. WhpReportsWinner'
  BY DEF WhpReportsWinner
<1> QED
  BY <1>1, <1>2, <1>4, <1>5, <1>6 DEF WhpCore

\* The types of the state, and its fields.
LEMMA Fields ==
  ASSUME WhpCore
  PROVE /\ cpu \in [Vcpus -> WhpCpus] /\ run \in WhpRuns /\ ctl \in WhpCtls
        /\ WhpReportsWinner
  BY DEF WhpCore, WhpTypeOK, WhpCpus, WhpRuns, WhpCtls

\* A vCPU whose pc alone changes.
LEMMA PcMoves ==
  ASSUME WhpCore, NEW c \in Vcpus, NEW to \in CpuPcs, cpu' = [cpu EXCEPT ![c].pc = to]
  PROVE LET n == [cpu[c] EXCEPT !.pc = to]
        IN  /\ Moves(c, n) /\ n.pc = to /\ n.reason = cpu[c].reason /\ n.ret = cpu[c].ret
<1>1. cpu[c] \in WhpCpus /\ cpu \in [Vcpus -> WhpCpus]
  BY Fields
<1> QED
  BY <1>1 DEF Moves, Alike, WhpCpus

\* The flags of the race are untouched.
Untouched ==
  /\ run' \in WhpRuns /\ run'.done = run.done /\ run'.winner = run.winner
  /\ run'.reason = run.reason /\ (run.error # "none" => run'.error # "none")

\* A vCPU whose pc alone changes, outside finish.
LEMMA PcStep ==
  ASSUME WhpCore, NEW c \in Vcpus, NEW from, NEW to \in CpuPcs, CpuAt(c, from, to),
         from \notin {"cancel", "ended", "unborn"}, to \notin {"cas", "cancel", "exit", "spawn"},
         c # 0 => to \notin FinishedPcs \cup {"finish"},
         to \in FinishedPcs => run.done,
         to \in JoinedPcs => \A d \in Vcpus \ {0} : cpu[d].pc = "ended",
         to \in EndPcs => dog = "ended",
         Untouched, ctl' \in WhpCtls, dog' = dog, rootfs' = rootfs,
         run'.result \in WhpReasons \ {"none"} =>
           run'.result = run.winner /\ run'.result # "host-error"
  PROVE WhpCore'
<1> DEFINE n == [cpu[c] EXCEPT !.pc = to]
<1>1. cpu[c].pc = from /\ Moves(c, n) /\ n.pc = to /\ n.reason = cpu[c].reason /\ n.ret = cpu[c].ret
  BY PcMoves DEF CpuAt
<1>2. CpuInv(c, cpu[c], run)
  BY DEF WhpCore
<1> HIDE DEF n
<1>3. CpuInv(c, n, run')
  BY <1>1, <1>2 DEF CpuInv, Untouched
<1> QED
  BY <1>1, <1>3, QuietStep DEF Untouched

\* A call of finish: the reason is not "none", and an error's message is there.
LEMMA FinishStep ==
  ASSUME WhpCore, NEW c \in Vcpus, NEW reason \in WhpReasons \ {"none"},
         NEW ret \in (IF c = 0 THEN {"finish", "join"} ELSE {"ended"}),
         Finish(c, reason, ret), cpu[c].pc \notin {"cancel", "ended", "unborn"},
         Untouched, reason = "host-error" => run'.error # "none",
         ctl' \in WhpCtls, dog' = dog, rootfs' = rootfs, run'.result = run.result
  PROVE WhpCore' /\ Parked(cpu') = Parked(cpu) \ {c}
<1> DEFINE n == [cpu[c] EXCEPT !.pc = "cas", !.reason = reason, !.ret = ret]
<1>1. cpu \in [Vcpus -> WhpCpus] /\ cpu[c] \in WhpCpus
  BY Fields
<1>2. cpu' = [cpu EXCEPT ![c] = n]
  BY <1>1 DEF Finish
<1>3. n \in WhpCpus /\ n.pc = "cas" /\ n.reason = reason /\ n.ret = ret
  BY <1>1 DEF WhpCpus, CpuPcs
<1> HIDE DEF n
<1>4. Moves(c, n)
  BY <1>1, <1>2, <1>3 DEF Moves, Alike
<1>5. CpuInv(c, n, run')
  BY <1>3 DEF CpuInv, FinishedPcs
<1>6. "cas" \notin JoinedPcs /\ "cas" \notin EndPcs /\ "cas" \notin ParkedPcs
  BY DEF JoinedPcs, EndPcs, ParkedPcs
<1>7. WhpReportsWinner
  BY Fields
<1>8. WhpCore'
  BY <1>3, <1>4, <1>5, <1>6, <1>7, QuietStep DEF Untouched, WhpReportsWinner
<1> QED
  BY <1>3, <1>4, <1>6, <1>8, MovesParked

\* Where a vCPU's loop ends.
LEMMA LoopEnds ==
  ASSUME NEW c \in Vcpus
  PROVE /\ LoopEnd(c) \in CpuPcs \cap (IF c = 0 THEN {"finish", "join"} ELSE {"ended"})
        /\ LoopEnd(c) \notin {"cas", "cancel", "exit", "spawn"} \cup FinishedPcs \cup ParkedPcs
  BY DEF LoopEnd, CpuPcs, FinishedPcs, ParkedPcs

\* The steps of vcpu_loop that only look at the shared words.
LEMMA LookStep ==
  ASSUME WhpIInv, NEW c \in Vcpus,
         Top(c) \/ ReadCommand(c) \/ PauseStop(c) \/ PauseResume(c)
  PROVE WhpIInv'
<1>0. WhpCore /\ WhpPausedCount
  BY DEF WhpIInv
<1>1. PICK from \in {"top", "command", "stop?", "resume"},
           to \in {LoopEnd(c), "command", "stopping", "count", "top", "run", "resume"} :
        CpuAt(c, from, to)
  BY DEF Top, ReadCommand, AfterPause, PauseStop, PauseResume
<1>2. run' = run /\ dog' = dog /\ rootfs' = rootfs /\ ctl' \in WhpCtls
  <2>1. ctl \in WhpCtls
    BY <1>0, Fields
  <2> QED
    BY <2>1 DEF Top, ReadCommand, PauseStop, PauseResume, WhpCtls, WhpStates
<1>3. /\ to \in CpuPcs
      /\ to \notin {"cas", "cancel", "exit", "spawn"} \cup FinishedPcs \cup ParkedPcs
      /\ c # 0 => to # "finish"
  BY LoopEnds DEF CpuPcs, FinishedPcs, ParkedPcs, LoopEnd
<1>4. Untouched
  BY <1>0, <1>2, Fields DEF Untouched
<1>5. /\ run'.result \in WhpReasons \ {"none"} =>
           run'.result = run.winner /\ run'.result # "host-error"
      /\ to \notin JoinedPcs /\ to \notin EndPcs
  BY <1>0, <1>2, <1>3, Fields DEF WhpReportsWinner, JoinedPcs, EndPcs, FinishedPcs
<1>6. WhpCore'
  BY <1>0, <1>1, <1>2, <1>3, <1>4, <1>5, PcStep
<1>7. Parked(cpu') = Parked(cpu)
  <2>1. Moves(c, [cpu[c] EXCEPT !.pc = to]) /\ [cpu[c] EXCEPT !.pc = to].pc = to
    BY <1>0, <1>1, <1>3, PcMoves DEF CpuAt
  <2>2. cpu[c].pc \notin ParkedPcs
    BY <1>1 DEF CpuAt, ParkedPcs
  <2> QED
    BY <2>1, <2>2, <1>3, MovesParked
<1> QED
  BY <1>0, <1>2, <1>6, <1>7, CountSame DEF WhpIInv

\* wait_if_paused: the count.
LEMMA PauseCountStep == ASSUME WhpIInv, NEW c \in Vcpus, PauseCount(c) PROVE WhpIInv'
<1>0. WhpCore /\ WhpPausedCount /\ ctl \in WhpCtls /\ run \in WhpRuns /\ WhpReportsWinner
  BY Fields DEF WhpIInv
<1>1. /\ CpuAt(c, "count", "spin") /\ run' = [run EXCEPT !.paused = @ + 1]
      /\ dog' = dog /\ rootfs' = rootfs
      /\ ctl' = IF run.paused + 1 = Cpus THEN [ctl EXCEPT !.state = "paused"] ELSE ctl
  BY DEF PauseCount
<1>2. ctl' \in WhpCtls
  BY <1>0, <1>1 DEF WhpCtls, WhpStates
<1>3. Untouched /\ run'.result = run.result /\ run'.paused = run.paused + 1
  BY <1>0, <1>1 DEF WhpRuns, Untouched
<1>4. WhpCore'
  BY <1>0, <1>1, <1>2, <1>3, PcStep
     DEF CpuPcs, FinishedPcs, JoinedPcs, EndPcs, WhpReportsWinner
<1>5. Parked(cpu') = Parked(cpu) \cup {c} /\ c \notin Parked(cpu)
  <2>1. Moves(c, [cpu[c] EXCEPT !.pc = "spin"]) /\ [cpu[c] EXCEPT !.pc = "spin"].pc = "spin"
    BY <1>0, <1>1, PcMoves DEF CpuAt, CpuPcs
  <2> QED
    BY <2>1, <1>1, MovesParked DEF CpuAt, ParkedPcs
<1> QED
  BY <1>0, <1>3, <1>4, <1>5, CountUp DEF WhpIInv

\* wait_if_paused: the loop is left.
LEMMA PauseSpinStep == ASSUME WhpIInv, NEW c \in Vcpus, PauseSpin(c) PROVE WhpIInv'
<1>0. WhpCore /\ WhpPausedCount /\ ctl \in WhpCtls /\ run \in WhpRuns /\ WhpReportsWinner
  BY Fields DEF WhpIInv
<1>1. CpuAt(c, "spin", "leave") /\ UNCHANGED <<ctl, dog, run, rootfs>>
  BY DEF PauseSpin
<1>2. Untouched
  BY <1>0, <1>1 DEF Untouched
<1>3. WhpCore'
  BY <1>0, <1>1, <1>2, PcStep DEF CpuPcs, FinishedPcs, JoinedPcs, EndPcs, WhpReportsWinner
<1>4. Parked(cpu') = Parked(cpu)
  <2>1. Moves(c, [cpu[c] EXCEPT !.pc = "leave"]) /\ [cpu[c] EXCEPT !.pc = "leave"].pc = "leave"
    BY <1>0, <1>1, PcMoves DEF CpuAt, CpuPcs
  <2> QED
    BY <2>1, <1>1, MovesParked DEF CpuAt, ParkedPcs
<1> QED
  BY <1>0, <1>1, <1>3, <1>4, CountSame DEF WhpIInv

\* wait_if_paused: paused_count goes down again, never below zero.
LEMMA PauseLeaveStep == ASSUME WhpIInv, NEW c \in Vcpus, PauseLeave(c) PROVE WhpIInv'
<1>0. WhpCore /\ WhpPausedCount /\ ctl \in WhpCtls /\ run \in WhpRuns /\ WhpReportsWinner
  BY Fields DEF WhpIInv
<1>1. /\ CpuAt(c, "leave", "stop?") /\ run' = [run EXCEPT !.paused = @ - 1]
      /\ UNCHANGED <<ctl, dog, rootfs>>
  BY DEF PauseLeave
<1>2. Parked(cpu') = Parked(cpu) \ {c} /\ c \in Parked(cpu)
  <2>1. Moves(c, [cpu[c] EXCEPT !.pc = "stop?"]) /\ [cpu[c] EXCEPT !.pc = "stop?"].pc = "stop?"
    BY <1>0, <1>1, PcMoves DEF CpuAt, CpuPcs
  <2> QED
    BY <2>1, <1>1, MovesParked DEF CpuAt, ParkedPcs
<1>3. run'.paused = run.paused - 1
  BY <1>0, <1>1 DEF WhpRuns
<1>4. WhpPausedCount' /\ run.paused - 1 \in Nat
  BY <1>0, <1>2, <1>3, CountDown
<1>5. Untouched /\ run'.result = run.result
  BY <1>0, <1>1, <1>4 DEF WhpRuns, Untouched
<1>6. WhpCore'
  BY <1>0, <1>1, <1>5, PcStep DEF CpuPcs, FinishedPcs, JoinedPcs, EndPcs, WhpReportsWinner
<1> QED
  BY <1>4, <1>6 DEF WhpIInv

\* A stop seen by a vCPU.
LEMMA StoppingStep == ASSUME WhpIInv, NEW c \in Vcpus, Stopping(c) PROVE WhpIInv'
<1>0. WhpCore /\ WhpPausedCount /\ ctl \in WhpCtls /\ run \in WhpRuns
  BY Fields DEF WhpIInv
<1>1. /\ cpu[c].pc = "stopping" /\ ctl' \in WhpCtls /\ Finish(c, "host-stop", LoopEnd(c))
      /\ UNCHANGED <<dog, run, rootfs>>
  BY <1>0 DEF Stopping, WhpCtls, WhpStates
<1>2. Untouched
  BY <1>0, <1>1 DEF Untouched
<1>3. WhpCore' /\ Parked(cpu') = Parked(cpu) \ {c}
  BY <1>0, <1>1, <1>2, LoopEnds, FinishStep DEF WhpReasons
<1>4. c \notin Parked(cpu)
  BY <1>1 DEF Parked, ParkedPcs
<1> QED
  BY <1>0, <1>1, <1>3, <1>4, CountSame DEF WhpIInv

\* record_error stores its message before it calls finish.
LEMMA RecordErrorStep ==
  ASSUME WhpIInv, NEW c \in Vcpus, NEW kind \in {"timeout", "fault"},
         cpu[c].pc \in {"run", "exit"}, record_error(c, kind), UNCHANGED <<ctl, dog, rootfs>>
  PROVE WhpIInv'
<1>0. WhpCore /\ WhpPausedCount /\ ctl \in WhpCtls /\ run \in WhpRuns
  BY Fields DEF WhpIInv
<1>1. /\ run' = [run EXCEPT !.error = IF @ = "none" THEN kind ELSE @]
      /\ Finish(c, "host-error", LoopEnd(c))
  BY DEF record_error
<1>2. Untouched /\ run'.error # "none" /\ run'.result = run.result /\ run'.paused = run.paused
  BY <1>0, <1>1 DEF Untouched, WhpRuns
<1>3. WhpCore' /\ Parked(cpu') = Parked(cpu) \ {c}
  BY <1>0, <1>1, <1>2, LoopEnds, FinishStep DEF WhpReasons
<1>4. c \notin Parked(cpu)
  BY DEF Parked, ParkedPcs
<1> QED
  BY <1>0, <1>2, <1>3, <1>4, CountSame DEF WhpIInv

\* A vCPU outside finish whose record becomes n.
LEMMA RecordStep ==
  ASSUME WhpIInv, NEW c \in Vcpus, NEW n \in WhpCpus, cpu' = [cpu EXCEPT ![c] = n],
         n.ret = cpu[c].ret \/ n.ret = "top", n.pc \in {"top", "exit", "cas"},
         n.pc = "exit" => n.reason # "host-error",
         n.pc = "cas" => n.reason \notin {"none", "host-error"},
         cpu[c].pc \in {"run", "exit", "cas"}, Untouched, run'.result = run.result,
         run'.paused = run.paused, UNCHANGED <<ctl, dog, rootfs>>
  PROVE WhpIInv'
<1>0. /\ WhpCore /\ WhpPausedCount /\ ctl \in WhpCtls /\ run \in WhpRuns /\ WhpReportsWinner
      /\ cpu \in [Vcpus -> WhpCpus]
  BY Fields DEF WhpIInv
<1>1. Moves(c, n)
  BY <1>0 DEF Moves, Alike
<1>2. CpuInv(c, n, run')
  <2>1. CpuInv(c, cpu[c], run)
    BY <1>0 DEF WhpCore
  <2> QED
    BY <2>1 DEF CpuInv, FinishedPcs
<1>3. WhpCore'
  BY <1>0, <1>1, <1>2, QuietStep DEF Untouched, JoinedPcs, EndPcs, WhpReportsWinner
<1>4. Parked(cpu') = Parked(cpu)
  BY <1>1, MovesParked DEF ParkedPcs
<1> QED
  BY <1>0, <1>3, <1>4, CountSame DEF WhpIInv

\* WHvRunVirtualProcessor returns.
LEMMA RunStep ==
  ASSUME WhpIInv, NEW c \in Vcpus, RunCanceled(c) \/ RunExits(c) \/ RunFails(c)
  PROVE WhpIInv'
<1>0. WhpCore /\ run \in WhpRuns /\ cpu \in [Vcpus -> WhpCpus] /\ cpu[c] \in WhpCpus
  BY Fields DEF WhpIInv
<1>1. CASE RunCanceled(c)
  <2> DEFINE n == [cpu[c] EXCEPT !.pc = "exit", !.cancel = FALSE, !.reason = "none"]
  <2>1. cpu' = [cpu EXCEPT ![c] = n] /\ cpu[c].pc = "run" /\ UNCHANGED <<ctl, dog, run, rootfs>>
    BY <1>0, <1>1 DEF RunCanceled
  <2>2. n \in WhpCpus /\ n.ret = cpu[c].ret /\ n.pc = "exit" /\ n.reason = "none"
    BY <1>0 DEF WhpCpus, CpuPcs, WhpReasons
  <2> HIDE DEF n
  <2> QED
    BY <1>0, <2>1, <2>2, RecordStep DEF Untouched
<1>2. CASE RunExits(c)
  <2>1. PICK r \in {"none", "hlt", "guest-exit", "halted-console", "other"} :
          cpu' = [cpu EXCEPT ![c].pc = "exit", ![c].reason = r]
    BY <1>2 DEF RunExits
  <2> DEFINE n == [cpu[c] EXCEPT !.pc = "exit", !.reason = r]
  <2>2. cpu' = [cpu EXCEPT ![c] = n] /\ cpu[c].pc = "run" /\ UNCHANGED <<ctl, dog, run, rootfs>>
    BY <1>0, <1>2, <2>1 DEF RunExits
  <2>3. n \in WhpCpus /\ n.ret = cpu[c].ret /\ n.pc = "exit" /\ n.reason # "host-error"
    BY <1>0 DEF WhpCpus, CpuPcs, WhpReasons
  <2> HIDE DEF n
  <2> QED
    BY <1>0, <2>2, <2>3, RecordStep DEF Untouched
<1>3. CASE RunFails(c)
  BY <1>3, RecordErrorStep DEF RunFails
<1> QED
  BY <1>1, <1>2, <1>3

\* The exit's handler.
LEMMA ExitHandledStep == ASSUME WhpIInv, NEW c \in Vcpus, ExitHandled(c) PROVE WhpIInv'
<1>0. /\ WhpCore /\ WhpPausedCount /\ run \in WhpRuns /\ ctl \in WhpCtls
      /\ cpu \in [Vcpus -> WhpCpus] /\ cpu[c] \in WhpCpus
  BY Fields DEF WhpIInv
<1>1. cpu[c].pc = "exit" /\ cpu[c].reason # "host-error" /\ UNCHANGED <<ctl, dog, rootfs>>
  BY <1>0 DEF ExitHandled, WhpCore, CpuInv
<1> DEFINE r == cpu[c].reason
           loops == r = "none" \/ (r = "hlt" /\ rootfs)
<1>2. CASE run.timeout
  BY <1>1, <1>2, RecordErrorStep DEF ExitHandled
<1>3. CASE ~run.timeout /\ loops
  <2> DEFINE n == [cpu[c] EXCEPT !.pc = "top", !.reason = "none"]
  <2>1. cpu' = [cpu EXCEPT ![c] = n] /\ run' = run
    BY <1>0, <1>3 DEF ExitHandled
  <2>2. n \in WhpCpus /\ n.ret = cpu[c].ret /\ n.pc = "top"
    BY <1>0 DEF WhpCpus, CpuPcs, WhpReasons
  <2> HIDE DEF n
  <2> QED
    BY <1>0, <1>1, <2>1, <2>2, RecordStep DEF Untouched
<1>4. CASE ~run.timeout /\ ~loops /\ r = "hlt"
  <2>1. /\ run' = [run EXCEPT !.halted = @ + 1]
        /\ \/ cpu' = [cpu EXCEPT ![c].pc = "cas", ![c].ret = "top", ![c].halted = TRUE]
           \/ cpu' = [cpu EXCEPT ![c].pc = "top", ![c].reason = "none", ![c].halted = TRUE]
    BY <1>0, <1>1, <1>4 DEF ExitHandled
  <2>2. Untouched /\ run'.result = run.result /\ run'.paused = run.paused
    BY <1>0, <2>1 DEF Untouched, WhpRuns
  <2>3. CASE cpu' = [cpu EXCEPT ![c].pc = "cas", ![c].ret = "top", ![c].halted = TRUE]
    <3> DEFINE n == [cpu[c] EXCEPT !.pc = "cas", !.ret = "top", !.halted = TRUE]
    <3>1. cpu' = [cpu EXCEPT ![c] = n]
      BY <1>0, <2>3
    <3>2. n \in WhpCpus /\ n.ret = "top" /\ n.pc = "cas" /\ n.reason = "hlt"
      BY <1>0, <1>4 DEF WhpCpus, CpuPcs, WhpReasons
    <3> HIDE DEF n
    <3> QED
      BY <1>1, <2>2, <3>1, <3>2, RecordStep
  <2>4. CASE cpu' = [cpu EXCEPT ![c].pc = "top", ![c].reason = "none", ![c].halted = TRUE]
    <3> DEFINE n == [cpu[c] EXCEPT !.pc = "top", !.reason = "none", !.halted = TRUE]
    <3>1. cpu' = [cpu EXCEPT ![c] = n]
      BY <1>0, <2>4
    <3>2. n \in WhpCpus /\ n.ret = cpu[c].ret /\ n.pc = "top"
      BY <1>0 DEF WhpCpus, CpuPcs, WhpReasons
    <3> HIDE DEF n
    <3> QED
      BY <1>1, <2>2, <3>1, <3>2, RecordStep
  <2> QED
    BY <2>1, <2>3, <2>4
<1>5. CASE ~run.timeout /\ ~loops /\ r # "hlt"
  <2>1. Finish(c, r, LoopEnd(c)) /\ run' = run /\ r \in WhpReasons \ {"none"}
    BY <1>0, <1>5 DEF ExitHandled, WhpCpus
  <2>2. Untouched
    BY <1>0, <2>1 DEF Untouched
  <2>3. WhpCore' /\ Parked(cpu') = Parked(cpu) \ {c}
    BY <1>0, <1>1, <2>1, <2>2, LoopEnds, FinishStep
  <2>4. c \notin Parked(cpu)
    BY <1>1 DEF Parked, ParkedPcs
  <2> QED
    BY <1>0, <2>1, <2>3, <2>4, CountSame DEF WhpIInv
<1> QED
  BY <1>2, <1>3, <1>4, <1>5

-----------------------------------------------------------------------------
(* The race for vm_done.                                                    *)

\* A vCPU that comes out of finish.
LEMMA ReturnsMoves ==
  ASSUME WhpCore, NEW c \in Vcpus
  PROVE LET n == [cpu[c] EXCEPT !.pc = cpu[c].ret, !.reason = "none", !.ret = "top"]
        IN  /\ Returns(c) = [cpu EXCEPT ![c] = n]
            /\ n \in WhpCpus /\ n.pc = cpu[c].ret /\ n.reason = "none" /\ n.ret = "top"
            /\ n.pc \in (IF c = 0 THEN {"top", "finish", "join"} ELSE {"top", "ended"})
<1>1. cpu \in [Vcpus -> WhpCpus] /\ cpu[c] \in WhpCpus /\ CpuInv(c, cpu[c], run)
  BY Fields DEF WhpCore
<1> QED
  BY <1>1 DEF Returns, WhpCpus, CpuPcs, WhpReasons, CpuInv

\* The compare_exchange of vm_done in finish.
LEMMA CasStep == ASSUME WhpIInv, NEW c \in Vcpus, Cas(c) PROVE WhpIInv'
<1>0. /\ WhpCore /\ WhpPausedCount /\ run \in WhpRuns /\ ctl \in WhpCtls /\ WhpReportsWinner
      /\ cpu \in [Vcpus -> WhpCpus] /\ cpu[c] \in WhpCpus /\ CpuInv(c, cpu[c], run)
  BY Fields DEF WhpIInv, WhpCore
<1>1. cpu[c].pc = "cas" /\ UNCHANGED <<ctl, dog, rootfs>>
  BY DEF Cas
<1>2. CASE run.done
  <2> DEFINE n == [cpu[c] EXCEPT !.pc = cpu[c].ret, !.reason = "none", !.ret = "top"]
  <2>1. cpu' = Returns(c) /\ run' = run
    BY <1>2 DEF Cas
  <2>2. /\ Returns(c) = [cpu EXCEPT ![c] = n] /\ n \in WhpCpus /\ n.reason = "none" /\ n.ret = "top"
        /\ n.pc \in (IF c = 0 THEN {"top", "finish", "join"} ELSE {"top", "ended"})
    BY <1>0, ReturnsMoves
  <2> HIDE DEF n
  <2>3. Moves(c, n)
    BY <1>0, <2>1, <2>2 DEF Moves, Alike
  <2>4. CpuInv(c, n, run')
    BY <1>2, <2>1, <2>2 DEF CpuInv, FinishedPcs
  <2>5. WhpCore'
    BY <1>0, <1>1, <2>1, <2>2, <2>3, <2>4, QuietStep DEF JoinedPcs, EndPcs, WhpReportsWinner
  <2>6. Parked(cpu') = Parked(cpu)
    BY <1>1, <2>2, <2>3, MovesParked DEF ParkedPcs
  <2> QED
    BY <1>0, <2>1, <2>5, <2>6, CountSame DEF WhpIInv
<1>3. CASE ~run.done
  <2> DEFINE n == [cpu[c] EXCEPT !.pc = "cancel"]
  <2>1. /\ cpu' = [cpu EXCEPT ![c] = n]
        /\ run' = [run EXCEPT !.done = TRUE, !.winner = cpu[c].reason]
    BY <1>0, <1>3 DEF Cas
  <2>2. n \in WhpCpus /\ n.pc = "cancel" /\ n.reason = cpu[c].reason /\ n.ret = cpu[c].ret
    BY <1>0 DEF WhpCpus, CpuPcs
  <2> HIDE DEF n
  <2>3. Moves(c, n) /\ cpu'[c] = n /\ \A d \in Vcpus \ {c} : cpu'[d] = cpu[d]
    BY <1>0, <2>1, <2>2 DEF Moves, Alike
  <2>4. /\ run' \in WhpRuns /\ run'.done = TRUE /\ run'.winner = cpu[c].reason
        /\ run'.reason = run.reason /\ run'.error = run.error /\ run'.result = run.result
        /\ run'.paused = run.paused
    BY <1>0, <2>1 DEF WhpRuns, WhpCpus
  <2>5. \A d \in Vcpus : ~Cancels(d) /\ cpu[d].pc \notin FinishedPcs
    BY <1>0, <1>3 DEF WhpCore, CpuInv, Cancels
  <2>6. dog # "cancelDone" /\ run.winner = "none"
    BY <1>0, <1>3 DEF WhpCore, Race
  <2>7. WhpTypeOK'
    BY <1>0, <1>1, <2>3, <2>4 DEF WhpCore, WhpTypeOK, Moves, WhpCpus, WhpRuns
  <2>8. \A d \in Vcpus : CpuInv(d, cpu'[d], run')
    <3>1. CpuInv(c, n, run')
      BY <1>0, <1>1, <2>2, <2>4 DEF CpuInv, FinishedPcs
    <3>2. ASSUME NEW d \in Vcpus \ {c} PROVE CpuInv(d, cpu[d], run')
      <4>1. CpuInv(d, cpu[d], run) /\ ~Cancels(d) /\ cpu[d].pc \notin FinishedPcs
        BY <1>0, <2>5 DEF WhpCore
      <4> QED
        BY <4>1, <2>4 DEF CpuInv, Cancels
    <3> QED
      BY <2>3, <3>1, <3>2
  <2>9. Race'
    <3>1. \A d \in Vcpus : Cancels(d)' <=> d = c
      BY <2>2, <2>3, <2>5 DEF Cancels
    <3>2. run'.winner # "none" /\ (run'.winner = "host-error" => run'.error # "none")
      BY <1>0, <1>1, <2>4 DEF CpuInv
    <3> QED
      BY <1>1, <2>4, <2>6, <3>1, <3>2 DEF Race
  <2>10. WhpJoined'
    <3>1. WhpJoined /\ cpu[0].pc \notin JoinedPcs /\ 0 \in Vcpus
      BY <1>0, <2>5, VcpusFinite DEF WhpCore, FinishedPcs, JoinedPcs
    <3>2. cpu[0].pc # "spawn"
      BY <1>1, <3>1 DEF WhpJoined
    <3>3. cpu'[0].pc \in {cpu[0].pc, "cancel"}
      BY <2>2, <2>3, <3>1
    <3> QED
      BY <3>1, <3>2, <3>3 DEF WhpJoined, JoinedPcs, EndPcs
  <2>11. WhpReportsWinner'
    BY <1>0, <2>4, <2>6 DEF WhpReportsWinner
  <2>12. Parked(cpu') = Parked(cpu)
    BY <1>1, <2>2, <2>3, MovesParked DEF ParkedPcs
  <2> QED
    BY <1>0, <2>4, <2>7, <2>8, <2>9, <2>10, <2>11, <2>12, CountSame DEF WhpIInv, WhpCore
<1> QED
  BY <1>2, <1>3

\* The winner stores its reason: from now on the stored one is the winner's.
LEMMA PublishStep == ASSUME WhpIInv, NEW c \in Vcpus, PublishAndCancel(c) PROVE WhpIInv'
<1>0. /\ WhpCore /\ WhpPausedCount /\ run \in WhpRuns /\ ctl \in WhpCtls /\ WhpReportsWinner
      /\ cpu \in [Vcpus -> WhpCpus] /\ cpu[c] \in WhpCpus /\ CpuInv(c, cpu[c], run)
  BY Fields DEF WhpIInv, WhpCore
<1> DEFINE n == [cpu[c] EXCEPT !.pc = cpu[c].ret, !.reason = "none", !.ret = "top"]
           f == [cpu EXCEPT ![c] = n]
<1>1. /\ cpu[c].pc = "cancel" /\ UNCHANGED <<ctl, dog, rootfs>>
      /\ run' = [run EXCEPT !.reason = cpu[c].reason]
      /\ cpu' = CancelAll(Returns(c))
  BY DEF PublishAndCancel
<1>2. /\ Returns(c) = f /\ n \in WhpCpus /\ n.reason = "none" /\ n.ret = "top"
      /\ n.pc \in (IF c = 0 THEN {"top", "finish", "join"} ELSE {"top", "ended"})
  BY <1>0, ReturnsMoves
<1> HIDE DEF n
<1>3. f \in [Vcpus -> WhpCpus] /\ f[c] = n /\ \A d \in Vcpus \ {c} : f[d] = cpu[d]
  BY <1>0, <1>2
<1> HIDE DEF f
<1>4. Moves(c, n)
  <2>1. cpu' = [d \in Vcpus |-> [f[d] EXCEPT !.cancel = TRUE]]
    BY <1>1, <1>2 DEF CancelAll
  <2>2. \A d \in Vcpus : cpu'[d] \in WhpCpus /\ Alike(cpu'[d], f[d])
    BY <1>3, <2>1 DEF WhpCpus, Alike
  <2> QED
    BY <1>3, <2>1, <2>2 DEF Moves, Alike
<1>5. /\ run' \in WhpRuns /\ run'.done = run.done /\ run'.winner = run.winner
      /\ run'.reason = run.winner /\ run'.error = run.error /\ run'.result = run.result
      /\ run'.paused = run.paused /\ run.done
  BY <1>0, <1>1 DEF WhpRuns, WhpCpus, CpuInv
<1>6. WhpTypeOK'
  BY <1>0, <1>1, <1>4, <1>5 DEF WhpCore, WhpTypeOK, Moves, WhpCpus, WhpRuns
<1>7. ASSUME NEW d \in Vcpus PROVE CpuInv(d, cpu'[d], run')
  <2>1. CASE d = c
    BY <2>1, <1>2, <1>4, <1>5 DEF Moves, Alike, CpuInv, FinishedPcs
  <2>2. CASE d # c
    <3>1. Alike(cpu'[d], cpu[d]) /\ CpuInv(d, cpu[d], run)
      BY <1>0, <1>4, <2>2 DEF Moves, WhpCore
    <3> QED
      BY <3>1, <1>5 DEF Alike, CpuInv
  <2> QED
    BY <2>1, <2>2
<1>8. Race'
  <2>1. \A d \in Vcpus : ~Cancels(d)'
    BY <1>0, <1>1, <1>2, <1>4 DEF Moves, Alike, Cancels, WhpCore, Race
  <2> QED
    BY <1>0, <1>1, <1>5, <2>1 DEF WhpCore, Race
<1>9. WhpJoined'
  <2>1. WhpJoined /\ 0 \in Vcpus
    BY <1>0, VcpusFinite DEF WhpCore
  <2>2. cpu[0].pc # "spawn" /\ cpu[0].pc \notin JoinedPcs
    BY <1>1, <2>1 DEF WhpJoined, JoinedPcs
  <2>3. cpu'[0].pc = cpu[0].pc \/ cpu'[0].pc \in {"top", "finish", "join"}
    BY <1>2, <1>4, <2>1 DEF Moves, Alike
  <2> QED
    BY <2>2, <2>3 DEF WhpJoined, JoinedPcs, EndPcs
<1>10. WhpReportsWinner'
  BY <1>0, <1>5 DEF WhpReportsWinner
<1>11. Parked(cpu') = Parked(cpu)
  BY <1>1, <1>2, <1>4, MovesParked DEF ParkedPcs
<1> QED
  BY <1>0, <1>5, <1>6, <1>7, <1>8, <1>9, <1>10, <1>11, CountSame DEF WhpIInv, WhpCore

-----------------------------------------------------------------------------
(* The calling thread.                                                      *)

\* The threads are created.
LEMMA SpawnStep == ASSUME WhpIInv, Spawn PROVE WhpIInv'
<1>0. /\ WhpCore /\ WhpPausedCount /\ run \in WhpRuns /\ ctl \in WhpCtls
      /\ cpu \in [Vcpus -> WhpCpus] /\ 0 \in Vcpus
  BY Fields, VcpusFinite DEF WhpIInv
<1>1. /\ cpu[0].pc = "spawn" /\ \A c \in Vcpus \ {0} : cpu[c].pc = "unborn"
      /\ cpu' = [c \in Vcpus |-> [cpu[c] EXCEPT !.pc = "top"]]
      /\ ctl' = [ctl EXCEPT !.state = "running"] /\ UNCHANGED <<dog, run, rootfs>>
  BY <1>0 DEF Spawn, WhpCore, WhpJoined
<1>2. /\ cpu' \in [Vcpus -> WhpCpus] /\ ctl' \in WhpCtls
      /\ \A c \in Vcpus : cpu'[c].pc = "top" /\ cpu'[c].ret = cpu[c].ret
  <2>1. "top" \in CpuPcs
    BY DEF CpuPcs
  <2>2. ASSUME NEW c \in Vcpus
        PROVE cpu'[c] \in WhpCpus /\ cpu'[c].pc = "top" /\ cpu'[c].ret = cpu[c].ret
    <3>1. cpu'[c] = [cpu[c] EXCEPT !.pc = "top"] /\ cpu[c] \in WhpCpus
      BY <1>0, <1>1
    <3> QED
      BY <2>1, <3>1 DEF WhpCpus
  <2>3. ctl' \in WhpCtls
    BY <1>0, <1>1 DEF WhpCtls, WhpStates
  <2> QED
    BY <1>1, <2>2, <2>3
<1>3. WhpTypeOK'
  BY <1>0, <1>1, <1>2 DEF WhpCore, WhpTypeOK, WhpCpus, WhpCtls
<1>4. \A c \in Vcpus : CpuInv(c, cpu'[c], run')
  BY <1>0, <1>2 DEF WhpCore, CpuInv, FinishedPcs
<1>5. \A c \in Vcpus : ~Cancels(c) /\ ~Cancels(c)'
  BY <1>1, <1>2 DEF Cancels
<1>6. Race'
  BY <1>0, <1>1, <1>5 DEF WhpCore, Race
<1>7. WhpJoined'
  BY <1>0, <1>2 DEF WhpJoined, JoinedPcs, EndPcs
<1>8. WhpReportsWinner'
  BY <1>0, <1>1 DEF WhpCore, WhpReportsWinner
<1>9. Parked(cpu') = Parked(cpu)
  BY <1>1, <1>2 DEF Parked, ParkedPcs
<1> QED
  BY <1>0, <1>1, <1>3, <1>4, <1>6, <1>7, <1>8, <1>9, CountSame DEF WhpIInv, WhpCore

\* The boot thread's own finish, after its loop.
LEMMA BootReturnedStep == ASSUME WhpIInv, BootReturned PROVE WhpIInv'
<1>0. WhpCore /\ WhpPausedCount /\ ctl \in WhpCtls /\ run \in WhpRuns /\ 0 \in Vcpus
  BY Fields, VcpusFinite DEF WhpIInv
<1>1. cpu[0].pc = "finish" /\ Finish(0, "host-stop", "join") /\ UNCHANGED <<ctl, dog, run, rootfs>>
  BY DEF BootReturned
<1>2. Untouched
  BY <1>0, <1>1 DEF Untouched
<1>3. WhpCore' /\ Parked(cpu') = Parked(cpu) \ {0}
  BY <1>0, <1>1, <1>2, FinishStep DEF WhpReasons
<1>4. 0 \notin Parked(cpu)
  BY <1>1 DEF Parked, ParkedPcs
<1> QED
  BY <1>0, <1>1, <1>3, <1>4, CountSame DEF WhpIInv

\* The joins and make_result: the winner's thread is over, so the reason it
\* stored is the one that is read.
LEMMA MainStep ==
  ASSUME WhpIInv, JoinAps \/ SetExited \/ SetDogDone \/ JoinDog \/ MakeResult
  PROVE WhpIInv'
<1>0. /\ WhpCore /\ WhpPausedCount /\ ctl \in WhpCtls /\ run \in WhpRuns /\ 0 \in Vcpus
      /\ WhpReportsWinner /\ WhpJoined /\ Race
  BY Fields, VcpusFinite DEF WhpIInv, WhpCore
<1>1. PICK from \in FinishedPcs \ {"returned"}, to \in JoinedPcs :
        /\ CpuAt(0, from, to)
        /\ from = "join" => \A c \in Vcpus \ {0} : cpu[c].pc = "ended"
        /\ to \in EndPcs => dog = "ended" \/ from = "result"
  <2> DEFINE P(from, to) ==
        /\ CpuAt(0, from, to)
        /\ from = "join" => \A c \in Vcpus \ {0} : cpu[c].pc = "ended"
        /\ to \in EndPcs => dog = "ended" \/ from = "result"
  <2>1. CASE JoinAps
    <3>1. P("join", "state")
      BY <2>1 DEF JoinAps, EndPcs
    <3> QED
      BY <3>1 DEF FinishedPcs, JoinedPcs
  <2>2. CASE SetExited
    <3>1. P("state", "dogDone")
      BY <2>2 DEF SetExited, EndPcs
    <3> QED
      BY <3>1 DEF FinishedPcs, JoinedPcs
  <2>3. CASE SetDogDone
    <3>1. P("dogDone", "joinDog")
      BY <2>3 DEF SetDogDone, EndPcs
    <3> QED
      BY <3>1 DEF FinishedPcs, JoinedPcs
  <2>4. CASE JoinDog
    <3>1. P("joinDog", "result")
      BY <2>4 DEF JoinDog
    <3> QED
      BY <3>1 DEF FinishedPcs, JoinedPcs
  <2>5. CASE MakeResult
    <3>1. P("result", "returned")
      BY <2>5 DEF MakeResult
    <3> QED
      BY <3>1 DEF FinishedPcs, JoinedPcs
  <2> QED
    BY <2>1, <2>2, <2>3, <2>4, <2>5
<1>2. /\ Untouched /\ run'.paused = run.paused /\ dog' = dog /\ rootfs' = rootfs
      /\ ctl' \in WhpCtls
  <2>1. ASSUME MakeResult PROVE Untouched /\ run'.paused = run.paused
    <3>1. PICK r \in WhpReasons \cup {"timeout", "fault"} : run' = [run EXCEPT !.result = r]
      BY <1>0, <2>1 DEF MakeResult, WhpRuns
    <3> QED
      BY <1>0, <3>1 DEF Untouched, WhpRuns
  <2>2. ASSUME JoinAps \/ SetExited \/ SetDogDone \/ JoinDog
        PROVE Untouched /\ run'.paused = run.paused
    BY <1>0, <2>2 DEF JoinAps, SetExited, SetDogDone, JoinDog, Untouched, WhpRuns
  <2>3. dog' = dog /\ rootfs' = rootfs /\ ctl' \in WhpCtls
    BY <1>0 DEF JoinAps, SetExited, SetDogDone, JoinDog, MakeResult, WhpCtls, WhpStates
  <2> QED
    BY <2>1, <2>2, <2>3
<1>3. cpu[0].pc = from /\ run.done
  BY <1>0, <1>1 DEF CpuAt, WhpCore, CpuInv
<1>4. to \in EndPcs => dog = "ended"
  BY <1>0, <1>1, <1>3 DEF WhpJoined, EndPcs
<1>5. \A d \in Vcpus \ {0} : cpu[d].pc = "ended"
  BY <1>0, <1>1, <1>3 DEF WhpJoined, FinishedPcs, JoinedPcs
<1>6. run'.result \in WhpReasons \ {"none"} =>
        run'.result = run.winner /\ run'.result # "host-error"
  <2>1. CASE ~MakeResult
    <3>1. run'.result = run.result
      BY <1>0, <2>1 DEF JoinAps, SetExited, SetDogDone, JoinDog, WhpRuns
    <3> QED
      BY <1>0, <3>1 DEF WhpReportsWinner
  <2>2. CASE MakeResult
    <3>1. from = "result" /\ dog = "ended"
      BY <1>0, <1>1, <1>3, <2>2 DEF MakeResult, CpuAt, WhpJoined, EndPcs
    <3>2. \A c \in Vcpus : ~Cancels(c)
      BY <1>3, <1>5, <3>1 DEF Cancels
    <3>3. run.reason = run.winner
      BY <1>0, <1>3, <3>1, <3>2 DEF Race
    <3>4. run'.result = CASE run.error # "none" -> run.error
                          [] run.error = "none" /\ run.timeout -> "timeout"
                          [] OTHER -> run.reason
      BY <1>0, <2>2 DEF MakeResult, WhpRuns
    <3>5. run'.result \in {"timeout", "fault"} \/ (run.error = "none" /\ run'.result = run.reason)
      BY <1>0, <3>4 DEF WhpRuns
    <3> QED
      BY <1>0, <3>3, <3>5 DEF Race, WhpReasons
  <2> QED
    BY <2>1, <2>2
<1>7. /\ from \notin {"cancel", "ended", "unborn"} /\ to \notin {"cas", "cancel", "exit", "spawn"}
      /\ to \in CpuPcs /\ from \notin ParkedPcs /\ to \notin ParkedPcs
  BY DEF FinishedPcs, JoinedPcs, CpuPcs, ParkedPcs
<1>8. WhpCore'
  BY <1>0, <1>1, <1>2, <1>3, <1>4, <1>5, <1>6, <1>7, PcStep
<1>9. Parked(cpu') = Parked(cpu)
  <2>1. Moves(0, [cpu[0] EXCEPT !.pc = to]) /\ [cpu[0] EXCEPT !.pc = to].pc = to
    BY <1>0, <1>1, <1>7, PcMoves DEF CpuAt
  <2> QED
    BY <2>1, <1>0, <1>3, <1>7, MovesParked
<1> QED
  BY <1>0, <1>2, <1>8, <1>9, CountSame DEF WhpIInv

-----------------------------------------------------------------------------
(* The watchdog and the host.                                               *)

\* A step of the watchdog outside the race, or of the host: no vCPU moves.
LEMMA OutsideStep ==
  ASSUME WhpIInv, cpu' = cpu \/ cpu' = CancelAll(cpu), ctl' \in WhpCtls, rootfs' = rootfs,
         Untouched, run'.result = run.result, run'.paused = run.paused,
         \/ dog' = dog
         \/ dog \notin {"ended", "cancelDone"} /\
            dog' \in {"loop", "command", "deadline", "stopping", "cas", "cancelPause",
                      "cancelTimeout", "ended"}
  PROVE WhpIInv'
<1>0. /\ WhpCore /\ WhpPausedCount /\ run \in WhpRuns /\ cpu \in [Vcpus -> WhpCpus]
      /\ WhpReportsWinner /\ WhpJoined /\ Race /\ 0 \in Vcpus
  BY Fields, VcpusFinite DEF WhpIInv, WhpCore
<1>1. cpu' \in [Vcpus -> WhpCpus] /\ \A c \in Vcpus : Alike(cpu'[c], cpu[c])
  <2>1. CASE cpu' = cpu
    BY <1>0, <2>1 DEF Alike
  <2>2. CASE cpu' = CancelAll(cpu)
    BY <1>0, <2>2 DEF CancelAll, WhpCpus, Alike
  <2> QED
    BY <2>1, <2>2
<1>2. WhpTypeOK'
  BY <1>0, <1>1 DEF WhpCore, WhpTypeOK, WhpCpus, WhpCtls, Untouched, WhpRuns
<1>3. ASSUME NEW c \in Vcpus PROVE CpuInv(c, cpu'[c], run')
  <2>1. Alike(cpu'[c], cpu[c]) /\ CpuInv(c, cpu[c], run)
    BY <1>0, <1>1 DEF WhpCore
  <2> QED
    BY <2>1 DEF Alike, CpuInv, Untouched
<1>4. \A c \in Vcpus : Cancels(c)' <=> Cancels(c)
  BY <1>1 DEF Alike, Cancels
<1>5. Race'
  BY <1>0, <1>4 DEF Race, Untouched
<1>6. WhpJoined'
  BY <1>0, <1>1 DEF WhpJoined, Alike
<1>7. WhpReportsWinner'
  BY <1>0 DEF WhpReportsWinner, Untouched
<1>8. Parked(cpu') = Parked(cpu)
  BY <1>1 DEF Alike, Parked
<1> QED
  BY <1>0, <1>2, <1>3, <1>5, <1>6, <1>7, <1>8, CountSame DEF WhpIInv, WhpCore

\* The watchdog's steps outside the race, and the host's commands.
LEMMA DogLooksStep ==
  ASSUME WhpIInv, \/ DogLoop \/ DogCommand \/ DogStopping \/ DogCancelPause \/ DogDeadline
                  \/ DogCancelTimeout \/ \E c \in {"run", "pause", "stop"} : HostIssues(c)
  PROVE WhpIInv'
<1>0. run \in WhpRuns /\ ctl \in WhpCtls
  BY Fields DEF WhpIInv
<1>1. rootfs' = rootfs /\ (cpu' = cpu \/ cpu' = CancelAll(cpu))
  BY DEF DogLoop, DogCommand, DogStopping, DogCancelPause, DogDeadline, DogCancelTimeout,
         HostIssues, DogStep
<1>2. ctl' \in WhpCtls
  <2>1. CASE \E c \in {"run", "pause", "stop"} : HostIssues(c)
    <3>1. PICK c \in {"run", "pause", "stop"} :
            /\ ctl.issued < WhpCommands /\ ctl' = [ctl EXCEPT !.command = c, !.issued = @ + 1]
      BY <2>1 DEF HostIssues
    <3>2. ctl.issued + 1 \in 0..WhpCommands
      BY <1>0, <3>1, WhpRunnerAssumption DEF WhpCtls
    <3> QED
      BY <1>0, <3>1, <3>2 DEF WhpCtls
  <2>2. CASE DogStopping
    BY <1>0, <2>2 DEF DogStopping, WhpCtls, WhpStates
  <2>3. CASE DogLoop \/ DogCommand \/ DogCancelPause \/ DogDeadline \/ DogCancelTimeout
    BY <1>0, <2>3 DEF DogLoop, DogCommand, DogCancelPause, DogDeadline, DogCancelTimeout
  <2> QED
    BY <2>1, <2>2, <2>3
<1>3. run' = run \/ run' = [run EXCEPT !.timeout = TRUE]
  BY DEF DogLoop, DogCommand, DogStopping, DogCancelPause, DogDeadline, DogCancelTimeout,
         HostIssues
<1>4. Untouched /\ run'.result = run.result /\ run'.paused = run.paused
  BY <1>0, <1>3 DEF Untouched, WhpRuns
<1>5. \/ dog' = dog
      \/ dog \notin {"ended", "cancelDone"} /\
         dog' \in {"loop", "command", "deadline", "stopping", "cas", "cancelPause",
                   "cancelTimeout", "ended"}
  BY DEF DogLoop, DogCommand, DogStopping, DogCancelPause, DogDeadline, DogCancelTimeout,
         HostIssues, DogStep
<1> QED
  BY <1>1, <1>2, <1>4, <1>5, OutsideStep

\* The watchdog's finish: the compare_exchange.
LEMMA DogCasStep == ASSUME WhpIInv, DogCas PROVE WhpIInv'
<1>0. /\ WhpCore /\ WhpPausedCount /\ run \in WhpRuns /\ ctl \in WhpCtls
      /\ WhpReportsWinner /\ WhpJoined /\ Race /\ 0 \in Vcpus
  BY Fields, VcpusFinite DEF WhpIInv, WhpCore
<1>1. CASE run.done
  <2>1. dog = "cas" /\ dog' = "ended" /\ UNCHANGED <<ctl, cpu, run, rootfs>>
    BY <1>1 DEF DogCas, DogStep
  <2>2. Untouched
    BY <1>0, <2>1 DEF Untouched
  <2> QED
    BY <1>0, <2>1, <2>2, OutsideStep
<1>2. CASE ~run.done
  <2>1. /\ dog = "cas" /\ dog' = "cancelDone" /\ UNCHANGED <<ctl, cpu, rootfs>>
        /\ run' = [run EXCEPT !.done = TRUE, !.winner = "host-stop"]
    BY <1>2 DEF DogCas, DogStep
  <2>2. /\ run' \in WhpRuns /\ run'.done = TRUE /\ run'.winner = "host-stop"
        /\ run'.reason = run.reason /\ run'.error = run.error /\ run'.result = run.result
        /\ run'.paused = run.paused
    BY <1>0, <2>1 DEF WhpRuns, WhpReasons
  <2>3. \A d \in Vcpus : ~Cancels(d)
    BY <1>0, <1>2 DEF WhpCore, CpuInv, Cancels
  <2>4. WhpTypeOK'
    BY <1>0, <2>1, <2>2 DEF WhpCore, WhpTypeOK, WhpRuns
  <2>5. ASSUME NEW c \in Vcpus PROVE CpuInv(c, cpu'[c], run')
    <3>1. CpuInv(c, cpu[c], run) /\ cpu[c].pc # "cancel"
      BY <1>0, <2>3 DEF WhpCore, Cancels
    <3> QED
      BY <3>1, <2>1, <2>2 DEF CpuInv
  <2>6. Race'
    BY <2>1, <2>2, <2>3 DEF Race, Cancels
  <2>7. WhpJoined'
    BY <1>0, <2>1 DEF WhpJoined
  <2>8. WhpReportsWinner'
    BY <1>0, <1>2, <2>2 DEF WhpReportsWinner, Race
  <2> QED
    BY <1>0, <2>1, <2>2, <2>4, <2>5, <2>6, <2>7, <2>8, CountSame DEF WhpIInv, WhpCore
<1> QED
  BY <1>1, <1>2

\* The watchdog's finish: the reason is stored, and the watchdog ends.
LEMMA DogCancelDoneStep == ASSUME WhpIInv, DogCancelDone PROVE WhpIInv'
<1>0. /\ WhpCore /\ WhpPausedCount /\ run \in WhpRuns /\ ctl \in WhpCtls
      /\ WhpReportsWinner /\ WhpJoined /\ Race /\ 0 \in Vcpus /\ cpu \in [Vcpus -> WhpCpus]
  BY Fields, VcpusFinite DEF WhpIInv, WhpCore
<1>1. /\ dog = "cancelDone" /\ dog' = "ended" /\ UNCHANGED <<ctl, rootfs>>
      /\ cpu' = CancelAll(cpu) /\ run' = [run EXCEPT !.reason = "host-stop"]
  BY DEF DogCancelDone, DogStep
<1>2. /\ run' \in WhpRuns /\ run'.done = run.done /\ run'.winner = run.winner
      /\ run'.reason = run.winner /\ run'.error = run.error /\ run'.result = run.result
      /\ run'.paused = run.paused
  BY <1>0, <1>1 DEF WhpRuns, WhpReasons, Race
<1>3. cpu' \in [Vcpus -> WhpCpus] /\ \A c \in Vcpus : Alike(cpu'[c], cpu[c])
  BY <1>0, <1>1 DEF CancelAll, WhpCpus, Alike
<1>4. WhpTypeOK'
  BY <1>0, <1>1, <1>2, <1>3 DEF WhpCore, WhpTypeOK, WhpCpus, WhpRuns
<1>5. ASSUME NEW c \in Vcpus PROVE CpuInv(c, cpu'[c], run')
  <2>1. Alike(cpu'[c], cpu[c]) /\ CpuInv(c, cpu[c], run)
    BY <1>0, <1>3 DEF WhpCore
  <2> QED
    BY <2>1, <1>2 DEF Alike, CpuInv
<1>6. \A c \in Vcpus : Cancels(c)' <=> Cancels(c)
  BY <1>3 DEF Alike, Cancels
<1>7. Race'
  BY <1>0, <1>1, <1>2, <1>6 DEF Race
<1>8. WhpJoined'
  BY <1>0, <1>1, <1>3 DEF WhpJoined, Alike
<1>9. WhpReportsWinner'
  BY <1>0, <1>2 DEF WhpReportsWinner
<1>10. Parked(cpu') = Parked(cpu)
  BY <1>3 DEF Alike, Parked
<1> QED
  BY <1>0, <1>2, <1>4, <1>5, <1>7, <1>8, <1>9, <1>10, CountSame DEF WhpIInv, WhpCore

-----------------------------------------------------------------------------
(* The theorems.                                                            *)

\* RunVm as it starts satisfies the invariant.
LEMMA WhpInitial == WhpInit => WhpIInv
<1> SUFFICES ASSUME WhpInit PROVE WhpIInv
  OBVIOUS
<1>1. \A c \in Vcpus : cpu[c] = [pc |-> IF c = 0 THEN "spawn" ELSE "unborn", halted |-> FALSE,
                                 cancel |-> FALSE, reason |-> "none", ret |-> "top"]
  BY DEF WhpInit
<1>2. WhpTypeOK
  BY <1>1, WhpRunnerAssumption DEF WhpInit, WhpTypeOK, WhpStates, WhpReasons, CpuPcs
<1>3. ASSUME NEW c \in Vcpus PROVE CpuInv(c, cpu[c], run)
  <2>1. cpu[c].pc \in {"spawn", "unborn"} /\ cpu[c].ret = "top" /\ (c # 0 => cpu[c].pc = "unborn")
    BY <1>1 DEF WhpInit
  <2> QED
    BY <2>1 DEF CpuInv, FinishedPcs
<1>4. Race
  BY <1>1 DEF WhpInit, Race, Cancels
<1>5. WhpJoined /\ WhpReportsWinner
  BY <1>1, VcpusFinite DEF WhpInit, WhpJoined, WhpReportsWinner, JoinedPcs, EndPcs
<1>6. WhpPausedCount
  <2>1. ASSUME NEW c \in Vcpus PROVE cpu[c].pc \notin {"spin", "leave"}
    BY <1>1 DEF WhpInit
  <2> QED
    BY <2>1, FS_EmptySet DEF WhpPausedCount, WhpInit
<1> QED
  BY <1>2, <1>3, <1>4, <1>5, <1>6 DEF WhpIInv, WhpCore

\* Every step keeps the invariant.
LEMMA WhpInductive == WhpIInv /\ [WhpNext]_whpVars => WhpIInv'
<1> SUFFICES ASSUME WhpIInv, [WhpNext]_whpVars PROVE WhpIInv'
  OBVIOUS
<1>1. ASSUME NEW c \in Vcpus, VcpuRuns(c) \/ RunExits(c) \/ RunFails(c) PROVE WhpIInv'
  BY <1>1, CasStep, PublishStep, LookStep, StoppingStep, PauseCountStep, PauseSpinStep,
     PauseLeaveStep, RunStep, ExitHandledStep DEF VcpuRuns
<1>2. CASE MainRuns
  BY <1>2, SpawnStep, BootReturnedStep, MainStep DEF MainRuns
<1>3. CASE DogRuns
  BY <1>3, DogLooksStep, DogCasStep, DogCancelDoneStep DEF DogRuns
<1>4. CASE \E c \in {"run", "pause", "stop"} : HostIssues(c)
  BY <1>4, DogLooksStep
<1>5. CASE UNCHANGED whpVars
  <2>1. UNCHANGED <<ctl, cpu, dog, run, rootfs>> /\ run \in WhpRuns /\ ctl \in WhpCtls
    BY <1>5, Fields DEF whpVars, WhpIInv
  <2> QED
    BY <2>1, OutsideStep DEF Untouched
<1> QED
  BY <1>1, <1>2, <1>3, <1>4, <1>5 DEF WhpNext

\* The Windows run loop is safe in every interleaving of its vCPU threads, its
\* watchdog and the host: paused_count is the number of parked vCPUs, RunVm
\* reports the reason of the thread that won vm_done and never an error as a
\* result, and no thread that captured its frame outlives it.
THEOREM WhpSafeHolds == WhpSpec => []WhpSafe
<1>1. WhpIInv => WhpSafe
  <2> SUFFICES ASSUME WhpIInv PROVE WhpSafe
    OBVIOUS
  <2>1. WhpNoThreadOutlives
    BY DEF WhpIInv, WhpCore, WhpJoined, WhpNoThreadOutlives, WhpReturned, JoinedPcs, EndPcs
  <2> QED
    BY <2>1 DEF WhpIInv, WhpCore, WhpSafe
<1> QED
  BY <1>1, WhpInitial, WhpInductive, PTL DEF WhpSpec

-----------------------------------------------------------------------------
(***************************************************************************)
(* Console input.  InputSafe says where every typed byte is; it holds       *)
(* because the bytes delivered, with the pump, in the queue and with the    *)
(* reader are at every moment one rising sequence, apart from the zeros     *)
(* that stand for Ctrl-C (Flow), and a thread holds bytes only where its pc *)
(* says so (InHands).                                                       *)
(***************************************************************************)

\* Sequences of bytes, apart from the zeros that stand for Ctrl-C.
Elems(s) == {s[i] : i \in DOMAIN s}
Below(s, t) == \A i \in DOMAIN s, j \in DOMAIN t : s[i] # 0 /\ t[j] # 0 => s[i] < t[j]
Rising(s) == \A i, j \in DOMAIN s : i < j /\ s[i] # 0 /\ s[j] # 0 => s[i] < s[j]
ZerosFirst(s) == \A i, j \in DOMAIN s : s[j] = 0 /\ i < j => s[i] = 0

\* Where the elements of a concatenation come from.
LEMMA Concatenated ==
  ASSUME NEW s \in Seq(Nat), NEW t \in Seq(Nat)
  PROVE /\ s \o t \in Seq(Nat) /\ Len(s \o t) = Len(s) + Len(t)
        /\ DOMAIN s = 1..Len(s) /\ DOMAIN t = 1..Len(t) /\ DOMAIN (s \o t) = 1..(Len(s) + Len(t))
        /\ \A i \in DOMAIN s : i \in DOMAIN (s \o t) /\ (s \o t)[i] = s[i]
        /\ \A i \in DOMAIN t : Len(s) + i \in DOMAIN (s \o t) /\ (s \o t)[Len(s) + i] = t[i]
        /\ \A i \in DOMAIN (s \o t) : IF i <= Len(s) THEN i \in DOMAIN s /\ (s \o t)[i] = s[i]
                                      ELSE i - Len(s) \in DOMAIN t /\ (s \o t)[i] = t[i - Len(s)]
  OBVIOUS

\* What a concatenation holds, and when it is in order.
LEMMA Concat ==
  ASSUME NEW s \in Seq(Nat), NEW t \in Seq(Nat)
  PROVE /\ Elems(s \o t) = Elems(s) \cup Elems(t)
        /\ Rising(s) /\ Rising(t) /\ Below(s, t) => Rising(s \o t)
        /\ \A w \in Seq(Nat) : Below(s, w) /\ Below(t, w) => Below(s \o t, w)
        /\ \A w \in Seq(Nat) : Below(w, s) /\ Below(w, t) => Below(w, s \o t)
        /\ ZerosFirst(s) /\ 0 \notin Elems(t) => ZerosFirst(s \o t)
<1> DEFINE c == s \o t
<1>1. /\ DOMAIN c \subseteq Nat /\ Len(s) \in Nat
      /\ \A i \in DOMAIN s : i \in DOMAIN c /\ c[i] = s[i]
      /\ \A i \in DOMAIN t : Len(s) + i \in DOMAIN c /\ c[Len(s) + i] = t[i]
      /\ \A i \in DOMAIN c : IF i <= Len(s) THEN i \in DOMAIN s /\ c[i] = s[i]
                             ELSE i - Len(s) \in DOMAIN t /\ c[i] = t[i - Len(s)]
  BY Concatenated
<1>2. DOMAIN s = 1..Len(s) /\ DOMAIN t \subseteq Nat
  OBVIOUS
<1> HIDE DEF c
<1>3. Elems(c) = Elems(s) \cup Elems(t)
  BY <1>1 DEF Elems
<1>4. ASSUME Rising(s), Rising(t), Below(s, t) PROVE Rising(c)
  <2> SUFFICES ASSUME NEW i \in DOMAIN c, NEW j \in DOMAIN c, i < j, c[i] # 0, c[j] # 0 PROVE c[i] < c[j]
    BY DEF Rising
  <2>1. CASE j <= Len(s)
    BY <1>1, <1>2, <1>4, <2>1 DEF Rising
  <2>2. CASE i <= Len(s) /\ ~(j <= Len(s))
    BY <1>1, <1>2, <1>4, <2>2 DEF Below
  <2>3. CASE ~(i <= Len(s))
    BY <1>1, <1>2, <1>4, <2>3 DEF Rising
  <2> QED
    BY <1>1, <2>1, <2>2, <2>3
<1>5. ASSUME NEW w \in Seq(Nat) PROVE /\ Below(s, w) /\ Below(t, w) => Below(c, w)
                                      /\ Below(w, s) /\ Below(w, t) => Below(w, c)
  BY <1>1 DEF Below
<1>6. ASSUME ZerosFirst(s), 0 \notin Elems(t) PROVE ZerosFirst(c)
  BY <1>1, <1>2, <1>6 DEF ZerosFirst, Elems
<1> QED
  BY <1>3, <1>4, <1>5, <1>6 DEF c

\* A part of a sequence.
LEMMA Part ==
  ASSUME NEW s \in Seq(Nat), NEW m \in 1..(Len(s) + 1), NEW n \in 0..Len(s)
  PROVE /\ SubSeq(s, m, n) \in Seq(Nat)
        /\ Len(SubSeq(s, m, n)) = IF m <= n THEN n - m + 1 ELSE 0
        /\ Elems(SubSeq(s, m, n)) = {s[i] : i \in m..n}
        /\ Rising(s) => Rising(SubSeq(s, m, n))
        /\ ZerosFirst(s) => ZerosFirst(SubSeq(s, m, n))
        /\ \A w \in Seq(Nat) : Below(s, w) => Below(SubSeq(s, m, n), w)
        /\ \A w \in Seq(Nat) : Below(w, s) => Below(w, SubSeq(s, m, n))
<1> DEFINE p == SubSeq(s, m, n)
<1>0. \A i \in m..n : s[i] \in Nat
  OBVIOUS
<1>1. /\ p \in Seq(Nat) /\ Len(p) = IF m <= n THEN n - m + 1 ELSE 0
      /\ \A i \in 1..(n - m + 1) : p[i] = s[m + i - 1]
  BY <1>0, SubSeqProperties
<1>2. DOMAIN p = 1..(n - m + 1)
  BY <1>1
<1> HIDE DEF p
<1> m \in Nat \ {0} /\ n \in Nat /\ n <= Len(s) /\ DOMAIN s = 1..Len(s) /\ Len(s) \in Nat
  OBVIOUS
<1>7. ASSUME NEW i \in DOMAIN p
      PROVE i \in Nat /\ m + i - 1 \in m..n /\ m + i - 1 \in DOMAIN s /\ p[i] = s[m + i - 1]
  <2>1. i \in 1..(n - m + 1)
    BY <1>2
  <2>2. p[i] = s[m + i - 1]
    BY <1>1, <2>1
  <2>3. i \in Nat /\ 1 <= i /\ i <= n - m + 1
    BY <2>1
  <2> QED
    BY <2>2, <2>3
<1>8. ASSUME NEW i \in m..n PROVE i - m + 1 \in DOMAIN p /\ p[i - m + 1] = s[i]
  <2>1. i - m + 1 \in 1..(n - m + 1) /\ m + (i - m + 1) - 1 = i
    OBVIOUS
  <2> QED
    BY <1>1, <1>2, <2>1
<1>3. Elems(p) = {s[i] : i \in m..n}
  <2>1. ASSUME NEW x \in Elems(p) PROVE \E i \in m..n : x = s[i]
    BY <1>7 DEF Elems
  <2>2. ASSUME NEW i \in m..n PROVE s[i] \in Elems(p)
    BY <1>8 DEF Elems
  <2> QED
    BY <2>1, <2>2
<1>4. Rising(s) => Rising(p)
  BY <1>7 DEF Rising
<1>5. ZerosFirst(s) => ZerosFirst(p)
  BY <1>7 DEF ZerosFirst
<1>6. ASSUME NEW w \in Seq(Nat) PROVE (Below(s, w) => Below(p, w)) /\ (Below(w, s) => Below(w, p))
  BY <1>7 DEF Below
<1> QED
  BY <1>1, <1>3, <1>4, <1>5, <1>6 DEF p

\* A sequence cut in two.
LEMMA Cut ==
  ASSUME NEW s \in Seq(Nat), NEW n \in 0..Len(s)
  PROVE /\ Elems(SubSeq(s, 1, n)) \cup Elems(SubSeq(s, n + 1, Len(s))) = Elems(s)
        /\ Rising(s) => Below(SubSeq(s, 1, n), SubSeq(s, n + 1, Len(s)))
<1>0. 1 \in 1..(Len(s) + 1) /\ n + 1 \in 1..(Len(s) + 1) /\ Len(s) \in 0..Len(s) /\ DOMAIN s = 1..Len(s)
  OBVIOUS
<1>1. Elems(SubSeq(s, 1, n)) = {s[i] : i \in 1..n}
  BY <1>0, Part
<1>2. Elems(SubSeq(s, n + 1, Len(s))) = {s[i] : i \in (n + 1)..Len(s)}
  BY <1>0, Part
<1>3. Elems(s) = {s[i] : i \in 1..Len(s)}
  BY DEF Elems
<1>4. ASSUME Rising(s) PROVE Below(SubSeq(s, 1, n), SubSeq(s, n + 1, Len(s)))
  <2>1. \A a \in 1..n, b \in (n + 1)..Len(s) : s[a] # 0 /\ s[b] # 0 => s[a] < s[b]
    BY <1>4 DEF Rising
  <2> QED
    BY <1>1, <1>2, <2>1 DEF Below, Elems
<1> QED
  BY <1>1, <1>2, <1>3, <1>4

\* Nothing typed.
LEMMA Empty ==
  /\ <<>> \in Seq(Nat) /\ Len(<<>>) = 0 /\ Elems(<<>>) = {} /\ Rising(<<>>) /\ ZerosFirst(<<>>)
  /\ \A w : Below(<<>>, w) /\ Below(w, <<>>)
  BY DEF Elems, Rising, ZerosFirst, Below

\* The bytes on their way: at the UART, with the pump, in the queue and with the
\* reader, when n have been typed.
Flow(d, p, q, r, n) ==
  /\ n \in Nat
  /\ d \in Seq(Nat) /\ p \in Seq(Nat) /\ q \in Seq(Nat) /\ r \in Seq(Nat)
  /\ Elems(d) \cup Elems(p) \cup Elems(q) \cup Elems(r) \subseteq 0..n
  /\ Rising(d) /\ Rising(p) /\ Rising(q) /\ Rising(r)
  /\ Below(d, p) /\ Below(d, q) /\ Below(d, r) /\ Below(p, q) /\ Below(p, r) /\ Below(q, r)
  /\ ZerosFirst(q) /\ 0 \notin Elems(r)

\* The reader brings k new bytes.
LEMMA FlowRead ==
  ASSUME NEW d, NEW p, NEW q, NEW n, Flow(d, p, q, <<>>, n), NEW k \in Nat \ {0}
  PROVE LET r == [i \in 1..k |-> n + i]
        IN  Flow(d, p, q, r, n + k) /\ Elems(r) = (n + 1)..(n + k)
<1> DEFINE r == [i \in 1..k |-> n + i]
<1>0. n \in Nat
  BY DEF Flow
<1>1. r \in Seq(Nat) /\ DOMAIN r = 1..k /\ \A i \in 1..k : r[i] = n + i
  BY <1>0
<1> HIDE DEF r
<1>2. Elems(r) = (n + 1)..(n + k)
  <2>1. ASSUME NEW x \in (n + 1)..(n + k) PROVE x \in Elems(r)
    <3>1. x - n \in 1..k /\ n + (x - n) = x
      BY <1>0
    <3> QED
      BY <1>1, <3>1 DEF Elems
  <2>2. ASSUME NEW x \in Elems(r) PROVE x \in (n + 1)..(n + k)
    BY <1>0, <1>1 DEF Elems
  <2> QED
    BY <2>1, <2>2
<1>3. Rising(r)
  BY <1>0, <1>1 DEF Rising
<1>4. \A s \in Seq(Nat) : Elems(s) \subseteq 0..n => Below(s, r)
  <2> SUFFICES ASSUME NEW s \in Seq(Nat), Elems(s) \subseteq 0..n, NEW i \in DOMAIN s, NEW j \in DOMAIN r
               PROVE s[i] < r[j]
    BY DEF Below
  <2>1. s[i] \in 0..n
    BY DEF Elems
  <2> QED
    BY <1>0, <1>1, <2>1
<1>5. Elems(r) \subseteq 0..(n + k) /\ 0 \notin Elems(r) /\ 0..n \subseteq 0..(n + k) /\ n + k \in Nat
  BY <1>0, <1>2
<1>6. Flow(d, p, q, r, n + k)
  BY <1>1, <1>3, <1>4, <1>5 DEF Flow
<1> QED
  BY <1>2, <1>6 DEF r

\* The reader queues what it brought.
LEMMA FlowQueue ==
  ASSUME NEW d, NEW p, NEW q, NEW r, NEW n, Flow(d, p, q, r, n)
  PROVE Flow(d, p, q \o r, <<>>, n) /\ Elems(q \o r) = Elems(q) \cup Elems(r)
<1>1. d \in Seq(Nat) /\ p \in Seq(Nat) /\ q \in Seq(Nat) /\ r \in Seq(Nat)
  BY DEF Flow
<1>2. q \o r \in Seq(Nat) /\ Elems(q \o r) = Elems(q) \cup Elems(r)
  BY <1>1, Concat
<1>3. Rising(q \o r) /\ Below(d, q \o r) /\ Below(p, q \o r) /\ ZerosFirst(q \o r)
  BY <1>1, Concat DEF Flow
<1> QED
  BY <1>1, <1>2, <1>3, Empty DEF Flow

\* The reader or the pump drops what it holds.
LEMMA FlowDrop ==
  ASSUME NEW d, NEW p, NEW q, NEW r, NEW n, Flow(d, p, q, r, n)
  PROVE Flow(d, p, q, <<>>, n) /\ Flow(d, <<>>, q, r, n)
  BY Empty DEF Flow

\* A Ctrl-C goes in front, and the bytes behind the first k leave the queue.
CtrlCFront(d, p, q, r, n, k, front) ==
  /\ Flow(d, p, front, r, n) /\ Len(front) = k + 1
  /\ Elems(q) = {q[i] : i \in 1..k} \cup {q[i] : i \in (k + 1)..Len(q)}
  /\ Elems(front) = {0} \cup {q[i] : i \in 1..k}
LEMMA FlowCtrlC ==
  ASSUME NEW d, NEW p, NEW q, NEW r, NEW n, Flow(d, p, q, r, n), NEW k \in 0..Len(q)
  PROVE CtrlCFront(d, p, q, r, n, k, <<0>> \o SubSeq(q, 1, k))
<1> DEFINE s == SubSeq(q, 1, k)
<1>1. n \in Nat /\ d \in Seq(Nat) /\ p \in Seq(Nat) /\ q \in Seq(Nat) /\ r \in Seq(Nat)
  BY DEF Flow
<1>2. /\ s \in Seq(Nat) /\ Len(s) = k /\ Elems(s) = {q[i] : i \in 1..k} /\ Rising(s) /\ ZerosFirst(s)
      /\ Below(d, s) /\ Below(p, s) /\ Below(s, r)
  <2>1. 1 \in 1..(Len(q) + 1) /\ k \in Nat
    BY <1>1
  <2> QED
    BY <1>1, <2>1, Part DEF Flow
<1>3. Elems(q) = {q[i] : i \in 1..k} \cup {q[i] : i \in (k + 1)..Len(q)}
  <2>1. DOMAIN q = 1..Len(q) /\ 1..Len(q) = (1..k) \cup ((k + 1)..Len(q))
    BY <1>1
  <2> QED
    BY <2>1 DEF Elems
<1>4. /\ <<0>> \in Seq(Nat) /\ DOMAIN <<0>> = {1} /\ <<0>>[1] = 0 /\ Len(<<0>>) = 1
  OBVIOUS
<1>5. /\ Elems(<<0>>) = {0} /\ Rising(<<0>>) /\ \A w \in Seq(Nat) : Below(<<0>>, w) /\ Below(w, <<0>>)
  BY <1>4 DEF Elems, Rising, Below
<1> HIDE DEF s
<1> DEFINE q1 == <<0>> \o s
<1>6. /\ q1 \in Seq(Nat) /\ Len(q1) = k + 1
      /\ \A i \in DOMAIN q1 : i \in Nat /\ IF i = 1 THEN q1[i] = 0 ELSE i - 1 \in DOMAIN s /\ q1[i] = s[i - 1]
  BY <1>2, <1>4
<1>7. /\ Elems(q1) = {0} \cup Elems(s) /\ Rising(q1) /\ Below(d, q1) /\ Below(p, q1) /\ Below(q1, r)
  BY <1>1, <1>2, <1>4, <1>5, Concat
<1> HIDE DEF q1
<1>8. ZerosFirst(q1)
  <2> SUFFICES ASSUME NEW i \in DOMAIN q1, NEW j \in DOMAIN q1, q1[j] = 0, i < j PROVE q1[i] = 0
    BY DEF ZerosFirst
  <2>1. i \in Nat /\ j \in Nat /\ i # 0
    BY <1>6
  <2>2. CASE i # 1
    BY <1>2, <1>6, <2>1, <2>2 DEF ZerosFirst
  <2> QED
    BY <1>6, <2>2
<1>9. Elems(s) \subseteq Elems(q)
  BY <1>2, <1>3
<1>10. Flow(d, p, q1, r, n)
  BY <1>1, <1>6, <1>7, <1>8, <1>9 DEF Flow
<1> QED
  <2>1. CtrlCFront(d, p, q, r, n, k, q1)
    BY <1>2, <1>3, <1>6, <1>7, <1>10 DEF CtrlCFront
  <2> QED
    BY <2>1 DEF q1, s

\* The pump takes the first k bytes of the queue.
LEMMA FlowTake ==
  ASSUME NEW d, NEW q, NEW r, NEW n, Flow(d, <<>>, q, r, n), NEW k \in 0..Len(q)
  PROVE LET a == SubSeq(q, 1, k)
            b == SubSeq(q, k + 1, Len(q))
        IN  Flow(d, a, b, r, n) /\ Elems(q) = Elems(a) \cup Elems(b) /\ Len(b) <= Len(q)
<1> DEFINE a == SubSeq(q, 1, k)
           b == SubSeq(q, k + 1, Len(q))
<1>1. d \in Seq(Nat) /\ q \in Seq(Nat) /\ r \in Seq(Nat) /\ Len(q) \in Nat
  BY DEF Flow
<1>2. 1 \in 1..(Len(q) + 1) /\ k + 1 \in 1..(Len(q) + 1) /\ Len(q) \in 0..Len(q)
  BY <1>1
<1>3. a \in Seq(Nat) /\ Rising(a) /\ Below(d, a) /\ Below(a, r)
  BY <1>1, <1>2, Part DEF Flow
<1>4. /\ b \in Seq(Nat) /\ Rising(b) /\ Below(d, b) /\ Below(b, r) /\ ZerosFirst(b)
      /\ Len(b) = IF k + 1 <= Len(q) THEN Len(q) - (k + 1) + 1 ELSE 0
  BY <1>1, <1>2, Part DEF Flow
<1>5. Elems(q) = Elems(a) \cup Elems(b) /\ Below(a, b)
  BY <1>1, Cut DEF Flow
<1>6. Flow(d, a, b, r, n)
  <2> HIDE DEF a, b
  <2> QED
    BY <1>1, <1>3, <1>4, <1>5, Empty DEF Flow
<1>7. Len(b) <= Len(q)
  BY <1>1, <1>4
<1> QED
  BY <1>5, <1>6, <1>7

\* The pump delivers its first k bytes.
LEMMA FlowDeliver ==
  ASSUME NEW d, NEW p, NEW q, NEW r, NEW n, Flow(d, p, q, r, n), NEW k \in 0..Len(p)
  PROVE LET a == SubSeq(p, 1, k)
            b == SubSeq(p, k + 1, Len(p))
        IN  Flow(d \o a, b, q, r, n) /\ Elems(d \o a) \cup Elems(b) = Elems(d) \cup Elems(p)
<1> DEFINE a == SubSeq(p, 1, k)
           b == SubSeq(p, k + 1, Len(p))
<1>1. d \in Seq(Nat) /\ p \in Seq(Nat) /\ q \in Seq(Nat) /\ r \in Seq(Nat) /\ Len(p) \in Nat
  BY DEF Flow
<1>2. 1 \in 1..(Len(p) + 1) /\ k + 1 \in 1..(Len(p) + 1) /\ Len(p) \in 0..Len(p)
  BY <1>1
<1>3. a \in Seq(Nat) /\ Rising(a) /\ Below(d, a) /\ Below(a, q) /\ Below(a, r)
  BY <1>1, <1>2, Part DEF Flow
<1>4. b \in Seq(Nat) /\ Rising(b) /\ Below(d, b) /\ Below(b, q) /\ Below(b, r)
  BY <1>1, <1>2, Part DEF Flow
<1>5. Elems(p) = Elems(a) \cup Elems(b) /\ Below(a, b)
  BY <1>1, Cut DEF Flow
<1> HIDE DEF a, b
<1>6. d \o a \in Seq(Nat) /\ Elems(d \o a) = Elems(d) \cup Elems(a) /\ Rising(d \o a)
  BY <1>1, <1>3, Concat DEF Flow
<1>7. Below(d \o a, b) /\ Below(d \o a, q) /\ Below(d \o a, r)
  BY <1>1, <1>3, <1>4, <1>5, Concat DEF Flow
<1>8. Flow(d \o a, b, q, r, n)
  BY <1>1, <1>4, <1>5, <1>6, <1>7 DEF Flow
<1> QED
  BY <1>5, <1>6, <1>8 DEF a, b

-----------------------------------------------------------------------------
(* The invariant.                                                           *)

ReaderPcs == {"loop", "call", "read", "put", "drowsy", "asleep", "notify", "ended"}
PumpPcs == {"put", "drowsy", "asleep", "notify", "deliver", "ended"}

InShape ==
  /\ reader \in [pc : ReaderPcs, buf : Seq(Nat)] /\ pump \in [pc : PumpPcs, buf : Seq(Nat)]
  /\ closer \in {"no", "cancel", "joinReader", "notify", "joinPump", "returned"}
  /\ mu \in {"free", "reader", "pump"}
  /\ inq \in Seq(Nat) /\ Len(inq) <= kHostInputQueueLimit + 1
  /\ done \in BOOLEAN /\ typed \in 0..TypedBytes
  /\ uart \in [delivered : Seq(Nat), room : 0..UartRoom]
  /\ ctrlc \in 0..MaxInterrupts
  /\ cut \in [bytes : SUBSET Bytes, missed : BOOLEAN, late : BOOLEAN]

\* Who holds bytes.
InHands ==
  /\ reader.pc \notin {"put", "drowsy", "asleep"} => reader.buf = <<>>
  /\ pump.pc \notin {"notify", "deliver"} => pump.buf = <<>>

\* What stop_input has waited for.
InEnded ==
  /\ closer \in {"notify", "joinPump", "returned"} => reader.pc = "ended"
  /\ closer = "returned" => pump.pc = "ended"

InFlow == Flow(uart.delivered, pump.buf, inq, reader.buf, typed)
Whereabouts == Elems(uart.delivered) \cup Elems(pump.buf) \cup Elems(inq) \cup Elems(reader.buf) \cup cut.bytes
InKept == ~done => 1..typed \subseteq Whereabouts

InIInv == InShape /\ InHands /\ InEnded /\ InFlow /\ InKept

LEMMA InputNumbers ==
  /\ TypedBytes \in Nat /\ kHostInputQueueLimit \in Nat \ {0} /\ kHostInputPumpChunk \in Nat
  /\ UartRoom \in Nat /\ MaxInterrupts \in Nat /\ ReadChunks \subseteq Nat \ {0}
  BY InputAssumption

\* Waking a thread moves its program counter and nothing else.
LEMMA WokenThread ==
  ASSUME NEW P, "put" \in P, NEW t \in [pc : P, buf : Seq(Nat)]
  PROVE /\ Woken(t) \in [pc : P, buf : Seq(Nat)] /\ Woken(t).buf = t.buf
        /\ Woken(t).pc = (IF t.pc = "asleep" THEN "put" ELSE t.pc)
  BY DEF Woken

\* Steps that move no byte.
LEMMA InControlStep ==
  ASSUME InIInv, InShape', InHands', InEnded',
         UNCHANGED <<inq, typed>>, done => done',
         reader'.buf = reader.buf, pump'.buf = pump.buf, uart'.delivered = uart.delivered,
         cut'.bytes = cut.bytes
  PROVE InIInv'
  BY DEF InIInv, InFlow, InKept, Whereabouts, InShape

LEMMA InInitial == InInit => InIInv
<1> SUFFICES ASSUME InInit PROVE InIInv
  OBVIOUS
<1>1. /\ InShape /\ InHands /\ InEnded
  <2>1. /\ reader \in [pc : ReaderPcs, buf : Seq(Nat)] /\ pump \in [pc : PumpPcs, buf : Seq(Nat)]
        /\ uart \in [delivered : Seq(Nat), room : 0..UartRoom] /\ inq \in Seq(Nat) /\ Len(inq) = 0
    BY InputNumbers, Empty DEF InInit, ReaderPcs, PumpPcs
  <2>2. 0 <= kHostInputQueueLimit + 1 /\ 0 \in 0..TypedBytes /\ MaxInterrupts \in 0..MaxInterrupts
    BY InputNumbers
  <2>3. cut \in [bytes : SUBSET Bytes, missed : BOOLEAN, late : BOOLEAN]
    BY DEF InInit
  <2> QED
    BY <2>1, <2>2, <2>3 DEF InInit, InShape, InHands, InEnded
<1>2. InFlow
  BY Empty DEF InInit, InFlow, Flow
<1>3. InKept
  BY DEF InInit, InKept
<1> QED
  BY <1>1, <1>2, <1>3 DEF InIInv

LEMMA ReaderStep == InIInv /\ ReaderRuns => InIInv'
<1> SUFFICES ASSUME InIInv, ReaderRuns PROVE InIInv'
  OBVIOUS
<1> USE DEF ReaderPcs, PumpPcs
<1>1. CASE ReaderLoop
  <2>1. reader'.buf = reader.buf /\ UNCHANGED <<pump, closer, mu, inq, done, typed, uart, ctrlc, cut>>
    BY <1>1 DEF ReaderLoop, InIInv, InShape
  <2>2. InShape' /\ InHands' /\ InEnded'
    BY <1>1, <2>1 DEF ReaderLoop, InIInv, InShape, InHands, InEnded, Bytes
  <2> QED
    BY <2>1, <2>2, InControlStep
<1>5. CASE CallsReadFile
  <2>1. reader'.buf = reader.buf /\ UNCHANGED <<pump, closer, mu, inq, done, typed, uart, ctrlc, cut>>
    BY <1>5 DEF CallsReadFile, InIInv, InShape
  <2>2. InShape' /\ InHands' /\ InEnded'
    BY <1>5, <2>1 DEF CallsReadFile, InIInv, InShape, InHands, InEnded, Bytes
  <2> QED
    BY <2>1, <2>2, InControlStep
<1>2. CASE ReaderSleeps
  <2>1. reader'.buf = reader.buf /\ UNCHANGED <<pump, closer, inq, done, typed, uart, ctrlc, cut>>
    BY <1>2 DEF ReaderSleeps, InIInv, InShape
  <2>2. InShape' /\ InHands' /\ InEnded'
    BY <1>2, <2>1 DEF ReaderSleeps, InIInv, InShape, InHands, InEnded, Bytes
  <2> QED
    BY <2>1, <2>2, InControlStep
<1>3. CASE ReaderNotifies
  <2>1. pump \in [pc : PumpPcs, buf : Seq(Nat)] /\ "put" \in PumpPcs
    BY DEF InIInv, InShape
  <2>2. /\ pump' \in [pc : PumpPcs, buf : Seq(Nat)] /\ pump'.buf = pump.buf
        /\ pump'.pc = (IF pump.pc = "asleep" THEN "put" ELSE pump.pc)
    BY <1>3, <2>1, WokenThread DEF ReaderNotifies
  <2>3. reader'.buf = reader.buf /\ UNCHANGED <<closer, mu, inq, done, typed, uart, ctrlc, cut>>
    BY <1>3 DEF ReaderNotifies, InIInv, InShape
  <2>4. InShape' /\ InHands' /\ InEnded'
    BY <1>3, <2>2, <2>3 DEF ReaderNotifies, InIInv, InShape, InHands, InEnded, Bytes
  <2> QED
    BY <2>2, <2>3, <2>4, InControlStep
<1>4. CASE QueueHostInput
  <2>1. reader.pc = "put" /\ UNCHANGED <<pump, closer, done, typed, uart, ctrlc, cut>>
    BY <1>4 DEF QueueHostInput
  <2>2. CASE reader' = [reader EXCEPT !.pc = "drowsy"] /\ mu' = "reader" /\ UNCHANGED inq
    <3>1. reader'.buf = reader.buf
      BY <2>2 DEF InIInv, InShape
    <3>2. InShape' /\ InHands' /\ InEnded'
      BY <2>1, <2>2 DEF InIInv, InShape, InHands, InEnded, Bytes
    <3> QED
      BY <2>1, <2>2, <3>1, <3>2, InControlStep
  <2>3. CASE done /\ reader' = [pc |-> "loop", buf |-> <<>>] /\ UNCHANGED <<mu, inq>>
    <3>1. InShape' /\ InHands' /\ InEnded'
      BY <2>1, <2>3, Empty DEF InIInv, InShape, InHands, InEnded, Bytes
    <3>2. InFlow' /\ InKept'
      BY <2>1, <2>3, FlowDrop DEF InIInv, InFlow, InKept
    <3> QED
      BY <3>1, <3>2 DEF InIInv
  <2>4. CASE /\ ~done /\ Len(inq) + Len(reader.buf) <= kHostInputQueueLimit
             /\ inq' = inq \o reader.buf /\ reader' = [pc |-> "notify", buf |-> <<>>] /\ UNCHANGED mu
    <3>1. inq' \in Seq(Nat) /\ Len(inq') = Len(inq) + Len(reader.buf)
      BY <2>4 DEF InIInv, InShape
    <3>2. InShape' /\ InHands' /\ InEnded'
      BY <2>1, <2>4, <3>1, Empty, InputNumbers DEF InIInv, InShape, InHands, InEnded, Bytes
    <3>3. InFlow' /\ Elems(inq') = Elems(inq) \cup Elems(reader.buf)
      BY <2>1, <2>4, FlowQueue DEF InIInv, InFlow
    <3>4. InKept'
      BY <2>1, <2>4, <3>3 DEF InIInv, InKept, Whereabouts
    <3> QED
      BY <3>2, <3>3, <3>4 DEF InIInv
  <2> QED
    BY <1>4, <2>2, <2>3, <2>4 DEF QueueHostInput
<1> QED
  BY <1>1, <1>2, <1>3, <1>4, <1>5 DEF ReaderRuns

LEMMA ReadFileStep == InIInv /\ ReadFile => InIInv'
<1> SUFFICES ASSUME InIInv, ReadFile PROVE InIInv'
  OBVIOUS
<1> USE DEF ReaderPcs, PumpPcs
<1>1. /\ reader.pc = "read" /\ reader.buf = <<>> /\ closer \notin {"notify", "joinPump", "returned"}
      /\ UNCHANGED <<pump, closer, mu, inq, done, uart, ctrlc, cut>>
  BY DEF ReadFile, InIInv, InHands, InEnded
<1>2. CASE reader' = [reader EXCEPT !.pc = "ended"] /\ UNCHANGED typed
  <2>1. reader'.buf = reader.buf
    BY <1>2 DEF InIInv, InShape
  <2>2. InShape' /\ InHands' /\ InEnded'
    BY <1>1, <1>2 DEF InIInv, InShape, InHands, InEnded, Bytes
  <2> QED
    BY <1>1, <1>2, <2>1, <2>2, InControlStep
<1>3. ASSUME NEW n \in ReadChunks, typed + n <= TypedBytes, typed' = typed + n,
             reader' = [pc |-> "put", buf |-> [i \in 1..n |-> typed + i]]
      PROVE InIInv'
  <2>1. n \in Nat \ {0} /\ typed \in Nat
    BY InputNumbers DEF InIInv, InShape
  <2>2. Flow(uart.delivered, pump.buf, inq, reader'.buf, typed + n) /\ Elems(reader'.buf) = (typed + 1)..(typed + n)
    <3> DEFINE r == [i \in 1..n |-> typed + i]
    <3>1. Flow(uart.delivered, pump.buf, inq, <<>>, typed)
      BY <1>1 DEF InIInv, InFlow
    <3>2. Flow(uart.delivered, pump.buf, inq, r, typed + n) /\ Elems(r) = (typed + 1)..(typed + n)
      BY <2>1, <3>1, FlowRead
    <3>3. reader'.buf = r
      BY <1>3
    <3> QED
      BY <3>2, <3>3, Zenon
  <2>3. InFlow'
    BY <1>1, <1>3, <2>2 DEF InFlow
  <2>4. InShape' /\ InHands' /\ InEnded'
    <3>1. reader'.buf \in Seq(Nat)
      BY <2>2 DEF Flow
    <3>2. typed' \in 0..TypedBytes
      BY <1>3, <2>1, InputNumbers
    <3>3. reader' \in [pc : ReaderPcs, buf : Seq(Nat)] /\ reader'.pc = "put"
      BY <1>3, <3>1
    <3> QED
      BY <1>1, <3>2, <3>3 DEF InIInv, InShape, InHands, InEnded, Bytes
  <2>5. InKept'
    <3> SUFFICES ASSUME ~done, NEW b \in 1..(typed + n) PROVE b \in Whereabouts'
      BY <1>1, <1>3 DEF InKept
    <3>1. CASE b \in 1..typed
      BY <1>1, <3>1, Empty DEF InIInv, InKept, Whereabouts
    <3>2. CASE b \in (typed + 1)..(typed + n)
      BY <2>2, <3>2 DEF Whereabouts
    <3> QED
      BY <2>1, <3>1, <3>2
  <2> QED
    BY <2>3, <2>4, <2>5 DEF InIInv
<1> QED
  BY <1>2, <1>3 DEF ReadFile

LEMMA CtrlCStep == InIInv /\ CtrlC => InIInv'
<1> SUFFICES ASSUME InIInv, CtrlC PROVE InIInv'
  OBVIOUS
<1> USE DEF ReaderPcs, PumpPcs
<1> DEFINE keep == IF Len(inq) + 1 > kHostInputQueueLimit /\ inq # <<>>
                   THEN kHostInputQueueLimit - 1 ELSE Len(inq)
           lost == {inq[i] : i \in (keep + 1)..Len(inq)}
<1>1. /\ closer # "returned" /\ ctrlc > 0 /\ ctrlc' = ctrlc - 1 /\ inq' = <<0>> \o SubSeq(inq, 1, keep)
      /\ cut' = [cut EXCEPT !.bytes = @ \cup lost]
      /\ reader' = Woken(reader) /\ pump' = Woken(pump) /\ UNCHANGED <<closer, mu, done, typed, uart>>
  BY DEF CtrlC
<1>2. /\ reader \in [pc : ReaderPcs, buf : Seq(Nat)] /\ pump \in [pc : PumpPcs, buf : Seq(Nat)]
      /\ inq \in Seq(Nat) /\ Len(inq) \in Nat /\ cut \in [bytes : SUBSET Bytes, missed : BOOLEAN, late : BOOLEAN]
      /\ typed \in 0..TypedBytes
  BY DEF InIInv, InShape
<1>3. /\ reader' \in [pc : ReaderPcs, buf : Seq(Nat)] /\ reader'.buf = reader.buf
      /\ reader'.pc = (IF reader.pc = "asleep" THEN "put" ELSE reader.pc)
  <2>1. "put" \in ReaderPcs
    OBVIOUS
  <2>2. reader' = Woken(reader) /\ reader \in [pc : ReaderPcs, buf : Seq(Nat)]
    BY <1>1, <1>2
  <2> HIDE DEF ReaderPcs
  <2> QED
    BY <2>1, <2>2, WokenThread
<1>4. /\ pump' \in [pc : PumpPcs, buf : Seq(Nat)] /\ pump'.buf = pump.buf
      /\ pump'.pc = (IF pump.pc = "asleep" THEN "put" ELSE pump.pc)
  <2>1. "put" \in PumpPcs
    OBVIOUS
  <2> QED
    BY <1>1, <1>2, <2>1, WokenThread
<1>5. keep \in 0..Len(inq) /\ keep + 1 <= kHostInputQueueLimit + 1
  <2>1. inq # <<>> => Len(inq) > 0
    BY <1>2
  <2> QED
    BY <1>2, <2>1, InputNumbers DEF InIInv, InShape
<1> HIDE DEF keep
<1>6. /\ Flow(uart.delivered, pump.buf, inq', reader.buf, typed) /\ Len(inq') = keep + 1
      /\ Elems(inq) = {inq[i] : i \in 1..keep} \cup lost
      /\ Elems(inq') = {0} \cup {inq[i] : i \in 1..keep}
  <2> HIDE DEF lost
  <2>1. Flow(uart.delivered, pump.buf, inq, reader.buf, typed)
    BY DEF InIInv, InFlow
  <2> DEFINE q1 == <<0>> \o SubSeq(inq, 1, keep)
  <2>2. CtrlCFront(uart.delivered, pump.buf, inq, reader.buf, typed, keep, q1)
    BY <1>5, <2>1, FlowCtrlC, Zenon
  <2> QED
    BY <1>1, <2>2, Zenon DEF lost, CtrlCFront
<1>7. InFlow'
  BY <1>1, <1>3, <1>4, <1>6 DEF InFlow
<1>8. lost \subseteq Bytes
  <2>1. Elems(inq) \subseteq 0..typed /\ 0..typed \subseteq Bytes
    BY <1>2, InputNumbers DEF InIInv, InFlow, Flow, Bytes
  <2> QED
    BY <1>6, <2>1
<1> HIDE DEF lost
<1>9. cut' \in [bytes : SUBSET Bytes, missed : BOOLEAN, late : BOOLEAN] /\ cut'.bytes = cut.bytes \cup lost
  BY <1>1, <1>2, <1>8
<1>10. InShape'
  <2>1. inq' \in Seq(Nat) /\ Len(inq') <= kHostInputQueueLimit + 1
    BY <1>5, <1>6 DEF Flow
  <2>2. ctrlc' \in 0..MaxInterrupts
    <3>1. ctrlc \in 0..MaxInterrupts /\ MaxInterrupts \in Nat
      BY InputNumbers DEF InIInv, InShape
    <3>2. ctrlc > 0 /\ ctrlc' = ctrlc - 1
      BY <1>1
    <3> QED
      BY <3>1, <3>2
  <2>3. Bytes' = Bytes
    BY DEF Bytes
  <2> QED
    BY <1>1, <1>3, <1>4, <1>9, <2>1, <2>2, <2>3 DEF InIInv, InShape
<1>11. InHands' /\ InEnded'
  BY <1>1, <1>3, <1>4 DEF InIInv, InHands, InEnded
<1>12. InKept'
  BY <1>1, <1>3, <1>4, <1>6, <1>9 DEF InIInv, InKept, Whereabouts
<1> QED
  BY <1>7, <1>10, <1>11, <1>12 DEF InIInv

LEMMA PumpStep == InIInv /\ PumpRuns => InIInv'
<1> SUFFICES ASSUME InIInv, PumpRuns PROVE InIInv'
  OBVIOUS
<1> USE DEF ReaderPcs, PumpPcs
<1>1. CASE PumpSleeps
  <2>1. pump'.buf = pump.buf /\ UNCHANGED <<reader, closer, inq, done, typed, uart, ctrlc, cut>>
    BY <1>1 DEF PumpSleeps, InIInv, InShape
  <2>2. InShape' /\ InHands' /\ InEnded'
    BY <1>1, <2>1 DEF PumpSleeps, InIInv, InShape, InHands, InEnded, Bytes
  <2> QED
    BY <2>1, <2>2, InControlStep
<1>2. CASE PumpNotifies
  <2>1. reader \in [pc : ReaderPcs, buf : Seq(Nat)] /\ "put" \in ReaderPcs
    BY DEF InIInv, InShape
  <2>2. /\ reader' \in [pc : ReaderPcs, buf : Seq(Nat)] /\ reader'.buf = reader.buf
        /\ reader'.pc = (IF reader.pc = "asleep" THEN "put" ELSE reader.pc)
    BY <1>2, <2>1, WokenThread DEF PumpNotifies
  <2>3. pump'.buf = pump.buf /\ UNCHANGED <<closer, mu, inq, done, typed, uart, ctrlc, cut>>
    BY <1>2 DEF PumpNotifies, InIInv, InShape
  <2>4. InShape' /\ InHands' /\ InEnded'
    BY <1>2, <2>2, <2>3 DEF PumpNotifies, InIInv, InShape, InHands, InEnded, Bytes
  <2> QED
    BY <2>2, <2>3, <2>4, InControlStep
<1>3. CASE PumpTake
  <2> DEFINE n == IF Len(inq) < kHostInputPumpChunk THEN Len(inq) ELSE kHostInputPumpChunk
  <2>1. pump.pc = "put" /\ pump.buf = <<>> /\ UNCHANGED <<reader, closer, done, typed, uart, ctrlc, cut>>
    BY <1>3 DEF PumpTake, InIInv, InHands
  <2>2. n \in 0..Len(inq) /\ Len(inq) \in Nat
    BY InputNumbers DEF InIInv, InShape
  <2>3. CASE pump' = [pump EXCEPT !.pc = "drowsy"] /\ mu' = "pump" /\ UNCHANGED inq
    <3>1. pump'.buf = pump.buf
      BY <2>3 DEF InIInv, InShape
    <3>2. InShape' /\ InHands' /\ InEnded'
      BY <2>1, <2>3 DEF InIInv, InShape, InHands, InEnded, Bytes
    <3> QED
      BY <2>1, <2>3, <3>1, <3>2, InControlStep
  <2>4. CASE pump' = [pump EXCEPT !.pc = "ended"] /\ UNCHANGED <<mu, inq>>
    <3>1. pump'.buf = pump.buf
      BY <2>4 DEF InIInv, InShape
    <3>2. InShape' /\ InHands' /\ InEnded'
      BY <2>1, <2>4 DEF InIInv, InShape, InHands, InEnded, Bytes
    <3> QED
      BY <2>1, <2>4, <3>1, <3>2, InControlStep
  <2>5. CASE /\ pump' = [pc |-> "notify", buf |-> SubSeq(inq, 1, n)]
             /\ inq' = SubSeq(inq, n + 1, Len(inq)) /\ UNCHANGED mu
    <3> HIDE DEF n
    <3>1. /\ Flow(uart.delivered, pump'.buf, inq', reader.buf, typed)
          /\ Elems(inq) = Elems(pump'.buf) \cup Elems(inq') /\ Len(inq') <= Len(inq)
      BY <2>1, <2>2, <2>5, FlowTake DEF InIInv, InFlow
    <3>2. pump'.buf \in Seq(Nat) /\ inq' \in Seq(Nat)
      BY <3>1 DEF Flow
    <3>3. InShape' /\ InHands' /\ InEnded'
      <4>1. pump' \in [pc : PumpPcs, buf : Seq(Nat)] /\ pump'.pc = "notify"
        BY <2>5, <3>2
      <4>2. Len(inq') <= kHostInputQueueLimit + 1
        BY <2>2, <3>1, <3>2, InputNumbers DEF InIInv, InShape
      <4> QED
        BY <2>1, <2>5, <3>2, <4>1, <4>2 DEF InIInv, InShape, InHands, InEnded, Bytes
    <3>4. InFlow'
      BY <2>1, <3>1 DEF InFlow
    <3>5. InKept'
      BY <2>1, <3>1, Empty DEF InIInv, InKept, Whereabouts
    <3> QED
      BY <3>3, <3>4, <3>5 DEF InIInv
  <2> QED
    BY <1>3, <2>3, <2>4, <2>5 DEF PumpTake
<1>4. CASE deliver_uart_input
  <2> DEFINE n == IF Len(pump.buf) < uart.room THEN Len(pump.buf) ELSE uart.room
             rest == SubSeq(pump.buf, n + 1, Len(pump.buf))
             sent == uart.delivered \o SubSeq(pump.buf, 1, n)
  <2>1. pump.pc = "deliver" /\ UNCHANGED <<reader, closer, mu, inq, done, typed, ctrlc, cut>>
    BY <1>4 DEF deliver_uart_input
  <2>2. uart.room \in 0..UartRoom /\ pump.buf \in Seq(Nat) /\ n \in 0..Len(pump.buf) /\ uart.room - n \in 0..UartRoom
    BY InputNumbers DEF InIInv, InShape
  <2>3. CASE (done \/ pump.buf = <<>>) /\ pump' = [pc |-> "put", buf |-> <<>>] /\ UNCHANGED uart
    <3>1. InShape' /\ InHands' /\ InEnded'
      BY <2>1, <2>3, Empty DEF InIInv, InShape, InHands, InEnded, Bytes
    <3>2. InFlow'
      BY <2>1, <2>3, FlowDrop DEF InIInv, InFlow
    <3>3. InKept'
      BY <2>1, <2>3 DEF InIInv, InKept, Whereabouts
    <3> QED
      BY <3>1, <3>2, <3>3 DEF InIInv
  <2>4. CASE /\ pump' = [pump EXCEPT !.buf = rest]
             /\ uart' = [delivered |-> sent, room |-> uart.room - n]
    <3> HIDE DEF n
    <3>1. /\ Flow(sent, rest, inq, reader.buf, typed)
          /\ Elems(sent) \cup Elems(rest) = Elems(uart.delivered) \cup Elems(pump.buf)
      BY <2>2, FlowDeliver DEF InIInv, InFlow
    <3>2. sent \in Seq(Nat) /\ rest \in Seq(Nat)
      BY <3>1 DEF Flow
    <3> HIDE DEF sent, rest
    <3>3. /\ pump' \in [pc : PumpPcs, buf : Seq(Nat)] /\ pump'.pc = "deliver" /\ pump'.buf = rest
          /\ uart' \in [delivered : Seq(Nat), room : 0..UartRoom] /\ uart'.delivered = sent
      BY <2>1, <2>2, <2>4, <3>2 DEF InIInv, InShape
    <3>4. InShape' /\ InHands' /\ InEnded'
      BY <2>1, <3>3 DEF InIInv, InShape, InHands, InEnded, Bytes
    <3>5. InFlow'
      BY <2>1, <3>1, <3>3 DEF InFlow
    <3>6. InKept'
      BY <2>1, <3>1, <3>3 DEF InIInv, InKept, Whereabouts
    <3> QED
      BY <3>4, <3>5, <3>6 DEF InIInv
  <2> QED
    BY <1>4, <2>3, <2>4 DEF deliver_uart_input
<1> QED
  BY <1>1, <1>2, <1>3, <1>4 DEF PumpRuns

LEMMA OtherInputStep == InIInv /\ (GuestReads \/ StopInputBegins \/ StopRuns) => InIInv'
<1> SUFFICES ASSUME InIInv, GuestReads \/ StopInputBegins \/ StopRuns PROVE InIInv'
  OBVIOUS
<1> USE DEF ReaderPcs, PumpPcs
<1>1. CASE GuestReads
  <2>1. uart'.delivered = uart.delivered /\ uart' \in [delivered : Seq(Nat), room : 0..UartRoom]
        /\ UNCHANGED <<reader, pump, closer, mu, inq, done, typed, ctrlc, cut>>
    <3>1. uart' = [uart EXCEPT !.room = UartRoom] /\ UNCHANGED <<reader, pump, closer, mu, inq, done, typed, ctrlc, cut>>
      BY <1>1 DEF GuestReads
    <3>2. uart \in [delivered : Seq(Nat), room : 0..UartRoom] /\ UartRoom \in 0..UartRoom
      BY InputNumbers DEF InIInv, InShape
    <3> QED
      BY <3>1, <3>2
  <2>2. InShape' /\ InHands' /\ InEnded'
    BY <2>1 DEF InIInv, InShape, InHands, InEnded, Bytes
  <2> QED
    BY <2>1, <2>2, InControlStep
<1>2. CASE StopInputBegins \/ StopInputJoinsReader \/ StopInputReturns
  <2>1. done => done'
    BY <1>2 DEF StopInputBegins, StopInputJoinsReader, StopInputReturns
  <2>2. UNCHANGED <<reader, pump, mu, inq, typed, uart, ctrlc, cut>>
    BY <1>2 DEF StopInputBegins, StopInputJoinsReader, StopInputReturns
  <2>3. /\ done' \in BOOLEAN
        /\ closer' \in {"no", "cancel", "joinReader", "notify", "joinPump", "returned"}
        /\ closer' \in {"notify", "joinPump", "returned"} => reader.pc = "ended"
        /\ closer' = "returned" => pump.pc = "ended"
    BY <1>2 DEF StopInputBegins, StopInputJoinsReader, StopInputReturns, InIInv, InShape, InEnded
  <2>4. InShape'
    BY <2>2, <2>3 DEF InIInv, InShape, Bytes
  <2>5. InHands' /\ InEnded'
    BY <2>2, <2>3 DEF InIInv, InHands, InEnded
  <2> QED
    BY <2>1, <2>2, <2>4, <2>5, InControlStep
<1>3. CASE StopInputCancels
  <2>1. reader'.buf = reader.buf /\ UNCHANGED <<pump, mu, inq, done, typed, uart, ctrlc>>
    BY <1>3 DEF StopInputCancels, InIInv, InShape
  <2>3. cut'.bytes = cut.bytes /\ cut' \in [bytes : SUBSET Bytes, missed : BOOLEAN, late : BOOLEAN]
    BY <1>3 DEF StopInputCancels, InIInv, InShape
  <2>2. InShape' /\ InHands' /\ InEnded'
    BY <1>3, <2>1, <2>3 DEF StopInputCancels, InIInv, InShape, InHands, InEnded, Bytes
  <2> QED
    BY <2>1, <2>2, <2>3, InControlStep
<1>4. CASE StopInputNotifies
  <2>1. /\ reader \in [pc : ReaderPcs, buf : Seq(Nat)] /\ "put" \in ReaderPcs
        /\ pump \in [pc : PumpPcs, buf : Seq(Nat)] /\ "put" \in PumpPcs
    BY DEF InIInv, InShape
  <2>2. /\ reader' \in [pc : ReaderPcs, buf : Seq(Nat)] /\ reader'.buf = reader.buf
        /\ reader'.pc = (IF reader.pc = "asleep" THEN "put" ELSE reader.pc)
    BY <1>4, <2>1, WokenThread DEF StopInputNotifies
  <2>3. /\ pump' \in [pc : PumpPcs, buf : Seq(Nat)] /\ pump'.buf = pump.buf
        /\ pump'.pc = (IF pump.pc = "asleep" THEN "put" ELSE pump.pc)
    BY <1>4, <2>1, WokenThread DEF StopInputNotifies
  <2>4. closer = "notify" /\ closer' = "joinPump" /\ UNCHANGED <<mu, inq, done, typed, uart, ctrlc>>
    BY <1>4 DEF StopInputNotifies
  <2>5. cut'.bytes = cut.bytes /\ cut' \in [bytes : SUBSET Bytes, missed : BOOLEAN, late : BOOLEAN]
    BY <1>4 DEF StopInputNotifies, InIInv, InShape
  <2>6. InShape' /\ InHands' /\ InEnded'
    BY <2>2, <2>3, <2>4, <2>5 DEF InIInv, InShape, InHands, InEnded, Bytes
  <2> QED
    BY <2>2, <2>3, <2>4, <2>5, <2>6, InControlStep
<1> QED
  BY <1>1, <1>2, <1>3, <1>4 DEF StopRuns

LEMMA InInductive == InIInv /\ [InNext]_inVars => InIInv'
<1>1. InIInv /\ UNCHANGED inVars => InIInv'
  BY DEF inVars, InIInv, InShape, InHands, InEnded, InFlow, InKept, Whereabouts, Bytes
<1> QED
  BY <1>1, ReaderStep, ReadFileStep, CtrlCStep, PumpStep, OtherInputStep DEF InNext

\* The bounds of the bytes give the types.
LEMMA BytesTyped ==
  ASSUME NEW s \in Seq(Nat), Elems(s) \subseteq Bytes PROVE s \in Seq(Bytes)
<1>1. \A i \in 1..Len(s) : s[i] \in Bytes
  BY DEF Elems
<1> QED
  BY <1>1

\* The reader, the pump, the control handler and stop_input on one queue
\* (native/whp/backend.cc, RunVm): what the user types reaches the UART once and in
\* order, nothing is lost before input is stopped but what a Ctrl-C displaced from
\* a full queue, Ctrl-C is first, and both threads have ended when stop_input
\* returns; for every queue limit, chunk size and UART.
THEOREM InputSafeHolds == InSpec => []InputSafe
<1>1. ASSUME InIInv PROVE InputSafe
  <2>1. /\ Elems(uart.delivered) \cup Elems(pump.buf) \cup Elems(inq) \cup Elems(reader.buf) \subseteq Bytes
        /\ typed \in Bytes
    <3>1. typed \in 0..TypedBytes /\ 0..typed \subseteq Bytes
      BY <1>1, InputNumbers DEF InIInv, InShape, Bytes
    <3> QED
      BY <1>1, <3>1 DEF InIInv, InFlow, Flow, Bytes
  <2>2. /\ uart.delivered \in Seq(Bytes) /\ pump.buf \in Seq(Bytes) /\ inq \in Seq(Bytes)
        /\ reader.buf \in Seq(Bytes)
    BY <1>1, <2>1, BytesTyped DEF InIInv, InFlow, Flow
  <2>3. InTypeOK
    <3>1. /\ reader \in [pc : ReaderPcs, buf : Seq(Bytes)] /\ pump \in [pc : PumpPcs, buf : Seq(Bytes)]
          /\ uart \in [delivered : Seq(Bytes), room : 0..UartRoom]
      BY <1>1, <2>2 DEF InIInv, InShape
    <3> QED
      BY <1>1, <2>1, <2>2, <3>1 DEF InIInv, InShape, InTypeOK, ReaderPcs, PumpPcs
  <2>4. TypedInOrder
    BY <1>1 DEF InIInv, InFlow, Flow, Rising, TypedInOrder
  <2>5. NoTypedByteLost
    BY <1>1 DEF InIInv, InKept, Whereabouts, NoTypedByteLost, Queued, Elems
  <2>6. CtrlCFirst
    BY <1>1 DEF InIInv, InFlow, Flow, ZerosFirst, CtrlCFirst
  <2>7. InputThreadsEnd
    BY <1>1 DEF InIInv, InEnded, InputThreadsEnd
  <2> QED
    BY <2>3, <2>4, <2>5, <2>6, <2>7 DEF InputSafe
<1>2. InIInv => InputSafe
  BY <1>1
<1> QED
  BY <1>2, InInitial, InInductive, PTL DEF InSpec

-----------------------------------------------------------------------------
(***************************************************************************)
(* Console output.  The tokens on the console, with the writer thread, with *)
(* a flushing producer, pending and of the producer's own write make up one *)
(* sequence that only printing extends (ConKept); only a flush that passes  *)
(* the writer permutes it.  Nothing is pending while the producer flushes   *)
(* (ConHands), and the writer ends with nothing left (ConEnds).             *)
(***************************************************************************)

\* A bounded set of numbers has a largest one.
LEMMA Largest ==
  ASSUME NEW n \in Nat, NEW T, T \subseteq 0..n, T # {}
  PROVE \E m \in T : \A k \in T : k <= m
<1> DEFINE U == {n - k : k \in T}
<1>0. \A k \in T : k \in Nat /\ k <= n
  OBVIOUS
<1>1. U \subseteq Nat /\ U # {}
  <2>1. ASSUME NEW k \in T PROVE n - k \in Nat
    BY <1>0
  <2> QED
    BY <2>1
<1>2. PICK x \in U : \A y \in U : ~(<<y, x>> \in OpToRel(<, Nat))
  <2> HIDE DEF U
  <2> QED
    BY <1>1, NatLessThanWellFounded, WFMin
<1>3. \A y \in U : ~(y < x)
  <2> SUFFICES ASSUME NEW y \in U, y < x PROVE FALSE
    OBVIOUS
  <2>1. y \in Nat /\ x \in Nat
    BY <1>1
  <2>2. <<y, x>> \in Nat \X Nat /\ <<y, x>>[1] < <<y, x>>[2]
    BY <2>1
  <2>3. <<y, x>> \in OpToRel(<, Nat)
    BY <2>2 DEF OpToRel
  <2> QED
    BY <1>2, <2>3
<1>4. PICK m \in T : x = n - m
  OBVIOUS
<1>5. ASSUME NEW k \in T PROVE k <= m
  <2>1. ~(n - k < n - m)
    BY <1>3, <1>4
  <2>2. k \in Nat /\ m \in Nat
    BY <1>0
  <2> QED
    BY <2>1, <2>2
<1> QED
  BY <1>5

\* The safe prefix is a length within the buffer.
LEMMA SafePrefix ==
  ASSUME NEW S, NEW s \in Seq(S)
  PROVE terminal_safe_prefix(s) \in 0..Len(s)
<1> DEFINE ends == {i \in DOMAIN s : s[i].k # "x"}
<1>1. ends \subseteq 0..Len(s) /\ Len(s) \in Nat
  OBVIOUS
<1>2. CASE ends = {}
  BY <1>1, <1>2 DEF terminal_safe_prefix
<1>3. CASE ends # {}
  <2> DEFINE e == CHOOSE i \in ends : \A j \in ends : j <= i
  <2> HIDE DEF ends
  <2>1. \E i \in ends : \A j \in ends : j <= i
    BY <1>1, <1>3, Largest
  <2>2. e \in ends
    BY <2>1
  <2>3. terminal_safe_prefix(s) = e
    BY <1>3 DEF terminal_safe_prefix, ends
  <2> QED
    BY <1>1, <2>2, <2>3
<1> QED
  BY <1>2, <1>3

-----------------------------------------------------------------------------
(* The tokens on their way.                                                 *)

Ids(s) == {s[i].id : i \in DOMAIN s}
InPlace(s) == \A i \in DOMAIN s : s[i].id = i
Cat(s, t) == s \o t
Together(c, w, p, q, o) == Cat(Cat(Cat(Cat(c, w), p), q), o)
IdsOf(c, w, p, q, o) == Ids(c) \cup Ids(w) \cup Ids(p) \cup Ids(q) \cup Ids(o)

\* What a concatenation holds, and when every token is in its place.
LEMMA IdsConcat ==
  ASSUME NEW s \in Seq(Numbered), NEW t \in Seq(Numbered)
  PROVE /\ Cat(s, t) \in Seq(Numbered) /\ Len(Cat(s, t)) = Len(s) + Len(t)
        /\ Ids(Cat(s, t)) = Ids(s) \cup Ids(t)
        /\ InPlace(s) /\ (\A i \in DOMAIN t : t[i].id = Len(s) + i) => InPlace(Cat(s, t))
<1> DEFINE c == s \o t
<1>1. /\ c \in Seq(Numbered) /\ Len(c) = Len(s) + Len(t) /\ Len(s) \in Nat /\ DOMAIN c \subseteq Nat
      /\ \A i \in DOMAIN s : i \in DOMAIN c /\ c[i] = s[i]
      /\ \A i \in DOMAIN t : Len(s) + i \in DOMAIN c /\ c[Len(s) + i] = t[i]
      /\ \A i \in DOMAIN c : IF i <= Len(s) THEN i \in DOMAIN s /\ c[i] = s[i]
                             ELSE i - Len(s) \in DOMAIN t /\ c[i] = t[i - Len(s)]
  OBVIOUS
<1> HIDE DEF c
<1>2. Ids(c) = Ids(s) \cup Ids(t)
  BY <1>1 DEF Ids
<1>3. InPlace(s) /\ (\A i \in DOMAIN t : t[i].id = Len(s) + i) => InPlace(c)
  BY <1>1 DEF InPlace
<1> QED
  BY <1>1, <1>2, <1>3 DEF c, Cat

\* Nothing printed.
LEMMA NoTokens ==
  /\ <<>> \in Seq(Numbered) /\ Len(<<>>) = 0 /\ Ids(<<>>) = {} /\ InPlace(<<>>)
  BY DEF Ids, InPlace

\* Handing tokens on does not change the whole.
LEMMA TokensAssociate ==
  ASSUME NEW s \in Seq(Numbered), NEW t \in Seq(Numbered), NEW w \in Seq(Numbered)
  PROVE Cat(Cat(s, t), w) = Cat(s, Cat(t, w)) /\ Cat(s, <<>>) = s /\ Cat(s, t) \in Seq(Numbered)
<1>1. (s \o t) \o w = s \o (t \o w) /\ s \o <<>> = s /\ s \o t \in Seq(Numbered)
  BY ConcatAssociative, ConcatEmptySeq
<1> QED
  BY <1>1 DEF Cat

\* What the five holders have together.
LEMMA TogetherParts ==
  ASSUME NEW c \in Seq(Numbered), NEW w \in Seq(Numbered), NEW p \in Seq(Numbered),
         NEW q \in Seq(Numbered), NEW o \in Seq(Numbered)
  PROVE /\ Together(c, w, p, q, o) \in Seq(Numbered)
        /\ Len(Together(c, w, p, q, o)) = Len(c) + Len(w) + Len(p) + Len(q) + Len(o)
        /\ Ids(Together(c, w, p, q, o)) = IdsOf(c, w, p, q, o)
        /\ Together(c, w, p, q, o) = Cat(Together(c, w, p, q, <<>>), o)
<1>1. PICK a : a = Cat(c, w)
  OBVIOUS
<1>2. a \in Seq(Numbered) /\ Len(a) = Len(c) + Len(w) /\ Ids(a) = Ids(c) \cup Ids(w)
  BY <1>1, IdsConcat
<1>3. PICK b : b = Cat(a, p)
  OBVIOUS
<1>4. b \in Seq(Numbered) /\ Len(b) = Len(a) + Len(p) /\ Ids(b) = Ids(a) \cup Ids(p)
  BY <1>2, <1>3, IdsConcat
<1>5. PICK d : d = Cat(b, q)
  OBVIOUS
<1>6. d \in Seq(Numbered) /\ Len(d) = Len(b) + Len(q) /\ Ids(d) = Ids(b) \cup Ids(q)
  BY <1>4, <1>5, IdsConcat
<1>7. /\ Cat(d, o) \in Seq(Numbered) /\ Len(Cat(d, o)) = Len(d) + Len(o) /\ Ids(Cat(d, o)) = Ids(d) \cup Ids(o)
      /\ Cat(d, <<>>) = d
  BY <1>6, IdsConcat, TokensAssociate
<1>8. Together(c, w, p, q, o) = Cat(d, o) /\ Together(c, w, p, q, <<>>) = d
  BY <1>1, <1>3, <1>5, <1>7 DEF Together
<1>9. Len(c) \in Nat /\ Len(w) \in Nat /\ Len(p) \in Nat /\ Len(q) \in Nat /\ Len(o) \in Nat
  OBVIOUS
<1>10. Len(Cat(d, o)) = Len(c) + Len(w) + Len(p) + Len(q) + Len(o)
  BY <1>2, <1>4, <1>6, <1>7, <1>9
<1>11. Ids(Cat(d, o)) = IdsOf(c, w, p, q, o)
  BY <1>2, <1>4, <1>6, <1>7 DEF IdsOf
<1> QED
  BY <1>7, <1>8, <1>10, <1>11

\* Appending the producer's own write, flushing, writing and taking each leave the
\* whole as it was.
LEMMA HandOwn ==
  ASSUME NEW c \in Seq(Numbered), NEW w \in Seq(Numbered), NEW p \in Seq(Numbered),
         NEW q \in Seq(Numbered), NEW o \in Seq(Numbered)
  PROVE Together(c, w, p, Cat(q, o), <<>>) = Together(c, w, p, q, o)
<1>1. Cat(c, w) \in Seq(Numbered)
  BY TokensAssociate
<1>2. PICK d \in Seq(Numbered) : d = Cat(Cat(c, w), p)
  BY <1>1, TokensAssociate
<1>3. Cat(Cat(d, q), o) = Cat(d, Cat(q, o)) /\ Cat(q, o) \in Seq(Numbered)
  BY <1>2, TokensAssociate
<1>4. Cat(d, Cat(q, o)) \in Seq(Numbered)
  BY <1>2, <1>3, TokensAssociate
<1>5. Cat(Cat(d, Cat(q, o)), <<>>) = Cat(d, Cat(q, o))
  BY <1>4, TokensAssociate
<1> QED
  BY <1>2, <1>3, <1>5 DEF Together

LEMMA HandFlush ==
  ASSUME NEW c \in Seq(Numbered), NEW w \in Seq(Numbered), NEW q \in Seq(Numbered), NEW o
  PROVE Together(c, w, q, <<>>, o) = Together(c, w, <<>>, q, o)
<1>1. PICK d \in Seq(Numbered) : d = Cat(c, w)
  BY TokensAssociate
<1>2. Cat(d, q) \in Seq(Numbered) /\ Cat(d, <<>>) = d
  BY <1>1, TokensAssociate
<1>3. Cat(Cat(d, q), <<>>) = Cat(d, q)
  BY <1>2, TokensAssociate
<1> QED
  BY <1>1, <1>2, <1>3 DEF Together

LEMMA HandWritten ==
  ASSUME NEW c \in Seq(Numbered), NEW w \in Seq(Numbered), NEW p, NEW q, NEW o
  PROVE /\ Together(Cat(c, w), <<>>, p, q, o) = Together(c, w, p, q, o)
        /\ Together(Cat(c, w), <<>>, <<>>, q, o) = Together(c, <<>>, w, q, o)
<1>1. PICK d \in Seq(Numbered) : d = Cat(c, w) /\ Cat(c, <<>>) = c
  BY TokensAssociate
<1>2. Cat(d, <<>>) = d
  BY <1>1, TokensAssociate
<1>3. Together(d, <<>>, p, q, o) = Cat(Cat(Cat(d, p), q), o)
  BY <1>2 DEF Together
<1>4. Together(c, w, p, q, o) = Cat(Cat(Cat(d, p), q), o)
  BY <1>1 DEF Together
<1>5. Together(d, <<>>, <<>>, q, o) = Cat(Cat(d, q), o)
  BY <1>2 DEF Together
<1>6. Together(c, <<>>, w, q, o) = Cat(Cat(d, q), o)
  BY <1>1 DEF Together
<1> QED
  BY <1>1, <1>3, <1>4, <1>5, <1>6

LEMMA HandTaken ==
  ASSUME NEW c \in Seq(Numbered), NEW w \in Seq(Numbered), NEW q \in Seq(Numbered), NEW o
  PROVE Together(c, w, <<>>, q, o) = Together(c, <<>>, <<>>, Cat(w, q), o)
<1>0. Cat(c, w) \in Seq(Numbered)
  BY IdsConcat
<1>1. Cat(c, w) \in Seq(Numbered) /\ Cat(Cat(c, w), q) = Cat(c, Cat(w, q)) /\ Cat(c, <<>>) = c
  BY <1>0, TokensAssociate
<1>2. Cat(Cat(c, w), <<>>) = Cat(c, w)
  BY <1>1, TokensAssociate
<1> QED
  BY <1>1, <1>2 DEF Together

-----------------------------------------------------------------------------
(* The invariant.                                                           *)

Writers == [pc : {"wait", "coalesce", "held", "write", "done"}, buf : Seq(Numbered),
            size : 0..kMaxPending, open : BOOLEAN]

ConShape ==
  /\ pending \in Seq(Numbered) /\ conOut \in Seq(Numbered) /\ Len(pending) <= kMaxPending
  /\ writer \in Writers
  /\ prod \in [pc : {"idle", "flush", "append", "query", "reply"}, buf : Seq(Numbered),
               own : Seq(Numbered)]
  /\ stopper \in {"run", "stopping", "stopped"}
  /\ printed \in 0..MaxTokens /\ reports \in 0..MaxReports
  /\ overtook \in BOOLEAN /\ report \in 0..MaxTokens

\* Who holds tokens: nothing is pending while the producer flushes.
ConHands ==
  /\ writer.pc # "write" => writer.buf = <<>>
  /\ prod.pc \notin {"flush", "query"} => prod.buf = <<>>
  /\ prod.pc \notin {"flush", "append"} => prod.own = <<>>
  /\ prod.pc # "idle" => pending = <<>>
  /\ Len(prod.own) <= 2

\* The writer ends when it has nothing left and nobody can give it more.
ConEnds ==
  /\ stopper # "run" => prod.pc = "idle"
  /\ writer.pc = "done" => pending = <<>> /\ stopper # "run"
  /\ stopper = "stopped" => writer.pc = "done"

Held == writer.buf
Flushed == prod.buf
Owned == prod.own
Whole == Together(conOut, Held, Flushed, pending, Owned)
ConKept == Len(Whole) = printed /\ Ids(Whole) = 1..printed /\ (overtook \/ InPlace(Whole))

ConIInv == ConShape /\ ConHands /\ ConEnds /\ ConKept

LEMMA ConNumbers ==
  /\ kMaxPending \in Nat /\ kMaxPending >= 2 /\ MaxTokens \in Nat /\ MaxReports \in Nat
  BY ConAssumption

LEMMA ConInitial == ConInit => ConIInv
<1> SUFFICES ASSUME ConInit PROVE ConIInv
  OBVIOUS
<1>1. ConShape /\ ConHands /\ ConEnds
  <2>1. /\ writer \in Writers
        /\ prod \in [pc : {"idle", "flush", "append", "query", "reply"}, buf : Seq(Numbered), own : Seq(Numbered)]
        /\ writer.buf = <<>> /\ prod.buf = <<>> /\ prod.own = <<>> /\ prod.pc = "idle" /\ writer.pc = "wait"
    BY NoTokens, ConNumbers DEF ConInit, Writers
  <2>2. 0 <= kMaxPending /\ 0 \in 0..MaxTokens /\ 0 \in 0..MaxReports /\ Len(<<>>) = 0
    BY ConNumbers
  <2>3. ConShape
    BY <2>1, <2>2, NoTokens DEF ConInit, ConShape
  <2>4. ConHands /\ ConEnds
    BY <2>1, <2>2 DEF ConInit, ConHands, ConEnds
  <2> QED
    BY <2>3, <2>4
<1>2. ConKept
  <2>1. conOut = <<>> /\ writer.buf = <<>> /\ prod.buf = <<>> /\ pending = <<>> /\ prod.own = <<>> /\ printed = 0
    BY DEF ConInit
  <2>2. Cat(<<>>, <<>>) = <<>>
    BY NoTokens, TokensAssociate
  <2>3. Whole = <<>>
    BY <2>1, <2>2 DEF Whole, Held, Flushed, Owned, Together
  <2> QED
    BY <2>1, <2>3, NoTokens DEF ConKept
<1> QED
  BY <1>1, <1>2 DEF ConIInv

\* A step that hands tokens on.
LEMMA ConHandsOn ==
  ASSUME ConIInv, ConShape', ConHands', ConEnds', Whole' = Whole, printed' = printed, overtook => overtook'
  PROVE ConIInv'
  BY DEF ConIInv, ConKept

LEMMA WriteStep == ConIInv /\ write => ConIInv'
<1> SUFFICES ASSUME ConIInv, write PROVE ConIInv'
  OBVIOUS
<1>1. PICK ks \in {<<a>> : a \in Tokens} \cup {<<"x", "x">>} :
        LET own == [i \in DOMAIN ks |-> [id |-> printed + i, k |-> ks[i]]]
        IN  /\ printed + Len(ks) <= MaxTokens
            /\ printed' = printed + Len(ks)
            /\ IF Len(pending) + Len(ks) > kMaxPending
               THEN /\ prod' = [pc |-> "flush", buf |-> pending, own |-> own]
                    /\ pending' = <<>>
               ELSE pending' = pending \o own /\ UNCHANGED prod
  BY DEF write
<1>2. /\ prod.pc = "idle" /\ stopper = "run" /\ prod.buf = <<>> /\ prod.own = <<>> /\ writer.pc # "done"
      /\ UNCHANGED <<conOut, writer, stopper, reports, overtook, report>>
  BY DEF write, ConIInv, ConHands, ConEnds
<1> DEFINE own == [i \in DOMAIN ks |-> [id |-> printed + i, k |-> ks[i]]]
<1>3. ks \in Seq(Tokens) /\ Len(ks) \in 1..2 /\ Len(ks) <= 2
  <2>1. CASE ks = <<"x", "x">>
    BY <2>1 DEF Tokens
  <2>2. CASE \E t \in Tokens : ks = <<t>>
    BY <2>2
  <2> QED
    BY <2>1, <2>2
<1>4. printed \in Nat /\ printed + Len(ks) <= MaxTokens /\ printed' = printed + Len(ks)
  BY <1>1 DEF ConIInv, ConShape
<1>5. own \in Seq(Numbered) /\ Len(own) = Len(ks) /\ \A i \in DOMAIN own : own[i].id = printed + i
  <2>1. ASSUME NEW i \in 1..Len(ks) PROVE [id |-> printed + i, k |-> ks[i]] \in Numbered
    BY <1>3, <1>4, ConNumbers DEF Numbered
  <2>2. own = [i \in 1..Len(ks) |-> [id |-> printed + i, k |-> ks[i]]]
    BY <1>3
  <2> QED
    BY <1>3, <2>1, <2>2
<1>6. Ids(own) = (printed + 1)..(printed + Len(ks))
  <2>1. DOMAIN own = 1..Len(ks) /\ \A i \in 1..Len(ks) : own[i].id = printed + i
    BY <1>3, <1>5
  <2> HIDE DEF own
  <2>2. ASSUME NEW x \in (printed + 1)..(printed + Len(ks)) PROVE x \in Ids(own)
    <3>1. x - printed \in 1..Len(ks) /\ printed + (x - printed) = x
      BY <1>3, <1>4
    <3> QED
      BY <2>1, <3>1 DEF Ids
  <2>3. ASSUME NEW x \in Ids(own) PROVE x \in (printed + 1)..(printed + Len(ks))
    BY <1>3, <1>4, <2>1 DEF Ids
  <2> QED
    BY <2>2, <2>3
<1>7. \/ /\ prod' = [pc |-> "flush", buf |-> pending, own |-> own] /\ pending' = <<>>
      \/ /\ Len(pending) + Len(ks) <= kMaxPending /\ pending' = Cat(pending, own) /\ UNCHANGED prod
  <2>1. CASE Len(pending) + Len(ks) > kMaxPending
    BY <1>1, <2>1
  <2>2. CASE ~(Len(pending) + Len(ks) > kMaxPending)
    <3>1. Len(pending) \in Nat /\ Len(ks) \in Nat
      BY <1>3 DEF ConIInv, ConShape
    <3>2. Len(pending) + Len(ks) <= kMaxPending
      BY <2>2, <3>1, ConNumbers
    <3> QED
      BY <1>1, <2>2, <3>2 DEF Cat
  <2> QED
    BY <2>1, <2>2
<1> HIDE DEF own
<1>8. /\ conOut \in Seq(Numbered) /\ writer.buf \in Seq(Numbered) /\ prod.buf \in Seq(Numbered)
      /\ pending \in Seq(Numbered) /\ Len(pending) \in Nat
      /\ Held \in Seq(Numbered) /\ Flushed \in Seq(Numbered) /\ Owned \in Seq(Numbered)
  BY DEF ConIInv, ConShape, Held, Flushed, Owned, Writers
<1>9. ConShape' /\ ConHands' /\ ConEnds'
  <2>1. printed' \in 0..MaxTokens
    BY <1>3, <1>4, ConNumbers
  <2>2. CASE prod' = [pc |-> "flush", buf |-> pending, own |-> own] /\ pending' = <<>>
    <3>1. /\ prod' \in [pc : {"idle", "flush", "append", "query", "reply"}, buf : Seq(Numbered), own : Seq(Numbered)]
          /\ prod'.pc = "flush" /\ prod'.own = own
      BY <1>5, <1>8, <2>2
    <3>3. Len(prod'.own) <= 2
      <4>1. Len(own) <= 2
        <5>1. Len(ks) <= 2
          BY <1>3, Zenon
        <5>2. Len(own) = Len(ks)
          BY <1>5, Zenon
        <5> QED
          BY <5>1, <5>2
      <4> QED
        BY <3>1, <4>1
    <3>2. pending' \in Seq(Numbered) /\ Len(pending') <= kMaxPending
      BY <2>2, NoTokens, ConNumbers
    <3> QED
      BY <1>2, <2>1, <2>2, <3>1, <3>2, <3>3 DEF ConIInv, ConShape, ConHands, ConEnds, Numbered
  <2>3. CASE Len(pending) + Len(ks) <= kMaxPending /\ pending' = Cat(pending, own) /\ UNCHANGED prod
    <3>1. pending' \in Seq(Numbered) /\ Len(pending') = Len(pending) + Len(own)
      BY <1>5, <1>8, <2>3, IdsConcat
    <3>2. Len(pending') <= kMaxPending
      BY <1>5, <2>3, <3>1
    <3> QED
      BY <1>2, <2>1, <2>3, <3>1, <3>2 DEF ConIInv, ConShape, ConHands, ConEnds, Numbered
  <2> QED
    BY <1>7, <2>2, <2>3
<1>10. Whole' = Cat(Whole, own)
  <2>1. Whole = Together(conOut, Held, <<>>, pending, <<>>)
    BY <1>2 DEF Whole, Held, Flushed, Owned
  <2>2. Together(conOut, Held, <<>>, pending, own) = Cat(Whole, own)
    <3>1. PICK n \in Seq(Numbered) : n = <<>>
      BY NoTokens
    <3>2. Together(conOut, Held, n, pending, own) = Cat(Together(conOut, Held, n, pending, <<>>), own)
      BY <1>5, <1>8, TogetherParts
    <3> QED
      BY <2>1, <3>1, <3>2
  <2>3. CASE prod' = [pc |-> "flush", buf |-> pending, own |-> own] /\ pending' = <<>>
    <3>1. Whole' = Together(conOut, Held, pending, <<>>, own)
      BY <1>2, <2>3 DEF Whole, Held, Flushed, Owned
    <3> QED
      BY <1>8, <2>2, <3>1, HandFlush
  <2>4. CASE pending' = Cat(pending, own) /\ UNCHANGED prod
    <3>1. Whole' = Together(conOut, Held, <<>>, Cat(pending, own), <<>>)
      BY <1>2, <2>4 DEF Whole, Held, Flushed, Owned
    <3>2. Together(conOut, Held, <<>>, Cat(pending, own), <<>>) = Together(conOut, Held, <<>>, pending, own)
      <4>1. PICK n \in Seq(Numbered) : n = <<>>
        BY NoTokens
      <4>2. Together(conOut, Held, n, Cat(pending, own), <<>>) = Together(conOut, Held, n, pending, own)
        BY <1>5, <1>8, HandOwn
      <4> QED
        BY <4>1, <4>2
    <3> QED
      BY <2>2, <3>1, <3>2
  <2> QED
    BY <1>7, <2>3, <2>4
<1>11. ConKept'
  <2>1. Whole \in Seq(Numbered) /\ Len(Whole) = printed /\ Ids(Whole) = 1..printed
    <3>1. Whole \in Seq(Numbered)
      BY <1>8, TogetherParts DEF Whole
    <3> QED
      BY <3>1 DEF ConIInv, ConKept
  <2>2. Len(Whole') = printed + Len(ks) /\ Ids(Whole') = (1..printed) \cup ((printed + 1)..(printed + Len(ks)))
    <3>1. Len(Cat(Whole, own)) = Len(Whole) + Len(own)
      BY <1>5, <2>1, IdsConcat
    <3>2. Ids(Cat(Whole, own)) = Ids(Whole) \cup Ids(own)
      BY <1>5, <2>1, IdsConcat
    <3> QED
      BY <1>5, <1>6, <1>10, <2>1, <3>1, <3>2
  <2>4. InPlace(Whole) => InPlace(Whole')
    BY <1>5, <1>10, <2>1, IdsConcat
  <2>3. (1..printed) \cup ((printed + 1)..(printed + Len(ks))) = 1..(printed + Len(ks))
    BY <1>3, <1>4
  <2> QED
    BY <1>2, <1>4, <2>2, <2>3, <2>4 DEF ConIInv, ConKept
<1> QED
  BY <1>9, <1>11 DEF ConIInv

LEMMA FlushStep == ConIInv /\ FlushWrite => ConIInv'
<1> SUFFICES ASSUME ConIInv, FlushWrite PROVE ConIInv'
  OBVIOUS
<1>1. /\ prod.pc \in {"flush", "query"} /\ conOut' = Cat(conOut, Flushed)
      /\ overtook' = (overtook \/ (prod.buf # <<>> /\ writer.buf # <<>>))
      /\ prod' = [prod EXCEPT !.buf = <<>>, !.pc = IF @ = "flush" THEN "append" ELSE "reply"]
      /\ UNCHANGED <<pending, writer, stopper, printed, reports, report>>
  BY DEF FlushWrite, Cat, Flushed
<1>2. /\ conOut \in Seq(Numbered) /\ writer.buf \in Seq(Numbered) /\ prod.buf \in Seq(Numbered)
      /\ pending \in Seq(Numbered) /\ prod.own \in Seq(Numbered) /\ overtook \in BOOLEAN
      /\ prod \in [pc : {"idle", "flush", "append", "query", "reply"}, buf : Seq(Numbered), own : Seq(Numbered)]
      /\ Held \in Seq(Numbered) /\ Flushed \in Seq(Numbered) /\ Owned \in Seq(Numbered)
  BY DEF ConIInv, ConShape, Held, Flushed, Owned, Writers
<1>3. /\ prod' \in [pc : {"idle", "flush", "append", "query", "reply"}, buf : Seq(Numbered), own : Seq(Numbered)]
      /\ prod'.own = prod.own /\ prod'.buf = <<>>
      /\ prod'.pc = (IF prod.pc = "flush" THEN "append" ELSE "reply")
  BY <1>1, <1>2, NoTokens
<1>4. conOut' \in Seq(Numbered) /\ overtook' \in BOOLEAN
  BY <1>1, <1>2, IdsConcat
<1>5. ConShape' /\ ConHands' /\ ConEnds'
  BY <1>1, <1>3, <1>4 DEF ConIInv, ConShape, ConHands, ConEnds, Numbered
<1>6. Whole' = Together(Cat(conOut, Flushed), Held, <<>>, pending, Owned)
  BY <1>1, <1>3 DEF Whole, Held, Flushed, Owned
<1>7. Len(Whole') = Len(Whole) /\ Ids(Whole') = Ids(Whole)
  <2>1. /\ Cat(conOut, Flushed) \in Seq(Numbered) /\ Len(Cat(conOut, Flushed)) = Len(conOut) + Len(Flushed)
        /\ Ids(Cat(conOut, Flushed)) = Ids(conOut) \cup Ids(Flushed)
    BY <1>2, IdsConcat
  <2>2. /\ Len(Whole') = Len(Cat(conOut, Flushed)) + Len(Held) + Len(<<>>) + Len(pending) + Len(Owned)
        /\ Ids(Whole') = Ids(Cat(conOut, Flushed)) \cup Ids(Held) \cup Ids(<<>>) \cup Ids(pending) \cup Ids(Owned)
    <3>1. PICK n \in Seq(Numbered) : n = <<>>
      BY NoTokens
    <3>2. PICK c \in Seq(Numbered) : c = Cat(conOut, Flushed)
      BY <2>1, Zenon
    <3>5. Held \in Seq(Numbered) /\ pending \in Seq(Numbered) /\ Owned \in Seq(Numbered)
      BY <1>2, Zenon
    <3>3. Len(Together(c, Held, n, pending, Owned)) = Len(c) + Len(Held) + Len(n) + Len(pending) + Len(Owned)
      BY <3>5, TogetherParts
    <3>4. Ids(Together(c, Held, n, pending, Owned)) = IdsOf(c, Held, n, pending, Owned)
      BY <3>5, TogetherParts
    <3> QED
      BY <1>6, <3>1, <3>2, <3>3, <3>4 DEF IdsOf
  <2>3. /\ Len(Whole) = Len(conOut) + Len(Held) + Len(Flushed) + Len(pending) + Len(Owned)
        /\ Ids(Whole) = Ids(conOut) \cup Ids(Held) \cup Ids(Flushed) \cup Ids(pending) \cup Ids(Owned)
    <3>1. Len(Whole) = Len(conOut) + Len(Held) + Len(Flushed) + Len(pending) + Len(Owned)
      BY <1>2, TogetherParts DEF Whole
    <3>2. Ids(Whole) = IdsOf(conOut, Held, Flushed, pending, Owned)
      BY <1>2, TogetherParts DEF Whole
    <3> QED
      BY <3>1, <3>2 DEF IdsOf
  <2>4. Len(conOut) \in Nat /\ Len(Held) \in Nat /\ Len(Flushed) \in Nat /\ Len(pending) \in Nat
        /\ Len(Owned) \in Nat
    BY <1>2
  <2>5. Len(Whole') = Len(Whole)
    BY <2>1, <2>2, <2>3, <2>4, NoTokens
  <2>6. Ids(Whole') = Ids(Whole)
    BY <2>1, <2>2, <2>3, NoTokens
  <2> QED
    BY <2>5, <2>6
<1>8. ~overtook' => Whole' = Whole
  <2>1. CASE writer.buf = <<>>
    <3>1. Held = <<>> /\ Whole = Together(conOut, <<>>, Flushed, pending, Owned)
      BY <2>1 DEF Whole, Held
    <3>2. Together(Cat(conOut, Flushed), <<>>, <<>>, pending, Owned) = Together(conOut, <<>>, Flushed, pending, Owned)
      BY <1>2, HandWritten
    <3> QED
      BY <1>6, <3>1, <3>2
  <2>2. CASE prod.buf = <<>>
    <3>1. Cat(conOut, <<>>) = conOut
      BY <1>2, TokensAssociate
    <3>2. Flushed = <<>>
      BY <2>2 DEF Flushed
    <3> QED
      BY <1>6, <3>1, <3>2 DEF Whole
  <2> QED
    BY <1>1, <2>1, <2>2
<1>9. ConKept'
  BY <1>1, <1>2, <1>7, <1>8 DEF ConIInv, ConKept
<1> QED
  BY <1>5, <1>9 DEF ConIInv

LEMMA ProducerStep == ConIInv /\ (AppendOwn \/ CursorQuery \/ CursorReply) => ConIInv'
<1> SUFFICES ASSUME ConIInv, AppendOwn \/ CursorQuery \/ CursorReply PROVE ConIInv'
  OBVIOUS
<1>1. /\ conOut \in Seq(Numbered) /\ writer.buf \in Seq(Numbered) /\ prod.buf \in Seq(Numbered)
      /\ pending \in Seq(Numbered) /\ prod.own \in Seq(Numbered) /\ overtook \in BOOLEAN
      /\ prod \in [pc : {"idle", "flush", "append", "query", "reply"}, buf : Seq(Numbered), own : Seq(Numbered)]
      /\ Held \in Seq(Numbered) /\ Flushed \in Seq(Numbered) /\ Owned \in Seq(Numbered)
  BY DEF ConIInv, ConShape, Held, Flushed, Owned, Writers
<1>2. CASE AppendOwn
  <2>1. /\ prod.pc = "append" /\ pending' = Cat(pending, Owned)
        /\ prod' = [prod EXCEPT !.pc = "idle", !.own = <<>>]
        /\ UNCHANGED <<conOut, writer, stopper, printed, reports, overtook, report>>
    BY <1>2 DEF AppendOwn, Cat, Owned
  <2>2. /\ prod' \in [pc : {"idle", "flush", "append", "query", "reply"}, buf : Seq(Numbered), own : Seq(Numbered)]
        /\ prod'.pc = "idle" /\ prod'.own = <<>> /\ prod'.buf = prod.buf /\ Len(prod'.own) = 0
    BY <1>1, <2>1, NoTokens
  <2>3. pending = <<>> /\ Len(prod.own) <= 2 /\ prod.buf = <<>> /\ stopper = "run" /\ writer.pc # "done"
    BY <2>1 DEF ConIInv, ConHands, ConEnds, ConShape
  <2>4. pending' \in Seq(Numbered) /\ Len(pending') <= kMaxPending
    <3>1. /\ pending' \in Seq(Numbered) /\ Len(pending') = Len(pending) + Len(Owned)
          /\ Len(pending) = 0 /\ Len(Owned) \in Nat /\ Len(Owned) <= 2
      <4>1. Cat(pending, Owned) \in Seq(Numbered) /\ Len(Cat(pending, Owned)) = Len(pending) + Len(Owned)
        BY <1>1, IdsConcat
      <4>2. Len(pending) = 0
        BY <2>3, NoTokens
      <4>3. Len(Owned) \in Nat
        BY <1>1
      <4>4. Len(Owned) <= 2
        BY <2>3 DEF Owned
      <4> QED
        BY <2>1, <4>1, <4>2, <4>3, <4>4
    <3> QED
      BY <3>1, ConNumbers
  <2>5. ConShape' /\ ConHands' /\ ConEnds'
    BY <2>1, <2>2, <2>3, <2>4 DEF ConIInv, ConShape, ConHands, ConEnds, Numbered
  <2>6. Whole' = Whole
    <3>1. Whole' = Together(conOut, Held, Flushed, Cat(pending, Owned), <<>>)
      BY <2>1, <2>2 DEF Whole, Held, Flushed, Owned
    <3> QED
      BY <1>1, <3>1, HandOwn DEF Whole
  <2> QED
    BY <2>1, <2>5, <2>6, ConHandsOn
<1>3. CASE CursorQuery
  <2>1. /\ prod.pc = "idle" /\ stopper = "run" /\ reports < MaxReports /\ reports' = reports + 1
        /\ prod' = [prod EXCEPT !.pc = "query", !.buf = pending] /\ pending' = <<>>
        /\ UNCHANGED <<conOut, writer, stopper, printed, overtook, report>>
    BY <1>3 DEF CursorQuery
  <2>2. /\ prod' \in [pc : {"idle", "flush", "append", "query", "reply"}, buf : Seq(Numbered), own : Seq(Numbered)]
        /\ prod'.pc = "query" /\ prod'.own = prod.own /\ prod'.buf = pending
    BY <1>1, <2>1
  <2>3. prod.buf = <<>> /\ prod.own = <<>> /\ writer.pc # "done" /\ Len(prod.own) <= 2
    BY <2>1 DEF ConIInv, ConHands, ConEnds
  <2>4. pending' \in Seq(Numbered) /\ Len(pending') <= kMaxPending /\ reports' \in 0..MaxReports
    BY <2>1, NoTokens, ConNumbers DEF ConIInv, ConShape
  <2>5. ConShape' /\ ConHands' /\ ConEnds'
    BY <2>1, <2>2, <2>3, <2>4 DEF ConIInv, ConShape, ConHands, ConEnds, Numbered
  <2>6. Whole' = Whole
    <3>1. Whole' = Together(conOut, Held, pending, <<>>, Owned)
      BY <2>1, <2>2 DEF Whole, Held, Flushed, Owned
    <3>2. Whole = Together(conOut, Held, <<>>, pending, Owned)
      BY <2>3 DEF Whole, Held, Flushed, Owned
    <3> QED
      BY <1>1, <3>1, <3>2, HandFlush
  <2> QED
    BY <2>1, <2>5, <2>6, ConHandsOn
<1>4. CASE CursorReply
  <2>1. /\ prod.pc = "reply" /\ report' = Len(conOut) /\ prod' = [prod EXCEPT !.pc = "idle"]
        /\ UNCHANGED <<pending, conOut, writer, stopper, printed, reports, overtook>>
    BY <1>4 DEF CursorReply
  <2>2. /\ prod' \in [pc : {"idle", "flush", "append", "query", "reply"}, buf : Seq(Numbered), own : Seq(Numbered)]
        /\ prod'.pc = "idle" /\ prod'.own = prod.own /\ prod'.buf = prod.buf
    BY <1>1, <2>1
  <2>3. report' \in 0..MaxTokens
    <3>1. Len(conOut) + Len(Held) + Len(Flushed) + Len(pending) + Len(Owned) = printed
      <4>1. Len(Whole) = Len(conOut) + Len(Held) + Len(Flushed) + Len(pending) + Len(Owned)
        BY <1>1, TogetherParts DEF Whole
      <4> QED
        BY <4>1 DEF ConIInv, ConKept
    <3>2. printed \in Nat /\ printed <= MaxTokens
      BY ConNumbers DEF ConIInv, ConShape
    <3>3. Len(conOut) \in Nat /\ Len(Held) \in Nat /\ Len(Flushed) \in Nat /\ Len(pending) \in Nat
          /\ Len(Owned) \in Nat
      BY <1>1
    <3>4. Len(conOut) <= printed
      BY <3>1, <3>2, <3>3
    <3> QED
      BY <2>1, <3>2, <3>3, <3>4, ConNumbers
  <2>4. ConShape' /\ ConHands' /\ ConEnds'
    BY <2>1, <2>2, <2>3 DEF ConIInv, ConShape, ConHands, ConEnds, Numbered
  <2>5. Whole' = Whole
    BY <2>1, <2>2 DEF Whole, Held, Flushed, Owned
  <2> QED
    BY <2>1, <2>4, <2>5, ConHandsOn
<1> QED
  BY <1>2, <1>3, <1>4

LEMMA WriterStep == ConIInv /\ WriterSteps => ConIInv'
<1> SUFFICES ASSUME ConIInv, WriterSteps PROVE ConIInv'
  OBVIOUS
<1>1. /\ conOut \in Seq(Numbered) /\ writer.buf \in Seq(Numbered) /\ prod.buf \in Seq(Numbered)
      /\ pending \in Seq(Numbered) /\ prod.own \in Seq(Numbered) /\ writer \in Writers /\ Len(pending) \in Nat
      /\ Held \in Seq(Numbered) /\ Flushed \in Seq(Numbered) /\ Owned \in Seq(Numbered)
      /\ Len(pending) \in 0..kMaxPending
  BY ConNumbers DEF ConIInv, ConShape, Writers, Held, Flushed, Owned
<1> DEFINE Looks == WriterWakes \/ WriterLooksAgain \/ WriterTimesOut \/ WriterGoesOn
           Waits == \/ WriterEnds
                    \/ pending' = pending /\ writer' = [writer EXCEPT !.pc = "held"]
                    \/ \E o \in BOOLEAN :
                         /\ pending' = pending
                         /\ writer' = [writer EXCEPT !.pc = "coalesce", !.size = Len(pending), !.open = o]
<1>5. ASSUME Looks PROVE /\ writer.pc \in {"wait", "coalesce", "held"}
                         /\ UNCHANGED <<conOut, prod, stopper, printed, reports, overtook, report>>
                         /\ (\E all : Take(all)) \/ Waits
  <2>1. has_open_dec_redraw_frame(pending) \in BOOLEAN
    BY Zenon DEF has_open_dec_redraw_frame
  <2>2. ASSUME LookAround PROVE (\E all : Take(all)) \/ Waits
    BY <2>1, <2>2 DEF LookAround
  <2> QED
    BY <1>5, <2>2 DEF WriterWakes, WriterLooksAgain, WriterTimesOut, WriterGoesOn, writerSame
<1>2. CASE (Looks \/ WriterEnds) /\ Waits
  <2>1. UNCHANGED <<pending, conOut, prod, stopper, printed, reports, overtook, report>>
    BY <1>2, <1>5 DEF WriterEnds
  <2>2. writer' \in Writers /\ writer'.buf = writer.buf
    BY <1>1, <1>2 DEF WriterEnds, Writers
  <2>3. /\ writer.pc \in {"wait", "coalesce", "held"} /\ writer'.pc \in {"coalesce", "held", "done"}
        /\ writer'.pc = "done" => pending = <<>> /\ stopper # "run"
    BY <1>1, <1>2, <1>5 DEF WriterEnds, stopping, Writers
  <2>4. ConShape' /\ ConHands' /\ ConEnds'
    BY <2>1, <2>2, <2>3 DEF ConIInv, ConShape, ConHands, ConEnds, Numbered, Writers
  <2>5. Whole' = Whole
    BY <2>1, <2>2 DEF Whole, Held, Flushed, Owned
  <2> QED
    BY <2>1, <2>4, <2>5, ConHandsOn
<1>3. CASE Looks /\ \E all : Take(all)
  <2>1. PICK all : Take(all)
    BY <1>3
  <2>2. /\ writer.pc \in {"wait", "coalesce", "held"}
        /\ UNCHANGED <<conOut, prod, stopper, printed, reports, overtook, report>>
    BY <1>3, <1>5
  <2>3. PICK safe : safe = IF all THEN Len(pending) ELSE terminal_safe_prefix(pending)
    OBVIOUS
  <2>4. safe \in 0..Len(pending)
    BY <1>1, <2>3, SafePrefix
  <2> DEFINE a == SubSeq(pending, 1, safe)
             b == SubSeq(pending, safe + 1, Len(pending))
  <2>5. writer' = [pc |-> "write", buf |-> a, size |-> 0, open |-> FALSE] /\ pending' = b
    BY <2>1, <2>3 DEF Take
  <2>6. a \in Seq(Numbered) /\ b \in Seq(Numbered) /\ Len(b) <= Len(pending) /\ Cat(a, b) = pending
    <3>1. a \in Seq(Numbered)
      BY <1>1, <2>4, SubSeqProperties
    <3>2. b \in Seq(Numbered) /\ Len(b) <= Len(pending)
      BY <1>1, <2>4, SubSeqProperties
    <3>3. a \o b = SubSeq(pending, 1, Len(pending))
      <4>1. 1 \in 1..(Len(pending) + 1) /\ safe \in (1 - 1)..Len(pending) /\ Len(pending) \in safe..Len(pending)
        BY <1>1, <2>4
      <4> QED
        BY <1>1, <4>1, ConcatAdjacentSubSeq DEF a, b
    <3>4. SubSeq(pending, 1, Len(pending)) = pending
      BY <1>1, SubSeqFull
    <3> QED
      BY <3>1, <3>2, <3>3, <3>4 DEF Cat
  <2> HIDE DEF a, b
  <2>7. writer' \in Writers /\ writer'.buf = a /\ writer'.pc = "write"
    BY <1>1, <2>5, <2>6, ConNumbers DEF Writers
  <2>8. writer.buf = <<>> /\ (prod.pc # "idle" => pending = <<>>) /\ (prod.pc = "idle" => prod.buf = <<>>)
    BY <2>2 DEF ConIInv, ConHands
  <2>9. pending = <<>> => a = <<>> /\ b = <<>>
    <3>1. Cat(a, b) = <<>> <=> a = <<>> /\ b = <<>>
      BY <2>6, ConcatEqualIffEmpty DEF Cat
    <3> QED
      BY <2>6, <3>1
  <2>10. ConShape' /\ ConHands' /\ ConEnds'
    <3>1. Len(pending') <= kMaxPending /\ pending' \in Seq(Numbered)
      BY <1>1, <2>5, <2>6, ConNumbers DEF ConIInv, ConShape
    <3>2. prod.pc # "idle" => pending' = <<>>
      BY <2>5, <2>8, <2>9
    <3>3. stopper # "stopped" /\ writer'.pc # "done"
      BY <2>2, <2>7 DEF ConIInv, ConEnds
    <3> QED
      BY <2>2, <2>7, <3>1, <3>2, <3>3 DEF ConIInv, ConShape, ConHands, ConEnds, Numbered
  <2>11. Whole' = Whole
    <3>1. Whole' = Together(conOut, a, Flushed, b, Owned)
      BY <2>2, <2>5, <2>7 DEF Whole, Held, Flushed, Owned
    <3>2. Whole = Together(conOut, <<>>, Flushed, pending, Owned)
      BY <2>8 DEF Whole, Held, Flushed, Owned
    <3>3. CASE prod.buf = <<>>
      <4>1. Together(conOut, a, <<>>, b, Owned) = Together(conOut, <<>>, <<>>, Cat(a, b), Owned)
        BY <1>1, <2>6, HandTaken
      <4>2. Flushed = <<>>
        BY <3>3 DEF Flushed
      <4> QED
        BY <2>6, <3>1, <3>2, <4>1, <4>2
    <3>4. CASE pending = <<>>
      BY <2>9, <3>1, <3>2, <3>4
    <3> QED
      BY <2>8, <3>3, <3>4
  <2> QED
    BY <2>2, <2>10, <2>11, ConHandsOn
<1>4. CASE WriterWrites
  <2>1. /\ writer.pc = "write" /\ conOut' = Cat(conOut, Held)
        /\ writer' = [writer EXCEPT !.pc = "wait", !.buf = <<>>]
        /\ UNCHANGED <<pending, prod, stopper, printed, reports, overtook, report>>
    BY <1>4 DEF WriterWrites, Cat, Held
  <2>2. writer' \in Writers /\ writer'.buf = <<>> /\ writer'.pc = "wait" /\ conOut' \in Seq(Numbered)
    BY <1>1, <2>1, NoTokens, IdsConcat DEF Writers
  <2>3. ConShape' /\ ConHands' /\ ConEnds'
    BY <2>1, <2>2 DEF ConIInv, ConShape, ConHands, ConEnds, Numbered
  <2>4. Whole' = Whole
    <3>1. Whole' = Together(Cat(conOut, Held), <<>>, Flushed, pending, Owned)
      BY <2>1, <2>2 DEF Whole, Held, Flushed, Owned
    <3> QED
      BY <1>1, <3>1, HandWritten DEF Whole
  <2> QED
    BY <2>1, <2>3, <2>4, ConHandsOn
<1> QED
  BY <1>2, <1>3, <1>4, <1>5 DEF WriterSteps

LEMMA ConStopStep == ConIInv /\ (Stop \/ StopJoins \/ UNCHANGED conVars) => ConIInv'
<1> SUFFICES ASSUME ConIInv, Stop \/ StopJoins \/ UNCHANGED conVars PROVE ConIInv'
  OBVIOUS
<1>1. UNCHANGED <<pending, conOut, writer, prod, printed, reports, overtook, report>>
  BY DEF Stop, StopJoins, conVars
<1>2. \/ stopper' = stopper
      \/ prod.pc = "idle" /\ stopper = "run" /\ stopper' = "stopping"
      \/ stopper = "stopping" /\ writer.pc = "done" /\ stopper' = "stopped"
  BY DEF Stop, StopJoins, conVars
<1>3. ConShape' /\ ConHands' /\ ConEnds'
  BY <1>1, <1>2 DEF ConIInv, ConShape, ConHands, ConEnds, Numbered
<1>4. Whole' = Whole
  BY <1>1 DEF Whole, Held, Flushed, Owned
<1> QED
  BY <1>1, <1>3, <1>4, ConHandsOn

LEMMA ConInductive == ConIInv /\ [ConNext]_conVars => ConIInv'
  BY WriteStep, FlushStep, ProducerStep, WriterStep, ConStopStep DEF ConNext

\* The producer, the writer thread and stop() of console_writer.h: every token the
\* guest printed is on the console or in one place on its way, in order unless a
\* flush overtook the writer, and all of them are on the console when stop()
\* returns; for every buffer size and flush threshold.
THEOREM OutputSafeHolds == ConSpec => []OutputSafe
<1>1. ASSUME ConIInv PROVE OutputSafe
  <2>1. AllBytes = Whole
    BY DEF AllBytes, Whole, Held, Flushed, Owned, Together, Cat
  <2>2. ConTypeOK
    BY <1>1 DEF ConIInv, ConShape, ConTypeOK, Writers
  <2>3. stopper = "stopped" => Len(conOut) = printed
    <3> SUFFICES ASSUME stopper = "stopped" PROVE Len(conOut) = printed
      OBVIOUS
    <3>1. writer.buf = <<>> /\ prod.buf = <<>> /\ pending = <<>> /\ prod.own = <<>>
      BY <1>1 DEF ConIInv, ConHands, ConEnds
    <3>2. conOut \in Seq(Numbered)
      BY <1>1 DEF ConIInv, ConShape
    <3>3. Len(Whole) = Len(conOut) + Len(<<>>) + Len(<<>>) + Len(<<>>) + Len(<<>>)
      <4>1. Whole = Together(conOut, <<>>, <<>>, <<>>, <<>>)
        BY <3>1 DEF Whole, Held, Flushed, Owned
      <4> QED
        <5>1. PICK n \in Seq(Numbered) : n = <<>>
          BY NoTokens
        <5>2. Len(Together(conOut, n, n, n, n)) = Len(conOut) + Len(n) + Len(n) + Len(n) + Len(n)
          BY <3>2, TogetherParts
        <5> QED
          BY <4>1, <5>1, <5>2
    <3>4. Len(Whole) = Len(conOut)
      BY <3>2, <3>3
    <3> QED
      BY <1>1, <3>4 DEF ConIInv, ConKept
  <2>4. NothingLost
    BY <1>1, <2>1, <2>3 DEF ConIInv, ConKept, NothingLost, Ids
  <2>5. OutputInOrder
    BY <1>1, <2>1 DEF ConIInv, ConKept, OutputInOrder, InPlace
  <2> QED
    BY <2>2, <2>4, <2>5 DEF OutputSafe
<1>2. ConIInv => OutputSafe
  BY <1>1
<1> QED
  BY <1>2, ConInitial, ConInductive, PTL DEF ConSpec

-----------------------------------------------------------------------------
\* What the guest sends, as the marker and the cursor query tell it apart.
Traffic == {"esc", "6n", "x", "h", "a"}

\* How much of the marker the sequence t ends with.
EndsWith(t) ==
  IF Len(t) >= 2 /\ t[Len(t) - 1] = "h" /\ t[Len(t)] = "h" THEN 2
  ELSE IF Len(t) >= 1 /\ t[Len(t)] = "h" THEN 1 ELSE 0
NoMarker(t) == \A i \in 1..Len(t) : i + 2 <= Len(t) => ~(t[i] = "h" /\ t[i+1] = "h" /\ t[i+2] = "a")

MarkerInv ==
  /\ txTail \in Seq(Traffic) /\ Len(txTail) <= 4
  /\ match \in 0..3 /\ seen = (match = 3) /\ shown \in BOOLEAN
  /\ ~seen => ~shown /\ match = EndsWith(txTail) /\ NoMarker(txTail)

\* The largest place that fits.
LEMMA LargestIs ==
  ASSUME NEW S \in SUBSET Nat, NEW n \in S, \A j \in S : j <= n
  PROVE  (CHOOSE k \in S : \A j \in S : j <= k) = n
<1>1. PICK m \in S : m = (CHOOSE k \in S : \A j \in S : j <= k) /\ \A j \in S : j <= m
  OBVIOUS
<1>2. m <= n /\ n <= m /\ m \in Nat /\ n \in Nat
  BY <1>1
<1> QED BY <1>1, <1>2

\* Where the marker's state goes, place by place.
LEMMA MatchTable ==
  ASSUME NEW b \in Traffic
  PROVE  /\ Match(0, b) = IF b = "h" THEN 1 ELSE 0
         /\ Match(1, b) = IF b = "h" THEN 2 ELSE 0
         /\ Match(2, b) = IF b = "h" THEN 2 ELSE IF b = "a" THEN 3 ELSE 0
         /\ Match(3, b) = 3
<1>0. Len(Marker) = 3 /\ Marker[1] = "h" /\ Marker[2] = "h" /\ Marker[3] = "a"
  BY DEF Marker
<1> DEFINE at(m) == {k \in 0..m : b = Marker[k + 1]}
<1>1. ASSUME NEW m \in 0..2
      PROVE  /\ Match(m, b) = AdvanceMatch(m, b)
             /\ AdvanceMatch(m, b) = IF at(m) = {} THEN 0 ELSE (CHOOSE k \in at(m) : \A j \in at(m) : j <= k) + 1
  BY <1>0, <1>1 DEF Match, AdvanceMatch
<1>2. Match(0, b) = IF b = "h" THEN 1 ELSE 0
  <2>1. CASE b = "h"
    <3>1. at(0) \in SUBSET Nat /\ 0 \in at(0) /\ \A j \in at(0) : j <= 0
      BY <1>0, <2>1
    <3> QED BY <1>1, <2>1, <3>1, LargestIs
  <2>2. CASE b # "h"
    <3>1. at(0) = {}
      BY <1>0, <2>2
    <3> QED BY <1>1, <2>2, <3>1
  <2> QED BY <2>1, <2>2
<1>3. Match(1, b) = IF b = "h" THEN 2 ELSE 0
  <2>1. CASE b = "h"
    <3>1. at(1) \in SUBSET Nat /\ 1 \in at(1) /\ \A j \in at(1) : j <= 1
      BY <1>0, <2>1
    <3> HIDE DEF at
    <3>2. (CHOOSE k \in at(1) : \A j \in at(1) : j <= k) = 1
      BY <3>1, LargestIs
    <3> QED BY <1>1, <2>1, <3>1, <3>2
  <2>2. CASE b # "h"
    <3>1. at(1) = {}
      BY <1>0, <2>2
    <3> QED BY <1>1, <2>2, <3>1
  <2> QED BY <2>1, <2>2
<1>4. Match(2, b) = IF b = "h" THEN 2 ELSE IF b = "a" THEN 3 ELSE 0
  <2>1. CASE b = "h"
    <3>1. at(2) \in SUBSET Nat /\ 1 \in at(2) /\ \A j \in at(2) : j <= 1
      BY <1>0, <2>1
    <3> HIDE DEF at
    <3>2. (CHOOSE k \in at(2) : \A j \in at(2) : j <= k) = 1
      BY <3>1, LargestIs
    <3> QED BY <1>1, <2>1, <3>1, <3>2
  <2>2. CASE b = "a"
    <3>1. at(2) \in SUBSET Nat /\ 2 \in at(2) /\ \A j \in at(2) : j <= 2
      BY <1>0, <2>2
    <3> HIDE DEF at
    <3>2. (CHOOSE k \in at(2) : \A j \in at(2) : j <= k) = 2
      BY <3>1, LargestIs
    <3> QED BY <1>1, <2>2, <3>1, <3>2
  <2>3. CASE b # "h" /\ b # "a"
    <3>1. at(2) = {}
      BY <1>0, <2>3
    <3> QED BY <1>1, <2>3, <3>1
  <2> QED BY <2>1, <2>2, <2>3
<1> QED BY <1>0, <1>2, <1>3, <1>4 DEF Match

\* One byte more, as long as the marker is not complete.
LEMMA MatchStep ==
  ASSUME NEW t \in Seq(Traffic), NoMarker(t), NEW b \in Traffic, Match(EndsWith(t), b) # 3
  PROVE  /\ NoMarker(Append(t, b)) /\ EndsWith(Append(t, b)) = Match(EndsWith(t), b)
         /\ Append(t, b) \in Seq(Traffic)
<1> DEFINE s == Append(t, b)
           n == Len(t)
<1>1. /\ n \in Nat /\ Len(s) = n + 1 /\ s[n + 1] = b /\ \A i \in 1..n : s[i] = t[i]
      /\ s \in Seq(Traffic)
  OBVIOUS
<1> HIDE DEF s, n
<1>2. EndsWith(t) \in 0..2
  BY DEF EndsWith
<1>3. Match(EndsWith(t), b) = CASE b = "h" -> (IF EndsWith(t) = 0 THEN 1 ELSE 2)
                                [] b # "h" -> 0
  BY <1>2, MatchTable
<1>4. b = "a" => EndsWith(t) # 2
  BY MatchTable
<1>5. EndsWith(s) = Match(EndsWith(t), b)
  <2>1. EndsWith(t) = IF n >= 2 /\ t[n - 1] = "h" /\ t[n] = "h" THEN 2
                      ELSE IF n >= 1 /\ t[n] = "h" THEN 1 ELSE 0
    BY DEF EndsWith, n
  <2>2. EndsWith(s) = IF n + 1 >= 2 /\ s[n + 1 - 1] = "h" /\ s[n + 1] = "h" THEN 2
                      ELSE IF n + 1 >= 1 /\ s[n + 1] = "h" THEN 1 ELSE 0
    BY <1>1 DEF EndsWith
  <2>3. n + 1 - 1 = n
    BY <1>1
  <2>4. n >= 1 => s[n] = t[n]
    BY <1>1
  <2> QED BY <1>1, <1>3, <2>1, <2>2, <2>3, <2>4
<1>6. NoMarker(s)
  <2> SUFFICES ASSUME NEW i \in 1..Len(s), i + 2 <= Len(s), s[i] = "h", s[i+1] = "h", s[i+2] = "a"
               PROVE FALSE
    BY DEF NoMarker
  <2>1. CASE i + 2 <= n
    <3>1. i \in 1..n /\ i + 1 \in 1..n /\ i + 2 \in 1..n
      BY <1>1, <2>1
    <3>2. s[i] = t[i] /\ s[i+1] = t[i+1] /\ s[i+2] = t[i+2]
      BY <1>1, <3>1
    <3> QED BY <2>1, <3>1, <3>2 DEF NoMarker, n
  <2>2. CASE i + 2 = n + 1
    <3>1. i = n - 1 /\ i + 1 = n /\ n >= 2 /\ i \in 1..n /\ n \in 1..n /\ i + 2 = n + 1
      BY <1>1, <2>2
    <3>2. t[n-1] = "h" /\ t[n] = "h" /\ b = "a"
      BY <1>1, <3>1
    <3>3. EndsWith(t) = 2
      BY <3>1, <3>2 DEF EndsWith, n
    <3> QED BY <1>4, <3>2, <3>3
  <2> QED BY <1>1, <2>1, <2>2
<1> QED BY <1>1, <1>5, <1>6 DEF s

\* The last bytes of a sequence.
LastFour(t) == SubSeq(t, IF Len(t) > 4 THEN Len(t) - 3 ELSE 1, Len(t))
\* The last four bytes end with as much of the marker as the whole and hold no
\* marker that the whole did not.
LEMMA LastFourKeeps ==
  ASSUME NEW t \in Seq(Traffic)
  PROVE  /\ LastFour(t) \in Seq(Traffic) /\ Len(LastFour(t)) <= 4
         /\ EndsWith(LastFour(t)) = EndsWith(t)
         /\ NoMarker(t) => NoMarker(LastFour(t))
<1> DEFINE n == Len(t)
           m == IF n > 4 THEN n - 3 ELSE 1
           s == SubSeq(t, m, n)
<1>0. n \in Nat /\ m \in Nat /\ m >= 1 /\ m <= n + 1 /\ n - m <= 3
  OBVIOUS
<1>1. /\ s \in Seq(Traffic) /\ Len(s) = n - m + 1 /\ \A i \in 1..Len(s) : s[i] = t[m + i - 1]
  <2>1. \A i \in m..n : t[i] \in Traffic
    BY <1>0
  <2> HIDE DEF m, n
  <2>2. /\ SubSeq(t, m, n) \in Seq(Traffic)
        /\ Len(SubSeq(t, m, n)) = IF m <= n THEN n-m+1 ELSE 0
        /\ \A i \in 1..(n-m+1) : SubSeq(t,m,n)[i] = t[m+i-1]
    BY <1>0, <2>1 DEF n
  <2> QED BY <1>0, <2>2
<1>2. s = LastFour(t)
  BY DEF LastFour
<1>3. n = Len(t) /\ (n > 4 => m = n - 3) /\ (n <= 4 => m = 1)
  OBVIOUS
<1> HIDE DEF s, m, n
<1>4. Len(s) <= 4
  BY <1>0, <1>1
<1>5. EndsWith(s) = EndsWith(t)
  <2>1. CASE n = 0
    <3>1. Len(s) = 0
      BY <1>0, <1>1, <1>3, <2>1
    <3> QED BY <2>1, <3>1, <1>3 DEF EndsWith
  <2>2. CASE n = 1
    <3>1. Len(s) = 1 /\ s[1] = t[1] /\ Len(t) = 1
      BY <1>0, <1>1, <1>3, <2>2
    <3>2. /\ EndsWith(s) = (IF s[1] = "h" THEN 1 ELSE 0)
          /\ EndsWith(t) = (IF t[1] = "h" THEN 1 ELSE 0)
      BY <3>1 DEF EndsWith
    <3> QED BY <3>1, <3>2
  <2>3. CASE n >= 2
    <3> DEFINE k == Len(s)
    <3>1. k >= 2 /\ k \in Nat /\ m + k - 1 = n /\ m + (k - 1) - 1 = n - 1 /\ k - 1 \in 1..k /\ k \in 1..k
      BY <1>0, <1>1, <1>3, <2>3
    <3>2. s[k] = t[n] /\ s[k - 1] = t[n - 1]
      BY <1>1, <3>1
    <3> HIDE DEF k
    <3>3. EndsWith(s) = IF k >= 2 /\ s[k - 1] = "h" /\ s[k] = "h" THEN 2
                        ELSE IF k >= 1 /\ s[k] = "h" THEN 1 ELSE 0
      BY DEF EndsWith, k
    <3>4. EndsWith(t) = IF n >= 2 /\ t[n - 1] = "h" /\ t[n] = "h" THEN 2
                        ELSE IF n >= 1 /\ t[n] = "h" THEN 1 ELSE 0
      BY <1>3 DEF EndsWith
    <3> QED BY <1>0, <2>3, <3>1, <3>2, <3>3, <3>4
  <2> QED BY <1>0, <2>1, <2>2, <2>3
<1>6. ASSUME NoMarker(t) PROVE NoMarker(s)
  <2> SUFFICES ASSUME NEW i \in 1..Len(s), i + 2 <= Len(s), s[i] = "h", s[i+1] = "h", s[i+2] = "a"
               PROVE FALSE
    BY DEF NoMarker
  <2> DEFINE j == m + i - 1
  <2>1. /\ i + 1 \in 1..Len(s) /\ i + 2 \in 1..Len(s)
        /\ m + (i + 1) - 1 = j + 1 /\ m + (i + 2) - 1 = j + 2 /\ j \in 1..n /\ j + 2 <= n
    BY <1>0, <1>1
  <2>2. s[i] = t[j] /\ s[i+1] = t[j+1] /\ s[i+2] = t[j+2]
    BY <1>1, <2>1
  <2> QED BY <1>3, <1>6, <2>1, <2>2 DEF NoMarker
<1> QED BY <1>1, <1>2, <1>4, <1>5, <1>6

\* A tail without the marker is not one that has just shown it.
LEMMA NotShown ==
  ASSUME NEW s \in Seq(Traffic), NoMarker(s)
  PROVE  ~\E i \in 1..Len(s) - 2 : SubSeq(s, i, i + 2) = Marker
<1> SUFFICES ASSUME NEW i \in 1..Len(s) - 2, SubSeq(s, i, i + 2) = Marker PROVE FALSE
  OBVIOUS
<1>1. Len(s) \in Nat /\ i \in 1..Len(s) /\ i + 2 <= Len(s)
  OBVIOUS
<1>2. \A k \in 1..3 : SubSeq(s, i, i + 2)[k] = s[i + k - 1]
  BY <1>1
<1>3. Marker[1] = "h" /\ Marker[2] = "h" /\ Marker[3] = "a"
  BY DEF Marker
<1>4. s[i + 1 - 1] = "h" /\ s[i + 2 - 1] = "h" /\ s[i + 3 - 1] = "a"
  BY <1>2, <1>3
<1>5. i + 1 - 1 = i /\ i + 2 - 1 = i + 1 /\ i + 3 - 1 = i + 2
  BY <1>1
<1> QED BY <1>1, <1>4, <1>5 DEF NoMarker

\* What one and two bytes do to the marker's state.
LEMMA EmitKeeps ==
  ASSUME MarkerInv, NEW bytes, Emit(bytes),
         \/ \E b \in Traffic : bytes = <<b>>
         \/ \E b, c \in Traffic : bytes = <<b, c>>
  PROVE  MarkerInv'
<1> DEFINE tail == txTail \o bytes
           one == Match(match, bytes[1])
           m2 == IF Len(bytes) = 1 THEN one ELSE Match(one, bytes[2])
           last == LastFour(tail)
<1>1. /\ match' = m2 /\ seen' = (m2 = 3) /\ txTail' = last
      /\ shown' = (shown \/ \E i \in 1..Len(last) - 2 : SubSeq(last, i, i + 2) = Marker)
  <2>1. Len(Marker) = 3
    BY DEF Marker
  <2> QED BY <2>1 DEF Emit, LastFour
<1>2. /\ txTail \in Seq(Traffic) /\ match \in 0..3 /\ seen = (match = 3) /\ shown \in BOOLEAN
      /\ ~seen => ~shown /\ match = EndsWith(txTail) /\ NoMarker(txTail)
  BY DEF MarkerInv
<1>3. \A b \in Traffic, m \in 0..3 : Match(m, b) \in 0..3 /\ Match(3, b) = 3
  <2> TAKE b \in Traffic, m \in 0..3
  <2>1. m = 0 \/ m = 1 \/ m = 2 \/ m = 3
    OBVIOUS
  <2> QED BY <2>1, MatchTable
<1>4. tail \in Seq(Traffic) /\ m2 \in 0..3 /\ (m2 # 3 => ~seen /\ NoMarker(tail) /\ EndsWith(tail) = m2)
  <2>1. CASE \E b \in Traffic : bytes = <<b>>
    <3>1. PICK b \in Traffic : bytes = <<b>>
      BY <2>1
    <3>2. bytes[1] = b /\ Len(bytes) = 1 /\ tail = Append(txTail, b)
      BY <1>2, <3>1
    <3>3. m2 = Match(match, b)
      BY <3>2
    <3>4. m2 \in 0..3 /\ (m2 # 3 => match # 3)
      BY <1>2, <1>3, <3>3
    <3>5. tail \in Seq(Traffic)
      BY <1>2, <3>2
    <3>6. ASSUME m2 # 3 PROVE ~seen /\ NoMarker(tail) /\ EndsWith(tail) = m2
      BY <1>2, <3>2, <3>3, <3>4, <3>6, MatchStep
    <3> QED BY <3>4, <3>5, <3>6
  <2>2. CASE \E b, c \in Traffic : bytes = <<b, c>>
    <3>1. PICK b \in Traffic, c \in Traffic : bytes = <<b, c>>
      BY <2>2
    <3> DEFINE t1 == Append(txTail, b)
    <3>2. bytes[1] = b /\ bytes[2] = c /\ Len(bytes) = 2 /\ t1 \in Seq(Traffic) /\ tail = Append(t1, c)
      <4>1. Len(txTail) \in Nat /\ t1 \in Seq(Traffic) /\ bytes \in Seq(Traffic)
        BY <1>2, <3>1
      <4>2. tail \in Seq(Traffic) /\ Append(t1, c) \in Seq(Traffic) /\ Len(tail) = Len(txTail) + 2
            /\ Len(Append(t1, c)) = Len(txTail) + 2
        BY <1>2, <3>1, <4>1
      <4>3. \A i \in 1..Len(txTail) + 2 : tail[i] = Append(t1, c)[i]
        BY <1>2, <3>1, <4>1
      <4>4. tail = Append(t1, c)
        BY <4>2, <4>3, SeqEqual
      <4> QED BY <3>1, <4>1, <4>4
    <3>3. one = Match(match, b) /\ m2 = Match(one, c) /\ one \in 0..3 /\ m2 \in 0..3
      BY <1>2, <1>3, <3>2
    <3>4. m2 # 3 => one # 3 /\ match # 3
      BY <1>2, <1>3, <3>3
    <3>5. tail \in Seq(Traffic)
      BY <3>2
    <3> HIDE DEF t1, tail, one, m2
    <3>6. ASSUME m2 # 3 PROVE ~seen /\ NoMarker(tail) /\ EndsWith(tail) = m2
      <4>1. ~seen /\ match = EndsWith(txTail) /\ NoMarker(txTail)
        BY <1>2, <3>4, <3>6
      <4>2. NoMarker(t1) /\ EndsWith(t1) = one
        BY <1>2, <3>3, <3>4, <3>6, <4>1, MatchStep DEF t1
      <4>3. NoMarker(Append(t1, c)) /\ EndsWith(Append(t1, c)) = m2
        BY <3>2, <3>3, <3>6, <4>2, MatchStep
      <4> QED BY <3>2, <4>1, <4>3
    <3> QED BY <3>3, <3>5, <3>6
  <2> QED BY <2>1, <2>2
<1> HIDE DEF tail, one, m2
<1>5. /\ last \in Seq(Traffic) /\ Len(last) <= 4 /\ EndsWith(last) = EndsWith(tail)
      /\ NoMarker(tail) => NoMarker(last)
  BY <1>4, LastFourKeeps
<1> HIDE DEF last
<1>6. m2 # 3 => ~shown' /\ m2 = EndsWith(last) /\ NoMarker(last)
  BY <1>1, <1>2, <1>4, <1>5, NotShown
<1>7. shown' \in BOOLEAN
  BY <1>1, <1>2
<1> QED BY <1>1, <1>4, <1>5, <1>6, <1>7 DEF MarkerInv

-----------------------------------------------------------------------------
Uarts ==
  [ier : SUBSET Enables, fifoOn : BOOLEAN, trigger : 1..kFifoSize, dr : BOOLEAN,
   oe : BOOLEAN, bi : BOOLEAN, rbr : Nat, fifo : Seq(Nat), staging : Seq(Nat),
   thrIp : BOOLEAN, timeoutIp : BOOLEAN, loop : BOOLEAN, delta : BOOLEAN,
   iir : {"none", "line", "timeout", "data", "thr", "modem"}]

\* What the guest is to read next, and what is queued behind it.
FrontPart(r) == IF r.fifoOn THEN r.fifo ELSE IF r.dr THEN <<r.rbr>> ELSE <<>>
Pending(r) == FrontPart(r) \o r.staging

\* Outside FIFO mode a byte is staged only behind one in the register.
Good(r) ==
  /\ r \in Uarts /\ Len(r.fifo) <= kFifoSize /\ Len(r.staging) <= kRxCapacity
  /\ ~r.fifoOn /\ ~r.dr => r.staging = <<>>

Announced == u.iir = Cause(u) /\ (Cause(u) # "none" => irq \/ handler)

RxInv ==
  /\ Good(u)
  /\ {irq, handler, disturbed} \subseteq BOOLEAN /\ accepted \in Seq(Nat) /\ got \in Seq(Nat)
  /\ Announced
  /\ ~disturbed => (~u.fifoOn => u.fifo = <<>>) /\ got \o Pending(u) = accepted

\* What the driver has yet to read is a sequence of bytes.
LEMMA FrontType == ASSUME NEW r \in Uarts PROVE FrontPart(r) \in Seq(Nat) /\ Pending(r) \in Seq(Nat)
<1>1. r.rbr \in Nat /\ r.fifo \in Seq(Nat) /\ r.staging \in Seq(Nat)
  BY DEF Uarts
<1>2. <<r.rbr>> \in Seq(Nat) /\ <<>> \in Seq(Nat)
  BY <1>1
<1> QED BY <1>1, <1>2 DEF FrontPart, Pending

\* The first n elements and the others.
LEMMA Parts ==
  ASSUME NEW s \in Seq(Nat), NEW n \in 0..Len(s)
  PROVE  /\ SubSeq(s, 1, n) \in Seq(Nat) /\ SubSeq(s, n + 1, Len(s)) \in Seq(Nat)
         /\ Len(SubSeq(s, 1, n)) = n /\ Len(SubSeq(s, n + 1, Len(s))) = Len(s) - n
         /\ SubSeq(s, 1, n) \o SubSeq(s, n + 1, Len(s)) = s
<1> DEFINE m == Len(s)
<1>1. m \in Nat /\ n \in Nat /\ n <= m
  OBVIOUS
<1>2. /\ \A i \in 1..n : s[i] \in Nat
      /\ \A i \in (n+1)..m : s[i] \in Nat
  BY <1>1
<1>3. 1 \in 1..m+1 /\ n \in 1-1..m /\ m \in n..m
  BY <1>1
<1>4. SubSeq(s, 1, n) \o SubSeq(s, n + 1, m) = SubSeq(s, 1, m)
  BY <1>3, ConcatAdjacentSubSeq
<1>5. SubSeq(s, 1, m) = s
  BY SubSeqFull
<1> HIDE DEF m
<1>6. /\ SubSeq(s, 1, n) \in Seq(Nat)
      /\ Len(SubSeq(s, 1, n)) = IF 1 <= n THEN n - 1 + 1 ELSE 0
  BY <1>1, <1>2, SubSeqProperties
<1>7. /\ SubSeq(s, n + 1, m) \in Seq(Nat)
      /\ Len(SubSeq(s, n + 1, m)) = IF n + 1 <= m THEN m - (n + 1) + 1 ELSE 0
  BY <1>1, <1>2, SubSeqProperties
<1>8. Len(SubSeq(s, 1, n)) = n /\ Len(SubSeq(s, n + 1, m)) = m - n
  BY <1>1, <1>6, <1>7
<1> QED BY <1>4, <1>5, <1>6, <1>7, <1>8 DEF m

\* A queue is its first byte followed by the others.
LEMMA HeadThenTail ==
  ASSUME NEW s \in Seq(Nat), s # <<>>
  PROVE  /\ Head(s) \in Nat /\ Tail(s) \in Seq(Nat) /\ Len(Tail(s)) = Len(s) - 1
         /\ <<Head(s)>> \in Seq(Nat) /\ <<Head(s)>> \o Tail(s) = s
<1>1. /\ Head(s) \in Nat /\ Tail(s) \in Seq(Nat) /\ Len(Tail(s)) = Len(s) - 1
      /\ <<Head(s)>> \in Seq(Nat) /\ Len(<<Head(s)>>) = 1
  BY HeadTailProperties
<1>2. /\ <<Head(s)>> \o Tail(s) \in Seq(Nat)
      /\ Len(<<Head(s)>> \o Tail(s)) = Len(<<Head(s)>>) + Len(Tail(s))
  BY <1>1, ConcatProperties
<1>3. Len(<<Head(s)>> \o Tail(s)) = Len(s) /\ Len(s) \in Nat
  BY <1>1, <1>2
<1>4. ASSUME NEW i \in 1..Len(s) PROVE (<<Head(s)>> \o Tail(s))[i] = s[i]
  BY <1>1
<1> QED BY <1>1, <1>2, <1>3, <1>4, SeqEqual

\* Joining queues is associative.
LEMMA Assoc ==
  ASSUME NEW a \in Seq(Nat), NEW b \in Seq(Nat), NEW c \in Seq(Nat)
  PROVE  (a \o b) \o c = a \o (b \o c)
BY ConcatAssociative

\* The number of bytes taken: what there is or what there is room for.
LEMMA Smaller ==
  ASSUME NEW a \in Nat, NEW b \in Nat, NEW k \in Nat, a <= k
  PROVE  LET n == IF b < k - a THEN b ELSE k - a
         IN  n \in 0..b /\ n <= k - a /\ n \in Nat /\ a + n <= k /\ b - n <= b
OBVIOUS

\* Moving staged bytes forward changes no order.
LEMMA DrainKeeps ==
  ASSUME UartAssumption, NEW r \in Uarts, Len(r.fifo) <= kFifoSize, Len(r.staging) <= kRxCapacity
  PROVE  LET d == drain_rx_staging_locked(r)
         IN  /\ Good(d) /\ Pending(d) = Pending(r) /\ d.fifoOn = r.fifoOn
             /\ ~r.fifoOn => d.fifo = r.fifo
<1>0. /\ r.fifo \in Seq(Nat) /\ r.staging \in Seq(Nat) /\ r.fifoOn \in BOOLEAN /\ r.dr \in BOOLEAN
      /\ r.trigger \in Nat /\ r.rbr \in Nat
      /\ kFifoSize \in Nat /\ kRxCapacity \in Nat /\ Len(r.fifo) \in Nat /\ Len(r.staging) \in Nat
  BY DEF Uarts, UartAssumption
<1>1. CASE r.fifoOn
  <2> DEFINE free == kFifoSize - Len(r.fifo)
             n == IF Len(r.staging) < free THEN Len(r.staging) ELSE free
             x == SubSeq(r.staging, 1, n)
             y == SubSeq(r.staging, n + 1, Len(r.staging))
             f == r.fifo \o x
             d == [r EXCEPT !.fifo = f, !.staging = y,
                            !.dr = f # <<>>, !.timeoutIp = f # <<>> /\ Len(f) < r.trigger]
  <2>1. drain_rx_staging_locked(r) = d
    BY <1>1 DEF drain_rx_staging_locked
  <2>2. /\ n \in 0..Len(r.staging) /\ n \in Nat
        /\ Len(r.fifo) + n <= kFifoSize /\ Len(r.staging) - n <= Len(r.staging)
    BY <1>0, Smaller
  <2> HIDE DEF n
  <2>3. x \in Seq(Nat) /\ y \in Seq(Nat) /\ Len(x) = n /\ Len(y) = Len(r.staging) - n /\ x \o y = r.staging
    BY <1>0, <2>2, Parts
  <2> HIDE DEF x, y
  <2>4. f \in Seq(Nat) /\ Len(f) = Len(r.fifo) + n
    BY <1>0, <2>3, ConcatProperties
  <2>5. f \o y = r.fifo \o r.staging
    <3>1. (r.fifo \o x) \o y = r.fifo \o (x \o y)
      <4>1. r.fifo \in Seq(Nat) /\ x \in Seq(Nat) /\ y \in Seq(Nat)
        BY <1>0, <2>3
      <4> QED BY <4>1, Assoc
    <3> QED BY <2>3, <3>1
  <2> HIDE DEF f
  <2>6. d \in Uarts /\ d.fifoOn = r.fifoOn /\ d.fifo = f /\ d.staging = y
    BY <1>0, <2>3, <2>4 DEF Uarts
  <2> HIDE DEF d
  <2>7. Len(d.fifo) <= kFifoSize /\ Len(d.staging) <= kRxCapacity
    <3>1. Len(d.fifo) = Len(r.fifo) + n /\ Len(d.staging) = Len(r.staging) - n
      BY <2>3, <2>4, <2>6
    <3> QED BY <1>0, <2>2, <3>1
  <2>8. Good(d)
    BY <1>1, <2>6, <2>7 DEF Good
  <2>9. Pending(d) = f \o y /\ Pending(r) = r.fifo \o r.staging
    BY <1>1, <2>6 DEF Pending, FrontPart
  <2> QED BY <1>1, <2>1, <2>5, <2>6, <2>8, <2>9
<1>2. CASE ~r.fifoOn /\ ~r.dr /\ r.staging # <<>>
  <2> DEFINE d == [r EXCEPT !.rbr = Head(r.staging), !.staging = Tail(r.staging), !.dr = TRUE,
                            !.timeoutIp = FALSE]
  <2>1. drain_rx_staging_locked(r) = d
    BY <1>2 DEF drain_rx_staging_locked
  <2>2. /\ Head(r.staging) \in Nat /\ Tail(r.staging) \in Seq(Nat)
        /\ Len(Tail(r.staging)) = Len(r.staging) - 1
        /\ <<Head(r.staging)>> \o Tail(r.staging) = r.staging
    BY <1>0, <1>2, HeadThenTail
  <2>3. /\ d \in Uarts /\ d.fifoOn = r.fifoOn /\ d.fifo = r.fifo /\ d.staging = Tail(r.staging)
        /\ d.rbr = Head(r.staging) /\ d.dr = TRUE
    BY <1>0, <2>2 DEF Uarts
  <2> HIDE DEF d
  <2>4. Len(d.staging) <= kRxCapacity
    BY <1>0, <2>2, <2>3
  <2>5. Good(d)
    BY <2>3, <2>4 DEF Good
  <2>6. Pending(d) = <<Head(r.staging)>> \o Tail(r.staging) /\ Pending(r) = <<>> \o r.staging
    BY <1>2, <2>3 DEF Pending, FrontPart
  <2>7. <<>> \o r.staging = r.staging
    BY <1>0, ConcatEmptySeq
  <2> QED BY <2>1, <2>2, <2>3, <2>5, <2>6, <2>7
<1>3. CASE ~r.fifoOn /\ ~(~r.dr /\ r.staging # <<>>)
  <2> DEFINE d == [r EXCEPT !.timeoutIp = FALSE]
  <2>1. drain_rx_staging_locked(r) = d
    BY <1>3 DEF drain_rx_staging_locked
  <2>2. /\ d \in Uarts /\ d.fifoOn = r.fifoOn /\ d.fifo = r.fifo /\ d.staging = r.staging
        /\ d.rbr = r.rbr /\ d.dr = r.dr
    BY DEF Uarts
  <2> HIDE DEF d
  <2>3. Good(d) /\ Pending(d) = Pending(r)
    BY <1>3, <2>2 DEF Good, Pending, FrontPart
  <2> QED BY <2>1, <2>2, <2>3
<1> QED BY <1>0, <1>1, <1>2, <1>3

\* How many bytes fit.
LEMMA FitsIn ==
  ASSUME UartAssumption, NEW r \in Uarts, Len(r.staging) <= kRxCapacity, NEW bytes \in Seq(Nat)
  PROVE  Fits(r, bytes) \in 0..Len(bytes) /\ Len(r.staging) + Fits(r, bytes) <= kRxCapacity
<1>1. /\ Len(r.staging) \in Nat /\ Len(r.fifo) \in Nat /\ kRxCapacity \in Nat /\ Len(bytes) \in Nat
  BY DEF Uarts, UartAssumption
<1>2. PICK q \in Nat : q = RxQueued(r) /\ q >= Len(r.staging)
  <2>0. PICK a \in Nat, b \in Nat : a = Len(r.staging) /\ b = Len(r.fifo)
    BY <1>1
  <2>1. CASE r.fifoOn
    <3>1. RxQueued(r) = a + b
      BY <2>0, <2>1 DEF RxQueued
    <3>2. RxQueued(r) \in Nat /\ RxQueued(r) >= a
      BY <3>1
    <3> QED BY <2>0, <3>2
  <2>2. CASE ~r.fifoOn
    <3>1. RxQueued(r) = a + (IF r.dr THEN 1 ELSE 0)
      BY <2>0, <2>2 DEF RxQueued
    <3>2. RxQueued(r) \in Nat /\ RxQueued(r) >= a
      BY <3>1
    <3> QED BY <2>0, <3>2
  <2> QED BY <2>1, <2>2
<1>3. PICK n \in Nat, c \in Nat, b \in Nat : n = Len(r.staging) /\ c = kRxCapacity /\ b = Len(bytes)
  BY <1>1
<1>4. Fits(r, bytes) = LET room == IF q < c THEN c - q ELSE 0
                       IN  IF b < room THEN b ELSE room
  BY <1>2, <1>3 DEF Fits
<1>5. n <= c /\ q >= n
  BY <1>2, <1>3
<1>6. Fits(r, bytes) \in 0..b /\ n + Fits(r, bytes) <= c
  BY <1>4, <1>5
<1> QED BY <1>3, <1>6

\* Bytes are queued behind the others, as many as fit.
LEMMA EnqueueKeeps ==
  ASSUME UartAssumption, NEW r, Good(r), NEW bytes \in Seq(Nat)
  PROVE  LET e == Enqueued(r, bytes)
             new == SubSeq(bytes, 1, Fits(r, bytes))
         IN  /\ Good(e) /\ Pending(e) = Pending(r) \o new /\ new \in Seq(Nat)
             /\ e.fifoOn = r.fifoOn /\ (~r.fifoOn => e.fifo = r.fifo)
<1> DEFINE n == Fits(r, bytes)
           new == SubSeq(bytes, 1, n)
           s == r.staging \o new
           m == [r EXCEPT !.staging = s, !.oe = r.oe \/ n < Len(bytes)]
<1>0. /\ r \in Uarts /\ Len(r.fifo) <= kFifoSize /\ Len(r.staging) <= kRxCapacity
      /\ r.staging \in Seq(Nat) /\ kRxCapacity \in Nat /\ Len(bytes) \in Nat /\ r.oe \in BOOLEAN
  BY DEF Good, Uarts, UartAssumption
<1>1. n \in 0..Len(bytes) /\ Len(r.staging) + n <= kRxCapacity
  BY <1>0, FitsIn
<1>2. Enqueued(r, bytes) = drain_rx_staging_locked(m)
  BY DEF Enqueued
<1> HIDE DEF n
<1>3. new \in Seq(Nat) /\ Len(new) = n
  BY <1>1, Parts
<1> HIDE DEF new
<1>4. s \in Seq(Nat) /\ Len(s) = Len(r.staging) + n
  BY <1>0, <1>3, ConcatProperties
<1> HIDE DEF s
<1>5. /\ m \in Uarts /\ m.fifo = r.fifo /\ m.staging = s /\ m.fifoOn = r.fifoOn /\ m.dr = r.dr
      /\ m.rbr = r.rbr
  BY <1>0, <1>4 DEF Uarts
<1> HIDE DEF m
<1>6. Len(m.fifo) <= kFifoSize /\ Len(m.staging) <= kRxCapacity
  BY <1>0, <1>1, <1>4, <1>5
<1> DEFINE e == drain_rx_staging_locked(m)
<1>7. /\ Good(e) /\ Pending(e) = Pending(m) /\ e.fifoOn = m.fifoOn
      /\ ~m.fifoOn => e.fifo = m.fifo
  BY <1>5, <1>6, DrainKeeps
<1> HIDE DEF e
<1>8. FrontPart(m) = FrontPart(r) /\ FrontPart(r) \in Seq(Nat)
  BY <1>0, <1>5, FrontType DEF FrontPart
<1>9. Pending(m) = FrontPart(r) \o s /\ Pending(r) = FrontPart(r) \o r.staging
  BY <1>5, <1>8 DEF Pending
<1>10. FrontPart(r) \o s = (FrontPart(r) \o r.staging) \o new
  <2>1. (FrontPart(r) \o r.staging) \o new = FrontPart(r) \o (r.staging \o new)
    <3>1. FrontPart(r) \in Seq(Nat) /\ r.staging \in Seq(Nat) /\ new \in Seq(Nat)
      BY <1>0, <1>3, <1>8
    <3> QED BY <3>1, Assoc
  <2> QED BY <2>1 DEF s
<1> QED BY <1>2, <1>3, <1>5, <1>7, <1>9, <1>10 DEF e, new, n

\* The registers beside the queues do not matter to them.
LEMMA SameQueues ==
  ASSUME NEW r, Good(r), NEW s \in Uarts, s.fifo = r.fifo, s.staging = r.staging, s.fifoOn = r.fifoOn,
         s.dr = r.dr, s.rbr = r.rbr
  PROVE  Good(s) /\ Pending(s) = Pending(r)
BY DEF Good, Pending, FrontPart

\* After an update every cause is announced, and the queues are those of r.
LEMMA UpdateKeeps ==
  ASSUME RxInv, NEW r, Good(r), update_interrupt_locked(r), handler' = handler,
         disturbed' \in BOOLEAN, accepted' \in Seq(Nat), got' \in Seq(Nat),
         ~disturbed' => (~r.fifoOn => r.fifo = <<>>) /\ got' \o Pending(r) = accepted'
  PROVE  RxInv'
<1>1. r \in Uarts /\ u' = [r EXCEPT !.iir = Cause(r)] /\ irq' = (irq \/ Cause(r) # "none")
  BY DEF Good, update_interrupt_locked
<1>2. Cause(r) \in {"none", "line", "timeout", "data", "thr", "modem"}
  BY DEF Cause
<1>3. /\ u' \in Uarts /\ u'.iir = Cause(r)
      /\ u'.fifo = r.fifo /\ u'.staging = r.staging /\ u'.fifoOn = r.fifoOn /\ u'.dr = r.dr /\ u'.rbr = r.rbr
      /\ u'.ier = r.ier /\ u'.oe = r.oe /\ u'.bi = r.bi /\ u'.timeoutIp = r.timeoutIp
      /\ u'.trigger = r.trigger /\ u'.thrIp = r.thrIp /\ u'.delta = r.delta
  BY <1>1, <1>2 DEF Uarts
<1>4. Cause(u') = Cause(r)
  BY <1>3 DEF Cause
<1>5. Good(u') /\ Pending(u') = Pending(r)
  BY <1>3, SameQueues
<1>6. irq \in BOOLEAN /\ handler \in BOOLEAN
  BY DEF RxInv
<1>7. irq' \in BOOLEAN /\ Announced'
  BY <1>1, <1>3, <1>4, <1>6 DEF Announced
<1> QED BY <1>3, <1>5, <1>6, <1>7 DEF RxInv

-----------------------------------------------------------------------------
CountInv ==
  /\ query \in {<<>>, <<"esc">>} /\ host \in 0..HostBytes
  /\ txs \in 0..2 * MaxTx /\ uwrites \in 0..MaxUartWrites

UartInv == RxInv /\ MarkerInv /\ CountInv

\* A step that sends nothing leaves the marker alone.
LEMMA MarkerStays == ASSUME MarkerInv, UNCHANGED <<match, seen, txTail, shown>> PROVE MarkerInv'
BY DEF MarkerInv, NoMarker, EndsWith

\* A new UART.
LEMMA UartInitInv == ASSUME UartAssumption, UartInit PROVE UartInv
<1>0. kFifoSize \in Nat \ {0} /\ kRxCapacity \in Nat \ {0} /\ HostBytes \in Nat /\ MaxTx \in Nat /\ MaxUartWrites \in Nat
  BY DEF UartAssumption
<1> DEFINE e == <<>>
<1>1. e \in Seq(Nat) /\ Len(e) = 0 /\ e \in Seq(Traffic) /\ e \o e = e
  OBVIOUS
<1>2. /\ u.ier = {} /\ u.fifoOn = FALSE /\ u.trigger = 1 /\ u.dr = FALSE /\ u.oe = FALSE /\ u.bi = FALSE
      /\ u.rbr = 0 /\ u.fifo = e /\ u.staging = e /\ u.thrIp = FALSE /\ u.timeoutIp = FALSE
      /\ u.loop = FALSE /\ u.delta = FALSE /\ u.iir = "none"
  BY DEF UartInit
<1>3. u \in Uarts
  <2>1. 1 \in 1..kFifoSize /\ 0 \in Nat /\ {} \in SUBSET Enables
    BY <1>0
  <2> HIDE DEF e
  <2> QED BY <1>1, <2>1 DEF UartInit, Uarts, e
<1>4. /\ irq = FALSE /\ handler = FALSE /\ query = e /\ match = 0 /\ seen = FALSE
      /\ host = 0 /\ accepted = e /\ got = e /\ txTail = e /\ shown = FALSE
      /\ disturbed = FALSE /\ txs = 0 /\ uwrites = 0
  BY DEF UartInit
<1> HIDE DEF e
<1>5. Good(u) /\ Pending(u) = e
  BY <1>0, <1>1, <1>2, <1>3 DEF Good, Pending, FrontPart, e
<1>6. Announced
  BY <1>2 DEF Announced, Cause
<1>7. RxInv
  BY <1>1, <1>2, <1>4, <1>5, <1>6 DEF RxInv, e
<1>8. EndsWith(txTail) = 0 /\ NoMarker(txTail)
  BY <1>1, <1>4 DEF EndsWith, NoMarker
<1>9. MarkerInv
  <2>1. txTail \in Seq(Traffic) /\ Len(txTail) <= 4
    BY <1>1, <1>4
  <2>2. match \in 0..3 /\ match # 3
    BY <1>4
  <2>3. seen = (match = 3) /\ ~shown /\ shown \in BOOLEAN
    BY <1>4, <2>2
  <2> QED BY <1>4, <1>8, <2>1, <2>2, <2>3 DEF MarkerInv
<1>10. CountInv
  BY <1>0, <1>4 DEF CountInv, e
<1> QED BY <1>7, <1>9, <1>10 DEF UartInv

\* Bytes that are accepted come behind all others.
LEMMA AcceptKeeps ==
  ASSUME UartAssumption, RxInv, NEW bytes \in Seq(Nat), NEW r, r \in Uarts,
         r.fifo = Enqueued(u, bytes).fifo, r.staging = Enqueued(u, bytes).staging,
         r.fifoOn = Enqueued(u, bytes).fifoOn, r.dr = Enqueued(u, bytes).dr, r.rbr = Enqueued(u, bytes).rbr,
         update_interrupt_locked(r), accepted' = accepted \o SubSeq(bytes, 1, Fits(u, bytes)),
         UNCHANGED <<handler, disturbed, got>>
  PROVE  RxInv'
<1> DEFINE e == Enqueued(u, bytes)
           new == SubSeq(bytes, 1, Fits(u, bytes))
<1>0. Good(u) /\ disturbed \in BOOLEAN /\ accepted \in Seq(Nat) /\ got \in Seq(Nat)
  BY DEF RxInv
<1>1. /\ Good(e) /\ Pending(e) = Pending(u) \o new /\ new \in Seq(Nat)
      /\ e.fifoOn = u.fifoOn /\ (~u.fifoOn => e.fifo = u.fifo)
  BY <1>0, EnqueueKeeps
<1>2. accepted' = accepted \o new
  OBVIOUS
<1>3. r.fifo = e.fifo /\ r.staging = e.staging /\ r.fifoOn = e.fifoOn /\ r.dr = e.dr /\ r.rbr = e.rbr
  OBVIOUS
<1> HIDE DEF e, new
<1>4. Good(r) /\ Pending(r) = Pending(e)
  BY <1>1, <1>3, SameQueues
<1>5. accepted' \in Seq(Nat)
  BY <1>0, <1>1, <1>2, ConcatProperties
<1>6. ASSUME ~disturbed' PROVE (~r.fifoOn => r.fifo = <<>>) /\ got' \o Pending(r) = accepted'
  <2>1. (~u.fifoOn => u.fifo = <<>>) /\ got \o Pending(u) = accepted
    BY <1>6 DEF RxInv
  <2>2. got \in Seq(Nat) /\ Pending(u) \in Seq(Nat) /\ new \in Seq(Nat)
    BY <1>0, <1>1, FrontType DEF Good
  <2>3. (got \o Pending(u)) \o new = got \o (Pending(u) \o new)
    BY <2>2, Assoc
  <2> QED BY <1>1, <1>2, <1>3, <1>4, <2>1, <2>3
<1> QED BY <1>0, <1>4, <1>5, <1>6, UpdateKeeps

\* The host queues one or two bytes, of which the UART takes what it has room for.
LEMMA HostEnqueueKeeps == ASSUME UartAssumption, UartInv, HostEnqueue PROVE UartInv'
<1>0. /\ RxInv /\ MarkerInv /\ CountInv /\ Good(u) /\ u \in Uarts
  BY DEF UartInv, RxInv, Good
<1>1. PICK n \in 1..2 :
        LET bytes == [i \in 1..n |-> host + i]
            k     == Fits(u, bytes)
        IN  /\ host + n <= HostBytes
            /\ host' = host + k
            /\ accepted' = accepted \o SubSeq(bytes, 1, k)
            /\ update_interrupt_locked(Enqueued(u, bytes))
            /\ UNCHANGED <<handler, got, disturbed, uwrites, txVars>>
  BY DEF HostEnqueue
<1> DEFINE bytes == [i \in 1..n |-> host + i]
<1>2. bytes \in Seq(Nat) /\ Len(bytes) = n
  <2>1. host \in Nat /\ n \in Nat
    BY <1>0 DEF CountInv
  <2>2. \A i \in 1..n : host + i \in Nat
    BY <2>1
  <2> QED BY <2>1, <2>2
<1>3. /\ host' = host + Fits(u, bytes) /\ host + n <= HostBytes
      /\ accepted' = accepted \o SubSeq(bytes, 1, Fits(u, bytes))
      /\ update_interrupt_locked(Enqueued(u, bytes))
      /\ UNCHANGED <<handler, got, disturbed, uwrites, query, match, seen, txTail, shown, txs>>
  BY <1>1 DEF txVars
<1> HIDE DEF bytes
<1>4. Enqueued(u, bytes) \in Uarts
  BY <1>0, <1>2, EnqueueKeeps DEF Good
<1>5. RxInv'
  BY <1>0, <1>2, <1>3, <1>4, AcceptKeeps
<1>6. Fits(u, bytes) \in 0..n
  BY <1>0, <1>2, FitsIn DEF Good
<1>7. host' \in 0..HostBytes
  <2>1. host \in Nat /\ HostBytes \in Nat /\ n \in Nat
    BY <1>0 DEF CountInv, UartAssumption
  <2> QED BY <1>3, <1>6, <2>1
<1>8. CountInv'
  BY <1>0, <1>3, <1>7 DEF CountInv
<1> QED BY <1>0, <1>3, <1>5, <1>8, MarkerStays DEF UartInv

\* The byte that is read was the first one waiting.
LEMMA ReadRbrKeeps == ASSUME UartAssumption, UartInv, ReadRbr PROVE UartInv'
<1>0. /\ RxInv /\ MarkerInv /\ CountInv /\ Good(u) /\ u \in Uarts /\ accepted \in Seq(Nat) /\ got \in Seq(Nat)
      /\ u.fifo \in Seq(Nat) /\ u.staging \in Seq(Nat) /\ u.rbr \in Nat /\ disturbed \in BOOLEAN
      /\ u.fifoOn \in BOOLEAN /\ u.dr \in BOOLEAN
      /\ Len(u.fifo) <= kFifoSize /\ Len(u.staging) <= kRxCapacity
  BY DEF UartInv, RxInv, Good, Uarts
<1> DEFINE val == IF u.fifoOn THEN (IF u.fifo = <<>> THEN <<>> ELSE <<Head(u.fifo)>>)
                  ELSE IF u.dr THEN <<u.rbr>> ELSE <<>>
           r == IF u.fifoOn
                THEN [u EXCEPT !.fifo = IF u.fifo = <<>> THEN u.fifo ELSE Tail(u.fifo), !.timeoutIp = FALSE]
                ELSE [u EXCEPT !.dr = FALSE, !.timeoutIp = FALSE]
<1>1. /\ val # <<>> \/ u.dr
      /\ got' = got \o val
      /\ update_interrupt_locked(drain_rx_staging_locked(r))
      /\ UNCHANGED <<handler, host, accepted, disturbed, uwrites, query, match, seen, txTail, shown, txs>>
  BY DEF ReadRbr, txVars
<1>2. /\ val \in Seq(Nat) /\ r \in Uarts /\ Len(r.fifo) <= kFifoSize /\ Len(r.staging) <= kRxCapacity
      /\ val \o Pending(r) = Pending(u) /\ r.fifoOn = u.fifoOn /\ (~u.fifoOn => r.fifo = u.fifo)
  <2>1. CASE u.fifoOn /\ u.fifo = <<>>
    <3>1. val = <<>> /\ r = [u EXCEPT !.fifo = u.fifo, !.timeoutIp = FALSE]
      BY <2>1
    <3> HIDE DEF val
    <3>2. r \in Uarts /\ r.fifo = u.fifo /\ r.staging = u.staging /\ r.fifoOn = u.fifoOn
      BY <1>0, <3>1 DEF Uarts
    <3> HIDE DEF r
    <3>3. Pending(r) = Pending(u) /\ Pending(u) \in Seq(Nat)
      BY <1>0, <2>1, <3>2, FrontType DEF Pending, FrontPart
    <3>4. <<>> \o Pending(u) = Pending(u) /\ <<>> \in Seq(Nat)
      BY <3>3, ConcatEmptySeq
    <3> QED BY <1>0, <2>1, <3>1, <3>2, <3>3, <3>4
  <2>2. CASE u.fifoOn /\ u.fifo # <<>>
    <3>1. val = <<Head(u.fifo)>> /\ r = [u EXCEPT !.fifo = Tail(u.fifo), !.timeoutIp = FALSE]
      BY <2>2
    <3>2. /\ Tail(u.fifo) \in Seq(Nat) /\ Len(Tail(u.fifo)) = Len(u.fifo) - 1
          /\ val \in Seq(Nat) /\ val \o Tail(u.fifo) = u.fifo
      BY <1>0, <2>2, <3>1, HeadThenTail
    <3> HIDE DEF val
    <3>3. r \in Uarts /\ r.fifo = Tail(u.fifo) /\ r.staging = u.staging /\ r.fifoOn = u.fifoOn
      BY <1>0, <3>1, <3>2 DEF Uarts
    <3> HIDE DEF r
    <3>4. Len(r.fifo) <= kFifoSize
      <4>1. kFifoSize \in Nat /\ Len(u.fifo) \in Nat
        BY <1>0 DEF UartAssumption
      <4> QED BY <1>0, <3>2, <3>3, <4>1
    <3>5. Pending(r) = Tail(u.fifo) \o u.staging /\ Pending(u) = u.fifo \o u.staging
      BY <2>2, <3>3 DEF Pending, FrontPart
    <3>6. val \in Seq(Nat) /\ Tail(u.fifo) \in Seq(Nat) /\ u.staging \in Seq(Nat)
      BY <1>0, <3>2
    <3>7. (val \o Tail(u.fifo)) \o u.staging = val \o (Tail(u.fifo) \o u.staging)
      BY <3>6, Assoc
    <3> QED BY <1>0, <2>2, <3>2, <3>3, <3>4, <3>5, <3>7
  <2>3. CASE ~u.fifoOn
    <3>0. u.dr
      BY <1>1, <2>3
    <3>1. val = <<u.rbr>> /\ r = [u EXCEPT !.dr = FALSE, !.timeoutIp = FALSE]
      BY <2>3, <3>0
    <3>2. val \in Seq(Nat)
      BY <1>0, <3>1
    <3>3. /\ r \in Uarts /\ r.fifo = u.fifo /\ r.staging = u.staging /\ r.fifoOn = u.fifoOn
          /\ r.dr = FALSE
      BY <1>0, <3>1 DEF Uarts
    <3> HIDE DEF r, val
    <3>4. Pending(r) = <<>> \o u.staging /\ Pending(u) = val \o u.staging
      BY <2>3, <3>0, <3>1, <3>3 DEF Pending, FrontPart
    <3>5. <<>> \o u.staging = u.staging
      BY <1>0, ConcatEmptySeq
    <3> QED BY <1>0, <2>3, <3>2, <3>3, <3>4, <3>5
  <2> QED BY <1>0, <2>1, <2>2, <2>3
<1> HIDE DEF val, r
<1> DEFINE d == drain_rx_staging_locked(r)
<1>3. Good(d) /\ Pending(d) = Pending(r) /\ d.fifoOn = r.fifoOn /\ (~r.fifoOn => d.fifo = r.fifo)
  BY <1>2, DrainKeeps
<1>4. update_interrupt_locked(d)
  BY <1>1
<1> HIDE DEF d
<1>5. ASSUME ~disturbed' PROVE (~d.fifoOn => d.fifo = <<>>) /\ got' \o Pending(d) = accepted'
  <2>1. (~u.fifoOn => u.fifo = <<>>) /\ got \o Pending(u) = accepted
    BY <1>0, <1>1, <1>5 DEF RxInv
  <2>2. got \in Seq(Nat) /\ val \in Seq(Nat) /\ Pending(r) \in Seq(Nat)
    BY <1>0, <1>2, FrontType
  <2>3. (got \o val) \o Pending(r) = got \o (val \o Pending(r))
    BY <2>2, Assoc
  <2> QED BY <1>1, <1>2, <1>3, <2>1, <2>3
<1>6. got' \in Seq(Nat) /\ accepted' \in Seq(Nat) /\ disturbed' \in BOOLEAN /\ handler' = handler
  BY <1>0, <1>1, <1>2
<1>7. RxInv'
  BY <1>0, <1>3, <1>4, <1>5, <1>6, UpdateKeeps
<1>8. CountInv'
  BY <1>0, <1>1 DEF CountInv
<1> QED BY <1>0, <1>1, <1>7, <1>8, MarkerStays DEF UartInv

\* A change beside the queues.
LEMMA RegisterKeeps ==
  ASSUME RxInv, NEW r \in Uarts, r.fifo = u.fifo, r.staging = u.staging, r.fifoOn = u.fifoOn,
         r.dr = u.dr, r.rbr = u.rbr, update_interrupt_locked(r),
         UNCHANGED <<handler, disturbed, accepted, got>>
  PROVE  RxInv'
<1>1. Good(u) /\ disturbed \in BOOLEAN /\ accepted \in Seq(Nat) /\ got \in Seq(Nat)
  BY DEF RxInv
<1>2. Good(r) /\ Pending(r) = Pending(u)
  BY <1>1, SameQueues
<1>3. ~disturbed' => (~r.fifoOn => r.fifo = <<>>) /\ got' \o Pending(r) = accepted'
  BY <1>2 DEF RxInv
<1> QED BY <1>1, <1>2, <1>3, UpdateKeeps

\* The handler leaves only when nothing is pending.
LEMMA HandlerKeeps == ASSUME UartInv, ReadIir \/ TakeIrq \/ ReadLsr \/ ReadMsr PROVE UartInv'
<1>0. /\ RxInv /\ MarkerInv /\ CountInv /\ u \in Uarts /\ irq \in BOOLEAN /\ handler \in BOOLEAN
      /\ Announced /\ Good(u)
  BY DEF UartInv, RxInv, Good
<1>1. UNCHANGED <<host, accepted, got, disturbed, uwrites, query, match, seen, txTail, shown, txs>>
  BY DEF ReadIir, TakeIrq, ReadLsr, ReadMsr, txVars
<1>2. ASSUME ReadIir PROVE RxInv'
  <2>1. CASE u.iir = "thr"
    <3> DEFINE r == [u EXCEPT !.thrIp = FALSE]
    <3>1. /\ r \in Uarts /\ r.fifo = u.fifo /\ r.staging = u.staging /\ r.fifoOn = u.fifoOn
          /\ r.dr = u.dr /\ r.rbr = u.rbr
      BY <1>0 DEF Uarts
    <3>2. update_interrupt_locked(r) /\ handler' = TRUE /\ handler
      BY <1>2, <2>1 DEF ReadIir
    <3> HIDE DEF r
    <3>3. handler' = handler
      BY <1>0, <3>2
    <3> QED BY <1>0, <1>1, <3>1, <3>2, <3>3, RegisterKeeps
  <2>2. CASE u.iir # "thr"
    <3>1. u' = u /\ irq' = irq /\ handler' = (u.iir # "none")
      BY <1>2, <2>2 DEF ReadIir
    <3>2. Announced'
      BY <1>0, <3>1 DEF Announced
    <3> QED BY <1>0, <1>1, <3>1, <3>2 DEF RxInv
  <2> QED BY <2>1, <2>2
<1>3. ASSUME TakeIrq PROVE RxInv'
  <2>1. u' = u /\ irq' = FALSE /\ handler' = TRUE
    BY <1>3 DEF TakeIrq
  <2>2. Announced'
    BY <1>0, <2>1 DEF Announced
  <2> QED BY <1>0, <1>1, <2>1, <2>2 DEF RxInv
<1>4. ASSUME ReadLsr PROVE RxInv'
  <2> DEFINE r == [u EXCEPT !.oe = FALSE, !.bi = FALSE]
  <2>1. /\ r \in Uarts /\ r.fifo = u.fifo /\ r.staging = u.staging /\ r.fifoOn = u.fifoOn
        /\ r.dr = u.dr /\ r.rbr = u.rbr
    BY <1>0 DEF Uarts
  <2>2. update_interrupt_locked(r) /\ handler' = handler
    BY <1>4 DEF ReadLsr
  <2> HIDE DEF r
  <2> QED BY <1>0, <1>1, <2>1, <2>2, RegisterKeeps
<1>5. ASSUME ReadMsr PROVE RxInv'
  <2> DEFINE r == [u EXCEPT !.delta = FALSE]
  <2>1. /\ r \in Uarts /\ r.fifo = u.fifo /\ r.staging = u.staging /\ r.fifoOn = u.fifoOn
        /\ r.dr = u.dr /\ r.rbr = u.rbr
    BY <1>0 DEF Uarts
  <2>2. update_interrupt_locked(r) /\ handler' = handler
    BY <1>5 DEF ReadMsr
  <2> HIDE DEF r
  <2> QED BY <1>0, <1>1, <2>1, <2>2, RegisterKeeps
<1>6. RxInv'
  BY <1>2, <1>3, <1>4, <1>5
<1>7. CountInv'
  BY <1>0, <1>1 DEF CountInv
<1> QED BY <1>0, <1>1, <1>6, <1>7, MarkerStays DEF UartInv

\* A byte appended to one byte.
LEMMA Appended == ASSUME NEW a, NEW b PROVE Append(<<a>>, b) = <<a, b>>
<1> DEFINE S == {a, b}
<1>1. <<a>> \in Seq(S) /\ Len(<<a>>) = 1 /\ <<a, b>> \in Seq(S) /\ Len(<<a, b>>) = 2
  OBVIOUS
<1>2. /\ Append(<<a>>, b) \in Seq(S) /\ Len(Append(<<a>>, b)) = 1 + 1
      /\ \A i \in 1..1 : Append(<<a>>, b)[i] = <<a>>[i]
      /\ Append(<<a>>, b)[1 + 1] = b
  BY <1>1, AppendProperties
<1>3. \A i \in 1..2 : Append(<<a>>, b)[i] = <<a, b>>[i]
  BY <1>2
<1>4. \A i \in 1..Len(Append(<<a>>, b)) : Append(<<a>>, b)[i] = <<a, b>>[i]
  BY <1>2, <1>3
<1>5. Len(Append(<<a>>, b)) = Len(<<a, b>>)
  BY <1>1, <1>2
<1>6. Append(<<a>>, b) \in Seq(S) /\ <<a, b>> \in Seq(S)
  BY <1>1, <1>2
<1> HIDE DEF S
<1> QED BY <1>4, <1>5, <1>6, SeqEqual

\* The guest prints one or two bytes of ordinary output.
LEMMA EmitBytesKeeps == ASSUME UartAssumption, UartInv, emit_bytes PROVE UartInv'
<1>0. RxInv /\ MarkerInv /\ CountInv
  BY DEF UartInv
<1>1. PICK b \in {"h", "a", "x"} :
        /\ txs < 2 * MaxTx /\ txs' = txs + 1 /\ Emit(<<b>>)
        /\ UNCHANGED <<u, irq, handler, query, host, accepted, got, disturbed, uwrites>>
  BY DEF emit_bytes
<1>2. MarkerInv'
  BY <1>0, <1>1, EmitKeeps DEF Traffic
<1>3. RxInv'
  BY <1>0, <1>1 DEF RxInv, Announced, Good, Pending, FrontPart, Cause
<1>4. CountInv'
  <2>1. MaxTx \in Nat
    BY DEF UartAssumption
  <2>2. txs' \in 0..2 * MaxTx
    BY <1>0, <1>1, <2>1 DEF CountInv
  <2> QED BY <1>0, <1>1, <2>2 DEF CountInv
<1> QED BY <1>2, <1>3, <1>4 DEF UartInv

\* A byte that is written goes back, out, into the query, or is answered.
LEMMA TransmitKeeps == ASSUME UartAssumption, UartInv, handle_tx_byte PROVE UartInv'
<1>0. /\ RxInv /\ MarkerInv /\ CountInv /\ Good(u) /\ u \in Uarts
      /\ query \in {<<>>, <<"esc">>}
  BY DEF UartInv, RxInv, Good, CountInv
<1>1. PICK b \in TxBytes :
        /\ txs < MaxTx /\ txs' = txs + 1
        /\ LET q == Append(query, b)
               sent == [u EXCEPT !.thrIp = TRUE]
           IN \/ /\ u.loop
                 /\ update_interrupt_locked([Enqueued(u, <<100>>) EXCEPT !.thrIp = TRUE])
                 /\ accepted' = accepted \o SubSeq(<<100>>, 1, Fits(u, <<100>>))
                 /\ UNCHANGED <<query, match, seen, txTail, shown>>
              \/ /\ ~u.loop /\ query = <<>> /\ b # "esc"
                 /\ Emit(<<b>>) /\ update_interrupt_locked(sent)
                 /\ UNCHANGED <<query, accepted>>
              \/ /\ ~u.loop /\ (query # <<>> \/ b = "esc") /\ (q = Query \/ ~IsPrefix(q, Query))
                 /\ Emit(q) /\ query' = <<>> /\ update_interrupt_locked(sent)
                 /\ UNCHANGED accepted
              \/ /\ ~u.loop /\ IsPrefix(q, Query) /\ q # Query
                 /\ query' = q /\ update_interrupt_locked(sent)
                 /\ UNCHANGED <<match, seen, txTail, shown, accepted>>
              \/ /\ ~u.loop /\ q = Query
                 /\ query' = <<>>
                 /\ accepted' = accepted \o SubSeq(Reply, 1, Fits(u, Reply))
                 /\ update_interrupt_locked([Enqueued(u, Reply) EXCEPT !.thrIp = TRUE])
                 /\ UNCHANGED <<match, seen, txTail, shown>>
        /\ UNCHANGED <<handler, host, got, disturbed, uwrites>>
  BY DEF handle_tx_byte
<1> DEFINE q == Append(query, b)
           sent == [u EXCEPT !.thrIp = TRUE]
<1>2. /\ sent \in Uarts /\ sent.fifo = u.fifo /\ sent.staging = u.staging /\ sent.fifoOn = u.fifoOn
      /\ sent.dr = u.dr /\ sent.rbr = u.rbr
  BY <1>0 DEF Uarts
<1>3. b \in Traffic /\ "esc" \in Traffic
  BY DEF TxBytes, Traffic
<1>4. txs' \in 0..2 * MaxTx
  <2>1. MaxTx \in Nat /\ txs \in 0..2 * MaxTx
    BY <1>0 DEF UartAssumption, CountInv
  <2> QED BY <1>1, <2>1
<1>5. ASSUME NEW bytes \in Seq(Nat), update_interrupt_locked([Enqueued(u, bytes) EXCEPT !.thrIp = TRUE]),
             accepted' = accepted \o SubSeq(bytes, 1, Fits(u, bytes))
      PROVE  RxInv'
  <2> DEFINE e == Enqueued(u, bytes)
             r == [e EXCEPT !.thrIp = TRUE]
  <2>1. e \in Uarts
    BY <1>0, EnqueueKeeps DEF Good
  <2>2. update_interrupt_locked(r)
    BY <1>5
  <2> HIDE DEF e
  <2>3. /\ r \in Uarts /\ r.fifo = e.fifo /\ r.staging = e.staging /\ r.fifoOn = e.fifoOn
        /\ r.dr = e.dr /\ r.rbr = e.rbr
    BY <2>1 DEF Uarts
  <2> HIDE DEF r
  <2> QED BY <1>0, <1>1, <1>5, <2>2, <2>3, AcceptKeeps DEF e
<1>6. ASSUME update_interrupt_locked(sent), accepted' = accepted
      PROVE  RxInv'
  <2> HIDE DEF sent
  <2> QED BY <1>0, <1>1, <1>2, <1>6, RegisterKeeps
<1>7. CASE /\ u.loop
           /\ update_interrupt_locked([Enqueued(u, <<100>>) EXCEPT !.thrIp = TRUE])
           /\ accepted' = accepted \o SubSeq(<<100>>, 1, Fits(u, <<100>>))
           /\ UNCHANGED <<query, match, seen, txTail, shown>>
  <2>0. <<100>> \in Seq(Nat)
    OBVIOUS
  <2> PICK bytes \in Seq(Nat) : bytes = <<100>>
    BY <2>0, Zenon
  <2>1. RxInv'
    BY <1>5, <1>7
  <2>2. CountInv'
    BY <1>0, <1>1, <1>4, <1>7 DEF CountInv
  <2> QED BY <1>0, <1>7, <2>1, <2>2, MarkerStays DEF UartInv
<1>8. CASE /\ ~u.loop /\ query = <<>> /\ b # "esc"
           /\ Emit(<<b>>) /\ update_interrupt_locked(sent)
           /\ UNCHANGED <<query, accepted>>
  <2>1. RxInv'
    BY <1>6, <1>8
  <2>2. MarkerInv'
    BY <1>0, <1>3, <1>8, EmitKeeps
  <2>3. CountInv'
    BY <1>0, <1>1, <1>4, <1>8 DEF CountInv
  <2> QED BY <2>1, <2>2, <2>3 DEF UartInv
<1>9. CASE /\ ~u.loop /\ (query # <<>> \/ b = "esc") /\ (q = Query \/ ~IsPrefix(q, Query))
           /\ Emit(q) /\ query' = <<>> /\ update_interrupt_locked(sent)
           /\ UNCHANGED accepted
  <2>1. RxInv'
    BY <1>6, <1>9
  <2>2. q = <<b>> \/ q = <<"esc", b>>
    <3>1. CASE query = <<>>
      BY <3>1
    <3>2. CASE query = <<"esc">>
      BY <3>2, Appended
    <3> QED BY <1>0, <3>1, <3>2
  <2>3. MarkerInv'
    BY <1>0, <1>3, <1>9, <2>2, EmitKeeps
  <2>4. CountInv'
    BY <1>0, <1>1, <1>4, <1>9 DEF CountInv
  <2> QED BY <2>1, <2>3, <2>4 DEF UartInv
<1>10. CASE /\ ~u.loop /\ IsPrefix(q, Query) /\ q # Query
            /\ query' = q /\ update_interrupt_locked(sent)
            /\ UNCHANGED <<match, seen, txTail, shown, accepted>>
  <2>1. RxInv'
    BY <1>6, <1>10
  <2>2. q = <<"esc">>
    <3>1. CASE query = <<>>
      <4>1. q = <<b>> /\ Len(q) = 1
        BY <3>1
      <4>2. SubSeq(q, 1, 1) = SubSeq(Query, 1, 1)
        BY <1>10, <4>1 DEF IsPrefix
      <4>3. SubSeq(q, 1, 1)[1] = q[1]
        BY <4>1
      <4>4. SubSeq(Query, 1, 1)[1] = Query[1]
        BY DEF Query
      <4>5. q[1] = "esc"
        BY <4>2, <4>3, <4>4 DEF Query
      <4> QED BY <4>1, <4>5
    <3>2. CASE query = <<"esc">>
      <4>1. q = <<"esc", b>> /\ Len(q) = 2
        BY <3>2, Appended
      <4>2. SubSeq(q, 1, 2) = SubSeq(Query, 1, 2)
        BY <1>10, <4>1 DEF IsPrefix
      <4>3. SubSeq(q, 1, 2)[2] = b
        BY <4>1
      <4>4. SubSeq(Query, 1, 2)[2] = "6n"
        BY DEF Query
      <4>5. b = "6n"
        BY <4>2, <4>3, <4>4
      <4> QED BY <1>10, <4>1, <4>5 DEF Query
    <3> QED BY <1>0, <3>1, <3>2
  <2>3. CountInv'
    BY <1>0, <1>1, <1>4, <1>10, <2>2 DEF CountInv
  <2> QED BY <1>0, <1>10, <2>1, <2>3, MarkerStays DEF UartInv
<1>11. CASE /\ ~u.loop /\ q = Query
            /\ query' = <<>>
            /\ accepted' = accepted \o SubSeq(Reply, 1, Fits(u, Reply))
            /\ update_interrupt_locked([Enqueued(u, Reply) EXCEPT !.thrIp = TRUE])
            /\ UNCHANGED <<match, seen, txTail, shown>>
  <2>1. Reply \in Seq(Nat)
    BY DEF Reply
  <2>2. RxInv'
    BY <1>5, <1>11, <2>1
  <2>3. CountInv'
    BY <1>0, <1>1, <1>4, <1>11 DEF CountInv
  <2> QED BY <1>0, <1>11, <2>2, <2>3, MarkerStays DEF UartInv
<1> QED BY <1>1, <1>7, <1>8, <1>9, <1>10, <1>11

\* Register writes are counted.
LEMMA UWriteCounts == ASSUME UartAssumption, CountInv, UWrite PROVE uwrites' \in 0..MaxUartWrites
<1>1. MaxUartWrites \in Nat /\ uwrites \in 0..MaxUartWrites
  BY DEF UartAssumption, CountInv
<1> QED BY <1>1 DEF UWrite

\* The driver enables and disables causes.
LEMMA WriteIerKeeps == ASSUME UartAssumption, UartInv, WriteIer PROVE UartInv'
<1>0. RxInv /\ MarkerInv /\ CountInv /\ u \in Uarts
  BY DEF UartInv, RxInv, Good
<1>1. PICK e \in {{}, {"rdi"}, {"rdi", "thri"}, Enables} :
        update_interrupt_locked([u EXCEPT !.ier = e,
         !.thrIp = IF ("thri" \in e) # ("thri" \in u.ier) THEN "thri" \in e ELSE u.thrIp])
  BY DEF WriteIer
<1>2. UNCHANGED <<handler, host, accepted, got, disturbed, query, match, seen, txTail, shown, txs>>
  BY DEF WriteIer, txVars
<1> DEFINE ip == IF ("thri" \in e) # ("thri" \in u.ier) THEN "thri" \in e ELSE u.thrIp
           r == [u EXCEPT !.ier = e, !.thrIp = ip]
<1>3. update_interrupt_locked(r)
  BY <1>1
<1>4. ip \in BOOLEAN /\ e \in SUBSET Enables
  <2>1. u.thrIp \in BOOLEAN
    BY <1>0 DEF Uarts
  <2>2. ("thri" \in e) \in BOOLEAN
    OBVIOUS
  <2>3. ip \in BOOLEAN
    BY <2>1, <2>2
  <2>4. e \in SUBSET Enables
    BY DEF Enables
  <2> QED BY <2>3, <2>4
<1> HIDE DEF ip
<1>5. /\ r \in Uarts /\ r.fifo = u.fifo /\ r.staging = u.staging /\ r.fifoOn = u.fifoOn
      /\ r.dr = u.dr /\ r.rbr = u.rbr
  BY <1>0, <1>4 DEF Uarts
<1> HIDE DEF r
<1>6. RxInv'
  BY <1>0, <1>2, <1>3, <1>5, RegisterKeeps
<1>7. CountInv'
  BY <1>0, <1>2, UWriteCounts DEF WriteIer, CountInv
<1> QED BY <1>0, <1>2, <1>6, <1>7, MarkerStays DEF UartInv

\* The driver turns loopback on or off.
LEMMA WriteMcrKeeps == ASSUME UartAssumption, UartInv, WriteMcr PROVE UartInv'
<1>0. RxInv /\ MarkerInv /\ CountInv /\ u \in Uarts
  BY DEF UartInv, RxInv, Good
<1> DEFINE r == [u EXCEPT !.loop = ~u.loop, !.delta = TRUE]
<1>1. /\ update_interrupt_locked(r)
      /\ UNCHANGED <<handler, host, accepted, got, disturbed, query, match, seen, txTail, shown, txs>>
  BY DEF WriteMcr, txVars
<1>2. /\ r \in Uarts /\ r.fifo = u.fifo /\ r.staging = u.staging /\ r.fifoOn = u.fifoOn
      /\ r.dr = u.dr /\ r.rbr = u.rbr
  BY <1>0 DEF Uarts
<1> HIDE DEF r
<1>3. RxInv'
  BY <1>0, <1>1, <1>2, RegisterKeeps
<1>4. CountInv'
  BY <1>0, <1>1, UWriteCounts DEF WriteMcr, CountInv
<1> QED BY <1>0, <1>1, <1>3, <1>4, MarkerStays DEF UartInv

\* A break is a byte of its own outside FIFO mode.
LEMMA BreakKeeps == ASSUME UartAssumption, UartInv, WriteLcrBreak PROVE UartInv'
<1>0. /\ RxInv /\ MarkerInv /\ CountInv /\ u \in Uarts /\ Good(u) /\ disturbed \in BOOLEAN
      /\ accepted \in Seq(Nat) /\ got \in Seq(Nat) /\ u.dr \in BOOLEAN /\ u.fifoOn \in BOOLEAN
  BY DEF UartInv, RxInv, Good, Uarts
<1> DEFINE r == [u EXCEPT !.bi = TRUE, !.dr = TRUE, !.rbr = 0]
<1>1. /\ update_interrupt_locked(r) /\ disturbed' = (disturbed \/ u.dr)
      /\ accepted' = IF u.fifoOn THEN accepted ELSE Append(accepted, 0)
      /\ UNCHANGED <<handler, host, got, query, match, seen, txTail, shown, txs>>
  BY DEF WriteLcrBreak, txVars
<1>2. /\ r \in Uarts /\ r.fifo = u.fifo /\ r.staging = u.staging /\ r.fifoOn = u.fifoOn
      /\ r.dr = TRUE /\ r.rbr = 0
  BY <1>0 DEF Uarts
<1> HIDE DEF r
<1>3. Good(r)
  BY <1>0, <1>2 DEF Good
<1>4. accepted' \in Seq(Nat) /\ disturbed' \in BOOLEAN /\ got' \in Seq(Nat) /\ handler' = handler
  BY <1>0, <1>1
<1>5. ASSUME ~disturbed' PROVE (~r.fifoOn => r.fifo = <<>>) /\ got' \o Pending(r) = accepted'
  <2>1. ~disturbed /\ ~u.dr
    BY <1>1, <1>5
  <2>2. (~u.fifoOn => u.fifo = <<>>) /\ got \o Pending(u) = accepted
    BY <1>0, <2>1 DEF RxInv
  <2>3. CASE u.fifoOn
    BY <1>1, <1>2, <2>2, <2>3 DEF Pending, FrontPart
  <2>4. CASE ~u.fifoOn
    <3>1. u.staging = <<>>
      BY <1>0, <2>1, <2>4 DEF Good
    <3>2. Pending(u) = <<>> /\ Pending(r) = <<0>>
      BY <1>2, <2>1, <2>4, <3>1 DEF Pending, FrontPart
    <3>3. accepted = got /\ got \o <<0>> = Append(got, 0)
      BY <1>0, <2>2, <3>2, ConcatEmptySeq, AppendIsConcat
    <3> QED BY <1>1, <1>2, <2>2, <2>4, <3>2, <3>3
  <2> QED BY <2>3, <2>4
<1>6. RxInv'
  BY <1>0, <1>1, <1>3, <1>4, <1>5, UpdateKeeps
<1>7. CountInv'
  BY <1>0, <1>1, UWriteCounts DEF WriteLcrBreak, CountInv
<1> QED BY <1>0, <1>1, <1>6, <1>7, MarkerStays DEF UartInv

\* The FIFO is switched or cleared.
LEMMA WriteFcrKeeps == ASSUME UartAssumption, UartInv, WriteFcr PROVE UartInv'
<1>0. /\ RxInv /\ MarkerInv /\ CountInv /\ u \in Uarts /\ Good(u) /\ disturbed \in BOOLEAN
      /\ accepted \in Seq(Nat) /\ got \in Seq(Nat) /\ u.dr \in BOOLEAN /\ u.fifoOn \in BOOLEAN
      /\ u.fifo \in Seq(Nat) /\ u.staging \in Seq(Nat)
      /\ Len(u.fifo) <= kFifoSize /\ Len(u.staging) <= kRxCapacity
  BY DEF UartInv, RxInv, Good, Uarts
<1>1. PICK on \in BOOLEAN, clearRx \in BOOLEAN, clearTx \in BOOLEAN, trig \in 1..kFifoSize :
       LET r  == [u EXCEPT !.fifoOn = on, !.trigger = trig]
           r2 == IF clearRx THEN Cleared(r) ELSE drain_rx_staging_locked(r)
       IN  /\ update_interrupt_locked([r2 EXCEPT !.thrIp = r2.thrIp \/ clearTx])
           /\ query' = IF clearTx THEN <<>> ELSE query
           /\ IF clearRx THEN accepted' = <<>> /\ got' = <<>> /\ disturbed' = FALSE
              ELSE /\ disturbed' = (disturbed \/ (on # u.fifoOn /\ (u.dr \/ u.fifo # <<>>)))
                   /\ UNCHANGED <<accepted, got>>
  BY DEF WriteFcr
<1>2. UNCHANGED <<handler, host, match, seen, txTail, shown, txs>>
  BY DEF WriteFcr
<1> DEFINE r  == [u EXCEPT !.fifoOn = on, !.trigger = trig]
           r2 == IF clearRx THEN Cleared(r) ELSE drain_rx_staging_locked(r)
           r3 == [r2 EXCEPT !.thrIp = r2.thrIp \/ clearTx]
<1>3. /\ update_interrupt_locked(r3)
      /\ query' = IF clearTx THEN <<>> ELSE query
      /\ IF clearRx THEN accepted' = <<>> /\ got' = <<>> /\ disturbed' = FALSE
         ELSE /\ disturbed' = (disturbed \/ (on # u.fifoOn /\ (u.dr \/ u.fifo # <<>>)))
              /\ UNCHANGED <<accepted, got>>
  BY <1>1
<1>4. /\ r \in Uarts /\ r.fifo = u.fifo /\ r.staging = u.staging /\ r.fifoOn = on
      /\ r.dr = u.dr /\ r.rbr = u.rbr
  BY <1>0 DEF Uarts
<1>5. r2 = IF clearRx THEN Cleared(r) ELSE drain_rx_staging_locked(r)
  OBVIOUS
<1> HIDE DEF r, r2
<1>6. /\ Good(r2) /\ accepted' \in Seq(Nat) /\ got' \in Seq(Nat) /\ disturbed' \in BOOLEAN
      /\ ~disturbed' => (~r2.fifoOn => r2.fifo = <<>>) /\ got' \o Pending(r2) = accepted'
  <2>1. CASE clearRx
    <3>1. r2 = [r EXCEPT !.fifo = <<>>, !.staging = <<>>, !.rbr = 0, !.timeoutIp = FALSE,
                        !.dr = FALSE, !.oe = FALSE, !.bi = FALSE]
      BY <1>5, <2>1 DEF Cleared
    <3>2. <<>> \in Seq(Nat) /\ Len(<<>>) = 0 /\ kFifoSize \in Nat /\ kRxCapacity \in Nat
      BY DEF UartAssumption
    <3>3. r2 \in Uarts /\ r2.fifo = <<>> /\ r2.staging = <<>> /\ r2.fifoOn = on /\ r2.dr = FALSE
      BY <1>4, <3>1, <3>2 DEF Uarts
    <3>4. Good(r2)
      BY <3>2, <3>3 DEF Good
    <3>5. Pending(r2) = <<>>
      BY <3>3 DEF Pending, FrontPart
    <3>6. accepted' = <<>> /\ got' = <<>> /\ disturbed' = FALSE
      BY <1>3, <2>1
    <3>7. got' \o Pending(r2) = accepted'
      BY <3>2, <3>5, <3>6, ConcatEmptySeq
    <3>8. accepted' \in Seq(Nat) /\ got' \in Seq(Nat) /\ disturbed' \in BOOLEAN
      BY <3>2, <3>6
    <3> QED BY <3>3, <3>4, <3>7, <3>8
  <2>2. CASE ~clearRx
    <3>1. r2 = drain_rx_staging_locked(r)
      BY <1>5, <2>2
    <3>2. Good(r2) /\ Pending(r2) = Pending(r) /\ r2.fifoOn = r.fifoOn /\ (~r.fifoOn => r2.fifo = r.fifo)
      BY <1>0, <1>4, <3>1, DrainKeeps
    <3>3. /\ disturbed' = (disturbed \/ (on # u.fifoOn /\ (u.dr \/ u.fifo # <<>>)))
          /\ accepted' = accepted /\ got' = got
      BY <1>3, <2>2
    <3>4. ASSUME ~disturbed' PROVE (~r2.fifoOn => r2.fifo = <<>>) /\ got' \o Pending(r2) = accepted'
      <4>1. ~disturbed /\ (on = u.fifoOn \/ (~u.dr /\ u.fifo = <<>>))
        BY <3>3, <3>4
      <4>2. (~u.fifoOn => u.fifo = <<>>) /\ got \o Pending(u) = accepted
        BY <1>0, <4>1 DEF RxInv
      <4>3. Pending(r) = Pending(u)
        BY <1>4, <4>1 DEF Pending, FrontPart
      <4> QED BY <1>4, <3>2, <3>3, <4>1, <4>2, <4>3
    <3> QED BY <1>0, <3>2, <3>3, <3>4
  <2> QED BY <2>1, <2>2
<1>7. /\ r3 \in Uarts /\ r3.fifo = r2.fifo /\ r3.staging = r2.staging /\ r3.fifoOn = r2.fifoOn
      /\ r3.dr = r2.dr /\ r3.rbr = r2.rbr
  <2>1. r2 \in Uarts /\ (r2.thrIp \/ clearTx) \in BOOLEAN
    BY <1>6 DEF Good
  <2> QED BY <2>1 DEF Uarts
<1> HIDE DEF r3
<1>8. Good(r3) /\ Pending(r3) = Pending(r2)
  BY <1>6, <1>7, SameQueues
<1>9. ~disturbed' => (~r3.fifoOn => r3.fifo = <<>>) /\ got' \o Pending(r3) = accepted'
  BY <1>6, <1>7, <1>8
<1>10. RxInv'
  BY <1>0, <1>2, <1>3, <1>6, <1>8, <1>9, UpdateKeeps
<1>11. CountInv'
  BY <1>0, <1>2, <1>3, UWriteCounts DEF WriteFcr, CountInv
<1> QED BY <1>0, <1>2, <1>10, <1>11, MarkerStays DEF UartInv

\* Every step of host and driver, and stuttering.
LEMMA UartStep == ASSUME UartAssumption, UartInv, [UartNext \/ TxNext]_uartVars PROVE UartInv'
<1>1. CASE UNCHANGED uartVars
  <2>1. RxInv'
    BY <1>1 DEF uartVars, UartInv, RxInv, Announced, Good, Pending, FrontPart, Cause
  <2>2. CountInv' /\ MarkerInv'
    BY <1>1, MarkerStays DEF uartVars, UartInv, CountInv
  <2> QED BY <2>1, <2>2 DEF UartInv
<1>2. CASE UartNext \/ TxNext
  BY <1>2, HostEnqueueKeeps, ReadRbrKeeps, HandlerKeeps, EmitBytesKeeps, TransmitKeeps, WriteIerKeeps,
     WriteMcrKeeps, BreakKeeps, WriteFcrKeeps DEF UartNext, TxNext
<1> QED BY <1>1, <1>2

\* What the run checks follows from the invariant.
LEMMA UartInvExact == ASSUME UartAssumption, UartInv PROVE WhpUartExact
<1>1. /\ Good(u) /\ u \in Uarts /\ {irq, handler, disturbed} \subseteq BOOLEAN /\ Announced
      /\ got \in Seq(Nat)
  BY DEF UartInv, RxInv, Good
<1>2. /\ match \in 0..3 /\ seen = (match = 3) /\ shown \in BOOLEAN /\ (~seen => ~shown)
  BY DEF UartInv, MarkerInv
<1>3. UartTypeOK
  <2>1. Len(Marker) = 3
    BY DEF Marker
  <2>2. {irq, handler, seen, shown, disturbed} \subseteq BOOLEAN
    BY <1>1, <1>2
  <2>3. CountInv
    BY DEF UartInv
  <2> QED BY <1>1, <1>2, <2>1, <2>2, <2>3 DEF UartTypeOK, CountInv, Good, Uarts
<1>4. InOrder
  <2> SUFFICES ASSUME ~disturbed PROVE (got \o FrontPart(u)) \o u.staging = accepted
    BY DEF InOrder, FrontPart
  <2>1. got \o Pending(u) = accepted
    BY DEF UartInv, RxInv
  <2>2. got \in Seq(Nat) /\ FrontPart(u) \in Seq(Nat) /\ u.staging \in Seq(Nat)
    BY <1>1, FrontType DEF Uarts
  <2>3. (got \o FrontPart(u)) \o u.staging = got \o (FrontPart(u) \o u.staging)
    BY <2>2, Assoc
  <2> QED BY <2>1, <2>3 DEF Pending
<1>5. CauseSignalled
  BY <1>1 DEF CauseSignalled, Announced
<1>6. MarkerSeen
  BY <1>2 DEF MarkerSeen
<1> QED BY <1>3, <1>4, <1>5, <1>6 DEF WhpUartExact

\* Order of received bytes, announced causes and the halt marker, for any queue sizes.
THEOREM WhpUartExactHolds == UartSpec => []WhpUartExact
<1>1. UartInit => UartInv
  BY UartAssumption, UartInitInv
<1>2. UartInv /\ [UartNext \/ TxNext]_uartVars => UartInv'
  BY UartAssumption, UartStep
<1>3. UartInv => WhpUartExact
  BY UartAssumption, UartInvExact
<1> QED BY <1>1, <1>2, <1>3, PTL DEF UartSpec
=============================================================================
