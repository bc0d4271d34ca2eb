--------------------------- MODULE HvfNetProofs -----------------------------
(***************************************************************************)
(* Proofs about the macOS run loop, and about the networking of the Linux *)
(* host that automatic networking sets up for its VMs.                    *)
(***************************************************************************)
EXTENDS HvfRunner, HostNetwork, FiniteSetTheorems, TLAPS

-----------------------------------------------------------------------------
(***************************************************************************)
(* Proofs about the macOS run loop, for every number of vCPUs that RunVm    *)
(* accepts, of host commands and of CPU_ON calls.                           *)
(*                                                                         *)
(* HvfSafe is not inductive.  The count of parked vCPUs is exact because    *)
(* `paused' is the vCPU's place in its loop (CpuOK), and the PSCI states     *)
(* because a CPU_ON can only come from a vCPU that runs after every slot     *)
(* was created: creating a vCPU writes Off into its slot, which would lose   *)
(* an earlier CPU_ON (CreatedBound).  The reported reason needs every way    *)
(* into the end of a vCPU's thread to lie behind a stored reason.            *)
(***************************************************************************)

StartPcs == {"waitStart", "drowsyStart", "asleepStart"}
OffPcs   == {"off", "drowsyOff", "asleepOff"}
RunPcs   == {"command", "park", "spin", "unpark", "unparked", "setRunning", "run"}
StopPcs  == {"claim", "store", "wake"}
SpinPcs  == {"spin", "unpark"}
CallerPcs == {"spawn", "await", "drowsyAwait", "asleepAwait", "spawnMonitor", "spawnInput", "unwind",
              "join", "joinRest", "returned", "undone"}

\* In request_stop, thread record a has a reason to store, then stored one, then
\* set stop_requested.
StopOK(a, l) ==
  /\ a.pc = "claim" => a.reason # "none"
  /\ a.pc = "store" => l.resultSet
  /\ a.pc = "wake" => l.stop

\* A vCPU's thread with record a, its slot s and the shared flags l.
CpuOK(c, a, s, l) ==
  /\ a.pc \in {"create", "error", "init", "top", "dead", "ended", "never", "undone"}
                \cup StartPcs \cup OffPcs \cup RunPcs \cup StopPcs
  /\ StopOK(a, l)
  /\ a.pc \in StopPcs => a.ret \in {"top", "dead"}
  /\ a.pc \in {"init", "top"} \cup RunPcs => s.psci = "On"
  /\ a.pc \in StopPcs /\ a.ret = "top" => s.psci = "On"
  /\ a.pc \in StartPcs /\ c = 0 => s.psci = "On"
  /\ a.pc = "create" => s.psci = "Off" /\ ~s.start
  /\ a.pc # "undone" => (s.paused <=> a.pc \in SpinPcs)
  /\ s.paused => s.psci = "On"
  /\ a.pc = "never" => l.thrown
  /\ a.pc \in {"dead", "ended"} => l.stop
  /\ a.pc \in {"init", "top"} \cup OffPcs => l.started \/ l.stop
  /\ a.pc \in RunPcs \/ (a.pc \in StopPcs /\ a.ret = "top") => l.started
  /\ ~l.stop => (s.psci = "OnPending" <=> s.start)

\* The monitor's and the input thread.
HelperOK(a, l) ==
  /\ a.pc \in {"dead", "loop", "pause", "ended", "undone"} \cup StopPcs
  /\ a.ret = "ended" /\ StopOK(a, l)

Threads ==
  /\ \A c \in HCpus : CpuOK(c, at[c], slot[c], life)
  /\ HelperOK(at[Monitor], life) /\ HelperOK(at[Input], life)
  /\ at[Caller].pc \in CallerPcs

\* What request_stop leaves behind, and what the caller has waited for.
Flags ==
  /\ life.stop => life.resultSet
  /\ life.resultSet <=> life.reason # "none"
  /\ life.reason = seen.first
  /\ life.started => life.created = HvfCpus
  /\ at[Caller].pc \in {"joinRest", "returned"} => \A c \in HCpus : at[c].pc \in {"ended", "never"}
  /\ at[Caller].pc = "returned" => \A h \in {Monitor, Input} : at[h].pc \in {"ended", "dead"}

Creating == {c \in HCpus : at[c].pc = "create"}
PausedSet == {c \in HCpus : slot[c].paused}

\* A vCPU that is still to be created has not been counted.
CreatedBound == life.created + Cardinality(Creating) <= HvfCpus

HvfIInv == HvfTypeOK /\ Threads /\ Flags /\ CreatedBound /\ HvfPausedCount

-----------------------------------------------------------------------------
(* Threads, types, sleeping and waking.                                     *)

Ats   == [pc : HvfPcs, reason : HvfReasons, ret : HvfPcs]
Slots == [psci : PsciStates, start : BOOLEAN, paused : BOOLEAN, live : BOOLEAN, exit : BOOLEAN]
Lives == [created : 0..HvfCpus, started : BOOLEAN, paused : 0..HvfCpus, stop : BOOLEAN,
          error : BOOLEAN, resultSet : BOOLEAN, reason : HvfReasons, done : BOOLEAN, thrown : BOOLEAN]
Hctls == [command : {"run", "pause", "stop"},
          state : {"starting", "running", "paused", "stopping", "exited"}, issued : 0..HvfCommands]
Seens == [first : HvfReasons, missed : BOOLEAN, offWhilePausing : BOOLEAN, ons : 0..CpuOns]

\* The vCPUs' numbers and those of the other threads are distinct.
LEMMA ThreadNames ==
  /\ HCpus \subseteq HThreads /\ {Monitor, Input, Caller} \subseteq HThreads
  /\ HCpus \cap {Monitor, Input, Caller} = {} /\ 0 \in HCpus
  /\ Monitor # Input /\ Monitor # Caller /\ Input # Caller
  BY HvfRunnerAssumption DEF HThreads, HCpus, Monitor, Input, Caller

\* There are HvfCpus of them.
LEMMA HCpusFinite == IsFiniteSet(HCpus) /\ Cardinality(HCpus) = HvfCpus
<1>1. HvfCpus \in Nat /\ HvfCpus >= 1
  BY HvfRunnerAssumption
<1>2. IsFiniteSet(0..HvfCpus - 1) /\ Cardinality(0..HvfCpus - 1) = HvfCpus - 1 - 0 + 1
  BY <1>1, FS_Interval
<1> QED
  BY <1>1, <1>2 DEF HCpus

\* The types of the state.
LEMMA HFields ==
  ASSUME HvfTypeOK
  PROVE /\ at \in [HThreads -> Ats] /\ slot \in [HCpus -> Slots] /\ life \in Lives
        /\ hctl \in Hctls /\ seen \in Seens
  BY DEF HvfTypeOK, Ats, Slots, Lives, Hctls, Seens

\* notify_all for one thread.
Woken(a) ==
  CASE a.pc = "asleepStart" -> [a EXCEPT !.pc = "waitStart"]
    [] a.pc = "asleepOff"   -> [a EXCEPT !.pc = "off"]
    [] a.pc = "asleepAwait" -> [a EXCEPT !.pc = "await"]
    [] OTHER -> a

\* A thread that is woken is at the predicate it slept on; the others go on.
LEMMA WokenIs ==
  ASSUME NEW a \in Ats
  PROVE /\ Woken(a) \in Ats /\ Woken(a).reason = a.reason /\ Woken(a).ret = a.ret
        /\ \/ Woken(a).pc = a.pc
           \/ a.pc = "asleepStart" /\ Woken(a).pc = "waitStart"
           \/ a.pc = "asleepOff" /\ Woken(a).pc = "off"
           \/ a.pc = "asleepAwait" /\ Woken(a).pc = "await"
<1>1. CASE a.pc \notin {"asleepStart", "asleepOff", "asleepAwait"}
  BY <1>1 DEF Woken
<1>2. CASE a.pc = "asleepStart"
  BY <1>2 DEF Woken, Ats, HvfPcs
<1>3. CASE a.pc = "asleepOff"
  BY <1>3 DEF Woken, Ats, HvfPcs
<1>4. CASE a.pc = "asleepAwait"
  BY <1>4 DEF Woken, Ats, HvfPcs
<1> QED
  BY <1>1, <1>2, <1>3, <1>4

\* The flags never fall.
Grows(l, m) == /\ (l.stop => m.stop) /\ (l.resultSet => m.resultSet) /\ (l.started => m.started)
               /\ (l.thrown => m.thrown)

\* What is known of a vCPU's thread stays true when it is woken and when flags
\* are set.
LEMMA CpuKept ==
  ASSUME NEW c, NEW a \in Ats, NEW s \in Slots, NEW l \in Lives, NEW m \in Lives,
         NEW b \in {a, Woken(a)}, Grows(l, m), CpuOK(c, a, s, l)
  PROVE CpuOK(c, b, s, m)
<1>1. /\ b.reason = a.reason /\ b.ret = a.ret
      /\ \/ b.pc = a.pc
         \/ a.pc = "asleepStart" /\ b.pc = "waitStart"
         \/ a.pc = "asleepOff" /\ b.pc = "off"
         \/ a.pc = "asleepAwait" /\ b.pc = "await"
  BY WokenIs
<1>2. /\ b.pc = a.pc \/ {a.pc, b.pc} \subseteq StartPcs \/ {a.pc, b.pc} \subseteq OffPcs
  <2>1. a.pc # "asleepAwait"
    BY DEF CpuOK, StartPcs, OffPcs, RunPcs, StopPcs
  <2> QED
    BY <1>1, <2>1 DEF StartPcs, OffPcs
<1>3. CASE b.pc = a.pc
  BY <1>1, <1>3 DEF CpuOK, StopOK, Grows, Slots, Lives
<1>4. CASE {a.pc, b.pc} \subseteq StartPcs
  BY <1>4, <1>1 DEF CpuOK, StopOK, Grows, StartPcs, OffPcs, RunPcs, StopPcs, SpinPcs, Slots, Lives
<1>5. CASE {a.pc, b.pc} \subseteq OffPcs
  BY <1>5, <1>1 DEF CpuOK, StopOK, Grows, StartPcs, OffPcs, RunPcs, StopPcs, SpinPcs, Slots, Lives
<1> QED
  BY <1>2, <1>3, <1>4, <1>5

\* The same for the monitor and the input thread, which do not sleep on it.
LEMMA HelperKept ==
  ASSUME NEW a \in Ats, NEW l \in Lives, NEW m \in Lives, NEW b \in {a, Woken(a)},
         Grows(l, m), HelperOK(a, l)
  PROVE HelperOK(b, m)
<1>1. b = a
  BY DEF Woken, HelperOK, StopPcs
<1> QED
  BY <1>1 DEF HelperOK, StopOK, Grows, Lives

FlagsOK(l, e) ==
  /\ l.stop => l.resultSet
  /\ l.resultSet <=> l.reason # "none"
  /\ l.reason = e.first
  /\ l.started => l.created = HvfCpus

\* One thread moves to record a, and may notify the others.
MovesTo(t, a) ==
  \/ at' = [at EXCEPT ![t] = a]
  \/ at' = Awake([at EXCEPT ![t] = a])

\* Where everybody is after a step of thread t.
LEMMA MovedAts ==
  ASSUME at \in [HThreads -> Ats], NEW t \in HThreads, NEW a \in Ats, MovesTo(t, a)
  PROVE /\ at' \in [HThreads -> Ats]
        /\ at'[t] \in {a, Woken(a)}
        /\ \A u \in HThreads \ {t} : at'[u] \in {at[u], Woken(at[u])}
<1> DEFINE f == [at EXCEPT ![t] = a]
<1>1. f \in [HThreads -> Ats] /\ f[t] = a /\ \A u \in HThreads \ {t} : f[u] = at[u]
  OBVIOUS
<1>2. CASE at' = f
  BY <1>1, <1>2
<1>3. CASE at' = Awake(f)
  <2>1. at' = [u \in HThreads |-> Woken(f[u])]
    BY <1>3 DEF Awake, Woken
  <2> HIDE DEF f
  <2>2. \A u \in HThreads : at'[u] = Woken(f[u]) /\ Woken(f[u]) \in Ats
    BY <1>1, <2>1, WokenIs
  <2> QED
    BY <1>1, <2>1, <2>2
<1> QED
  BY <1>2, <1>3 DEF MovesTo

-----------------------------------------------------------------------------
(* A step of one thread.                                                    *)

\* The rest of the state after a step.
Typed ==
  /\ hctl' \in Hctls /\ slot' \in [HCpus -> Slots] /\ life' \in Lives /\ seen' \in Seens
  /\ lmu' \in HThreads \cup {Nobody}

HvfCore == HvfTypeOK /\ Threads /\ Flags

\* A step of one thread keeps what is known of all of them, when it keeps what is
\* known of that one and of the slots it writes.
LEMMA MoveStep ==
  ASSUME HvfCore, NEW t \in HThreads, NEW a \in Ats, MovesTo(t, a), Typed,
         Grows(life, life'), FlagsOK(life', seen'),
         at[t].pc \notin {"ended", "never"}, a.pc # "create",
         t \in {Monitor, Input} => at[t].pc # "dead",
         t \in HCpus => CpuOK(t, a, slot'[t], life'),
         t \in {Monitor, Input} => HelperOK(a, life'),
         t = Caller => a.pc \in CallerPcs,
         t = Caller /\ a.pc \in {"joinRest", "returned"} => \A c \in HCpus : at[c].pc \in {"ended", "never"},
         t = Caller /\ a.pc = "returned" => \A h \in {Monitor, Input} : at[h].pc \in {"ended", "dead"},
         \A d \in HCpus \ {t} : CpuOK(d, at[d], slot'[d], life)
  PROVE HvfCore' /\ Creating' = Creating \ {t}
<1>0. /\ at \in [HThreads -> Ats] /\ slot \in [HCpus -> Slots] /\ life \in Lives
      /\ life' \in Lives /\ slot' \in [HCpus -> Slots]
  BY HFields DEF HvfCore, Typed
<1>1. /\ at' \in [HThreads -> Ats]
      /\ at'[t] \in {a, Woken(a)}
      /\ \A u \in HThreads \ {t} : at'[u] \in {at[u], Woken(at[u])}
  BY <1>0, MovedAts
<1>2. HvfTypeOK'
  BY <1>1 DEF HvfTypeOK, Typed, Ats, Slots, Lives, Hctls, Seens, Nobody
<1>3. ASSUME NEW c \in HCpus PROVE CpuOK(c, at'[c], slot'[c], life')
  <2>0. c \in HThreads /\ slot'[c] \in Slots /\ at[c] \in Ats
    BY <1>0, ThreadNames
  <2>1. CASE c = t
    <3>1. Grows(life', life')
      BY DEF Grows
    <3> QED
      BY <1>0, <1>1, <2>0, <2>1, <3>1, CpuKept
  <2>2. CASE c # t
    <3>1. at'[c] \in {at[c], Woken(at[c])}
      BY <1>1, <2>0, <2>2
    <3>2. CpuOK(c, at[c], slot'[c], life)
      BY <2>2
    <3> QED
      BY <1>0, <2>0, <3>1, <3>2, CpuKept
  <2> QED
    BY <2>1, <2>2
<1>4. ASSUME NEW h \in {Monitor, Input} PROVE HelperOK(at'[h], life')
  <2>0. h \in HThreads /\ at[h] \in Ats /\ HelperOK(at[h], life)
    BY <1>0, ThreadNames DEF HvfCore, Threads
  <2>1. CASE h = t
    <3>1. Grows(life', life')
      BY DEF Grows
    <3> QED
      BY <1>0, <1>1, <2>1, <3>1, HelperKept
  <2>2. CASE h # t
    BY <1>0, <1>1, <2>0, <2>2, HelperKept
  <2> QED
    BY <2>1, <2>2
<1>5. Caller \in HThreads /\ at[Caller] \in Ats /\ at[Caller].pc \in CallerPcs
  BY <1>0, ThreadNames DEF HvfCore, Threads
<1>6. /\ at'[Caller].pc \in CallerPcs
      /\ at'[Caller].pc \in {"joinRest", "returned"} =>
           IF t = Caller THEN a.pc \in {"joinRest", "returned"}
                         ELSE at[Caller].pc \in {"joinRest", "returned"}
      /\ at'[Caller].pc = "returned" =>
           IF t = Caller THEN a.pc = "returned" ELSE at[Caller].pc = "returned"
  <2>1. CASE t = Caller
    BY <1>1, <2>1, WokenIs DEF CallerPcs
  <2>2. CASE t # Caller
    BY <1>1, <1>5, <2>2, WokenIs DEF CallerPcs
  <2> QED
    BY <2>1, <2>2
<1>7. Threads'
  BY <1>3, <1>4, <1>6 DEF Threads
<1>8. ASSUME at'[Caller].pc \in {"joinRest", "returned"}, NEW c \in HCpus
      PROVE at'[c].pc \in {"ended", "never"}
  <2>1. \A d \in HCpus : at[d].pc \in {"ended", "never"}
    BY <1>6, <1>8 DEF HvfCore, Flags
  <2>2. t # c /\ c \in HThreads
    BY <2>1, ThreadNames
  <2> QED
    BY <1>0, <1>1, <2>1, <2>2, WokenIs
<1>11. ASSUME at'[Caller].pc = "returned", NEW h \in {Monitor, Input}
       PROVE at'[h].pc \in {"ended", "dead"}
  <2>1. at[h].pc \in {"ended", "dead"}
    BY <1>6, <1>11 DEF HvfCore, Flags
  <2>2. t # h /\ h \in HThreads
    BY <2>1, ThreadNames
  <2> QED
    BY <1>0, <1>1, <2>1, <2>2, WokenIs
<1>9. Flags'
  BY <1>8, <1>11 DEF Flags, FlagsOK
<1>10. ASSUME NEW c \in HCpus PROVE c \in Creating' <=> c \in Creating /\ c # t
  <2>0. c \in HThreads
    BY ThreadNames
  <2>1. CASE c = t
    BY <1>1, <2>1, WokenIs DEF Creating
  <2>2. CASE c # t
    BY <1>0, <1>1, <2>0, <2>2, WokenIs DEF Creating
  <2> QED
    BY <2>1, <2>2
<1> QED
  BY <1>2, <1>7, <1>9, <1>10 DEF HvfCore, Creating

\* The bound on created holds as long as nobody creates.
LEMMA BoundKept ==
  ASSUME CreatedBound, life \in Lives, NEW t, Creating' = Creating \ {t},
         life'.created = life.created
  PROVE CreatedBound'
<1>1. IsFiniteSet(Creating)
  BY HCpusFinite, FS_Subset, Creating \subseteq HCpus DEF Creating
<1>2. /\ Cardinality(Creating \ {t}) <= Cardinality(Creating)
      /\ Cardinality(Creating) \in Nat /\ Cardinality(Creating \ {t}) \in Nat
  BY <1>1, FS_Subset, FS_CardinalityType, Creating \ {t} \subseteq Creating
<1> QED
  BY <1>2, HvfRunnerAssumption DEF CreatedBound, Lives

\* A set of vCPUs has at most HvfCpus members.
LEMMA HSubset ==
  ASSUME NEW S, S \subseteq HCpus
  PROVE IsFiniteSet(S) /\ Cardinality(S) \in 0..HvfCpus
<1>1. IsFiniteSet(S) /\ Cardinality(S) <= Cardinality(HCpus) /\ Cardinality(S) \in Nat
  BY HCpusFinite, FS_Subset, FS_CardinalityType
<1> QED
  BY <1>1, HCpusFinite, HvfRunnerAssumption

\* The common case: one thread moves, no slot's paused mark and neither count
\* changes.
LEMMA PlainStep ==
  ASSUME HvfIInv, NEW t \in HThreads, NEW a \in Ats, MovesTo(t, a), Typed,
         Grows(life, life'), FlagsOK(life', seen'),
         at[t].pc \notin {"ended", "never"}, a.pc # "create",
         t \in {Monitor, Input} => at[t].pc # "dead",
         t \in HCpus => CpuOK(t, a, slot'[t], life'),
         t \in {Monitor, Input} => HelperOK(a, life'),
         t = Caller => a.pc \in CallerPcs,
         t = Caller /\ a.pc \in {"joinRest", "returned"} => \A c \in HCpus : at[c].pc \in {"ended", "never"},
         t = Caller /\ a.pc = "returned" => \A h \in {Monitor, Input} : at[h].pc \in {"ended", "dead"},
         \A d \in HCpus \ {t} : CpuOK(d, at[d], slot'[d], life),
         \A d \in HCpus : slot'[d].paused = slot[d].paused,
         life'.created = life.created, life'.paused = life.paused
  PROVE HvfIInv'
<1>1. HvfCore' /\ Creating' = Creating \ {t}
  BY MoveStep DEF HvfIInv, HvfCore
<1>2. CreatedBound'
  BY <1>1, BoundKept, HFields DEF HvfIInv
<1>3. HvfPausedCount'
  BY DEF HvfIInv, HvfPausedCount
<1> QED
  BY <1>1, <1>2, <1>3 DEF HvfIInv, HvfCore

\* What the invariant says, in the form the steps need it.
LEMMA Known ==
  ASSUME HvfIInv
  PROVE /\ at \in [HThreads -> Ats] /\ slot \in [HCpus -> Slots] /\ life \in Lives
        /\ hctl \in Hctls /\ seen \in Seens /\ lmu \in HThreads \cup {Nobody}
        /\ FlagsOK(life, seen) /\ Grows(life, life)
        /\ \A d \in HCpus : CpuOK(d, at[d], slot[d], life) /\ d \in HThreads
        /\ \A t \in HThreads : at[t] \in Ats
        /\ Nobody \in HThreads \cup {Nobody}
  BY HFields, ThreadNames
     DEF HvfIInv, HvfTypeOK, FlagsOK, Flags, Grows, Threads, Nobody

\* The part of a slot the invariant speaks of: live and exit are free.
SameSlot(r, s) == r.psci = s.psci /\ r.start = s.start /\ r.paused = s.paused

\* A vCPU's pc changes, and at most exits of slots with it.
LEMMA CpuPcStep ==
  ASSUME HvfIInv, NEW c \in HCpus, NEW from \in HvfPcs \ {"ended", "never"}, NEW to \in HvfPcs \ {"create"},
         Goes(c, from, to), life' = life, seen' = seen, hctl' \in Hctls,
         lmu' \in HThreads \cup {Nobody}, slot' \in [HCpus -> Slots],
         \A d \in HCpus : SameSlot(slot'[d], slot[d]),
         NEW a, a = [at[c] EXCEPT !.pc = to], CpuOK(c, a, slot[c], life)
  PROVE HvfIInv'
<1>0. /\ at \in [HThreads -> Ats] /\ slot \in [HCpus -> Slots] /\ life \in Lives
      /\ seen \in Seens /\ FlagsOK(life, seen) /\ Grows(life, life)
      /\ \A d \in HCpus : CpuOK(d, at[d], slot[d], life) /\ d \in HThreads
      /\ c \in HThreads /\ at[c] \in Ats
  BY Known
<1>1. a \in Ats /\ a.pc = to /\ at[c].pc = from
  BY <1>0 DEF Ats, Goes
<1>2. MovesTo(c, a)
  <2>1. at' = [at EXCEPT ![c] = a]
    BY <1>0 DEF Goes
  <2> QED
    BY <2>1 DEF MovesTo
<1>3. \A d \in HCpus : CpuOK(d, at[d], slot'[d], life)
  BY <1>0 DEF CpuOK, SameSlot
<1>4. CpuOK(c, a, slot'[c], life')
  BY DEF CpuOK, SameSlot
<1>5. c \notin {Monitor, Input, Caller}
  BY ThreadNames
<1>6. Typed
  BY <1>0 DEF Typed
<1>7. Grows(life, life') /\ FlagsOK(life', seen')
  BY <1>0
<1>8. /\ \A d \in HCpus : slot'[d].paused = slot[d].paused
      /\ life'.created = life.created /\ life'.paused = life.paused
  BY DEF SameSlot
<1> QED
  BY <1>0, <1>1, <1>2, <1>3, <1>4, <1>5, <1>6, <1>7, <1>8, PlainStep

\* The steps that test or set one shared word and go on.
LEMMA LoopStep ==
  ASSUME HvfIInv, NEW c \in HCpus,
         \/ InitVcpu(c) \/ VcpuTop(c) \/ Spin(c) \/ Unparked(c) \/ SetRunning(c) \/ RunRound(c)
         \/ RunForced(c) \/ WaitStart(c) \/ VcpuThrows(c)
         \/ (VcpuCommand(c) /\ hctl.command # "stop")
  PROVE HvfIInv'
<1>0. /\ at \in [HThreads -> Ats] /\ slot \in [HCpus -> Slots] /\ life \in Lives
      /\ seen \in Seens /\ hctl \in Hctls /\ lmu \in HThreads \cup {Nobody}
      /\ CpuOK(c, at[c], slot[c], life) /\ c \in HThreads /\ at[c] \in Ats /\ slot[c] \in Slots
  BY Known
<1>1. /\ life' = life /\ seen' = seen /\ hctl' \in Hctls /\ lmu' \in HThreads \cup {Nobody}
  BY <1>0 DEF InitVcpu, VcpuTop, Spin, Unparked, SetRunning, RunRound, RunForced, WaitStart,
              VcpuThrows, VcpuCommand, Hctls
<1>2. slot' \in [HCpus -> Slots] /\ \A d \in HCpus : SameSlot(slot'[d], slot[d])
  <2>1. slot' = slot \/ slot' = [slot EXCEPT ![c].exit = FALSE]
    BY DEF InitVcpu, VcpuTop, Spin, Unparked, SetRunning, RunRound, RunForced, WaitStart,
           VcpuThrows, VcpuCommand
  <2>2. CASE slot' = slot
    BY <1>0, <2>2 DEF SameSlot
  <2>3. CASE slot' = [slot EXCEPT ![c].exit = FALSE]
    BY <1>0, <2>3 DEF Slots, SameSlot
  <2> QED
    BY <2>1, <2>2, <2>3
<1>3. ASSUME NEW from \in HvfPcs \ {"ended", "never"}, NEW to \in HvfPcs \ {"create"}, Goes(c, from, to),
             \/ from = "init" /\ to = "top"
             \/ from = "top" /\ to = "dead" /\ life.stop
             \/ from = "top" /\ to = "command" /\ ~life.stop
             \/ from = "command" /\ to \in {"park", "setRunning"}
             \/ from = "spin" /\ to = "unpark"
             \/ from = "unparked" /\ to = "dead" /\ life.stop
             \/ from = "unparked" /\ to = "setRunning"
             \/ from = "setRunning" /\ to = "run"
             \/ from = "run" /\ to = "top"
             \/ from \in {"init", "run"} /\ to = "error"
             \/ from = "waitStart" /\ to = "drowsyStart"
             \/ from = "waitStart" /\ to = "init" /\ c = 0 /\ (life.started \/ life.stop)
             \/ from = "waitStart" /\ to = "off" /\ (life.started \/ life.stop)
      PROVE HvfIInv'
  <2> DEFINE a == [at[c] EXCEPT !.pc = to]
  <2>1. a.pc = to /\ a.reason = at[c].reason /\ a.ret = at[c].ret /\ at[c].pc = from
    BY <1>0, <1>3 DEF Ats, Goes
  <2>3. a = [at[c] EXCEPT !.pc = to]
    OBVIOUS
  <2> HIDE DEF a
  <2>2. CpuOK(c, a, slot[c], life)
    BY <1>0, <1>3, <2>1
       DEF CpuOK, StopOK, StartPcs, OffPcs, RunPcs, StopPcs, SpinPcs, Slots, Lives
  <2> QED
    BY <1>1, <1>2, <1>3, <2>2, <2>3, CpuPcStep
<1>4. {"init", "top", "dead", "error", "command", "park", "setRunning", "spin", "unpark", "unparked", "run",
       "waitStart", "drowsyStart", "off"} \subseteq HvfPcs
  BY DEF HvfPcs
<1>5. CASE InitVcpu(c)
  BY <1>3, <1>4, <1>5 DEF InitVcpu
<1>6. CASE VcpuTop(c)
  BY <1>3, <1>4, <1>6 DEF VcpuTop
<1>7. CASE Spin(c)
  BY <1>3, <1>4, <1>7 DEF Spin
<1>8. CASE Unparked(c)
  BY <1>3, <1>4, <1>8 DEF Unparked
<1>9. CASE SetRunning(c)
  BY <1>3, <1>4, <1>9 DEF SetRunning
<1>10. CASE RunRound(c) \/ RunForced(c)
  BY <1>3, <1>4, <1>10 DEF RunRound, RunForced
<1>11. CASE WaitStart(c)
  BY <1>3, <1>4, <1>11 DEF WaitStart
<1>12. CASE VcpuCommand(c) /\ hctl.command # "stop"
  BY <1>3, <1>4, <1>12 DEF VcpuCommand
<1>13. CASE VcpuThrows(c)
  BY <1>3, <1>4, <1>13 DEF VcpuThrows
<1> QED
  BY <1>5, <1>6, <1>7, <1>8, <1>9, <1>10, <1>11, <1>12, <1>13

\* A thread goes to sleep on lifecycle_cv.
LEMMA SleepsStep == ASSUME HvfIInv, NEW t \in HThreads, Sleeps(t) PROVE HvfIInv'
<1>0. /\ at \in [HThreads -> Ats] /\ slot \in [HCpus -> Slots] /\ life \in Lives
      /\ seen \in Seens /\ hctl \in Hctls /\ at[t] \in Ats
      /\ FlagsOK(life, seen) /\ Grows(life, life)
      /\ \A d \in HCpus : CpuOK(d, at[d], slot[d], life)
  BY Known
<1>1. PICK from \in {"drowsyStart", "drowsyOff", "drowsyAwait"},
           to \in {"asleepStart", "asleepOff", "asleepAwait"} :
        /\ Goes(t, from, to)
        /\ from = "drowsyStart" => to = "asleepStart"
        /\ from = "drowsyOff" => to = "asleepOff"
        /\ from = "drowsyAwait" => to = "asleepAwait"
  BY DEF Sleeps
<1> DEFINE a == [at[t] EXCEPT !.pc = to]
<1>2. a \in Ats /\ a.pc = to /\ a.reason = at[t].reason /\ a.ret = at[t].ret /\ at[t].pc = from
  BY <1>0, <1>1 DEF Ats, Goes, HvfPcs
<1>3. MovesTo(t, a)
  <2>1. at' = [at EXCEPT ![t] = a]
    BY <1>0, <1>1 DEF Goes
  <2> QED
    BY <2>1 DEF MovesTo
<1> HIDE DEF a
<1>4. UNCHANGED <<hctl, slot, life, seen>> /\ lmu' = Nobody
  BY DEF Sleeps
<1>5. t \in HCpus => CpuOK(t, a, slot'[t], life')
  BY <1>0, <1>1, <1>2, <1>4
     DEF CpuOK, StopOK, StartPcs, OffPcs, RunPcs, StopPcs, SpinPcs, Slots
<1>6. t \notin {Monitor, Input}
  BY <1>1, <1>2 DEF HvfIInv, Threads, HelperOK, StopPcs
<1>7. t = Caller => a.pc \in CallerPcs
  BY <1>1, <1>2 DEF HvfIInv, Threads, CallerPcs
<1>8. Typed
  BY <1>0, <1>4 DEF Typed
<1> QED
  BY <1>0, <1>1, <1>2, <1>3, <1>4, <1>5, <1>6, <1>7, <1>8, PlainStep

-----------------------------------------------------------------------------
(* request_stop.                                                            *)

\* hv_vcpus_exit touches the exit flags alone.
LEMMA ExitLiveSlots ==
  ASSUME slot \in [HCpus -> Slots], slot' = slot \/ slot' = ExitLive(slot)
  PROVE slot' \in [HCpus -> Slots] /\ \A d \in HCpus : SameSlot(slot'[d], slot[d])
<1>1. CASE slot' = slot
  BY <1>1 DEF SameSlot
<1>2. CASE slot' = ExitLive(slot)
  <2>1. \A d \in HCpus : slot'[d] = [slot[d] EXCEPT !.exit = @ \/ slot[d].live] /\ slot[d] \in Slots
    BY <1>2 DEF ExitLive
  <2>2. \A d \in HCpus : slot'[d] \in Slots /\ SameSlot(slot'[d], slot[d])
    BY <2>1 DEF Slots, SameSlot
  <2> QED
    BY <1>2, <2>2 DEF ExitLive
<1> QED
  BY <1>1, <1>2

\* The call of request_stop.
LEMMA RequestStep ==
  ASSUME HvfIInv, NEW t \in HThreads \ {Caller}, NEW reason \in HvfReasons \ {"none"},
         NEW ret \in HvfPcs, RequestStop(t, reason, ret),
         t \in HCpus => /\ at[t].pc \in {"command", "run", "error"} /\ ret \in {"top", "dead"}
                        /\ ret = "top" => at[t].pc = "run",
         t \notin HCpus => ret = "ended" /\ at[t].pc \in {"loop", "pause"},
         slot' = slot \/ slot' = ExitLive(slot), hctl' \in Hctls,
         life' = life \/ life' = [life EXCEPT !.error = TRUE], seen' = seen, lmu' = lmu
  PROVE HvfIInv'
<1>0. /\ at \in [HThreads -> Ats] /\ slot \in [HCpus -> Slots] /\ life \in Lives
      /\ seen \in Seens /\ lmu \in HThreads \cup {Nobody}
      /\ FlagsOK(life, seen) /\ Grows(life, life)
      /\ \A d \in HCpus : CpuOK(d, at[d], slot[d], life) /\ d \in HThreads
      /\ at[t] \in Ats
  BY Known
<1> DEFINE a == [pc |-> "claim", reason |-> reason, ret |-> ret]
<1>1. a \in Ats /\ a.pc = "claim" /\ a.reason = reason /\ a.ret = ret
  BY DEF Ats, HvfPcs
<1>2. MovesTo(t, a)
  BY DEF RequestStop, MovesTo
<1> HIDE DEF a
<1>3. /\ life' \in Lives /\ life'.stop = life.stop /\ life'.resultSet = life.resultSet
      /\ life'.started = life.started /\ life'.created = life.created
      /\ life'.paused = life.paused /\ life'.reason = life.reason /\ (life.thrown => life'.thrown)
  BY <1>0 DEF Lives
<1>4. slot' \in [HCpus -> Slots] /\ \A d \in HCpus : SameSlot(slot'[d], slot[d])
  BY <1>0, ExitLiveSlots
<1>5. \A d \in HCpus : CpuOK(d, at[d], slot'[d], life)
  BY <1>0, <1>4 DEF CpuOK, SameSlot
<1>6. ASSUME t \in HCpus PROVE CpuOK(t, a, slot'[t], life')
  <2>1. CpuOK(t, at[t], slot'[t], life) /\ slot'[t] \in Slots
    BY <1>4, <1>5, <1>6
  <2> QED
    BY <1>0, <1>1, <1>3, <1>6, <2>1
       DEF CpuOK, StopOK, StartPcs, OffPcs, RunPcs, StopPcs, SpinPcs, Slots, Lives
<1>7. t \in {Monitor, Input} => HelperOK(a, life')
  BY <1>1, ThreadNames DEF HelperOK, StopOK, StopPcs
<1>8. Typed
  BY <1>0, <1>3, <1>4 DEF Typed
<1>9. Grows(life, life') /\ FlagsOK(life', seen')
  BY <1>0, <1>3 DEF Grows, FlagsOK
<1>10. \A d \in HCpus : slot'[d].paused = slot[d].paused
  BY <1>4 DEF SameSlot
<1> QED
  BY <1>0, <1>1, <1>2, <1>3, <1>5, <1>6, <1>7, <1>8, <1>9, <1>10, PlainStep

\* A thread inside request_stop is a vCPU's or one of the helpers.
LEMMA InStop ==
  ASSUME HvfIInv, NEW t \in HThreads, at[t].pc \in StopPcs
  PROVE t # Caller /\ (t \in HCpus \/ t \in {Monitor, Input})
  BY DEF HvfIInv, Threads, CallerPcs, StopPcs, HThreads

\* request_stop: the first reason is kept.
LEMMA StopClaimStep == ASSUME HvfIInv, NEW t \in HThreads, StopClaim(t) PROVE HvfIInv'
<1>0. /\ at \in [HThreads -> Ats] /\ slot \in [HCpus -> Slots] /\ life \in Lives
      /\ seen \in Seens /\ lmu \in HThreads \cup {Nobody} /\ hctl \in Hctls
      /\ FlagsOK(life, seen) /\ Grows(life, life)
      /\ \A d \in HCpus : CpuOK(d, at[d], slot[d], life) /\ d \in HThreads
      /\ at[t] \in Ats
  BY Known
<1>1. /\ Goes(t, "claim", "store") /\ UNCHANGED <<hctl, slot, lmu>>
      /\ life' = IF life.resultSet THEN life
                 ELSE [life EXCEPT !.resultSet = TRUE, !.reason = at[t].reason]
      /\ seen' = [seen EXCEPT !.first = IF life.resultSet THEN @ ELSE at[t].reason]
  BY DEF StopClaim
<1> DEFINE a == [at[t] EXCEPT !.pc = "store"]
<1>2. a \in Ats /\ a.pc = "store" /\ a.ret = at[t].ret /\ at[t].pc = "claim"
  BY <1>0, <1>1 DEF Ats, Goes, HvfPcs
<1>3. MovesTo(t, a)
  <2>1. at' = [at EXCEPT ![t] = a]
    BY <1>0, <1>1 DEF Goes
  <2> QED
    BY <2>1 DEF MovesTo
<1> HIDE DEF a
<1>4. t # Caller /\ (t \in HCpus \/ t \in {Monitor, Input})
  BY <1>2, InStop DEF StopPcs
<1>5. at[t].reason # "none" /\ at[t].reason \in HvfReasons
  BY <1>0, <1>2, <1>4 DEF HvfIInv, Threads, CpuOK, HelperOK, StopOK, Ats
<1>6. /\ life' \in Lives /\ life'.stop = life.stop /\ life'.resultSet
      /\ life'.started = life.started /\ life'.created = life.created
      /\ life'.paused = life.paused
  <2>1. CASE life.resultSet
    BY <1>0, <1>1, <2>1
  <2>2. CASE ~life.resultSet
    BY <1>0, <1>1, <1>5, <2>2 DEF Lives
  <2> QED
    BY <2>1, <2>2
<1>7. seen' \in Seens /\ FlagsOK(life', seen')
  <2>1. CASE life.resultSet
    <3>1. life' = life /\ seen' = [seen EXCEPT !.first = seen.first]
      BY <1>1, <2>1
    <3>2. seen' \in Seens /\ seen'.first = seen.first
      BY <1>0, <3>1 DEF Seens
    <3> QED
      BY <1>0, <3>1, <3>2 DEF FlagsOK
  <2>2. CASE ~life.resultSet
    <3>1. /\ life' = [life EXCEPT !.resultSet = TRUE, !.reason = at[t].reason]
          /\ seen' = [seen EXCEPT !.first = at[t].reason]
      BY <1>1, <2>2
    <3>2. seen' \in Seens /\ seen'.first = at[t].reason /\ life'.reason = at[t].reason
      BY <1>0, <1>5, <3>1 DEF Seens, Lives
    <3> QED
      BY <1>0, <1>5, <1>6, <3>2 DEF FlagsOK
  <2> QED
    BY <2>1, <2>2
<1>8. Grows(life, life') /\ Typed
  BY <1>0, <1>1, <1>6, <1>7 DEF Grows, Typed
<1>9. ASSUME t \in HCpus PROVE CpuOK(t, a, slot'[t], life')
  <2>1. CpuOK(t, at[t], slot[t], life) /\ slot'[t] = slot[t] /\ slot[t] \in Slots
    BY <1>0, <1>1, <1>9
  <2> QED
    BY <1>0, <1>2, <1>6, <2>1
       DEF CpuOK, StopOK, StartPcs, OffPcs, RunPcs, StopPcs, SpinPcs, Slots, Lives
<1>10. t \in {Monitor, Input} => HelperOK(a, life')
  BY <1>2, <1>6 DEF HvfIInv, Threads, HelperOK, StopOK, StopPcs
<1> QED
  BY <1>0, <1>1, <1>2, <1>3, <1>4, <1>6, <1>7, <1>8, <1>9, <1>10, PlainStep

\* request_stop: the flag, and the notification.
LEMMA StopNotifyStep == ASSUME HvfIInv, NEW t \in HThreads, StopNotify(t) PROVE HvfIInv'
<1>0. /\ at \in [HThreads -> Ats] /\ slot \in [HCpus -> Slots] /\ life \in Lives
      /\ seen \in Seens /\ lmu \in HThreads \cup {Nobody} /\ hctl \in Hctls
      /\ FlagsOK(life, seen) /\ Grows(life, life)
      /\ \A d \in HCpus : CpuOK(d, at[d], slot[d], life) /\ d \in HThreads
      /\ at[t] \in Ats
  BY Known
<1> DEFINE a == [at[t] EXCEPT !.pc = "wake"]
           m == \E u \in HThreads : at[u].pc \in {"drowsyStart", "drowsyOff", "drowsyAwait"}
<1>1. /\ at[t].pc = "store" /\ UNCHANGED <<hctl, slot, lmu>>
      /\ life' = [life EXCEPT !.stop = TRUE]
      /\ seen' = [seen EXCEPT !.missed = @ \/ m]
      /\ at' = Awake([at EXCEPT ![t].pc = "wake"])
  BY DEF StopNotify
<1>2. a \in Ats /\ a.pc = "wake" /\ a.ret = at[t].ret
  BY <1>0 DEF Ats, HvfPcs
<1>3. MovesTo(t, a)
  <2>1. [at EXCEPT ![t].pc = "wake"] = [at EXCEPT ![t] = a]
    BY <1>0
  <2> QED
    BY <1>1, <2>1 DEF MovesTo
<1> HIDE DEF a, m
<1>4. t # Caller /\ (t \in HCpus \/ t \in {Monitor, Input})
  BY <1>1, InStop DEF StopPcs
<1>5. life.resultSet
  BY <1>1, <1>4 DEF HvfIInv, Threads, CpuOK, HelperOK, StopOK
<1>6. /\ life' \in Lives /\ life'.stop /\ life'.resultSet = life.resultSet
      /\ life'.started = life.started /\ life'.created = life.created
      /\ life'.paused = life.paused /\ life'.reason = life.reason
  BY <1>0, <1>1 DEF Lives
<1>7. seen' \in Seens /\ seen'.first = seen.first
  <2>1. seen' = [seen EXCEPT !.missed = TRUE] \/ seen' = [seen EXCEPT !.missed = FALSE]
    BY <1>0, <1>1 DEF Seens
  <2> QED
    BY <1>0, <2>1 DEF Seens
<1>8. Grows(life, life') /\ Typed /\ FlagsOK(life', seen')
  BY <1>0, <1>1, <1>5, <1>6, <1>7 DEF Grows, Typed, FlagsOK
<1>9. ASSUME t \in HCpus PROVE CpuOK(t, a, slot'[t], life')
  <2>1. CpuOK(t, at[t], slot[t], life) /\ slot'[t] = slot[t] /\ slot[t] \in Slots
    BY <1>0, <1>1, <1>9
  <2> QED
    BY <1>0, <1>1, <1>2, <1>6, <2>1
       DEF CpuOK, StopOK, StartPcs, OffPcs, RunPcs, StopPcs, SpinPcs, Slots, Lives
<1>10. t \in {Monitor, Input} => HelperOK(a, life')
  BY <1>2, <1>6 DEF HvfIInv, Threads, HelperOK, StopOK, StopPcs
<1> QED
  BY <1>0, <1>1, <1>2, <1>3, <1>4, <1>6, <1>7, <1>8, <1>9, <1>10, PlainStep

\* request_stop: wake_all_vcpus, and back to the caller of request_stop.
LEMMA WakeAllStep == ASSUME HvfIInv, NEW t \in HThreads, wake_all_vcpus(t) PROVE HvfIInv'
<1>0. /\ at \in [HThreads -> Ats] /\ slot \in [HCpus -> Slots] /\ life \in Lives
      /\ seen \in Seens /\ lmu \in HThreads \cup {Nobody} /\ hctl \in Hctls
      /\ FlagsOK(life, seen) /\ Grows(life, life)
      /\ \A d \in HCpus : CpuOK(d, at[d], slot[d], life) /\ d \in HThreads
      /\ at[t] \in Ats
  BY Known
<1> DEFINE a == [pc |-> at[t].ret, reason |-> "none", ret |-> "ended"]
<1>1. /\ at[t].pc = "wake" /\ slot' = ExitLive(slot) /\ UNCHANGED <<hctl, life, lmu, seen>>
      /\ at' = [at EXCEPT ![t] = a]
  BY DEF wake_all_vcpus
<1>2. a \in Ats /\ a.pc = at[t].ret /\ a.ret = "ended"
  BY <1>0 DEF Ats, HvfPcs, HvfReasons
<1>3. MovesTo(t, a)
  BY <1>1 DEF MovesTo
<1> HIDE DEF a
<1>4. t # Caller /\ (t \in HCpus \/ t \in {Monitor, Input})
  BY <1>1, InStop DEF StopPcs
<1>5. slot' \in [HCpus -> Slots] /\ \A d \in HCpus : SameSlot(slot'[d], slot[d])
  BY <1>0, <1>1, ExitLiveSlots
<1>6. \A d \in HCpus : CpuOK(d, at[d], slot'[d], life)
  BY <1>0, <1>5 DEF CpuOK, SameSlot
<1>7. ASSUME t \in HCpus PROVE CpuOK(t, a, slot'[t], life') /\ a.pc # "create"
  <2>1. CpuOK(t, at[t], slot'[t], life) /\ slot'[t] \in Slots /\ life' = life
    BY <1>1, <1>5, <1>6, <1>7
  <2> QED
    BY <1>0, <1>1, <1>2, <2>1
       DEF CpuOK, StopOK, StartPcs, OffPcs, RunPcs, StopPcs, SpinPcs, Slots, Lives
<1>8. ASSUME t \in {Monitor, Input} PROVE HelperOK(a, life') /\ a.pc # "create"
  BY <1>2, <1>8 DEF HvfIInv, Threads, HelperOK, StopOK, StopPcs
<1>9. Typed
  BY <1>0, <1>1, <1>5 DEF Typed
<1>10. \A d \in HCpus : slot'[d].paused = slot[d].paused
  BY <1>5 DEF SameSlot
<1> QED
  BY <1>0, <1>1, <1>2, <1>3, <1>4, <1>6, <1>7, <1>8, <1>9, <1>10, PlainStep

\* The calls of request_stop from a vCPU: the stop command, an exit that stops
\* the VM, an exception.
LEMMA VcpuStopsStep ==
  ASSUME HvfIInv, NEW c \in HCpus,
         (VcpuCommand(c) /\ hctl.command = "stop") \/ RunStops(c) \/ VcpuError(c)
  PROVE HvfIInv'
<1>0. hctl \in Hctls /\ c \in HThreads \ {Caller} /\ c \in HCpus
  BY Known, ThreadNames
<1>1. {"host-stop", "guest-exit", "trap", "hv-error"} \subseteq HvfReasons \ {"none"}
      /\ "top" \in HvfPcs /\ "dead" \in HvfPcs
  BY DEF HvfReasons, HvfPcs
<1>2. CASE VcpuCommand(c) /\ hctl.command = "stop"
  <2>1. hctl' \in Hctls /\ at[c].pc = "command" /\ RequestStop(c, "host-stop", "dead")
        /\ UNCHANGED <<slot, life, lmu, seen>>
    BY <1>0, <1>2 DEF VcpuCommand, Hctls
  <2> QED
    BY <1>0, <1>1, <2>1, RequestStep
<1>3. CASE RunStops(c)
  <2>1. hctl' \in Hctls /\ at[c].pc = "run" /\ UNCHANGED <<slot, life, lmu, seen>>
        /\ (RequestStop(c, "guest-exit", "top") \/ RequestStop(c, "trap", "dead"))
    BY <1>0, <1>3 DEF RunStops
  <2> QED
    BY <1>0, <1>1, <2>1, RequestStep
<1>4. CASE VcpuError(c)
  <2>1. hctl' \in Hctls /\ at[c].pc = "error" /\ UNCHANGED <<slot, lmu, seen>>
        /\ life' = [life EXCEPT !.error = TRUE] /\ RequestStop(c, "hv-error", "dead")
    BY <1>0, <1>4 DEF VcpuError
  <2> QED
    BY <1>0, <1>1, <2>1, RequestStep
<1> QED
  BY <1>2, <1>3, <1>4

-----------------------------------------------------------------------------
(* Creation, power and pause.                                               *)

\* Once the caller has started the vCPUs, none is still to be created.
LEMMA NoneCreating ==
  ASSUME HvfIInv PROVE life.started => Creating = {}
<1>1. IsFiniteSet(Creating) /\ Cardinality(Creating) \in 0..HvfCpus
  BY HSubset, Creating \subseteq HCpus DEF Creating
<1>2. life.started => Cardinality(Creating) = 0
  BY <1>1, Known, HvfRunnerAssumption DEF HvfIInv, CreatedBound, FlagsOK, Lives
<1> QED
  BY <1>1, <1>2, FS_EmptySet

\* hv_vcpu_create: the slot is written, and the caller notified.
LEMMA CreateStep == ASSUME HvfIInv, NEW c \in HCpus, CreateVcpu(c) PROVE HvfIInv'
<1>0. /\ at \in [HThreads -> Ats] /\ slot \in [HCpus -> Slots] /\ life \in Lives
      /\ seen \in Seens /\ lmu \in HThreads \cup {Nobody} /\ hctl \in Hctls
      /\ FlagsOK(life, seen) /\ Grows(life, life)
      /\ \A d \in HCpus : CpuOK(d, at[d], slot[d], life) /\ d \in HThreads
      /\ c \in HThreads /\ at[c] \in Ats /\ slot[c] \in Slots
      /\ c \notin {Monitor, Input, Caller}
  BY Known, ThreadNames
<1>1. at[c].pc = "create" /\ UNCHANGED <<hctl, lmu, seen>>
  BY DEF CreateVcpu
<1>2. CASE /\ slot' = [slot EXCEPT ![c].live = TRUE, ![c].psci = IF c = 0 THEN "On" ELSE "Off"]
           /\ life' = [life EXCEPT !.created = @ + 1]
           /\ at' = Awake([at EXCEPT ![c].pc = "waitStart"])
  <2> DEFINE a == [at[c] EXCEPT !.pc = "waitStart"]
  <2>1. a \in Ats /\ a.pc = "waitStart"
    BY <1>0 DEF Ats, HvfPcs
  <2>2. MovesTo(c, a)
    <3>1. [at EXCEPT ![c].pc = "waitStart"] = [at EXCEPT ![c] = a]
      BY <1>0
    <3> QED
      BY <1>2, <3>1 DEF MovesTo
  <2> HIDE DEF a
  <2>3. /\ slot' \in [HCpus -> Slots] /\ \A d \in HCpus \ {c} : slot'[d] = slot[d]
        /\ slot'[c].paused = slot[c].paused /\ slot'[c].start = slot[c].start
        /\ slot'[c].psci = IF c = 0 THEN "On" ELSE "Off"
    <3>1. slot' = [slot EXCEPT ![c] = [slot[c] EXCEPT !.live = TRUE,
                                        !.psci = IF c = 0 THEN "On" ELSE "Off"]]
      BY <1>0, <1>2
    <3>2. (IF c = 0 THEN "On" ELSE "Off") \in PsciStates
      BY DEF PsciStates
    <3> QED
      BY <1>0, <3>1, <3>2 DEF Slots
  <2>4. c \in Creating /\ ~life.started
    BY <1>1, NoneCreating DEF Creating
  <2>5. /\ Creating \ {c} \subseteq HCpus /\ Creating \subseteq HCpus
        /\ Cardinality(Creating \ {c}) = Cardinality(Creating) - 1
        /\ Cardinality(Creating) \in 0..HvfCpus /\ Cardinality(Creating \ {c}) \in 0..HvfCpus
    <3>1. Creating \ {c} \subseteq HCpus /\ Creating \subseteq HCpus
      BY DEF Creating
    <3> QED
      BY <2>4, <3>1, HSubset, FS_RemoveElement
  <2>6. life.created + 1 \in 0..HvfCpus
    BY <1>0, <2>5, HvfRunnerAssumption DEF HvfIInv, CreatedBound, Lives
  <2>7. /\ life' \in Lives /\ life'.stop = life.stop /\ life'.resultSet = life.resultSet
        /\ life'.started = life.started /\ life'.created = life.created + 1 /\ life'.thrown = life.thrown
        /\ life'.paused = life.paused /\ life'.reason = life.reason
    BY <1>0, <1>2, <2>6 DEF Lives
  <2>8. Grows(life, life') /\ FlagsOK(life', seen') /\ Typed
    BY <1>0, <1>1, <2>3, <2>4, <2>7 DEF Grows, FlagsOK, Typed
  <2>9. CpuOK(c, a, slot'[c], life')
    <3>1. CpuOK(c, at[c], slot[c], life) /\ slot'[c] \in Slots
      BY <1>0, <2>3
    <3> QED
      BY <1>1, <2>1, <2>3, <2>7, <3>1
         DEF CpuOK, StopOK, StartPcs, OffPcs, RunPcs, StopPcs, SpinPcs
  <2>10. HvfCore' /\ Creating' = Creating \ {c}
    BY <1>0, <1>1, <2>1, <2>2, <2>3, <2>8, <2>9, MoveStep DEF HvfIInv, HvfCore
  <2>11. CreatedBound'
    BY <1>0, <2>5, <2>7, <2>10, HvfRunnerAssumption DEF HvfIInv, CreatedBound, Lives
  <2>12. HvfPausedCount'
    <3>1. \A d \in HCpus : slot'[d].paused = slot[d].paused
      BY <2>3
    <3> QED
      BY <2>7, <3>1 DEF HvfIInv, HvfPausedCount
  <2> QED
    BY <2>10, <2>11, <2>12 DEF HvfIInv, HvfCore
<1>3. CASE at' = [at EXCEPT ![c].pc = "error"] /\ UNCHANGED <<slot, life>>
  <2> DEFINE a == [at[c] EXCEPT !.pc = "error"]
  <2>1. a.pc = "error" /\ a = [at[c] EXCEPT !.pc = "error"]
    BY <1>0 DEF Ats
  <2> HIDE DEF a
  <2>2. CpuOK(c, a, slot[c], life)
    <3>1. CpuOK(c, at[c], slot[c], life)
      BY <1>0
    <3> QED
      BY <1>0, <1>1, <2>1, <3>1
         DEF CpuOK, StopOK, StartPcs, OffPcs, RunPcs, StopPcs, SpinPcs, Slots
  <2>3. Goes(c, "create", "error") /\ "create" \in HvfPcs /\ "error" \in HvfPcs
    BY <1>1, <1>3 DEF Goes, HvfPcs
  <2>4. \A d \in HCpus : SameSlot(slot'[d], slot[d])
    BY <1>3 DEF SameSlot
  <2> QED
    BY <1>0, <1>1, <1>3, <2>1, <2>2, <2>3, <2>4, CpuPcStep
<1> QED
  BY <1>2, <1>3 DEF CreateVcpu

\* A vCPU's own slot changes with its pc; its paused mark does not.
LEMMA CpuSlotStep ==
  ASSUME HvfIInv, NEW c \in HCpus, NEW to \in HvfPcs \ {"create"}, NEW a, NEW s \in Slots,
         a = [at[c] EXCEPT !.pc = to],
         at' = [at EXCEPT ![c].pc = to] \/ at' = Awake([at EXCEPT ![c].pc = to]),
         at[c].pc \notin {"ended", "never"}, slot' = [slot EXCEPT ![c] = s], s.paused = slot[c].paused,
         CpuOK(c, a, s, life), life' = life, seen' \in Seens, seen'.first = seen.first,
         hctl' = hctl, lmu' \in HThreads \cup {Nobody}
  PROVE HvfIInv'
<1>0. /\ at \in [HThreads -> Ats] /\ slot \in [HCpus -> Slots] /\ life \in Lives
      /\ hctl \in Hctls /\ FlagsOK(life, seen) /\ Grows(life, life)
      /\ \A d \in HCpus : CpuOK(d, at[d], slot[d], life) /\ d \in HThreads
      /\ c \in HThreads /\ at[c] \in Ats /\ c \notin {Monitor, Input, Caller}
  BY Known, ThreadNames
<1>1. a \in Ats /\ a.pc = to
  BY <1>0 DEF Ats
<1>2. MovesTo(c, a)
  <2>1. [at EXCEPT ![c].pc = to] = [at EXCEPT ![c] = a]
    BY <1>0
  <2> QED
    BY <2>1 DEF MovesTo
<1>3. slot' \in [HCpus -> Slots] /\ slot'[c] = s /\ \A d \in HCpus \ {c} : slot'[d] = slot[d]
  BY <1>0
<1>4. Typed /\ Grows(life, life') /\ FlagsOK(life', seen')
  BY <1>0, <1>3 DEF Typed, FlagsOK
<1>5. \A d \in HCpus : slot'[d].paused = slot[d].paused
  BY <1>3
<1> QED
  BY <1>0, <1>1, <1>2, <1>3, <1>4, <1>5, PlainStep

\* A secondary vCPU waits to be powered on, takes the request, or ends.
LEMMA WaitPowerOnStep == ASSUME HvfIInv, NEW c \in HCpus, WaitPowerOn(c) PROVE HvfIInv'
<1>0. /\ at \in [HThreads -> Ats] /\ slot \in [HCpus -> Slots] /\ life \in Lives
      /\ seen \in Seens /\ lmu \in HThreads \cup {Nobody} /\ hctl \in Hctls
      /\ CpuOK(c, at[c], slot[c], life)
      /\ c \in HThreads /\ at[c] \in Ats /\ slot[c] \in Slots
  BY Known
<1>1. at[c].pc = "off" /\ UNCHANGED <<hctl, life, seen>>
  BY DEF WaitPowerOn
<1>2. slot[c].paused = FALSE /\ "dead" \in HvfPcs /\ "init" \in HvfPcs /\ "drowsyOff" \in HvfPcs
  BY <1>0, <1>1 DEF CpuOK, SpinPcs, Slots, HvfPcs
<1>3. CASE life.stop
  <2> DEFINE a == [at[c] EXCEPT !.pc = "dead"]
             s == slot[c]
  <2>1. at' = [at EXCEPT ![c].pc = "dead"] /\ slot' = slot /\ lmu' = lmu
    BY <1>3 DEF WaitPowerOn, Goes
  <2>2. a.pc = "dead" /\ a = [at[c] EXCEPT !.pc = "dead"] /\ slot' = [slot EXCEPT ![c] = slot[c]]
    BY <1>0, <2>1 DEF Ats
  <2> HIDE DEF a
  <2>3. CpuOK(c, a, slot[c], life)
    BY <1>0, <1>2, <1>3, <2>2
       DEF CpuOK, StopOK, StartPcs, OffPcs, RunPcs, StopPcs, SpinPcs
  <2> QED
    BY <1>0, <1>1, <1>2, <2>1, <2>2, <2>3, CpuSlotStep
<1>4. CASE ~life.stop /\ slot[c].start
  <2> DEFINE a == [at[c] EXCEPT !.pc = "init"]
             s == [slot[c] EXCEPT !.psci = "On", !.paused = FALSE, !.start = FALSE]
  <2>1. /\ at' = [at EXCEPT ![c].pc = "init"] /\ lmu' = lmu
        /\ slot' = [[slot EXCEPT ![c].psci = "Off", ![c].paused = FALSE]
                      EXCEPT ![c].start = FALSE, ![c].psci = "On"]
    BY <1>4 DEF WaitPowerOn, Goes
  <2>2. slot' = [slot EXCEPT ![c] = s]
    BY <1>0, <2>1 DEF Slots
  <2>3. s \in Slots /\ s.psci = "On" /\ s.paused = FALSE /\ s.start = FALSE
    BY <1>0 DEF Slots, PsciStates
  <2>4. a.pc = "init" /\ a = [at[c] EXCEPT !.pc = "init"]
    BY <1>0 DEF Ats
  <2> HIDE DEF a, s
  <2>5. CpuOK(c, a, s, life)
    BY <1>0, <1>1, <2>3, <2>4
       DEF CpuOK, StopOK, StartPcs, OffPcs, RunPcs, StopPcs, SpinPcs
  <2> QED
    BY <1>0, <1>1, <1>2, <2>1, <2>2, <2>3, <2>4, <2>5, CpuSlotStep
<1>5. CASE ~life.stop /\ ~slot[c].start
  <2> DEFINE a == [at[c] EXCEPT !.pc = "drowsyOff"]
             s == [slot[c] EXCEPT !.psci = "Off", !.paused = FALSE]
  <2>1. /\ at' = [at EXCEPT ![c].pc = "drowsyOff"] /\ lmu' = c
        /\ slot' = [slot EXCEPT ![c].psci = "Off", ![c].paused = FALSE]
    BY <1>5 DEF WaitPowerOn, Goes
  <2>2. slot' = [slot EXCEPT ![c] = s]
    BY <1>0, <2>1
  <2>3. s \in Slots /\ s.psci = "Off" /\ s.paused = FALSE /\ s.start = slot[c].start
    BY <1>0 DEF Slots, PsciStates
  <2>4. a.pc = "drowsyOff" /\ a = [at[c] EXCEPT !.pc = "drowsyOff"]
    BY <1>0 DEF Ats
  <2> HIDE DEF a, s
  <2>5. CpuOK(c, a, s, life)
    BY <1>0, <1>1, <1>5, <2>3, <2>4
       DEF CpuOK, StopOK, StartPcs, OffPcs, RunPcs, StopPcs, SpinPcs
  <2> QED
    BY <1>0, <1>1, <1>2, <2>1, <2>2, <2>3, <2>4, <2>5, CpuSlotStep
<1> QED
  BY <1>3, <1>4, <1>5

\* PSCI CPU_OFF, and the end of a vCPU's thread.
LEMMA PowerOffStep ==
  ASSUME HvfIInv, NEW c \in HCpus, PsciCpuOff(c) \/ VcpuDies(c) PROVE HvfIInv'
<1>0. /\ at \in [HThreads -> Ats] /\ slot \in [HCpus -> Slots] /\ life \in Lives
      /\ seen \in Seens /\ lmu \in HThreads \cup {Nobody} /\ hctl \in Hctls
      /\ CpuOK(c, at[c], slot[c], life)
      /\ c \in HThreads /\ at[c] \in Ats /\ slot[c] \in Slots
  BY Known
<1>1. CASE PsciCpuOff(c)
  <2> DEFINE to == LoopLeft(c)
             a == [at[c] EXCEPT !.pc = to]
             s == [slot[c] EXCEPT !.psci = "Off", !.paused = FALSE]
  <2>1. /\ at[c].pc = "run" /\ at' = Awake([at EXCEPT ![c].pc = to])
        /\ slot' = [slot EXCEPT ![c] = s] /\ UNCHANGED <<hctl, life, lmu>>
        /\ seen' = [seen EXCEPT !.offWhilePausing = @ \/ hctl.command = "pause"]
    BY <1>0, <1>1 DEF PsciCpuOff
  <2>2. seen' \in Seens /\ seen'.first = seen.first
    BY <1>0, <2>1 DEF Seens
  <2>3. to \in {"dead", "off"} /\ (to = "dead" => life.stop \/ c = 0) /\ c # 0 /\ to \in HvfPcs
    BY <1>1 DEF LoopLeft, PsciCpuOff, HvfPcs
  <2>4. s \in Slots /\ s.psci = "Off" /\ s.paused = FALSE /\ s.start = slot[c].start
    BY <1>0 DEF Slots, PsciStates
  <2> HIDE DEF to
  <2>5. a.pc = to /\ a = [at[c] EXCEPT !.pc = to]
    BY <1>0 DEF Ats
  <2>6. slot[c].paused = FALSE
    BY <1>0, <2>1 DEF CpuOK, SpinPcs, Slots
  <2> HIDE DEF a, s
  <2>7. CpuOK(c, a, s, life)
    <3>1. slot[c].psci = "On" /\ (life.started \/ life.stop)
          /\ (~life.stop => (slot[c].psci = "OnPending" <=> slot[c].start))
      BY <1>0, <2>1 DEF CpuOK, RunPcs
    <3>2. ~life.stop => ~s.start
      BY <3>1, <2>4
    <3> QED
      BY <2>3, <2>4, <2>5, <3>1, <3>2
         DEF CpuOK, StopOK, StartPcs, OffPcs, RunPcs, StopPcs, SpinPcs
  <2> QED
    BY <1>0, <2>1, <2>2, <2>3, <2>4, <2>5, <2>6, <2>7, CpuSlotStep
<1>2. CASE VcpuDies(c)
  <2> DEFINE a == [at[c] EXCEPT !.pc = "ended"]
             s == [slot[c] EXCEPT !.live = FALSE, !.psci = "Off"]
  <2>1. /\ at[c].pc = "dead" /\ at' = [at EXCEPT ![c].pc = "ended"]
        /\ slot' = [slot EXCEPT ![c] = s] /\ UNCHANGED <<hctl, life, lmu, seen>>
    BY <1>0, <1>2 DEF VcpuDies, Goes
  <2>2. s \in Slots /\ s.psci = "Off" /\ s.paused = slot[c].paused /\ "ended" \in HvfPcs
    BY <1>0 DEF Slots, PsciStates, HvfPcs
  <2>3. a.pc = "ended" /\ a = [at[c] EXCEPT !.pc = "ended"]
    BY <1>0 DEF Ats
  <2> HIDE DEF a, s
  <2>4. CpuOK(c, a, s, life)
    BY <1>0, <2>1, <2>2, <2>3
       DEF CpuOK, StopOK, StartPcs, OffPcs, RunPcs, StopPcs, SpinPcs
  <2> QED
    BY <1>0, <2>1, <2>2, <2>3, <2>4, CpuSlotStep
<1> QED
  BY <1>1, <1>2

\* PSCI CPU_ON: the target's slot exists, is off, and was not asked for before.
LEMMA CpuOnStep ==
  ASSUME HvfIInv, NEW c \in HCpus, NEW target \in HCpus, PsciCpuOn(c, target) PROVE HvfIInv'
<1>0. /\ at \in [HThreads -> Ats] /\ slot \in [HCpus -> Slots] /\ life \in Lives
      /\ seen \in Seens /\ lmu \in HThreads \cup {Nobody} /\ hctl \in Hctls
      /\ FlagsOK(life, seen) /\ Grows(life, life)
      /\ \A d \in HCpus : CpuOK(d, at[d], slot[d], life) /\ d \in HThreads
      /\ c \in HThreads /\ at[c] \in Ats /\ slot[c] \in Slots /\ slot[target] \in Slots
      /\ c \notin {Monitor, Input, Caller}
  BY Known, ThreadNames
<1> DEFINE a == [at[c] EXCEPT !.pc = "top"]
           s == [slot[target] EXCEPT !.start = TRUE, !.psci = "OnPending"]
<1>1. /\ at[c].pc = "run" /\ slot[target].psci = "Off" /\ UNCHANGED <<hctl, life, lmu>>
      /\ slot' = [slot EXCEPT ![target] = s]
      /\ at' = Awake([at EXCEPT ![c].pc = "top"])
      /\ seen' = [seen EXCEPT !.ons = @ + 1] /\ seen.ons < CpuOns
  BY <1>0 DEF PsciCpuOn
<1>2. seen' \in Seens /\ seen'.first = seen.first
  <2>1. seen.ons + 1 \in 0..CpuOns
    BY <1>0, <1>1, HvfRunnerAssumption DEF Seens
  <2> QED
    BY <1>0, <1>1, <2>1 DEF Seens
<1>3. s \in Slots /\ s.psci = "OnPending" /\ s.start = TRUE /\ s.paused = slot[target].paused
  BY <1>0 DEF Slots, PsciStates
<1>4. a \in Ats /\ a.pc = "top"
  BY <1>0 DEF Ats, HvfPcs
<1>5. MovesTo(c, a)
  <2>1. [at EXCEPT ![c].pc = "top"] = [at EXCEPT ![c] = a]
    BY <1>0
  <2> QED
    BY <1>1, <2>1 DEF MovesTo
<1> HIDE DEF a, s
<1>6. /\ slot' \in [HCpus -> Slots] /\ slot'[target] = s
      /\ \A d \in HCpus \ {target} : slot'[d] = slot[d]
  BY <1>0, <1>1, <1>3
<1>7. slot[c].psci = "On" /\ life.started /\ CpuOK(c, at[c], slot[c], life)
  <2>1. CpuOK(c, at[c], slot[c], life) /\ at[c].pc = "run"
    BY <1>0, <1>1
  <2>2. "run" \in RunPcs
    BY DEF RunPcs
  <2>3. slot[c].psci = "On"
    BY <2>1, <2>2 DEF CpuOK
  <2>4. life.started
    BY <2>1, <2>2 DEF CpuOK
  <2> QED
    BY <2>1, <2>3, <2>4
<1>8. target # c /\ at[target].pc # "create"
  BY <1>1, <1>7, NoneCreating DEF Creating
<1>9. CpuOK(target, at[target], s, life)
  <2>1. CpuOK(target, at[target], slot[target], life)
    BY <1>0
  <2> QED
    BY <1>1, <1>3, <1>8, <2>1 DEF CpuOK
<1>10. CpuOK(c, a, slot'[c], life')
  <2>1. slot'[c] = slot[c] /\ life' = life
    BY <1>1, <1>6, <1>8
  <2> QED
    BY <1>0, <1>1, <1>4, <1>7, <2>1
       DEF CpuOK, StopOK, StartPcs, OffPcs, RunPcs, StopPcs, SpinPcs, Slots
<1>11. Typed /\ Grows(life, life') /\ FlagsOK(life', seen')
  BY <1>0, <1>1, <1>2, <1>6 DEF Typed, FlagsOK
<1>12. \A d \in HCpus : slot'[d].paused = slot[d].paused
  BY <1>3, <1>6
<1>13. \A d \in HCpus \ {c} : CpuOK(d, at[d], slot'[d], life)
  BY <1>0, <1>6, <1>9
<1> QED
  BY <1>0, <1>1, <1>4, <1>5, <1>10, <1>11, <1>12, <1>13, PlainStep

\* handle_pause_if_requested: the slot is marked and counted.
LEMMA ParkStep == ASSUME HvfIInv, NEW c \in HCpus, Park(c) PROVE HvfIInv'
<1>0. /\ at \in [HThreads -> Ats] /\ slot \in [HCpus -> Slots] /\ life \in Lives
      /\ seen \in Seens /\ lmu \in HThreads \cup {Nobody} /\ hctl \in Hctls
      /\ FlagsOK(life, seen) /\ Grows(life, life)
      /\ \A d \in HCpus : CpuOK(d, at[d], slot[d], life) /\ d \in HThreads
      /\ c \in HThreads /\ at[c] \in Ats /\ slot[c] \in Slots
      /\ c \notin {Monitor, Input, Caller}
  BY Known, ThreadNames
<1> DEFINE a == [at[c] EXCEPT !.pc = "spin"]
           s == [slot[c] EXCEPT !.paused = TRUE]
<1>1. /\ at[c].pc = "park" /\ at' = [at EXCEPT ![c] = a]
      /\ slot' = [slot EXCEPT ![c] = s] /\ UNCHANGED <<lmu, seen>>
      /\ life' = [life EXCEPT !.paused = IF slot[c].paused THEN @ ELSE @ + 1]
      /\ hctl' = IF life'.paused >= Powered THEN [hctl EXCEPT !.state = "paused"] ELSE hctl
  BY <1>0 DEF Park, Goes
<1>2. s \in Slots /\ s.psci = slot[c].psci /\ s.start = slot[c].start /\ s.paused = TRUE
  BY <1>0 DEF Slots
<1>3. a \in Ats /\ a.pc = "spin" /\ a.reason = at[c].reason /\ a.ret = at[c].ret
  BY <1>0 DEF Ats, HvfPcs
<1> HIDE DEF a, s
<1>4. slot[c].paused = FALSE
  BY <1>0, <1>1 DEF CpuOK, SpinPcs, Slots
<1>5. slot' \in [HCpus -> Slots] /\ slot'[c] = s /\ \A d \in HCpus \ {c} : slot'[d] = slot[d]
  BY <1>0, <1>1, <1>2
<1>6. PausedSet' = PausedSet \cup {c} /\ c \notin PausedSet
  BY <1>2, <1>4, <1>5 DEF PausedSet
<1>7. /\ life.paused = Cardinality(PausedSet)
      /\ Cardinality(PausedSet') = Cardinality(PausedSet) + 1
      /\ Cardinality(PausedSet') \in 0..HvfCpus
  <2>1. PausedSet \subseteq HCpus /\ PausedSet' \subseteq HCpus
    BY DEF PausedSet
  <2> QED
    BY <1>6, <2>1, HSubset, FS_AddElement DEF HvfIInv, HvfPausedCount, PausedSet
<1>8. /\ life' \in Lives /\ life'.stop = life.stop /\ life'.resultSet = life.resultSet
      /\ life'.started = life.started /\ life'.created = life.created
      /\ life'.paused = life.paused + 1 /\ life'.reason = life.reason
  <2>1. life' = [life EXCEPT !.paused = life.paused + 1] /\ life.paused + 1 \in 0..HvfCpus
    BY <1>1, <1>4, <1>7
  <2> QED
    BY <1>0, <2>1 DEF Lives
<1>9. hctl' \in Hctls
  BY <1>0, <1>1 DEF Hctls
<1>10. Typed /\ Grows(life, life') /\ FlagsOK(life', seen')
  BY <1>0, <1>1, <1>5, <1>8, <1>9 DEF Typed, Grows, FlagsOK
<1>11. CpuOK(c, a, slot'[c], life')
  <2>1. CpuOK(c, at[c], slot[c], life)
    BY <1>0
  <2> QED
    BY <1>0, <1>1, <1>2, <1>3, <1>5, <1>8, <2>1
       DEF CpuOK, StopOK, StartPcs, OffPcs, RunPcs, StopPcs, SpinPcs
<1>12. HvfCore' /\ Creating' = Creating \ {c}
  BY <1>0, <1>1, <1>3, <1>5, <1>10, <1>11, MoveStep DEF HvfIInv, HvfCore, MovesTo
<1>13. CreatedBound'
  BY <1>0, <1>8, <1>12, BoundKept DEF HvfIInv
<1>14. HvfPausedCount'
  BY <1>7, <1>8 DEF HvfPausedCount, PausedSet
<1> QED
  BY <1>12, <1>13, <1>14 DEF HvfIInv, HvfCore

\* handle_pause_if_requested: the mark is taken off, and the count with it.
LEMMA UnparkStep == ASSUME HvfIInv, NEW c \in HCpus, Unpark(c) PROVE HvfIInv'
<1>0. /\ at \in [HThreads -> Ats] /\ slot \in [HCpus -> Slots] /\ life \in Lives
      /\ seen \in Seens /\ lmu \in HThreads \cup {Nobody} /\ hctl \in Hctls
      /\ FlagsOK(life, seen) /\ Grows(life, life)
      /\ \A d \in HCpus : CpuOK(d, at[d], slot[d], life) /\ d \in HThreads
      /\ c \in HThreads /\ at[c] \in Ats /\ slot[c] \in Slots
      /\ c \notin {Monitor, Input, Caller}
  BY Known, ThreadNames
<1> DEFINE a == [at[c] EXCEPT !.pc = "unparked"]
           s == [slot[c] EXCEPT !.paused = FALSE]
<1>1. /\ at[c].pc = "unpark" /\ at' = [at EXCEPT ![c] = a]
      /\ slot' = [slot EXCEPT ![c] = s] /\ UNCHANGED <<hctl, lmu, seen>>
      /\ life' = IF slot[c].paused /\ life.paused > 0 THEN [life EXCEPT !.paused = @ - 1] ELSE life
  BY <1>0 DEF Unpark, Goes
<1>2. s \in Slots /\ s.psci = slot[c].psci /\ s.start = slot[c].start /\ s.paused = FALSE
  BY <1>0 DEF Slots
<1>3. a \in Ats /\ a.pc = "unparked" /\ a.reason = at[c].reason /\ a.ret = at[c].ret
  BY <1>0 DEF Ats, HvfPcs
<1> HIDE DEF a, s
<1>4. slot[c].paused = TRUE
  BY <1>0, <1>1 DEF CpuOK, SpinPcs, Slots
<1>5. slot' \in [HCpus -> Slots] /\ slot'[c] = s /\ \A d \in HCpus \ {c} : slot'[d] = slot[d]
  BY <1>0, <1>1, <1>2
<1>6. PausedSet' = PausedSet \ {c} /\ c \in PausedSet
  BY <1>2, <1>4, <1>5 DEF PausedSet
<1>7. /\ life.paused = Cardinality(PausedSet)
      /\ Cardinality(PausedSet') = Cardinality(PausedSet) - 1
      /\ Cardinality(PausedSet') \in 0..HvfCpus
  <2>1. PausedSet \subseteq HCpus /\ PausedSet' \subseteq HCpus
    BY DEF PausedSet
  <2> QED
    BY <1>6, <2>1, HSubset, FS_RemoveElement DEF HvfIInv, HvfPausedCount, PausedSet
<1>8. /\ life' \in Lives /\ life'.stop = life.stop /\ life'.resultSet = life.resultSet
      /\ life'.started = life.started /\ life'.created = life.created
      /\ life'.paused = life.paused - 1 /\ life'.reason = life.reason
  <2>0. life.paused \in 0..HvfCpus /\ HvfCpus \in Nat
    BY <1>0, HvfRunnerAssumption DEF Lives
  <2>1. life.paused > 0 /\ life.paused - 1 \in 0..HvfCpus
    BY <1>7, <2>0
  <2>2. life' = [life EXCEPT !.paused = life.paused - 1]
    BY <1>1, <1>4, <2>1
  <2> QED
    BY <1>0, <2>1, <2>2 DEF Lives
<1>9. Typed /\ Grows(life, life') /\ FlagsOK(life', seen')
  BY <1>0, <1>1, <1>5, <1>8 DEF Typed, Grows, FlagsOK
<1>10. CpuOK(c, a, slot'[c], life')
  <2>1. CpuOK(c, at[c], slot[c], life)
    BY <1>0
  <2> QED
    BY <1>0, <1>1, <1>2, <1>3, <1>5, <1>8, <2>1
       DEF CpuOK, StopOK, StartPcs, OffPcs, RunPcs, StopPcs, SpinPcs
<1>11. HvfCore' /\ Creating' = Creating \ {c}
  BY <1>0, <1>1, <1>3, <1>5, <1>9, <1>10, MoveStep DEF HvfIInv, HvfCore, MovesTo
<1>12. CreatedBound'
  BY <1>0, <1>8, <1>11, BoundKept DEF HvfIInv
<1>13. HvfPausedCount'
  BY <1>7, <1>8 DEF HvfPausedCount, PausedSet
<1> QED
  BY <1>11, <1>12, <1>13 DEF HvfIInv, HvfCore

-----------------------------------------------------------------------------
(* The caller, the monitor, the input thread and the host.                  *)

\* The caller's pc changes, and done of the flags.
LEMMA CallerPcStep ==
  ASSUME HvfIInv, NEW to \in CallerPcs, at' = [at EXCEPT ![Caller].pc = to],
         life' \in {life, [life EXCEPT !.done = TRUE], [life EXCEPT !.thrown = TRUE],
                   [life EXCEPT !.thrown = TRUE, !.done = TRUE]}, seen' = seen, slot' = slot,
         hctl' \in Hctls, lmu' \in HThreads \cup {Nobody},
         to \in {"joinRest", "returned"} => \A c \in HCpus : at[c].pc \in {"ended", "never"},
         to = "returned" => \A h \in {Monitor, Input} : at[h].pc \in {"ended", "dead"}
  PROVE HvfIInv'
<1>0. /\ at \in [HThreads -> Ats] /\ slot \in [HCpus -> Slots] /\ life \in Lives
      /\ seen \in Seens /\ FlagsOK(life, seen) /\ Grows(life, life)
      /\ \A d \in HCpus : CpuOK(d, at[d], slot[d], life) /\ d \in HThreads
      /\ Caller \in HThreads /\ at[Caller] \in Ats
      /\ Caller \notin HCpus /\ Caller \notin {Monitor, Input}
  BY Known, ThreadNames
<1> DEFINE a == [at[Caller] EXCEPT !.pc = to]
<1>1. a \in Ats /\ a.pc = to
  BY <1>0 DEF Ats, HvfPcs, CallerPcs
<1>2. MovesTo(Caller, a)
  <2>1. at' = [at EXCEPT ![Caller] = a]
    BY <1>0
  <2> QED
    BY <2>1 DEF MovesTo
<1> HIDE DEF a
<1>3. /\ life' \in Lives /\ life'.stop = life.stop /\ life'.resultSet = life.resultSet
      /\ life'.started = life.started /\ life'.created = life.created
      /\ life'.paused = life.paused /\ life'.reason = life.reason /\ (life.thrown => life'.thrown)
  BY <1>0 DEF Lives
<1>4. Typed /\ Grows(life, life') /\ FlagsOK(life', seen')
  BY <1>0, <1>3 DEF Typed, Grows, FlagsOK
<1>5. to # "create" /\ at[Caller].pc \notin {"ended", "never"}
  BY DEF CallerPcs, HvfIInv, Threads
<1> QED
  BY <1>0, <1>1, <1>2, <1>3, <1>4, <1>5, PlainStep

\* A step that moves several threads and no counter.
LEMMA ThreadsStep ==
  ASSUME HvfIInv, at' \in [HThreads -> Ats], life' \in Lives, UNCHANGED <<hctl, slot, lmu, seen>>,
         FlagsOK(life', seen'), life'.created = life.created, life'.paused = life.paused,
         \A c \in HCpus : CpuOK(c, at'[c], slot[c], life'),
         HelperOK(at'[Monitor], life'), HelperOK(at'[Input], life'),
         at'[Caller].pc \in CallerPcs \ {"joinRest", "returned"},
         \A c \in HCpus : at'[c].pc = "create" => at[c].pc = "create"
  PROVE HvfIInv'
<1>0. /\ at \in [HThreads -> Ats] /\ slot \in [HCpus -> Slots] /\ life \in Lives
      /\ seen \in Seens /\ lmu \in HThreads \cup {Nobody} /\ hctl \in Hctls
  BY Known
<1>1. HvfTypeOK'
  BY <1>0 DEF HvfTypeOK, Ats, Slots, Lives, Hctls, Seens, Nobody
<1>2. Threads'
  BY DEF Threads
<1>3. Flags'
  BY DEF Flags, FlagsOK
<1>4. CreatedBound'
  <2>1. Creating' \subseteq Creating /\ Creating \subseteq HCpus /\ Creating' \subseteq HCpus
    BY DEF Creating
  <2>2. IsFiniteSet(Creating) /\ Cardinality(Creating) \in Nat /\ Cardinality(Creating') \in Nat
    BY <2>1, HSubset
  <2>3. Cardinality(Creating') <= Cardinality(Creating)
    BY <2>1, <2>2, FS_Subset
  <2> QED
    BY <1>0, <2>2, <2>3, HvfRunnerAssumption DEF HvfIInv, CreatedBound, Lives
<1>5. HvfPausedCount'
  BY DEF HvfIInv, HvfPausedCount
<1> QED
  BY <1>1, <1>2, <1>3, <1>4, <1>5 DEF HvfIInv

\* The caller starts the vCPUs.
LEMMA StartStep ==
  ASSUME HvfIInv, AwaitCreated, ~life.error, life.created = HvfCpus PROVE HvfIInv'
<1>0. /\ at \in [HThreads -> Ats] /\ life \in Lives /\ seen \in Seens /\ FlagsOK(life, seen)
      /\ \A d \in HCpus : CpuOK(d, at[d], slot[d], life) /\ d \in HThreads
      /\ Caller \in HThreads /\ at[Caller] \in Ats /\ Caller \notin HCpus /\ Caller \notin {Monitor, Input}
      /\ slot \in [HCpus -> Slots] /\ lmu \in HThreads \cup {Nobody} /\ hctl \in Hctls
  BY Known, ThreadNames
<1> DEFINE a == [at[Caller] EXCEPT !.pc = "spawnMonitor"]
<1>1. /\ life' = [life EXCEPT !.started = TRUE] /\ UNCHANGED <<hctl, slot, lmu, seen>>
      /\ at' = Awake([at EXCEPT ![Caller].pc = "spawnMonitor"])
  BY DEF AwaitCreated
<1>2. MovesTo(Caller, a)
  <2>1. [at EXCEPT ![Caller].pc = "spawnMonitor"] = [at EXCEPT ![Caller] = a]
    BY <1>0
  <2> QED
    BY <1>1, <2>1 DEF MovesTo
<1>3. a \in Ats /\ a.pc = "spawnMonitor"
  BY <1>0 DEF Ats, HvfPcs
<1> HIDE DEF a
<1>4. /\ life' \in Lives /\ life'.stop = life.stop /\ life'.resultSet = life.resultSet
      /\ life'.started /\ life'.created = life.created /\ life'.thrown = life.thrown
      /\ life'.paused = life.paused /\ life'.reason = life.reason
  BY <1>0, <1>1 DEF Lives
<1>5. Typed /\ Grows(life, life') /\ FlagsOK(life', seen')
  BY <1>0, <1>1, <1>4 DEF Typed, Grows, FlagsOK
<1>6. a.pc \in CallerPcs /\ at[Caller].pc \notin {"ended", "never"}
  BY <1>3 DEF CallerPcs, HvfIInv, Threads
<1> QED
  BY <1>0, <1>1, <1>2, <1>3, <1>4, <1>5, <1>6, PlainStep

\* A thread that no longer takes part: one that was never made, or whose objects
\* are gone.
LEMMA GoneCpu ==
  ASSUME NEW c, NEW a \in Ats, NEW s \in Slots, NEW l \in Lives, NEW m \in Lives, Grows(l, m),
         CpuOK(c, a, s, l), NEW place \in {"never", "undone"},
         place = "never" => a.pc = "create" /\ m.thrown, m.stop = l.stop
  PROVE [a EXCEPT !.pc = place] \in Ats /\ CpuOK(c, [a EXCEPT !.pc = place], s, m)
<1> DEFINE b == [a EXCEPT !.pc = place]
<1>1. b \in Ats /\ b.pc = place /\ b.reason = a.reason /\ b.ret = a.ret
  BY DEF Ats, HvfPcs
<1> HIDE DEF b
<1>2. CpuOK(c, b, s, m)
  BY <1>1 DEF CpuOK, StopOK, StartPcs, OffPcs, RunPcs, StopPcs, SpinPcs, Slots, Lives, Grows
<1> QED
  BY <1>1, <1>2 DEF b

\* Steps in which the caller makes a thread, fails to, or unwinds.
LEMMA SpawnFailsStep == ASSUME HvfIInv, NEW c \in HCpus, SpawnFails(c) PROVE HvfIInv'
<1>0. /\ at \in [HThreads -> Ats] /\ slot \in [HCpus -> Slots] /\ life \in Lives
      /\ FlagsOK(life, seen) /\ \A t \in HThreads : at[t] \in Ats
      /\ \A d \in HCpus : CpuOK(d, at[d], slot[d], life) /\ d \in HThreads /\ slot[d] \in Slots
  BY Known
<1>1. /\ \A d \in HCpus : d >= c => at[d].pc = "create"
      /\ life' = [life EXCEPT !.thrown = TRUE] /\ UNCHANGED <<hctl, slot, lmu, seen>>
      /\ at' = [t \in HThreads |-> CASE t = Caller -> [at[t] EXCEPT !.pc = "unwind"]
                                      [] t \in HCpus /\ t >= c -> [at[t] EXCEPT !.pc = "never"]
                                      [] OTHER -> at[t]]
  BY DEF SpawnFails
<1>2. /\ life' \in Lives /\ life'.stop = life.stop /\ life'.resultSet = life.resultSet
      /\ life'.started = life.started /\ life'.created = life.created
      /\ life'.paused = life.paused /\ life'.reason = life.reason /\ life'.thrown
  BY <1>0, <1>1 DEF Lives
<1>3. Grows(life, life') /\ FlagsOK(life', seen')
  BY <1>0, <1>1, <1>2 DEF Grows, FlagsOK
<1>4. ASSUME NEW d \in HCpus
      PROVE /\ at'[d] \in Ats /\ CpuOK(d, at'[d], slot[d], life')
            /\ at'[d].pc = "create" => at[d].pc = "create"
  <2>1. d # Caller /\ d \in HThreads /\ at[d] \in Ats
    BY <1>0, ThreadNames
  <2>2. CASE d >= c
    <3>1. at'[d] = [at[d] EXCEPT !.pc = "never"] /\ at[d].pc = "create"
      BY <1>1, <2>1, <2>2
    <3>2. CpuOK(d, at[d], slot[d], life) /\ slot[d] \in Slots
      BY <1>0
    <3>3. [at[d] EXCEPT !.pc = "never"] \in Ats /\ CpuOK(d, [at[d] EXCEPT !.pc = "never"], slot[d], life')
      BY <1>0, <1>2, <1>3, <2>1, <3>1, <3>2, GoneCpu
    <3> QED
      BY <3>1, <3>3
  <2>3. CASE ~(d >= c)
    <3>1. at'[d] = at[d]
      BY <1>1, <2>1, <2>3
    <3> QED
      BY <1>0, <1>2, <1>3, <2>1, <3>1, CpuKept
  <2> QED
    BY <2>2, <2>3
<1>5. ASSUME NEW h \in {Monitor, Input} PROVE at'[h] = at[h] /\ HelperOK(at'[h], life')
  <2>1. at'[h] = at[h]
    BY <1>1, ThreadNames
  <2> QED
    BY <1>2, <2>1 DEF HvfIInv, Threads, HelperOK, StopOK
<1>6. at'[Caller] \in Ats /\ at'[Caller].pc = "unwind"
  <2>1. at'[Caller] = [at[Caller] EXCEPT !.pc = "unwind"] /\ at[Caller] \in Ats
    BY <1>0, <1>1, ThreadNames
  <2> QED
    BY <2>1 DEF Ats, HvfPcs
<1>7. at' \in [HThreads -> Ats]
  <2>1. \A t \in HThreads : at'[t] \in Ats
    BY <1>0, <1>4, <1>5, <1>6 DEF HThreads
  <2> QED
    BY <1>1, <2>1
<1> QED
  BY <1>1, <1>2, <1>3, <1>4, <1>5, <1>6, <1>7, ThreadsStep DEF CallerPcs

LEMMA SpawnHelperStep ==
  ASSUME HvfIInv, NEW h \in {Monitor, Input}, NEW from, NEW to \in {"spawnInput", "join"},
         SpawnHelper(h, from, to)
  PROVE HvfIInv'
<1>0. /\ at \in [HThreads -> Ats] /\ life \in Lives /\ FlagsOK(life, seen) /\ Grows(life, life)
      /\ \A d \in HCpus : CpuOK(d, at[d], slot[d], life) /\ d \in HThreads
      /\ hctl \in Hctls /\ lmu \in HThreads \cup {Nobody}
      /\ \A t \in HThreads : at[t] \in Ats
  BY Known
<1>1. at[Caller].pc = from /\ UNCHANGED <<hctl, slot, lmu, seen>>
  BY DEF SpawnHelper
<1>2. CASE at' = [at EXCEPT ![Caller].pc = to, ![h].pc = "loop"] /\ UNCHANGED life
  <2>1. /\ [at[Caller] EXCEPT !.pc = to] \in Ats /\ [at[h] EXCEPT !.pc = "loop"] \in Ats
        /\ [at[h] EXCEPT !.pc = "loop"].ret = at[h].ret
    BY <1>0, ThreadNames DEF Ats, HvfPcs
  <2>2. /\ at' \in [HThreads -> Ats] /\ at'[Caller] = [at[Caller] EXCEPT !.pc = to]
        /\ at'[h] = [at[h] EXCEPT !.pc = "loop"]
        /\ \A t \in HThreads \ {Caller, h} : at'[t] = at[t]
    BY <1>0, <1>2, <2>1, ThreadNames
  <2>3. at'[Caller].pc = to
    BY <1>0, <2>2, ThreadNames DEF Ats
  <2>4. ASSUME NEW g \in {Monitor, Input} PROVE HelperOK(at'[g], life')
    <3>1. CASE g = h
      BY <1>0, <1>2, <2>1, <2>2, <3>1, ThreadNames DEF HvfIInv, Threads, HelperOK, StopOK, StopPcs, Ats
    <3>2. CASE g # h
      BY <1>2, <2>2, <3>2, ThreadNames DEF HvfIInv, Threads
    <3> QED
      BY <3>1, <3>2
  <2>5. \A d \in HCpus : at'[d] = at[d]
    BY <1>0, <2>2, ThreadNames
  <2> QED
    BY <1>0, <1>1, <1>2, <2>2, <2>3, <2>4, <2>5, ThreadsStep DEF CallerPcs
<1>3. CASE /\ at' = [at EXCEPT ![Caller].pc = "unwind"]
           /\ life' = [life EXCEPT !.thrown = TRUE, !.done = TRUE]
  BY <1>0, <1>1, <1>3, CallerPcStep DEF CallerPcs
<1> QED
  BY <1>2, <1>3 DEF SpawnHelper

\* A vCPU thread whose objects are gone may stop for good, or take all with it.
LEMMA UsesDestroyedStep == ASSUME HvfIInv, UsesDestroyed PROVE HvfIInv'
<1>0. /\ at \in [HThreads -> Ats] /\ slot \in [HCpus -> Slots] /\ life \in Lives
      /\ FlagsOK(life, seen) /\ Grows(life, life) /\ \A t \in HThreads : at[t] \in Ats
      /\ \A d \in HCpus : CpuOK(d, at[d], slot[d], life) /\ d \in HThreads /\ slot[d] \in Slots
  BY Known
<1>1. at[Caller].pc = "join" /\ UNCHANGED <<hctl, slot, life, lmu, seen>>
  BY DEF UsesDestroyed
<1>2. PICK gone : at' = [t \in HThreads |-> IF t \in gone THEN [at[t] EXCEPT !.pc = "undone"] ELSE at[t]]
  BY DEF UsesDestroyed
<1>3. \A t \in HThreads : at'[t] \in {at[t], [at[t] EXCEPT !.pc = "undone"]}
  BY <1>2
<1>4. ASSUME NEW t \in HThreads
      PROVE at'[t] \in Ats /\ at'[t].ret = at[t].ret /\ at'[t].pc \in {at[t].pc, "undone"}
  <2>1. [at[t] EXCEPT !.pc = "undone"] \in Ats /\ [at[t] EXCEPT !.pc = "undone"].pc = "undone"
        /\ [at[t] EXCEPT !.pc = "undone"].ret = at[t].ret
    BY <1>0 DEF Ats, HvfPcs
  <2> QED
    BY <1>0, <1>3, <2>1
<1>5. at' \in [HThreads -> Ats]
  BY <1>2, <1>4
<1>6. ASSUME NEW d \in HCpus PROVE CpuOK(d, at'[d], slot[d], life')
  <2>1. d \in HThreads /\ at[d] \in Ats /\ slot[d] \in Slots /\ CpuOK(d, at[d], slot[d], life) /\ life' = life
    BY <1>0, <1>1
  <2>2. CpuOK(d, [at[d] EXCEPT !.pc = "undone"], slot[d], life)
    BY <1>0, <2>1, GoneCpu
  <2> QED
    BY <1>3, <2>1, <2>2
<1>7. ASSUME NEW h \in {Monitor, Input} PROVE HelperOK(at'[h], life')
  <2>1. h \in HThreads /\ HelperOK(at[h], life)
    BY ThreadNames DEF HvfIInv, Threads
  <2>2. at'[h] = at[h] \/ (at'[h].pc = "undone" /\ at'[h].ret = at[h].ret)
    BY <1>0, <1>3, <1>4, <2>1 DEF Ats, HvfPcs
  <2> QED
    BY <1>1, <2>1, <2>2 DEF HelperOK, StopOK, StopPcs
<1>8. at'[Caller].pc \in {"join", "undone"}
  BY <1>1, <1>4, ThreadNames
<1>9. \A c \in HCpus : at'[c].pc = "create" => at[c].pc = "create"
  BY <1>0, <1>4
<1> QED
  BY <1>0, <1>1, <1>5, <1>6, <1>7, <1>8, <1>9, ThreadsStep DEF CallerPcs

\* The caller waits for the vCPUs to exist, joins them, then the helpers.
LEMMA CallerStep ==
  ASSUME HvfIInv, \/ SpawnVcpus \/ (\E c \in HCpus : SpawnFails(c)) \/ AwaitCreated \/ SpawnMonitor
                  \/ SpawnInput \/ Unwound \/ JoinVcpus \/ JoinRest
  PROVE HvfIInv'
<1>0. /\ hctl \in Hctls /\ lmu \in HThreads \cup {Nobody} /\ Caller \in HThreads
      /\ {"await", "unwind", "join", "drowsyAwait", "joinRest", "returned"} \subseteq CallerPcs
  BY Known, ThreadNames DEF CallerPcs
<1>1. CASE AwaitCreated
  <2>1. CASE ~life.error /\ life.created = HvfCpus
    BY <1>1, <2>1, StartStep
  <2>2. CASE life.error
    <3>1. /\ at' = [at EXCEPT ![Caller].pc = "unwind"] /\ life' = [life EXCEPT !.thrown = TRUE]
          /\ UNCHANGED <<hctl, slot, lmu, seen>>
      BY <1>1, <2>2 DEF AwaitCreated
    <3> QED
      BY <1>0, <3>1, CallerPcStep
  <2>3. CASE ~life.error /\ life.created # HvfCpus
    <3>1. /\ at' = [at EXCEPT ![Caller].pc = "drowsyAwait"] /\ lmu' = Caller
          /\ UNCHANGED <<hctl, slot, life, seen>>
      BY <1>1, <2>3 DEF AwaitCreated
    <3> QED
      BY <1>0, <3>1, CallerPcStep
  <2> QED
    BY <2>1, <2>2, <2>3
<1>2. CASE JoinVcpus
  <2>1. /\ at' = [at EXCEPT ![Caller].pc = "joinRest"] /\ life' = [life EXCEPT !.done = TRUE]
        /\ UNCHANGED <<hctl, slot, lmu, seen>> /\ \A c \in HCpus : at[c].pc \in {"ended", "never"}
    BY <1>2 DEF JoinVcpus, Goes
  <2> QED
    BY <1>0, <2>1, CallerPcStep
<1>3. CASE JoinRest
  <2>1. /\ at[Caller].pc = "joinRest" /\ at' = [at EXCEPT ![Caller].pc = "returned"]
        /\ UNCHANGED <<slot, life, lmu, seen>> /\ hctl' = [hctl EXCEPT !.state = "exited"]
    BY <1>3 DEF JoinRest, Goes
  <2>2. hctl' \in Hctls
    BY <1>0, <2>1 DEF Hctls
  <2>3. /\ \A c \in HCpus : at[c].pc \in {"ended", "never"}
        /\ \A h \in {Monitor, Input} : at[h].pc \in {"ended", "dead"}
    BY <1>3, <2>1 DEF HvfIInv, Flags, JoinRest
  <2> QED
    BY <1>0, <2>1, <2>2, <2>3, CallerPcStep
<1>4. CASE SpawnVcpus \/ Unwound
  <2>1. UNCHANGED <<hctl, slot, life, lmu, seen>>
        /\ (at' = [at EXCEPT ![Caller].pc = "await"] \/ at' = [at EXCEPT ![Caller].pc = "join"])
    BY <1>4 DEF SpawnVcpus, Unwound, Goes
  <2> QED
    BY <1>0, <2>1, CallerPcStep
<1>5. CASE \E c \in HCpus : SpawnFails(c)
  BY <1>5, SpawnFailsStep
<1>6. CASE SpawnMonitor \/ SpawnInput
  BY <1>6, SpawnHelperStep DEF SpawnMonitor, SpawnInput
<1> QED
  BY <1>1, <1>2, <1>3, <1>4, <1>5, <1>6

\* A helper's pc changes, and at most exits of slots with it.
LEMMA HelperPcStep ==
  ASSUME HvfIInv, NEW h \in {Monitor, Input}, NEW from \in {"loop", "pause"},
         NEW to \in {"loop", "pause", "ended"}, Goes(h, from, to), UNCHANGED <<hctl, life, lmu, seen>>,
         slot' = slot \/ slot' = ExitLive(slot)
  PROVE HvfIInv'
<1>0. /\ at \in [HThreads -> Ats] /\ slot \in [HCpus -> Slots] /\ life \in Lives
      /\ seen \in Seens /\ lmu \in HThreads \cup {Nobody} /\ hctl \in Hctls
      /\ FlagsOK(life, seen) /\ Grows(life, life)
      /\ \A d \in HCpus : CpuOK(d, at[d], slot[d], life) /\ d \in HThreads
      /\ h \in HThreads /\ at[h] \in Ats /\ h \notin HCpus /\ h # Caller
  BY Known, ThreadNames
<1> DEFINE a == [at[h] EXCEPT !.pc = to]
<1>1. a \in Ats /\ a.pc = to /\ a.ret = at[h].ret /\ at[h].pc = from
  BY <1>0 DEF Ats, HvfPcs, Goes
<1>2. MovesTo(h, a)
  <2>1. at' = [at EXCEPT ![h] = a]
    BY <1>0 DEF Goes
  <2> QED
    BY <2>1 DEF MovesTo
<1> HIDE DEF a
<1>3. slot' \in [HCpus -> Slots] /\ \A d \in HCpus : SameSlot(slot'[d], slot[d])
  BY <1>0, ExitLiveSlots
<1>4. \A d \in HCpus : CpuOK(d, at[d], slot'[d], life)
  BY <1>0, <1>3 DEF CpuOK, SameSlot
<1>5. HelperOK(a, life')
  BY <1>1 DEF HvfIInv, Threads, HelperOK, StopOK, StopPcs
<1>6. Typed /\ Grows(life, life') /\ FlagsOK(life', seen')
  BY <1>0, <1>3 DEF Typed
<1>7. \A d \in HCpus : slot'[d].paused = slot[d].paused
  BY <1>3 DEF SameSlot
<1> QED
  BY <1>0, <1>1, <1>2, <1>4, <1>5, <1>6, <1>7, PlainStep

\* The monitor's rounds and the input thread's.
LEMMA HelperStep ==
  ASSUME HvfIInv, MonitorLoop \/ MonitorPause \/ InputStep PROVE HvfIInv'
<1>0. /\ hctl \in Hctls /\ Monitor \in HThreads \ {Caller} /\ Input \in HThreads \ {Caller}
      /\ Monitor \notin HCpus /\ Input \notin HCpus
      /\ {"host-stop", "timeout"} \subseteq HvfReasons \ {"none"} /\ "ended" \in HvfPcs
  BY Known, ThreadNames DEF HvfReasons, HvfPcs
<1>1. CASE MonitorLoop
  <2>0. at[Monitor].pc = "loop" /\ UNCHANGED <<slot, life, lmu, seen>>
    BY <1>1 DEF MonitorLoop
  <2>1. CASE life.done
    BY <1>1, <2>0, <2>1, HelperPcStep DEF MonitorLoop
  <2>2. CASE ~life.done /\ hctl.command = "stop"
    <3>1. RequestStop(Monitor, "host-stop", "ended") /\ hctl' = [hctl EXCEPT !.state = "stopping"]
      BY <1>1, <2>2 DEF MonitorLoop
    <3>2. hctl' \in Hctls
      BY <1>0, <3>1 DEF Hctls
    <3> QED
      BY <1>0, <2>0, <3>1, <3>2, RequestStep
  <2>3. CASE ~life.done /\ hctl.command = "pause"
    BY <1>1, <2>0, <2>3, HelperPcStep DEF MonitorLoop
  <2>4. CASE ~life.done /\ hctl.command \notin {"stop", "pause"}
    <3>1. RequestStop(Monitor, "timeout", "ended") /\ hctl' = hctl
      BY <1>1, <2>4 DEF MonitorLoop, MonitorTimeout
    <3> QED
      BY <1>0, <2>0, <3>1, RequestStep
  <2> QED
    BY <2>1, <2>2, <2>3, <2>4
<1>2. CASE MonitorPause
  <2>0. at[Monitor].pc = "pause" /\ slot' = ExitLive(slot) /\ UNCHANGED <<hctl, life, lmu, seen>>
        /\ (Goes(Monitor, "pause", "loop") \/ RequestStop(Monitor, "timeout", "ended"))
    BY <1>2 DEF MonitorPause, MonitorTimeout
  <2>1. CASE Goes(Monitor, "pause", "loop")
    BY <2>0, <2>1, HelperPcStep
  <2>2. CASE RequestStop(Monitor, "timeout", "ended")
    BY <1>0, <2>0, <2>2, RequestStep
  <2> QED
    BY <2>0, <2>1, <2>2
<1>3. CASE InputStep
  <2>0. at[Input].pc = "loop" /\ UNCHANGED <<hctl, slot, life, lmu, seen>>
    BY <1>3 DEF InputStep
  <2>1. CASE life.done
    BY <1>3, <2>0, <2>1, HelperPcStep DEF InputStep
  <2>2. CASE ~life.done
    <3>1. RequestStop(Input, "host-stop", "ended")
      BY <1>3, <2>2 DEF InputStep
    <3> QED
      BY <1>0, <2>0, <3>1, RequestStep
  <2> QED
    BY <2>1, <2>2
<1> QED
  BY <1>1, <1>2, <1>3

\* The host's command word, and a step that changes nothing.
LEMMA HostStep ==
  ASSUME HvfIInv, (\E c \in {"run", "pause", "stop"} : HvfHost(c)) \/ UNCHANGED hvfVars
  PROVE HvfIInv'
<1>0. hctl \in Hctls
  BY Known
<1>1. UNCHANGED <<slot, at, life, lmu, seen>>
  BY DEF HvfHost, hvfVars
<1>2. hctl' \in Hctls
  <2>1. CASE UNCHANGED hvfVars
    BY <1>0, <2>1 DEF hvfVars
  <2>2. ASSUME NEW c \in {"run", "pause", "stop"}, HvfHost(c) PROVE hctl' \in Hctls
    <3>1. hctl.issued + 1 \in 0..HvfCommands
      BY <1>0, <2>2, HvfRunnerAssumption DEF Hctls, HvfHost
    <3> QED
      BY <1>0, <2>2, <3>1 DEF Hctls, HvfHost
  <2> QED
    BY <2>1, <2>2
<1>3. HvfTypeOK'
  BY <1>1, <1>2 DEF HvfIInv, HvfTypeOK, Hctls
<1>4. Threads' /\ Flags' /\ CreatedBound' /\ HvfPausedCount'
  BY <1>1 DEF HvfIInv, Threads, Flags, CreatedBound, Creating, HvfPausedCount
<1> QED
  BY <1>3, <1>4 DEF HvfIInv

-----------------------------------------------------------------------------
(* The theorems.                                                            *)

\* RunVm starts with no vCPU created and nothing requested.
LEMMA HvfInitial == HvfInit => HvfIInv
<1> SUFFICES ASSUME HvfInit PROVE HvfIInv
  OBVIOUS
<1>1. /\ \A c \in HCpus : at[c] = [pc |-> "create", reason |-> "none", ret |-> "ended"]
      /\ \A h \in {Monitor, Input} : at[h] = [pc |-> "dead", reason |-> "none", ret |-> "ended"]
      /\ at[Caller] = [pc |-> "spawn", reason |-> "none", ret |-> "ended"]
      /\ at = [t \in HThreads |-> at[t]]
  BY ThreadNames DEF HvfInit
<1>2. at \in [HThreads -> Ats]
  <2>1. \A t \in HThreads : at[t] \in Ats
    BY <1>1 DEF HThreads, Ats, HvfPcs, HvfReasons
  <2> QED
    BY <1>1, <2>1
<1>3. /\ \A c \in HCpus : slot[c] = [psci |-> "Off", start |-> FALSE, paused |-> FALSE,
                                      live |-> FALSE, exit |-> FALSE]
      /\ slot \in [HCpus -> Slots]
  BY DEF HvfInit, Slots, PsciStates
<1>4. /\ life.created = 0 /\ ~life.started /\ life.paused = 0 /\ ~life.stop /\ ~life.resultSet
      /\ life.reason = "none" /\ ~life.thrown /\ life \in Lives
  BY HvfRunnerAssumption DEF HvfInit, Lives, HvfReasons
<1>5. hctl \in Hctls /\ seen \in Seens /\ seen.first = "none" /\ lmu = Nobody
  BY HvfRunnerAssumption DEF HvfInit, Hctls, Seens, HvfReasons
<1>6. HvfTypeOK
  BY <1>2, <1>3, <1>4, <1>5 DEF HvfTypeOK, Ats, Slots, Lives, Hctls, Seens, Nobody
<1>7. ASSUME NEW c \in HCpus PROVE CpuOK(c, at[c], slot[c], life)
  <2>1. /\ at[c].pc = "create" /\ slot[c].psci = "Off" /\ slot[c].start = FALSE
        /\ slot[c].paused = FALSE
    BY <1>1, <1>3
  <2> QED
    BY <2>1, <1>4 DEF CpuOK, StopOK, StartPcs, OffPcs, RunPcs, StopPcs, SpinPcs
<1>8. ASSUME NEW h \in {Monitor, Input} PROVE HelperOK(at[h], life)
  <2>1. at[h].pc = "dead" /\ at[h].ret = "ended"
    BY <1>1
  <2> QED
    BY <2>1 DEF HelperOK, StopOK, StopPcs
<1>9. at[Caller].pc = "spawn"
  BY <1>1
<1>10. Threads /\ Flags
  BY <1>4, <1>5, <1>7, <1>8, <1>9 DEF Threads, Flags, CallerPcs
<1>11. CreatedBound
  <2>1. Creating = HCpus
    BY <1>1 DEF Creating
  <2> QED
    BY <1>4, <2>1, HCpusFinite, HvfRunnerAssumption DEF CreatedBound
<1>12. HvfPausedCount
  <2>1. {c \in HCpus : slot[c].paused} = {}
    BY <1>3
  <2> QED
    BY <1>4, <2>1, FS_EmptySet DEF HvfPausedCount
<1> QED
  BY <1>6, <1>10, <1>11, <1>12 DEF HvfIInv

\* Every step of every thread keeps the invariant.
LEMMA HvfInductive == HvfIInv /\ [HvfNext]_hvfVars => HvfIInv'
<1> SUFFICES ASSUME HvfIInv, [HvfNext]_hvfVars PROVE HvfIInv'
  OBVIOUS
<1>0. HCpus \subseteq HThreads /\ {Monitor, Input, Caller} \subseteq HThreads
  BY ThreadNames
<1>1. ASSUME NEW t \in HThreads, CallRuns(t) PROVE HvfIInv'
  BY <1>1, StopClaimStep, StopNotifyStep, WakeAllStep, SleepsStep DEF CallRuns
<1>2. ASSUME NEW c \in HCpus,
             HvfVcpuRuns(c) \/ RunRound(c) \/ RunStops(c) \/ PsciCpuOff(c) \/ VcpuThrows(c)
      PROVE HvfIInv'
  <2>1. CASE VcpuCommand(c)
    BY <2>1, LoopStep, VcpuStopsStep
  <2> QED
    BY <1>0, <1>1, <1>2, <2>1, CreateStep, LoopStep, WaitPowerOnStep, ParkStep, UnparkStep,
       VcpuStopsStep, PowerOffStep DEF HvfVcpuRuns
<1>3. ASSUME NEW c \in HCpus, NEW target \in HCpus, PsciCpuOn(c, target) PROVE HvfIInv'
  BY <1>3, CpuOnStep
<1>4. CASE CallerRuns \/ MonitorRuns \/ CallRuns(Input) \/ InputStep
  BY <1>0, <1>1, <1>4, CallerStep, HelperStep DEF CallerRuns, MonitorRuns
<1>5. CASE (\E c \in {"run", "pause", "stop"} : HvfHost(c)) \/ UNCHANGED hvfVars
  BY <1>5, HostStep
<1>6. CASE UsesDestroyed
  BY <1>6, UsesDestroyedStep
<1> QED
  BY <1>2, <1>3, <1>4, <1>5, <1>6 DEF HvfNext

\* What the run checks follows from the invariant.
LEMMA HvfIInvSafe == HvfIInv => HvfSafe
<1> SUFFICES ASSUME HvfIInv PROVE HvfSafe
  OBVIOUS
<1>0. /\ \A d \in HCpus : CpuOK(d, at[d], slot[d], life)
      /\ FlagsOK(life, seen) /\ 0 \in HCpus
  BY Known, ThreadNames
<1>1. PsciSound
  BY <1>0 DEF CpuOK, RunPcs, PsciSound
<1>2. HvfNoThreadOutlives
  BY DEF HvfIInv, Flags, HvfNoThreadOutlives, HvfReturned
<1>3. HvfFirstReason
  <2> SUFFICES ASSUME HvfReturned, ~life.thrown PROVE life.reason = seen.first /\ life.reason # "none"
    BY DEF HvfFirstReason
  <2>1. CpuOK(0, at[0], slot[0], life) /\ at[0].pc \in {"ended", "never"}
    BY <1>0, <1>2 DEF HvfNoThreadOutlives
  <2>2. life.stop
    BY <2>1 DEF CpuOK
  <2> QED
    BY <1>0, <2>2 DEF FlagsOK
<1> QED
  BY <1>1, <1>2, <1>3 DEF HvfIInv, HvfSafe

\* With any number of vCPUs from 1 to 64: paused_vcpus counts the slots marked
\* paused, the PSCI states agree with where the vCPUs are and with the pending
\* CPU_ON requests, RunVm reports the reason of the first request_stop, and it
\* returns only when every vCPU thread has ended.
THEOREM HvfSafeHolds == HvfSpec => []HvfSafe
<1>1. HvfInit => HvfIInv
  BY HvfInitial
<1>2. HvfIInv /\ [HvfNext]_hvfVars => HvfIInv'
  BY HvfInductive
<1>3. HvfIInv => HvfSafe
  BY HvfIInvSafe
<1> QED
  BY <1>1, <1>2, <1>3, PTL DEF HvfSpec

\* The parked vCPUs are powered, so when their count reaches the number of
\* powered vCPUs they are the same vCPUs: in handle_pause_if_requested comparing
\* the two counts is enough.
LEMMA ParkPublishes ==
  ASSUME HvfIInv, HvfIInv', NEW c \in HCpus, Park(c), life'.paused >= Powered
  PROVE \A d \in HCpus : slot'[d].psci # "Off" => slot'[d].paused
<1> DEFINE On == {d \in HCpus : slot[d].psci # "Off"}
<1>0. slot \in [HCpus -> Slots] /\ slot' = [slot EXCEPT ![c].paused = TRUE]
  BY Known DEF Park
<1>1. \A d \in HCpus : slot'[d].psci = slot[d].psci
  BY <1>0 DEF Slots
<1>2. PausedSet' \subseteq On
  <2> SUFFICES ASSUME NEW d \in HCpus, slot'[d].paused PROVE slot[d].psci # "Off"
    BY DEF PausedSet
  <2>1. CpuOK(d, at'[d], slot'[d], life')
    BY DEF HvfIInv, Threads
  <2>2. slot'[d].psci = "On"
    BY <2>1 DEF CpuOK, SpinPcs, RunPcs
  <2> QED
    BY <1>1, <2>2
<1>3. IsFiniteSet(On) /\ Cardinality(On) \in Nat /\ Cardinality(PausedSet') \in Nat
  BY HSubset, On \subseteq HCpus, PausedSet' \subseteq HCpus, HvfRunnerAssumption DEF PausedSet
<1>4. Cardinality(PausedSet') >= Cardinality(On)
  BY DEF HvfIInv, HvfPausedCount, PausedSet, Powered
<1>5. PausedSet' = On
  BY <1>2, <1>3, <1>4, FS_Subset
<1> QED
  BY <1>1, <1>5 DEF PausedSet

\* The state word becomes paused only in handle_pause_if_requested, and only when
\* every vCPU the guest has powered on is marked paused.
THEOREM PausedAllParkedHolds == HvfSpec => PausedAllParked
<1> DEFINE Step == hctl.state # "paused" /\ hctl'.state = "paused"
                     => \A c \in HCpus : slot'[c].psci # "Off" => slot'[c].paused
<1>1. HvfIInv /\ HvfIInv' /\ [HvfNext]_hvfVars => [Step]_hvfVars
  <2> SUFFICES ASSUME HvfIInv, HvfIInv', HvfNext, hctl.state # "paused", hctl'.state = "paused"
               PROVE \A c \in HCpus : slot'[c].psci # "Off" => slot'[c].paused
    OBVIOUS
  <2>0. hctl \in Hctls
    BY Known
  <2>1. ASSUME NEW v \in {"running", "stopping", "exited"}, hctl' = [hctl EXCEPT !.state = v]
        PROVE FALSE
    BY <2>0, <2>1 DEF Hctls
  <2>2. hctl' # hctl
    OBVIOUS
  <2>3. ASSUME NEW t, CallRuns(t) PROVE FALSE
    BY <2>2, <2>3 DEF CallRuns, StopClaim, StopNotify, wake_all_vcpus, Sleeps
  <2>4. ASSUME NEW c \in {"run", "pause", "stop"}, HvfHost(c) PROVE FALSE
    <3>1. hctl'.state = hctl.state
      BY <2>0, <2>4 DEF HvfHost, Hctls
    <3> QED
      BY <3>1
  <2>5. ~CallerRuns /\ ~MonitorRuns /\ ~InputStep
    BY <2>1, <2>2, <2>3
       DEF CallerRuns, SpawnVcpus, SpawnFails, AwaitCreated, SpawnMonitor, SpawnInput, SpawnHelper,
           Unwound, JoinVcpus, JoinRest, MonitorRuns, MonitorLoop, MonitorPause, InputStep
  <2>6. ASSUME NEW c \in HCpus, NEW target \in HCpus, PsciCpuOn(c, target) PROVE FALSE
    BY <2>2, <2>6 DEF PsciCpuOn
  <2>7. PICK c \in HCpus :
          HvfVcpuRuns(c) \/ RunRound(c) \/ RunStops(c) \/ PsciCpuOff(c) \/ VcpuThrows(c)
    <3>1. ~UsesDestroyed
      BY <2>2 DEF UsesDestroyed
    <3> QED
      BY <2>3, <2>4, <2>5, <2>6, <3>1 DEF HvfNext
  <2>8. Park(c)
    BY <2>1, <2>2, <2>3, <2>7
       DEF HvfVcpuRuns, RunRound, RunStops, PsciCpuOff, VcpuThrows, CreateVcpu, WaitStart, WaitPowerOn,
           InitVcpu, VcpuTop, VcpuCommand, Spin, Unpark, Unparked, SetRunning, RunForced,
           VcpuError, VcpuDies
  <2>9. life'.paused >= Powered
    BY <2>2, <2>8 DEF Park
  <2> QED
    BY <2>8, <2>9, ParkPublishes
<1> QED
  BY <1>1, HvfInitial, HvfInductive, PTL DEF HvfSpec, PausedAllParked

-----------------------------------------------------------------------------
(***************************************************************************)
(* Proofs about automatic networking, for any finite number of VMs, any     *)
(* assignment of interfaces, subnets and ports to them, and any number of   *)
(* failing commands.                                                        *)
(*                                                                         *)
(* NetworkSafe is not inductive.  The heart of it is RulesCounted: iptables *)
(* holds each rule at least as often as there are VMs that count it among   *)
(* their created rules, and exactly as often while no cleanup command has   *)
(* failed.  One VM's -D therefore leaves the copy of another.               *)
(***************************************************************************)

\* The VMs that have installed a rule and not yet deleted it.
Holders(r) == {v \in VMs : \E i \in 1..created[v] : RuleOf(v, i) = r}

RulesCounted ==
  \A r \in Rules : /\ Cardinality(Holders(r)) <= rules[r]
                   /\ leaks = 0 => rules[r] = Cardinality(Holders(r))

\* What setup and cleanup have done at each of their places.
Stage(v) ==
  /\ pc[v] \in {"idle", "tuntap", "addr", "linkup"} => created[v] = 0
  /\ pc[v] = "rules" => created[v] \in 0..2
  /\ pc[v] \in {"listen", "running"} => created[v] = 3
  /\ pc[v] \notin {"listen", "running"} => bound[v] = <<>>
  /\ pc[v] = "running" => Len(bound[v]) = Len(Forwards[v])
  /\ pc[v] \notin {"listen", "running", "closing", "aborting"} => conns[v] = NoConns

Stages == \A v \in VMs : Stage(v)

\* An interface whose name one VM has is as that VM's setup left it.
OwnLink ==
  \A v \in VMs : OwnTap(v) =>
    /\ pc[v] = "addr" => links[TapOf[v]] = [addrs |-> {}, up |-> FALSE]
    /\ pc[v] = "linkup" => links[TapOf[v]] = [addrs |-> {OctetOf[v]}, up |-> FALSE]
    /\ pc[v] \in {"rules", "listen", "running"} =>
         links[TapOf[v]] = [addrs |-> {OctetOf[v]}, up |-> TRUE]

\* An interface exists only while a VM is there to delete it.
LinksOwned ==
  leaks = 0 => \A t \in Taps : links[t] # NoLink => \E v \in VMs : TapOf[v] = t /\ pc[v] # "idle"

\* No host port has two listeners.
PortsDisjoint == \A v, w \in VMs : v # w => Listening(v) \cap Listening(w) = {}

NetIInv == TypeOK /\ Stages /\ RulesCounted /\ OwnLink /\ LinksOwned /\ PortsDisjoint

-----------------------------------------------------------------------------
\* A VM's three rules are different rules.
LEMMA RuleIs ==
  ASSUME NEW v \in VMs
  PROVE /\ \A i \in 1..3 : RuleOf(v, i) \in Rules
        /\ \A i, j \in 1..3 : RuleOf(v, i) = RuleOf(v, j) => i = j
<1>1. TapOf[v] \in Taps /\ OctetOf[v] \in Octets
  BY NetAssumption
<1>2. /\ RuleOf(v, 1) = <<"nat", OctetOf[v]>> /\ RuleOf(v, 2) = <<"in", TapOf[v]>>
      /\ RuleOf(v, 3) = <<"out", TapOf[v]>>
  BY DEF RuleOf
<1>3. RuleOf(v, 1) \in Rules /\ RuleOf(v, 2) \in Rules /\ RuleOf(v, 3) \in Rules
  BY <1>1, <1>2 DEF Rules
<1>4. /\ RuleOf(v, 1) # RuleOf(v, 2) /\ RuleOf(v, 2) # RuleOf(v, 3)
      /\ RuleOf(v, 1) # RuleOf(v, 3)
  BY <1>2
<1>5. 1..3 = {1, 2, 3}
  OBVIOUS
<1> QED
  BY <1>3, <1>4, <1>5

\* The holders of a rule can be counted.
LEMMA HoldersFinite == \A r : IsFiniteSet(Holders(r)) /\ Cardinality(Holders(r)) \in Nat
<1> SUFFICES ASSUME NEW r PROVE IsFiniteSet(Holders(r)) /\ Cardinality(Holders(r)) \in Nat
  OBVIOUS
<1>1. Holders(r) \in SUBSET VMs
  BY DEF Holders
<1> QED
  BY <1>1, NetAssumption, FS_Subset, FS_CardinalityType

Created == created \in [VMs -> 0..3]

\* A VM that installs its next rule becomes a holder of that rule only.
LEMMA HoldersAdd ==
  ASSUME Created, NEW v \in VMs, created[v] \in 0..2,
         created' = [created EXCEPT ![v] = created[v] + 1],
         NEW q, q = RuleOf(v, created[v] + 1)
  PROVE /\ v \notin Holders(q) /\ Holders(q)' = Holders(q) \cup {v}
        /\ \A r : r # q => Holders(r)' = Holders(r)
<1>0. PICK n : n = created[v]
  OBVIOUS
<1>1. n \in 0..2 /\ created'[v] = n + 1 /\ \A w \in VMs : w # v => created'[w] = created[w]
  BY <1>0 DEF Created
<1>2. \A i : i \in 1..(n + 1) <=> i \in 1..n \/ i = n + 1
  BY <1>1
<1>3. n + 1 \in 1..3 /\ \A i \in 1..n : i \in 1..3 /\ i # n + 1
  BY <1>1
<1>4. q = RuleOf(v, n + 1) /\ \A i \in 1..n : RuleOf(v, i) # q
  BY <1>0, <1>3, RuleIs
<1>5. v \notin Holders(q)
  BY <1>0, <1>1, <1>4 DEF Holders
<1>6. \A r : Holders(r)' = {w \in VMs : \E i \in 1..created'[w] : RuleOf(w, i) = r}
  BY DEF Holders, RuleOf
<1>7. ASSUME NEW r, NEW w \in VMs
      PROVE w \in Holders(r)' <=> w \in Holders(r) \/ (w = v /\ r = q)
  <2>1. CASE w # v
    BY <1>1, <1>6, <2>1 DEF Holders
  <2>2. CASE w = v
    <3>1. w \in Holders(r)' <=> \E i \in 1..(n + 1) : RuleOf(v, i) = r
      BY <1>1, <1>6, <2>2
    <3>2. w \in Holders(r) <=> \E i \in 1..n : RuleOf(v, i) = r
      BY <1>0, <2>2 DEF Holders
    <3> QED
      BY <1>2, <1>4, <2>2, <3>1, <3>2
  <2> QED
    BY <2>1, <2>2
<1>8. \A r : Holders(r) \subseteq VMs /\ Holders(r)' \subseteq VMs
  BY <1>6 DEF Holders
<1>9. Holders(q)' = Holders(q) \cup {v}
  BY <1>7, <1>8
<1>10. \A r : r # q => Holders(r)' = Holders(r)
  BY <1>7, <1>8
<1> QED
  BY <1>5, <1>9, <1>10

\* A VM that gives up its last rule is a holder of that rule no more.
LEMMA HoldersDrop ==
  ASSUME Created, NEW v \in VMs, created[v] > 0,
         created' = [created EXCEPT ![v] = created[v] - 1],
         NEW q, q = RuleOf(v, created[v])
  PROVE /\ v \in Holders(q) /\ q \in Rules /\ Holders(q)' = Holders(q) \ {v}
        /\ \A r : r # q => Holders(r)' = Holders(r)
<1>0. PICK n : n = created[v]
  OBVIOUS
<1>1. n \in 1..3 /\ created'[v] = n - 1 /\ \A w \in VMs : w # v => created'[w] = created[w]
  BY <1>0 DEF Created
<1>2. \A i : i \in 1..n <=> i \in 1..(n - 1) \/ i = n
  BY <1>1
<1>3. \A i \in 1..(n - 1) : i \in 1..3 /\ i # n
  BY <1>1
<1>4. q = RuleOf(v, n) /\ q \in Rules /\ \A i \in 1..(n - 1) : RuleOf(v, i) # q
  BY <1>0, <1>1, <1>3, RuleIs
<1>5. v \in Holders(q)
  BY <1>0, <1>1, <1>2, <1>4 DEF Holders
<1>6. \A r : Holders(r)' = {w \in VMs : \E i \in 1..created'[w] : RuleOf(w, i) = r}
  BY DEF Holders, RuleOf
<1>7. ASSUME NEW r, NEW w \in VMs
      PROVE w \in Holders(r)' <=> w \in Holders(r) /\ ~(w = v /\ r = q)
  <2>1. CASE w # v
    BY <1>1, <1>6, <2>1 DEF Holders
  <2>2. CASE w = v
    <3>1. w \in Holders(r)' <=> \E i \in 1..(n - 1) : RuleOf(v, i) = r
      BY <1>1, <1>6, <2>2
    <3>2. w \in Holders(r) <=> \E i \in 1..n : RuleOf(v, i) = r
      BY <1>0, <2>2 DEF Holders
    <3> QED
      BY <1>2, <1>4, <2>2, <3>1, <3>2
  <2> QED
    BY <2>1, <2>2
<1>8. \A r : Holders(r) \subseteq VMs /\ Holders(r)' \subseteq VMs
  BY <1>6 DEF Holders
<1>9. Holders(q)' = Holders(q) \ {v}
  BY <1>7, <1>8
<1>10. \A r : r # q => Holders(r)' = Holders(r)
  BY <1>7, <1>8
<1> QED
  BY <1>4, <1>5, <1>9, <1>10

-----------------------------------------------------------------------------
(* The actions, conjunct by conjunct.                                       *)

ProxyStep(v) ==
  \E p \in HostPorts : Connect(v, p) \/ Establish(v, p) \/ UpstreamFails(v, p) \/ PeerCloses(v, p)

VmStep(v) == Start(v) \/ SetupStep(v) \/ Cleanup(v) \/ UnwindStep(v) \/ ProxyStep(v)

\* iptables: one VM's rule comes or goes, the copies of the others stay.
LEMMA RulesStep ==
  ASSUME NetIInv, NEW v \in VMs, VmStep(v)
  PROVE RulesCounted' /\ rules' \in [Rules -> Nat]
<1>1. /\ RulesCounted /\ Created /\ rules \in [Rules -> Nat] /\ leaks \in Nat
      /\ created[v] \in 0..3
  BY NetAssumption DEF NetIInv, TypeOK, Created
<1>2. ASSUME UNCHANGED <<rules, created>>, leaks' = leaks \/ leaks' = leaks + 1
      PROVE RulesCounted' /\ rules' \in [Rules -> Nat]
  <2>1. \A r : Holders(r)' = Holders(r)
    BY <1>2 DEF Holders, RuleOf
  <2>2. leaks' = 0 => leaks = 0
    BY <1>1, <1>2
  <2> QED
    BY <1>1, <1>2, <2>1, <2>2 DEF RulesCounted
<1>3. CASE AddRule(v)
  <2>0. PICK q : q = RuleOf(v, created[v] + 1)
    OBVIOUS
  <2>1. /\ created[v] \in 0..2 /\ created' = [created EXCEPT ![v] = created[v] + 1]
        /\ rules' = [rules EXCEPT ![q] = rules[q] + 1] /\ leaks' = leaks
    BY <1>3, <2>0 DEF AddRule, Goto, NetIInv, Stages, Stage
  <2>2. created[v] + 1 \in 1..3 /\ q \in Rules
    <3>1. created[v] + 1 \in 1..3
      BY <2>1
    <3> QED
      BY <2>0, <3>1, RuleIs
  <2>3. /\ v \notin Holders(q) /\ Holders(q)' = Holders(q) \cup {v}
        /\ \A r : r # q => Holders(r)' = Holders(r)
    BY <1>1, <2>0, <2>1, HoldersAdd
  <2>4. Cardinality(Holders(q)') = Cardinality(Holders(q)) + 1 /\ Cardinality(Holders(q)) \in Nat
    BY <2>3, HoldersFinite, FS_AddElement
  <2>5. rules' \in [Rules -> Nat] /\ rules'[q] = rules[q] + 1 /\ rules[q] \in Nat
        /\ \A r \in Rules : r # q => rules'[r] = rules[r]
    BY <1>1, <2>1, <2>2
  <2>6. ASSUME NEW r \in Rules
        PROVE /\ Cardinality(Holders(r)') <= rules'[r]
              /\ leaks' = 0 => rules'[r] = Cardinality(Holders(r)')
    <3>1. CASE r = q
      <4>1. /\ Cardinality(Holders(q)) <= rules[q]
            /\ leaks = 0 => rules[q] = Cardinality(Holders(q))
        BY <1>1, <2>2 DEF RulesCounted
      <4> QED
        BY <2>1, <2>4, <2>5, <3>1, <4>1
    <3>2. CASE r # q
      BY <1>1, <2>1, <2>3, <2>5, <3>2 DEF RulesCounted
    <3> QED
      BY <3>1, <3>2
  <2> QED
    BY <2>5, <2>6 DEF RulesCounted
<1>4. CASE DeleteRule(v)
  <2>0. PICK q : q = RuleOf(v, created[v])
    OBVIOUS
  <2>1. /\ created[v] > 0 /\ created' = [created EXCEPT ![v] = created[v] - 1]
        /\ \/ rules' = [rules EXCEPT ![q] = rules[q] - 1] /\ leaks' = leaks
           \/ rules' = rules /\ leaks' = leaks + 1
    BY <1>4, <2>0 DEF DeleteRule
  <2>2. /\ v \in Holders(q) /\ q \in Rules /\ Holders(q)' = Holders(q) \ {v}
        /\ \A r : r # q => Holders(r)' = Holders(r)
    BY <1>1, <2>0, <2>1, HoldersDrop
  <2>3. /\ Cardinality(Holders(q)') = Cardinality(Holders(q)) - 1
        /\ Cardinality(Holders(q)) \in Nat /\ Cardinality(Holders(q)) # 0
    BY <2>2, HoldersFinite, FS_RemoveElement, FS_EmptySet
  <2>4. /\ Cardinality(Holders(q)) <= rules[q] /\ rules[q] \in Nat
        /\ leaks = 0 => rules[q] = Cardinality(Holders(q))
    BY <1>1, <2>2 DEF RulesCounted
  <2>5. /\ rules' \in [Rules -> Nat] /\ \A r \in Rules : r # q => rules'[r] = rules[r]
        /\ rules'[q] = rules[q] - 1 \/ (rules'[q] = rules[q] /\ leaks' # 0)
        /\ leaks' = 0 => leaks = 0
    <3>1. rules[q] - 1 \in Nat
      BY <2>3, <2>4
    <3> QED
      BY <1>1, <2>1, <2>2, <3>1
  <2>6. ASSUME NEW r \in Rules
        PROVE /\ Cardinality(Holders(r)') <= rules'[r]
              /\ leaks' = 0 => rules'[r] = Cardinality(Holders(r)')
    <3>1. CASE r = q
      BY <2>3, <2>4, <2>5, <3>1
    <3>2. CASE r # q
      BY <1>1, <2>2, <2>5, <3>2 DEF RulesCounted
    <3> QED
      BY <3>1, <3>2
  <2> QED
    BY <2>5, <2>6 DEF RulesCounted
<1>5. CASE Start(v)
  <2>1. created' = [created EXCEPT ![v] = 0] /\ created[v] = 0 /\ rules' = rules /\ leaks' = leaks
    BY <1>5 DEF Start, Goto, NetIInv, Stages, Stage
  <2>2. created' = created
    BY <1>1, <2>1 DEF Created
  <2> QED
    BY <1>2, <2>1, <2>2
<1>6. CASE TunTapAdd(v) \/ AddrAdd(v) \/ LinkUp(v) \/ CommandFails(v) \/ Listen(v) \/ ListenFails(v)
           \/ Ready(v) \/ Cleanup(v) \/ ServersClosed(v) \/ DeleteLink(v) \/ ProxyStep(v)
  <2>1. UNCHANGED <<rules, created>> /\ (leaks' = leaks \/ leaks' = leaks + 1)
    BY <1>6 DEF TunTapAdd, AddrAdd, LinkUp, CommandFails, Listen, ListenFails, Ready, Cleanup,
                ServersClosed, DeleteLink, ProxyStep, Connect, Establish, UpstreamFails, PeerCloses,
                cmdVars
  <2> QED
    BY <1>2, <2>1
<1> QED
  BY <1>3, <1>4, <1>5, <1>6 DEF VmStep, SetupStep, UnwindStep

\* The interface a VM's step may touch is its own, and it is one that exists.
LEMMA LinkStep ==
  ASSUME NetIInv, NEW v \in VMs, VmStep(v)
  PROVE /\ links' \in [Taps -> [addrs : SUBSET Octets, up : BOOLEAN] \union {NoLink}]
        /\ \A t \in Taps : t # TapOf[v] => links'[t] = links[t]
<1>1. /\ links \in [Taps -> [addrs : SUBSET Octets, up : BOOLEAN] \union {NoLink}]
      /\ TapOf[v] \in Taps /\ OctetOf[v] \in Octets
  BY NetAssumption DEF NetIInv, TypeOK
<1>2. CASE TunTapAdd(v)
  BY <1>1, <1>2 DEF TunTapAdd
<1>3. CASE AddrAdd(v) \/ LinkUp(v)
  <2>1. links[TapOf[v]] \in [addrs : SUBSET Octets, up : BOOLEAN]
    BY <1>1, <1>3 DEF AddrAdd, LinkUp, Possible, Goto
  <2>2. /\ [links[TapOf[v]] EXCEPT !.addrs = @ \union {OctetOf[v]}] \in [addrs : SUBSET Octets, up : BOOLEAN]
        /\ [links[TapOf[v]] EXCEPT !.up = TRUE] \in [addrs : SUBSET Octets, up : BOOLEAN]
    BY <1>1, <2>1
  <2> QED
    BY <1>1, <1>3, <2>2 DEF AddrAdd, LinkUp
<1>4. CASE DeleteLink(v)
  BY <1>1, <1>4 DEF DeleteLink
<1>5. CASE Start(v) \/ AddRule(v) \/ CommandFails(v) \/ Listen(v) \/ ListenFails(v) \/ Ready(v)
           \/ Cleanup(v) \/ ServersClosed(v) \/ DeleteRule(v) \/ ProxyStep(v)
  <2>1. UNCHANGED links
    BY <1>5 DEF Start, AddRule, CommandFails, Listen, ListenFails, Ready, Cleanup, ServersClosed,
                DeleteRule, ProxyStep, Connect, Establish, UpstreamFails, PeerCloses, cmdVars
  <2> QED
    BY <1>1, <2>1
<1> QED
  BY <1>2, <1>3, <1>4, <1>5 DEF VmStep, SetupStep, UnwindStep

\* The counters of the bounds.
LEMMA CounterStep ==
  ASSUME NetIInv, NEW v \in VMs, VmStep(v)
  PROVE /\ runs' \in 0..MaxRuns /\ faults' \in 0..MaxFaults /\ leaks' \in 0..faults'
        /\ leaks' = leaks \/ leaks' = leaks + 1
        /\ leaks' = 0 => leaks = 0
<1>1. /\ runs \in 0..MaxRuns /\ faults \in 0..MaxFaults /\ leaks \in 0..faults
      /\ MaxRuns \in Nat /\ MaxFaults \in Nat
  BY NetAssumption DEF NetIInv, TypeOK
<1>2. CASE Start(v)
  BY <1>1, <1>2 DEF Start
<1>3. CASE CommandFails(v) \/ ListenFails(v) \/ DeleteRule(v) \/ DeleteLink(v)
  <2>1. /\ runs' = runs
        /\ \/ faults' = faults /\ leaks' = leaks
           \/ faults < MaxFaults /\ faults' = faults + 1 /\ (leaks' = leaks \/ leaks' = leaks + 1)
    BY <1>3 DEF CommandFails, ListenFails, DeleteRule, DeleteLink, Fault
  <2> QED
    BY <1>1, <2>1
<1>4. CASE TunTapAdd(v) \/ AddrAdd(v) \/ LinkUp(v) \/ AddRule(v) \/ Listen(v) \/ Ready(v) \/ Cleanup(v)
           \/ ServersClosed(v) \/ ProxyStep(v)
  <2>1. UNCHANGED <<runs, faults, leaks>>
    BY <1>4 DEF TunTapAdd, AddrAdd, LinkUp, AddRule, Listen, Ready, Cleanup, ServersClosed,
                ProxyStep, Connect, Establish, UpstreamFails, PeerCloses
  <2> QED
    BY <1>1, <2>1
<1> QED
  BY <1>2, <1>3, <1>4 DEF VmStep, SetupStep, UnwindStep

\* The state of one VM's setup and cleanup, and its type.
Own(v) == <<pc[v], created[v], bound[v], conns[v]>>

States == {"none", "connecting", "established"}

OwnTypes ==
  /\ pc \in [VMs -> Places] /\ created \in [VMs -> 0..3] /\ bound \in [VMs -> Seq(HostPorts)]
  /\ conns \in [VMs -> [HostPorts -> States]]

\* A VM's step leaves the state of the others alone and its own in a stage of
\* setupNetwork or cleanupAuto.
LEMMA OwnStep ==
  ASSUME NetIInv, NEW v \in VMs, VmStep(v)
  PROVE OwnTypes' /\ Stage(v)' /\ \A w \in VMs : w # v => Own(w)' = Own(w)
<1>1. OwnTypes /\ Stage(v) /\ NoConns \in [HostPorts -> States] /\ HostPorts \subseteq Nat
  BY NetAssumption DEF NetIInv, TypeOK, OwnTypes, Stages, States, NoConns
<1>2. CASE Start(v)
  BY <1>1, <1>2 DEF Start, Goto, OwnTypes, Places, Stage, Own, NoConns
<1>3. CASE TunTapAdd(v) \/ AddrAdd(v) \/ LinkUp(v)
  <2>1. /\ UNCHANGED <<created, bound, conns>> /\ pc[v] \in {"tuntap", "addr", "linkup"}
        /\ \E x \in {"addr", "linkup", "rules"} : pc' = [pc EXCEPT ![v] = x]
    BY <1>3 DEF TunTapAdd, AddrAdd, LinkUp, Goto, proxyVars
  <2> QED
    BY <1>1, <2>1 DEF OwnTypes, Places, Stage, Own, NoConns
<1>4. CASE AddRule(v)
  <2>1. /\ created[v] \in 0..2 /\ pc[v] = "rules" /\ UNCHANGED <<bound, conns>>
        /\ created' = [created EXCEPT ![v] = created[v] + 1]
        /\ pc' = [pc EXCEPT ![v] = IF created[v] = 2 THEN "listen" ELSE "rules"]
    BY <1>1, <1>4 DEF AddRule, Goto, proxyVars, Stage
  <2> QED
    BY <1>1, <2>1 DEF OwnTypes, Places, Stage, Own, NoConns
<1>5. CASE CommandFails(v)
  <2>1. /\ UNCHANGED <<created, bound, conns>> /\ pc[v] \in {"tuntap", "addr", "linkup", "rules"}
        /\ pc' = [pc EXCEPT ![v] = "unrule"]
    BY <1>5 DEF CommandFails, cmdVars, proxyVars
  <2> QED
    BY <1>1, <2>1 DEF OwnTypes, Places, Stage, Own, NoConns
<1>6. CASE Listen(v)
  <2>1. PICK p \in HostPorts : bound' = [bound EXCEPT ![v] = Append(bound[v], p)]
    BY <1>6 DEF Listen, Free
  <2>2. UNCHANGED <<pc, created, conns>> /\ pc[v] = "listen"
    BY <1>6 DEF Listen, cmdVars
  <2>3. Append(bound[v], p) \in Seq(HostPorts)
    BY <1>1 DEF OwnTypes
  <2> QED
    BY <1>1, <2>1, <2>2, <2>3 DEF OwnTypes, Stage, Own, NoConns
<1>7. CASE ListenFails(v) \/ Cleanup(v)
  <2>1. /\ UNCHANGED created /\ pc[v] \in {"listen", "running"}
        /\ \E x \in {"closing", "aborting"} : pc' = [pc EXCEPT ![v] = x]
        /\ bound' = [bound EXCEPT ![v] = <<>>]
        /\ conns' = conns \/ conns' = [conns EXCEPT ![v] = NoConns]
    BY <1>7 DEF ListenFails, Cleanup, Goto, cmdVars
  <2>2. conns' \in [VMs -> [HostPorts -> States]] /\ \A w \in VMs : w # v => conns'[w] = conns[w]
    BY <1>1, <2>1 DEF OwnTypes
  <2>3. pc' \in [VMs -> Places] /\ pc'[v] \in {"closing", "aborting"} /\ \A w \in VMs : w # v => pc'[w] = pc[w]
    BY <1>1, <2>1 DEF OwnTypes, Places
  <2>4. /\ bound' \in [VMs -> Seq(HostPorts)] /\ bound'[v] = <<>>
        /\ \A w \in VMs : w # v => bound'[w] = bound[w]
    BY <1>1, <2>1 DEF OwnTypes
  <2> QED
    BY <1>1, <2>1, <2>2, <2>3, <2>4 DEF OwnTypes, Stage, Own
<1>8. CASE Ready(v)
  <2>1. /\ UNCHANGED <<created, bound, conns>> /\ pc[v] = "listen" /\ pc' = [pc EXCEPT ![v] = "running"]
        /\ Len(bound[v]) = Len(Forwards[v])
    BY <1>8 DEF Ready, Goto, cmdVars, proxyVars
  <2> QED
    BY <1>1, <2>1 DEF OwnTypes, Places, Stage, Own
<1>9. CASE ServersClosed(v)
  <2>1. /\ UNCHANGED <<created, bound, conns>> /\ pc[v] \in {"closing", "aborting"}
        /\ pc' = [pc EXCEPT ![v] = "unrule"]
        /\ \A p \in HostPorts : conns[v][p] = "none"
    BY <1>9 DEF ServersClosed, Goto, cmdVars, proxyVars, Connected
  <2>2. conns[v] = NoConns
    BY <1>1, <2>1 DEF OwnTypes, NoConns
  <2> QED
    BY <1>1, <2>1, <2>2 DEF OwnTypes, Places, Stage, Own
<1>10. CASE DeleteRule(v)
  <2>1. /\ UNCHANGED <<pc, bound, conns>> /\ pc[v] = "unrule" /\ created[v] > 0
        /\ created' = [created EXCEPT ![v] = created[v] - 1]
    BY <1>10 DEF DeleteRule, proxyVars
  <2> QED
    BY <1>1, <2>1 DEF OwnTypes, Stage, Own, NoConns
<1>11. CASE DeleteLink(v)
  <2>1. /\ UNCHANGED <<created, bound, conns>> /\ pc[v] = "unrule" /\ created[v] = 0
        /\ pc' = [pc EXCEPT ![v] = "idle"]
    BY <1>11 DEF DeleteLink, Goto, proxyVars
  <2> QED
    BY <1>1, <2>1 DEF OwnTypes, Places, Stage, Own, NoConns
<1>12. CASE ProxyStep(v)
  <2>1. PICK p \in HostPorts, x \in States : conns' = [conns EXCEPT ![v][p] = x]
    BY <1>12 DEF ProxyStep, Connect, Establish, UpstreamFails, PeerCloses, States
  <2>2. UNCHANGED <<pc, created, bound>>
    BY <1>12 DEF ProxyStep, Connect, Establish, UpstreamFails, PeerCloses, cmdVars
  <2>3. pc[v] \in {"listen", "running", "closing", "aborting"}
    <3>1. CASE \E r \in HostPorts : Connect(v, r)
      BY <1>1, <3>1 DEF Connect, Listening, Stage
    <3>2. CASE \E r \in HostPorts : conns[v][r] # "none"
      BY <1>1, <3>2 DEF Stage, NoConns
    <3> QED
      BY <1>12, <3>1, <3>2 DEF ProxyStep, Establish, UpstreamFails, PeerCloses
  <2>4. conns[v] \in [HostPorts -> States] /\ conns' = [conns EXCEPT ![v] = [conns[v] EXCEPT ![p] = x]]
    BY <1>1, <2>1 DEF OwnTypes
  <2> QED
    BY <1>1, <2>2, <2>3, <2>4 DEF OwnTypes, Stage, Own
<1> QED
  BY <1>2, <1>3, <1>4, <1>5, <1>6, <1>7, <1>8, <1>9, <1>10, <1>11, <1>12 DEF VmStep, SetupStep, UnwindStep

\* ip addr add and ip link set up change one field of an interface each.
LEMMA LinkFields ==
  ASSUME NEW l \in [addrs : SUBSET Octets, up : BOOLEAN], NEW o \in Octets
  PROVE /\ [l EXCEPT !.addrs = @ \union {o}] = [addrs |-> l.addrs \union {o}, up |-> l.up]
        /\ [l EXCEPT !.up = TRUE] = [addrs |-> l.addrs, up |-> TRUE]
<1> DEFINE m == [l EXCEPT !.addrs = @ \union {o}]
           k == [l EXCEPT !.up = TRUE]
<1>1. m \in [addrs : SUBSET Octets, up : BOOLEAN] /\ k \in [addrs : SUBSET Octets, up : BOOLEAN]
  OBVIOUS
<1>2. m.addrs = l.addrs \union {o} /\ m.up = l.up /\ k.addrs = l.addrs /\ k.up = TRUE
  OBVIOUS
<1> HIDE DEF m, k
<1>3. m = [addrs |-> m.addrs, up |-> m.up] /\ k = [addrs |-> k.addrs, up |-> k.up]
  BY <1>1
<1>4. m = [addrs |-> l.addrs \union {o}, up |-> l.up] /\ k = [addrs |-> l.addrs, up |-> TRUE]
  BY <1>2, <1>3
<1> QED
  BY <1>4 DEF m, k

\* The interface of a VM that shares its name with no other.
LEMMA OwnLinkStep ==
  ASSUME NetIInv, NEW v \in VMs, VmStep(v)
  PROVE OwnLink'
<1>1. /\ OwnTypes /\ Stage(v) /\ OwnLink /\ TapOf \in [VMs -> Taps] /\ OctetOf[v] \in Octets
      /\ links \in [Taps -> [addrs : SUBSET Octets, up : BOOLEAN] \union {NoLink}]
  BY NetAssumption DEF NetIInv, TypeOK, OwnTypes, Stages, States
<1> DEFINE Kept(w, l, p) ==
      /\ p = "addr" => l = [addrs |-> {}, up |-> FALSE]
      /\ p = "linkup" => l = [addrs |-> {OctetOf[w]}, up |-> FALSE]
      /\ p \in {"rules", "listen", "running"} => l = [addrs |-> {OctetOf[w]}, up |-> TRUE]
<1>2. ASSUME NEW w \in VMs, w # v, OwnTap(w)
      PROVE Kept(w, links'[TapOf[w]], pc'[w])
  <2>1. TapOf[w] # TapOf[v] /\ TapOf[w] \in Taps
    BY <1>1, <1>2 DEF OwnTap
  <2>2. links'[TapOf[w]] = links[TapOf[w]]
    BY <2>1, LinkStep
  <2>3. pc'[w] = pc[w]
    BY <1>2, OwnStep DEF Own
  <2> QED
    BY <1>1, <1>2, <2>2, <2>3 DEF OwnLink
<1>3. ASSUME OwnTap(v) PROVE Kept(v, links'[TapOf[v]], pc'[v])
  <2>1. Kept(v, links[TapOf[v]], pc[v]) /\ TapOf[v] \in Taps
    BY <1>1, <1>3 DEF OwnLink
  <2>2. CASE TunTapAdd(v)
    BY <1>1, <2>1, <2>2 DEF TunTapAdd, Goto, OwnTypes
  <2>3. CASE AddrAdd(v)
    <3>1. /\ links'[TapOf[v]] = [links[TapOf[v]] EXCEPT !.addrs = @ \union {OctetOf[v]}]
          /\ pc[v] = "addr" /\ pc'[v] = "linkup"
      BY <1>1, <2>1, <2>3 DEF AddrAdd, Goto, OwnTypes
    <3>2. links[TapOf[v]] = [addrs |-> {}, up |-> FALSE]
      BY <2>1, <3>1
    <3>3. links'[TapOf[v]] = [addrs |-> {OctetOf[v]}, up |-> FALSE]
      <4>1. /\ links[TapOf[v]] \in [addrs : SUBSET Octets, up : BOOLEAN]
            /\ links[TapOf[v]].addrs = {} /\ links[TapOf[v]].up = FALSE
        BY <3>2
      <4>2. {} \union {OctetOf[v]} = {OctetOf[v]}
        OBVIOUS
      <4> QED
        BY <1>1, <3>1, <4>1, <4>2, LinkFields
    <3> QED
      BY <3>1, <3>3
  <2>4. CASE LinkUp(v)
    <3>1. /\ links'[TapOf[v]] = [links[TapOf[v]] EXCEPT !.up = TRUE]
          /\ pc[v] = "linkup" /\ pc'[v] = "rules"
      BY <1>1, <2>1, <2>4 DEF LinkUp, Goto, OwnTypes
    <3>2. links[TapOf[v]] = [addrs |-> {OctetOf[v]}, up |-> FALSE]
      BY <2>1, <3>1
    <3>3. links'[TapOf[v]] = [addrs |-> {OctetOf[v]}, up |-> TRUE]
      <4>1. /\ links[TapOf[v]] \in [addrs : SUBSET Octets, up : BOOLEAN]
            /\ links[TapOf[v]].addrs = {OctetOf[v]}
        BY <1>1, <3>2
      <4> QED
        BY <1>1, <3>1, <4>1, LinkFields
    <3> QED
      BY <3>1, <3>3
  <2>5. CASE AddRule(v) \/ Ready(v) \/ Listen(v)
    <3>1. links' = links /\ pc[v] \in {"rules", "listen"} /\ pc'[v] \in {"rules", "listen", "running"}
      BY <1>1, <2>5 DEF AddRule, Ready, Listen, Goto, cmdVars, OwnTypes
    <3> QED
      BY <2>1, <3>1
  <2>6. CASE Start(v) \/ CommandFails(v) \/ ListenFails(v) \/ Cleanup(v) \/ ServersClosed(v)
             \/ DeleteRule(v) \/ DeleteLink(v)
    <3>1. pc'[v] \in {"tuntap", "unrule", "closing", "aborting", "idle"}
      BY <1>1, <2>6 DEF Start, CommandFails, ListenFails, Cleanup, ServersClosed, DeleteRule,
                        DeleteLink, Goto, OwnTypes
    <3> QED
      BY <3>1
  <2>7. CASE ProxyStep(v)
    <3>1. UNCHANGED <<links, pc>>
      BY <2>7 DEF ProxyStep, Connect, Establish, UpstreamFails, PeerCloses, cmdVars
    <3> QED
      BY <2>1, <3>1
  <2> QED
    BY <2>2, <2>3, <2>4, <2>5, <2>6, <2>7 DEF VmStep, SetupStep, UnwindStep
<1>4. \A w \in VMs : OwnTap(w) => Kept(w, links'[TapOf[w]], pc'[w])
  BY <1>2, <1>3
<1> QED
  BY <1>4 DEF OwnLink, OwnTap

\* Interfaces come with a VM that will delete them.
LEMMA LinksOwnedStep ==
  ASSUME NetIInv, NEW v \in VMs, VmStep(v)
  PROVE LinksOwned'
<1>1. OwnTypes /\ LinksOwned /\ TapOf \in [VMs -> Taps]
      /\ links \in [Taps -> [addrs : SUBSET Octets, up : BOOLEAN] \union {NoLink}]
      /\ leaks \in Nat
  BY NetAssumption DEF NetIInv, TypeOK, OwnTypes, States
<1> SUFFICES ASSUME leaks' = 0, NEW t \in Taps, links'[t] # NoLink
             PROVE \E w \in VMs : TapOf[w] = t /\ pc'[w] # "idle"
  BY DEF LinksOwned
<1>2. \A w \in VMs : w # v => pc'[w] = pc[w]
  BY OwnStep DEF Own
<1>3. leaks = 0
  BY CounterStep
<1>4. CASE pc'[v] # "idle"
  <2>1. CASE t = TapOf[v]
    BY <1>4, <2>1
  <2>2. CASE t # TapOf[v]
    <3>1. links[t] # NoLink
      BY <2>2, LinkStep
    <3>2. PICK w \in VMs : TapOf[w] = t /\ pc[w] # "idle"
      BY <1>1, <1>3, <3>1 DEF LinksOwned
    <3> QED
      BY <1>2, <2>2, <3>2
  <2> QED
    BY <2>1, <2>2
<1>5. CASE pc'[v] = "idle"
  <2>1. CASE DeleteLink(v)
    <3>1. links'[TapOf[v]] = NoLink
      BY <1>1, <1>3, <2>1 DEF DeleteLink
    <3>2. t # TapOf[v] /\ links[t] # NoLink
      BY <3>1, LinkStep
    <3>3. PICK w \in VMs : TapOf[w] = t /\ pc[w] # "idle"
      BY <1>1, <1>3, <3>2 DEF LinksOwned
    <3> QED
      BY <1>2, <3>2, <3>3
  <2>2. CASE ProxyStep(v)
    <3>1. UNCHANGED <<links, pc>>
      BY <2>2 DEF ProxyStep, Connect, Establish, UpstreamFails, PeerCloses, cmdVars
    <3> QED
      BY <1>1, <1>3, <3>1 DEF LinksOwned
  <2>3. ~(\/ Start(v) \/ TunTapAdd(v) \/ AddrAdd(v) \/ LinkUp(v) \/ AddRule(v) \/ CommandFails(v)
          \/ Listen(v) \/ ListenFails(v) \/ Ready(v) \/ Cleanup(v) \/ ServersClosed(v)
          \/ DeleteRule(v))
    BY <1>1, <1>5 DEF Start, TunTapAdd, AddrAdd, LinkUp, AddRule, CommandFails, Listen, ListenFails,
                      Ready, Cleanup, ServersClosed, DeleteRule, Goto, OwnTypes
  <2> QED
    BY <2>1, <2>2, <2>3 DEF VmStep, SetupStep, UnwindStep
<1> QED
  BY <1>4, <1>5

\* A port that is taken is not given to a second VM.
LEMMA PortsStep ==
  ASSUME NetIInv, NEW v \in VMs, VmStep(v)
  PROVE PortsDisjoint'
<1>1. OwnTypes /\ PortsDisjoint
  BY DEF NetIInv, TypeOK, OwnTypes, States
<1>2. \A w \in VMs : w # v => Listening(w)' = Listening(w)
  <2>1. \A w \in VMs : w # v => bound'[w] = bound[w]
    BY OwnStep DEF Own
  <2> QED
    BY <2>1 DEF Listening
<1>3. ASSUME NEW w \in VMs, w # v PROVE Listening(v)' \cap Listening(w)' = {}
  <2>0. Listening(v) \cap Listening(w) = {}
    BY <1>1, <1>3 DEF PortsDisjoint
  <2>1. CASE Listen(v)
    <3>1. PICK p \in Free(v) : bound' = [bound EXCEPT ![v] = Append(bound[v], p)]
      BY <2>1 DEF Listen
    <3>2. bound[v] \in Seq(HostPorts) /\ bound'[v] = Append(bound[v], p)
      BY <1>1, <3>1 DEF OwnTypes
    <3>3. p \in HostPorts /\ p \notin Listening(w)
      BY <1>3, <3>1 DEF Free, Taken
    <3>4. \A i \in DOMAIN bound'[v] : i \in DOMAIN bound[v] \/ bound'[v][i] = p
      BY <3>2, <3>3
    <3>5. \A i \in DOMAIN bound[v] : bound'[v][i] = bound[v][i]
      BY <3>2, <3>3
    <3>6. \A x \in Listening(v)' : x \in Listening(v) \/ x = p
      BY <3>4, <3>5 DEF Listening
    <3> QED
      BY <1>2, <1>3, <2>0, <3>3, <3>6
  <2>2. CASE Start(v) \/ ListenFails(v) \/ Cleanup(v)
    <3>1. bound'[v] = <<>>
      BY <1>1, <2>2 DEF Start, ListenFails, Cleanup, OwnTypes
    <3>2. Listening(v)' = {}
      BY <3>1 DEF Listening
    <3> QED
      BY <3>2
  <2>3. CASE TunTapAdd(v) \/ AddrAdd(v) \/ LinkUp(v) \/ AddRule(v) \/ CommandFails(v) \/ Ready(v)
             \/ ServersClosed(v) \/ DeleteRule(v) \/ DeleteLink(v) \/ ProxyStep(v)
    <3>1. bound' = bound
      BY <2>3 DEF TunTapAdd, AddrAdd, LinkUp, AddRule, CommandFails, Ready, ServersClosed, DeleteRule,
                  DeleteLink, ProxyStep, Connect, Establish, UpstreamFails, PeerCloses, proxyVars
    <3> QED
      BY <2>0, <3>1 DEF Listening
  <2> QED
    BY <2>1, <2>2, <2>3 DEF VmStep, SetupStep, UnwindStep
<1>4. \A u, w \in VMs : u # w /\ u # v /\ w # v => Listening(u)' \cap Listening(w)' = {}
  BY <1>1, <1>2 DEF PortsDisjoint
<1> QED
  BY <1>3, <1>4 DEF PortsDisjoint

-----------------------------------------------------------------------------
(* The invariant and the theorem.                                           *)

LEMMA NetInit == Init => NetIInv
<1> SUFFICES ASSUME Init PROVE NetIInv
  OBVIOUS
<1>1. TypeOK
  BY NetAssumption DEF Init, TypeOK, Places, NoConns
<1>2. Stages
  BY DEF Init, Stages, Stage
<1>3. RulesCounted
  <2>1. \A r : Holders(r) = {}
    BY DEF Init, Holders
  <2> QED
    <3>1. Cardinality({}) = 0 /\ leaks = 0 /\ \A r \in Rules : rules[r] = 0
      BY FS_EmptySet DEF Init
    <3> QED
      BY <2>1, <3>1 DEF RulesCounted
<1>4. OwnLink /\ LinksOwned
  BY NetAssumption DEF Init, OwnLink, LinksOwned
<1>5. PortsDisjoint
  BY DEF Init, PortsDisjoint, Listening
<1> QED
  BY <1>1, <1>2, <1>3, <1>4, <1>5 DEF NetIInv

LEMMA NetStep == NetIInv /\ [Next]_vars => NetIInv'
<1> SUFFICES ASSUME NetIInv, [Next]_vars PROVE NetIInv'
  OBVIOUS
<1>1. ASSUME NEW v \in VMs, VmStep(v) PROVE NetIInv'
  <2>1. RulesCounted' /\ rules' \in [Rules -> Nat]
    BY <1>1, RulesStep
  <2>2. TypeOK'
    <3>1. /\ links' \in [Taps -> [addrs : SUBSET Octets, up : BOOLEAN] \union {NoLink}]
          /\ runs' \in 0..MaxRuns /\ faults' \in 0..MaxFaults /\ leaks' \in 0..faults'
      BY <1>1, LinkStep, CounterStep
    <3>2. OwnTypes'
      BY <1>1, OwnStep
    <3> QED
      BY <2>1, <3>1, <3>2 DEF TypeOK, OwnTypes, States
  <2>3. Stages'
    <3>1. Stage(v)' /\ \A w \in VMs : w # v => Own(w)' = Own(w)
      BY <1>1, OwnStep
    <3>2. \A w \in VMs : w # v => Stage(w)'
      BY <3>1 DEF NetIInv, Stages, Stage, Own
    <3> QED
      BY <3>1, <3>2 DEF Stages
  <2> QED
    BY <1>1, <2>1, <2>2, <2>3, OwnLinkStep, LinksOwnedStep, PortsStep DEF NetIInv
<1>2. CASE UNCHANGED vars
  <2>1. UNCHANGED <<pc, links, rules, created, bound, conns, runs, faults, leaks>>
    BY <1>2 DEF vars, cmdVars, proxyVars
  <2>2. \A r : Holders(r)' = Holders(r)
    BY <2>1 DEF Holders, RuleOf
  <2>3. \A v \in VMs : Listening(v)' = Listening(v)
    BY <2>1 DEF Listening
  <2> QED
    BY <2>1, <2>2, <2>3 DEF NetIInv, TypeOK, Stages, Stage, RulesCounted, OwnLink, OwnTap,
                            LinksOwned, PortsDisjoint
<1> QED
  BY <1>1, <1>2 DEF Next, VmStep, ProxyStep

\* What the invariant says of a running VM and of a host left by all of them.
LEMMA NetConsequence == NetIInv => NetworkSafe
<1> SUFFICES ASSUME NetIInv PROVE NetworkSafe
  OBVIOUS
<1>1. RunningKeepsNetwork
  <2> SUFFICES ASSUME NEW v \in VMs, pc[v] = "running"
               PROVE /\ OwnTap(v) => links[TapOf[v]] = [addrs |-> {OctetOf[v]}, up |-> TRUE]
                     /\ \A i \in 1..3 : rules[RuleOf(v, i)] > 0
                     /\ Len(bound[v]) = Len(Forwards[v])
                     /\ \A w \in VMs \ {v} : Listening(v) \intersect Listening(w) = {}
    BY DEF RunningKeepsNetwork
  <2>1. created[v] = 3 /\ Len(bound[v]) = Len(Forwards[v])
    BY DEF NetIInv, Stages, Stage
  <2>2. ASSUME NEW i \in 1..3 PROVE rules[RuleOf(v, i)] > 0
    <3>1. PICK r : r = RuleOf(v, i)
      OBVIOUS
    <3>2. r \in Rules /\ v \in Holders(r)
      BY <2>1, <3>1, RuleIs DEF Holders
    <3>3. Cardinality(Holders(r)) \in Nat /\ Cardinality(Holders(r)) # 0
      BY <3>2, HoldersFinite, FS_EmptySet
    <3>4. Cardinality(Holders(r)) <= rules[r] /\ rules[r] \in Nat
      BY <3>2 DEF NetIInv, RulesCounted, TypeOK
    <3> QED
      BY <3>1, <3>3, <3>4
  <2>3. OwnTap(v) => links[TapOf[v]] = [addrs |-> {OctetOf[v]}, up |-> TRUE]
    BY DEF NetIInv, OwnLink
  <2>4. \A w \in VMs \ {v} : Listening(v) \intersect Listening(w) = {}
    BY DEF NetIInv, PortsDisjoint
  <2> QED
    BY <2>1, <2>2, <2>3, <2>4
<1>2. HostRestored
  <2> SUFFICES ASSUME \A v \in VMs : pc[v] = "idle", leaks = 0
               PROVE /\ \A t \in Taps : links[t] = NoLink
                     /\ \A r \in Rules : rules[r] = 0
                     /\ Taken = {} /\ \A v \in VMs : Connected(v) = {}
    BY DEF HostRestored
  <2>1. \A v \in VMs : created[v] = 0 /\ bound[v] = <<>> /\ conns[v] = NoConns
    BY DEF NetIInv, Stages, Stage
  <2>2. \A t \in Taps : links[t] = NoLink
    BY DEF NetIInv, LinksOwned
  <2>3. ASSUME NEW r \in Rules PROVE rules[r] = 0
    <3>1. Holders(r) = {}
      BY <2>1 DEF Holders
    <3> QED
      BY <3>1, FS_EmptySet DEF NetIInv, RulesCounted
  <2>4. Taken = {}
    <3>1. \A v \in VMs : Listening(v) = {}
      BY <2>1 DEF Listening
    <3> QED
      BY <3>1 DEF Taken
  <2>5. \A v \in VMs : Connected(v) = {}
    BY <2>1 DEF Connected, NoConns
  <2> QED
    BY <2>2, <2>3, <2>4, <2>5
<1> QED
  BY <1>1, <1>2 DEF NetworkSafe, NetIInv

\* setupNetwork and cleanupAuto of src/net.ts, for any VMs on one host and any
\* failing commands: a running VM keeps its three iptables rules and its ports, and
\* its interface if no other VM has its name, and when all VMs are gone and no
\* cleanup command failed the host is as it was.
THEOREM NetworkSafeHolds == Spec => []NetworkSafe
<1>1. Init => NetIInv
  BY NetInit
<1>2. NetIInv /\ [Next]_vars => NetIInv'
  BY NetStep
<1>3. NetIInv => NetworkSafe
  BY NetConsequence
<1> QED
  BY <1>1, <1>2, <1>3, PTL DEF Spec
=============================================================================
