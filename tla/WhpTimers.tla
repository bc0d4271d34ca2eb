----------------------------- MODULE WhpTimers -----------------------------
(***************************************************************************)
(* The timers of the WHP backend that interrupt: channel 0 of the 8254     *)
(* (native/whp/devices/pit.cc) and the HPET (devices/hpet.cc), polled by   *)
(* the timer thread.  Guest accesses and polls hold device_mu, so each is  *)
(* one step; time passes between them.                                     *)
(*                                                                         *)
(* Widths are scaled: Full stands for 2^64, Low for 2^32 and Word for the  *)
(* 2^16 of a PIT count, each byte of which is a bit.                       *)
(***************************************************************************)
EXTENDS Integers, FiniteSets

CONSTANTS Timers,     \* HPET timers, a subset of 0..2
          Full, Low, Word,
          MaxClock,   \* how long the run is, in counter ticks
          MaxWrites   \* guest writes to timer registers

ASSUME TimersAssumption == /\ Timers \subseteq 0..2
                           /\ {Full, Low, Word, MaxClock, MaxWrites} \subseteq Nat
                           /\ Low > 1 /\ 2 * Low <= Full /\ Full % Low = 0 /\ 8 <= Full
                           /\ Word = 4

NoPin == 99

VARIABLES clock,    \* std::chrono::steady_clock
          hpet,     \* config_, counter_base_, counter_started_at_
          timers,   \* timers_
          isr,      \* isr_, as a set of timers
          asserted, \* the pin of asserted_irqs_, NoPin when empty
          high,     \* the I/O APIC lines the HPET holds up
          pit,      \* channels_[0]
          firstRead,\* history: the latched count whose low byte was read
          half,     \* history: a reload was left half written
          writes    \* guest writes so far

tmrVars == <<clock, hpet, timers, isr, asserted, high, pit, firstRead, half, writes>>
hpetVars == <<hpet, timers, isr, asserted, high>>
pitVars == <<pit, firstRead, half>>

TmrTypeOK ==
  /\ clock \in 0..MaxClock
  /\ hpet \in [enabled : BOOLEAN, legacy : BOOLEAN, base : 0..Full - 1, started_at : 0..MaxClock]
  /\ timers \in [Timers -> [enabled : BOOLEAN, level : BOOLEAN, periodic : BOOLEAN,
                            setval : BOOLEAN, b32 : BOOLEAN, route : {0, 2}, armed : BOOLEAN,
                            cmp : 0..Full - 1, cmp64 : 0..Full - 1, period : 0..Full - 1]]
  /\ isr \subseteq Timers /\ asserted \in [Timers -> {0, 2, 8, NoPin}] /\ high \subseteq {0, 2, 8}
  /\ pit \in [lo : 0..1, hi : 0..1, access : 1..3, mode : {0, 2}, write_phase : 0..1,
              read_phase : 0..1, latch : 0..Word - 1, latch_valid : BOOLEAN,
              start : 0..MaxClock, next_irq : 0..MaxClock + Word]
  /\ firstRead \in {NoPin} \cup 0..Word - 1 /\ half \in BOOLEAN /\ writes \in 0..MaxWrites

-----------------------------------------------------------------------------
\* HPET

counter(h) == IF h.enabled THEN (h.base + (clock - h.started_at)) % Full ELSE h.base

\* static_cast<int64_t>(target - now) <= 0
counter_reached(now, target) == LET d == (target - now) % Full IN d = 0 \/ d >= Full \div 2
Past(now, target) == (target - now) % Full >= Full \div 2

route_for_timer(h, t) ==
  IF h.legacy /\ t <= 1 THEN (IF t = 0 THEN 2 ELSE 8) ELSE timers[t].route

\* Plausible bug: a 32-bit comparator behind the counter is not moved to the next wrap.
set_timer_NoWrap(h, tm) ==
  LET now == counter(h)
  IN  IF ~h.enabled \/ ~tm.enabled THEN [tm EXCEPT !.armed = FALSE]
      ELSE [tm EXCEPT !.armed = TRUE,
              !.cmp64 = IF tm.b32 THEN (Low * (now \div Low) + (tm.cmp % Low)) % Full ELSE tm.cmp]

set_timer(h, tm) ==
  LET now  == counter(h)
      near == (Low * (now \div Low) + (tm.cmp % Low)) % Full
  IN  IF ~h.enabled \/ ~tm.enabled THEN [tm EXCEPT !.armed = FALSE]
      ELSE [tm EXCEPT !.armed = TRUE,
              !.cmp64 = IF ~tm.b32 THEN tm.cmp
                        ELSE IF Past(now, near) THEN (near + Low) % Full ELSE near]

\* Plausible bug: the status is cleared and the line forgotten.
deassert_cleared_irqs_KeepLine(cleared) ==
  /\ isr' = isr \ cleared
  /\ asserted' = [t \in Timers |-> IF t \in cleared THEN NoPin ELSE asserted[t]]
  /\ UNCHANGED high

\* The status bits `cleared' go, and the line of the pin each timer raised.
deassert_cleared_irqs(cleared) ==
  /\ isr' = isr \ cleared
  /\ asserted' = [t \in Timers |-> IF t \in cleared THEN NoPin ELSE asserted[t]]
  /\ high' = high \ {asserted[t] : t \in cleared \cap isr}

\* do cmp64 += period while the counter has reached it
CatchUp(now, tm) ==
  LET at(k) == (tm.cmp64 + k * tm.period) % Full
      n == CHOOSE k \in 1..Full : /\ ~counter_reached(now, at(k))
                                  /\ \A j \in 1..k - 1 : counter_reached(now, at(j))
  IN  at(n)

Fired(now, tm) ==
  IF tm.periodic /\ tm.period # 0
  THEN LET c == CatchUp(now, tm)
       IN  [tm EXCEPT !.cmp64 = c, !.cmp = IF tm.b32 THEN c % Low ELSE c]
  ELSE [tm EXCEPT !.armed = FALSE]

Expired == {t \in Timers : /\ hpet.enabled /\ timers[t].armed /\ timers[t].enabled
                           /\ counter_reached(counter(hpet), timers[t].cmp64)}

\* poll_expired, and deliver_timer_irq for what it returns: the line of a level
\* timer goes up when its pin is unmasked (`up').
PollHpet ==
  LET levels == {t \in Expired : timers[t].level}
  IN  /\ Expired # {}
      /\ isr' = isr \cup levels
      /\ asserted' = [t \in Timers |-> IF t \in levels THEN route_for_timer(hpet, t) ELSE asserted[t]]
      /\ \E up \in SUBSET levels : high' = high \cup {route_for_timer(hpet, t) : t \in up}
      /\ timers' = [t \in Timers |-> IF t \in Expired THEN Fired(counter(hpet), timers[t]) ELSE timers[t]]
      /\ UNCHANGED <<clock, hpet, pitVars, writes>>

Write == writes < MaxWrites /\ writes' = writes + 1 /\ UNCHANGED clock

write_config(en, leg) ==
  LET h == [enabled |-> en, legacy |-> leg,
            base |-> IF hpet.enabled /\ ~en THEN counter(hpet) ELSE hpet.base,
            started_at |-> IF ~hpet.enabled /\ en THEN clock ELSE hpet.started_at]
  IN  /\ hpet' = h
      /\ timers' = [t \in Timers |-> set_timer(h, timers[t])]
      /\ IF en THEN UNCHANGED <<isr, asserted, high>> ELSE deassert_cleared_irqs(isr)

\* The guest changes the routing mode only while no timer's status is up.
WriteConfig ==
  /\ Write /\ UNCHANGED pitVars
  /\ \E en, leg \in BOOLEAN : (leg # hpet.legacy => isr = {}) /\ write_config(en, leg)

write_timer_config(t, c) ==
  LET old == timers[t]
      new == [old EXCEPT !.enabled = c.enabled, !.level = c.level, !.periodic = c.periodic,
                         !.setval = c.periodic, !.b32 = c.b32, !.route = c.route,
                         !.cmp = IF c.b32 THEN @ % Low ELSE @,
                         !.period = IF c.b32 THEN @ % Low ELSE @]
  IN  /\ timers' = [timers EXCEPT ![t] = set_timer(hpet, new)]
      /\ IF old.level /\ (~c.level \/ ~c.enabled) THEN deassert_cleared_irqs({t})
                                                  ELSE UNCHANGED <<isr, asserted, high>>

\* Configurations a guest writes: the pin of the capability mask once it is
\* enabled; it moves a timer only while its status is clear.
WriteTimerConfig ==
  /\ Write /\ UNCHANGED <<hpet, pitVars>>
  /\ \E t \in Timers, en, level, per, b32 \in BOOLEAN :
       /\ timers[t].route = 0 => t \notin isr
       /\ write_timer_config(t, [enabled |-> en, level |-> level, periodic |-> per,
                                 b32 |-> b32, route |-> 2])

write_timer_cmp(t, v) ==
  LET old == timers[t]
      val == IF old.b32 THEN v % Low ELSE v
      new == [old EXCEPT !.cmp = IF ~old.periodic \/ old.setval THEN val ELSE @,
                         !.period = IF old.periodic THEN val ELSE @, !.setval = FALSE]
  IN  timers' = [timers EXCEPT ![t] = set_timer(hpet, new)]

WriteTimerCmp ==
  /\ Write /\ UNCHANGED <<hpet, isr, asserted, high, pitVars>>
  /\ \E t \in Timers, v \in {1, 3} : write_timer_cmp(t, v)

WriteStatus ==
  /\ Write /\ UNCHANGED <<hpet, timers, pitVars>>
  /\ \E t \in isr : deassert_cleared_irqs({t})

WriteCounter ==
  /\ Write /\ ~hpet.enabled /\ UNCHANGED <<timers, isr, asserted, high, pitVars>>
  /\ \E v \in {0, Full - 2} : hpet' = [hpet EXCEPT !.base = v]

-----------------------------------------------------------------------------
\* PIT, channel 0

divisor(c) == IF c.lo + c.hi = 0 THEN Word ELSE c.lo + 2 * c.hi
irq_interval(c) == divisor(c)   \* never below one poll of the timer thread

current_count(c) ==
  LET ticks == clock - c.start
  IN  IF c.mode = 2 THEN (divisor(c) - (ticks % divisor(c))) % Word
      ELSE (divisor(c) - ticks) % Word

reset_channel_timer(c) == [c EXCEPT !.start = clock, !.next_irq = clock + irq_interval(c)]

\* do next_irq += interval while it is not after now
NextIrq(c) ==
  LET late == clock - c.next_irq IN c.next_irq + (late \div irq_interval(c) + 1) * irq_interval(c)

PollPit ==
  /\ clock >= pit.next_irq /\ ~hpet.legacy
  /\ pit' = [pit EXCEPT !.next_irq = NextIrq(pit)]
  /\ UNCHANGED <<clock, hpetVars, firstRead, half, writes>>

\* Command byte: a latch command, or access and mode of the next writes.
write_command ==
  /\ Write /\ UNCHANGED hpetVars
  /\ firstRead' = NoPin
  /\ \/ /\ pit' = [pit EXCEPT !.latch = current_count(pit), !.latch_valid = TRUE, !.read_phase = 0]
        /\ UNCHANGED half
     \/ \E a \in 1..3, m \in {0, 2} :
          /\ pit' = [pit EXCEPT !.access = a, !.mode = m, !.write_phase = 0, !.read_phase = 0,
                                !.latch_valid = FALSE]
          /\ half' = (half \/ pit.write_phase = 1)

write_channel ==
  /\ Write /\ UNCHANGED <<hpetVars, firstRead>>
  /\ \E b \in 0..1 :
       \/ /\ pit.access = 1
          /\ pit' = reset_channel_timer([pit EXCEPT !.lo = b]) /\ half' = FALSE
       \/ /\ pit.access = 2 \/ (pit.access = 3 /\ pit.write_phase = 1)
          /\ pit' = reset_channel_timer([pit EXCEPT !.hi = b,
                                           !.write_phase = IF pit.access = 3 THEN 0 ELSE @])
          /\ half' = FALSE
       \/ /\ pit.access = 3 /\ pit.write_phase = 0
          /\ pit' = [pit EXCEPT !.lo = b, !.write_phase = 1] /\ UNCHANGED half

read_channel ==
  LET first == pit.access = 3 /\ pit.read_phase = 0
  IN  /\ UNCHANGED <<clock, hpetVars, half, writes>>
      /\ pit' = [pit EXCEPT !.read_phase = IF pit.access = 3 THEN 1 - @ ELSE @,
                            !.latch_valid = @ /\ first]
      /\ firstRead' = IF first /\ pit.latch_valid THEN pit.latch ELSE NoPin

Tick == clock < MaxClock /\ clock' = clock + 1 /\ UNCHANGED <<hpetVars, pitVars, writes>>

TmrInit ==
  /\ clock = 0 /\ writes = 0
  /\ hpet = [enabled |-> FALSE, legacy |-> FALSE, base |-> 0, started_at |-> 0]
  /\ timers = [t \in Timers |-> [enabled |-> FALSE, level |-> FALSE, periodic |-> FALSE,
                                 setval |-> FALSE, b32 |-> FALSE, route |-> 0, armed |-> FALSE,
                                 cmp |-> Full - 1, cmp64 |-> Full - 1, period |-> 0]]
  /\ isr = {} /\ asserted = [t \in Timers |-> NoPin] /\ high = {}
  /\ pit = [lo |-> 0, hi |-> 0, access |-> 3, mode |-> 2, write_phase |-> 0, read_phase |-> 0,
            latch |-> 0, latch_valid |-> FALSE, start |-> 0, next_irq |-> Word]
  /\ firstRead = NoPin /\ half = FALSE

HpetNext == \/ Tick \/ PollHpet
            \/ WriteConfig \/ WriteTimerConfig \/ WriteTimerCmp \/ WriteStatus \/ WriteCounter
PitNext == Tick \/ PollPit \/ write_command \/ write_channel \/ read_channel

TmrSpec == TmrInit /\ [][HpetNext \/ PitNext]_tmrVars

-----------------------------------------------------------------------------
\* No line is left up: a pin the HPET drives has a timer whose status bit is
\* set and which remembers that pin, so that clearing the status lowers it.
NoStuckLine == \A p \in high : \E t \in isr : asserted[t] = p

\* The comparator a guest reads is the one the timer is armed for, also after
\* the catch-up of a late poll and across a 32-bit wrap.
ComparatorShown ==
  \A t \in Timers : timers[t].armed =>
    timers[t].cmp = IF timers[t].b32 THEN timers[t].cmp64 % Low ELSE timers[t].cmp64

\* A 32-bit timer is never armed for a moment the counter has passed: neither a
\* guest write nor the catch-up of a late poll makes it fire at once.
ArmedAhead ==
  [][\A t \in Timers : timers'[t] # timers[t] /\ timers'[t].armed /\ timers'[t].b32
       => ~Past(counter(hpet)', timers'[t].cmp64)]_tmrVars

\* Enabling, disabling and reprogramming the HPET never moves its counter.
CounterSteady ==
  [][hpet.enabled \/ hpet'.enabled
       => counter(hpet)' = (counter(hpet) + (IF hpet.enabled THEN clock' - clock ELSE 0)) % Full]_tmrVars

\* Once a reload is completely written, PIT ticks stay on the grid that starts
\* at that write, however late the timer thread polls.
PitGrid ==
  pit.write_phase = 0 /\ ~half => (pit.next_irq - pit.start) % irq_interval(pit) = 0

\* The two bytes of a latched count belong to one count: when the low byte came
\* from the latch, the latch is still there for the high byte.
LatchWhole ==
  pit.access = 3 /\ pit.read_phase = 1 /\ firstRead # NoPin
    => pit.latch_valid /\ pit.latch = firstRead

\* Lines, comparators, the grid of interrupts and latched counts are those of
\* the hardware.
TimersExact == TmrTypeOK /\ NoStuckLine /\ ComparatorShown /\ PitGrid /\ LatchWhole

\* A timer is armed for a count still to come, and the counter neither jumps
\* nor runs back over its configuration.
TimersSteady == ArmedAhead /\ CounterSteady
=============================================================================
