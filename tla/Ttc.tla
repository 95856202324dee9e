--------------------------------- MODULE Ttc ---------------------------------
(***************************************************************************)
(* The driver of the triple timer counters (zynq_ttc.c of the zedboard;    *)
(* the other boards and the non-secure guest have copies) and the two      *)
(* sequences that use it, tick_set and tick_set_2.                         *)
(*                                                                         *)
(* Times are in cycles of the 111 MHz clock, 111 to a microsecond.         *)
(***************************************************************************)
EXTENDS Naturals

CONSTANTS
    Timers,     \* the timers <<ttc_num, timer_num>> the driver is called for
    Times       \* the values of `useconds' it is called with

ASSUME TimersAssumption == Timers \subseteq (0..2) \X (0..3)
ASSUME TimesAssumption == Times \subseteq Nat

Modes == {"INTERVAL", "MATCH", "FREE_RUNNING"}

\* The bits of the counter control register; RST clears itself.
Flags == {"WAVE", "MATCH", "INT", "DIS"}
ResetConfig == {"WAVE", "DIS"}

\* The interval and match registers have 16 bits.
CounterValues == 0..65535

\* The fields of a timer's registers, and `asked', a history variable: the
\* time of the last request that was granted since ttc_init, or 0.
Registers ==
    [psEn : BOOLEAN, ps : SUBSET (0..3), cnt : SUBSET Flags,
     interv : CounterValues, match1 : CounterValues,
     ien : SUBSET {"INTERVAL", "MATCH1"}, status : BOOLEAN, asked : Nat]

VARIABLE timer

vars == timer

\* The checks of the arguments.
Valid(t) == t[1] <= 1 /\ t[2] <= 1

\* The prescaler field as the set of its bits: 1 and 11.
PsFast == {0}
PsSlow == {0, 1, 3}

\* The two ranges of ttc_request and what each makes of the time.  Mutants:
\* the fast range reaches too far; the division comes first.
FastTooWide(u) == u >= 1 /\ u <= 10000
FastTicksDividedFirst(u) == (u \div 1000) * 27750

Fast(u) == u >= 1 /\ u <= 1000
Slow(u) == u > 1000 /\ u <= 1000000
FastTicks(u) == (u * 27750) \div 1000
SlowTicks(u) == (u * 271) \div 10000

Ticks(u) == IF Fast(u) THEN FastTicks(u) ELSE SlowTicks(u)

-----------------------------------------------------------------------------
\* The registers after a reset of the device.
Init ==
    timer = [t \in Timers |->
                [psEn |-> FALSE, ps |-> {}, cnt |-> ResetConfig,
                 interv |-> 0, match1 |-> 0,
                 ien |-> {}, status |-> FALSE, asked |-> 0]]

\* The control register and the interrupt source of each mode.
ModeConfig ==
    [INTERVAL |-> ResetConfig \cup {"INT"},
     MATCH |-> {"MATCH", "DIS"},
     FREE_RUNNING |-> ResetConfig]
ModeSource == [INTERVAL |-> {"INTERVAL"}, MATCH |-> {"MATCH1"}]

\* ttc_init: the prescaler is switched off, its value stays.
Initialised(r, mode) ==
    [psEn |-> FALSE,
     ps |-> r.ps,
     cnt |-> ModeConfig[mode],
     interv |-> IF mode = "INTERVAL" THEN 111 ELSE r.interv,
     match1 |-> IF mode = "MATCH" THEN 111 ELSE r.match1,
     ien |-> IF mode = "FREE_RUNNING" THEN r.ien ELSE ModeSource[mode],
     status |-> r.status,
     asked |-> 0]

TtcInit(t, mode) ==
    timer' = IF Valid(t) THEN [timer EXCEPT ![t] = Initialised(@, mode)]
                         ELSE timer

\* ttc_enable and ttc_disable.
Enabled(r) == [r EXCEPT !.cnt = @ \ {"DIS"}]
Disabled(r) == [r EXCEPT !.cnt = @ \cup {"DIS"}]

Enable(t) ==
    timer' = IF Valid(t) THEN [timer EXCEPT ![t] = Enabled(@)] ELSE timer

Disable(t) ==
    timer' = IF Valid(t) THEN [timer EXCEPT ![t] = Disabled(@)] ELSE timer

(***************************************************************************)
(* ttc_request: the timer is stopped first, then the time is checked, the  *)
(* prescaler's bits are set (none is cleared), and only then the mode is   *)
(* looked at.                                                              *)
(***************************************************************************)
\* Mutant: the prescaler is programmed before the time is checked.
PrescaledUnchecked(r, u) ==
    [r EXCEPT !.psEn = TRUE, !.ps = @ \cup (IF Fast(u) THEN PsFast ELSE PsSlow)]

Prescaled(r, u) ==
    IF Fast(u) THEN [r EXCEPT !.psEn = TRUE, !.ps = @ \cup PsFast]
    ELSE IF Slow(u) THEN [r EXCEPT !.psEn = TRUE, !.ps = @ \cup PsSlow]
    ELSE r

\* The request returns TRUE.
Granted(r, u) == (Fast(u) \/ Slow(u)) /\ {"INT", "MATCH"} \cap r.cnt # {}

Requested(r, u) ==
    LET p == Prescaled(Disabled(r), u)
    IN  IF ~Granted(r, u) THEN p
        ELSE IF "INT" \in r.cnt
        THEN [p EXCEPT !.interv = Ticks(u), !.asked = u]
        ELSE [p EXCEPT !.match1 = Ticks(u), !.asked = u]

Request(t, u) ==
    timer' = IF Valid(t) THEN [timer EXCEPT ![t] = Requested(@, u)] ELSE timer

\* tick_set and tick_set_2: the timer is enabled whatever the request said.
TickSet(t, u) ==
    timer' = IF Valid(t) THEN [timer EXCEPT ![t] = Enabled(Requested(@, u))]
                         ELSE timer

\* ttc_interrupt_clear: reading the interrupt register clears it.
InterruptClear(t) ==
    /\ t[1] <= 1 /\ t[2] <= 2
    /\ timer' = [timer EXCEPT ![t].status = FALSE]

\* The counter of a running timer reaches the value that interrupts.
Expire(t) ==
    /\ "DIS" \notin timer[t].cnt
    /\ \/ "INT" \in timer[t].cnt /\ "INTERVAL" \in timer[t].ien
       \/ "MATCH" \in timer[t].cnt /\ "MATCH1" \in timer[t].ien
    /\ timer' = [timer EXCEPT ![t].status = TRUE]

Next ==
    \E t \in Timers :
        \/ \E mode \in Modes : TtcInit(t, mode)
        \/ Enable(t)
        \/ Disable(t)
        \/ \E u \in Times : Request(t, u) \/ TickSet(t, u)
        \/ InterruptClear(t)
        \/ Expire(t)

Spec == Init /\ [][Next]_vars

-----------------------------------------------------------------------------
\* In particular, what is written to a 16-bit counter register fits it.
TypeOK == timer \in [Timers -> Registers]

\* The division of the clock: a prescaler N divides by 2^(N+1).
PsValue(ps) ==
    (IF 0 \in ps THEN 1 ELSE 0) + (IF 1 \in ps THEN 2 ELSE 0)
      + (IF 2 \in ps THEN 4 ELSE 0) + (IF 3 \in ps THEN 8 ELSE 0)
Dividers == <<2, 4, 8, 16, 32, 64, 128, 256, 512, 1024, 2048, 4096, 8192,
              16384, 32768, 65536>>
Divider(r) == IF r.psEn THEN Dividers[PsValue(r.ps) + 1] ELSE 1

\* From the start of the count to the interrupt, in cycles.
Limit(r) == IF "INT" \in r.cnt THEN r.interv ELSE r.match1
Period(r) == (Limit(r) + 1) * Divider(r)

\* A timer never interrupts before the time of the last granted request has
\* passed, however often it was initialised, stopped, asked for other times
\* or refused: no rounding and no left-over prescaler shortens it.
NeverEarly ==
    \A t \in Timers :
        timer[t].asked # 0 => Period(timer[t]) > 111 * timer[t].asked

\* A refused request (tick_set enables the timer all the same) leaves the
\* granted period as it is.
RefusalKeepsPeriod ==
    [][\A t \in Timers :
         /\ timer[t].asked # 0
         /\ timer'[t].asked = timer[t].asked
         => Period(timer'[t]) = Period(timer[t])]_vars
=============================================================================
