------------------------------ MODULE TtcProofs ------------------------------
(***************************************************************************)
(* Proofs about Ttc for every set of timers and every argument of          *)
(* ttc_request: the values written fit the registers, and no timer         *)
(* interrupts early.                                                       *)
(***************************************************************************)
EXTENDS Ttc, TLAPS

\* What is true of the registers of one timer: the prescaler has one of
\* three values, and after a granted request it divides at least as much as
\* the limit was computed for.
TimerInv(r) ==
    /\ r.ps \in {{}, PsFast, PsSlow}
    /\ r.asked # 0 =>
         /\ Fast(r.asked) \/ Slow(r.asked)
         /\ {"INT", "MATCH"} \cap r.cnt # {}
         /\ r.psEn
         /\ Limit(r) = Ticks(r.asked)
         /\ Slow(r.asked) => r.ps = PsSlow
         /\ r.ps # {}

IInv == TypeOK /\ \A t \in Timers : TimerInv(timer[t])

\* Sixteen bits hold what the two ranges need.
LEMMA SmallFits == \A x \in Nat : x <= 27750 => x \in CounterValues
  <1> DEFINE J == 27750
             K == 65535
  <1>1. CounterValues = 0..K
    BY DEF CounterValues
  <1>2. J \in Nat /\ K \in Nat /\ J <= K
    BY SMT
  <1> HIDE DEF J, K
  <1>3. \A x \in Nat : x <= J => x \in 0..K
    BY <1>2
  <1> QED BY <1>1, <1>3, SMT DEF J

\* The ticks of both ranges fit the 16 bits of a counter register.
LEMMA TicksFit ==
    ASSUME NEW u \in Nat, Fast(u) \/ Slow(u)
    PROVE  Ticks(u) \in CounterValues /\ Ticks(u) \in Nat
  <1>1. CASE Fast(u)
    <2>1. u <= 1000 /\ Ticks(u) = (27750 * u) \div 1000
      BY <1>1, SMT DEF Ticks, Fast, FastTicks
    <2>2. (27750 * u) \div 1000 \in Nat /\ (27750 * u) \div 1000 <= 27750
      BY <2>1, SMT
    <2> QED BY <2>1, <2>2, SmallFits, SMT
  <1>2. CASE Slow(u)
    <2>1. u <= 1000000 /\ Ticks(u) = (271 * u) \div 10000
      BY <1>2, SMT DEF Ticks, Fast, Slow, SlowTicks
    <2>2. (271 * u) \div 10000 \in Nat /\ (271 * u) \div 10000 <= 27750
      BY <2>1, SMT
    <2> QED BY <2>1, <2>2, SmallFits, SMT
  <1> QED BY <1>1, <1>2

\* The three operations on the registers of a timer preserve their type and
\* TimerInv.
LEMMA InitialisedKeeps ==
    ASSUME NEW r \in Registers, TimerInv(r), NEW mode \in Modes
    PROVE  Initialised(r, mode) \in Registers /\ TimerInv(Initialised(r, mode))
  <1> DEFINE q == Initialised(r, mode)
  <1>1. q \in Registers
    <2>1. 111 \in CounterValues
      BY SMT DEF CounterValues
    <2>2. ModeConfig[mode] \in SUBSET Flags
      BY DEF Modes, ModeConfig, ResetConfig, Flags
    <2>3. mode # "FREE_RUNNING" =>
            ModeSource[mode] \in SUBSET {"INTERVAL", "MATCH1"}
      BY DEF Modes, ModeSource
    <2> DEFINE i == IF mode = "INTERVAL" THEN 111 ELSE r.interv
               m == IF mode = "MATCH" THEN 111 ELSE r.match1
               e == IF mode = "FREE_RUNNING" THEN r.ien ELSE ModeSource[mode]
    <2>4. i \in CounterValues /\ m \in CounterValues
      BY <2>1 DEF Registers
    <2>5. e \in SUBSET {"INTERVAL", "MATCH1"}
      BY <2>3 DEF Registers
    <2>6. q = [psEn |-> FALSE, ps |-> r.ps, cnt |-> ModeConfig[mode],
               interv |-> i, match1 |-> m, ien |-> e, status |-> r.status,
               asked |-> 0]
      BY DEF Initialised
    <2>7. r.ps \in SUBSET (0..3) /\ r.status \in BOOLEAN
      BY DEF Registers
    <2> HIDE DEF i, m, e
    <2> QED BY <2>2, <2>4, <2>5, <2>6, <2>7 DEF Registers
  <1>2. q.asked = 0 /\ q.ps = r.ps
    BY DEF Initialised, Registers
  <1> QED BY <1>1, <1>2 DEF TimerInv

\* Starting a timer changes neither its mode nor its limit.
LEMMA EnabledKeeps ==
    ASSUME NEW r \in Registers, TimerInv(r)
    PROVE  Enabled(r) \in Registers /\ TimerInv(Enabled(r))
  <1> DEFINE q == Enabled(r)
  <1>1. q \in Registers
    BY DEF Enabled, Registers
  <1>2. /\ q.asked = r.asked /\ q.ps = r.ps /\ q.psEn = r.psEn
        /\ q.interv = r.interv /\ q.match1 = r.match1
        /\ q.cnt = r.cnt \ {"DIS"}
    BY DEF Enabled, Registers
  <1> QED BY <1>1, <1>2 DEF TimerInv, Limit

\* Neither does stopping it.
LEMMA DisabledKeeps ==
    ASSUME NEW r \in Registers, TimerInv(r)
    PROVE  Disabled(r) \in Registers /\ TimerInv(Disabled(r))
  <1> DEFINE q == Disabled(r)
  <1>1. q \in Registers
    BY DEF Disabled, Registers, Flags
  <1>2. /\ q.asked = r.asked /\ q.ps = r.ps /\ q.psEn = r.psEn
        /\ q.interv = r.interv /\ q.match1 = r.match1
        /\ q.cnt = r.cnt \cup {"DIS"}
    BY DEF Disabled, Registers
  <1> QED BY <1>1, <1>2 DEF TimerInv, Limit

\* A request, granted or refused, keeps the prescaler at least as large as
\* the limit needs.
LEMMA RequestedKeeps ==
    ASSUME NEW r \in Registers, TimerInv(r), NEW u \in Nat
    PROVE  Requested(r, u) \in Registers /\ TimerInv(Requested(r, u))
  <1> DEFINE d == Disabled(r)
             p == Prescaled(d, u)
             q == Requested(r, u)
  <1>1. d \in Registers /\ TimerInv(d)
    BY DisabledKeeps
  <1>2. /\ d.cnt \cap {"INT", "MATCH"} = r.cnt \cap {"INT", "MATCH"}
        /\ d.asked = r.asked
    BY DEF Disabled, Registers
  <1>3. CASE ~Fast(u) /\ ~Slow(u)
    <2>1. q = d
      BY <1>3 DEF Requested, Granted, Prescaled
    <2> QED BY <1>1, <2>1
  <1>4. CASE Fast(u) \/ Slow(u)
    <2>1. /\ p \in Registers
          /\ p.psEn = TRUE
          /\ p.cnt = d.cnt /\ p.asked = d.asked
          /\ p.interv = d.interv /\ p.match1 = d.match1
          /\ p.ps = d.ps \cup (IF Fast(u) THEN PsFast ELSE PsSlow)
      <3>1. PsFast \in SUBSET (0..3) /\ PsSlow \in SUBSET (0..3)
        BY DEF PsFast, PsSlow
      <3>2. CASE Fast(u)
        BY <1>1, <3>1, <3>2 DEF Prescaled, Registers
      <3>3. CASE ~Fast(u) /\ Slow(u)
        BY <1>1, <3>1, <3>3 DEF Prescaled, Registers
      <3> QED BY <1>4, <3>2, <3>3
    <2>2. /\ p.ps \in {PsFast, PsSlow}
          /\ p.ps # {}
          /\ Slow(u) => p.ps = PsSlow
          /\ d.ps = PsSlow => p.ps = PsSlow
      <3>1. Slow(u) => ~Fast(u)
        BY SMT DEF Fast, Slow
      <3> QED BY <1>1, <1>4, <2>1, <3>1 DEF TimerInv, PsFast, PsSlow
    <2>3. CASE ~Granted(r, u)
      <3>1. q = p
        BY <2>3 DEF Requested
      <3>2. Limit(p) = Limit(d)
        BY <2>1 DEF Limit
      <3> QED BY <1>1, <2>1, <2>2, <3>1, <3>2 DEF TimerInv
    <2>4. CASE Granted(r, u) /\ "INT" \in r.cnt
      <3>1. q = [p EXCEPT !.interv = Ticks(u), !.asked = u]
        BY <2>4 DEF Requested
      <3>2. /\ q \in Registers
            /\ q.asked = u /\ q.interv = Ticks(u)
            /\ q.ps = p.ps /\ q.psEn = p.psEn /\ q.cnt = p.cnt
        BY <1>4, <2>1, <3>1, TicksFit DEF Registers
      <3>3. Limit(q) = Ticks(u) /\ {"INT", "MATCH"} \cap q.cnt # {}
        BY <1>2, <2>1, <2>4, <3>2 DEF Limit
      <3> QED BY <1>4, <2>1, <2>2, <3>2, <3>3 DEF TimerInv
    <2>5. CASE Granted(r, u) /\ "INT" \notin r.cnt
      <3>1. q = [p EXCEPT !.match1 = Ticks(u), !.asked = u]
        BY <2>5 DEF Requested
      <3>2. /\ q \in Registers
            /\ q.asked = u /\ q.match1 = Ticks(u)
            /\ q.ps = p.ps /\ q.psEn = p.psEn /\ q.cnt = p.cnt
        BY <1>4, <2>1, <3>1, TicksFit DEF Registers
      <3>3. Limit(q) = Ticks(u) /\ {"INT", "MATCH"} \cap q.cnt # {}
        BY <1>2, <2>1, <2>5, <3>2 DEF Limit, Granted
      <3> QED BY <1>4, <2>1, <2>2, <3>2, <3>3 DEF TimerInv
    <2> QED BY <2>3, <2>4, <2>5
  <1> QED BY <1>3, <1>4

\* The interrupt status plays no part in TimerInv.
LEMMA StatusKeeps ==
    ASSUME NEW r \in Registers, TimerInv(r), NEW b \in BOOLEAN
    PROVE  [r EXCEPT !.status = b] \in Registers
           /\ TimerInv([r EXCEPT !.status = b])
  <1> DEFINE q == [r EXCEPT !.status = b]
  <1>1. q \in Registers
    BY DEF Registers
  <1>2. /\ q.asked = r.asked /\ q.ps = r.ps /\ q.psEn = r.psEn
        /\ q.interv = r.interv /\ q.match1 = r.match1 /\ q.cnt = r.cnt
    BY DEF Registers
  <1> QED BY <1>1, <1>2 DEF TimerInv, Limit

\* Changing one timer to registers that satisfy TimerInv keeps IInv.
LEMMA UpdateKeepsIInv ==
    ASSUME IInv, NEW t \in Timers, NEW q \in Registers, TimerInv(q),
           timer' = [timer EXCEPT ![t] = q]
    PROVE  IInv'
  <1>1. timer' \in [Timers -> Registers]
    BY DEF IInv, TypeOK
  <1>2. ASSUME NEW s \in Timers PROVE TimerInv(timer'[s])
    BY DEF IInv, TypeOK
  <1> QED BY <1>1, <1>2 DEF IInv, TypeOK

\* Every step keeps the inductive invariant.
LEMMA StepKeepsIInv == IInv /\ [Next]_vars => IInv'
  <1> SUFFICES ASSUME IInv, [Next]_vars PROVE IInv'
    OBVIOUS
  <1>1. CASE UNCHANGED vars
    BY <1>1 DEF vars, IInv, TypeOK
  <1>2. CASE Next
    <2> PICK t \in Timers :
          \/ \E mode \in Modes : TtcInit(t, mode)
          \/ Enable(t)
          \/ Disable(t)
          \/ \E u \in Times : Request(t, u) \/ TickSet(t, u)
          \/ InterruptClear(t)
          \/ Expire(t)
      BY <1>2 DEF Next
    <2> DEFINE r == timer[t]
    <2>1. r \in Registers /\ TimerInv(r)
      BY DEF IInv, TypeOK
    <2>2. CASE timer' = timer
      BY <2>2 DEF IInv, TypeOK
    <2>3. ASSUME NEW mode \in Modes, TtcInit(t, mode) PROVE IInv'
      BY <2>1, <2>2, <2>3, InitialisedKeeps, UpdateKeepsIInv DEF TtcInit
    <2>4. CASE Enable(t)
      BY <2>1, <2>2, <2>4, EnabledKeeps, UpdateKeepsIInv DEF Enable
    <2>5. CASE Disable(t)
      BY <2>1, <2>2, <2>5, DisabledKeeps, UpdateKeepsIInv DEF Disable
    <2>6. ASSUME NEW u \in Times, Request(t, u) PROVE IInv'
      <3>1. Requested(r, u) \in Registers /\ TimerInv(Requested(r, u))
        BY <2>1, RequestedKeeps, TimesAssumption
      <3> QED BY <2>2, <2>6, <3>1, UpdateKeepsIInv DEF Request
    <2>7. ASSUME NEW u \in Times, TickSet(t, u) PROVE IInv'
      <3>1. Requested(r, u) \in Registers /\ TimerInv(Requested(r, u))
        BY <2>1, RequestedKeeps, TimesAssumption
      <3>2. /\ Enabled(Requested(r, u)) \in Registers
            /\ TimerInv(Enabled(Requested(r, u)))
        BY <3>1, EnabledKeeps
      <3> QED BY <2>2, <2>7, <3>2, UpdateKeepsIInv DEF TickSet
    <2>8. CASE InterruptClear(t)
      BY <2>1, <2>8, StatusKeeps, UpdateKeepsIInv DEF InterruptClear
    <2>9. CASE Expire(t)
      BY <2>1, <2>9, StatusKeeps, UpdateKeepsIInv DEF Expire
    <2> QED BY <2>3, <2>4, <2>5, <2>6, <2>7, <2>8, <2>9
  <1> QED BY <1>1, <1>2

\* The registers after a reset satisfy the invariant.
LEMMA InitEstablishesIInv == Init => IInv
  <1>1. 0 \in CounterValues
    BY SMT DEF CounterValues
  <1> QED
    BY <1>1, SMT
    DEF Init, IInv, TypeOK, TimerInv, Registers, Flags, ResetConfig

\* TimerInv implies that the period is longer than the time asked for.
LEMMA TimerInvNotEarly ==
    ASSUME NEW r \in Registers, TimerInv(r), r.asked # 0
    PROVE  Period(r) > 111 * r.asked
  <1> DEFINE u == r.asked
  <1>1. u \in Nat /\ (Fast(u) \/ Slow(u)) /\ r.psEn
    BY DEF Registers, TimerInv
  <1>2. Limit(r) = Ticks(u) /\ Ticks(u) \in Nat
    BY <1>1, TicksFit DEF TimerInv
  <1>3. /\ r.ps = PsFast => Divider(r) = 4
        /\ r.ps = PsSlow => Divider(r) = 4096
    BY <1>1, SMT DEF Divider, Dividers, PsValue, PsFast, PsSlow
  <1>4. CASE Fast(u)
    <2>1. (Ticks(u) + 1) * 4 > 111 * u
      BY <1>1, <1>4, SMT DEF Ticks, FastTicks
    <2>2. Divider(r) = 4 \/ Divider(r) = 4096
      BY <1>3 DEF TimerInv
    <2> QED BY <1>1, <1>2, <2>1, <2>2, SMT DEF Period
  <1>5. CASE Slow(u)
    <2>1. ~Fast(u)
      BY <1>1, <1>5, SMT DEF Fast, Slow
    <2>2. (Ticks(u) + 1) * 4096 > 111 * u
      BY <1>1, <2>1, SMT DEF Ticks, SlowTicks
    <2>3. Divider(r) = 4096
      BY <1>3, <1>5 DEF TimerInv
    <2> QED BY <1>1, <1>2, <2>2, <2>3, SMT DEF Period
  <1> QED BY <1>1, <1>4, <1>5

\* Types: whatever ttc_request is asked for, the value it writes fits the
\* counter register.
THEOREM TtcTypeCorrect == Spec => []TypeOK
  <1>1. IInv => TypeOK
    BY DEF IInv
  <1> QED BY InitEstablishesIInv, StepKeepsIInv, <1>1, PTL DEF Spec

\* No timer interrupts before the time granted to it, for every time asked
\* for and every order of calls.
THEOREM TimersNeverEarly == Spec => []NeverEarly
  <1>1. IInv => NeverEarly
    BY TimerInvNotEarly DEF IInv, TypeOK, NeverEarly
  <1> QED BY InitEstablishesIInv, StepKeepsIInv, <1>1, PTL DEF Spec

-----------------------------------------------------------------------------
\* What a step may do to the registers of a timer with a granted period: it
\* forgets the period, grants another, or keeps the prescaler.
Keeps(r, q) == r.asked # 0 /\ q.asked = r.asked => q.ps = r.ps

\* The time granted and the prescaler determine the period.
LEMMA SamePeriod ==
    ASSUME NEW r \in Registers, NEW q \in Registers, TimerInv(r), TimerInv(q),
           r.asked # 0, q.asked = r.asked, Keeps(r, q)
    PROVE  Period(q) = Period(r)
  <1>1. Limit(q) = Limit(r)
    BY DEF TimerInv
  <1>2. Divider(q) = Divider(r)
    BY DEF TimerInv, Divider, Keeps
  <1> QED BY <1>1, <1>2 DEF Period

\* A request of a timer with a granted period is granted or leaves the
\* prescaler alone; the same time again sets no bit that is not set.
LEMMA RequestedKeepsPrescaler ==
    ASSUME NEW r \in Registers, TimerInv(r), NEW u \in Nat
    PROVE  Keeps(r, Requested(r, u))
  <1> DEFINE d == Disabled(r)
             p == Prescaled(d, u)
             q == Requested(r, u)
  <1>1. SUFFICES ASSUME r.asked # 0, q.asked = r.asked PROVE q.ps = r.ps
    BY DEF Keeps
  <1>2. d \in Registers /\ d.ps = r.ps
    BY DEF Disabled, Registers, Flags
  <1>3. CASE ~Fast(u) /\ ~Slow(u)
    BY <1>2, <1>3 DEF Requested, Granted, Prescaled
  <1>4. CASE Fast(u) \/ Slow(u)
    <2>1. Granted(r, u)
      BY <1>1, <1>4 DEF Granted, TimerInv
    <2>2. /\ p \in Registers
          /\ p.ps = r.ps \cup (IF Fast(u) THEN PsFast ELSE PsSlow)
      <3>1. PsFast \in SUBSET (0..3) /\ PsSlow \in SUBSET (0..3)
        BY DEF PsFast, PsSlow
      <3>2. CASE Fast(u)
        BY <1>2, <3>1, <3>2 DEF Prescaled, Registers
      <3>3. CASE ~Fast(u) /\ Slow(u)
        BY <1>2, <3>1, <3>3 DEF Prescaled, Registers
      <3> QED BY <1>4, <3>2, <3>3
    <2> HIDE DEF p
    <2>3. q = [p EXCEPT !.interv = Ticks(u), !.asked = u]
            \/ q = [p EXCEPT !.match1 = Ticks(u), !.asked = u]
      BY <2>1 DEF Requested, p
    <2>4. q.asked = u /\ q.ps = p.ps
      BY <2>2, <2>3 DEF Registers
    <2>5. u = r.asked
      BY <1>1, <2>4
    <2>6. ~Fast(u) => Slow(u) /\ r.ps = PsSlow
      BY <1>1, <1>4, <2>5 DEF TimerInv
    <2>7. r.ps \in {PsFast, PsSlow}
      BY <1>1 DEF TimerInv
    <2> QED BY <2>2, <2>4, <2>6, <2>7 DEF PsFast, PsSlow
  <1> QED BY <1>3, <1>4

\* The other operations.
LEMMA OthersKeepPrescaler ==
    ASSUME NEW r \in Registers
    PROVE  /\ \A mode \in Modes : Keeps(r, Initialised(r, mode))
           /\ Enabled(r).ps = r.ps /\ Enabled(r).asked = r.asked
           /\ Keeps(r, Enabled(r)) /\ Keeps(r, Disabled(r))
           /\ \A b \in BOOLEAN : Keeps(r, [r EXCEPT !.status = b])
  <1>1. \A mode \in Modes : Initialised(r, mode).asked = 0
    BY DEF Initialised
  <1>2. Enabled(r).ps = r.ps /\ Enabled(r).asked = r.asked
    BY DEF Enabled, Registers
  <1>3. Disabled(r).ps = r.ps
    BY DEF Disabled, Registers
  <1>4. \A b \in BOOLEAN : [r EXCEPT !.status = b].ps = r.ps
    BY DEF Registers
  <1> QED BY <1>1, <1>2, <1>3, <1>4 DEF Keeps

\* Changing one timer so, or none, keeps the prescaler of each.
LEMMA UpdateKeepsPrescalers ==
    ASSUME TypeOK, NEW t \in Timers, NEW q, Keeps(timer[t], q),
           timer' \in {timer, [timer EXCEPT ![t] = q]}
    PROVE  \A s \in Timers : Keeps(timer[s], timer'[s])
  BY DEF TypeOK, Keeps

LEMMA StepKeepsPrescalers ==
    ASSUME IInv, Next
    PROVE  \A s \in Timers : Keeps(timer[s], timer'[s])
  <1> PICK t \in Timers :
        \/ \E mode \in Modes : TtcInit(t, mode)
        \/ Enable(t)
        \/ Disable(t)
        \/ \E u \in Times : Request(t, u) \/ TickSet(t, u)
        \/ InterruptClear(t)
        \/ Expire(t)
    BY DEF Next
  <1> DEFINE r == timer[t]
  <1>1. r \in Registers /\ TimerInv(r) /\ TypeOK
    BY DEF IInv, TypeOK
  <1>2. CASE \E mode \in Modes : TtcInit(t, mode)
    BY <1>1, <1>2, OthersKeepPrescaler, UpdateKeepsPrescalers DEF TtcInit
  <1>3. CASE Enable(t) \/ Disable(t)
    BY <1>1, <1>3, OthersKeepPrescaler, UpdateKeepsPrescalers DEF Enable, Disable
  <1>4. ASSUME NEW u \in Times, Request(t, u) \/ TickSet(t, u)
        PROVE  \A s \in Timers : Keeps(timer[s], timer'[s])
    <2>1. u \in Nat
      BY TimesAssumption
    <2>2. Requested(r, u) \in Registers /\ Keeps(r, Requested(r, u))
      BY <1>1, <2>1, RequestedKeeps, RequestedKeepsPrescaler
    <2>3. Keeps(r, Enabled(Requested(r, u)))
      BY <2>2, OthersKeepPrescaler DEF Keeps
    <2>4. CASE Request(t, u)
      BY <1>1, <2>2, <2>4, UpdateKeepsPrescalers DEF Request
    <2>5. CASE TickSet(t, u)
      BY <1>1, <2>3, <2>5, UpdateKeepsPrescalers DEF TickSet
    <2> QED BY <1>4, <2>4, <2>5
  <1>5. CASE InterruptClear(t) \/ Expire(t)
    <2>1. \E b \in BOOLEAN : timer' = [timer EXCEPT ![t] = [r EXCEPT !.status = b]]
      BY <1>5 DEF InterruptClear, Expire
    <2>2. PICK b \in BOOLEAN : timer' = [timer EXCEPT ![t] = [r EXCEPT !.status = b]]
      BY <2>1
    <2>3. Keeps(r, [r EXCEPT !.status = b])
      BY <1>1, OthersKeepPrescaler
    <2> QED BY <1>1, <2>2, <2>3, UpdateKeepsPrescalers
  <1> QED BY <1>2, <1>3, <1>4, <1>5

\* ttc_request stops the timer and sets prescaler bits before it knows whether
\* it can grant the request, and tick_set enables the timer whatever it said:
\* a period that was granted is all the same exactly what it was, for every
\* order of calls and all times.
THEOREM RefusalsKeepPeriods == Spec => RefusalKeepsPeriod
  <1> DEFINE A == \A t \in Timers :
                    /\ timer[t].asked # 0
                    /\ timer'[t].asked = timer[t].asked
                    => Period(timer'[t]) = Period(timer[t])
  <1>1. IInv /\ IInv' /\ [Next]_vars => [A]_vars
    <2> SUFFICES ASSUME IInv, IInv', Next, NEW t \in Timers, timer[t].asked # 0,
                        timer'[t].asked = timer[t].asked
                 PROVE  Period(timer'[t]) = Period(timer[t])
      OBVIOUS
    <2>1. Keeps(timer[t], timer'[t])
      BY StepKeepsPrescalers
    <2>2. /\ timer[t] \in Registers /\ TimerInv(timer[t])
          /\ timer'[t] \in Registers /\ TimerInv(timer'[t])
      BY DEF IInv, TypeOK
    <2> QED BY <2>1, <2>2, SamePeriod
  <1> QED
    BY <1>1, InitEstablishesIInv, StepKeepsIInv, PTL DEF Spec, RefusalKeepsPeriod
=============================================================================
