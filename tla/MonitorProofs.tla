---------------------------- MODULE MonitorProofs ----------------------------
(***************************************************************************)
(* Theorems about Monitor, for every set of register values, every         *)
(* configuration of interrupts and priorities and every set of hypercalls. *)
(***************************************************************************)
EXTENDS Monitor, SequenceTheorems, TLAPS

IInv == TypeOK /\ StackBalanced /\ MonitorConsistent

-----------------------------------------------------------------------------
\* Pushing words and popping as many again.
LEMMA PushedWords ==
    ASSUME NEW V, NEW ws \in Seq(V), NEW st \in Seq(V)
    PROVE  /\ ws \o st \in Seq(V)
           /\ Len(ws \o st) = Len(ws) + Len(st)
           /\ \A i \in 1..Len(ws) : (ws \o st)[i] = ws[i]
           /\ \A i \in 1..Len(st) : (ws \o st)[Len(ws) + i] = st[i]
  BY ConcatProperties, LenProperties

\* What a pop leaves is the rest of the stack, in place.
LEMMA PoppedWords ==
    ASSUME NEW V, NEW st \in Seq(V), NEW n \in Nat, n <= Len(st)
    PROVE  /\ SubSeq(st, n + 1, Len(st)) \in Seq(V)
           /\ Len(SubSeq(st, n + 1, Len(st))) = Len(st) - n
           /\ \A i \in 1..(Len(st) - n) :
                SubSeq(st, n + 1, Len(st))[i] = st[n + i]
  BY SubSeqProperties, LenProperties

\* The same of the monitor's stack.
LEMMA PushStack ==
    ASSUME stack \in Seq(Vals), NEW ws \in Seq(Vals)
    PROVE  /\ Push(ws) \in Seq(Vals)
           /\ Len(Push(ws)) = Len(ws) + Len(stack)
           /\ \A i \in 1..Len(ws) : Push(ws)[i] = ws[i]
           /\ \A i \in 1..Len(stack) : Push(ws)[Len(ws) + i] = stack[i]
  BY PushedWords DEF Push

\* The same for the monitor stack.
LEMMA PopStack ==
    ASSUME stack \in Seq(Vals), NEW n \in Nat, n <= Len(stack)
    PROVE  /\ Pop(n) \in Seq(Vals)
           /\ Len(Pop(n)) = Len(stack) - n
           /\ \A i \in 1..(Len(stack) - n) : Pop(n)[i] = stack[n + i]
  BY PoppedWords DEF Pop

\* Every bank has its place within the frame it is saved in.
LEMMA FramePositions ==
    /\ \A b \in FrameBanks : FramePos[b] \in 1..FrameSize
    /\ \A b \in FiqFrameBanks : FiqFramePos[b] \in 1..FiqFrameSize
    /\ \A b \in CallFrameBanks : CallFramePos[b] \in 1..CallFrameSize
  BY DEF FrameBanks, FramePos, FrameSize, FiqFrameBanks, FiqFramePos, FiqFrameSize,
         CallFrameBanks, CallFramePos, CallFrameSize

\* The initial states satisfy the invariant.
LEMMA InitIInv == Init => IInv
  <1> SUFFICES ASSUME Init PROVE IInv
    OBVIOUS
  <1>1. cpu \in [Banks -> Vals] /\ ctx \in [CtxBanks -> Vals]
    BY RegFilesAssumption DEF Init, Worlds, Banks, CtxBanks, FrameBanks
  <1>2. TypeOK
    BY <1>1, MmioAssumption DEF Init, TypeOK, Controls
  <1>3. StackBalanced
    BY DEF Init, StackBalanced, InS, InNs
  <1>4. MonitorConsistent
    BY <1>1 DEF Init, MonitorConsistent, Clobbered
  <1> QED
    BY <1>2, <1>3, <1>4 DEF IInv

-----------------------------------------------------------------------------
\* Every step preserves the invariant: one lemma per group of steps.
LEMMA ComputeIInv ==
    ASSUME IInv, NEW w \in Worlds, Compute(w)
    PROVE  IInv'
  <1> USE DEF IInv, Compute
  <1>1. cpu' \in [Banks -> Vals]
    BY RegFilesAssumption DEF Worlds
  <1>2. TypeOK'
    BY <1>1 DEF TypeOK, gic
  <1>3. StackBalanced'
    BY DEF StackBalanced, InS, InNs
  <1>4. MonitorConsistent'
    BY <1>1 DEF MonitorConsistent, Clobbered
  <1> QED
    BY <1>2, <1>3, <1>4

\* A device touches nothing but its line.
LEMMA RaiseIInv ==
    ASSUME IInv, NEW i \in Ints, Raise(i)
    PROVE  IInv'
  BY DEF IInv, Raise, TypeOK, StackBalanced, InS, InNs, MonitorConsistent, Clobbered

\* Yield pushes the frame of S on an empty stack.
LEMMA YieldIInv ==
    ASSUME IInv, Yield
    PROVE  IInv'
  <1> USE DEF IInv, Yield, InS, gic
  <1>1. Frame \in Seq(Vals) /\ Len(Frame) = FrameSize
    BY DEF Frame, FrameSize, MonitorConsistent, Clobbered, Banks, CtxBanks, FrameBanks
  <1>2. stack' \in Seq(Vals) /\ Len(stack') = FrameSize
    BY <1>1, PushStack DEF TypeOK, StackBalanced, FrameSize
  <1>3. TypeOK'
    BY <1>2 DEF TypeOK, Controls
  <1>4. StackBalanced'
    BY <1>2 DEF StackBalanced, InNs
  <1>5. MonitorConsistent'
    BY DEF MonitorConsistent, Clobbered, TypeOK
  <1> QED
    BY <1>3, <1>4, <1>5

\* The switch to NS takes every bank the monitor used from the context.
LEMMA SchedRestoreIInv ==
    ASSUME IInv, SchedRestore
    PROVE  IInv'
  <1> USE DEF IInv, SchedRestore, ScrNsSet, WorldContextRestore, gic
  <1>1. cpu' \in [Banks -> Vals]
    BY DEF TypeOK, MonitorConsistent, Clobbered, Banks, CtxBanks, FrameBanks
  <1>2. TypeOK'
    BY <1>1 DEF TypeOK, Controls
  <1>3. StackBalanced'
    BY DEF StackBalanced, InS, InNs
  <1>4. MonitorConsistent'
    BY <1>1 DEF MonitorConsistent, Clobbered
  <1> QED
    BY <1>2, <1>3, <1>4

\* The call frame goes on top of what the caller's world has there.
LEMMA BoardSmcIInv ==
    ASSUME IInv, NEW call \in BoardCalls, BoardSmc(call)
    PROVE  IInv'
  <1>0. cpu \in [Banks -> Vals] /\ stack \in Seq(Vals)
    BY DEF IInv, BoardSmc, TypeOK, MonitorConsistent, Clobbered
  <1>1. CallFrame \in Seq(Vals) /\ Len(CallFrame) = CallFrameSize
    BY <1>0 DEF CallFrame, CallFrameSize, Banks, CtxBanks
  <1>2. stack' \in Seq(Vals) /\ Len(stack') = CallFrameSize + Len(stack)
    <2>1. stack' = Push(CallFrame)
      BY DEF BoardSmc
    <2> QED
      BY <1>0, <1>1, <2>1, PushStack
  <1>3. TypeOK'
    BY <1>0, <1>2 DEF IInv, BoardSmc, gic, TypeOK, Controls, Banks, CtxBanks
  <1>4. StackBalanced'
    <2>1. /\ control = "guest" /\ control' = "board_return" /\ scr' = scr
      BY DEF BoardSmc
    <2>2. CASE scr.ns
      <3>1. Len(stack) = FrameSize
        BY <2>1, <2>2 DEF IInv, StackBalanced, InNs
      <3>2. Len(stack') = FrameSize + CallFrameSize
        BY <1>2, <3>1 DEF FrameSize, CallFrameSize
      <3> QED
        BY <2>1, <2>2, <3>2 DEF StackBalanced, InS, InNs
    <2>3. CASE ~scr.ns
      BY <1>2, <2>1, <2>3 DEF IInv, StackBalanced, InS, InNs, FrameSize, CallFrameSize
    <2> QED
      BY <2>2, <2>3
  <1>5. MonitorConsistent'
    BY <1>0 DEF IInv, BoardSmc, MonitorConsistent, Clobbered, CallFrameBanks, TypeOK
  <1> QED
    BY <1>3, <1>4, <1>5 DEF IInv

\* The pop uncovers what was there before, and reloads all that was used.
LEMMA BoardReturnIInv ==
    ASSUME IInv, BoardReturn
    PROVE  IInv'
  <1>0. stack \in Seq(Vals) /\ control = "board_return"
    BY DEF IInv, TypeOK, BoardReturn, CallFrameReload
  <1>1. /\ ~scr.ns => Len(stack) = CallFrameSize
        /\ scr.ns => Len(stack) = FrameSize + CallFrameSize
    BY <1>0 DEF IInv, StackBalanced
  <1>2. CallFrameSize \in Nat /\ CallFrameSize <= Len(stack)
    BY <1>1 DEF CallFrameSize, FrameSize
  <1>3. stack' \in Seq(Vals) /\ Len(stack') = Len(stack) - CallFrameSize
    <2>1. stack' = Pop(CallFrameSize)
      BY DEF BoardReturn, CallFrameReload
    <2> QED
      BY <1>0, <1>2, <2>1, PopStack
  <1>4. cpu' \in [Banks -> Vals]
    <2> SUFFICES ASSUME NEW b \in Banks PROVE cpu'[b] \in Vals
      BY DEF BoardReturn, CallFrameReload
    <2>1. CASE b \in CallFrameBanks
      <3>1. cpu'[b] = stack[CallFramePos[b]] /\ CallFramePos[b] \in 1..Len(stack)
        BY <1>0, <1>2, <2>1, FramePositions DEF BoardReturn, CallFrameReload
      <3> QED
        BY <1>0, <3>1, ElementOfSeq
    <2>2. CASE b \notin CallFrameBanks
      BY <1>0, <2>2 DEF IInv, BoardReturn, CallFrameReload, MonitorConsistent, Clobbered
    <2> QED
      BY <2>1, <2>2
  <1>5. TypeOK'
    BY <1>3, <1>4 DEF IInv, BoardReturn, CallFrameReload, gic, TypeOK, Controls
  <1>6. StackBalanced'
    <2>1. control' = "guest" /\ scr' = scr
      BY DEF BoardReturn, CallFrameReload
    <2>2. CASE scr.ns
      BY <1>1, <1>3, <2>1, <2>2 DEF StackBalanced, InS, InNs, FrameSize, CallFrameSize
    <2>3. CASE ~scr.ns
      BY <1>1, <1>3, <2>1, <2>3 DEF StackBalanced, InS, InNs, FrameSize, CallFrameSize
    <2> QED
      BY <2>2, <2>3
  <1>7. MonitorConsistent'
    BY <1>4 DEF IInv, BoardReturn, CallFrameReload, MonitorConsistent, Clobbered
  <1> QED
    BY <1>5, <1>6, <1>7 DEF IInv

\* A number without a meaning changes no register.
LEMMA UnknownSmcIInv ==
    ASSUME IInv, UnknownSmc
    PROVE  IInv'
  BY DEF IInv, UnknownSmc, TypeOK, Controls, StackBalanced, InS, InNs,
         MonitorConsistent, Clobbered, gic

\* The FIQ handler pushes its frame on top of the frame of S.
LEMMA FiqEntryIInv ==
    ASSUME IInv, FiqEntry
    PROVE  IInv'
  <1>1. FiqFrame \in Seq(Vals) /\ Len(FiqFrame) = FiqFrameSize
    BY DEF IInv, FiqEntry, InNs, FiqFrame, FiqFrameSize, MonitorConsistent, Clobbered, Banks, CtxBanks
  <1>2. stack' \in Seq(Vals) /\ Len(stack') = FrameSize + FiqFrameSize
    <2>1. stack \in Seq(Vals) /\ Len(stack) = FrameSize /\ stack' = Push(FiqFrame)
      BY DEF IInv, FiqEntry, TypeOK, StackBalanced
    <2>2. stack' \in Seq(Vals) /\ Len(stack') = Len(FiqFrame) + Len(stack)
      BY <1>1, <2>1, PushStack
    <2> QED
      BY <1>1, <2>1, <2>2 DEF FrameSize, FiqFrameSize
  <1>3. TypeOK'
    BY <1>2 DEF IInv, FiqEntry, gic, TypeOK, Controls
  <1>4. StackBalanced'
    BY <1>2 DEF FiqEntry, StackBalanced, InS, InNs
  <1>5. MonitorConsistent'
    BY DEF IInv, FiqEntry, InNs, MonitorConsistent, Clobbered
  <1> QED
    BY <1>3, <1>4, <1>5 DEF IInv

\* What ICCIAR returns is an interrupt number or one of the two reserved ones.
LEMMA IccIarType ==
    /\ SecureIccIar(line, active) \in Nat
    /\ NonSecureIccIar(line, active) \in Nat
  <1>1. /\ Fiq(line, active) => SecureIccIar(line, active) \in Secure
        /\ Irq(line, active) => NonSecureIccIar(line, active) \in NonSecure
    BY Zenon DEF SecureIccIar, NonSecureIccIar, Fiq, Irq
  <1>2. /\ ~Fiq(line, active) => SecureIccIar(line, active) \in Nat
        /\ ~Irq(line, active) => NonSecureIccIar(line, active) \in Nat
    BY DEF SecureIccIar, NonSecureIccIar, OtherGroup, Spurious
  <1> QED
    BY <1>1, <1>2, IntsAssumption

\* Acknowledges and ends stay within the interrupts of the system.
LEMMA AcknowledgeType ==
    ASSUME NEW id, active \in SUBSET Ints
    PROVE  Acknowledge(id, active) \in SUBSET Ints /\ EndOfInterrupt(id, active) \in SUBSET Ints
  BY DEF Acknowledge, EndOfInterrupt

\* The first read uses registers that are already saved.
LEMMA FiqReadIdIInv ==
    ASSUME IInv, FiqReadId
    PROVE  IInv'
  <1> USE DEF IInv, FiqReadId
  <1>1. TypeOK'
    BY IccIarType, AcknowledgeType DEF TypeOK, Controls
  <1>2. StackBalanced'
    BY DEF StackBalanced, InS, InNs
  <1>3. MonitorConsistent'
    BY DEF MonitorConsistent, Clobbered, TypeOK
  <1> QED
    BY <1>1, <1>2, <1>3

\* So does the second.
LEMMA FiqAckIInv ==
    ASSUME IInv, FiqAck
    PROVE  IInv'
  <1> USE DEF IInv, FiqAck
  <1>1. TypeOK'
    BY AcknowledgeType DEF TypeOK, Controls
  <1>2. StackBalanced'
    BY DEF StackBalanced, InS, InNs
  <1>3. MonitorConsistent'
    BY DEF MonitorConsistent, Clobbered
  <1> QED
    BY <1>1, <1>2, <1>3

\* The context of NS gets no value of the monitor's own, and the frame goes.
LEMMA FiqSaveIInv ==
    ASSUME IInv, FiqSave
    PROVE  IInv'
  <1>1. stack \in Seq(Vals) /\ Len(stack) = FrameSize + FiqFrameSize
    BY DEF IInv, FiqSave, ScrNsClear, WorldContextSave, TypeOK, StackBalanced
  <1>2. FiqFrameSize \in Nat /\ FiqFrameSize <= Len(stack)
    BY <1>1 DEF FrameSize, FiqFrameSize
  <1>3. stack' \in Seq(Vals) /\ Len(stack') = FrameSize
    <2>1. stack' = Pop(FiqFrameSize)
      BY DEF FiqSave, ScrNsClear, WorldContextSave
    <2>2. stack' \in Seq(Vals) /\ Len(stack') = Len(stack) - FiqFrameSize
      BY <1>1, <1>2, <2>1, PopStack
    <2> QED
      BY <1>1, <2>2 DEF FrameSize, FiqFrameSize
  <1>4. ctx' \in [CtxBanks -> Vals]
    <2> SUFFICES ASSUME NEW b \in CtxBanks PROVE ctx'[b] \in Vals
      BY DEF FiqSave, ScrNsClear, WorldContextSave
    <2>1. CASE b \in FiqFrameBanks
      <3>1. ctx'[b] = stack[FiqFramePos[b]] /\ FiqFramePos[b] \in 1..Len(stack)
        BY <1>1, <1>2, <2>1, FramePositions DEF FiqSave, ScrNsClear, WorldContextSave
      <3> QED
        BY <1>1, <3>1, ElementOfSeq
    <2>2. CASE b \notin FiqFrameBanks
      BY <2>2 DEF IInv, FiqSave, ScrNsClear, WorldContextSave, FiqFrameBanks, MonitorConsistent, Clobbered, Banks
    <2> QED
      BY <2>1, <2>2
  <1>5. TypeOK'
    BY <1>3, <1>4 DEF IInv, FiqSave, ScrNsClear, WorldContextSave, gic, TypeOK, Controls
  <1>6. StackBalanced'
    BY <1>3 DEF FiqSave, ScrNsClear, WorldContextSave, StackBalanced, InS, InNs
  <1>7. MonitorConsistent'
    BY DEF IInv, FiqSave, ScrNsClear, WorldContextSave, MonitorConsistent, Clobbered
  <1> QED
    BY <1>5, <1>6, <1>7 DEF IInv

\* The C handler leaves the stack as it found it.
LEMMA FiqHandleIInv ==
    ASSUME IInv, FiqHandle
    PROVE  IInv'
  <1> USE DEF IInv, FiqHandle
  <1>1. TypeOK'
    BY DEF TypeOK, Controls
  <1>2. StackBalanced'
    BY DEF StackBalanced, InS, InNs
  <1>3. MonitorConsistent'
    BY DEF MonitorConsistent, Clobbered, TypeOK
  <1> QED
    BY <1>1, <1>2, <1>3

\* So does interrupt_clear.
LEMMA FiqEoiIInv ==
    ASSUME IInv, FiqEoi
    PROVE  IInv'
  <1> USE DEF IInv, FiqEoi
  <1>1. TypeOK'
    BY AcknowledgeType DEF TypeOK, Controls
  <1>2. StackBalanced'
    BY DEF StackBalanced, InS, InNs
  <1>3. MonitorConsistent'
    BY DEF MonitorConsistent, Clobbered
  <1> QED
    BY <1>1, <1>2, <1>3

\* The frame of S replaces every bank the handler used.
LEMMA FiqReturnIInv ==
    ASSUME IInv, FiqReturn
    PROVE  IInv'
  <1> USE DEF IInv, FiqReturn, FrameReload, gic
  <1>1. stack \in Seq(Vals) /\ Len(stack) = FrameSize
    BY DEF TypeOK, StackBalanced
  <1>2. stack' \in Seq(Vals) /\ Len(stack') = 0
    BY <1>1, PopStack DEF FrameSize
  <1>3. cpu' \in [Banks -> Vals]
    <2> SUFFICES ASSUME NEW b \in Banks PROVE cpu'[b] \in Vals
      OBVIOUS
    <2>1. CASE b \in FrameBanks
      <3>1. cpu'[b] = stack[FramePos[b]] /\ FramePos[b] \in 1..Len(stack)
        BY <1>1, <2>1, FramePositions
      <3> QED
        BY <1>1, <3>1, ElementOfSeq
    <2>2. CASE b \notin FrameBanks
      BY <2>2 DEF FrameBanks, MonitorConsistent, Clobbered
    <2> QED
      BY <2>1, <2>2
  <1>4. TypeOK'
    BY <1>2, <1>3 DEF TypeOK, Controls
  <1>5. StackBalanced'
    BY <1>2 DEF StackBalanced, InS, InNs, MonitorConsistent
  <1>6. MonitorConsistent'
    BY <1>3 DEF MonitorConsistent, Clobbered
  <1> QED
    BY <1>4, <1>5, <1>6

\* The interrupt handling of NS leaves the monitor alone.
LEMMA NsIrqIInv ==
    ASSUME IInv, NsIrqAck \/ \E i \in NonSecure : NsIrqDone(i)
    PROVE  IInv'
  <1> USE DEF IInv, NsIrqAck, NsIrqDone
  <1>1. TypeOK'
    BY AcknowledgeType DEF TypeOK
  <1>2. StackBalanced'
    BY DEF StackBalanced, InS, InNs
  <1>3. MonitorConsistent'
    BY DEF MonitorConsistent, Clobbered
  <1> QED
    BY <1>1, <1>2, <1>3

\* Every step keeps the inductive invariant.
LEMMA NextIInv == IInv /\ [Next]_vars => IInv'
  <1> SUFFICES ASSUME IInv, [Next]_vars PROVE IInv'
    OBVIOUS
  <1>1. CASE Guest
    BY <1>1, ComputeIInv, BoardSmcIInv, YieldIInv, UnknownSmcIInv, NsIrqIInv DEF Guest
  <1>2. CASE FiqEntry
    BY <1>2, FiqEntryIInv
  <1>3. CASE MonitorStep
    BY <1>3, SchedRestoreIInv, BoardReturnIInv, FiqReadIdIInv, FiqAckIInv,
       FiqSaveIInv, FiqHandleIInv, FiqEoiIInv, FiqReturnIInv DEF MonitorStep
  <1>4. CASE \E i \in Ints : Raise(i)
    BY <1>4, RaiseIInv
  <1>5. CASE UNCHANGED vars
    BY <1>5 DEF vars, IInv, TypeOK, StackBalanced, InS, InNs, MonitorConsistent, Clobbered
  <1> QED
    BY <1>1, <1>2, <1>3, <1>4, <1>5 DEF Next

\* So every reachable state satisfies it.
LEMMA SpecIInv == Spec => []IInv
  BY InitIInv, NextIInv, PTL DEF Spec

-----------------------------------------------------------------------------
\* Every variable of the monitor keeps its type: in particular the saved
\* context and the stack only ever hold what a guest left in a register.
THEOREM TypeCorrect == Spec => []TypeOK
  <1>1. IInv => TypeOK
    BY DEF IInv
  <1> QED
    BY <1>1, SpecIInv, PTL

\* What _mon_scheduler and _mon_fiq_handler push and pop is balanced over
\* every sequence of hypercalls, switches and interrupts.
THEOREM StackIsBalanced == Spec => []StackBalanced
  <1>1. IInv => StackBalanced
    BY DEF IInv
  <1> QED
    BY <1>1, SpecIInv, PTL

\* The SCR agrees with the world the monitor was entered from and goes to, and
\* no guest ever runs with a register the monitor's code has left its own value
\* in.
THEOREM MonitorIsConsistent == Spec => []MonitorConsistent
  <1>1. IInv => MonitorConsistent
    BY DEF IInv
  <1> QED
    BY <1>1, SpecIInv, PTL

\* FIQs are routed to the monitor exactly while NS runs, and IRQs never.
THEOREM RoutesAreRight == Spec => []RoutesMatchWorld
  <1>1. IInv => RoutesMatchWorld
    BY DEF IInv, MonitorConsistent, RoutesMatchWorld, InS, InNs
  <1> QED
    BY <1>1, SpecIInv, PTL

-----------------------------------------------------------------------------
(***************************************************************************)
(* What the FIQ handler needs of the interrupt priorities, and what it     *)
(* then guarantees.                                                        *)
(***************************************************************************)

\* Every secure interrupt is more urgent than every non-secure one: the case
\* when all priorities of NS interrupts are written by NS.
SecureFirst == \A i \in Secure : \A j \in NonSecure : Prio[i] < Prio[j]

\* No secure interrupt preempts another.
SecureEqual == \A i \in Secure : \A j \in Secure : Prio[i] = Prio[j]

\* From the read of the id to the dispatch, the id is that of an asserted,
\* active secure interrupt; before the read there is one to be read.
Claimed == interrupt \in Secure /\ interrupt \in active /\ interrupt \in line

DInv ==
    /\ control = "fiq_id" => Fiq(line, active)
    /\ control \in {"fiq_ack", "fiq_save", "fiq_handle"} => Claimed
    /\ control = "fiq_eoi" => interrupt \in Secure /\ interrupt \in active
    /\ control # "fiq_astray"

\* The only secure interrupt that is active is the one being handled.
CInv ==
    \A i \in active \cap Secure :
        /\ control \in {"fiq_ack", "fiq_save", "fiq_handle", "fiq_eoi"}
        /\ i = interrupt

-----------------------------------------------------------------------------
\* A secure read of ICCIAR while a FIQ is signalled returns the interrupt
\* that is; one while none is returns no interrupt.
LEMMA SecureReadSome ==
    ASSUME Fiq(line, active)
    PROVE  /\ SecureIccIar(line, active) \in Secure
           /\ SecureIccIar(line, active) \in line \ active
  <1>1. /\ SecureIccIar(line, active) \in Secure
        /\ Signalled(SecureIccIar(line, active), line, active)
    BY Zenon DEF SecureIccIar, Fiq
  <1> QED
    BY <1>1 DEF Signalled, IsBest

\* A read while no FIQ is signalled returns a number that is no interrupt.
LEMMA SecureReadNone ==
    ASSUME ~Fiq(line, active)
    PROVE  SecureIccIar(line, active) \notin Ints
  <1>1. SecureIccIar(line, active) \in {1022, 1023}
    BY DEF SecureIccIar, OtherGroup, Spurious
  <1> QED
    BY <1>1, TableAssumption, IntsAssumption DEF TableSize, Ints

\* A signalled FIQ stays signalled when a device raises its line: a new
\* candidate that takes over is secure as well.
LEMMA FiqStays ==
    ASSUME SecureFirst, line \in SUBSET Ints, active \in SUBSET Ints,
           NEW k \in Ints, Fiq(line, active)
    PROVE  Fiq(line \cup {k}, active)
  <1>1. PICK i \in Secure : Signalled(i, line, active)
    BY DEF Fiq
  <1>2. /\ i \in line \ active
        /\ \A j \in (line \ active) \ {i} : MoreUrgent(i, j)
        /\ \A j \in active : Prio[i] < Prio[j]
    BY <1>1 DEF Signalled, IsBest
  <1>3. /\ \A j \in Ints : Prio[j] \in Nat /\ j \in Nat
        /\ i \in Ints
    BY PrioAssumption, IntsAssumption DEF Ints
  <1>4. CASE k \in active \/ k = i \/ MoreUrgent(i, k)
    <2>1. \A j \in ((line \cup {k}) \ active) \ {i} : MoreUrgent(i, j)
      BY <1>2, <1>4
    <2>2. Signalled(i, line \cup {k}, active)
      BY <1>2, <2>1 DEF Signalled, IsBest
    <2> QED
      BY <2>2 DEF Fiq
  <1>5. CASE k \notin active /\ k # i /\ ~MoreUrgent(i, k)
    <2>1. Prio[k] < Prio[i] \/ (Prio[k] = Prio[i] /\ k < i)
      BY <1>3, <1>5 DEF MoreUrgent
    <2>2. k \in Secure
      BY <1>3, <2>1 DEF SecureFirst, Ints
    <2>3. \A j \in ((line \cup {k}) \ active) \ {k} : MoreUrgent(k, j)
      BY <1>2, <1>3, <2>1 DEF MoreUrgent
    <2>4. \A j \in active : Prio[k] < Prio[j]
      BY <1>2, <1>3, <2>1
    <2>5. Signalled(k, line \cup {k}, active)
      BY <1>5, <2>3, <2>4 DEF Signalled, IsBest
    <2> QED
      BY <2>2, <2>5 DEF Fiq
  <1> QED
    BY <1>4, <1>5

-----------------------------------------------------------------------------
\* No interrupt is being handled at the start.
LEMMA InitDInv == Init => DInv
  BY DEF Init, DInv

\* Every step keeps the claim on the interrupt being handled.
LEMMA NextDInv ==
    ASSUME SecureFirst, IInv, DInv, [Next]_vars
    PROVE  DInv'
  <1> USE DEF DInv, Claimed
  <1>1. ASSUME NEW k \in Ints, Raise(k) PROVE DInv'
    <2>1. Fiq(line, active) => Fiq(line', active')
      BY <1>1, FiqStays DEF Raise, IInv, TypeOK
    <2>2. (Fiq(line, active))' <=> Fiq(line', active')
      BY DEF Fiq, Signalled, IsBest, MoreUrgent
    <2> QED
      BY <1>1, <2>1, <2>2 DEF Raise
  <1>2. CASE FiqEntry
    BY <1>2 DEF FiqEntry, gic, Fiq, Signalled, IsBest, MoreUrgent
  <1>3. CASE FiqReadId
    BY <1>3, SecureReadSome DEF FiqReadId, Acknowledge, Ints
  <1>4. CASE FiqAck
    BY <1>4 DEF FiqAck, Acknowledge
  <1>5. CASE FiqSave
    BY <1>5 DEF FiqSave, gic
  <1>6. CASE FiqHandle
    <2>1. interrupt < TableSize
      BY <1>6, TableAssumption DEF FiqHandle, Ints
    <2>2. interrupt \in Nat
      BY DEF IInv, TypeOK
    <2>3. ~(interrupt >= TableSize)
      BY <2>1, <2>2 DEF TableSize
    <2> QED
      BY <1>6, <2>3 DEF FiqHandle
  <1>7. CASE FiqEoi \/ FiqReturn \/ SchedRestore \/ BoardReturn
    BY <1>7 DEF FiqEoi, FiqReturn, SchedRestore, BoardReturn
  <1>8. CASE Guest
    BY <1>8 DEF Guest, Compute, BoardSmc, Yield, UnknownSmc, NsIrqAck, NsIrqDone,
                InS, InNs
  <1>9. CASE UNCHANGED vars
    BY <1>9 DEF vars, Fiq, Signalled, IsBest, MoreUrgent
  <1> QED
    BY <1>1, <1>2, <1>3, <1>4, <1>5, <1>6, <1>7, <1>8, <1>9 DEF Next, MonitorStep

\* Where every secure interrupt is more urgent than the non-secure ones,
\* fiq_handler is only ever given the number of a secure interrupt that is
\* asserted and active: a FIQ whose interrupt went away, or the reserved
\* numbers past the end of fiq_handlers, do not reach it.
THEOREM DispatchCurrent == SecureFirst => (Spec => []DispatchIsCurrent)
  <1> SUFFICES ASSUME SecureFirst PROVE Spec => []DispatchIsCurrent
    OBVIOUS
  <1>1. Init => DInv
    BY InitDInv
  <1>2. IInv /\ DInv /\ [Next]_vars => DInv'
    BY NextDInv
  <1>3. DInv => DispatchIsCurrent
    BY DEF DInv, Claimed, DispatchIsCurrent
  <1> QED
    BY <1>1, <1>2, <1>3, SpecIInv, PTL DEF Spec

-----------------------------------------------------------------------------
\* No interrupt is active at the start.
LEMMA InitCInv == Init => CInv
  BY DEF Init, CInv

\* With one priority for all secure interrupts, the second read of ICCIAR
\* acknowledges none of them.
LEMMA NextCInv ==
    ASSUME SecureFirst, SecureEqual, IInv, DInv, CInv, [Next]_vars
    PROVE  CInv'
  <1> USE DEF CInv
  <1>1. CASE FiqReadId
    BY <1>1 DEF FiqReadId, Acknowledge
  <1>2. CASE FiqAck
    <2>1. Claimed
      BY <1>2 DEF FiqAck, DInv
    <2>2. ~Fiq(line, active)
      <3> SUFFICES ASSUME NEW i \in Secure, Signalled(i, line, active) PROVE FALSE
        BY DEF Fiq
      <3>1. Prio[i] < Prio[interrupt] /\ Prio[i] = Prio[interrupt]
        BY <2>1 DEF Claimed, Signalled, SecureEqual
      <3>2. Prio[i] \in Nat
        BY PrioAssumption DEF Ints
      <3> QED
        BY <3>1, <3>2
    <2>3. active' = active
      BY <1>2, <2>2, SecureReadNone DEF FiqAck, Acknowledge
    <2> QED
      BY <1>2, <2>3 DEF FiqAck
  <1>3. CASE FiqEoi
    BY <1>3 DEF FiqEoi, EndOfInterrupt
  <1>4. CASE FiqHandle
    BY <1>4, NextDInv DEF FiqHandle, DInv
  <1>5. CASE FiqEntry \/ FiqSave \/ FiqReturn \/ SchedRestore \/ BoardReturn
    BY <1>5 DEF FiqEntry, InNs, FiqSave, FiqReturn, SchedRestore, BoardReturn, gic
  <1>6. CASE NsIrqAck
    <2>1. NonSecureIccIar(line, active) \in NonSecure
      BY <1>6, Zenon DEF NsIrqAck, NonSecureIccIar, Irq
    <2> QED
      BY <1>6, <2>1, IntsAssumption DEF NsIrqAck, InNs, Acknowledge
  <1>7. CASE \E i \in NonSecure : NsIrqDone(i)
    BY <1>7 DEF NsIrqDone, InNs, EndOfInterrupt
  <1>8. CASE \/ \E w \in Worlds : Compute(w)
             \/ \E call \in BoardCalls : BoardSmc(call)
             \/ Yield
             \/ UnknownSmc
    BY <1>8 DEF Compute, BoardSmc, Yield, UnknownSmc, InS, gic
  <1>9. CASE \E i \in Ints : Raise(i)
    BY <1>9 DEF Raise
  <1>10. CASE UNCHANGED vars
    BY <1>10 DEF vars
  <1> QED
    BY <1>1, <1>2, <1>3, <1>4, <1>5, <1>6, <1>7, <1>8, <1>9, <1>10
       DEF Next, MonitorStep, Guest

\* Where, besides, no secure interrupt preempts another, the second read of
\* ICCIAR acknowledges nothing: whatever is acknowledged is ended before a
\* guest runs again.
THEOREM SecureInterruptsAreCompleted ==
    SecureFirst /\ SecureEqual => (Spec => []SecureInterruptsCompleted)
  <1> SUFFICES ASSUME SecureFirst, SecureEqual
               PROVE  Spec => []SecureInterruptsCompleted
    OBVIOUS
  <1>1. Init => DInv /\ CInv
    BY InitDInv, InitCInv
  <1>2. IInv /\ DInv /\ CInv /\ [Next]_vars => DInv' /\ CInv'
    BY NextDInv, NextCInv
  <1>3. CInv => SecureInterruptsCompleted
    BY DEF CInv, SecureInterruptsCompleted
  <1> QED
    BY <1>1, <1>2, <1>3, SpecIInv, PTL DEF Spec

\* Under the same condition the ends are written in the order the GIC
\* requires, innermost first.
THEOREM EoisInOrder ==
    SecureFirst /\ SecureEqual => (Spec => []EoiInOrder)
  <1> SUFFICES ASSUME SecureFirst, SecureEqual PROVE Spec => []EoiInOrder
    OBVIOUS
  <1>1. Init => DInv /\ CInv
    BY InitDInv, InitCInv
  <1>2. IInv /\ DInv /\ CInv /\ [Next]_vars => DInv' /\ CInv'
    BY NextDInv, NextCInv
  <1>3. IInv /\ DInv /\ CInv => EoiInOrder
    BY DEF IInv, TypeOK, DInv, CInv, EoiInOrder, SecureFirst, Ints
  <1> QED
    BY <1>1, <1>2, <1>3, SpecIInv, PTL DEF Spec

-----------------------------------------------------------------------------
(***************************************************************************)
(* The monitor implements TwoWorlds: whatever the interleaving of          *)
(* hypercalls, switches and interrupts, no world's registers are changed   *)
(* by anything but that world.                                             *)
(***************************************************************************)
\* Every bank is found where it was pushed.
LEMMA FrameWords ==
    /\ \A b \in FrameBanks : Frame[FramePos[b]] = cpu[b]
    /\ \A b \in FiqFrameBanks : FiqFrame[FiqFramePos[b]] = cpu[b]
    /\ \A b \in CallFrameBanks : CallFrame[CallFramePos[b]] = cpu[b]
  BY DEF Frame, FramePos, FrameBanks, FiqFrame, FiqFramePos, FiqFrameBanks,
         CallFrame, CallFramePos, CallFrameBanks

\* The frame of S at the bottom of the stack is untouched by what is pushed
\* on top of it, and by popping that again.
LEMMA FrameUnderPush ==
    ASSUME stack \in Seq(Vals), FrameSize <= Len(stack),
           NEW ws \in Seq(Vals), stack' = Push(ws), NEW b \in FrameBanks
    PROVE  FrameOf(b)' = FrameOf(b)
  <1> DEFINE i == Len(stack) - FrameSize + FramePos[b]
  <1>1. i \in 1..Len(stack) /\ FramePos[b] \in 1..FrameSize
    BY FramePositions DEF FrameSize
  <1>2. Len(stack') = Len(ws) + Len(stack) /\ stack'[Len(ws) + i] = stack[i]
    BY <1>1, PushStack
  <1>3. Len(stack') - FrameSize + FramePos[b] = Len(ws) + i
    <2>1. Len(ws) \in Nat /\ Len(stack) \in Nat /\ FramePos[b] \in Nat
      BY <1>1, LenProperties DEF FrameSize
    <2>2. Len(stack') = Len(ws) + Len(stack)
      BY <1>2
    <2> QED
      BY <2>1, <2>2 DEF FrameSize
  <1> QED
    BY <1>2, <1>3 DEF FrameOf

\* The frame of S stays the same when what lies on top of it is popped.
LEMMA FrameUnderPop ==
    ASSUME stack \in Seq(Vals), NEW n \in Nat, n + FrameSize <= Len(stack),
           stack' = Pop(n), NEW b \in FrameBanks
    PROVE  FrameOf(b)' = FrameOf(b)
  <1> DEFINE i == Len(stack) - n - FrameSize + FramePos[b]
  <1>1. FramePos[b] \in 1..FrameSize /\ n <= Len(stack)
    BY FramePositions, LenProperties DEF FrameSize
  <1>2. i \in 1..(Len(stack) - n)
    BY <1>1, LenProperties DEF FrameSize
  <1>3. Len(stack') = Len(stack) - n /\ stack'[i] = stack[n + i]
    BY <1>1, <1>2, PopStack
  <1>4. /\ Len(stack') - FrameSize + FramePos[b] = i
        /\ n + i = Len(stack) - FrameSize + FramePos[b]
    <2>1. Len(stack) \in Nat /\ FramePos[b] \in Nat
      BY <1>1, LenProperties DEF FrameSize
    <2>2. Len(stack') = Len(stack) - n
      BY <1>3
    <2> QED
      BY <2>1, <2>2 DEF FrameSize
  <1> QED
    BY <1>3, <1>4 DEF FrameOf

-----------------------------------------------------------------------------
\* The three kinds of steps, in terms of the registers of the two worlds.
LEMMA StutterStep ==
    ASSUME SecureRegs' = SecureRegs, NonSecureRegs' = NonSecureRegs,
           RunsS' <=> RunsS
    PROVE  UNCHANGED TW!vars
  BY DEF TW!vars

\* A step that hands over the CPU and keeps both register files is a Switch.
LEMMA SwitchStep ==
    ASSUME SecureRegs' = SecureRegs, NonSecureRegs' = NonSecureRegs,
           RunsS' <=> ~RunsS
    PROVE  TW!Next
  BY DEF TW!Next, TW!Switch, TW!Worlds

\* A step of S that keeps the registers of NS is a Compute of S.
LEMMA SecureStep ==
    ASSUME SecureRegs' \in [FrameBanks -> Vals], NonSecureRegs' = NonSecureRegs,
           RunsS, RunsS'
    PROVE  TW!Next
  <1>1. TW!Compute("S")
    BY DEF TW!Compute, TW!Worlds, Worlds
  <1> QED
    BY <1>1 DEF TW!Next, TW!Worlds

\* A step of NS that keeps the registers of S is a Compute of NS.
LEMMA NonSecureStep ==
    ASSUME NonSecureRegs' \in [CtxBanks -> Vals], SecureRegs' = SecureRegs,
           ~RunsS, ~RunsS'
    PROVE  TW!Next
  <1>1. TW!Compute("NS")
    BY DEF TW!Compute, TW!Worlds, Worlds
  <1> QED
    BY <1>1 DEF TW!Next, TW!Worlds

-----------------------------------------------------------------------------
\* The first states are first states of TwoWorlds.
LEMMA InitTW == Init => TW!Init
  <1> SUFFICES ASSUME Init PROVE TW!Init
    OBVIOUS
  <1>1. IInv
    BY InitIInv
  <1>2. Live /\ ~scr.ns /\ RunsS
    BY DEF Init, Live, RunsS
  <1>3. SecureRegs \in [FrameBanks -> Vals]
    BY <1>1, <1>2 DEF Init, IInv, TypeOK, MonitorConsistent, Clobbered,
                      SecureRegs, LiveBank, Banks
  <1>4. NonSecureRegs \in [CtxBanks -> Vals]
    BY <1>1, <1>2 DEF Init, IInv, TypeOK, NonSecureRegs
  <1> QED
    BY <1>2, <1>3, <1>4 DEF TW!Init, TW!Worlds, Worlds

\* The steps of the guests.
LEMMA ComputeTW ==
    ASSUME IInv, NEW w \in Worlds, Compute(w)
    PROVE  TW!Next
  <1>1. cpu' \in [Banks -> Vals]
    BY RegFilesAssumption DEF Compute, Worlds
  <1>2. Live /\ Live' /\ scr' = scr /\ control' = control /\ control = "guest"
    BY DEF Compute, Live
  <1>3. CASE scr.ns
    <2>1. ~RunsS /\ ~RunsS'
      BY <1>2, <1>3 DEF RunsS
    <2>2. SecureRegs' = SecureRegs
      BY <1>2, <1>3 DEF Compute, SecureRegs, FrameOf
    <2>3. NonSecureRegs' \in [CtxBanks -> Vals]
      BY <1>1, <1>2, <1>3 DEF NonSecureRegs, LiveBank, Banks
    <2> QED
      BY <2>1, <2>2, <2>3, NonSecureStep
  <1>4. CASE ~scr.ns
    <2>1. RunsS /\ RunsS'
      BY <1>2, <1>4 DEF RunsS
    <2>2. NonSecureRegs' = NonSecureRegs
      BY <1>2, <1>4 DEF Compute, NonSecureRegs
    <2>3. SecureRegs' \in [FrameBanks -> Vals]
      BY <1>1, <1>2, <1>4 DEF SecureRegs, LiveBank, Banks
    <2> QED
      BY <2>1, <2>2, <2>3, SecureStep
  <1> QED
    BY <1>3, <1>4

\* Steps that touch neither registers, nor stack, nor context.
LEMMA OtherTW ==
    ASSUME UNCHANGED <<control, scr, cpu, ctx, stack>>
    PROVE  UNCHANGED TW!vars
  <1>1. SecureRegs' = SecureRegs /\ NonSecureRegs' = NonSecureRegs /\ (RunsS' <=> RunsS)
    BY DEF SecureRegs, NonSecureRegs, RunsS, Live, LiveBank, FrameOf
  <1> QED
    BY <1>1, StutterStep

\* An unknown hypercall is a stutter.
LEMMA UnknownSmcTW ==
    ASSUME UnknownSmc
    PROVE  UNCHANGED TW!vars
  <1>1. SecureRegs' = SecureRegs /\ NonSecureRegs' = NonSecureRegs /\ (RunsS' <=> RunsS)
    BY DEF UnknownSmc, SecureRegs, NonSecureRegs, RunsS, Live, LiveBank, FrameOf
  <1> QED
    BY <1>1, StutterStep

\* Yield moves the registers of S to the stack; it is still the one that runs.
LEMMA YieldTW ==
    ASSUME IInv, Yield
    PROVE  UNCHANGED TW!vars
  <1>1. /\ Live /\ ~scr.ns /\ control = "guest"
        /\ ~Live' /\ control' = "sched_restore"
        /\ stack \in Seq(Vals) /\ Len(stack) = 0
    BY DEF Yield, InS, Live, IInv, TypeOK, StackBalanced
  <1>2. RunsS' <=> RunsS
    BY <1>1 DEF RunsS
  <1>3. NonSecureRegs' = NonSecureRegs
    BY <1>1 DEF Yield, NonSecureRegs
  <1>4. SecureRegs' = SecureRegs
    <2>1. Frame \in Seq(Vals) /\ Len(Frame) = FrameSize
      BY <1>1 DEF Frame, FrameSize, IInv, MonitorConsistent, Clobbered, Banks,
                  CtxBanks, FrameBanks
    <2>2. stack' = Push(Frame)
      BY DEF Yield
    <2>3. /\ Len(stack') = Len(Frame) + Len(stack)
          /\ \A i \in 1..Len(Frame) : stack'[i] = Frame[i]
      BY <1>1, <2>1, <2>2, PushStack
    <2>4. \A b \in FrameBanks : FrameOf(b)' = cpu[b]
      <3> SUFFICES ASSUME NEW b \in FrameBanks PROVE FrameOf(b)' = cpu[b]
        OBVIOUS
      <3>1. FramePos[b] \in 1..Len(Frame)
        BY <2>1, FramePositions
      <3>2. Len(stack') - FrameSize + FramePos[b] = FramePos[b]
        BY <1>1, <2>1, <2>3, <3>1 DEF FrameSize
      <3>3. stack'[FramePos[b]] = cpu[b]
        BY <2>3, <3>1, FrameWords
      <3> QED
        BY <3>2, <3>3 DEF FrameOf
    <2> QED
      BY <1>1, <2>4 DEF SecureRegs, LiveBank
  <1> QED
    BY <1>2, <1>3, <1>4, StutterStep

\* The return into NS is the Switch to it.
LEMMA SchedRestoreTW ==
    ASSUME IInv, SchedRestore
    PROVE  TW!Next
  <1>1. /\ ~Live /\ control = "sched_restore"
        /\ Live' /\ scr'.ns /\ control' = "guest"
    BY DEF SchedRestore, ScrNsSet, WorldContextRestore, Live
  <1>2. RunsS' <=> ~RunsS
    BY <1>1 DEF RunsS
  <1>3. SecureRegs' = SecureRegs
    BY <1>1 DEF SchedRestore, ScrNsSet, WorldContextRestore, SecureRegs, FrameOf
  <1>4. NonSecureRegs' = NonSecureRegs
    BY <1>1 DEF SchedRestore, ScrNsSet, WorldContextRestore, NonSecureRegs, LiveBank, Banks
  <1> QED
    BY <1>2, <1>3, <1>4, SwitchStep

\* board_handler changes r0 of its caller at most.
LEMMA BoardSmcTW ==
    ASSUME IInv, NEW call \in BoardCalls, BoardSmc(call)
    PROVE  TW!Next
  <1>1. /\ Live /\ control = "guest" /\ Live' /\ control' = "board_return"
        /\ scr' = scr /\ ctx' = ctx /\ stack' = Push(CallFrame)
    BY DEF BoardSmc, Live
  <1>2. cpu \in [Banks -> Vals] /\ stack \in Seq(Vals) /\ mmio \in Vals
    BY <1>1 DEF IInv, TypeOK, MonitorConsistent, Clobbered
  <1>3. CallFrame \in Seq(Vals) /\ Len(CallFrame) = CallFrameSize
    BY <1>2 DEF CallFrame, CallFrameSize, Banks, CtxBanks
  <1>4. \A b \in CallFrameBanks : stack'[CallFramePos[b]] = cpu[b]
    BY <1>1, <1>2, <1>3, PushStack, FramePositions, FrameWords
  <1>5. \A b \in Banks : LiveBank(b)' \in Vals
    <2> SUFFICES ASSUME NEW b \in Banks PROVE LiveBank(b)' \in Vals
      OBVIOUS
    <2>1. CASE b \in CallFrameBanks
      BY <1>1, <1>2, <1>4, <2>1 DEF LiveBank
    <2>2. CASE b \notin CallFrameBanks
      BY <1>1, <1>2, <2>2 DEF BoardSmc, LiveBank, CallFrameBanks
    <2> QED
      BY <2>1, <2>2
  <1>6. CASE scr.ns
    <2>1. ~RunsS /\ ~RunsS'
      BY <1>1, <1>6 DEF RunsS
    <2>2. FrameSize <= Len(stack)
      <3>1. Len(stack) = FrameSize
        BY <1>1, <1>6 DEF IInv, StackBalanced, InNs
      <3> QED
        BY <3>1 DEF FrameSize
    <2>3. \A b \in FrameBanks : FrameOf(b)' = FrameOf(b)
      BY <1>1, <1>2, <1>3, <2>2, FrameUnderPush
    <2>4. SecureRegs' = SecureRegs
      BY <1>1, <1>6, <2>3 DEF SecureRegs
    <2>5. NonSecureRegs' \in [CtxBanks -> Vals]
      BY <1>1, <1>5, <1>6 DEF NonSecureRegs, Banks
    <2> QED
      BY <2>1, <2>4, <2>5, NonSecureStep
  <1>7. CASE ~scr.ns
    <2>1. RunsS /\ RunsS'
      BY <1>1, <1>7 DEF RunsS
    <2>2. NonSecureRegs' = NonSecureRegs
      BY <1>1, <1>7 DEF NonSecureRegs
    <2>3. SecureRegs' \in [FrameBanks -> Vals]
      BY <1>1, <1>5, <1>7 DEF SecureRegs, Banks
    <2> QED
      BY <2>1, <2>2, <2>3, SecureStep
  <1> QED
    BY <1>6, <1>7

\* The return from board_handler is a stutter.
LEMMA BoardReturnTW ==
    ASSUME IInv, BoardReturn
    PROVE  UNCHANGED TW!vars
  <1>1. /\ Live /\ control = "board_return" /\ Live' /\ control' = "guest"
        /\ scr' = scr /\ ctx' = ctx /\ stack' = Pop(CallFrameSize)
        /\ stack \in Seq(Vals)
    BY DEF BoardReturn, CallFrameReload, Live, IInv, TypeOK
  <1>2. \A b \in Banks : LiveBank(b)' = LiveBank(b)
    BY <1>1 DEF BoardReturn, CallFrameReload, LiveBank
  <1>3. RunsS' <=> RunsS
    BY <1>1 DEF RunsS
  <1>4. NonSecureRegs' = NonSecureRegs
    BY <1>1, <1>2 DEF NonSecureRegs, Banks
  <1>5. SecureRegs' = SecureRegs
    <2>1. CASE scr.ns
      <3>1. CallFrameSize \in Nat /\ CallFrameSize + FrameSize <= Len(stack)
        <4>1. Len(stack) = FrameSize + CallFrameSize
          BY <1>1, <2>1 DEF IInv, StackBalanced
        <4> QED
          BY <4>1 DEF FrameSize, CallFrameSize
      <3>2. \A b \in FrameBanks : FrameOf(b)' = FrameOf(b)
        BY <1>1, <3>1, FrameUnderPop
      <3> QED
        BY <1>1, <2>1, <3>2 DEF SecureRegs
    <2>2. CASE ~scr.ns
      BY <1>1, <1>2, <2>2 DEF SecureRegs, Banks
    <2> QED
      BY <2>1, <2>2
  <1> QED
    BY <1>3, <1>4, <1>5, StutterStep

\* The steps of the FIQ handler.
LEMMA FiqEntryTW ==
    ASSUME IInv, FiqEntry
    PROVE  UNCHANGED TW!vars
  <1>1. /\ Live /\ control = "guest" /\ scr.ns /\ ~Live' /\ control' = "fiq_id"
        /\ cpu' = cpu /\ stack' = Push(FiqFrame) /\ stack \in Seq(Vals)
    BY DEF FiqEntry, InNs, Live, IInv, TypeOK
  <1>2. RunsS' <=> RunsS
    BY <1>1 DEF RunsS
  <1>3. FiqFrame \in Seq(Vals) /\ Len(FiqFrame) = FiqFrameSize
    BY <1>1 DEF FiqFrame, FiqFrameSize, IInv, MonitorConsistent, Clobbered, Banks, CtxBanks
  <1>4. \A b \in FiqFrameBanks : stack'[FiqFramePos[b]] = cpu[b]
    BY <1>1, <1>3, PushStack, FramePositions, FrameWords
  <1>5. NonSecureRegs' = NonSecureRegs
    BY <1>1, <1>4 DEF NonSecureRegs, LiveBank
  <1>6. FrameSize <= Len(stack)
    <2>1. Len(stack) = FrameSize
      BY <1>1 DEF IInv, StackBalanced, InNs
    <2> QED
      BY <2>1 DEF FrameSize
  <1>7. \A b \in FrameBanks : FrameOf(b)' = FrameOf(b)
    BY <1>1, <1>3, <1>6, FrameUnderPush
  <1>8. SecureRegs' = SecureRegs
    BY <1>1, <1>7 DEF SecureRegs
  <1> QED
    BY <1>2, <1>5, <1>8, StutterStep

\* The reads of ICCIAR are stutters: what they use is saved.
LEMMA FiqReadTW ==
    ASSUME IInv, FiqReadId \/ FiqAck
    PROVE  UNCHANGED TW!vars
  <1>1. /\ ~Live /\ ~Live' /\ scr' = scr /\ stack' = stack
        /\ control \in {"fiq_id", "fiq_ack"}
        /\ control' \in {"fiq_ack", "fiq_save"}
    BY DEF FiqReadId, FiqAck, Live
  <1>2. RunsS' <=> RunsS
    BY <1>1 DEF RunsS
  <1>3. SecureRegs' = SecureRegs
    BY <1>1 DEF SecureRegs, FrameOf
  <1>4. \A b \in CtxBanks \ FiqFrameBanks : cpu'[b] = cpu[b]
    BY DEF IInv, TypeOK, FiqReadId, FiqAck, FiqFrameBanks, Banks
  <1>5. NonSecureRegs' = NonSecureRegs
    BY <1>1, <1>4 DEF NonSecureRegs
  <1> QED
    BY <1>2, <1>3, <1>5, StutterStep

\* Saving the context moves the registers of NS and changes none.
LEMMA FiqSaveTW ==
    ASSUME IInv, FiqSave
    PROVE  UNCHANGED TW!vars
  <1>1. /\ ~Live /\ ~Live' /\ control = "fiq_save" /\ control' = "fiq_handle"
        /\ stack' = Pop(FiqFrameSize) /\ stack \in Seq(Vals)
    BY DEF FiqSave, WorldContextSave, Live, IInv, TypeOK
  <1>2. RunsS' <=> RunsS
    BY <1>1 DEF RunsS
  <1>3. NonSecureRegs' = NonSecureRegs
    BY <1>1 DEF FiqSave, WorldContextSave, NonSecureRegs
  <1>4. FiqFrameSize \in Nat /\ FiqFrameSize + FrameSize <= Len(stack)
    <2>1. Len(stack) = FrameSize + FiqFrameSize
      BY <1>1 DEF IInv, StackBalanced
    <2> QED
      BY <2>1 DEF FrameSize, FiqFrameSize
  <1>5. \A b \in FrameBanks : FrameOf(b)' = FrameOf(b)
    BY <1>1, <1>4, FrameUnderPop
  <1>6. SecureRegs' = SecureRegs
    BY <1>1, <1>5 DEF SecureRegs
  <1> QED
    BY <1>2, <1>3, <1>6, StutterStep

\* The C handler and the end of interrupt are stutters.
LEMMA FiqHandleTW ==
    ASSUME FiqHandle \/ FiqEoi
    PROVE  UNCHANGED TW!vars
  <1>1. /\ ~Live /\ ~Live' /\ scr' = scr /\ stack' = stack /\ ctx' = ctx
        /\ control \in {"fiq_handle", "fiq_eoi"}
        /\ control' \in {"fiq_eoi", "fiq_return", "fiq_astray"}
    BY DEF FiqHandle, FiqEoi, Live
  <1>2. RunsS' <=> RunsS
    BY <1>1 DEF RunsS
  <1>3. SecureRegs' = SecureRegs
    BY <1>1 DEF SecureRegs, FrameOf
  <1>4. NonSecureRegs' = NonSecureRegs
    BY <1>1 DEF NonSecureRegs
  <1> QED
    BY <1>2, <1>3, <1>4, StutterStep

\* The return into S is the Switch to it.
LEMMA FiqReturnTW ==
    ASSUME IInv, FiqReturn
    PROVE  TW!Next
  <1>1. /\ ~Live /\ control = "fiq_return" /\ Live' /\ control' = "guest"
        /\ ~scr'.ns /\ ctx' = ctx
        /\ stack \in Seq(Vals) /\ Len(stack) = FrameSize
    BY DEF FiqReturn, FrameReload, Live, IInv, TypeOK, StackBalanced, MonitorConsistent
  <1>2. RunsS' <=> ~RunsS
    BY <1>1 DEF RunsS
  <1>3. NonSecureRegs' = NonSecureRegs
    BY <1>1 DEF NonSecureRegs
  <1>4. \A b \in FrameBanks : FrameOf(b) = stack[FramePos[b]]
    BY <1>1, FramePositions DEF FrameOf, FrameSize
  <1>5. \A b \in FrameBanks : cpu'[b] = stack[FramePos[b]]
    BY DEF FiqReturn, FrameReload, Banks
  <1>6. SecureRegs' = SecureRegs
    BY <1>1, <1>4, <1>5 DEF SecureRegs, LiveBank
  <1> QED
    BY <1>2, <1>3, <1>6, SwitchStep

\* Every step of the monitor is a step of TwoWorlds or a stutter.
LEMMA NextTW == IInv /\ [Next]_vars => [TW!Next]_(TW!vars)
  <1> SUFFICES ASSUME IInv, [Next]_vars PROVE [TW!Next]_(TW!vars)
    OBVIOUS
  <1>1. CASE Guest
    <2>1. CASE NsIrqAck \/ \E i \in NonSecure : NsIrqDone(i)
      BY <2>1, OtherTW DEF NsIrqAck, NsIrqDone
    <2> QED
      BY <1>1, <2>1, ComputeTW, BoardSmcTW, YieldTW, UnknownSmcTW DEF Guest
  <1>2. CASE FiqEntry
    BY <1>2, FiqEntryTW
  <1>3. CASE MonitorStep
    BY <1>3, SchedRestoreTW, BoardReturnTW, FiqReadTW, FiqSaveTW, FiqHandleTW,
       FiqReturnTW DEF MonitorStep
  <1>4. CASE \E i \in Ints : Raise(i)
    BY <1>4, OtherTW DEF Raise
  <1>5. CASE UNCHANGED vars
    BY <1>5, OtherTW DEF vars
  <1> QED
    BY <1>1, <1>2, <1>3, <1>4, <1>5 DEF Next

\* The world switch of cpu_monitor.S keeps the two guests' registers apart:
\* each finds them as it left them, whatever the other did in between.
THEOREM MonitorIsolatesWorlds == Spec => WorldsIsolated
  <1>1. Init => TW!Init
    BY InitTW
  <1>2. IInv /\ [Next]_vars => [TW!Next]_(TW!vars)
    BY NextTW
  <1> QED
    BY <1>1, <1>2, SpecIInv, PTL DEF Spec, WorldsIsolated, TW!Spec
=============================================================================
