------------------------------- MODULE Monitor -------------------------------
(***************************************************************************)
(* The monitor of src/src/arch/armv7/cpu_monitor.S: the code that moves    *)
(* the one CPU between the secure guest (S) and the non-secure guest (NS). *)
(* S gives the CPU away with the scheduler hypercall; a secure interrupt   *)
(* (FIQ) that arrives while NS runs takes it back.                         *)
(*                                                                         *)
(* The monitor runs with FIQ and IRQ masked, so its instructions are       *)
(* grouped into the steps between which a device can raise a line and an   *)
(* access to the interrupt controller can tell the difference.             *)
(***************************************************************************)
EXTENDS Gic, Sequences

CONSTANTS
    Vals,       \* what a register bank may hold
    Scratch,    \* what the monitor's own code leaves in a bank it uses
    RegFiles,   \* the register files a guest's computation may leave
    Calls,      \* the hypercalls made besides the scheduler's
    Mmio0       \* what the device register reached by board_handler starts as

Worlds == {"S", "NS"}

(***************************************************************************)
(* The registers, in the groups the monitor saves and restores:            *)
(*   r0; low = r1-r4; high = r5-r12; pc = spsr_mon and lr_mon, the state   *)
(*   and the address to return to; usr, svc = r13 and r14 (and spsr) of    *)
(*   the USR/SYS and SVC modes; exc = those of ABT, UND and IRQ;           *)
(*   fiq = r8-r14 and spsr of FIQ mode.                                    *)
(***************************************************************************)
\* struct core_regs, what WORLD_CONTEXT_SAVE and _RESTORE copy for NS.
CtxBanks == {"r0", "low", "high", "pc", "usr", "svc", "exc"}

\* What _mon_scheduler pushes and _mon_fiq_handler pops for S.
FrameBanks == {"r0", "low", "high", "pc", "usr", "fiq"}

Banks == CtxBanks \cup FrameBanks

\* Hypercall numbers that are negative go to board_handler; of the others
\* only LTZVISOR_SCHED_SYSCALL has a meaning.
BoardCalls == {"read", "write", "other"}

ASSUME RegFilesAssumption == RegFiles \in [Worlds -> SUBSET [Banks -> Vals]]
ASSUME MmioAssumption == Mmio0 \in Vals
ASSUME CallsAssumption == Calls \subseteq BoardCalls \cup {"unknown"}

VARIABLES
    control,    \* what the CPU executes: a guest or a step of the monitor
    scr,        \* the NS, FIQ and IRQ bits of the SCR
    cpu,        \* the register banks
    ctx,        \* NS_Guest.core.vcpu_regs_core
    stack,      \* the monitor stack, top first
    interrupt,  \* the variable `interrupt' the FIQ handler keeps the id in
    line,       \* GIC: lines asserted by devices
    active,     \* GIC: acknowledged interrupts
    mmio        \* a device register reached through board_handler

gic == <<line, active>>
vars == <<control, scr, cpu, ctx, stack, interrupt, line, active, mmio>>

Controls ==
    {"guest", "sched_restore", "board_return",
     "fiq_id", "fiq_ack", "fiq_save", "fiq_handle", "fiq_eoi", "fiq_return",
     "smc_astray", "fiq_astray"}

InNs == control = "guest" /\ scr.ns
InS == control = "guest" /\ ~scr.ns

-----------------------------------------------------------------------------
\* The monitor's stack.  Mutant: the adjustment of sp is one word short.
PopOneShort(n) == SubSeq(stack, n, Len(stack))

Push(words) == words \o stack
Pop(n) == SubSeq(stack, n + 1, Len(stack))

\* The state _mon_scheduler pushes for S: the USR-mode view of r0-r14, the
\* return state, then the FIQ bank; top first.
Frame == <<cpu["fiq"], cpu["pc"], cpu["r0"], cpu["low"], cpu["high"], cpu["usr"]>>
FrameSize == 6

\* Where _mon_fiq_handler finds each of them as it pops.
FramePos == [fiq |-> 1, pc |-> 2, r0 |-> 3, low |-> 4, high |-> 5, usr |-> 6]

\* Mutant: the FIQ bank of S is not restored.
FrameReloadNoFiq ==
    [b \in Banks |->
        IF b \in FrameBanks \ {"fiq"} THEN stack[FramePos[b]] ELSE cpu[b]]

FrameReload ==
    [b \in Banks |-> IF b \in FrameBanks THEN stack[FramePos[b]] ELSE cpu[b]]

\* The registers _mon_fiq_handler frees for its own use on entry, and where
\* WORLD_CONTEXT_SAVE finds them.
FiqFrame == <<cpu["r0"], cpu["low"], cpu["pc"]>>
FiqFrameSize == 3
FiqFramePos == [r0 |-> 1, low |-> 2, pc |-> 3]
FiqFrameBanks == {"r0", "low", "pc"}

\* The registers call_c_function_arg keeps across a call, and where
\* exception_return_arg finds them.
CallFrame == <<cpu["pc"], cpu["low"], cpu["high"]>>
CallFrameSize == 3
CallFramePos == [pc |-> 1, low |-> 2, high |-> 3]
CallFrameBanks == {"pc", "low", "high"}

\* Mutant: only the return state is reloaded.
CallFrameReloadPcOnly == [cpu EXCEPT !["pc"] = stack[CallFramePos["pc"]]]

CallFrameReload ==
    [b \in Banks |->
        IF b \in CallFrameBanks THEN stack[CallFramePos[b]] ELSE cpu[b]]

\* The macros of the world switch.  Mutants: SCR_NS_SET leaves the FIQ bit
\* as it is; SCR_NS_CLEAR forgets the FIQ bit; the SYS bank
\* is not restored; the registers the handler uses are saved as they are.
ScrNsSetKeepsFiq == [scr EXCEPT !.ns = TRUE, !.irq = FALSE]
ScrNsClearKeepsFiq == [scr EXCEPT !.ns = FALSE, !.irq = TRUE]
RestoreWithoutSys ==
    [b \in Banks |-> IF b \in CtxBanks \ {"usr"} THEN ctx[b] ELSE cpu[b]]
SaveFromCpu == [b \in CtxBanks |-> cpu[b]]

ScrNsSet == [ns |-> TRUE, fiq |-> TRUE, irq |-> FALSE]
ScrNsClear == [ns |-> FALSE, fiq |-> FALSE, irq |-> TRUE]

WorldContextSave ==
    [b \in CtxBanks |->
        IF b \in FiqFrameBanks THEN stack[FiqFramePos[b]] ELSE cpu[b]]

WorldContextRestore ==
    [b \in Banks |-> IF b \in CtxBanks THEN ctx[b] ELSE cpu[b]]

-----------------------------------------------------------------------------
(***************************************************************************)
(* After ltzvisor_kickoff: S executes its main with IRQ and FIQ masked, NS *)
(* has the context ltzvisor_nsguest_create made, and boot left NS, FIQ and *)
(* IRQ clear in the SCR.                                                   *)
(***************************************************************************)
Init ==
    /\ control = "guest"
    /\ scr = [ns |-> FALSE, fiq |-> FALSE, irq |-> FALSE]
    /\ cpu \in RegFiles["S"]
    /\ ctx \in {[b \in CtxBanks |-> f[b]] : f \in RegFiles["NS"]}
    /\ stack = <<>>
    /\ interrupt = 0
    /\ line = {}
    /\ active = {}
    /\ mmio = Mmio0

\* The running guest executes some of its own instructions.
Compute(w) ==
    /\ control = "guest"
    /\ scr.ns = (w = "NS")
    /\ cpu' \in RegFiles[w]
    /\ UNCHANGED <<control, scr, ctx, stack, interrupt, gic, mmio>>

\* A device asserts its line, whatever the CPU is doing.
Raise(i) ==
    /\ i \notin line
    /\ line' = line \cup {i}
    /\ UNCHANGED <<control, scr, cpu, ctx, stack, interrupt, active, mmio>>

-----------------------------------------------------------------------------
\* Mutant: the comparison with LTZVISOR_SCHED_SYSCALL fails.
YieldNotRecognised ==
    /\ InS
    /\ control' = "smc_astray"
    /\ UNCHANGED <<scr, cpu, ctx, stack, interrupt, gic, mmio>>

(***************************************************************************)
(* _mon_smc_handler with r0 = LTZVISOR_SCHED_SYSCALL, which S issues with  *)
(* YIELD: _mon_scheduler up to GET_NS_WORLD_CONTEXT.                       *)
(***************************************************************************)
Yield ==
    /\ InS
    /\ stack' = Push(Frame)
    /\ cpu' = [cpu EXCEPT !["r0"] = Scratch, !["low"] = Scratch]
    /\ control' = "sched_restore"
    /\ UNCHANGED <<scr, ctx, interrupt, gic, mmio>>

\* WORLD_CONTEXT_RESTORE, SCR_NS_SET and the exception return into NS.
SchedRestore ==
    /\ control = "sched_restore"
    /\ cpu' = WorldContextRestore
    /\ scr' = ScrNsSet
    /\ control' = "guest"
    /\ UNCHANGED <<ctx, stack, interrupt, gic, mmio>>

\* _mon_smc_handler with a negative r0, from either world: board_smc calls
\* board_handler, whose result replaces r0.
BoardSmc(call) ==
    /\ control = "guest"
    /\ call \in Calls \cap BoardCalls
    /\ stack' = Push(CallFrame)
    /\ mmio' = IF call = "write" THEN cpu["low"] ELSE mmio
    /\ cpu' = [cpu EXCEPT !["r0"] = IF call = "read" THEN mmio ELSE @,
                          !["low"] = Scratch, !["high"] = Scratch,
                          !["pc"] = Scratch]
    /\ control' = "board_return"
    /\ UNCHANGED <<scr, ctx, interrupt, gic>>

\* exception_return_arg.
BoardReturn ==
    /\ control = "board_return"
    /\ cpu' = CallFrameReload
    /\ stack' = Pop(CallFrameSize)
    /\ control' = "guest"
    /\ UNCHANGED <<scr, ctx, interrupt, gic, mmio>>

\* Any other number: the handler ends in a plain branch to lr, not in an
\* exception return, so the caller goes on in monitor mode.
UnknownSmc ==
    /\ control = "guest"
    /\ "unknown" \in Calls
    /\ control' = "smc_astray"
    /\ UNCHANGED <<scr, cpu, ctx, stack, interrupt, gic, mmio>>

-----------------------------------------------------------------------------
(***************************************************************************)
(* _mon_fiq_handler.  S runs with FIQ masked; NS cannot mask it (SCR.FW is *)
(* clear), and SCR.FIQ routes it to the monitor.                           *)
(***************************************************************************)
FiqEntry ==
    /\ InNs
    /\ scr.fiq
    /\ Fiq(line, active)
    /\ stack' = Push(FiqFrame)
    /\ control' = "fiq_id"
    /\ UNCHANGED <<scr, cpu, ctx, interrupt, gic, mmio>>

\* Mutant: the id is not stored.
FiqReadIdNotKept ==
    /\ control = "fiq_id"
    /\ active' = Acknowledge(SecureIccIar(line, active), active)
    /\ cpu' = [cpu EXCEPT !["r0"] = Scratch, !["low"] = Scratch]
    /\ control' = "fiq_ack"
    /\ UNCHANGED <<scr, ctx, stack, interrupt, line, mmio>>

\* "Get interrupt ID": the first read of ICCIAR, kept in `interrupt'.
FiqReadId ==
    /\ control = "fiq_id"
    /\ interrupt' = SecureIccIar(line, active)
    /\ active' = Acknowledge(SecureIccIar(line, active), active)
    /\ cpu' = [cpu EXCEPT !["r0"] = Scratch, !["low"] = Scratch]
    /\ control' = "fiq_ack"
    /\ UNCHANGED <<scr, ctx, stack, line, mmio>>

\* Mutant: the id kept is that of the second read.
FiqAckKept ==
    /\ control = "fiq_ack"
    /\ interrupt' = SecureIccIar(line, active)
    /\ active' = Acknowledge(SecureIccIar(line, active), active)
    /\ control' = "fiq_save"
    /\ UNCHANGED <<scr, cpu, ctx, stack, line, mmio>>

\* "ACK FIQ": a second read of ICCIAR, the result of which is dropped.
FiqAck ==
    /\ control = "fiq_ack"
    /\ active' = Acknowledge(SecureIccIar(line, active), active)
    /\ control' = "fiq_save"
    /\ UNCHANGED <<scr, cpu, ctx, stack, interrupt, line, mmio>>

\* SCR_NS_CLEAR and WORLD_CONTEXT_SAVE.
FiqSave ==
    /\ control = "fiq_save"
    /\ scr' = ScrNsClear
    /\ ctx' = WorldContextSave
    /\ stack' = Pop(FiqFrameSize)
    /\ control' = "fiq_handle"
    /\ UNCHANGED <<cpu, interrupt, gic, mmio>>

\* The entries of fiq_handlers that are not NULL.  Each of them makes its
\* device drop the line.
Handlers == {42, 43, 44, 69, 70, 71, 81}

\* fiq_handler(interrupt).  Past the end of the table it calls whatever the
\* memory there holds, unless that is zero.
FiqHandle ==
    /\ control = "fiq_handle"
    /\ \/ /\ interrupt < TableSize
          /\ control' = "fiq_eoi"
       \/ /\ interrupt >= TableSize
          /\ control' \in {"fiq_eoi", "fiq_astray"}
    /\ line' = line \ ({interrupt} \cap Handlers)
    /\ cpu' = [cpu EXCEPT !["r0"] = Scratch, !["low"] = Scratch,
                          !["high"] = Scratch, !["pc"] = Scratch]
    /\ UNCHANGED <<scr, ctx, stack, interrupt, active, mmio>>

\* Mutant: ICCEOIR is not written.
FiqEoiMissing ==
    /\ control = "fiq_eoi"
    /\ control' = "fiq_return"
    /\ UNCHANGED <<scr, cpu, ctx, stack, interrupt, gic, mmio>>

\* interrupt_clear(interrupt, 0).
FiqEoi ==
    /\ control = "fiq_eoi"
    /\ active' = EndOfInterrupt(interrupt, active)
    /\ control' = "fiq_return"
    /\ UNCHANGED <<scr, cpu, ctx, stack, interrupt, line, mmio>>

\* The state of S is popped and the exception return resumes it.
FiqReturn ==
    /\ control = "fiq_return"
    /\ cpu' = FrameReload
    /\ stack' = Pop(FrameSize)
    /\ control' = "guest"
    /\ UNCHANGED <<scr, ctx, interrupt, gic, mmio>>

-----------------------------------------------------------------------------
(***************************************************************************)
(* The interrupt handling of NS, which the monitor takes no part in: IRQs  *)
(* are not routed to it while NS runs.                                     *)
(***************************************************************************)
NsIrqAck ==
    /\ InNs
    /\ ~scr.irq
    /\ Irq(line, active)
    /\ active' = Acknowledge(NonSecureIccIar(line, active), active)
    /\ UNCHANGED <<control, scr, cpu, ctx, stack, interrupt, line, mmio>>

\* The handler of i served its device and writes ICCEOIR.
NsIrqDone(i) ==
    /\ InNs
    /\ i \in active
    /\ line' = line \ {i}
    /\ active' = EndOfInterrupt(i, active)
    /\ UNCHANGED <<control, scr, cpu, ctx, stack, interrupt, mmio>>

-----------------------------------------------------------------------------
Guest ==
    \/ \E w \in Worlds : Compute(w)
    \/ \E call \in BoardCalls : BoardSmc(call)
    \/ Yield
    \/ UnknownSmc
    \/ NsIrqAck
    \/ \E i \in NonSecure : NsIrqDone(i)

MonitorStep ==
    \/ SchedRestore
    \/ BoardReturn
    \/ FiqReadId
    \/ FiqAck
    \/ FiqSave
    \/ FiqHandle
    \/ FiqEoi
    \/ FiqReturn

Next ==
    \/ Guest
    \/ FiqEntry
    \/ MonitorStep
    \/ \E i \in Ints : Raise(i)

Spec == Init /\ [][Next]_vars

(***************************************************************************)
(* The monitor's instructions execute; a pending FIQ is taken before the   *)
(* next instruction of NS, so hypercalls of NS cannot put it off for ever; *)
(* every round of the loop of blink.c ends in YIELD, whatever it calls     *)
(* before; the interval timer `tick' asserts its line again and again.     *)
(***************************************************************************)
Fairness(tick) ==
    /\ WF_vars(MonitorStep)
    /\ SF_vars(FiqEntry)
    /\ SF_vars(Yield)
    /\ WF_vars(Raise(tick))

-----------------------------------------------------------------------------
TypeOK ==
    /\ control \in Controls
    /\ scr \in [ns : BOOLEAN, fiq : BOOLEAN, irq : BOOLEAN]
    /\ cpu \in [Banks -> Vals \cup {Scratch}]
    /\ ctx \in [CtxBanks -> Vals]
    /\ stack \in Seq(Vals)
    /\ interrupt \in Nat
    /\ line \in SUBSET Ints
    /\ active \in SUBSET Ints
    /\ mmio \in Vals

\* The words on the monitor stack at every control point: nothing while S
\* runs, exactly the frame of S while NS runs, whatever hypercalls and
\* interrupts came before.  _mon_scheduler pushes what a later activation of
\* _mon_fiq_handler pops; one word too many or too few would accumulate.
StackBalanced ==
    /\ InS => Len(stack) = 0
    /\ InNs => Len(stack) = FrameSize
    /\ control = "sched_restore" => Len(stack) = FrameSize
    /\ control = "board_return" /\ ~scr.ns => Len(stack) = CallFrameSize
    /\ control = "board_return" /\ scr.ns =>
         Len(stack) = FrameSize + CallFrameSize
    /\ control \in {"fiq_id", "fiq_ack", "fiq_save"} =>
         Len(stack) = FrameSize + FiqFrameSize
    /\ control \in {"fiq_handle", "fiq_eoi", "fiq_return"} =>
         Len(stack) = FrameSize

\* The banks the monitor uses for itself at each control point.
Clobbered ==
    IF control \in {"guest", "smc_astray", "fiq_id"} THEN {}
    ELSE IF control \in {"sched_restore", "fiq_ack", "fiq_save", "fiq_handle"}
    THEN {"r0", "low"}
    ELSE IF control = "board_return" THEN CallFrameBanks
    ELSE {"r0", "low", "high", "pc"}

\* The SCR agrees with the world the monitor was entered from and goes to,
\* and what the monitor's own code leaves in a register is never seen by a
\* guest.  With TypeOK and StackBalanced this is an inductive invariant.
MonitorConsistent ==
    /\ scr.fiq = scr.ns
    /\ ~(scr.ns /\ scr.irq)
    /\ control \in {"fiq_id", "fiq_ack", "fiq_save"} => scr.ns
    /\ control \in {"sched_restore", "fiq_handle", "fiq_eoi", "fiq_return",
                    "fiq_astray"} => ~scr.ns
    /\ \A b \in Banks \ Clobbered : cpu[b] \in Vals

\* While NS runs, a FIQ reaches the monitor and an IRQ does not (its vector
\* "should never come here"); while S runs, no FIQ is routed to the monitor.
RoutesMatchWorld ==
    /\ InNs => scr.fiq /\ ~scr.irq
    /\ InS => ~scr.fiq

\* The id fiq_handlers is indexed with is that of a secure interrupt which
\* is still asserted and which the GIC holds active, however the lines
\* changed since the FIQ was signalled.
DispatchIsCurrent ==
    control = "fiq_handle" =>
        interrupt \in Secure /\ interrupt \in active /\ interrupt \in line

\* When _mon_fiq_handler writes ICCEOIR, the interrupt it ends is the most
\* urgent active one, as the GIC requires of the order of ends.
EoiInOrder ==
    control = "fiq_eoi" =>
        /\ interrupt \in active
        /\ \A j \in active \ {interrupt} : Prio[interrupt] < Prio[j]

\* Every secure interrupt that was acknowledged is ended before a guest runs
\* again: none stays active and holds back the interrupts below it.
SecureInterruptsCompleted ==
    control = "guest" => active \cap Secure = {}

\* S executes on an SVC bank (its stack pointer) of its own.
SecureSvcBankIsOwn ==
    InS => cpu["svc"] \in {f["svc"] : f \in RegFiles["S"]}

\* Once NS runs, S gets the CPU back (the tick sees to it).
SecureResumes == InNs ~> InS

\* Once S runs, NS gets the CPU.
NonSecureResumes == InS ~> InNs

-----------------------------------------------------------------------------
(***************************************************************************)
(* Where each world's registers are: in the CPU while it runs, for S in    *)
(* the frame at the bottom of the stack otherwise; for NS partly on the    *)
(* stack during the first half of the FIQ handler, then in its context.    *)
(***************************************************************************)
FrameOf(b) == stack[Len(stack) - FrameSize + FramePos[b]]

\* The control points at which the CPU holds the registers of the guest
\* that runs, and which guest that is; during a switch it is still the old
\* one.
Live == control \in {"guest", "board_return", "smc_astray"}
RunsS == IF Live THEN ~scr.ns ELSE control = "sched_restore"

LiveBank(b) ==
    IF control = "board_return" /\ b \in CallFrameBanks
    THEN stack[CallFramePos[b]] ELSE cpu[b]

SecureRegs ==
    [b \in FrameBanks |-> IF Live /\ ~scr.ns THEN LiveBank(b) ELSE FrameOf(b)]

NonSecureRegs ==
    [b \in CtxBanks |->
        IF Live /\ scr.ns THEN LiveBank(b)
        ELSE IF control \notin {"fiq_id", "fiq_ack", "fiq_save"} THEN ctx[b]
        ELSE IF b \in FiqFrameBanks THEN stack[FiqFramePos[b]]
        ELSE cpu[b]]

TW == INSTANCE TwoWorlds WITH
        Own <- [w \in Worlds |-> IF w = "S" THEN FrameBanks ELSE CtxBanks],
        running <- IF RunsS THEN "S" ELSE "NS",
        regs <- [w \in Worlds |-> IF w = "S" THEN SecureRegs
                                             ELSE NonSecureRegs]

\* The monitor implements two worlds that do not disturb each other's
\* registers: r0-r12, the return state and the USR bank of both, the FIQ
\* bank of S, the SVC, ABT, UND and IRQ banks of NS.
WorldsIsolated == TW!Spec
=============================================================================
