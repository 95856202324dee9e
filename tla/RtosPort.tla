------------------------------ MODULE RtosPort ------------------------------
(***************************************************************************)
(* The port layer of FreeRTOS in the non-secure guest: critical sections   *)
(* by the priority mask of the interrupt controller (port.c), the tick     *)
(* handler, the IRQ and SWI entries with nesting and the context switch    *)
(* (portASM.S), and the priorities the guest gives its interrupts          *)
(* (tick.c, xemacpsif_dma.c, gic.c).                                       *)
(*                                                                         *)
(* Tasks and handlers are sequences of control points; a step runs from    *)
(* one point where an interrupt can be taken to the next.  Code between    *)
(* CPSID and CPSIE is one step.                                            *)
(***************************************************************************)
EXTENDS Naturals, Sequences

CONSTANTS
    Tasks,          \* the tasks
    NoTask,         \* pxCurrentTCB before the scheduler is started
    Irqs,           \* the interrupts of the guest
    Tick,           \* the one of the tick timer
    Requested,      \* the priority each one's set-up code asks for
    MaxApi,         \* configMAX_API_CALL_INTERRUPT_PRIORITY
    MaxDepth        \* bound: nested critical sections of one task

\* The value that unmasks every usable priority: the lowest of the sixteen.
Unmasked == 15

ASSUME TasksAssumption == NoTask \notin Tasks
ASSUME IrqsAssumption == Tick \in Irqs /\ Requested \in [Irqs -> Nat]
ASSUME LevelsAssumption == MaxApi \in 1..(Unmasked - 1) /\ MaxDepth \in Nat \ {0}

\* interrupt_priority_set keeps the low four bits of what it is given.
\* Mutant: a priority that the caller has shifted into place already.
PrioShifted(i) == (Requested[i] * 16) % 16

Prio(i) == Requested[i] % 16

\* ICCIAR can return 1023: the candidate went away before the read.
Spurious == "spurious"

VARIABLES
    pmr,                    \* ICCPMR as the non-secure world sees it
    irqOff,                 \* the I bit of the CPSR
    enabled,                \* the interrupts that have been set up
    line,                   \* the interrupt lines that are asserted
    ulCriticalNesting,
    ulPortInterruptNesting,
    ulPortYieldRequired,
    pxCurrentTCB,
    pc,                     \* where each task is
    depth,                  \* the critical sections each task is inside
    saved,                  \* ulCriticalNesting in the saved contexts
    frames                  \* the interrupt handlers that are running

mask == <<pmr, irqOff>>
controller == <<enabled, line>>
task == <<pc, depth>>
context == <<ulCriticalNesting, pxCurrentTCB, saved>>
handler == <<frames, ulPortInterruptNesting>>
vars == <<mask, controller, task, context, handler, ulPortYieldRequired>>

\* "count": the mask is set, ulCriticalNesting is not yet incremented;
\* "exit": it has reached 0, the mask is not yet cleared; "swi": the task
\* gave up the CPU inside a critical section.
TaskPoints == {"run", "count", "in", "exit", "swi"}
FramePoints == {"dispatch", "tick", "ticked", "clear", "body", "api", "end"}
Frame == [irq : Irqs \cup {Spurious}, pc : FramePoints, was : Nat,
          masked : BOOLEAN]

top == frames[Len(frames)]
Front(s) == SubSeq(s, 1, Len(s) - 1)
Goto(point) == frames' = [frames EXCEPT ![Len(frames)].pc = point]
AtTop(point) == frames # <<>> /\ top.pc = point

-----------------------------------------------------------------------------
\* vTaskStartScheduler has called portDISABLE_INTERRUPTS.
Init ==
    /\ pmr = MaxApi /\ irqOff = FALSE
    /\ enabled = {} /\ line = {}
    /\ ulCriticalNesting = 9999
    /\ ulPortInterruptNesting = 0
    /\ ulPortYieldRequired = FALSE
    /\ pxCurrentTCB = NoTask
    /\ pc = [t \in Tasks |-> "run"]
    /\ depth = [t \in Tasks |-> 0]
    /\ saved = [t \in Tasks |-> 0]
    /\ frames = <<>>

\* portRESTORE_CONTEXT of task t.  Mutants: the mask is left as it is; the
\* nesting count is.
RestoreNestingOnly(t) ==
    /\ pxCurrentTCB' = t
    /\ ulCriticalNesting' = saved'[t]
    /\ irqOff' = FALSE
    /\ UNCHANGED pmr
RestoreMaskOnly(t) ==
    /\ pxCurrentTCB' = t
    /\ UNCHANGED ulCriticalNesting
    /\ pmr' = IF saved'[t] = 0 THEN Unmasked ELSE MaxApi
    /\ irqOff' = FALSE

portRESTORE_CONTEXT(t) ==
    /\ pxCurrentTCB' = t
    /\ ulCriticalNesting' = saved'[t]
    /\ pmr' = IF ulCriticalNesting' = 0 THEN Unmasked ELSE MaxApi
    /\ irqOff' = FALSE

\* portSAVE_CONTEXT, vTaskSwitchContext, portRESTORE_CONTEXT: the choice of
\* the task is left open.
SwitchContext ==
    /\ saved' = [saved EXCEPT ![pxCurrentTCB] = ulCriticalNesting]
    /\ \E t \in Tasks : portRESTORE_CONTEXT(t)

\* configSETUP_TICK_INTERRUPT sets up the tick; then the first task starts.
xPortStartScheduler ==
    /\ pxCurrentTCB = NoTask
    /\ enabled' = {Tick}
    /\ UNCHANGED saved
    /\ \E t \in Tasks : portRESTORE_CONTEXT(t)
    /\ UNCHANGED <<line, task, handler, ulPortYieldRequired>>

-----------------------------------------------------------------------------
\* A task executes: no handler does.
Running(t) == pxCurrentTCB = t /\ frames = <<>> /\ ~irqOff

\* A driver's initialisation (init_dma) enables its interrupt.
EnableInterrupt(t, i) ==
    /\ Running(t) /\ pc[t] = "run"
    /\ i \notin enabled
    /\ enabled' = enabled \cup {i}
    /\ UNCHANGED <<mask, line, task, context, handler, ulPortYieldRequired>>

ulPortSetInterruptMask ==
    /\ pmr' = MaxApi
    /\ irqOff' = FALSE

vPortEnterCritical_Mask(t) ==
    /\ Running(t) /\ pc[t] \in {"run", "in"}
    /\ depth[t] < MaxDepth
    /\ ulPortSetInterruptMask
    /\ pc' = [pc EXCEPT ![t] = "count"]
    /\ UNCHANGED <<controller, depth, context, handler, ulPortYieldRequired>>

vPortEnterCritical_Count(t) ==
    /\ Running(t) /\ pc[t] = "count"
    /\ ulCriticalNesting' = ulCriticalNesting + 1
    /\ depth' = [depth EXCEPT ![t] = @ + 1]
    /\ pc' = [pc EXCEPT ![t] = "in"]
    /\ UNCHANGED <<mask, controller, pxCurrentTCB, saved, handler, ulPortYieldRequired>>

vPortExitCritical(t) ==
    /\ Running(t) /\ pc[t] = "in"
    /\ ulCriticalNesting > 0
    /\ ulCriticalNesting' = ulCriticalNesting - 1
    /\ depth' = [depth EXCEPT ![t] = @ - 1]
    /\ pc' = [pc EXCEPT ![t] = IF ulCriticalNesting' = 0 THEN "exit" ELSE "in"]
    /\ UNCHANGED <<mask, controller, pxCurrentTCB, saved, handler, ulPortYieldRequired>>

\* Mutant: the value is shifted like a priority.
ClearMaskShifted ==
    /\ pmr' = Unmasked * 16
    /\ irqOff' = FALSE

portCLEAR_INTERRUPT_MASK ==
    /\ pmr' = Unmasked
    /\ irqOff' = FALSE

vPortExitCritical_Unmask(t) ==
    /\ Running(t) /\ pc[t] = "exit"
    /\ portCLEAR_INTERRUPT_MASK
    /\ pc' = [pc EXCEPT ![t] = "run"]
    /\ UNCHANGED <<controller, depth, context, handler, ulPortYieldRequired>>

\* portYIELD, which queue.c and tasks.c also call inside critical sections.
FreeRTOS_SWI_Handler(t) ==
    /\ Running(t) /\ pc[t] \in {"run", "in"}
    /\ pc' = [pc EXCEPT ![t] = IF @ = "in" THEN "swi" ELSE @]
    /\ SwitchContext
    /\ UNCHANGED <<controller, depth, handler, ulPortYieldRequired>>

ResumeInCritical(t) ==
    /\ Running(t) /\ pc[t] = "swi"
    /\ pc' = [pc EXCEPT ![t] = "in"]
    /\ UNCHANGED <<mask, controller, depth, context, handler, ulPortYieldRequired>>

TaskStep(t) ==
    \/ \E i \in Irqs : EnableInterrupt(t, i)
    \/ vPortEnterCritical_Mask(t) \/ vPortEnterCritical_Count(t)
    \/ vPortExitCritical(t) \/ vPortExitCritical_Unmask(t)
    \/ FreeRTOS_SWI_Handler(t) \/ ResumeInCritical(t)

-----------------------------------------------------------------------------
\* A device asserts its line.
Raise(i) ==
    /\ i \in enabled \ line
    /\ line' = line \cup {i}
    /\ UNCHANGED <<mask, enabled, task, context, handler, ulPortYieldRequired>>

\* The controller signals i: it is above the mask and above what is active.
Signalled(i) ==
    /\ i \in line
    /\ Prio(i) < pmr
    /\ \A k \in 1..Len(frames) :
          frames[k].irq # Spurious => Prio(i) < Prio(frames[k].irq)

\* The entry of FreeRTOS_IRQ_Handler up to the read of ICCIAR.  A secure
\* interrupt that comes first makes that read return 1023.
FreeRTOS_IRQ_Handler_Entry ==
    /\ ~irqOff
    /\ \E i \in Irqs : Signalled(i)
    /\ irqOff' = TRUE
    /\ ulPortInterruptNesting' = ulPortInterruptNesting + 1
    /\ \E i \in Irqs \cup {Spurious} :
          /\ i # Spurious =>
                /\ Signalled(i)
                /\ \A j \in Irqs : Signalled(j) => Prio(i) <= Prio(j)
          /\ frames' = Append(frames,
                [irq |-> i, pc |-> IF i = Spurious THEN "end" ELSE "dispatch",
                 was |-> ulPortInterruptNesting, masked |-> FALSE])
    /\ UNCHANGED <<pmr, controller, task, context, ulPortYieldRequired>>

\* FreeRTOS_Tick_Handler.  Mutant: the scheduler's data are changed before
\* the mask is set.
TickWithoutMask ==
    /\ AtTop("dispatch") /\ top.irq = Tick
    /\ irqOff' = FALSE
    /\ Goto("tick")
    /\ UNCHANGED <<pmr, controller, task, context, ulPortInterruptNesting, ulPortYieldRequired>>

FreeRTOS_Tick_Handler_Mask ==
    /\ AtTop("dispatch") /\ top.irq = Tick
    /\ ulPortSetInterruptMask
    /\ Goto("tick")
    /\ UNCHANGED <<controller, task, context, ulPortInterruptNesting, ulPortYieldRequired>>

\* xTaskIncrementTick; what it returns is left open.
FreeRTOS_Tick_Handler_Increment ==
    /\ AtTop("tick")
    /\ ulPortYieldRequired' \in {ulPortYieldRequired, TRUE}
    /\ Goto("ticked")
    /\ UNCHANGED <<mask, controller, task, context, ulPortInterruptNesting>>

FreeRTOS_Tick_Handler_Unmask ==
    /\ AtTop("ticked")
    /\ portCLEAR_INTERRUPT_MASK
    /\ Goto("clear")
    /\ UNCHANGED <<controller, task, context, ulPortInterruptNesting, ulPortYieldRequired>>

FreeRTOS_ClearTTCTickInterrupt ==
    /\ AtTop("clear")
    /\ line' = line \ {Tick}
    /\ Goto("end")
    /\ UNCHANGED <<mask, enabled, task, context, ulPortInterruptNesting, ulPortYieldRequired>>

\* Any other interrupt: XEmacPs_IntrHandler clears the device's status ...
XEmacPs_IntrHandler ==
    /\ AtTop("dispatch") /\ top.irq # Tick
    /\ line' = line \ {top.irq}
    /\ Goto("body")
    /\ UNCHANGED <<mask, enabled, task, context, ulPortInterruptNesting, ulPortYieldRequired>>

\* ... and calls functions of the kernel that end in FromISR.
FromISR_Mask ==
    /\ AtTop("body")
    /\ frames' = [frames EXCEPT ![Len(frames)].pc = "api",
                                ![Len(frames)].masked = (pmr = MaxApi)]
    /\ ulPortSetInterruptMask
    /\ UNCHANGED <<controller, task, context, ulPortInterruptNesting, ulPortYieldRequired>>

vPortClearInterruptMask(masked) ==
    IF masked THEN UNCHANGED mask ELSE portCLEAR_INTERRUPT_MASK

FromISR_Return ==
    /\ AtTop("api")
    /\ ulPortYieldRequired' \in {ulPortYieldRequired, TRUE}
    /\ vPortClearInterruptMask(top.masked)
    /\ Goto("body")
    /\ UNCHANGED <<controller, task, context, ulPortInterruptNesting>>

\* The exit: end of interrupt, the old count, a switch if it was 0.  Mutants:
\* the count decides nothing; the incremented count is written back.
ExitStale ==
    /\ frames # <<>> /\ top.pc \in {"body", "end"}
    /\ frames' = Front(frames)
    /\ ulPortInterruptNesting' = top.was
    /\ IF ulPortYieldRequired
       THEN ulPortYieldRequired' = FALSE /\ SwitchContext
       ELSE irqOff' = FALSE /\ UNCHANGED <<pmr, context, ulPortYieldRequired>>
    /\ UNCHANGED <<controller, task>>
ExitCountKept ==
    /\ frames # <<>> /\ top.pc \in {"body", "end"}
    /\ frames' = Front(frames)
    /\ ulPortInterruptNesting' = top.was + 1
    /\ IF ulPortInterruptNesting' = 0 /\ ulPortYieldRequired
       THEN ulPortYieldRequired' = FALSE /\ SwitchContext
       ELSE irqOff' = FALSE /\ UNCHANGED <<pmr, context, ulPortYieldRequired>>
    /\ UNCHANGED <<controller, task>>

FreeRTOS_IRQ_Handler_Exit ==
    /\ frames # <<>> /\ top.pc \in {"body", "end"}
    /\ frames' = Front(frames)
    /\ ulPortInterruptNesting' = top.was
    /\ IF ulPortInterruptNesting' = 0 /\ ulPortYieldRequired
       THEN ulPortYieldRequired' = FALSE /\ SwitchContext
       ELSE irqOff' = FALSE /\ UNCHANGED <<pmr, context, ulPortYieldRequired>>
    /\ UNCHANGED <<controller, task>>

HandlerStep ==
    \/ FreeRTOS_Tick_Handler_Mask \/ FreeRTOS_Tick_Handler_Increment
    \/ FreeRTOS_Tick_Handler_Unmask \/ FreeRTOS_ClearTTCTickInterrupt
    \/ XEmacPs_IntrHandler \/ FromISR_Mask \/ FromISR_Return
    \/ FreeRTOS_IRQ_Handler_Exit

-----------------------------------------------------------------------------
Next ==
    \/ xPortStartScheduler
    \/ \E t \in Tasks : TaskStep(t)
    \/ \E i \in Irqs : Raise(i)
    \/ FreeRTOS_IRQ_Handler_Entry
    \/ HandlerStep

\* A handler of interrupt i goes on, and returns.  Lines are asserted at the
\* rate of a timer or of frames on a wire, so a handler that is interrupted
\* again and again still executes in between.
Returns(i) == frames # <<>> /\ top.irq = i /\ FreeRTOS_IRQ_Handler_Exit
Proceeds(i) == frames # <<>> /\ top.irq = i /\ HandlerStep

Spec == Init /\ [][Next]_vars

FairSpec ==
    /\ Spec
    /\ \A i \in Irqs \cup {Spurious} : SF_vars(Proceeds(i)) /\ SF_vars(Returns(i))

-----------------------------------------------------------------------------
TypeOK ==
    /\ pmr \in {MaxApi, Unmasked} /\ irqOff \in BOOLEAN
    /\ enabled \in SUBSET Irqs /\ line \in SUBSET Irqs
    /\ ulCriticalNesting \in Nat /\ ulPortInterruptNesting \in Nat
    /\ ulPortYieldRequired \in BOOLEAN
    /\ pxCurrentTCB \in Tasks \cup {NoTask}
    /\ pc \in [Tasks -> TaskPoints]
    /\ depth \in [Tasks -> Nat]
    /\ saved \in [Tasks -> Nat]
    /\ frames \in Seq(Frame)

\* The mask that critical sections set holds back every interrupt.  This is
\* what the priorities are meant to achieve, and what the safety properties
\* below need.
Maskable == \A i \in Irqs : MaxApi <= Prio(i)

\* Who is changing the kernel's lists and queues: a task inside a critical
\* section, or a handler inside a function of the kernel.
TasksInKernel == {t \in Tasks : depth[t] > 0 /\ pc[t] # "swi"}
HandlersInKernel == {k \in 1..Len(frames) : frames[k].pc \in {"tick", "api"}}

\* The data of the kernel are never changed by two of the guest's contexts
\* at once: not by a task switched to in the middle of another one's critical
\* section, nor by a handler that interrupts either (vPortEnterCritical,
\* ulPortSetInterruptMask, the context switch).
KernelDataExclusive ==
    /\ \A t, u \in TasksInKernel : t = u
    /\ \A k, l \in HandlersInKernel : k = l
    /\ TasksInKernel = {} \/ HandlersInKernel = {}

\* The tick handler never runs while interrupts are masked, which is why it
\* may unmask all of them at its end (the comment in FreeRTOS_Tick_Handler).
TickFindsUnmasked ==
    \A k \in 1..Len(frames) :
        frames[k].pc = "dispatch" /\ frames[k].irq = Tick => pmr = Unmasked

\* However tasks are switched, each one finds the nesting count it left
\* (portSAVE_CONTEXT and portRESTORE_CONTEXT).
NestingKept ==
    \A t \in Tasks :
        depth[t] = IF t = pxCurrentTCB THEN ulCriticalNesting ELSE saved[t]

\* While a task executes, the mask is set exactly inside its critical
\* sections: no handler and no switch leaves it set, or clears it early.
MaskFollowsNesting ==
    \A t \in Tasks :
        Running(t) /\ pc[t] \in {"run", "in", "swi"} =>
            (pmr = MaxApi <=> depth[t] > 0)

\* No switch abandons a handler: it is made by the outermost one, when it is
\* done (the nesting count of FreeRTOS_IRQ_Handler).
SwitchLeavesNoHandler ==
    [][pxCurrentTCB' # pxCurrentTCB => frames' = <<>>]_vars

\* A switch that a handler asked for is made.
SwitchHappens == ulPortYieldRequired ~> ~ulPortYieldRequired
=============================================================================
