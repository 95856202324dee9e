--------------------------- MODULE RtosPortProofs ---------------------------
(***************************************************************************)
(* Proofs about RtosPort: for any tasks, interrupts and nesting, if the    *)
(* mask holds back every interrupt then critical sections exclude one      *)
(* another and every handler, and the port keeps its books.                *)
(***************************************************************************)
EXTENDS RtosPort, SequenceTheorems, TLAPS

\* Where a task can be while it does not execute; where a handler can be
\* while another interrupts it.
OthersParked == \A t \in Tasks : t # pxCurrentTCB => pc[t] \in {"run", "swi"}
LowerFramesOpen ==
    \A k \in 1..Len(frames) : k < Len(frames) => frames[k].pc \in {"clear", "body", "end"}

\* The control points that lie inside critical sections.
PointsMatchDepth ==
    \A t \in Tasks :
        /\ pc[t] \in {"run", "exit"} => depth[t] = 0
        /\ pc[t] \in {"in", "swi"} => depth[t] > 0

\* Before the start nothing is set up.
NotStarted ==
    pxCurrentTCB = NoTask =>
        /\ line = {} /\ frames = <<>> /\ enabled = {}
        /\ \A t \in Tasks : pc[t] = "run" /\ depth[t] = 0 /\ saved[t] = 0

\* The mask and the I bit, as a function of where the CPU is.
TaskMask ==
    pxCurrentTCB \in Tasks /\ frames = <<>> =>
        /\ ~irqOff
        /\ pmr = Unmasked <=> pc[pxCurrentTCB] = "run"
FrameMask ==
    frames # <<>> =>
        /\ pmr = MaxApi <=> top.pc \in {"tick", "ticked", "api"}
        /\ top.pc = "dispatch" => irqOff

\* A task is interrupted outside of critical sections only.
Interrupted == frames # <<>> => pc[pxCurrentTCB] = "run"

\* What the handlers keep: the count they found, and that nothing was masked.
Counts ==
    /\ ulPortInterruptNesting = Len(frames)
    /\ \A k \in 1..Len(frames) : frames[k].was = k - 1 /\ ~frames[k].masked

IInv ==
    /\ TypeOK /\ NestingKept /\ OthersParked /\ LowerFramesOpen
    /\ PointsMatchDepth /\ NotStarted /\ TaskMask /\ FrameMask
    /\ Interrupted /\ Counts

-----------------------------------------------------------------------------
\* Priorities are numbers, and the two values of the mask differ.
LEMMA Levels == /\ \A i \in Irqs : Prio(i) \in Nat
                /\ MaxApi \in Nat /\ MaxApi # Unmasked
  BY IrqsAssumption, LevelsAssumption, SMT DEF Prio, Unmasked

\* A handler whose interrupt is signalled finds nothing masked.
LEMMA SignalledUnmasked ==
  ASSUME TypeOK, Maskable, NEW i \in Irqs, Signalled(i)
  PROVE  pmr = Unmasked
  BY Levels, SMT DEF TypeOK, Maskable, Signalled

\* Front of a sequence.
LEMMA FrontFacts ==
  ASSUME NEW S, NEW s \in Seq(S), s # <<>>
  PROVE  /\ Front(s) \in Seq(S) /\ Len(Front(s)) = Len(s) - 1
         /\ Len(s) \in Nat \ {0}
         /\ \A k \in 1..(Len(s) - 1) : Front(s)[k] = s[k]
<1>1. Len(s) \in Nat \ {0}
  BY SMT
<1>2. \A k \in 1..(Len(s) - 1) : s[k] \in S
  BY <1>1, SMT
<1>3. 1 \in Int /\ Len(s) - 1 \in Int
  BY <1>1, SMT
<1>4. /\ Front(s) \in Seq(S)
      /\ Len(Front(s)) = IF 1 <= Len(s) - 1 THEN (Len(s) - 1) - 1 + 1 ELSE 0
      /\ \A k \in 1..((Len(s) - 1) - 1 + 1) : Front(s)[k] = s[1 + k - 1]
  BY <1>2, <1>3, SubSeqProperties DEF Front
<1>. HIDE DEF Front
<1>5. \A k \in 1..(Len(s) - 1) : Front(s)[k] = s[k]
  BY <1>1, <1>4, SMT
<1>6. \A n \in Nat \ {0} : (IF 1 <= n - 1 THEN (n - 1) - 1 + 1 ELSE 0) = n - 1
  BY SMT
<1>7. Len(Front(s)) = Len(s) - 1
  BY <1>1, <1>4, <1>6, Zenon
<1>. QED  BY <1>1, <1>4, <1>5, <1>7

\* A step of the handler on top changes its frame only.
LEMMA TopFacts ==
  ASSUME NEW s \in Seq(Frame), s # <<>>, NEW f \in Frame
  PROVE  LET r == [s EXCEPT ![Len(s)] = f]
         IN  /\ r \in Seq(Frame) /\ Len(r) = Len(s) /\ r # <<>>
             /\ r[Len(s)] = f
             /\ \A k \in 1..Len(s) : k # Len(s) => r[k] = s[k]
  BY SMT

-----------------------------------------------------------------------------
\* With no handler running, what is said of handlers holds.
LEMMA NoHandler ==
  ASSUME frames = <<>>, ulPortInterruptNesting = 0
  PROVE  LowerFramesOpen /\ FrameMask /\ Interrupted /\ Counts
<1>1. Len(frames) = 0
  BY SMT
<1>2. 1..Len(frames) = {}
  BY <1>1, SMT
<1>. QED  BY <1>1, <1>2 DEF LowerFramesOpen, FrameMask, Interrupted, Counts

\* portSAVE_CONTEXT ... portRESTORE_CONTEXT, made by a task at an SWI or by
\* the outermost handler at its exit.
LEMMA SwitchKeeps ==
  ASSUME IInv, pxCurrentTCB \in Tasks, SwitchContext, frames' = <<>>,
         depth' = depth, pc' \in [Tasks -> TaskPoints],
         \A t \in Tasks : t # pxCurrentTCB => pc'[t] = pc[t],
         pc'[pxCurrentTCB] \in {"run", "swi"},
         pc'[pxCurrentTCB] = "run" => depth[pxCurrentTCB] = 0,
         pc'[pxCurrentTCB] = "swi" => depth[pxCurrentTCB] > 0
  PROVE  /\ pmr' \in {MaxApi, Unmasked} /\ irqOff' = FALSE
         /\ ulCriticalNesting' \in Nat /\ pxCurrentTCB' \in Tasks
         /\ saved' \in [Tasks -> Nat]
         /\ NestingKept' /\ OthersParked' /\ PointsMatchDepth'
         /\ NotStarted' /\ TaskMask'
<1>1. PICK t \in Tasks : portRESTORE_CONTEXT(t)
  BY DEF SwitchContext
<1>2. /\ saved \in [Tasks -> Nat] /\ ulCriticalNesting \in Nat
      /\ depth \in [Tasks -> Nat] /\ pc \in [Tasks -> TaskPoints]
      /\ \A u \in Tasks : depth[u] = IF u = pxCurrentTCB THEN ulCriticalNesting ELSE saved[u]
      /\ \A u \in Tasks : u # pxCurrentTCB => pc[u] \in {"run", "swi"}
  BY DEF IInv, TypeOK, NestingKept, OthersParked
<1>3. saved' \in [Tasks -> Nat] /\ \A u \in Tasks : saved'[u] = depth[u]
  BY <1>2 DEF SwitchContext
<1>4. /\ pxCurrentTCB' = t /\ ulCriticalNesting' = depth[t]
      /\ pmr' = (IF depth[t] = 0 THEN Unmasked ELSE MaxApi) /\ irqOff' = FALSE
  BY <1>1, <1>3 DEF portRESTORE_CONTEXT
<1>5. \A u \in Tasks : pc'[u] \in {"run", "swi"}
  BY <1>2
<1>6. PointsMatchDepth'
  BY <1>2, <1>5 DEF IInv, PointsMatchDepth
<1>7. NestingKept' /\ OthersParked' /\ NotStarted'
  BY <1>3, <1>4, <1>5, TasksAssumption DEF NestingKept, OthersParked, NotStarted
<1>8. pmr' = Unmasked <=> depth[t] = 0
  BY <1>4, Levels
<1>9. pc'[t] = "run" <=> depth[t] = 0
  BY <1>2, <1>5, <1>6, SMT DEF PointsMatchDepth
<1>10. TaskMask'
  BY <1>4, <1>8, <1>9 DEF TaskMask
<1>. QED  BY <1>2, <1>3, <1>4, <1>6, <1>7, <1>10

-----------------------------------------------------------------------------
LEMMA InitInv == Init => IInv
<1>. SUFFICES ASSUME Init PROVE IInv
  OBVIOUS
<1>1. TypeOK
  <2>1. frames \in Seq(Frame)
    BY DEF Init
  <2>2. ulCriticalNesting \in Nat /\ ulPortInterruptNesting \in Nat /\ 0 \in Nat
    BY SMT DEF Init
  <2>3. /\ pc \in [Tasks -> TaskPoints] /\ depth \in [Tasks -> Nat]
        /\ saved \in [Tasks -> Nat]
    BY <2>2 DEF Init, TaskPoints
  <2>4. /\ pmr \in {MaxApi, Unmasked} /\ irqOff \in BOOLEAN
        /\ ulPortYieldRequired \in BOOLEAN
        /\ enabled \in SUBSET Irqs /\ line \in SUBSET Irqs
        /\ pxCurrentTCB \in Tasks \cup {NoTask}
    BY DEF Init
  <2>. QED  BY <2>1, <2>2, <2>3, <2>4 DEF TypeOK
<1>2. NestingKept /\ OthersParked /\ PointsMatchDepth /\ NotStarted /\ TaskMask
  BY TasksAssumption DEF Init, NestingKept, OthersParked, PointsMatchDepth,
     NotStarted, TaskMask
<1>3. LowerFramesOpen /\ FrameMask /\ Interrupted /\ Counts
  BY NoHandler DEF Init
<1>. QED  BY <1>1, <1>2, <1>3 DEF IInv

-----------------------------------------------------------------------------
LEMMA StartKeeps == ASSUME IInv, xPortStartScheduler PROVE IInv'
<1>1. PICK t \in Tasks : portRESTORE_CONTEXT(t)
  BY DEF xPortStartScheduler
<1>2. /\ \A u \in Tasks : pc[u] = "run" /\ depth[u] = 0 /\ saved[u] = 0
      /\ frames = <<>> /\ ulPortInterruptNesting = 0
  <2>1. Len(<<>>) = 0
    BY SMT
  <2>. QED  BY <2>1 DEF IInv, NotStarted, Counts, xPortStartScheduler
<1>3. /\ pc' = pc /\ depth' = depth /\ saved' = saved /\ line' = line
      /\ frames' = frames /\ ulPortInterruptNesting' = ulPortInterruptNesting
      /\ ulPortYieldRequired' = ulPortYieldRequired /\ enabled' = {Tick}
  BY DEF xPortStartScheduler, task, handler
<1>4. pxCurrentTCB' = t /\ ulCriticalNesting' = 0 /\ pmr' = Unmasked /\ irqOff' = FALSE
  BY <1>1, <1>2, <1>3 DEF portRESTORE_CONTEXT
<1>5. TypeOK'
  <2>1. 0 \in Nat
    BY SMT
  <2>. QED  BY <1>3, <1>4, <2>1, IrqsAssumption DEF IInv, TypeOK
<1>6. NestingKept' /\ OthersParked' /\ PointsMatchDepth' /\ NotStarted' /\ TaskMask'
  BY <1>2, <1>3, <1>4, TasksAssumption DEF NestingKept, OthersParked, PointsMatchDepth,
     NotStarted, TaskMask
<1>7. LowerFramesOpen' /\ FrameMask' /\ Interrupted' /\ Counts'
  <2>1. frames' = <<>> /\ ulPortInterruptNesting' = 0
    BY <1>2, <1>3
  <2>. QED  BY <2>1 DEF LowerFramesOpen, FrameMask, Interrupted, Counts
<1>. QED  BY <1>5, <1>6, <1>7 DEF IInv

\* A step of the task that executes, which is not a switch: it moves its own
\* control point, the nesting count with its depth, and the mask with both.
LEMMA TaskKeeps ==
  ASSUME IInv, NEW t \in Tasks, Running(t),
         NEW point \in TaskPoints, NEW d \in Nat,
         pc' = [pc EXCEPT ![t] = point], depth' = [depth EXCEPT ![t] = d],
         ulCriticalNesting' = d, UNCHANGED <<pxCurrentTCB, saved, handler, ulPortYieldRequired>>,
         enabled' \in SUBSET Irqs, line' \in SUBSET Irqs,
         pmr' \in {MaxApi, Unmasked}, ~irqOff', irqOff' \in BOOLEAN,
         pmr' = Unmasked <=> point = "run",
         point \in {"run", "exit"} => d = 0,
         point \in {"in", "swi"} => d > 0
  PROVE  IInv'
<1>1. /\ pc \in [Tasks -> TaskPoints] /\ depth \in [Tasks -> Nat]
      /\ saved \in [Tasks -> Nat] /\ ulPortYieldRequired \in BOOLEAN
      /\ ulPortInterruptNesting \in Nat
      /\ frames \in Seq(Frame) /\ frames = <<>> /\ pxCurrentTCB = t
  BY DEF IInv, TypeOK, Running
<1>2. /\ pxCurrentTCB' = t /\ saved' = saved /\ frames' = <<>>
      /\ ulPortInterruptNesting' = ulPortInterruptNesting
      /\ ulPortYieldRequired' = ulPortYieldRequired
  BY <1>1 DEF handler
<1>3. /\ pc' \in [Tasks -> TaskPoints] /\ depth' \in [Tasks -> Nat]
      /\ pc'[t] = point /\ depth'[t] = d
      /\ \A u \in Tasks : u # t => pc'[u] = pc[u] /\ depth'[u] = depth[u]
  BY <1>1
<1>4. TypeOK'
  BY <1>1, <1>2, <1>3 DEF TypeOK
<1>5. NestingKept'
  BY <1>1, <1>2, <1>3 DEF IInv, NestingKept
<1>6. OthersParked' /\ PointsMatchDepth'
  BY <1>1, <1>2, <1>3 DEF IInv, OthersParked, PointsMatchDepth
<1>7. NotStarted' /\ TaskMask'
  BY <1>2, <1>3, TasksAssumption DEF NotStarted, TaskMask
<1>8. LowerFramesOpen' /\ FrameMask' /\ Interrupted' /\ Counts'
  <2>1. ulPortInterruptNesting = 0
    <3>1. Len(<<>>) = 0
      BY SMT
    <3>. QED  BY <1>1, <3>1 DEF IInv, Counts
  <2>. QED  BY <1>2, <2>1 DEF IInv, LowerFramesOpen, FrameMask, Interrupted, Counts
<1>. QED  BY <1>4, <1>5, <1>6, <1>7, <1>8 DEF IInv

\* What the invariant says of the task that executes.
LEMMA RunningFacts ==
  ASSUME IInv, NEW t \in Tasks, Running(t)
  PROVE  /\ pxCurrentTCB = t /\ frames = <<>> /\ ~irqOff /\ irqOff \in BOOLEAN
         /\ ulCriticalNesting = depth[t] /\ depth[t] \in Nat
         /\ pc[t] \in TaskPoints /\ pmr \in {MaxApi, Unmasked}
         /\ pmr = Unmasked <=> pc[t] = "run"
         /\ pc[t] \in {"run", "exit"} => depth[t] = 0
         /\ pc[t] \in {"in", "swi"} => depth[t] > 0
         /\ pc = [pc EXCEPT ![t] = pc[t]]
         /\ depth = [depth EXCEPT ![t] = depth[t]]
         /\ enabled \in SUBSET Irqs /\ line \in SUBSET Irqs
<1>1. pc \in [Tasks -> TaskPoints] /\ depth \in [Tasks -> Nat]
  BY DEF IInv, TypeOK
<1>2. pc = [pc EXCEPT ![t] = pc[t]] /\ depth = [depth EXCEPT ![t] = depth[t]]
  BY <1>1
<1>. QED
  BY <1>1, <1>2 DEF IInv, TypeOK, Running, NestingKept, TaskMask, PointsMatchDepth

LEMMA TaskStepKeeps == ASSUME IInv, NEW t \in Tasks, TaskStep(t) PROVE IInv'
<1>1. Running(t)
  BY DEF TaskStep, EnableInterrupt, vPortEnterCritical_Mask, vPortEnterCritical_Count,
     vPortExitCritical, vPortExitCritical_Unmask, FreeRTOS_SWI_Handler, ResumeInCritical
<1>. DEFINE R == /\ pxCurrentTCB = t /\ frames = <<>> /\ ~irqOff /\ irqOff \in BOOLEAN
                 /\ ulCriticalNesting = depth[t] /\ depth[t] \in Nat
                 /\ pc[t] \in TaskPoints /\ pmr \in {MaxApi, Unmasked}
                 /\ pmr = Unmasked <=> pc[t] = "run"
                 /\ pc[t] \in {"run", "exit"} => depth[t] = 0
                 /\ pc[t] \in {"in", "swi"} => depth[t] > 0
                 /\ pc = [pc EXCEPT ![t] = pc[t]]
                 /\ depth = [depth EXCEPT ![t] = depth[t]]
                 /\ enabled \in SUBSET Irqs /\ line \in SUBSET Irqs
<1>2. R
  BY <1>1, RunningFacts
<1>3. ASSUME NEW i \in Irqs, EnableInterrupt(t, i) PROVE IInv'
  <2>1. /\ pc' = [pc EXCEPT ![t] = pc[t]] /\ depth' = [depth EXCEPT ![t] = depth[t]]
        /\ ulCriticalNesting' = depth[t] /\ pmr' = pmr /\ irqOff' = irqOff
        /\ enabled' \in SUBSET Irqs /\ line' = line
        /\ UNCHANGED <<pxCurrentTCB, saved, handler, ulPortYieldRequired>>
    BY <1>2, <1>3 DEF EnableInterrupt, mask, task, context
  <2>. QED  BY <1>1, <1>2, <2>1, TaskKeeps
<1>4. CASE vPortEnterCritical_Mask(t)
  <2>1. /\ pc' = [pc EXCEPT ![t] = "count"] /\ depth' = [depth EXCEPT ![t] = depth[t]]
        /\ ulCriticalNesting' = depth[t] /\ pmr' = MaxApi /\ irqOff' = FALSE
        /\ enabled' = enabled /\ line' = line
        /\ UNCHANGED <<pxCurrentTCB, saved, handler, ulPortYieldRequired>>
    BY <1>2, <1>4 DEF vPortEnterCritical_Mask, ulPortSetInterruptMask, controller, context
  <2>2. "count" \in TaskPoints
    BY DEF TaskPoints
  <2>3. pmr' \in {MaxApi, Unmasked} /\ pmr' # Unmasked
    BY <2>1, Levels
  <2>. QED  BY <1>1, <1>2, <2>1, <2>2, <2>3, TaskKeeps
<1>5. CASE vPortEnterCritical_Count(t)
  <2>1. /\ pc' = [pc EXCEPT ![t] = "in"] /\ depth' = [depth EXCEPT ![t] = depth[t] + 1]
        /\ ulCriticalNesting' = depth[t] + 1 /\ pmr' = pmr /\ irqOff' = irqOff
        /\ enabled' = enabled /\ line' = line /\ pc[t] = "count"
        /\ UNCHANGED <<pxCurrentTCB, saved, handler, ulPortYieldRequired>>
    BY <1>2, <1>5 DEF vPortEnterCritical_Count, controller, mask
  <2>2. "in" \in TaskPoints
    BY DEF TaskPoints
  <2>3. depth[t] + 1 \in Nat /\ depth[t] + 1 > 0
    BY <1>2, SMT
  <2>. QED  BY <1>1, <1>2, <2>1, <2>2, <2>3, TaskKeeps
<1>6. CASE vPortExitCritical(t)
  <2>. DEFINE point == IF depth[t] - 1 = 0 THEN "exit" ELSE "in"
  <2>1. /\ pc' = [pc EXCEPT ![t] = point] /\ depth' = [depth EXCEPT ![t] = depth[t] - 1]
        /\ ulCriticalNesting' = depth[t] - 1 /\ pmr' = pmr /\ irqOff' = irqOff
        /\ enabled' = enabled /\ line' = line /\ pc[t] = "in"
        /\ UNCHANGED <<pxCurrentTCB, saved, handler, ulPortYieldRequired>>
    BY <1>2, <1>6 DEF vPortExitCritical, controller, mask
  <2>2. depth[t] - 1 \in Nat /\ (depth[t] - 1 # 0 => depth[t] - 1 > 0)
    BY <1>2, <2>1, SMT
  <2>3. /\ point \in TaskPoints /\ point # "run"
        /\ point \in {"run", "exit"} => depth[t] - 1 = 0
        /\ point \in {"in", "swi"} => depth[t] - 1 > 0
    BY <2>2 DEF TaskPoints
  <2>4. pmr # Unmasked
    BY <1>2, <2>1
  <2>. QED  BY <1>1, <1>2, <2>1, <2>2, <2>3, <2>4, TaskKeeps
<1>7. CASE vPortExitCritical_Unmask(t)
  <2>1. /\ pc' = [pc EXCEPT ![t] = "run"] /\ depth' = [depth EXCEPT ![t] = depth[t]]
        /\ ulCriticalNesting' = depth[t] /\ pmr' = Unmasked /\ irqOff' = FALSE
        /\ enabled' = enabled /\ line' = line /\ pc[t] = "exit"
        /\ UNCHANGED <<pxCurrentTCB, saved, handler, ulPortYieldRequired>>
    BY <1>2, <1>7 DEF vPortExitCritical_Unmask, portCLEAR_INTERRUPT_MASK, controller, context
  <2>2. "run" \in TaskPoints /\ pmr' \in {MaxApi, Unmasked}
    BY <2>1 DEF TaskPoints
  <2>. QED  BY <1>1, <1>2, <2>1, <2>2, TaskKeeps
<1>8. CASE FreeRTOS_SWI_Handler(t)
  <2>1. /\ pc' = [pc EXCEPT ![t] = IF pc[t] = "in" THEN "swi" ELSE pc[t]]
        /\ pc[t] \in {"run", "in"} /\ SwitchContext /\ depth' = depth
        /\ enabled' = enabled /\ line' = line /\ frames' = <<>>
        /\ ulPortInterruptNesting' = ulPortInterruptNesting
        /\ ulPortYieldRequired' = ulPortYieldRequired
    BY <1>2, <1>8 DEF FreeRTOS_SWI_Handler, controller, handler
  <2>2. /\ pc' \in [Tasks -> TaskPoints]
        /\ \A u \in Tasks : u # t => pc'[u] = pc[u]
        /\ pc'[t] \in {"run", "swi"}
        /\ pc'[t] = "run" => depth[t] = 0
        /\ pc'[t] = "swi" => depth[t] > 0
    <3>1. pc \in [Tasks -> TaskPoints]
      BY DEF IInv, TypeOK
    <3>2. pc'[t] = IF pc[t] = "in" THEN "swi" ELSE pc[t]
      BY <2>1, <3>1
    <3>. QED  BY <1>2, <2>1, <3>1, <3>2 DEF TaskPoints
  <2>3. /\ pmr' \in {MaxApi, Unmasked} /\ irqOff' = FALSE
        /\ ulCriticalNesting' \in Nat /\ pxCurrentTCB' \in Tasks
        /\ saved' \in [Tasks -> Nat]
        /\ NestingKept' /\ OthersParked' /\ PointsMatchDepth'
        /\ NotStarted' /\ TaskMask'
    BY <1>2, <2>1, <2>2, SwitchKeeps
  <2>4. TypeOK'
    <3>1. frames' \in Seq(Frame)
      BY <2>1
    <3>2. irqOff' \in BOOLEAN
      BY <2>3
    <3>3. /\ depth \in [Tasks -> Nat] /\ enabled \in SUBSET Irqs /\ line \in SUBSET Irqs
          /\ ulPortInterruptNesting \in Nat /\ ulPortYieldRequired \in BOOLEAN
      BY DEF IInv, TypeOK
    <3>. HIDE DEF R
    <3>. QED  BY <2>1, <2>2, <2>3, <3>1, <3>2, <3>3 DEF TypeOK
  <2>5. ulPortInterruptNesting' = 0
    <3>1. Len(<<>>) = 0
      BY SMT
    <3>. QED  BY <1>2, <2>1, <3>1 DEF IInv, Counts
  <2>6. LowerFramesOpen' /\ FrameMask' /\ Interrupted' /\ Counts'
    <3>1. frames = <<>>
      BY <1>2
    <3>. HIDE DEF R
    <3>. QED  BY <2>1, <2>5, <3>1 DEF IInv, LowerFramesOpen, FrameMask, Interrupted, Counts
  <2>. QED  BY <2>3, <2>4, <2>6 DEF IInv
<1>9. CASE ResumeInCritical(t)
  <2>1. /\ pc' = [pc EXCEPT ![t] = "in"] /\ depth' = [depth EXCEPT ![t] = depth[t]]
        /\ ulCriticalNesting' = depth[t] /\ pmr' = pmr /\ irqOff' = irqOff
        /\ enabled' = enabled /\ line' = line /\ pc[t] = "swi"
        /\ UNCHANGED <<pxCurrentTCB, saved, handler, ulPortYieldRequired>>
    BY <1>2, <1>9 DEF ResumeInCritical, controller, context, mask
  <2>2. "in" \in TaskPoints
    BY DEF TaskPoints
  <2>. QED  BY <1>1, <1>2, <2>1, <2>2, TaskKeeps
<1>. QED  BY <1>3, <1>4, <1>5, <1>6, <1>7, <1>8, <1>9 DEF TaskStep

-----------------------------------------------------------------------------
\* A handler is running, so the scheduler has been started.
LEMMA Started ==
  ASSUME IInv, frames # <<>> \/ line # {} \/ enabled # {}
  PROVE  pxCurrentTCB \in Tasks
  BY DEF IInv, NotStarted, TypeOK

LEMMA RaiseKeeps == ASSUME IInv, NEW i \in Irqs, Raise(i) PROVE IInv'
<1>1. /\ pmr' = pmr /\ irqOff' = irqOff /\ enabled' = enabled /\ pc' = pc
      /\ depth' = depth /\ saved' = saved /\ pxCurrentTCB' = pxCurrentTCB
      /\ ulCriticalNesting' = ulCriticalNesting /\ frames' = frames
      /\ ulPortInterruptNesting' = ulPortInterruptNesting
      /\ ulPortYieldRequired' = ulPortYieldRequired
      /\ line' \in SUBSET Irqs /\ enabled # {}
  BY DEF IInv, TypeOK, Raise, mask, task, context, handler
<1>2. TypeOK'
  BY <1>1 DEF IInv, TypeOK
<1>3. NestingKept' /\ OthersParked' /\ LowerFramesOpen' /\ PointsMatchDepth'
  BY <1>1 DEF IInv, NestingKept, OthersParked, LowerFramesOpen, PointsMatchDepth
<1>4. NotStarted'
  BY <1>1, Started, TasksAssumption DEF NotStarted
<1>5. TaskMask' /\ FrameMask' /\ Interrupted' /\ Counts'
  BY <1>1 DEF IInv, TaskMask, FrameMask, Interrupted, Counts, top
<1>. QED  BY <1>2, <1>3, <1>4, <1>5 DEF IInv

\* An interrupt finds the task outside of critical sections and the handlers
\* outside of the kernel, because the mask would have held it back.
LEMMA EntryKeeps ==
  ASSUME IInv, Maskable, FreeRTOS_IRQ_Handler_Entry
  PROVE  IInv'
<1>. DEFINE n == Len(frames)
<1>1. PICK i \in Irqs : Signalled(i)
  BY DEF FreeRTOS_IRQ_Handler_Entry
<1>2. pmr = Unmasked /\ pxCurrentTCB \in Tasks
  BY <1>1, SignalledUnmasked, Started DEF IInv, Signalled
<1>3. PICK j \in Irqs \cup {Spurious} :
        frames' = Append(frames,
                [irq |-> j, pc |-> IF j = Spurious THEN "end" ELSE "dispatch",
                 was |-> ulPortInterruptNesting, masked |-> FALSE])
  BY DEF FreeRTOS_IRQ_Handler_Entry
<1>. DEFINE f == [irq |-> j, pc |-> IF j = Spurious THEN "end" ELSE "dispatch",
                  was |-> ulPortInterruptNesting, masked |-> FALSE]
<1>4. /\ f \in Frame /\ f.pc \in {"end", "dispatch"}
      /\ f.was = ulPortInterruptNesting /\ ~f.masked
  <2>1. ulPortInterruptNesting \in Nat
    BY DEF IInv, TypeOK
  <2>2. f.pc \in {"end", "dispatch"} /\ f.pc \in FramePoints /\ f.irq = j
    BY DEF FramePoints
  <2>. QED  BY <2>1, <2>2 DEF Frame
<1>5. frames' = Append(frames, f)
  BY <1>3
<1>. HIDE DEF f
<1>6. frames \in Seq(Frame) /\ n \in Nat
  <2>1. frames \in Seq(Frame)
    BY DEF IInv, TypeOK
  <2>. QED  BY <2>1, SMT
<1>7. /\ frames' \in Seq(Frame) /\ frames' # <<>> /\ Len(frames') = n + 1
      /\ frames'[n + 1] = f /\ \A k \in 1..n : frames'[k] = frames[k]
  BY <1>4, <1>5, <1>6, AppendProperties
<1>. HIDE DEF n
<1>8. top' = f
  BY <1>7 DEF top
<1>9. /\ pmr' = pmr /\ irqOff' = TRUE /\ enabled' = enabled /\ line' = line
      /\ pc' = pc /\ depth' = depth /\ saved' = saved /\ pxCurrentTCB' = pxCurrentTCB
      /\ ulCriticalNesting' = ulCriticalNesting
      /\ ulPortInterruptNesting' = ulPortInterruptNesting + 1
      /\ ulPortYieldRequired' = ulPortYieldRequired
  BY DEF FreeRTOS_IRQ_Handler_Entry, controller, task, context
<1>10. TypeOK'
  <2>1. ulPortInterruptNesting' \in Nat
    BY <1>9, SMT DEF IInv, TypeOK
  <2>. QED  BY <1>7, <1>9, <2>1 DEF IInv, TypeOK
<1>11. NestingKept' /\ OthersParked' /\ PointsMatchDepth' /\ NotStarted' /\ TaskMask'
  BY <1>2, <1>7, <1>9, TasksAssumption DEF IInv, NestingKept, OthersParked, PointsMatchDepth,
     NotStarted, TaskMask
<1>12. \A k \in 1..(n + 1) : k \in 1..n \/ (k = n + 1 /\ ~(k < n + 1))
  BY <1>6, SMT
<1>13. \A k \in 1..n : k < n \/ k = n
  BY <1>6, SMT
<1>14. frames # <<>> => top.pc \in {"clear", "body", "end", "dispatch"}
  <2>1. frames # <<>> => n \in 1..n /\ top = frames[n]
    BY <1>6, SMT DEF n, top
  <2>2. frames # <<>> => top.pc \in FramePoints
    <3>1. frames # <<>> => top \in Frame
      BY <1>6, <2>1, SMT DEF n
    <3>. QED  BY <3>1 DEF Frame
  <2>. QED  BY <1>2, <2>2, Levels DEF IInv, FrameMask, FramePoints
<1>15. frames # <<>> => top.pc # "dispatch"
  BY DEF IInv, FrameMask, FreeRTOS_IRQ_Handler_Entry
<1>16. \A k \in 1..n : frames[k].pc \in {"clear", "body", "end"}
  <2>1. \A k \in 1..n : k = n => frames # <<>> /\ frames[k] = top
    BY <1>6, SMT DEF n, top
  <2>. QED  BY <1>13, <1>14, <1>15, <2>1 DEF IInv, LowerFramesOpen, n
<1>17. LowerFramesOpen'
  BY <1>7, <1>12, <1>16 DEF LowerFramesOpen
<1>18. FrameMask'
  BY <1>2, <1>4, <1>8, <1>9, Levels DEF FrameMask
<1>19. Interrupted'
  <2>1. frames = <<>> => pc[pxCurrentTCB] = "run"
    BY <1>2 DEF IInv, TaskMask
  <2>. QED  BY <1>9, <2>1 DEF IInv, Interrupted
<1>20. Counts'
  <2>1. ulPortInterruptNesting = n /\ n = (n + 1) - 1
    BY <1>6, SMT DEF IInv, Counts, n
  <2>2. \A k \in 1..n : frames'[k].was = k - 1 /\ ~frames'[k].masked
    BY <1>7 DEF IInv, Counts, n
  <2>3. frames'[n + 1].was = (n + 1) - 1 /\ ~frames'[n + 1].masked
    BY <1>4, <1>7, <2>1
  <2>. QED  BY <1>7, <1>9, <1>12, <2>1, <2>2, <2>3 DEF Counts
<1>. QED  BY <1>10, <1>11, <1>17, <1>18, <1>19, <1>20 DEF IInv

-----------------------------------------------------------------------------
\* What the invariant says of the handler on top.
LEMMA TopInv ==
  ASSUME IInv, frames # <<>>
  PROVE  /\ frames \in Seq(Frame) /\ Len(frames) \in Nat \ {0} /\ top \in Frame
         /\ top.pc \in FramePoints /\ top.was = Len(frames) - 1 /\ top.masked = FALSE
         /\ pmr \in {MaxApi, Unmasked}
         /\ pmr = MaxApi <=> top.pc \in {"tick", "ticked", "api"}
         /\ pxCurrentTCB \in Tasks /\ pc[pxCurrentTCB] = "run" /\ depth[pxCurrentTCB] = 0
<1>1. frames \in Seq(Frame)
  BY DEF IInv, TypeOK
<1>2. Len(frames) \in Nat \ {0}
  BY <1>1, SMT
<1>3. top \in Frame /\ Len(frames) \in 1..Len(frames)
  BY <1>1, <1>2, SMT DEF top
<1>4. top.pc \in FramePoints /\ top.masked \in BOOLEAN
  BY <1>3 DEF Frame
<1>5. top.was = Len(frames) - 1 /\ ~top.masked
  BY <1>3 DEF IInv, Counts, top
<1>6. pxCurrentTCB \in Tasks
  BY Started
<1>. QED
  BY <1>1, <1>2, <1>3, <1>4, <1>5, <1>6
  DEF IInv, TypeOK, FrameMask, Interrupted, PointsMatchDepth

\* A step of the handler on top, to a point at which the mask is as that
\* point has it.
LEMMA HandlerKeeps ==
  ASSUME IInv, frames # <<>>, NEW f \in Frame,
         frames' = [frames EXCEPT ![Len(frames)] = f],
         f.was = top.was, ~f.masked, f.pc # "dispatch",
         pmr' \in {MaxApi, Unmasked},
         pmr' = MaxApi <=> f.pc \in {"tick", "ticked", "api"},
         irqOff' \in BOOLEAN, ulPortYieldRequired' \in BOOLEAN,
         line' \in SUBSET Irqs,
         UNCHANGED <<enabled, task, context, ulPortInterruptNesting>>
  PROVE  IInv'
<1>1. /\ frames \in Seq(Frame) /\ Len(frames) \in Nat \ {0}
      /\ top.was = Len(frames) - 1 /\ pxCurrentTCB \in Tasks
  BY TopInv
<1>2. /\ frames' \in Seq(Frame) /\ Len(frames') = Len(frames) /\ frames' # <<>>
      /\ frames'[Len(frames)] = f
      /\ \A k \in 1..Len(frames) : k # Len(frames) => frames'[k] = frames[k]
  BY <1>1, TopFacts
<1>3. top' = f
  BY <1>2 DEF top
<1>4. /\ enabled' = enabled /\ pc' = pc /\ depth' = depth /\ saved' = saved
      /\ pxCurrentTCB' = pxCurrentTCB /\ ulCriticalNesting' = ulCriticalNesting
      /\ ulPortInterruptNesting' = ulPortInterruptNesting
  BY DEF task, context
<1>5. TypeOK'
  BY <1>2, <1>4 DEF IInv, TypeOK
<1>6. NestingKept' /\ OthersParked' /\ PointsMatchDepth' /\ NotStarted' /\ TaskMask' /\ Interrupted'
  BY <1>1, <1>2, <1>4, TasksAssumption DEF IInv, NestingKept, OthersParked,
     PointsMatchDepth, NotStarted, TaskMask, Interrupted
<1>7. LowerFramesOpen'
  <2>1. \A k \in 1..Len(frames) : k < Len(frames) => k # Len(frames)
    BY <1>1, SMT
  <2>. QED  BY <1>2, <2>1 DEF IInv, LowerFramesOpen
<1>8. FrameMask'
  BY <1>3 DEF FrameMask
<1>9. Counts'
  BY <1>1, <1>2, <1>4 DEF IInv, Counts
<1>. QED  BY <1>5, <1>6, <1>7, <1>8, <1>9 DEF IInv

\* Moving the handler on top to another point keeps the rest of its frame.
LEMMA GotoKeeps ==
  ASSUME IInv, frames # <<>>, NEW point \in FramePoints \ {"dispatch"}, Goto(point),
         pmr' \in {MaxApi, Unmasked},
         pmr' = MaxApi <=> point \in {"tick", "ticked", "api"},
         irqOff' \in BOOLEAN, ulPortYieldRequired' \in BOOLEAN,
         line' \in SUBSET Irqs,
         UNCHANGED <<enabled, task, context, ulPortInterruptNesting>>
  PROVE  IInv'
<1>. DEFINE f == [top EXCEPT !.pc = point]
<1>1. top \in Frame /\ top.masked = FALSE
  BY TopInv
<1>2. f \in Frame /\ f.pc = point /\ f.was = top.was /\ f.masked = top.masked
  BY <1>1 DEF Frame
<1>3. frames' = [frames EXCEPT ![Len(frames)] = f]
  BY DEF Goto, top
<1>. HIDE DEF f
<1>. QED  BY <1>1, <1>2, <1>3, HandlerKeeps

\* The exit of a handler: of a nested one back to the one below it, of the
\* outermost one to the task it interrupted or, through a switch, to another.
LEMMA ExitKeeps == ASSUME IInv, FreeRTOS_IRQ_Handler_Exit PROVE IInv'
<1>. DEFINE n == Len(frames)
<1>1. frames # <<>> /\ frames' = Front(frames) /\ ulPortInterruptNesting' = top.was
  BY DEF FreeRTOS_IRQ_Handler_Exit
<1>2. /\ frames \in Seq(Frame) /\ n \in Nat \ {0} /\ top.was = n - 1
      /\ pmr \in {MaxApi, Unmasked} /\ pxCurrentTCB \in Tasks
      /\ pc[pxCurrentTCB] = "run" /\ depth[pxCurrentTCB] = 0
  BY <1>1, TopInv
<1>3. pmr = Unmasked
  BY <1>1, <1>2, TopInv DEF FreeRTOS_IRQ_Handler_Exit
<1>4. /\ frames' \in Seq(Frame) /\ Len(frames') = n - 1
      /\ \A k \in 1..(n - 1) : frames'[k] = frames[k]
  BY <1>1, <1>2, FrontFacts
<1>5. n - 1 \in Nat /\ \A k \in 1..(n - 1) : k \in 1..n /\ k < n
  BY <1>2, SMT
<1>6. /\ enabled' = enabled /\ line' = line /\ pc' = pc /\ depth' = depth
      /\ pc \in [Tasks -> TaskPoints]
  BY DEF FreeRTOS_IRQ_Handler_Exit, controller, task, IInv, TypeOK
<1>7. \A k \in 1..(n - 1) : frames[k].pc \in {"clear", "body", "end"}
  BY <1>5 DEF IInv, LowerFramesOpen
<1>8. Counts'
  BY <1>1, <1>2, <1>4, <1>5 DEF IInv, Counts
<1>9. LowerFramesOpen'
  BY <1>4, <1>7 DEF LowerFramesOpen
<1>10. frames' # <<>> => top' \in {frames[k] : k \in 1..(n - 1)}
  <2>1. frames' # <<>> => n - 1 \in 1..(n - 1)
    BY <1>4, SMT
  <2>. QED  BY <1>4, <2>1 DEF top
<1>11. CASE ulPortInterruptNesting' = 0 /\ ulPortYieldRequired
  <2>1. SwitchContext /\ ulPortYieldRequired' = FALSE
    BY <1>11 DEF FreeRTOS_IRQ_Handler_Exit
  <2>2. frames' = <<>>
    BY <1>1, <1>2, <1>4, <1>11, SMT
  <2>3. /\ pmr' \in {MaxApi, Unmasked} /\ irqOff' = FALSE
        /\ ulCriticalNesting' \in Nat /\ pxCurrentTCB' \in Tasks
        /\ saved' \in [Tasks -> Nat]
        /\ NestingKept' /\ OthersParked' /\ PointsMatchDepth'
        /\ NotStarted' /\ TaskMask'
    <3>1. \A t \in Tasks : t # pxCurrentTCB => pc'[t] = pc[t]
      BY <1>6
    <3>. QED  BY <1>2, <1>6, <2>1, <2>2, <3>1, SwitchKeeps
  <2>4. TypeOK'
    <3>1. irqOff' \in BOOLEAN /\ ulPortYieldRequired' \in BOOLEAN
      BY <2>1, <2>3
    <3>2. ulPortInterruptNesting' \in Nat
      BY <1>1, <1>2, <1>5
    <3>3. /\ depth \in [Tasks -> Nat] /\ enabled \in SUBSET Irqs /\ line \in SUBSET Irqs
      BY DEF IInv, TypeOK
    <3>. QED  BY <1>4, <1>6, <2>3, <3>1, <3>2, <3>3 DEF TypeOK
  <2>5. FrameMask' /\ Interrupted'
    BY <2>2 DEF FrameMask, Interrupted
  <2>. QED  BY <1>8, <1>9, <2>3, <2>4, <2>5 DEF IInv
<1>12. CASE ~(ulPortInterruptNesting' = 0 /\ ulPortYieldRequired)
  <2>1. /\ irqOff' = FALSE /\ pmr' = pmr /\ ulCriticalNesting' = ulCriticalNesting
        /\ pxCurrentTCB' = pxCurrentTCB /\ saved' = saved
        /\ ulPortYieldRequired' = ulPortYieldRequired
    BY <1>12 DEF FreeRTOS_IRQ_Handler_Exit, context
  <2>2. TypeOK'
    <3>1. irqOff' \in BOOLEAN
      BY <2>1
    <3>2. ulPortInterruptNesting' \in Nat
      BY <1>1, <1>2, <1>5
    <3>. QED  BY <1>4, <1>6, <2>1, <3>1, <3>2 DEF IInv, TypeOK
  <2>3. NestingKept' /\ OthersParked' /\ PointsMatchDepth' /\ NotStarted'
    BY <1>2, <1>6, <2>1, TasksAssumption DEF IInv, NestingKept, OthersParked,
       PointsMatchDepth, NotStarted
  <2>4. TaskMask' /\ Interrupted'
    BY <1>2, <1>3, <1>6, <2>1 DEF TaskMask, Interrupted
  <2>5. FrameMask'
    BY <1>3, <1>7, <1>10, <2>1, Levels DEF FrameMask
  <2>. QED  BY <1>8, <1>9, <2>2, <2>3, <2>4, <2>5 DEF IInv
<1>. QED  BY <1>11, <1>12

LEMMA HandlerStepKeeps == ASSUME IInv, HandlerStep PROVE IInv'
<1>1. frames # <<>>
  BY DEF HandlerStep, FreeRTOS_Tick_Handler_Mask, FreeRTOS_Tick_Handler_Increment,
     FreeRTOS_Tick_Handler_Unmask, FreeRTOS_ClearTTCTickInterrupt, XEmacPs_IntrHandler,
     FromISR_Mask, FromISR_Return, FreeRTOS_IRQ_Handler_Exit, AtTop
<1>2. /\ top \in Frame /\ top.masked = FALSE /\ pmr \in {MaxApi, Unmasked}
      /\ pmr = MaxApi <=> top.pc \in {"tick", "ticked", "api"}
  BY <1>1, TopInv
<1>3. irqOff \in BOOLEAN /\ ulPortYieldRequired \in BOOLEAN /\ line \in SUBSET Irqs
  BY DEF IInv, TypeOK
<1>4. /\ MaxApi # Unmasked
      /\ {"tick", "ticked", "clear", "body", "api", "end"} \subseteq FramePoints \ {"dispatch"}
  BY Levels DEF FramePoints
<1>5. CASE FreeRTOS_Tick_Handler_Mask
  <2>1. /\ Goto("tick") /\ pmr' = MaxApi /\ irqOff' = FALSE /\ line' = line
        /\ ulPortYieldRequired' = ulPortYieldRequired
        /\ UNCHANGED <<enabled, task, context, ulPortInterruptNesting>>
    BY <1>5 DEF FreeRTOS_Tick_Handler_Mask, ulPortSetInterruptMask, controller
  <2>2. "tick" \in FramePoints \ {"dispatch"} /\ irqOff' \in BOOLEAN
    BY <1>4, <2>1
  <2>. QED  BY <1>1, <1>3, <2>1, <2>2, GotoKeeps
<1>6. CASE FreeRTOS_Tick_Handler_Increment
  <2>1. /\ Goto("ticked") /\ pmr' = pmr /\ irqOff' = irqOff /\ line' = line
        /\ ulPortYieldRequired' \in BOOLEAN /\ top.pc = "tick"
        /\ UNCHANGED <<enabled, task, context, ulPortInterruptNesting>>
    BY <1>3, <1>6 DEF FreeRTOS_Tick_Handler_Increment, AtTop, mask, controller
  <2>2. "ticked" \in FramePoints \ {"dispatch"}
    BY <1>4
  <2>. QED  BY <1>1, <1>2, <1>3, <2>1, <2>2, GotoKeeps
<1>7. CASE FreeRTOS_Tick_Handler_Unmask
  <2>1. /\ Goto("clear") /\ pmr' = Unmasked /\ irqOff' = FALSE /\ line' = line
        /\ ulPortYieldRequired' = ulPortYieldRequired
        /\ UNCHANGED <<enabled, task, context, ulPortInterruptNesting>>
    BY <1>7 DEF FreeRTOS_Tick_Handler_Unmask, portCLEAR_INTERRUPT_MASK, controller
  <2>2. "clear" \in FramePoints \ {"dispatch"} /\ irqOff' \in BOOLEAN /\ pmr' # MaxApi
    BY <1>4, <2>1
  <2>. QED  BY <1>1, <1>3, <2>1, <2>2, GotoKeeps
<1>8. CASE FreeRTOS_ClearTTCTickInterrupt
  <2>1. /\ Goto("end") /\ pmr' = pmr /\ irqOff' = irqOff /\ line' \in SUBSET Irqs
        /\ ulPortYieldRequired' = ulPortYieldRequired /\ top.pc = "clear"
        /\ UNCHANGED <<enabled, task, context, ulPortInterruptNesting>>
    BY <1>3, <1>8 DEF FreeRTOS_ClearTTCTickInterrupt, AtTop, mask
  <2>2. "end" \in FramePoints \ {"dispatch"}
    BY <1>4
  <2>. QED  BY <1>1, <1>2, <1>3, <2>1, <2>2, GotoKeeps
<1>9. CASE XEmacPs_IntrHandler
  <2>1. /\ Goto("body") /\ pmr' = pmr /\ irqOff' = irqOff /\ line' \in SUBSET Irqs
        /\ ulPortYieldRequired' = ulPortYieldRequired /\ top.pc = "dispatch"
        /\ UNCHANGED <<enabled, task, context, ulPortInterruptNesting>>
    BY <1>3, <1>9 DEF XEmacPs_IntrHandler, AtTop, mask
  <2>2. "body" \in FramePoints \ {"dispatch"}
    BY <1>4
  <2>. QED  BY <1>1, <1>2, <1>3, <2>1, <2>2, GotoKeeps
<1>10. CASE FromISR_Mask
  <2>. DEFINE f == [top EXCEPT !.pc = "api", !.masked = (pmr = MaxApi)]
  <2>1. /\ pmr' = MaxApi /\ irqOff' = FALSE /\ line' = line /\ pmr # MaxApi
        /\ ulPortYieldRequired' = ulPortYieldRequired
        /\ UNCHANGED <<enabled, task, context, ulPortInterruptNesting>>
    BY <1>2, <1>10 DEF FromISR_Mask, AtTop, ulPortSetInterruptMask, controller
  <2>2. f \in Frame /\ f.pc = "api" /\ f.was = top.was /\ ~f.masked
    BY <1>2, <1>4, <2>1 DEF Frame
  <2>3. frames' = [frames EXCEPT ![Len(frames)] = f]
    BY <1>10 DEF FromISR_Mask, top
  <2>4. irqOff' \in BOOLEAN /\ line' \in SUBSET Irqs /\ ulPortYieldRequired' \in BOOLEAN
    BY <1>3, <2>1
  <2>. HIDE DEF f
  <2>. QED  BY <1>1, <2>1, <2>2, <2>3, <2>4, HandlerKeeps
<1>11. CASE FromISR_Return
  <2>1. /\ Goto("body") /\ pmr' = Unmasked /\ irqOff' = FALSE /\ line' = line
        /\ ulPortYieldRequired' \in BOOLEAN
        /\ UNCHANGED <<enabled, task, context, ulPortInterruptNesting>>
    BY <1>2, <1>3, <1>11 DEF FromISR_Return, vPortClearInterruptMask,
       portCLEAR_INTERRUPT_MASK, controller
  <2>2. "body" \in FramePoints \ {"dispatch"} /\ irqOff' \in BOOLEAN /\ pmr' # MaxApi
    BY <1>4, <2>1
  <2>. QED  BY <1>1, <1>3, <2>1, <2>2, GotoKeeps
<1>12. CASE FreeRTOS_IRQ_Handler_Exit
  BY <1>12, ExitKeeps
<1>. QED  BY <1>5, <1>6, <1>7, <1>8, <1>9, <1>10, <1>11, <1>12 DEF HandlerStep

-----------------------------------------------------------------------------
LEMMA NextKeeps == ASSUME IInv, Maskable, [Next]_vars PROVE IInv'
<1>1. CASE xPortStartScheduler
  BY <1>1, StartKeeps
<1>2. ASSUME NEW t \in Tasks, TaskStep(t) PROVE IInv'
  BY <1>2, TaskStepKeeps
<1>3. ASSUME NEW i \in Irqs, Raise(i) PROVE IInv'
  BY <1>3, RaiseKeeps
<1>4. CASE FreeRTOS_IRQ_Handler_Entry
  BY <1>4, EntryKeeps
<1>5. CASE HandlerStep
  BY <1>5, HandlerStepKeeps
<1>6. CASE UNCHANGED vars
  <2>1. /\ pmr' = pmr /\ irqOff' = irqOff /\ enabled' = enabled /\ line' = line
        /\ pc' = pc /\ depth' = depth /\ saved' = saved /\ pxCurrentTCB' = pxCurrentTCB
        /\ ulCriticalNesting' = ulCriticalNesting /\ frames' = frames
        /\ ulPortInterruptNesting' = ulPortInterruptNesting
        /\ ulPortYieldRequired' = ulPortYieldRequired
    BY <1>6 DEF vars, mask, controller, task, context, handler
  <2>2. TypeOK' /\ NestingKept' /\ OthersParked' /\ LowerFramesOpen' /\ PointsMatchDepth'
    BY <2>1 DEF IInv, TypeOK, NestingKept, OthersParked, LowerFramesOpen, PointsMatchDepth
  <2>3. NotStarted' /\ TaskMask' /\ FrameMask' /\ Interrupted' /\ Counts'
    BY <2>1 DEF IInv, NotStarted, TaskMask, FrameMask, Interrupted, Counts, top
  <2>. QED  BY <2>2, <2>3 DEF IInv
<1>. QED  BY <1>1, <1>2, <1>3, <1>4, <1>5, <1>6 DEF Next

LEMMA InvHolds == ASSUME Maskable PROVE Spec => []IInv
<1>1. IInv /\ [Next]_vars => IInv'
  BY NextKeeps
<1>. QED  BY InitInv, <1>1, PTL DEF Spec

\* Only the handler on top can be at a point at which handlers below others
\* are not.
LEMMA OnlyTop ==
  ASSUME IInv, NEW k \in 1..Len(frames), frames[k].pc \notin {"clear", "body", "end"}
  PROVE  frames # <<>> /\ k = Len(frames) /\ frames[k] = top
<1>1. frames \in Seq(Frame) /\ ~(k < Len(frames))
  BY DEF IInv, TypeOK, LowerFramesOpen
<1>2. frames # <<>> /\ k = Len(frames)
  BY <1>1, SMT
<1>. QED  BY <1>2 DEF top

-----------------------------------------------------------------------------
\* For any tasks, interrupts and depth of nesting the variables of the port
\* keep their types, the mask register its two values (port.c, portASM.S).
THEOREM RtosTypeCorrect == ASSUME Maskable PROVE Spec => []TypeOK
<1>1. IInv => TypeOK
  BY DEF IInv
<1>. QED  BY <1>1, InvHolds, PTL

\* If the mask holds back every interrupt then no two contexts of the guest
\* are inside the kernel at once: critical sections of tasks exclude one
\* another across switches, and exclude the kernel calls of handlers
\* (vPortEnterCritical, vPortExitCritical, ulPortSetInterruptMask).
THEOREM CriticalSectionsExclude == ASSUME Maskable PROVE Spec => []KernelDataExclusive
<1>1. IInv => KernelDataExclusive
  <2>. SUFFICES ASSUME IInv PROVE KernelDataExclusive
    OBVIOUS
  <2>1. depth \in [Tasks -> Nat]
    BY DEF IInv, TypeOK
  <2>2. \A d \in Nat : d > 0 => d # 0
    BY SMT
  <2>3. \A t \in TasksInKernel : t = pxCurrentTCB /\ pc[t] # "run"
    BY <2>1, <2>2 DEF IInv, TasksInKernel, OthersParked, PointsMatchDepth
  <2>4. \A k \in HandlersInKernel : frames # <<>> /\ k = Len(frames)
    BY OnlyTop DEF HandlersInKernel
  <2>5. TasksInKernel = {} \/ HandlersInKernel = {}
    BY <2>3, <2>4 DEF IInv, Interrupted
  <2>. QED  BY <2>3, <2>4, <2>5 DEF KernelDataExclusive
<1>. QED  BY <1>1, InvHolds, PTL

\* The tick handler finds nothing masked, so that it may unmask everything at
\* its end (the comment in FreeRTOS_Tick_Handler).
THEOREM TickMayUnmask == ASSUME Maskable PROVE Spec => []TickFindsUnmasked
<1>1. IInv => TickFindsUnmasked
  <2>. SUFFICES ASSUME IInv, NEW k \in 1..Len(frames), frames[k].pc = "dispatch"
                PROVE  pmr = Unmasked
    BY DEF TickFindsUnmasked
  <2>1. frames # <<>> /\ frames[k] = top
    BY OnlyTop
  <2>. QED  BY <2>1 DEF IInv, TypeOK, FrameMask
<1>. QED  BY <1>1, InvHolds, PTL

\* Each task finds its own nesting count, however the tasks are switched
\* (portSAVE_CONTEXT, portRESTORE_CONTEXT).
THEOREM NestingIsKept == ASSUME Maskable PROVE Spec => []NestingKept
<1>1. IInv => NestingKept
  BY DEF IInv
<1>. QED  BY <1>1, InvHolds, PTL

\* While a task executes the mask is set exactly inside its critical sections
\* (vPortExitCritical, portRESTORE_CONTEXT, the handlers' unmasking).
THEOREM MaskIsNesting == ASSUME Maskable PROVE Spec => []MaskFollowsNesting
<1>1. IInv => MaskFollowsNesting
  <2>. SUFFICES ASSUME IInv, NEW t \in Tasks, Running(t), pc[t] \in {"run", "in", "swi"}
                PROVE  pmr = MaxApi <=> depth[t] > 0
    BY DEF MaskFollowsNesting
  <2>1. /\ pmr \in {MaxApi, Unmasked}
        /\ pmr = Unmasked <=> pc[t] = "run"
        /\ pc[t] = "run" => depth[t] = 0
        /\ pc[t] \in {"in", "swi"} => depth[t] > 0
    BY RunningFacts
  <2>2. ~(0 > 0)
    BY SMT
  <2>3. CASE pc[t] = "run"
    BY <2>1, <2>2, <2>3, Levels, Zenon
  <2>4. CASE pc[t] \in {"in", "swi"}
    <3>1. pmr # Unmasked /\ depth[t] > 0
      BY <2>1, <2>4
    <3>2. pmr = MaxApi
      BY <2>1, <3>1
    <3>. QED  BY <3>1, <3>2, Zenon
  <2>. QED  BY <2>3, <2>4
<1>. QED  BY <1>1, InvHolds, PTL

\* A context switch is made by a task or by the outermost handler as it
\* returns: no handler is abandoned (the count in FreeRTOS_IRQ_Handler).
THEOREM NoHandlerAbandoned == ASSUME Maskable PROVE Spec => SwitchLeavesNoHandler
<1>1. IInv /\ [Next]_vars => [pxCurrentTCB' # pxCurrentTCB => frames' = <<>>]_vars
  <2>. SUFFICES ASSUME IInv, Next, pxCurrentTCB' # pxCurrentTCB PROVE frames' = <<>>
    OBVIOUS
  <2>1. CASE xPortStartScheduler
    BY <2>1 DEF IInv, NotStarted, xPortStartScheduler, handler
  <2>2. ASSUME NEW t \in Tasks, TaskStep(t) PROVE frames' = <<>>
    BY <2>2 DEF TaskStep, EnableInterrupt, vPortEnterCritical_Mask,
       vPortEnterCritical_Count, vPortExitCritical, vPortExitCritical_Unmask,
       FreeRTOS_SWI_Handler, ResumeInCritical, Running, context, handler
  <2>3. CASE FreeRTOS_IRQ_Handler_Exit
    <3>1. frames # <<>> /\ ulPortInterruptNesting' = 0
      BY <2>3 DEF FreeRTOS_IRQ_Handler_Exit, context
    <3>2. /\ frames' = Front(frames) /\ frames \in Seq(Frame)
          /\ Len(frames) \in Nat \ {0} /\ Len(frames) - 1 = 0
      BY <2>3, <3>1, TopInv DEF FreeRTOS_IRQ_Handler_Exit
    <3>3. frames' \in Seq(Frame) /\ Len(frames') = 0
      BY <3>1, <3>2, FrontFacts
    <3>. QED  BY <3>3, SMT
  <2>. QED
    BY <2>1, <2>2, <2>3 DEF Next, Raise, HandlerStep, FreeRTOS_IRQ_Handler_Entry,
       FreeRTOS_Tick_Handler_Mask, FreeRTOS_Tick_Handler_Increment,
       FreeRTOS_Tick_Handler_Unmask, FreeRTOS_ClearTTCTickInterrupt,
       XEmacPs_IntrHandler, FromISR_Mask, FromISR_Return, context
<1>. QED  BY <1>1, InvHolds, PTL DEF Spec, SwitchLeavesNoHandler
=============================================================================
