------------------------------ MODULE GicDriver ------------------------------
(***************************************************************************)
(* The configuration half of gic.c: the registers of the interrupt         *)
(* controller, the calls with which the hypervisor (ltzvisor_hw_init) and  *)
(* the secure guest (hw_init) set it up, and what the non-secure guest's   *)
(* copy of the driver does to the same registers afterwards.               *)
(*                                                                         *)
(* The secure side runs with FIQ masked: each of its calls is one step.    *)
(* The non-secure guest can lose the CPU to a FIQ between the read and the *)
(* write of interrupt_priority_set and interrupt_target_set.               *)
(***************************************************************************)
EXTENDS Naturals, Sequences

CONSTANTS
    Ints,       \* the interrupts considered
    Boots,      \* the register contents a boot loader may leave
    LaterCalls, \* calls of S once it has started (hw_init_2, for one)
    NsInts,     \* the interrupts NS calls the driver for, its own or not
    Prios       \* the priorities NS asks for

\* zynq_ttc.h, zynq_spi.h, zynq_uart.h, ltzvisor_hw.c.
TTC0_2 == 43
TTC1_1 == 69
TTC1_2 == 70
SPI_1 == 81
UART_1 == 82
SCUTIMER == 29
GEM0 == 54

\* A call of the secure side: the function, the interrupt and the value.
Call(f, i, v) == [f |-> f, i |-> i, v |-> v]

Functions ==
    {"distributor_init", "interface_init", "security_configall",
     "security_config", "enable", "target_set", "priority_set",
     "critical_entry", "critical_exit"}

\* ltzvisor_hw_init.
LtzvisorHwInit ==
    <<Call("distributor_init", 0, 0),
      Call("interface_init", 0, 0),
      Call("security_configall", 0, 0),
      Call("security_config", UART_1, 1),
      Call("security_config", TTC1_2, 1),
      Call("security_config", SPI_1, 0),
      Call("security_config", SCUTIMER, 1),
      Call("security_config", GEM0, 1),
      Call("security_config", TTC0_2, 0)>>

\* hw_init of the secure guest.
HwInit ==
    <<Call("enable", TTC0_2, 1),
      Call("target_set", TTC0_2, 1),
      Call("priority_set", TTC0_2, 5),
      Call("enable", SPI_1, 1),
      Call("target_set", SPI_1, 1),
      Call("priority_set", SPI_1, 4)>>

\* hw_init_2, which nothing calls.
HwInit2 ==
    <<Call("enable", TTC1_1, 1),
      Call("target_set", TTC1_1, 1),
      Call("priority_set", TTC1_1, 2)>>

\* Mutant: the groups are assigned before the controller is initialised.
StartUpClassifiedFirst ==
    SubSeq(LtzvisorHwInit, 4, 9) \o SubSeq(LtzvisorHwInit, 1, 3) \o HwInit

\* ltzvisor_main as far as the controller is concerned: ltzvisor_init,
\* ltzvisor_kickoff, main.
StartUp == LtzvisorHwInit \o HwInit

ASSUME IntsAssumption ==
    /\ Ints \subseteq 0..95
    /\ {TTC0_2, SPI_1, UART_1, TTC1_2, SCUTIMER, GEM0} \subseteq Ints

\* Once it runs, S leaves the settings of its own two interrupts alone.
ASSUME LaterCallsAssumption ==
    \A c \in LaterCalls :
        \/ /\ c.f \in {"enable", "target_set", "priority_set"}
           /\ c.i \in Ints \ {TTC0_2, SPI_1}
           /\ c.v \in Nat
        \/ c.f \in {"critical_entry", "critical_exit"}

ASSUME NsAssumption == NsInts \subseteq Ints /\ Prios \subseteq Nat

\* The interrupts that share a 32-bit register with i, a byte for each.
Word(i) == {j \in Ints : j \div 4 = i \div 4}
Global == {i \in Ints : i >= 32}

\* A priority is the upper half of its byte, the part the driver sets: 0 is
\* the most urgent.
Nibbles == 0..15

\* The registers: ICDISR (the interrupts of NS), ICDISER, ICDIPR, ICDIPTR
\* (those that go to CPU 0), ICDICFR (the level-sensitive ones), ICCPMR, and
\* whether ICDDCR and ICCICR let interrupts through.
Registers ==
    [isr : SUBSET Ints, ise : SUBSET Ints, ipr : [Ints -> Nibbles],
     iptr : SUBSET Ints, level : SUBSET Ints, pmr : Nibbles,
     dist : BOOLEAN, intf : BOOLEAN]

ASSUME BootsAssumption == Boots \subseteq Registers

VARIABLES
    reg,        \* the registers
    found,      \* the identification registers read as expected
    pc,         \* the next call of StartUp, or Stuck
    world,      \* the guest that executes
    op,         \* the driver call NS is in the middle of, or NoOp
    settled     \* history: interrupts whose priority NS set last

vars == <<reg, found, pc, world, op, settled>>

\* The endless loop of ltzvisor_main after an error.
Stuck == 0
Started == pc = Len(StartUp) + 1

NoOp == [kind |-> "none"]

-----------------------------------------------------------------------------
Init ==
    /\ reg \in Boots
    /\ found \in BOOLEAN
    /\ pc = 1
    /\ world = "S"
    /\ op = NoOp
    /\ settled = {}

(***************************************************************************)
(* The driver's functions on the secure side, by what they make of the     *)
(* registers.                                                              *)
(***************************************************************************)
\* interrupt_distributor_init: the loop over ICDICFR ends before register 4.
DistributorInit ==
    [reg EXCEPT !.ise = {},
                !.ipr = [i \in Ints |-> IF i \in Global THEN 0 ELSE @[i]],
                !.iptr = @ \ Global,
                !.level = @ \cup {i \in Ints : i \in 32..63},
                !.dist = TRUE]

\* interrupt_interface_init: the registers of the private interrupts and the
\* CPU interface.  While that is disabled ICCIAR reads as 1023, so the loop
\* ends at once.
InterfaceInit ==
    [reg EXCEPT !.ipr = [i \in Ints |-> IF i \in Global THEN @[i] ELSE 0],
                !.level = @ \cap Global,
                !.pmr = 15,
                !.intf = TRUE]

SecurityConfigAll == [reg EXCEPT !.isr = @ \cup Global]

SecurityConfig(i, ns) ==
    [reg EXCEPT !.isr = IF ns = 1 THEN @ \cup {i} ELSE @ \ {i}]

InterruptEnable(i, v) ==
    [reg EXCEPT !.ise = IF v # 0 THEN @ \cup {i} ELSE @ \ {i}]

\* The targets of the private interrupts are fixed.
TargetSet(i, v) ==
    [reg EXCEPT !.iptr = IF i \notin Global THEN @
                         ELSE IF v # 0 THEN @ \cup {i} ELSE @ \ {i}]

\* Mutant: the other fields of the word are written as zero.
PrioritySetWholeWord(i, v) ==
    [reg EXCEPT !.ipr = [j \in Ints |-> IF j = i THEN v % 16
                                        ELSE IF j \in Word(i) THEN 0
                                        ELSE @[j]]]

PrioritySet(i, v) == [reg EXCEPT !.ipr[i] = v % 16]

\* interrupt_critical_entry and _exit.
CriticalEntry == [reg EXCEPT !.pmr = 0]
CriticalExit == [reg EXCEPT !.pmr = 15]

\* The registers after a call.
Effect(c) ==
    CASE c.f = "distributor_init" -> DistributorInit
      [] c.f = "interface_init" -> InterfaceInit
      [] c.f = "security_configall" -> SecurityConfigAll
      [] c.f = "security_config" -> SecurityConfig(c.i, c.v)
      [] c.f = "enable" -> InterruptEnable(c.i, c.v)
      [] c.f = "target_set" -> TargetSet(c.i, c.v)
      [] c.f = "priority_set" -> PrioritySet(c.i, c.v)
      [] c.f = "critical_entry" -> CriticalEntry
      [] c.f = "critical_exit" -> CriticalExit

\* The next call of the start-up.
StartUpCall ==
    /\ world = "S"
    /\ pc \in 1..Len(StartUp)
    /\ StartUp[pc].f = "distributor_init" => found
    /\ reg' = Effect(StartUp[pc])
    /\ pc' = pc + 1
    /\ UNCHANGED <<found, world, op, settled>>

\* interrupt_distributor_init returns FALSE, having written nothing, and
\* ltzvisor_main stops.
DistributorMissing ==
    /\ pc \in 1..Len(StartUp)
    /\ StartUp[pc].f = "distributor_init"
    /\ ~found
    /\ pc' = Stuck
    /\ UNCHANGED <<reg, found, world, op, settled>>

ErrorLoop ==
    /\ pc = Stuck
    /\ UNCHANGED vars

LaterCall(c) ==
    /\ world = "S"
    /\ Started
    /\ reg' = Effect(c)
    /\ settled' = settled \ (IF c.f = "priority_set" THEN {c.i} ELSE {})
    /\ UNCHANGED <<found, pc, world, op>>

Yield ==
    /\ world = "S"
    /\ Started
    /\ world' = "NS"
    /\ UNCHANGED <<reg, found, pc, op, settled>>

\* A FIQ, wherever NS is.
Fiq ==
    /\ world = "NS"
    /\ world' = "S"
    /\ UNCHANGED <<reg, found, pc, op, settled>>

-----------------------------------------------------------------------------
(***************************************************************************)
(* The same functions called by NS.  The controller shows NS the fields of *)
(* its own interrupts only: the others read as zero and ignore writes.  Of *)
(* the priorities NS sees and sets the lower half: it reads p as 2p and    *)
(* writes p as 8 + p/2.                                                    *)
(***************************************************************************)
NsRunning == world = "NS" /\ op = NoOp

NsEnable(i, v) ==
    /\ NsRunning
    /\ reg' = IF i \in reg.isr THEN InterruptEnable(i, v) ELSE reg
    /\ UNCHANGED <<found, pc, world, op, settled>>

\* The word of i as NS reads it, with the field of i replaced.
NsPriorityRead(i, p) ==
    /\ NsRunning
    /\ op' = [kind |-> "priority", int |-> i,
              word |-> [j \in Word(i) |->
                          IF j = i THEN p % 16
                          ELSE IF j \in reg.isr THEN (2 * reg.ipr[j]) % 16
                          ELSE 0]]
    /\ UNCHANGED <<reg, found, pc, world, settled>>

NsPriorityWrite ==
    /\ world = "NS"
    /\ op.kind = "priority"
    /\ reg' = [reg EXCEPT !.ipr =
                 [j \in Ints |-> IF j \in DOMAIN op.word \cap reg.isr
                                 THEN 8 + op.word[j] \div 2 ELSE @[j]]]
    /\ settled' = settled \cup ({op.int} \cap reg.isr)
    /\ op' = NoOp
    /\ UNCHANGED <<found, pc, world>>

NsTargetRead(i, v) ==
    /\ NsRunning
    /\ op' = [kind |-> "target", int |-> i,
              word |-> [j \in Word(i) |->
                          IF j = i THEN v
                          ELSE IF j \in reg.isr \cap reg.iptr THEN 1 ELSE 0]]
    /\ UNCHANGED <<reg, found, pc, world, settled>>

NsTargetWrite ==
    /\ world = "NS"
    /\ op.kind = "target"
    /\ LET mine == DOMAIN op.word \cap reg.isr \cap Global
       IN  reg' = [reg EXCEPT !.iptr =
                     (@ \ mine) \cup {j \in mine : op.word[j] = 1}]
    /\ op' = NoOp
    /\ UNCHANGED <<found, pc, world, settled>>

\* A write of ICCPMR by NS: ignored while S has it in the upper half.
NsCritical(v) ==
    /\ NsRunning
    /\ reg' = IF reg.pmr < 8 THEN reg ELSE [reg EXCEPT !.pmr = 8 + v \div 2]
    /\ UNCHANGED <<found, pc, world, op, settled>>

NsStep ==
    \/ \E i \in NsInts :
         \/ \E v \in {0, 1} : NsEnable(i, v) \/ NsTargetRead(i, v)
         \/ \E p \in Prios : NsPriorityRead(i, p)
    \/ NsPriorityWrite
    \/ NsTargetWrite
    \/ \E v \in {0, 15} : NsCritical(v)

Next ==
    \/ StartUpCall
    \/ DistributorMissing
    \/ ErrorLoop
    \/ \E c \in LaterCalls : LaterCall(c)
    \/ Yield
    \/ Fiq
    \/ NsStep

Spec == Init /\ [][Next]_vars

-----------------------------------------------------------------------------
Ops ==
    {NoOp} \cup
    UNION {[kind : {"priority", "target"}, int : {i}, word : [Word(i) -> Nibbles]] :
             i \in Ints}

TypeOK ==
    /\ reg \in Registers
    /\ found \in BOOLEAN
    /\ pc \in 0..Len(StartUp) + 1
    /\ world \in {"S", "NS"}
    /\ op \in Ops
    /\ settled \in SUBSET Ints

\* The interrupts of S and the priorities hw_init gives them.
SecurePrio == [i \in {TTC0_2, SPI_1} |-> IF i = TTC0_2 THEN 5 ELSE 4]

\* Once the secure guest has started, its tick and its SPI interrupt belong
\* to it, are enabled, go to the CPU and keep their priorities, whatever the
\* registers held before the start and whatever NS and S write to the words
\* they share with other interrupts, at whatever moment.  Unless S is in a
\* critical section of its own, the priority mask lets them through.
SecureInterruptsReady ==
    Started =>
        /\ reg.dist /\ reg.intf
        /\ \A i \in DOMAIN SecurePrio :
             /\ i \notin reg.isr
             /\ i \in reg.ise
             /\ i \in reg.iptr
             /\ reg.ipr[i] = SecurePrio[i]
             /\ reg.pmr # 0 => reg.ipr[i] < reg.pmr

\* An interrupt whose priority NS has set is less urgent than both
\* interrupts of S (what the FIQ handler of the monitor relies on), until S
\* itself sets it: a write-back by NS of a word read before a FIQ does not
\* bring back an old priority above them.
SettledBelowSecure ==
    \A i \in settled, s \in DOMAIN SecurePrio : reg.ipr[s] < reg.ipr[i]
=============================================================================
